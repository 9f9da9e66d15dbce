------------------------------ MODULE Serving ------------------------------
(***************************************************************************)
(* How the RBAC backend serves one HTTP request among others: the stack of *)
(* middleware create_app builds, the gates, and the database connection    *)
(* the handler borrows from the engine's pool.                             *)
(*                                                                         *)
(* Depends(get_db) is cached, so a request has one session, and a session  *)
(* at most one connection: it takes one at the first statement of a        *)
(* transaction and gives it back at COMMIT or when the session is closed.  *)
(* The handlers are those of Sessions, Otp and Rbac; here they are a       *)
(* number of transactions, and perhaps an e-mail.                          *)
(*                                                                         *)
(* FastAPI leaves get_db, and so closes the session, before the response   *)
(* goes back through the middleware.  An exception no handler maps goes    *)
(* past all of it, to the handler that create_app registers for Exception, *)
(* which Starlette runs outside the stack.                                 *)
(***************************************************************************)
EXTENDS Naturals, FiniteSets, Sequences

CONSTANTS
  Requests,        \* slots for requests being served at the same time
  Connections,     \* settings.db_pool_size + settings.db_max_overflow
  MaxTransactions  \* transactions of one handler, a bound of the model

ASSUME PoolOK == Connections \in Nat \ {0} /\ MaxTransactions \in Nat \ {0}

VARIABLES
  cors,   \* settings.cors_origins is not empty
  req     \* per slot: where the request is and what it carries

servingVars == <<cors, req>>

(***************************************************************************)
(* What a request asks for: a browser's preflight of a protected route,    *)
(* from an origin settings.cors_origins lists or from another one, a route *)
(* under /users or /admin, one under /auth, one of these that sends a code *)
(* by e-mail, or the health check.                                         *)
(***************************************************************************)
Preflights == {"preflight", "foreign_preflight"}

Kinds == Preflights \cup {"protected", "public", "mail", "health"}

PCs == {"idle", "down", "gate", "query", "transaction", "mail", "close", "up",
        "done"}

(***************************************************************************)
(* depth is the layer a request goes down into or a response comes up      *)
(* from; passed is history: the layers a response went through, of which   *)
(* "logging" and "security" leave their headers on it.                     *)
(***************************************************************************)
Idle == [pc |-> "idle", kind |-> "health", depth |-> 0, payload |-> FALSE,
         left |-> 0, conn |-> FALSE, status |-> 0, passed |-> {}]

Init ==
  /\ cors \in BOOLEAN
  /\ req = [r \in Requests |-> Idle]

(* create_app adds the layers in this order.                               *)
Added == IF cors THEN <<"logging", "security", "auth", "cors">>
                 ELSE <<"logging", "security", "auth">>

\* Mutant: the order the docstring gives, first added outermost.
FirstAddedOutermost(d) == Added[d]

(* add_middleware puts each layer around those before it.                  *)
Layer(d) == Added[Len(Added) + 1 - d]

InUse == Cardinality({r \in Requests : req[r].conn})

Become(r, s) == req' = [req EXCEPT ![r] = s]

-----------------------------------------------------------------------------
(* Down through the middleware.                                            *)

Arrive(r, kind, n) ==
  /\ req[r].pc = "idle"
  /\ Become(r, [Idle EXCEPT !.pc = "down", !.kind = kind, !.depth = 1, !.left = n])

(* A layer answers in the place of the route.                              *)
Answer(s, status) == [s EXCEPT !.pc = "up", !.status = status, !.depth = @ - 1]

PassOn(s) == IF s.depth = Len(Added) THEN [s EXCEPT !.pc = "gate"]
             ELSE [s EXCEPT !.depth = @ + 1]

(* RequestLoggingMiddleware and SecurityHeadersMiddleware act on responses.*)
PassPlainLayer(r) ==
  /\ req[r].pc = "down"
  /\ Layer(req[r].depth) \in {"logging", "security"}
  /\ Become(r, PassOn(req[r]))

(* CORSMiddleware: a preflight goes no further, whether it is allowed or   *)
(* its origin is not listed ("Disallowed CORS origin").                    *)
PassCors(r) ==
  LET s == req[r] IN
  /\ s.pc = "down"
  /\ Layer(s.depth) = "cors"
  /\ \/ s.kind = "preflight" /\ Become(r, Answer(s, 200))
     \/ s.kind = "foreign_preflight" /\ Become(r, Answer(s, 400))
     \/ s.kind \notin Preflights /\ Become(r, PassOn(s))

\* Mutant: a prefix of the protected routes is excluded as well.
ExcludedTooMuch(kind) == kind \notin Preflights

IsExcluded(kind) == kind \in {"public", "mail", "health"}

(* AuthMiddleware; a preflight carries no token, others a good one or not. *)
PassAuth(r) ==
  LET s == req[r] IN
  /\ s.pc = "down"
  /\ Layer(s.depth) = "auth"
  /\ \/ IsExcluded(s.kind) /\ Become(r, PassOn(s))
     \/ ~IsExcluded(s.kind) /\ s.kind \notin Preflights
          /\ Become(r, PassOn([s EXCEPT !.payload = TRUE]))
     \/ ~IsExcluded(s.kind) /\ Become(r, Answer(s, 401))

(***************************************************************************)
(* The route and its dependencies: a gate that finds no payload is a 401,  *)
(* one that finds no right in it a 403.                                    *)
(***************************************************************************)
Route(r) ==
  LET s == req[r] IN
  /\ s.pc = "gate"
  /\ \/ s.kind # "protected" /\ Become(r, [s EXCEPT !.pc = "query"])
     \/ s.kind = "protected" /\ s.payload /\ Become(r, [s EXCEPT !.pc = "query"])
     \/ s.kind = "protected"
          /\ Become(r, [s EXCEPT !.pc = "close",
                                 !.status = IF s.payload THEN 403 ELSE 401])

-----------------------------------------------------------------------------
(* The handler and the pool.                                               *)

\* Mutant: the pool hands out more connections than it has.
OverdrawnConnect(r) ==
  /\ req[r].pc = "query"
  /\ InUse <= Connections
  /\ Become(r, [req[r] EXCEPT !.pc = "transaction", !.conn = TRUE])

(* The first statement of a transaction takes a connection.                *)
Connect(r) ==
  /\ req[r].pc = "query"
  /\ InUse < Connections
  /\ Become(r, [req[r] EXCEPT !.pc = "transaction", !.conn = TRUE])

\* Mutant: the pool is created without pool_timeout.
WaitForEver(r) == FALSE /\ UNCHANGED req

(* An exception is a server error; the health check catches its own.       *)
Raised(s) == [s EXCEPT !.pc = "close",
                       !.status = IF s.kind = "health" THEN 503 ELSE 500]

(* pool_timeout has passed without a connection: TimeoutError.             *)
PoolTimeout(r) ==
  /\ req[r].pc = "query"
  /\ InUse >= Connections
  /\ Become(r, Raised(req[r]))

\* Mutant: COMMIT keeps the connection for the next transaction.
CommitAndKeep(s) == [s EXCEPT !.left = @ - 1, !.pc = "query"]

(* COMMIT gives the connection back; the next statement takes one again.   *)
Committed(s) == [s EXCEPT !.left = @ - 1, !.pc = "query", !.conn = FALSE]

Commit(r) ==
  /\ req[r].pc = "transaction"
  /\ req[r].left > 1
  /\ Become(r, Committed(req[r]))

(***************************************************************************)
(* The last transaction: it ended with a COMMIT, or it is still open after *)
(* a SELECT or a refresh, as in create_email_otp before the e-mail.        *)
(***************************************************************************)
Finish(r) ==
  LET s == req[r]
      answered == [s EXCEPT !.pc = "close", !.status = 200]
  IN
  /\ s.pc = "transaction"
  /\ s.left = 1
  /\ \/ s.kind = "mail" /\ Become(r, [s EXCEPT !.pc = "mail"])
     \/ Become(r, answered)
     \/ s.kind # "health" /\ Become(r, [answered EXCEPT !.conn = FALSE])

(* A service or a gate raises an error that maps to a response.            *)
RaiseAppError(r) ==
  /\ req[r].pc = "transaction"
  /\ req[r].kind # "health"
  /\ Become(r, [req[r] EXCEPT !.pc = "close", !.status = 400])

(* The database fails, or the code does.                                   *)
RaiseException(r) ==
  /\ req[r].pc = "transaction"
  /\ Become(r, Raised(req[r]))

(***************************************************************************)
(* send_otp_email returns, with whatever outcome; the call to SendGrid has *)
(* no time limit.                                                          *)
(***************************************************************************)
MailReturns(r) ==
  /\ req[r].pc = "mail"
  /\ Become(r, [req[r] EXCEPT !.pc = "close", !.status = 200])

\* Mutant: get_db yields a session that nobody closes.
LeaveOpen(s) == s

(* The end of get_db: roll back what is open, close the session.           *)
CloseSession(s) == [s EXCEPT !.conn = FALSE]

(* A server error does not go back through the middleware.                 *)
LeaveRoute(r) ==
  LET s == CloseSession(req[r]) IN
  /\ s.pc = "close"
  /\ Become(r, IF s.status = 500 THEN [s EXCEPT !.pc = "done"]
               ELSE [s EXCEPT !.pc = "up"])

-----------------------------------------------------------------------------
(* Up through the middleware.                                              *)

\* Mutant: the headers are added to successful responses only.
PassSuccessful(s) ==
  [s EXCEPT !.depth = @ - 1,
            !.passed = IF s.status = 200 THEN @ \cup {Layer(s.depth)} ELSE @]

PassUp(s) == [s EXCEPT !.depth = @ - 1, !.passed = @ \cup {Layer(s.depth)}]

Respond(r) ==
  LET s == req[r] IN
  /\ s.pc = "up"
  /\ Become(r, IF s.depth = 0 THEN [s EXCEPT !.pc = "done"] ELSE PassUp(s))

Leave(r) ==
  /\ req[r].pc = "done"
  /\ Become(r, Idle)

-----------------------------------------------------------------------------
(* The steps a request takes by itself.                                    *)
Serve(r) ==
  \/ PassPlainLayer(r) \/ PassCors(r) \/ PassAuth(r)
  \/ Route(r)
  \/ Connect(r) \/ PoolTimeout(r)
  \/ Commit(r) \/ Finish(r) \/ RaiseAppError(r) \/ RaiseException(r)
  \/ LeaveRoute(r)
  \/ Respond(r)
  \/ Leave(r)

ServingNext ==
  /\ \E r \in Requests :
       \/ \E kind \in Kinds, n \in 1 .. MaxTransactions : Arrive(r, kind, n)
       \/ Serve(r)
       \/ MailReturns(r)
  /\ UNCHANGED cors

(***************************************************************************)
(* The event loop resumes every request that can go on, and pool_timeout   *)
(* expires.  That SendGrid ever answers is not assumed.                    *)
(***************************************************************************)
Fairness == \A r \in Requests : WF_servingVars(Serve(r) /\ UNCHANGED cors)

ServingSpec == Init /\ [][ServingNext]_servingVars /\ Fairness

-----------------------------------------------------------------------------
(* Properties.                                                             *)

Slot == [pc : PCs, kind : Kinds, depth : 0 .. 4, payload : BOOLEAN,
         left : 0 .. MaxTransactions, conn : BOOLEAN,
         status : {0, 200, 400, 401, 403, 500, 503},
         passed : SUBSET {"logging", "security", "auth", "cors"}]

(***************************************************************************)
(* Types; the pool never lends more connections than it has.               *)
(***************************************************************************)
ServingTypeOK ==
  /\ cors \in BOOLEAN
  /\ req \in [Requests -> Slot]
  /\ InUse <= Connections

(***************************************************************************)
(* No request keeps a connection after its route is left, whichever way    *)
(* the handler ended, and none waits for a connection while it holds one:  *)
(* requests that need several transactions cannot wait for each other in a *)
(* circle.                                                                 *)
(***************************************************************************)
ConnectionsReturned ==
  \A r \in Requests :
     req[r].conn => req[r].pc \in {"transaction", "mail", "close"}

(***************************************************************************)
(* _get_token_payload: "The AuthMiddleware populates                       *)
(* request.state.token_payload before any route handler is called".  The   *)
(* 401 of the gates is never the answer: no request gets as far without a  *)
(* payload.                                                                *)
(***************************************************************************)
GateFindsPayload ==
  \A r \in Requests :
     req[r].pc = "gate" /\ req[r].kind = "protected" => req[r].payload

(***************************************************************************)
(* A preflight carries no token.  With origins configured the list alone   *)
(* decides on it: one from a listed origin is allowed, one from another is *)
(* refused as that, and none gets as far as AuthMiddleware's 401, which    *)
(* would make every call from a browser fail.                              *)
(***************************************************************************)
PreflightAnswered ==
  \A r \in Requests : LET s == req[r] IN
     cors /\ s.pc = "done" =>
        /\ s.kind = "preflight" => s.status = 200
        /\ s.kind = "foreign_preflight" => s.status = 400

(***************************************************************************)
(* Every response without the security headers and the X-Request-ID is a   *)
(* server error, the 401 of AuthMiddleware or a preflight's answer; those  *)
(* of the routes have both, refusals included.                             *)
(***************************************************************************)
BareResponsesExplained ==
  \A r \in Requests : LET s == req[r] IN
     s.pc = "done" /\ ~({"logging", "security"} \subseteq s.passed) =>
        \/ s.status = 500
        \/ s.status = 401 /\ ~s.payload
        \/ s.kind \in Preflights

(***************************************************************************)
(* Every request that sends no e-mail is answered, even while all          *)
(* connections are held by requests whose e-mail never comes to an end.    *)
(***************************************************************************)
EveryRequestAnswered ==
  \A r \in Requests :
     (req[r].pc # "idle" /\ req[r].kind # "mail") ~> (req[r].pc = "done")

-----------------------------------------------------------------------------
(* What the repository says and the program does not keep.                 *)

(***************************************************************************)
(* SecurityHeadersMiddleware: "Inject a standard set of security headers   *)
(* into every HTTP response."                                              *)
(***************************************************************************)
HeadersOnEveryResponse ==
  \A r \in Requests : req[r].pc = "done" => "security" \in req[r].passed

=============================================================================
