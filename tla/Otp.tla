--------------------------------- MODULE Otp ---------------------------------
(***************************************************************************)
(* One-time passwords of the RBAC backend: register_user's first code,     *)
(* resend_otp, forgot_password and verify_otp over the table email_otps.   *)
(*                                                                         *)
(* As in Sessions, a request is interrupted at every await, a one-row      *)
(* write and its COMMIT are one action, a bulk UPDATE and its COMMIT two,  *)
(* and what a request has read it keeps and uses later.  The ORM writes    *)
(* `otp.attempts += 1` as the value it read plus one.                      *)
(*                                                                         *)
(* Whether a presented code matches is a free choice: the model counts     *)
(* guesses, it does not contain codes.  Sending the e-mail changes no      *)
(* state of the program and is left out; it can fail without a trace.      *)
(***************************************************************************)
EXTENDS Naturals, FiniteSets

CONSTANTS
  Users,               \* e-mail addresses somebody may register
  Requests,            \* slots for requests being served at the same time
  OtpIds,              \* rows email_otps may get
  MaxVerifyAttempts,   \* settings.otp_max_verify_attempts
  MaxResends,          \* settings.otp_max_resends
  OtpLife,             \* settings.otp_expire_minutes, in ticks
  ResendWindow,        \* settings.otp_resend_window_minutes, in ticks
  MaxTime,             \* bound on the clock, of the model only
  Endpoints,           \* routes that clients call, to keep instances small
  NoUser, NoOtp

Verification == "email_verification"
Reset        == "password_reset"
Purposes     == {Verification, Reset}

ASSUME RequestsFinite == IsFiniteSet(Requests)

ASSUME SettingsOK ==
  /\ MaxVerifyAttempts \in Nat
  /\ MaxResends \in Nat
  /\ OtpLife \in Nat
  /\ ResendWindow \in Nat
  /\ MaxTime \in Nat

AllEndpoints == {"register", "resend-otp", "forgot-password", "verify-otp"}

ASSUME EndpointsOK == Endpoints \subseteq AllEndpoints

ASSUME NullsAreOutside == NoUser \notin Users /\ NoOtp \notin OtpIds

VARIABLES
  now,         \* the clock, in ticks
  registered,  \* users with a row
  verified,    \* users.is_email_verified
  active,      \* users.is_active
  otp,         \* table email_otps
  resets,      \* users to whom a password-reset token was given
  req,         \* per slot: next statement and what the request has read
  \* history, read by no action of the program
  fails,       \* per row: wrong codes answered as wrong
  accepts,     \* per row: right codes accepted
  unanswered   \* users whose right code was answered with a server error

tables  == <<registered, verified, active, otp, resets>>
history == <<fails, accepts, unanswered>>
vars    == <<now, tables, req, history>>

NoRow == [user |-> NoUser, purpose |-> Verification, used |-> FALSE,
          attempts |-> 0, created |-> 0]

Idle == [pc |-> "idle", user |-> NoUser, purpose |-> Verification,
         otp |-> NoOtp, attempts |-> 0, verified |-> FALSE, batch |-> {}]

PCs == {"idle", "get_otp", "count_failure", "mark_used", "verify_email",
        "reply", "count_resends", "invalidate", "commit_invalidate", "insert"}

Init ==
  /\ now = 0
  /\ registered = {}
  /\ verified = [u \in Users |-> FALSE]
  /\ active = [u \in Users |-> TRUE]
  /\ otp = [o \in OtpIds |-> NoRow]
  /\ resets = {}
  /\ req = [r \in Requests |-> Idle]
  /\ fails = [o \in OtpIds |-> 0]
  /\ accepts = [o \in OtpIds |-> 0]
  /\ unanswered = {}

Finish(r) == req' = [req EXCEPT ![r] = Idle]

-----------------------------------------------------------------------------
(* The repository functions on email_otps.                                 *)

\* Mutant: the queries have lost their purpose filter.
OtpsForAnyPurpose(u, p) == {o \in OtpIds : otp[o].user = u}

OtpsOf(u, p) == {o \in OtpIds : otp[o].user = u /\ otp[o].purpose = p}

\* Mutant: get_active_otp has lost its is_used filter.
UnexpiredOtps(u, p) == {o \in OtpsOf(u, p) : otp[o].created + OtpLife > now}

UnusedOtps(u, p) == {o \in OtpsOf(u, p) : ~otp[o].used}

\* Mutant: get_active_otp still finds a code at the instant it expires.
OtpsToTheEnd(u, p) == {o \in UnusedOtps(u, p) : otp[o].created + OtpLife >= now}

LiveOtps(u, p) == {o \in UnusedOtps(u, p) : otp[o].created + OtpLife > now}

(***************************************************************************)
(* get_active_otp: the newest unused, unexpired row.  Rows created in the  *)
(* same tick are told apart by transaction start times that need not       *)
(* follow the order of the commits, so any of them may be the newest.      *)
(***************************************************************************)
GetActiveOtp(u, p) ==
  {o \in LiveOtps(u, p) :
     \A other \in LiveOtps(u, p) : otp[other].created <= otp[o].created}

RecentOtps(u, p) == {o \in OtpsOf(u, p) : otp[o].created + ResendWindow >= now}

\* Mutant: only codes that can still be used count towards the limit.
CountLiveOtps(u, p) == Cardinality(LiveOtps(u, p))

CountRecentResends(u, p) == Cardinality(RecentOtps(u, p))

-----------------------------------------------------------------------------
(* register_user: the account, then (after its role) the first code.       *)

RegisterCreate(r, u) ==
  /\ "register" \in Endpoints
  /\ req[r].pc = "idle"
  /\ u \notin registered
  /\ registered' = registered \cup {u}
  /\ req' = [req EXCEPT ![r] = [Idle EXCEPT !.pc = "insert", !.user = u]]
  /\ UNCHANGED <<now, verified, active, otp, resets, history>>

(* create_email_otp, the last write of register, resend and forgot.        *)
CreateEmailOtp(r, o) ==
  /\ req[r].pc = "insert"
  /\ otp[o] = NoRow
  /\ otp' = [otp EXCEPT ![o] =
               [user |-> req[r].user, purpose |-> req[r].purpose,
                used |-> FALSE, attempts |-> 0, created |-> now]]
  /\ Finish(r)
  /\ UNCHANGED <<now, registered, verified, active, resets, history>>

-----------------------------------------------------------------------------
(* resend_otp and forgot_password.                                         *)

StartSending(r, u, p) ==
  /\ req[r].pc = "idle"
  /\ u \in registered
  /\ req' = [req EXCEPT ![r] =
               [Idle EXCEPT !.pc = "count_resends", !.user = u, !.purpose = p]]
  /\ UNCHANGED <<now, tables, history>>

ResendRead(r, u, p) ==
  /\ "resend-otp" \in Endpoints
  /\ StartSending(r, u, p)

(* forgot_password alone asks for an active account.                       *)
ForgotRead(r, u) ==
  /\ "forgot-password" \in Endpoints
  /\ active[u]
  /\ StartSending(r, u, Reset)

(* At the limit a resend is refused and a forgot ends without a word.      *)
CountResends(r) ==
  /\ req[r].pc = "count_resends"
  /\ IF CountRecentResends(req[r].user, req[r].purpose) >= MaxResends
     THEN Finish(r)
     ELSE req' = [req EXCEPT ![r].pc = "invalidate"]
  /\ UNCHANGED <<now, tables, history>>

InvalidateExecute(r) ==
  /\ req[r].pc = "invalidate"
  /\ req' = [req EXCEPT ![r].pc = "commit_invalidate",
                        ![r].batch = UnusedOtps(req[r].user, req[r].purpose)]
  /\ UNCHANGED <<now, tables, history>>

\* Mutant: the UPDATE is executed and never committed.
InvalidateRollback(r) ==
  /\ req[r].pc = "commit_invalidate"
  /\ req' = [req EXCEPT ![r].pc = "insert", ![r].batch = {}]
  /\ UNCHANGED <<now, tables, history>>

InvalidateCommit(r) ==
  /\ req[r].pc = "commit_invalidate"
  /\ otp' = [o \in OtpIds |->
               IF o \in req[r].batch THEN [otp[o] EXCEPT !.used = TRUE]
               ELSE otp[o]]
  /\ req' = [req EXCEPT ![r].pc = "insert", ![r].batch = {}]
  /\ UNCHANGED <<now, registered, verified, active, resets, history>>

-----------------------------------------------------------------------------
(* verify_otp.                                                             *)

VerifyRead(r, u, p) ==
  /\ "verify-otp" \in Endpoints
  /\ req[r].pc = "idle"
  /\ u \in registered
  /\ req' = [req EXCEPT ![r] =
               [Idle EXCEPT !.pc = "get_otp", !.user = u, !.purpose = p,
                            !.verified = verified[u]]]
  /\ UNCHANGED <<now, tables, history>>

\* Mutant: the limit is tested with > instead of >=.
OneMoreAttempt(o) == otp[o].attempts <= MaxVerifyAttempts

AttemptsLeft(o) == otp[o].attempts < MaxVerifyAttempts

(* There is no live code, or it has been guessed at too often: an error.   *)
VerifyRefuse(r) ==
  /\ req[r].pc = "get_otp"
  /\ \/ GetActiveOtp(req[r].user, req[r].purpose) = {}
     \/ \E o \in GetActiveOtp(req[r].user, req[r].purpose) : ~AttemptsLeft(o)
  /\ Finish(r)
  /\ UNCHANGED <<now, tables, history>>

(* The row is read and the code compared with it; next says the outcome.   *)
VerifyCompare(r, o, next) ==
  /\ req[r].pc = "get_otp"
  /\ o \in GetActiveOtp(req[r].user, req[r].purpose)
  /\ AttemptsLeft(o)
  /\ req' = [req EXCEPT ![r].pc = next, ![r].otp = o,
                        ![r].attempts = otp[o].attempts]
  /\ UNCHANGED <<now, tables, history>>

\* Mutant: the failed attempt is answered and not counted.
ForgetFailure(r) ==
  /\ req[r].pc = "count_failure"
  /\ fails' = [fails EXCEPT ![req[r].otp] = @ + 1]
  /\ Finish(r)
  /\ UNCHANGED <<now, tables, accepts, unanswered>>

IncrementOtpAttempts(r) ==
  /\ req[r].pc = "count_failure"
  /\ otp' = [otp EXCEPT ![req[r].otp].attempts = req[r].attempts + 1]
  /\ fails' = [fails EXCEPT ![req[r].otp] = @ + 1]
  /\ Finish(r)
  /\ UNCHANGED <<now, registered, verified, active, resets, accepts, unanswered>>

MarkOtpUsed(r) ==
  /\ req[r].pc = "mark_used"
  /\ otp' = [otp EXCEPT ![req[r].otp].used = TRUE]
  /\ accepts' = [accepts EXCEPT ![req[r].otp] = @ + 1]
  /\ req' = [req EXCEPT ![r].pc =
               IF req[r].verified THEN "reply" ELSE "verify_email"]
  /\ UNCHANGED <<now, registered, verified, active, resets, fails, unanswered>>

VerifyUserEmail(r) ==
  /\ req[r].pc = "verify_email"
  /\ verified' = [verified EXCEPT ![req[r].user] = TRUE]
  /\ req' = [req EXCEPT ![r].pc = "reply"]
  /\ UNCHANGED <<now, registered, active, otp, resets, history>>

(* For a password reset the answer is a reset token.                       *)
ReplyResetToken(r) ==
  /\ req[r].pc = "reply"
  /\ req[r].purpose = Reset
  /\ resets' = resets \cup {req[r].user}
  /\ Finish(r)
  /\ UNCHANGED <<now, registered, verified, active, otp, history>>

(***************************************************************************)
(* For an e-mail verification the handler names `uuid`, which the module   *)
(* does not import: NameError, a server error, after the commits above.    *)
(***************************************************************************)
ReplyTokenPair(r) ==
  /\ req[r].pc = "reply"
  /\ req[r].purpose = Verification
  /\ unanswered' = unanswered \cup {req[r].user}
  /\ Finish(r)
  /\ UNCHANGED <<now, tables, fails, accepts>>

-----------------------------------------------------------------------------
(* Whatever else happens: a request ends at an await, an administrator     *)
(* deletes the user, time passes.                                          *)

Abort(r) ==
  /\ req[r].pc # "idle"
  /\ Finish(r)
  /\ UNCHANGED <<now, tables, history>>

SoftDeleteUser(u) ==
  /\ u \in registered
  /\ active' = [active EXCEPT ![u] = FALSE]
  /\ UNCHANGED <<now, registered, verified, otp, resets, req, history>>

Tick ==
  /\ now < MaxTime
  /\ now' = now + 1
  /\ UNCHANGED <<tables, req, history>>

Send(r) ==
  \/ \E u \in Users : RegisterCreate(r, u) \/ ForgotRead(r, u)
  \/ \E u \in Users, p \in Purposes : ResendRead(r, u, p)
  \/ CountResends(r)
  \/ InvalidateExecute(r)
  \/ InvalidateCommit(r)
  \/ \E o \in OtpIds : CreateEmailOtp(r, o)

Verify(r) ==
  \/ \E u \in Users, p \in Purposes : VerifyRead(r, u, p)
  \/ VerifyRefuse(r)
  \/ \E o \in OtpIds, next \in {"count_failure", "mark_used"} :
        VerifyCompare(r, o, next)
  \/ IncrementOtpAttempts(r)
  \/ MarkOtpUsed(r)
  \/ VerifyUserEmail(r)
  \/ ReplyResetToken(r)
  \/ ReplyTokenPair(r)

Next ==
  \/ \E r \in Requests : Send(r) \/ Verify(r) \/ Abort(r)
  \/ \E u \in Users : SoftDeleteUser(u)
  \/ Tick

Spec == Init /\ [][Next]_vars

-----------------------------------------------------------------------------
(* Properties.                                                             *)

Row == [user : Users \cup {NoUser}, purpose : Purposes, used : BOOLEAN,
        attempts : 0 .. MaxVerifyAttempts, created : 0 .. MaxTime]

Slot == [pc : PCs, user : Users \cup {NoUser}, purpose : Purposes,
         otp : OtpIds \cup {NoOtp}, attempts : 0 .. MaxVerifyAttempts,
         verified : BOOLEAN, batch : SUBSET OtpIds]

(* A request past its first read acts for a registered user; to count a    *)
(* failure it holds the row and a count with room for one more.            *)
SlotOK(s) ==
  /\ s.pc # "idle" => s.user \in registered
  /\ s.pc \in {"count_failure", "mark_used"} => s.otp \in OtpIds
  /\ s.pc = "count_failure" => s.attempts < MaxVerifyAttempts

(***************************************************************************)
(* Types of the tables and the slots.  The attempts column never exceeds   *)
(* settings.otp_max_verify_attempts, whatever requests interleave.         *)
(***************************************************************************)
TypeOK ==
  /\ now \in 0 .. MaxTime
  /\ registered \in SUBSET Users
  /\ verified \in [Users -> BOOLEAN]
  /\ active \in [Users -> BOOLEAN]
  /\ otp \in [OtpIds -> Row]
  /\ resets \in SUBSET Users
  /\ req \in [Requests -> Slot]
  /\ \A r \in Requests : SlotOK(req[r])
  /\ fails \in [OtpIds -> Nat]
  /\ accepts \in [OtpIds -> Nat]
  /\ unanswered \in SUBSET Users

(***************************************************************************)
(* One code is accepted at most once per concurrent request: each of them  *)
(* may have read the row before the first mark_otp_used committed, and     *)
(* none reads it after.  mark_otp_used says "so it cannot be replayed",    *)
(* which is this bound for one request at a time.                          *)
(***************************************************************************)
AcceptsBounded == \A o \in OtpIds : accepts[o] <= Cardinality(Requests)

(***************************************************************************)
(* expires_at is read once, with the row, and a request may go on with the *)
(* row after it.  From its expiry a code is answered, right or wrong, only *)
(* to requests that had read it before, once to each: no other one joins   *)
(* them, so the answers given and to be given never grow again.            *)
(***************************************************************************)
Expired(o) == otp[o] # NoRow /\ otp[o].created + OtpLife <= now

Holders(o) == {r \in Requests :
  req[r].pc \in {"count_failure", "mark_used"} /\ req[r].otp = o}

ExpiryCutsOff ==
  [][\A o \in OtpIds : Expired(o) =>
       fails'[o] + accepts'[o] + Cardinality(Holders(o)')
         <= fails[o] + accepts[o] + Cardinality(Holders(o))]_vars

(***************************************************************************)
(* How many wrong codes one row answers.  `otp.attempts += 1` writes the   *)
(* value read plus one, so a request that kept a small value sets the      *)
(* counter back and gives the others their attempts again.  With k         *)
(* requests at once and the limit m the total is still finite: it is less  *)
(* than the number of ways to choose m out of m + k, and m when k = 1.     *)
(***************************************************************************)
Choices ==
  {S \in SUBSET (1 .. MaxVerifyAttempts + Cardinality(Requests)) :
     Cardinality(S) = MaxVerifyAttempts}

GuessBudget == \A o \in OtpIds : fails[o] < Cardinality(Choices)

(***************************************************************************)
(* Of the codes sent to a user for one purpose, no more are unused at any  *)
(* time than there are concurrent requests: a request inserts a code only  *)
(* after it has invalidated those it found, register's excepted, which is  *)
(* the first one.                                                          *)
(***************************************************************************)
UnusedBounded ==
  \A u \in Users, p \in Purposes :
     Cardinality(UnusedOtps(u, p)) <= Cardinality(Requests)

(***************************************************************************)
(* In no resend window are more codes created for a user and purpose than  *)
(* the limit and the requests that passed its check at the same time,      *)
(* which may exceed the limit by all of them but one.  Register asks for   *)
(* no limit: with one of zero there still is its code.                     *)
(***************************************************************************)
SendLimit == (IF MaxResends = 0 THEN 1 ELSE MaxResends)
               + Cardinality(Requests) - 1

SendsBounded ==
  \A u \in Users, p \in Purposes :
     Cardinality(RecentOtps(u, p)) <= SendLimit

(***************************************************************************)
(* Of the accounts made by register_user none counts as verified, and none *)
(* is given a password-reset token, before a code sent to it was shown     *)
(* (for the reset token, one sent for a reset).                            *)
(***************************************************************************)
CodeShown(u, P) ==
  \E o \in OtpIds : otp[o].user = u /\ otp[o].purpose \in P /\ accepts[o] > 0

OnlyByCode ==
  \A u \in Users :
     /\ verified[u] => CodeShown(u, Purposes)
     /\ u \in resets => CodeShown(u, {Reset})

-----------------------------------------------------------------------------
(* What the repository says and the program does not keep.                 *)

(***************************************************************************)
(* verify_otp: "email_verification -> marks email as verified, returns     *)
(* token pair."  No accepted code is answered with a server error.         *)
(***************************************************************************)
VerificationAnswered == unanswered = {}

=============================================================================
