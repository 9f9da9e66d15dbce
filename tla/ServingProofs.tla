---------------------------- MODULE ServingProofs ----------------------------
(***************************************************************************)
(* Proofs about Serving, for any number of request slots, any pool and any *)
(* number of transactions.  What a request is owed depends on where it is  *)
(* in the stack of middleware, so the invariant says, for every place,     *)
(* what a request there has behind it.                                     *)
(***************************************************************************)
EXTENDS Serving, FiniteSetTheorems, TLAPS

(* How many layers there are, and which of them is AuthMiddleware.         *)
Height    == Len(Added)
AuthDepth == IF cors THEN 2 ELSE 1

(* On the way down: behind AuthMiddleware a protected route's request has  *)
(* a payload, and a preflight comes no further than AuthMiddleware.        *)
DownOK(s) ==
  s.pc = "down" =>
     /\ s.depth \in 1 .. Height
     /\ s.depth > AuthDepth /\ s.kind = "protected" => s.payload
     /\ s.depth <= AuthDepth => ~s.payload
     /\ s.kind \in Preflights => s.depth = 1

Inside == {"gate", "query", "transaction", "mail", "close"}

(* Inside the route: the whole stack is behind it.                         *)
InsideOK(s) ==
  s.pc \in Inside =>
     /\ s.depth = Height
     /\ s.kind = "protected" => s.payload
     /\ s.kind \notin Preflights

(* A response that did not start at the route.                             *)
Short(s) == s.kind \in Preflights \/ (s.status = 401 /\ ~s.payload)

(* CORSMiddleware has answered a preflight by the list of origins.         *)
Decided(s) == /\ s.kind = "preflight" => s.status = 200
              /\ s.kind = "foreign_preflight" => s.status = 400

(* On the way up: the layers below have left their headers.                *)
UpOK(s) ==
  /\ s.pc = "up" =>
       /\ s.depth \in 0 .. Height
       /\ Short(s) \/ \A d \in s.depth + 1 .. Height : Layer(d) \in s.passed
  /\ s.pc = "done" =>
       \/ Short(s) \/ s.status = 500
       \/ {"logging", "security"} \subseteq s.passed
  /\ s.pc \in {"up", "done"} /\ cors => Decided(s)

Returned(s) == s.conn => s.pc \in {"transaction", "mail", "close"}

Good(s) ==
  s \in Slot /\ DownOK(s) /\ InsideOK(s) /\ UpOK(s) /\ Returned(s)

Borrowers == {r \in Requests : req[r].conn}

PoolInv == IsFiniteSet(Borrowers) /\ Cardinality(Borrowers) <= Connections

ServingInv ==
  /\ cors \in BOOLEAN
  /\ req \in [Requests -> Slot]
  /\ \A r \in Requests : Good(req[r])
  /\ PoolInv

-----------------------------------------------------------------------------
(* The stack has three or four layers, AuthMiddleware among them.          *)
LEMMA Stack ==
  ASSUME cors \in BOOLEAN
  PROVE  /\ Height = IF cors THEN 4 ELSE 3
         /\ cors => Layer(1) = "cors" /\ Layer(2) = "auth"
                      /\ Layer(3) = "security" /\ Layer(4) = "logging"
         /\ ~cors => Layer(1) = "auth" /\ Layer(2) = "security"
                       /\ Layer(3) = "logging"
<1>1. CASE cors
  BY <1>1 DEF Added, Layer, Height
<1>2. CASE ~cors
  BY <1>2 DEF Added, Layer, Height
<1> QED
  BY <1>1, <1>2

Statuses == {0, 200, 400, 401, 403, 500, 503}

(* A slot stays one when a field takes a value of its type.                *)
LEMMA WritePc ==
  ASSUME NEW s \in Slot, NEW x \in PCs
  PROVE  [s EXCEPT !.pc = x] \in Slot
BY DEF Slot

LEMMA WriteKind ==
  ASSUME NEW s \in Slot, NEW x \in Kinds
  PROVE  [s EXCEPT !.kind = x] \in Slot
BY DEF Slot

LEMMA WriteDepth ==
  ASSUME NEW s \in Slot, NEW x \in 0 .. 4
  PROVE  [s EXCEPT !.depth = x] \in Slot
BY DEF Slot

LEMMA WritePayload ==
  ASSUME NEW s \in Slot, NEW x \in BOOLEAN
  PROVE  [s EXCEPT !.payload = x] \in Slot
BY DEF Slot

LEMMA WriteLeft ==
  ASSUME NEW s \in Slot, NEW x \in 0 .. MaxTransactions
  PROVE  [s EXCEPT !.left = x] \in Slot
BY DEF Slot

LEMMA WriteConn ==
  ASSUME NEW s \in Slot, NEW x \in BOOLEAN
  PROVE  [s EXCEPT !.conn = x] \in Slot
BY DEF Slot

LEMMA WriteStatus ==
  ASSUME NEW s \in Slot, NEW x \in Statuses
  PROVE  [s EXCEPT !.status = x] \in Slot
BY DEF Slot, Statuses

LEMMA WritePassed ==
  ASSUME NEW s \in Slot, NEW x \in SUBSET {"logging", "security", "auth", "cors"}
  PROVE  [s EXCEPT !.passed = x] \in Slot
BY DEF Slot

LEMMA IdleGood == ASSUME cors \in BOOLEAN PROVE Good(Idle)
BY PoolOK, Stack
   DEF Good, Idle, Slot, PCs, Kinds, DownOK, InsideOK, UpOK, Returned, Inside

(* The stack is the same in both states.                                   *)
LEMMA GoodKept ==
  ASSUME UNCHANGED cors, NEW r \in Requests, Good(req'[r])
  PROVE  Good(req[r])'
BY DEF Good, DownOK, InsideOK, UpOK, Short, Returned, AuthDepth, Height, Layer,
       Added

(***************************************************************************)
(* A step writes one slot.  What it writes is Good, and if it lends a      *)
(* connection there was one left.                                          *)
(***************************************************************************)
LEMMA OneSlot ==
  ASSUME ServingInv, UNCHANGED cors, NEW r \in Requests, NEW s, Good(s),
         Become(r, s), s.conn => req[r].conn \/ InUse < Connections
  PROVE  ServingInv'
<1>1. /\ req \in [Requests -> Slot]
      /\ s \in Slot
      /\ req' = [req EXCEPT ![r] = s]
  BY DEF ServingInv, Good, Become
<1>2. req' \in [Requests -> Slot]
  BY <1>1
<1>3. ASSUME NEW q \in Requests
      PROVE  Good(req[q])'
  <2>1. Good(req'[q])
    BY <1>1 DEF ServingInv
  <2> QED
    BY <2>1, GoodKept
<1>4. PoolInv'
  <2>1. IsFiniteSet(Borrowers) /\ Cardinality(Borrowers) <= Connections
        /\ InUse = Cardinality(Borrowers)
    BY DEF ServingInv, PoolInv, InUse, Borrowers
  <2>2. CASE s.conn /\ ~req[r].conn
    <3>1. Borrowers' = Borrowers \cup {r} /\ r \notin Borrowers
      BY <1>1, <2>2 DEF Borrowers, Slot
    <3>2. /\ IsFiniteSet(Borrowers')
          /\ Cardinality(Borrowers') = Cardinality(Borrowers) + 1
      BY <2>1, <3>1, FS_AddElement
    <3>3. Cardinality(Borrowers) < Connections /\ Cardinality(Borrowers) \in Nat
      BY <2>1, <2>2, FS_CardinalityType
    <3> QED
      BY <3>2, <3>3, PoolOK DEF PoolInv
  <2>3. CASE ~(s.conn /\ ~req[r].conn)
    <3>1. Borrowers' \subseteq Borrowers
      BY <1>1, <2>3 DEF Borrowers, Slot
    <3>2. /\ IsFiniteSet(Borrowers')
          /\ Cardinality(Borrowers') <= Cardinality(Borrowers)
      BY <2>1, <3>1, FS_Subset
    <3>3. Cardinality(Borrowers) \in Nat /\ Cardinality(Borrowers') \in Nat
      BY <2>1, <3>2, FS_CardinalityType
    <3> QED
      BY <2>1, <3>2, <3>3, PoolOK DEF PoolInv
  <2> QED
    BY <2>2, <2>3
<1> QED
  BY <1>2, <1>3, <1>4 DEF ServingInv

-----------------------------------------------------------------------------
(* Down through the middleware.                                            *)

LEMMA ArriveStep ==
  ASSUME ServingInv, UNCHANGED cors, NEW r \in Requests, NEW kind \in Kinds,
         NEW n \in 1 .. MaxTransactions, Arrive(r, kind, n)
  PROVE  ServingInv'
<1> DEFINE s == [Idle EXCEPT !.pc = "down", !.kind = kind, !.depth = 1, !.left = n]
<1>1. cors \in BOOLEAN
  BY DEF ServingInv
<1>2. Good(s) /\ ~s.conn
  <2>1. s \in Slot
    <3>1. Idle \in Slot /\ n \in 0 .. MaxTransactions /\ 1 \in 0 .. 4
      BY <1>1, IdleGood, PoolOK DEF Good
    <3>2. [Idle EXCEPT !.pc = "down", !.kind = kind] \in Slot
      BY <3>1, WritePc, WriteKind DEF PCs
    <3>3. [[Idle EXCEPT !.pc = "down", !.kind = kind] EXCEPT !.depth = 1] \in Slot
      BY <3>1, <3>2, WriteDepth
    <3> QED
      BY <3>1, <3>3, WriteLeft
  <2>2. DownOK(s)
    BY <1>1, Stack DEF Idle, DownOK, AuthDepth
  <2> QED
    BY <2>1, <2>2 DEF Good, Idle, InsideOK, UpOK, Returned, Inside
<1>3. Become(r, s)
  BY DEF Arrive
<1> QED
  BY <1>2, <1>3, OneSlot

LEMMA PassOnGood ==
  ASSUME cors \in BOOLEAN, NEW s \in Slot, s.pc = "down", ~s.conn,
         s.depth \in 1 .. Height, s.kind \notin Preflights,
         s.depth >= AuthDepth /\ s.kind = "protected" => s.payload,
         s.depth < AuthDepth => ~s.payload
  PROVE  Good(PassOn(s)) /\ ~PassOn(s).conn
<1>1. AuthDepth \in {1, 2} /\ Height \in {3, 4} /\ s.depth \in Nat
  BY Stack DEF AuthDepth
<1>2. CASE s.depth = Height
  <2> DEFINE t == [s EXCEPT !.pc = "gate"]
  <2>1. PassOn(s) = t
    BY <1>2 DEF PassOn, Height
  <2>2. t \in Slot
    BY WritePc DEF PCs
  <2>3. /\ t.pc = "gate" /\ t.depth = Height /\ ~t.conn
        /\ t.kind \notin Preflights /\ (t.kind = "protected" => t.payload)
    BY <1>1, <1>2 DEF Slot
  <2> HIDE DEF t
  <2> QED
    BY <2>1, <2>2, <2>3 DEF Good, DownOK, InsideOK, UpOK, Returned
<1>3. CASE s.depth # Height
  <2> DEFINE t == [s EXCEPT !.depth = s.depth + 1]
  <2>1. PassOn(s) = t
    BY <1>3 DEF PassOn, Height
  <2>2. s.depth + 1 \in 0 .. 4 /\ s.depth + 1 \in 1 .. Height
    BY <1>1, <1>3
  <2>3. t \in Slot
    BY <2>2, WriteDepth
  <2>4. /\ t.pc = "down" /\ t.depth = s.depth + 1 /\ ~t.conn
        /\ t.kind = s.kind /\ t.payload = s.payload
    BY DEF Slot
  <2> HIDE DEF t
  <2>5. DownOK(t)
    BY <1>1, <2>2, <2>4 DEF DownOK
  <2> QED
    BY <2>1, <2>3, <2>4, <2>5 DEF Good, InsideOK, Inside, UpOK, Returned
<1> QED
  BY <1>2, <1>3

LEMMA AnswerGood ==
  ASSUME cors \in BOOLEAN, NEW s, Good(s), s.pc = "down",
         NEW status \in {200, 400, 401},
         \/ status = 200 /\ s.kind = "preflight"
         \/ status = 400 /\ s.kind = "foreign_preflight"
         \/ status = 401 /\ ~s.payload /\ ~(cors /\ s.kind \in Preflights)
  PROVE  Good(Answer(s, status)) /\ ~Answer(s, status).conn
<1> DEFINE a == [s EXCEPT !.pc = "up", !.status = status, !.depth = s.depth - 1]
<1>1. s \in Slot /\ s.depth \in 1 .. Height /\ ~s.conn
  BY DEF Good, DownOK, Returned
<1>2. Height \in {3, 4} /\ s.depth \in Nat
  BY <1>1, Stack
<1>3. Answer(s, status) = a
  BY DEF Answer
<1>4. s.depth - 1 \in 0 .. 4 /\ s.depth - 1 \in 0 .. Height
  BY <1>1, <1>2
<1>5. a \in Slot
  <2>0. s \in Slot /\ "up" \in PCs /\ status \in Statuses
    BY DEF Good, PCs, Statuses
  <2>1. [s EXCEPT !.pc = "up"] \in Slot
    BY <2>0, WritePc
  <2>2. [[s EXCEPT !.pc = "up"] EXCEPT !.status = status] \in Slot
    BY ONLY <2>0, <2>1, WriteStatus
  <2> QED
    BY ONLY <1>4, <2>2, WriteDepth DEF a
<1>6. /\ a.pc = "up" /\ a.status = status /\ a.depth = s.depth - 1 /\ ~a.conn
      /\ a.kind = s.kind /\ a.payload = s.payload
  BY <1>1 DEF Slot
<1> HIDE DEF a
<1>7. UpOK(a)
  BY <1>4, <1>6 DEF UpOK, Short, Decided, Preflights
<1> QED
  BY <1>3, <1>5, <1>6, <1>7 DEF Good, DownOK, InsideOK, Inside, Returned

LEMMA DownStep ==
  ASSUME ServingInv, UNCHANGED cors, NEW r \in Requests,
         PassPlainLayer(r) \/ PassCors(r) \/ PassAuth(r)
  PROVE  ServingInv'
<1> DEFINE s == req[r]
<1>1. cors \in BOOLEAN /\ Good(s) /\ s.pc = "down" /\ s \in Slot /\ ~s.conn
  BY DEF ServingInv, Good, Returned, PassPlainLayer, PassCors, PassAuth
<1>2. /\ s.depth \in 1 .. Height
      /\ s.depth > AuthDepth /\ s.kind = "protected" => s.payload
      /\ s.depth <= AuthDepth => ~s.payload
      /\ s.kind \in Preflights => s.depth = 1
  BY <1>1 DEF Good, DownOK
<1>3. s.depth \in {1, 2, 3, 4}
  BY <1>1, <1>2, Stack
<1>4. CASE PassPlainLayer(r)
  <2>1. Layer(s.depth) \in {"logging", "security"} /\ Become(r, PassOn(s))
    BY <1>4 DEF PassPlainLayer
  <2>2. s.depth # AuthDepth /\ s.depth # 1
    BY <1>1, <1>3, <2>1, Stack DEF AuthDepth
  <2>3. s.kind \notin Preflights
    BY <1>2, <2>2
  <2>4. s.depth > AuthDepth
    BY <1>3, <2>2 DEF AuthDepth
  <2>5. Good(PassOn(s)) /\ ~PassOn(s).conn
    BY <1>1, <1>2, <2>3, <2>4, PassOnGood DEF AuthDepth
  <2> QED
    BY <2>1, <2>5, OneSlot
<1>5. CASE PassCors(r)
  <2>1. /\ Layer(s.depth) = "cors"
        /\ \/ s.kind = "preflight" /\ Become(r, Answer(s, 200))
           \/ s.kind = "foreign_preflight" /\ Become(r, Answer(s, 400))
           \/ s.kind \notin Preflights /\ Become(r, PassOn(s))
    BY <1>5 DEF PassCors
  <2>2. cors /\ s.depth = 1
    BY <1>1, <1>2, <1>3, <2>1, Stack
  <2>3. ASSUME NEW status \in {200, 400}, Become(r, Answer(s, status)),
               \/ status = 200 /\ s.kind = "preflight"
               \/ status = 400 /\ s.kind = "foreign_preflight"
        PROVE  ServingInv'
    <3>1. Good(Answer(s, status)) /\ ~Answer(s, status).conn
      BY <1>1, <2>3, AnswerGood
    <3> QED
      BY <2>3, <3>1, OneSlot
  <2>4. CASE s.kind \notin Preflights /\ Become(r, PassOn(s))
    <3>1. Good(PassOn(s)) /\ ~PassOn(s).conn
      BY <1>1, <1>2, <2>2, <2>4, PassOnGood DEF AuthDepth
    <3> QED
      BY <2>4, <3>1, OneSlot
  <2> QED
    BY <2>1, <2>3, <2>4
<1>6. CASE PassAuth(r)
  <2>1. Layer(s.depth) = "auth"
    BY <1>6 DEF PassAuth
  <2>2. s.depth = AuthDepth /\ ~s.payload
    BY <1>1, <1>2, <1>3, <2>1, Stack DEF AuthDepth
  <2>3. CASE IsExcluded(s.kind) /\ Become(r, PassOn(s))
    <3>1. s.kind \notin Preflights /\ s.kind # "protected"
      BY <2>3 DEF IsExcluded, Preflights
    <3>2. Good(PassOn(s)) /\ ~PassOn(s).conn
      BY <1>1, <1>2, <2>2, <3>1, PassOnGood DEF AuthDepth
    <3> QED
      BY <2>3, <3>2, OneSlot
  <2>4. CASE /\ s.kind \notin Preflights
             /\ Become(r, PassOn([s EXCEPT !.payload = TRUE]))
    <3> DEFINE p == [s EXCEPT !.payload = TRUE]
    <3>1. p \in Slot
      BY <1>1, WritePayload
    <3>2. /\ p.pc = "down" /\ p.kind \notin Preflights /\ p.payload /\ ~p.conn
          /\ p.depth = s.depth
      BY <1>1, <2>4 DEF Slot
    <3> HIDE DEF p
    <3>3. Good(PassOn(p)) /\ ~PassOn(p).conn
      BY <1>1, <1>2, <2>2, <3>1, <3>2, PassOnGood DEF AuthDepth
    <3>4. Become(r, PassOn(p))
      BY <2>4 DEF p
    <3> QED
      BY <3>3, <3>4, OneSlot
  <2>5. CASE ~IsExcluded(s.kind) /\ Become(r, Answer(s, 401))
    <3>1. ~(cors /\ s.kind \in Preflights)
      BY <1>2, <2>2 DEF AuthDepth
    <3>2. Good(Answer(s, 401)) /\ ~Answer(s, 401).conn
      BY <1>1, <2>2, <3>1, AnswerGood
    <3> QED
      BY <2>5, <3>2, OneSlot
  <2> QED
    BY <1>6, <2>3, <2>4, <2>5 DEF PassAuth
<1> QED
  BY <1>4, <1>5, <1>6

-----------------------------------------------------------------------------
(* The handler and the pool.                                               *)

(* A step inside the route keeps the kind, the depth and the payload.      *)
LEMMA InsideStep ==
  ASSUME ServingInv, UNCHANGED cors, NEW r \in Requests, NEW t \in Slot,
         Become(r, t), req[r].pc \in Inside, t.pc \in Inside,
         t.depth = req[r].depth, t.kind = req[r].kind,
         t.payload = req[r].payload, Returned(t),
         t.conn => req[r].conn \/ InUse < Connections
  PROVE  ServingInv'
<1>1. Good(req[r])
  BY DEF ServingInv
<1>2. Good(t)
  BY <1>1 DEF Good, DownOK, InsideOK, UpOK, Inside
<1> QED
  BY <1>2, OneSlot

LEMMA RouteStep ==
  ASSUME ServingInv, UNCHANGED cors, NEW r \in Requests, Route(r)
  PROVE  ServingInv'
<1> DEFINE s == req[r]
<1>1. s \in Slot /\ s.pc = "gate" /\ ~s.conn
  BY DEF ServingInv, Good, Returned, Route
<1>2. ASSUME Become(r, [s EXCEPT !.pc = "query"])
      PROVE  ServingInv'
  <2> DEFINE t == [s EXCEPT !.pc = "query"]
  <2>1. t \in Slot
    BY <1>1, WritePc DEF PCs
  <2>2. /\ t.pc = "query" /\ ~t.conn
        /\ t.depth = s.depth /\ t.kind = s.kind /\ t.payload = s.payload
    BY <1>1 DEF Slot
  <2> HIDE DEF t
  <2> QED
    BY <1>1, <1>2, <2>1, <2>2, InsideStep DEF Inside, Returned, t
<1>3. ASSUME NEW status \in Statuses,
             Become(r, [s EXCEPT !.pc = "close", !.status = status])
      PROVE  ServingInv'
  <2> DEFINE t == [s EXCEPT !.pc = "close", !.status = status]
  <2>1. t \in Slot
    BY <1>1, WritePc, WriteStatus DEF PCs
  <2>2. /\ t.pc = "close" /\ ~t.conn
        /\ t.depth = s.depth /\ t.kind = s.kind /\ t.payload = s.payload
    BY <1>1 DEF Slot
  <2> HIDE DEF t
  <2> QED
    BY <1>1, <1>3, <2>1, <2>2, InsideStep DEF Inside, Returned, t
<1>4. /\ 401 \in Statuses /\ 403 \in Statuses
      /\ \/ Become(r, [s EXCEPT !.pc = "query"])
         \/ Become(r, [s EXCEPT !.pc = "close",
                                !.status = IF s.payload THEN 403 ELSE 401])
  BY DEF Route, Statuses
<1> QED
  BY <1>2, <1>3, <1>4 DEF Become

LEMMA RaisedOK ==
  ASSUME NEW s \in Slot
  PROVE  /\ Raised(s) \in Slot
         /\ Raised(s).pc = "close" /\ Raised(s).conn = s.conn
         /\ Raised(s).depth = s.depth /\ Raised(s).kind = s.kind
         /\ Raised(s).payload = s.payload
<1> DEFINE c == IF s.kind = "health" THEN 503 ELSE 500
           t == [s EXCEPT !.pc = "close", !.status = c]
<1>1. Raised(s) = t
  BY DEF Raised
<1>2. c \in Statuses
  BY DEF Statuses
<1> HIDE DEF c
<1>3. t \in Slot
  BY <1>2, WritePc, WriteStatus DEF PCs
<1>4. /\ t.pc = "close" /\ t.conn = s.conn
      /\ t.depth = s.depth /\ t.kind = s.kind /\ t.payload = s.payload
  BY DEF Slot
<1> QED
  BY <1>1, <1>3, <1>4

LEMMA HandlerStep ==
  ASSUME ServingInv, UNCHANGED cors, NEW r \in Requests,
         \/ Connect(r) \/ PoolTimeout(r) \/ Commit(r) \/ Finish(r)
         \/ RaiseAppError(r) \/ RaiseException(r) \/ MailReturns(r)
  PROVE  ServingInv'
<1> DEFINE s == req[r]
<1>1. s \in Slot /\ Returned(s)
  BY DEF ServingInv, Good
<1>2. ASSUME NEW t \in Slot, Become(r, t), s.pc \in Inside, t.pc \in Inside,
             t.depth = s.depth, t.kind = s.kind, t.payload = s.payload,
             Returned(t), t.conn => s.conn \/ InUse < Connections
      PROVE  ServingInv'
  BY <1>2, InsideStep
<1>3. CASE Connect(r)
  <2> DEFINE t == [s EXCEPT !.pc = "transaction", !.conn = TRUE]
  <2>1. t \in Slot
    BY <1>1, WritePc, WriteConn DEF PCs
  <2>2. /\ t.pc = "transaction"
        /\ t.depth = s.depth /\ t.kind = s.kind /\ t.payload = s.payload
    BY <1>1 DEF Slot
  <2>3. s.pc = "query" /\ InUse < Connections /\ Become(r, t)
    BY <1>3 DEF Connect
  <2> HIDE DEF t
  <2> QED
    BY <1>2, <2>1, <2>2, <2>3 DEF Inside, Returned
<1>4. CASE PoolTimeout(r) \/ RaiseException(r)
  <2>1. s.pc \in {"query", "transaction"} /\ Become(r, Raised(s))
    BY <1>4 DEF PoolTimeout, RaiseException
  <2> QED
    BY <1>1, <1>2, <2>1, RaisedOK DEF Inside, Returned
<1>5. CASE Commit(r)
  <2> DEFINE t == [s EXCEPT !.left = s.left - 1, !.pc = "query", !.conn = FALSE]
  <2>1. s.left \in 0 .. MaxTransactions /\ s.left > 1
    BY <1>1, <1>5 DEF Slot, Commit
  <2>2. s.left - 1 \in 0 .. MaxTransactions
    BY <2>1, PoolOK
  <2>3. t \in Slot
    BY <1>1, <2>2, WritePc, WriteConn, WriteLeft DEF PCs
  <2>4. /\ t.pc = "query" /\ ~t.conn
        /\ t.depth = s.depth /\ t.kind = s.kind /\ t.payload = s.payload
    BY <1>1 DEF Slot
  <2>5. s.pc = "transaction" /\ Become(r, t)
    BY <1>5 DEF Commit, Committed
  <2> HIDE DEF t
  <2> QED
    BY <1>2, <2>3, <2>4, <2>5 DEF Inside, Returned
<1>6. ASSUME NEW status \in Statuses, s.pc \in {"transaction", "mail"},
             \/ Become(r, [s EXCEPT !.pc = "close", !.status = status])
             \/ Become(r, [[s EXCEPT !.pc = "close", !.status = status]
                             EXCEPT !.conn = FALSE])
      PROVE  ServingInv'
  <2> DEFINE t == [s EXCEPT !.pc = "close", !.status = status]
             u == [t EXCEPT !.conn = FALSE]
  <2>1. t \in Slot
    BY <1>1, WritePc, WriteStatus DEF PCs
  <2>2. /\ t.pc = "close" /\ t.conn = s.conn
        /\ t.depth = s.depth /\ t.kind = s.kind /\ t.payload = s.payload
    BY <1>1 DEF Slot
  <2>3. Become(r, t) \/ Become(r, u)
    BY <1>6
  <2> HIDE DEF t
  <2>4. u \in Slot
    BY <2>1, WriteConn
  <2>5. /\ u.pc = "close" /\ ~u.conn
        /\ u.depth = s.depth /\ u.kind = s.kind /\ u.payload = s.payload
    BY <2>1, <2>2 DEF Slot
  <2> HIDE DEF u
  <2> QED
    BY <1>2, <1>6, <2>1, <2>2, <2>3, <2>4, <2>5 DEF Inside, Returned
<1>7. CASE s.pc = "transaction" /\ Become(r, [s EXCEPT !.pc = "mail"])
  <2> DEFINE t == [s EXCEPT !.pc = "mail"]
  <2>1. t \in Slot
    BY <1>1, WritePc DEF PCs
  <2>2. /\ t.pc = "mail" /\ t.conn = s.conn
        /\ t.depth = s.depth /\ t.kind = s.kind /\ t.payload = s.payload
    BY <1>1 DEF Slot
  <2> HIDE DEF t
  <2> QED
    BY <1>2, <1>7, <2>1, <2>2 DEF Inside, Returned, t
<1>8. CASE Finish(r)
  <2>1. /\ s.pc = "transaction"
        /\ \/ Become(r, [s EXCEPT !.pc = "mail"])
           \/ Become(r, [s EXCEPT !.pc = "close", !.status = 200])
           \/ Become(r, [[s EXCEPT !.pc = "close", !.status = 200]
                           EXCEPT !.conn = FALSE])
    BY <1>8 DEF Finish
  <2>2. 200 \in Statuses
    BY DEF Statuses
  <2> QED
    BY <1>6, <1>7, <2>1, <2>2
<1>9. CASE RaiseAppError(r)
  BY <1>6, <1>9 DEF RaiseAppError, Statuses
<1>10. CASE MailReturns(r)
  BY <1>6, <1>10 DEF MailReturns, Statuses
<1> QED
  BY <1>3, <1>4, <1>5, <1>8, <1>9, <1>10

LEMMA LeaveRouteStep ==
  ASSUME ServingInv, UNCHANGED cors, NEW r \in Requests, LeaveRoute(r)
  PROVE  ServingInv'
<1> DEFINE c == CloseSession(req[r])
           pc == IF c.status = 500 THEN "done" ELSE "up"
           t == [c EXCEPT !.pc = pc]
<1>1. cors \in BOOLEAN /\ Good(req[r]) /\ req[r] \in Slot
  BY DEF ServingInv
<1>2. c \in Slot
  BY <1>1, WriteConn DEF CloseSession
<1>3. /\ c.pc = req[r].pc /\ ~c.conn
      /\ c.depth = req[r].depth /\ c.kind = req[r].kind
  BY <1>1 DEF CloseSession, Slot
<1>4. c.pc = "close" /\ Become(r, t)
  BY DEF LeaveRoute
<1> HIDE DEF c
<1>5. pc \in {"up", "done"} /\ pc \in PCs /\ (pc = "done" => c.status = 500)
  BY DEF PCs
<1> HIDE DEF pc
<1>6. t \in Slot
  BY <1>2, <1>5, WritePc
<1>7. /\ t.pc = pc /\ t.status = c.status /\ ~t.conn
      /\ t.depth = c.depth /\ t.kind = c.kind
  BY <1>2, <1>3 DEF Slot
<1>8. t.depth = Height /\ t.kind \notin Preflights
  BY <1>1, <1>3, <1>4, <1>7 DEF Good, InsideOK, Inside
<1> HIDE DEF t
<1>9. Height \in 0 .. Height /\ Height + 1 .. Height = {}
  BY <1>1, Stack
<1>10. UpOK(t)
  BY <1>5, <1>7, <1>8, <1>9 DEF UpOK, Decided, Preflights
<1>11. Good(t)
  BY <1>5, <1>6, <1>7, <1>10 DEF Good, DownOK, InsideOK, Inside, Returned
<1> QED
  BY <1>4, <1>7, <1>11, OneSlot

-----------------------------------------------------------------------------
(* Up through the middleware.                                              *)

LEMMA LayerNames ==
  ASSUME cors \in BOOLEAN
  PROVE  /\ \A d \in 1 .. Height :
              Layer(d) \in {"logging", "security", "auth", "cors"}
         /\ \E d \in 1 .. Height : Layer(d) = "logging"
         /\ \E d \in 1 .. Height : Layer(d) = "security"
<1>1. CASE cors
  <2>1. \A d \in 1 .. Height : d \in {1, 2, 3, 4}
    BY <1>1, Stack
  <2>2. 3 \in 1 .. Height /\ 4 \in 1 .. Height
    BY <1>1, Stack
  <2> QED
    BY <1>1, <2>1, <2>2, Stack
<1>2. CASE ~cors
  <2>1. \A d \in 1 .. Height : d \in {1, 2, 3}
    BY <1>2, Stack
  <2>2. 2 \in 1 .. Height /\ 3 \in 1 .. Height
    BY <1>2, Stack
  <2> QED
    BY <1>2, <2>1, <2>2, Stack
<1> QED
  BY <1>1, <1>2

LEMMA RespondStep ==
  ASSUME ServingInv, UNCHANGED cors, NEW r \in Requests, Respond(r)
  PROVE  ServingInv'
<1> DEFINE s == req[r]
<1>1. cors \in BOOLEAN /\ Good(s) /\ s \in Slot /\ s.pc = "up" /\ ~s.conn
  BY DEF ServingInv, Good, Returned, Respond
<1>2. /\ s.depth \in 0 .. Height
      /\ Short(s) \/ \A d \in s.depth + 1 .. Height : Layer(d) \in s.passed
      /\ cors => Decided(s)
  BY <1>1 DEF Good, UpOK
<1>3. Height \in {3, 4} /\ s.depth \in Nat
  BY <1>1, <1>2, Stack
<1>4. CASE s.depth = 0
  <2> DEFINE t == [s EXCEPT !.pc = "done"]
  <2>1. t \in Slot /\ Become(r, t)
    BY <1>1, <1>4, WritePc DEF PCs, Respond
  <2>2. /\ t.pc = "done" /\ ~t.conn /\ t.kind = s.kind /\ t.status = s.status
        /\ t.payload = s.payload /\ t.passed = s.passed
    BY <1>1 DEF Slot
  <2> HIDE DEF t
  <2>3. s.depth + 1 = 1
    BY <1>4
  <2>4. Short(s) \/ {"logging", "security"} \subseteq s.passed
    BY <1>1, <1>2, <2>3, LayerNames
  <2>5. UpOK(t)
    BY <1>2, <2>2, <2>4 DEF UpOK, Short, Decided
  <2> QED
    BY <2>1, <2>2, <2>5, OneSlot DEF Good, DownOK, InsideOK, Inside, Returned
<1>5. CASE s.depth # 0
  <2> DEFINE L == Layer(s.depth)
             p == s.passed \cup {L}
             t == [s EXCEPT !.depth = s.depth - 1, !.passed = p]
  <2>1. Become(r, t)
    BY <1>5 DEF Respond, PassUp
  <2>2. /\ s.depth \in 1 .. Height /\ s.depth - 1 \in 0 .. 4
        /\ s.depth - 1 \in 0 .. Height
    BY <1>2, <1>3, <1>5
  <2>3. p \in SUBSET {"logging", "security", "auth", "cors"}
    BY <1>1, <2>2, LayerNames DEF Slot
  <2>4. \A d \in (s.depth - 1) + 1 .. Height :
           d = s.depth \/ d \in s.depth + 1 .. Height
    BY <1>3
  <2>5. Short(s) \/ \A d \in (s.depth - 1) + 1 .. Height : Layer(d) \in p
    BY <1>2, <2>4
  <2> HIDE DEF p
  <2>6. [s EXCEPT !.depth = s.depth - 1] \in Slot
    BY <1>1, <2>2, WriteDepth
  <2>7. t \in Slot
    BY <2>3, <2>6, WritePassed
  <2>8. /\ t.pc = "up" /\ ~t.conn /\ t.kind = s.kind /\ t.status = s.status
        /\ t.payload = s.payload /\ t.depth = s.depth - 1 /\ t.passed = p
    BY <1>1 DEF Slot
  <2> HIDE DEF t
  <2>9. UpOK(t)
    BY <1>2, <2>2, <2>5, <2>8 DEF UpOK, Short, Decided
  <2> QED
    BY <2>1, <2>7, <2>8, <2>9, OneSlot DEF Good, DownOK, InsideOK, Inside, Returned
<1> QED
  BY <1>4, <1>5

-----------------------------------------------------------------------------
LEMMA ServingInvInit == Init => ServingInv
<1> SUFFICES ASSUME Init PROVE ServingInv
  OBVIOUS
<1>1. cors \in BOOLEAN /\ req = [r \in Requests |-> Idle]
  BY DEF Init
<1>2. Good(Idle)
  BY <1>1, IdleGood
<1>3. Borrowers = {}
  BY <1>1 DEF Borrowers, Idle
<1>4. PoolInv
  BY <1>3, FS_EmptySet, PoolOK DEF PoolInv
<1> QED
  BY <1>1, <1>2, <1>4 DEF ServingInv, Good

LEMMA ServingInvStep == ServingInv /\ [ServingNext]_servingVars => ServingInv'
<1> SUFFICES ASSUME ServingInv, [ServingNext]_servingVars PROVE ServingInv'
  OBVIOUS
<1>1. ASSUME NEW r \in Requests, UNCHANGED cors, Leave(r)
      PROVE  ServingInv'
  <2>1. Good(Idle) /\ ~Idle.conn
    BY IdleGood DEF ServingInv, Idle
  <2> QED
    BY <1>1, <2>1, OneSlot DEF Leave
<1>2. CASE UNCHANGED servingVars
  <2>1. UNCHANGED cors /\ UNCHANGED req
    BY <1>2 DEF servingVars
  <2>2. \A r \in Requests : Good(req[r])'
    BY <2>1, GoodKept DEF ServingInv
  <2> QED
    BY <2>1, <2>2 DEF ServingInv, PoolInv, Borrowers
<1> QED
  BY <1>1, <1>2, ArriveStep, DownStep, RouteStep, HandlerStep, LeaveRouteStep,
     RespondStep DEF ServingNext, Serve

(* The invariant gives what the runs check.                                *)
LEMMA ServingInvGives ==
  ServingInv => /\ ServingTypeOK /\ ConnectionsReturned /\ GateFindsPayload
                /\ PreflightAnswered /\ BareResponsesExplained
<1> SUFFICES ASSUME ServingInv
             PROVE  /\ ServingTypeOK /\ ConnectionsReturned /\ GateFindsPayload
                    /\ PreflightAnswered /\ BareResponsesExplained
  OBVIOUS
<1>1. ServingTypeOK
  BY DEF ServingInv, ServingTypeOK, PoolInv, Borrowers, InUse
<1>2. ConnectionsReturned
  BY DEF ServingInv, ConnectionsReturned, Good, Returned
<1>3. GateFindsPayload
  BY DEF ServingInv, GateFindsPayload, Good, InsideOK, Inside
<1>4. PreflightAnswered
  BY DEF ServingInv, PreflightAnswered, Good, UpOK, Decided
<1>5. BareResponsesExplained
  BY DEF ServingInv, BareResponsesExplained, Good, UpOK, Short
<1> QED
  BY <1>1, <1>2, <1>3, <1>4, <1>5

LEMMA ServingInvariant == ServingSpec => []ServingInv
BY ServingInvInit, ServingInvStep, PTL DEF ServingSpec

(***************************************************************************)
(* The engine never has more connections out than pool_size and            *)
(* max_overflow allow.                                                     *)
(***************************************************************************)
THEOREM PoolNeverOverdrawn == ServingSpec => []ServingTypeOK
BY ServingInvariant, ServingInvGives, PTL

(***************************************************************************)
(* get_db: a request out of its route, however it left it, has given its   *)
(* connection back, and none waits for a connection with one in its hands. *)
(***************************************************************************)
THEOREM ConnectionsComeBack == ServingSpec => []ConnectionsReturned
BY ServingInvariant, ServingInvGives, PTL

(***************************************************************************)
(* AuthMiddleware runs before the gates of every protected route, whether  *)
(* or not CORSMiddleware is there.                                         *)
(***************************************************************************)
THEOREM GatesHavePayload == ServingSpec => []GateFindsPayload
BY ServingInvariant, ServingInvGives, PTL

(***************************************************************************)
(* With origins configured a preflight is allowed if its origin is listed, *)
(* refused by CORSMiddleware if not, and never refused for want of a token.*)
(***************************************************************************)
THEOREM PreflightsPass == ServingSpec => []PreflightAnswered
BY ServingInvariant, ServingInvGives, PTL

(***************************************************************************)
(* Which responses go out without the security headers and the request id. *)
(***************************************************************************)
THEOREM BareResponses == ServingSpec => []BareResponsesExplained
BY ServingInvariant, ServingInvGives, PTL

=============================================================================
