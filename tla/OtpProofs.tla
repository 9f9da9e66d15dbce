------------------------------ MODULE OtpProofs ------------------------------
(***************************************************************************)
(* Proofs about Otp, for any number of users, request slots and rows, and  *)
(* any settings.                                                           *)
(***************************************************************************)
EXTENDS Otp, Budget

(* A row belongs to a registered user.                                     *)
RowsOwned == \A o \in OtpIds : otp[o].user \in registered \cup {NoUser}

TypeInv == TypeOK /\ RowsOwned

-----------------------------------------------------------------------------
(* Types.                                                                  *)

(* What SlotOK asks of a slot apart from its user.                         *)
Holding(s) ==
  /\ s.pc \in {"count_failure", "mark_used"} => s.otp \in OtpIds
  /\ s.pc = "count_failure" => s.attempts < MaxVerifyAttempts

LEMMA IdleType == Idle \in Slot /\ Holding(Idle) /\ Idle.pc = "idle"
BY SettingsOK DEF Idle, Slot, Holding, PCs, Purposes

LEMMA TypeInvInit == Init => TypeInv
<1> SUFFICES ASSUME Init PROVE TypeInv
  OBVIOUS
<1>1. NoRow \in Row
  BY SettingsOK DEF NoRow, Row, Purposes
<1>2. TypeOK
  BY <1>1, IdleType, SettingsOK DEF Init, TypeOK, SlotOK, Holding
<1>3. RowsOwned
  BY DEF Init, RowsOwned, NoRow
<1> QED
  BY <1>2, <1>3 DEF TypeInv

(* Writing a well-formed content into one slot keeps all slots well formed. *)
LEMMA SlotWrite ==
  ASSUME TypeInv, NEW r \in Requests, NEW s \in Slot, Holding(s),
         s.pc # "idle" => s.user \in registered',
         registered \subseteq registered',
         req' = [req EXCEPT ![r] = s]
  PROVE  req' \in [Requests -> Slot] /\ \A q \in Requests : SlotOK(req[q])'
<1>1. req' \in [Requests -> Slot]
  BY DEF TypeInv, TypeOK
<1>2. ASSUME NEW q \in Requests
      PROVE  SlotOK(req[q])'
  BY DEF TypeInv, TypeOK, SlotOK, Holding
<1> QED
  BY <1>1, <1>2

(* A step that writes one slot and no table keeps TypeInv.                 *)
LEMMA SlotOnly ==
  ASSUME TypeInv, NEW r \in Requests, NEW s \in Slot, Holding(s),
         s.pc # "idle" => s.user \in registered,
         req' = [req EXCEPT ![r] = s],
         UNCHANGED <<now, tables, history>>
  PROVE  TypeInv'
<1>1. registered' = registered
  BY DEF tables
<1>2. req' \in [Requests -> Slot] /\ \A q \in Requests : SlotOK(req[q])'
  BY <1>1, SlotWrite
<1>3. TypeOK'
  BY <1>2 DEF TypeInv, TypeOK, tables, history
<1>4. RowsOwned'
  BY DEF TypeInv, RowsOwned, tables
<1> QED
  BY <1>3, <1>4 DEF TypeInv

(* Moving a request on to its next statement keeps its slot well formed.   *)
LEMMA SlotMoves ==
  ASSUME NEW s \in Slot, Holding(s)
  PROVE  /\ [s EXCEPT !.pc = "invalidate"] \in Slot
         /\ Holding([s EXCEPT !.pc = "invalidate"])
         /\ \A b \in SUBSET OtpIds :
              /\ [s EXCEPT !.pc = "commit_invalidate", !.batch = b] \in Slot
              /\ Holding([s EXCEPT !.pc = "commit_invalidate", !.batch = b])
         /\ [s EXCEPT !.pc = "insert", !.batch = {}] \in Slot
         /\ Holding([s EXCEPT !.pc = "insert", !.batch = {}])
         /\ \A l \in {"verify_email", "reply"} :
              /\ [s EXCEPT !.pc = l] \in Slot
              /\ Holding([s EXCEPT !.pc = l])
<1> USE DEF Slot, Holding, PCs
<1>1. /\ [s EXCEPT !.pc = "invalidate"] \in Slot
      /\ Holding([s EXCEPT !.pc = "invalidate"])
  OBVIOUS
<1>2. ASSUME NEW b \in SUBSET OtpIds
      PROVE  /\ [s EXCEPT !.pc = "commit_invalidate", !.batch = b] \in Slot
             /\ Holding([s EXCEPT !.pc = "commit_invalidate", !.batch = b])
  OBVIOUS
<1>3. /\ [s EXCEPT !.pc = "insert", !.batch = {}] \in Slot
      /\ Holding([s EXCEPT !.pc = "insert", !.batch = {}])
  OBVIOUS
<1>4. ASSUME NEW l \in {"verify_email", "reply"}
      PROVE  [s EXCEPT !.pc = l] \in Slot /\ Holding([s EXCEPT !.pc = l])
  OBVIOUS
<1> HIDE DEF Slot, Holding, PCs
<1> QED
  BY <1>1, <1>2, <1>3, <1>4

LEMMA TypeInvStep == TypeInv /\ [Next]_vars => TypeInv'
<1> SUFFICES ASSUME TypeInv, [Next]_vars PROVE TypeInv'
  OBVIOUS
<1>0. ASSUME NEW q \in Requests
      PROVE  /\ req[q] \in Slot /\ Holding(req[q])
             /\ req[q].pc # "idle" => req[q].user \in registered
             /\ req[q].user \in Users \cup {NoUser} /\ req[q].purpose \in Purposes
  BY DEF TypeInv, TypeOK, SlotOK, Holding, Slot
<1>1. ASSUME NEW r \in Requests, NEW u \in Users, RegisterCreate(r, u)
      PROVE  TypeInv'
  <2> DEFINE s == [Idle EXCEPT !.pc = "insert", !.user = u]
  <2>1. s \in Slot /\ Holding(s) /\ s.user = u
    BY IdleType DEF Slot, Holding, PCs
  <2>2. /\ req' = [req EXCEPT ![r] = s]
        /\ registered' = registered \cup {u}
        /\ UNCHANGED <<now, verified, active, otp, resets, history>>
    BY <1>1 DEF RegisterCreate
  <2> HIDE DEF s
  <2>3. req' \in [Requests -> Slot] /\ \A q \in Requests : SlotOK(req[q])'
    BY <2>1, <2>2, SlotWrite
  <2>4. TypeOK'
    BY <2>2, <2>3 DEF TypeInv, TypeOK, history
  <2>5. RowsOwned'
    BY <2>2 DEF TypeInv, RowsOwned
  <2> QED
    BY <2>4, <2>5 DEF TypeInv
<1>2. ASSUME NEW r \in Requests, NEW o \in OtpIds, CreateEmailOtp(r, o)
      PROVE  TypeInv'
  <2> DEFINE t == [user |-> req[r].user, purpose |-> req[r].purpose,
                   used |-> FALSE, attempts |-> 0, created |-> now]
  <2>1. t \in Row /\ t.user \in registered
    BY <1>0, <1>2, SettingsOK DEF CreateEmailOtp, Row, TypeInv, TypeOK
  <2>2. /\ req' = [req EXCEPT ![r] = Idle]
        /\ otp' = [otp EXCEPT ![o] = t]
        /\ UNCHANGED <<now, registered, verified, active, resets, history>>
    BY <1>2 DEF CreateEmailOtp, Finish
  <2> HIDE DEF t
  <2>3. req' \in [Requests -> Slot] /\ \A q \in Requests : SlotOK(req[q])'
    BY <2>2, IdleType, SlotWrite
  <2>4. TypeOK'
    BY <2>1, <2>2, <2>3 DEF TypeInv, TypeOK, history
  <2>5. RowsOwned'
    BY <2>1, <2>2 DEF TypeInv, TypeOK, RowsOwned
  <2> QED
    BY <2>4, <2>5 DEF TypeInv
<1>3. ASSUME NEW r \in Requests, NEW u \in Users, NEW p \in Purposes,
             StartSending(r, u, p)
      PROVE  TypeInv'
  <2> DEFINE s == [Idle EXCEPT !.pc = "count_resends", !.user = u, !.purpose = p]
  <2>1. s \in Slot /\ Holding(s) /\ s.user \in registered
    BY <1>3, IdleType DEF StartSending, Slot, Holding, PCs
  <2>2. req' = [req EXCEPT ![r] = s] /\ UNCHANGED <<now, tables, history>>
    BY <1>3 DEF StartSending
  <2> HIDE DEF s
  <2> QED
    BY <2>1, <2>2, SlotOnly
<1>4. ASSUME NEW r \in Requests, CountResends(r)
      PROVE  TypeInv'
  <2> DEFINE s == [req[r] EXCEPT !.pc = "invalidate"]
  <2>1. s \in Slot /\ Holding(s) /\ s.user \in registered
    BY <1>0, <1>4, SlotMoves DEF CountResends, Slot
  <2>2. /\ req' = [req EXCEPT ![r] = s] \/ req' = [req EXCEPT ![r] = Idle]
        /\ UNCHANGED <<now, tables, history>>
    BY <1>4 DEF CountResends, Finish
  <2> HIDE DEF s
  <2> QED
    BY <2>1, <2>2, IdleType, SlotOnly
<1>5. ASSUME NEW r \in Requests, InvalidateExecute(r)
      PROVE  TypeInv'
  <2> DEFINE b == UnusedOtps(req[r].user, req[r].purpose)
             s == [req[r] EXCEPT !.pc = "commit_invalidate", !.batch = b]
  <2>1. b \in SUBSET OtpIds
    BY DEF UnusedOtps, OtpsOf
  <2>2. req' = [req EXCEPT ![r] = s] /\ UNCHANGED <<now, tables, history>>
    BY <1>5 DEF InvalidateExecute
  <2> HIDE DEF b
  <2>3. s \in Slot /\ Holding(s) /\ s.user \in registered
    BY <1>0, <1>5, <2>1, SlotMoves DEF InvalidateExecute, Slot
  <2> HIDE DEF s
  <2> QED
    BY <2>2, <2>3, SlotOnly
<1>6. ASSUME NEW r \in Requests, InvalidateCommit(r)
      PROVE  TypeInv'
  <2> DEFINE s == [req[r] EXCEPT !.pc = "insert", !.batch = {}]
  <2>1. s \in Slot /\ Holding(s) /\ s.user \in registered
    BY <1>0, <1>6, SlotMoves DEF InvalidateCommit, Slot
  <2>2. /\ req' = [req EXCEPT ![r] = s]
        /\ UNCHANGED <<now, registered, verified, active, resets, history>>
    BY <1>6 DEF InvalidateCommit
  <2> HIDE DEF s
  <2>3. otp' \in [OtpIds -> Row] /\ \A o \in OtpIds : otp'[o].user = otp[o].user
    <3>1. ASSUME NEW o \in OtpIds
          PROVE  /\ [otp[o] EXCEPT !.used = TRUE] \in Row
                 /\ [otp[o] EXCEPT !.used = TRUE].user = otp[o].user
      BY DEF TypeInv, TypeOK, Row
    <3> QED
      BY <1>6, <3>1 DEF InvalidateCommit, TypeInv, TypeOK
  <2>4. req' \in [Requests -> Slot] /\ \A q \in Requests : SlotOK(req[q])'
    BY <2>1, <2>2, SlotWrite
  <2>5. TypeOK'
    BY <2>2, <2>3, <2>4 DEF TypeInv, TypeOK, history
  <2>6. RowsOwned'
    BY <2>2, <2>3 DEF TypeInv, RowsOwned
  <2> QED
    BY <2>5, <2>6 DEF TypeInv
<1>7. ASSUME NEW r \in Requests, NEW u \in Users, NEW p \in Purposes,
             VerifyRead(r, u, p)
      PROVE  TypeInv'
  <2> DEFINE s == [Idle EXCEPT !.pc = "get_otp", !.user = u, !.purpose = p,
                               !.verified = verified[u]]
  <2>1. s \in Slot /\ Holding(s) /\ s.user \in registered
    <3>1. verified[u] \in BOOLEAN /\ u \in registered
      BY <1>7 DEF VerifyRead, TypeInv, TypeOK
    <3> QED
      BY <3>1, IdleType DEF Slot, Holding, PCs
  <2>2. req' = [req EXCEPT ![r] = s] /\ UNCHANGED <<now, tables, history>>
    BY <1>7 DEF VerifyRead
  <2> HIDE DEF s
  <2> QED
    BY <2>1, <2>2, SlotOnly
<1>8. ASSUME NEW r \in Requests, NEW o \in OtpIds,
             NEW next \in {"count_failure", "mark_used"},
             VerifyCompare(r, o, next)
      PROVE  TypeInv'
  <2> DEFINE s == [req[r] EXCEPT !.pc = next, !.otp = o,
                                 !.attempts = otp[o].attempts]
  <2>1. s \in Slot /\ Holding(s) /\ s.user \in registered
    <3>1. /\ otp[o].attempts \in 0 .. MaxVerifyAttempts
          /\ otp[o].attempts < MaxVerifyAttempts
      BY <1>8 DEF VerifyCompare, AttemptsLeft, TypeInv, TypeOK, Row
    <3>2. s \in Slot /\ Holding(s)
      BY <1>0, <3>1 DEF Slot, Holding, PCs
    <3>3. req[r].user \in registered /\ s.user = req[r].user
      BY <1>0, <1>8 DEF VerifyCompare, Slot
    <3> QED
      BY <3>2, <3>3
  <2>2. req' = [req EXCEPT ![r] = s] /\ UNCHANGED <<now, tables, history>>
    BY <1>8 DEF VerifyCompare
  <2> HIDE DEF s
  <2> QED
    BY <2>1, <2>2, SlotOnly
<1>9. ASSUME NEW r \in Requests, IncrementOtpAttempts(r)
      PROVE  TypeInv'
  <2> DEFINE o == req[r].otp
             n == req[r].attempts + 1
  <2>1. o \in OtpIds /\ n \in 0 .. MaxVerifyAttempts
    BY <1>0, <1>9, SettingsOK DEF IncrementOtpAttempts, Holding, Slot
  <2>2. /\ req' = [req EXCEPT ![r] = Idle]
        /\ otp' = [otp EXCEPT ![o].attempts = n]
        /\ fails' = [fails EXCEPT ![o] = @ + 1]
        /\ UNCHANGED <<now, registered, verified, active, resets, accepts,
                       unanswered>>
    BY <1>9 DEF IncrementOtpAttempts, Finish
  <2> HIDE DEF o, n
  <2>3. otp' \in [OtpIds -> Row] /\ \A i \in OtpIds : otp'[i].user = otp[i].user
    BY <2>1, <2>2 DEF TypeInv, TypeOK, Row
  <2>4. fails' \in [OtpIds -> Nat]
    BY <2>1, <2>2 DEF TypeInv, TypeOK
  <2>5. req' \in [Requests -> Slot] /\ \A q \in Requests : SlotOK(req[q])'
    BY <2>2, IdleType, SlotWrite
  <2>6. TypeOK'
    BY <2>2, <2>3, <2>4, <2>5 DEF TypeInv, TypeOK
  <2>7. RowsOwned'
    BY <2>2, <2>3 DEF TypeInv, RowsOwned
  <2> QED
    BY <2>6, <2>7 DEF TypeInv
<1>10. ASSUME NEW r \in Requests, MarkOtpUsed(r)
       PROVE  TypeInv'
  <2> DEFINE o == req[r].otp
             l == IF req[r].verified THEN "reply" ELSE "verify_email"
             s == [req[r] EXCEPT !.pc = l]
  <2>1. o \in OtpIds /\ l \in {"verify_email", "reply"}
    BY <1>0, <1>10 DEF MarkOtpUsed, Holding
  <2>2. /\ req' = [req EXCEPT ![r] = s]
        /\ otp' = [otp EXCEPT ![o].used = TRUE]
        /\ accepts' = [accepts EXCEPT ![o] = @ + 1]
        /\ UNCHANGED <<now, registered, verified, active, resets, fails,
                       unanswered>>
    BY <1>10 DEF MarkOtpUsed
  <2> HIDE DEF o, l
  <2>3. s \in Slot /\ Holding(s) /\ s.user \in registered
    BY <1>0, <1>10, <2>1, SlotMoves DEF MarkOtpUsed, Slot
  <2> HIDE DEF s
  <2>4. otp' \in [OtpIds -> Row] /\ \A i \in OtpIds : otp'[i].user = otp[i].user
    BY <2>1, <2>2 DEF TypeInv, TypeOK, Row
  <2>5. accepts' \in [OtpIds -> Nat]
    BY <2>1, <2>2 DEF TypeInv, TypeOK
  <2>6. req' \in [Requests -> Slot] /\ \A q \in Requests : SlotOK(req[q])'
    BY <2>2, <2>3, SlotWrite
  <2>7. TypeOK'
    BY <2>2, <2>4, <2>5, <2>6 DEF TypeInv, TypeOK
  <2>8. RowsOwned'
    BY <2>2, <2>4 DEF TypeInv, RowsOwned
  <2> QED
    BY <2>7, <2>8 DEF TypeInv
<1>11. ASSUME NEW r \in Requests, VerifyUserEmail(r)
       PROVE  TypeInv'
  <2> DEFINE s == [req[r] EXCEPT !.pc = "reply"]
  <2>1. s \in Slot /\ Holding(s) /\ s.user \in registered
    BY <1>0, <1>11, SlotMoves DEF VerifyUserEmail, Slot
  <2>2. /\ req' = [req EXCEPT ![r] = s]
        /\ verified' \in [Users -> BOOLEAN]
        /\ UNCHANGED <<now, registered, active, otp, resets, history>>
    BY <1>11 DEF VerifyUserEmail, TypeInv, TypeOK
  <2> HIDE DEF s
  <2>3. req' \in [Requests -> Slot] /\ \A q \in Requests : SlotOK(req[q])'
    BY <2>1, <2>2, SlotWrite
  <2>4. TypeOK'
    BY <2>2, <2>3 DEF TypeInv, TypeOK, history
  <2>5. RowsOwned'
    BY <2>2 DEF TypeInv, RowsOwned
  <2> QED
    BY <2>4, <2>5 DEF TypeInv
<1>12. ASSUME NEW r \in Requests, ReplyResetToken(r) \/ ReplyTokenPair(r)
       PROVE  TypeInv'
  <2>1. /\ req' = [req EXCEPT ![r] = Idle]
        /\ resets' \in SUBSET Users /\ unanswered' \in SUBSET Users
        /\ UNCHANGED <<now, registered, verified, active, otp, fails, accepts>>
    <3>1. req[r].user \in Users
      BY <1>0, <1>12 DEF ReplyResetToken, ReplyTokenPair, TypeInv, TypeOK
    <3> QED
      BY <1>12, <3>1 DEF ReplyResetToken, ReplyTokenPair, Finish, TypeInv,
                         TypeOK, tables, history
  <2>2. req' \in [Requests -> Slot] /\ \A q \in Requests : SlotOK(req[q])'
    BY <2>1, IdleType, SlotWrite
  <2>3. TypeOK'
    BY <2>1, <2>2 DEF TypeInv, TypeOK
  <2>4. RowsOwned'
    BY <2>1 DEF TypeInv, RowsOwned
  <2> QED
    BY <2>3, <2>4 DEF TypeInv
<1>13. ASSUME NEW r \in Requests, VerifyRefuse(r) \/ Abort(r)
       PROVE  TypeInv'
  BY <1>13, IdleType, SlotOnly DEF VerifyRefuse, Abort, Finish
<1>14. CASE \/ \E u \in Users : SoftDeleteUser(u)
            \/ Tick
            \/ UNCHANGED vars
  <2>0. MaxTime \in Nat /\ now \in 0 .. MaxTime /\ active \in [Users -> BOOLEAN]
    BY SettingsOK DEF TypeInv, TypeOK
  <2>1. /\ now' \in 0 .. MaxTime /\ active' \in [Users -> BOOLEAN]
        /\ UNCHANGED <<registered, verified, otp, resets, req, history>>
    <3>1. CASE \E u \in Users : SoftDeleteUser(u)
      BY <2>0, <3>1 DEF SoftDeleteUser
    <3>2. CASE Tick
      BY <2>0, <3>2 DEF Tick, tables
    <3>3. CASE UNCHANGED vars
      BY <2>0, <3>3 DEF vars, tables
    <3> QED
      BY <1>14, <3>1, <3>2, <3>3
  <2>2. TypeOK'
    BY <2>1 DEF TypeInv, TypeOK, SlotOK, history
  <2>3. RowsOwned'
    BY <2>1 DEF TypeInv, RowsOwned
  <2> QED
    BY <2>2, <2>3 DEF TypeInv
<1> QED
  BY <1>1, <1>2, <1>3, <1>4, <1>5, <1>6, <1>7, <1>8, <1>9, <1>10, <1>11, <1>12,
     <1>13, <1>14
     DEF Next, Send, Verify, ResendRead, ForgotRead, Purposes

(***************************************************************************)
(* The tables and slots keep their types, and the attempts column its      *)
(* limit: a failure is counted from a value read below it.                 *)
(***************************************************************************)
THEOREM OtpTypes == Spec => []TypeOK
<1>1. Spec => []TypeInv
  BY TypeInvInit, TypeInvStep, PTL DEF Spec
<1>2. TypeInv => TypeOK
  BY DEF TypeInv
<1> QED
  BY <1>1, <1>2, PTL

-----------------------------------------------------------------------------
(* What a step does to the slots and to the rows.                          *)

(* Request r goes on to statement l for the same user and purpose.         *)
Moves(r, l) ==
  /\ req'[r].pc = l
  /\ req'[r].user = req[r].user
  /\ req'[r].purpose = req[r].purpose

(* A step writes one slot at most, and takes one of these ways.            *)
LEMMA Flow ==
  ASSUME TypeInv, [Next]_vars
  PROVE  \/ UNCHANGED req
         \/ \E r \in Requests :
              /\ \A q \in Requests \ {r} : req'[q] = req[q]
              /\ \/ req'[r].pc \in {"idle", "count_resends", "get_otp"}
                 \/ \E u \in Users : RegisterCreate(r, u)
                 \/ CountResends(r) /\ Moves(r, "invalidate")
                 \/ InvalidateExecute(r) /\ Moves(r, "commit_invalidate")
                 \/ InvalidateCommit(r) /\ Moves(r, "insert")
                 \/ \E o \in OtpIds, next \in {"count_failure", "mark_used"} :
                      VerifyCompare(r, o, next) /\ Moves(r, next)
                 \/ /\ MarkOtpUsed(r)
                    /\ Moves(r, "verify_email") \/ Moves(r, "reply")
                 \/ VerifyUserEmail(r) /\ Moves(r, "reply")
<1>0. req \in [Requests -> Slot]
  BY DEF TypeInv, TypeOK
<1>1. CASE UNCHANGED req
  BY <1>1
<1>2. ASSUME NEW r \in Requests,
             \/ \E o \in OtpIds : CreateEmailOtp(r, o)
             \/ VerifyRefuse(r) \/ IncrementOtpAttempts(r)
             \/ ReplyResetToken(r) \/ ReplyTokenPair(r) \/ Abort(r)
      PROVE  /\ \A q \in Requests \ {r} : req'[q] = req[q]
             /\ req'[r].pc = "idle"
  <2>1. req' = [req EXCEPT ![r] = Idle]
    BY <1>2 DEF CreateEmailOtp, VerifyRefuse, IncrementOtpAttempts,
                ReplyResetToken, ReplyTokenPair, Abort, Finish
  <2> QED
    BY <1>0, <2>1, IdleType
<1>3. ASSUME NEW r \in Requests, NEW u \in Users, NEW p \in Purposes,
             StartSending(r, u, p)
      PROVE  /\ \A q \in Requests \ {r} : req'[q] = req[q]
             /\ req'[r].pc = "count_resends"
  BY <1>0, <1>3, IdleType DEF StartSending, Slot
<1>4. ASSUME NEW r \in Requests, NEW u \in Users, NEW p \in Purposes,
             VerifyRead(r, u, p)
      PROVE  /\ \A q \in Requests \ {r} : req'[q] = req[q]
             /\ req'[r].pc = "get_otp"
  BY <1>0, <1>4, IdleType DEF VerifyRead, Slot
<1>5. ASSUME NEW r \in Requests, NEW u \in Users, RegisterCreate(r, u)
      PROVE  \A q \in Requests \ {r} : req'[q] = req[q]
  BY <1>0, <1>5 DEF RegisterCreate
<1>6. ASSUME NEW r \in Requests, CountResends(r)
      PROVE  /\ \A q \in Requests \ {r} : req'[q] = req[q]
             /\ req'[r].pc = "idle" \/ Moves(r, "invalidate")
  BY <1>0, <1>6, IdleType DEF CountResends, Finish, Moves, Slot
<1>7. ASSUME NEW r \in Requests, InvalidateExecute(r)
      PROVE  /\ \A q \in Requests \ {r} : req'[q] = req[q]
             /\ Moves(r, "commit_invalidate")
  BY <1>0, <1>7 DEF InvalidateExecute, Moves, Slot
<1>8. ASSUME NEW r \in Requests, InvalidateCommit(r)
      PROVE  /\ \A q \in Requests \ {r} : req'[q] = req[q]
             /\ Moves(r, "insert")
  BY <1>0, <1>8 DEF InvalidateCommit, Moves, Slot
<1>9. ASSUME NEW r \in Requests, NEW o \in OtpIds,
             NEW next \in {"count_failure", "mark_used"},
             VerifyCompare(r, o, next)
      PROVE  /\ \A q \in Requests \ {r} : req'[q] = req[q]
             /\ Moves(r, next)
  BY <1>0, <1>9 DEF VerifyCompare, Moves, Slot
<1>10. ASSUME NEW r \in Requests, MarkOtpUsed(r)
       PROVE  /\ \A q \in Requests \ {r} : req'[q] = req[q]
              /\ Moves(r, "verify_email") \/ Moves(r, "reply")
  BY <1>0, <1>10 DEF MarkOtpUsed, Moves, Slot
<1>11. ASSUME NEW r \in Requests, VerifyUserEmail(r)
       PROVE  /\ \A q \in Requests \ {r} : req'[q] = req[q]
              /\ Moves(r, "reply")
  BY <1>0, <1>11 DEF VerifyUserEmail, Moves, Slot
<1>12. CASE \/ \E u \in Users : SoftDeleteUser(u)
            \/ Tick
            \/ UNCHANGED vars
  BY <1>12 DEF SoftDeleteUser, Tick, vars
<1> QED
  BY <1>2, <1>3, <1>4, <1>5, <1>6, <1>7, <1>8, <1>9, <1>10, <1>11, <1>12
     DEF Next, Send, Verify, ResendRead, ForgotRead, Purposes

(* A row that is there keeps what it says, and used stays set; a step that *)
(* creates no code changes no row in any other way.                        *)
LEMMA RowsKept ==
  ASSUME TypeInv, [Next]_vars, NEW i \in OtpIds,
         \A r \in Requests : ~CreateEmailOtp(r, i)
  PROVE  /\ otp'[i].user = otp[i].user
         /\ otp'[i].purpose = otp[i].purpose
         /\ otp'[i].created = otp[i].created
         /\ otp[i].used => otp'[i].used
<1>0. otp \in [OtpIds -> Row] /\ otp[i] \in Row
  BY DEF TypeInv, TypeOK
<1>1. ASSUME NEW r \in Requests, NEW o \in OtpIds, CreateEmailOtp(r, o)
      PROVE  otp'[i] = otp[i]
  BY <1>0, <1>1 DEF CreateEmailOtp
<1>2. ASSUME NEW r \in Requests, InvalidateCommit(r)
      PROVE  otp'[i] \in {otp[i], [otp[i] EXCEPT !.used = TRUE]}
  BY <1>0, <1>2 DEF InvalidateCommit
<1>3. ASSUME NEW r \in Requests, IncrementOtpAttempts(r)
      PROVE  \E n : otp'[i] \in {otp[i], [otp[i] EXCEPT !.attempts = n]}
  BY <1>0, <1>3 DEF IncrementOtpAttempts
<1>4. ASSUME NEW r \in Requests, MarkOtpUsed(r)
      PROVE  otp'[i] \in {otp[i], [otp[i] EXCEPT !.used = TRUE]}
  BY <1>0, <1>4 DEF MarkOtpUsed
<1>5. CASE otp' = otp
  BY <1>5
<1>6. CASE otp'[i] \in {otp[i], [otp[i] EXCEPT !.used = TRUE]}
  BY <1>0, <1>6 DEF Row
<1>7. ASSUME NEW n, otp'[i] \in {otp[i], [otp[i] EXCEPT !.attempts = n]}
      PROVE  /\ otp'[i].user = otp[i].user
             /\ otp'[i].purpose = otp[i].purpose
             /\ otp'[i].created = otp[i].created
             /\ otp[i].used => otp'[i].used
  BY <1>0, <1>7 DEF Row
<1>8. \/ otp' = otp
      \/ \E r \in Requests :
           \/ \E o \in OtpIds : CreateEmailOtp(r, o)
           \/ InvalidateCommit(r) \/ IncrementOtpAttempts(r) \/ MarkOtpUsed(r)
  BY DEF Next, Send, Verify, RegisterCreate, ForgotRead, ResendRead,
         StartSending, CountResends, InvalidateExecute, VerifyRead,
         VerifyRefuse, VerifyCompare, VerifyUserEmail, ReplyResetToken,
         ReplyTokenPair, Abort, SoftDeleteUser, Tick, vars, tables
<1> QED
  BY <1>1, <1>2, <1>3, <1>4, <1>5, <1>6, <1>7, <1>8

-----------------------------------------------------------------------------
(* How often a code is accepted.                                           *)

LEMMA RequestsCount == Cardinality(Requests) \in Nat
BY RequestsFinite, FS_CardinalityType

(* The requests that have found the presented code right.                  *)
Acceptors(o) == {r \in Requests : req[r].pc = "mark_used" /\ req[r].otp = o}

(***************************************************************************)
(* While a row is unused nobody has been accepted on it, and any number of *)
(* requests may come to be acceptors; once it is used no more do.          *)
(***************************************************************************)
AcceptsInv ==
  \A o \in OtpIds :
     /\ ~otp[o].used => accepts[o] = 0
     /\ accepts[o] + Cardinality(Acceptors(o)) <= Cardinality(Requests)

LEMMA AcceptsInit == Init => AcceptsInv
<1> SUFFICES ASSUME Init, NEW o \in OtpIds
             PROVE  /\ ~otp[o].used => accepts[o] = 0
                    /\ accepts[o] + Cardinality(Acceptors(o))
                         <= Cardinality(Requests)
  BY DEF AcceptsInv
<1>1. accepts[o] = 0 /\ Acceptors(o) = {}
  BY IdleType DEF Init, Acceptors
<1> QED
  BY <1>1, RequestsCount, FS_EmptySet

(* Only mark_otp_used counts an acceptance.                                *)
LEMMA AcceptsKept ==
  ASSUME TypeInv, [Next]_vars, NEW i \in OtpIds
  PROVE  \/ accepts'[i] = accepts[i]
         \/ \E r \in Requests : /\ MarkOtpUsed(r) /\ req[r].otp = i
                                /\ accepts'[i] = accepts[i] + 1
<1>1. ASSUME NEW r \in Requests, MarkOtpUsed(r)
      PROVE  \/ accepts'[i] = accepts[i]
             \/ req[r].otp = i /\ accepts'[i] = accepts[i] + 1
  BY <1>1 DEF MarkOtpUsed, TypeInv, TypeOK
<1>2. accepts' = accepts \/ \E r \in Requests : MarkOtpUsed(r)
  BY DEF Next, Send, Verify, RegisterCreate, CreateEmailOtp, ForgotRead,
         ResendRead, StartSending, CountResends, InvalidateExecute,
         InvalidateCommit, VerifyRead, VerifyRefuse, VerifyCompare,
         IncrementOtpAttempts, VerifyUserEmail, ReplyResetToken,
         ReplyTokenPair, Abort, SoftDeleteUser, Tick, vars, history
<1> QED
  BY <1>1, <1>2

LEMMA AcceptsStep == TypeInv /\ AcceptsInv /\ [Next]_vars => AcceptsInv'
<1> SUFFICES ASSUME TypeInv, AcceptsInv, [Next]_vars, NEW o \in OtpIds
             PROVE  /\ ~otp'[o].used => accepts'[o] = 0
                    /\ accepts'[o] + Cardinality(Acceptors(o)')
                         <= Cardinality(Requests)
  BY DEF AcceptsInv
<1>0. /\ accepts[o] \in Nat /\ req \in [Requests -> Slot]
      /\ otp \in [OtpIds -> Row]
  BY DEF TypeInv, TypeOK
<1>1. /\ IsFiniteSet(Acceptors(o)) /\ Cardinality(Acceptors(o)) \in Nat
      /\ Cardinality(Acceptors(o)') \in Nat
      /\ Cardinality(Acceptors(o)') <= Cardinality(Requests)
      /\ Acceptors(o)' \subseteq Acceptors(o)
           => Cardinality(Acceptors(o)') <= Cardinality(Acceptors(o))
  <2>1. Acceptors(o) \subseteq Requests /\ Acceptors(o)' \subseteq Requests
    BY DEF Acceptors
  <2> QED
    BY <2>1, RequestsFinite, FS_Subset, FS_CardinalityType
<1>2. ASSUME NEW r \in Requests, MarkOtpUsed(r), req[r].otp = o,
             accepts'[o] = accepts[o] + 1
      PROVE  /\ ~otp'[o].used => accepts'[o] = 0
             /\ accepts'[o] + Cardinality(Acceptors(o)')
                  <= Cardinality(Requests)
  <2>1. otp'[o].used
    BY <1>0, <1>2 DEF MarkOtpUsed, Row
  <2>2. r \in Acceptors(o) /\ Acceptors(o)' = Acceptors(o) \ {r}
    <3>1. /\ \A q \in Requests \ {r} : req'[q] = req[q]
          /\ req'[r].pc # "mark_used" /\ req[r].pc = "mark_used"
      BY <1>0, <1>2 DEF MarkOtpUsed, Slot
    <3> QED
      BY <1>2, <3>1 DEF Acceptors
  <2>3. Cardinality(Acceptors(o)') = Cardinality(Acceptors(o)) - 1
    BY <1>1, <2>2, FS_RemoveElement
  <2>4. accepts[o] + Cardinality(Acceptors(o)) <= Cardinality(Requests)
    BY DEF AcceptsInv
  <2> QED
    BY <1>0, <1>1, <1>2, <2>1, <2>3, <2>4, RequestsCount
<1>3. ASSUME accepts'[o] = accepts[o], NEW r \in Requests,
             VerifyCompare(r, o, "mark_used")
      PROVE  /\ ~otp'[o].used => accepts'[o] = 0
             /\ accepts'[o] + Cardinality(Acceptors(o)')
                  <= Cardinality(Requests)
  <2>1. ~otp[o].used
    BY <1>3 DEF VerifyCompare, GetActiveOtp, LiveOtps, UnusedOtps
  <2>2. accepts[o] = 0
    BY <2>1 DEF AcceptsInv
  <2> QED
    BY <1>1, <1>3, <2>2, RequestsCount
<1>4. ASSUME accepts'[o] = accepts[o],
             \A r \in Requests : ~VerifyCompare(r, o, "mark_used")
      PROVE  /\ ~otp'[o].used => accepts'[o] = 0
             /\ accepts'[o] + Cardinality(Acceptors(o)')
                  <= Cardinality(Requests)
  <2>1. Acceptors(o)' \subseteq Acceptors(o)
    <3> SUFFICES ASSUME NEW q \in Requests, req'[q].pc = "mark_used",
                        req'[q].otp = o, req'[q] # req[q]
                 PROVE  FALSE
      BY DEF Acceptors
    <3>1. ASSUME NEW u \in Users, RegisterCreate(q, u)
          PROVE  FALSE
      BY <1>0, <3>1, IdleType DEF RegisterCreate, Slot
    <3>2. ASSUME NEW i \in OtpIds, NEW next \in {"count_failure", "mark_used"},
                 VerifyCompare(q, i, next)
          PROVE  FALSE
      <4>1. req'[q].pc = next /\ req'[q].otp = i
        BY <1>0, <3>2 DEF VerifyCompare, Slot
      <4> QED
        BY <1>4, <3>2, <4>1
    <3> QED
      BY <3>1, <3>2, Flow DEF Moves
  <2>2. ~otp'[o].used => ~otp[o].used
    <3>1. ASSUME NEW r \in Requests, CreateEmailOtp(r, o)
          PROVE  ~otp[o].used
      BY <3>1 DEF CreateEmailOtp, NoRow
    <3> QED
      BY <3>1, RowsKept
  <2>3. accepts[o] + Cardinality(Acceptors(o)) <= Cardinality(Requests)
    BY DEF AcceptsInv
  <2> QED
    BY <1>0, <1>1, <1>4, <2>1, <2>2, <2>3, RequestsCount DEF AcceptsInv
<1> QED
  BY <1>2, <1>3, <1>4, AcceptsKept

(***************************************************************************)
(* One code is accepted at most once per concurrent request.               *)
(***************************************************************************)
THEOREM Accepts == Spec => []AcceptsBounded
<1>1. Spec => [](TypeInv /\ AcceptsInv)
  BY TypeInvInit, TypeInvStep, AcceptsInit, AcceptsStep, PTL DEF Spec
<1>2. TypeInv /\ AcceptsInv => AcceptsBounded
  <2> SUFFICES ASSUME TypeInv, AcceptsInv, NEW o \in OtpIds
               PROVE  accepts[o] <= Cardinality(Requests)
    BY DEF AcceptsBounded
  <2>1. accepts[o] \in Nat
    BY DEF TypeInv, TypeOK
  <2>2. Cardinality(Acceptors(o)) \in Nat
    BY RequestsFinite, FS_Subset, FS_CardinalityType DEF Acceptors
  <2> QED
    BY <2>1, <2>2, RequestsCount DEF AcceptsInv
<1> QED
  BY <1>1, <1>2, PTL

-----------------------------------------------------------------------------
(* What an expired code can still be answered.                             *)

(* Only increment_otp_attempts counts a failure.                           *)
LEMMA FailsKept ==
  ASSUME TypeInv, [Next]_vars, NEW i \in OtpIds
  PROVE  \/ fails'[i] = fails[i]
         \/ \E r \in Requests : /\ IncrementOtpAttempts(r) /\ req[r].otp = i
                                /\ fails'[i] = fails[i] + 1
<1>1. ASSUME NEW r \in Requests, IncrementOtpAttempts(r)
      PROVE  \/ fails'[i] = fails[i]
             \/ req[r].otp = i /\ fails'[i] = fails[i] + 1
  BY <1>1 DEF IncrementOtpAttempts, TypeInv, TypeOK
<1>2. fails' = fails \/ \E r \in Requests : IncrementOtpAttempts(r)
  BY DEF Next, Send, Verify, RegisterCreate, CreateEmailOtp, ForgotRead,
         ResendRead, StartSending, CountResends, InvalidateExecute,
         InvalidateCommit, VerifyRead, VerifyRefuse, VerifyCompare,
         MarkOtpUsed, VerifyUserEmail, ReplyResetToken,
         ReplyTokenPair, Abort, SoftDeleteUser, Tick, vars, history
<1> QED
  BY <1>1, <1>2

(* An expired code is taken up by nobody.                                  *)
LEMMA NoneJoins ==
  ASSUME TypeInv, [Next]_vars, NEW o \in OtpIds, Expired(o)
  PROVE  Holders(o)' \subseteq Holders(o)
<1> SUFFICES ASSUME NEW q \in Requests, req'[q].otp = o, req'[q] # req[q],
                    req'[q].pc \in {"count_failure", "mark_used"}
             PROVE  FALSE
  BY DEF Holders
<1>0. req \in [Requests -> Slot]
  BY DEF TypeInv, TypeOK
<1>1. ASSUME NEW u \in Users, RegisterCreate(q, u)
      PROVE  FALSE
  BY <1>0, <1>1, IdleType DEF RegisterCreate, Slot
<1>2. ASSUME NEW i \in OtpIds, NEW next \in {"count_failure", "mark_used"},
             VerifyCompare(q, i, next)
      PROVE  FALSE
  <2>1. req'[q].otp = i
    BY <1>0, <1>2 DEF VerifyCompare, Slot
  <2>2. otp[o].created + OtpLife > now
    BY <1>2, <2>1 DEF VerifyCompare, GetActiveOtp, LiveOtps
  <2>3. otp[o].created + OtpLife \in Nat /\ now \in Nat
    BY SettingsOK DEF TypeInv, TypeOK, Row
  <2> QED
    BY <2>2, <2>3 DEF Expired
<1> QED
  BY <1>1, <1>2, Flow DEF Moves

LEMMA ExpiryStep ==
  ASSUME TypeInv, [Next]_vars, NEW o \in OtpIds, Expired(o)
  PROVE  fails'[o] + accepts'[o] + Cardinality(Holders(o)')
           <= fails[o] + accepts[o] + Cardinality(Holders(o))
<1>0. /\ fails[o] \in Nat /\ accepts[o] \in Nat
      /\ req \in [Requests -> Slot]
  BY DEF TypeInv, TypeOK
<1>1. /\ IsFiniteSet(Holders(o)) /\ Cardinality(Holders(o)) \in Nat
      /\ Cardinality(Holders(o)') \in Nat
      /\ Cardinality(Holders(o)') <= Cardinality(Holders(o))
  <2>1. Holders(o) \subseteq Requests /\ Holders(o)' \subseteq Holders(o)
    BY NoneJoins DEF Holders
  <2> QED
    BY <2>1, RequestsFinite, FS_Subset, FS_CardinalityType
(* Who answers is a holder no longer.                                      *)
<1>2. ASSUME NEW r \in Requests, req[r].otp = o,
             MarkOtpUsed(r) \/ IncrementOtpAttempts(r)
      PROVE  Cardinality(Holders(o)') <= Cardinality(Holders(o)) - 1
  <2>1. r \in Holders(o)
    BY <1>2 DEF Holders, MarkOtpUsed, IncrementOtpAttempts
  <2>2. req'[r].pc \notin {"count_failure", "mark_used"}
    BY <1>0, <1>2, IdleType DEF MarkOtpUsed, IncrementOtpAttempts, Finish, Slot
  <2>3. Holders(o)' \subseteq Holders(o) \ {r}
    BY <2>2, NoneJoins DEF Holders
  <2>4. /\ IsFiniteSet(Holders(o) \ {r})
        /\ Cardinality(Holders(o) \ {r}) = Cardinality(Holders(o)) - 1
    BY <1>1, <2>1, FS_RemoveElement
  <2> QED
    BY <2>3, <2>4, FS_Subset
<1>3. CASE fails'[o] = fails[o] /\ accepts'[o] = accepts[o]
  BY <1>0, <1>1, <1>3
<1>4. ASSUME NEW r \in Requests, IncrementOtpAttempts(r), req[r].otp = o,
             fails'[o] = fails[o] + 1
      PROVE  fails'[o] + accepts'[o] + Cardinality(Holders(o)')
               <= fails[o] + accepts[o] + Cardinality(Holders(o))
  <2>1. accepts'[o] = accepts[o]
    BY <1>4 DEF IncrementOtpAttempts
  <2> QED
    BY <1>0, <1>1, <1>2, <1>4, <2>1
<1>5. ASSUME NEW r \in Requests, MarkOtpUsed(r), req[r].otp = o,
             accepts'[o] = accepts[o] + 1
      PROVE  fails'[o] + accepts'[o] + Cardinality(Holders(o)')
               <= fails[o] + accepts[o] + Cardinality(Holders(o))
  <2>1. fails'[o] = fails[o]
    BY <1>5 DEF MarkOtpUsed
  <2> QED
    BY <1>0, <1>1, <1>2, <1>5, <2>1
<1> QED
  BY <1>3, <1>4, <1>5, FailsKept, AcceptsKept

(***************************************************************************)
(* Once a code has expired, only the requests that had read it before are  *)
(* still answered by it, right or wrong, each of them once.                *)
(***************************************************************************)
THEOREM Expiry == Spec => ExpiryCutsOff
<1>1. TypeInv /\ [Next]_vars =>
        \A o \in OtpIds : Expired(o) =>
          fails'[o] + accepts'[o] + Cardinality(Holders(o)')
            <= fails[o] + accepts[o] + Cardinality(Holders(o))
  BY ExpiryStep
<1>2. Spec => []TypeInv
  BY TypeInvInit, TypeInvStep, PTL DEF Spec
<1> QED
  BY <1>1, <1>2, PTL DEF Spec, ExpiryCutsOff

-----------------------------------------------------------------------------
(* How many codes are created in a resend window.                          *)

(* The requests past the resend limit that may still create a code.        *)
Senders(u, p) ==
  {r \in Requests : /\ req[r].pc \in {"invalidate", "commit_invalidate", "insert"}
                    /\ req[r].user = u /\ req[r].purpose = p}

(***************************************************************************)
(* The codes of a window and the codes still to come stay within the       *)
(* limit: whoever passes the check finds room for one code less than       *)
(* MaxResends, beside the codes of at most all the requests.               *)
(***************************************************************************)
SendsInv ==
  \A u \in Users, p \in Purposes :
     /\ IsFiniteSet(RecentOtps(u, p))
     /\ Cardinality(RecentOtps(u, p)) + Cardinality(Senders(u, p)) <= SendLimit

LEMMA SendLimitType == SendLimit \in Nat /\ Cardinality(Requests) <= SendLimit
BY RequestsCount, SettingsOK DEF SendLimit

LEMMA NoneRecent ==
  ASSUME TypeInv, NEW u \in Users \ registered, NEW p \in Purposes
  PROVE  RecentOtps(u, p) = {} /\ UnusedOtps(u, p) = {}
BY NullsAreOutside DEF TypeInv, RowsOwned, RecentOtps, UnusedOtps, OtpsOf

LEMMA SendsInit == Init => SendsInv
<1> SUFFICES ASSUME Init, NEW u \in Users, NEW p \in Purposes
             PROVE  /\ IsFiniteSet(RecentOtps(u, p))
                    /\ Cardinality(RecentOtps(u, p)) + Cardinality(Senders(u, p))
                         <= SendLimit
  BY DEF SendsInv
<1>1. RecentOtps(u, p) = {}
  BY TypeInvInit, NoneRecent DEF Init
<1>2. Senders(u, p) = {}
  BY IdleType DEF Init, Senders
<1> QED
  BY <1>1, <1>2, FS_EmptySet, SendLimitType

(* Time only takes rows out of the window, and only create adds one.       *)
LEMMA RecentKept ==
  ASSUME TypeInv, [Next]_vars, NEW u \in Users, NEW p \in Purposes,
         NEW D, \A i \in OtpIds \ D, r \in Requests : ~CreateEmailOtp(r, i)
  PROVE  RecentOtps(u, p)' \subseteq RecentOtps(u, p) \cup D
<1> SUFFICES ASSUME NEW i \in OtpIds \ D, i \in RecentOtps(u, p)'
             PROVE  i \in RecentOtps(u, p)
  BY DEF RecentOtps, OtpsOf
<1>1. /\ otp'[i].user = otp[i].user /\ otp'[i].purpose = otp[i].purpose
      /\ otp'[i].created = otp[i].created
  BY RowsKept
<1>2. now \in Nat /\ (now' = now \/ now' = now + 1)
  <2>1. now' = now \/ Tick
    BY DEF Next, Send, Verify, RegisterCreate, CreateEmailOtp,
           ForgotRead, ResendRead, StartSending, CountResends,
           InvalidateExecute, InvalidateCommit, VerifyRead, VerifyRefuse,
           VerifyCompare, IncrementOtpAttempts, MarkOtpUsed, VerifyUserEmail,
           ReplyResetToken, ReplyTokenPair, Abort, SoftDeleteUser, vars
  <2> QED
    BY <2>1 DEF Tick, TypeInv, TypeOK
<1>3. otp[i].created \in Nat /\ ResendWindow \in Nat
  BY SettingsOK DEF TypeInv, TypeOK, Row
<1> QED
  BY <1>1, <1>2, <1>3 DEF RecentOtps, OtpsOf

(* Who may create a code for (u, p) has registered or passed the check.    *)
LEMMA SendersKept ==
  ASSUME TypeInv, [Next]_vars, NEW u \in Users, NEW p \in Purposes,
         \A r \in Requests : ~RegisterCreate(r, u),
         \A r \in Requests :
            CountResends(r) => req[r].user # u \/ req[r].purpose # p
  PROVE  Senders(u, p)' \subseteq Senders(u, p)
<1> SUFFICES ASSUME NEW q \in Requests, q \in Senders(u, p)', req'[q] # req[q]
             PROVE  q \in Senders(u, p)
  BY DEF Senders
<1>0. /\ req'[q].pc \in {"invalidate", "commit_invalidate", "insert"}
      /\ req'[q].user = u /\ req'[q].purpose = p
  BY DEF Senders
<1>1. ASSUME NEW v \in Users, RegisterCreate(q, v)
      PROVE  FALSE
  <2>1. req'[q].user = v
    BY <1>1, IdleType DEF RegisterCreate, TypeInv, TypeOK, Slot
  <2> QED
    BY <1>0, <1>1, <2>1
<1>2. CASE CountResends(q) /\ Moves(q, "invalidate")
  BY <1>0, <1>2 DEF Moves
<1>3. CASE \/ InvalidateExecute(q) /\ Moves(q, "commit_invalidate")
           \/ InvalidateCommit(q) /\ Moves(q, "insert")
  BY <1>0, <1>3 DEF Moves, Senders, InvalidateExecute, InvalidateCommit
<1> QED
  BY <1>0, <1>1, <1>2, <1>3, Flow DEF Moves

LEMMA SendsStep == TypeInv /\ SendsInv /\ [Next]_vars => SendsInv'
<1> SUFFICES ASSUME TypeInv, SendsInv, [Next]_vars,
                    NEW u \in Users, NEW p \in Purposes
             PROVE  /\ IsFiniteSet(RecentOtps(u, p)')
                    /\ Cardinality(RecentOtps(u, p)')
                         + Cardinality(Senders(u, p)') <= SendLimit
  BY DEF SendsInv, SendLimit
<1> DEFINE C == RecentOtps(u, p)
           H == Senders(u, p)
<1>0. /\ IsFiniteSet(C) /\ IsFiniteSet(H) /\ Cardinality(C) \in Nat
      /\ Cardinality(C) + Cardinality(H) <= SendLimit
      /\ Cardinality(H') \in Nat /\ Cardinality(H') <= Cardinality(Requests)
  <2>1. H \subseteq Requests /\ H' \subseteq Requests
    BY DEF Senders
  <2> QED
    BY <2>1, RequestsFinite, FS_Subset, FS_CardinalityType DEF SendsInv
<1>1. ASSUME NEW r \in Requests, RegisterCreate(r, u)
      PROVE  IsFiniteSet(C') /\ Cardinality(C') + Cardinality(H') <= SendLimit
  <2>1. C = {} /\ otp' = otp /\ now' = now
    BY <1>1, NoneRecent DEF RegisterCreate
  <2>2. C' = {}
    BY <2>1 DEF RecentOtps, OtpsOf
  <2> HIDE DEF C, H
  <2> QED
    BY <1>0, <2>2, FS_EmptySet, SendLimitType, RequestsCount
<1>2. ASSUME NEW r \in Requests, CountResends(r),
             req[r].user = u, req[r].purpose = p
      PROVE  IsFiniteSet(C') /\ Cardinality(C') + Cardinality(H') <= SendLimit
  <2>1. C' = C
    BY <1>2 DEF CountResends, tables, RecentOtps, OtpsOf
  <2>2. CASE Cardinality(C) < MaxResends
    <3> HIDE DEF C, H
    <3> QED
      BY <1>0, <2>1, <2>2, RequestsCount, SettingsOK DEF SendLimit
  <2>3. CASE ~(Cardinality(C) < MaxResends)
    <3>1. req' = [req EXCEPT ![r] = Idle]
      BY <1>0, <1>2, <2>3, SettingsOK
         DEF CountResends, CountRecentResends, Finish
    <3>2. H' \subseteq H
      BY <3>1, IdleType DEF Senders, TypeInv, TypeOK
    <3> HIDE DEF C, H
    <3> QED
      BY <1>0, <2>1, <3>2, BudgetKept, SendLimitType
  <2> QED
    BY <2>2, <2>3
<1>3. ASSUME NEW r \in Requests, NEW o \in OtpIds, CreateEmailOtp(r, o)
      PROVE  IsFiniteSet(C') /\ Cardinality(C') + Cardinality(H') <= SendLimit
  <2>1. /\ req[r].pc = "insert" /\ req' = [req EXCEPT ![r] = Idle]
        /\ otp' = [otp EXCEPT ![o] = otp'[o]]
        /\ otp'[o].user = req[r].user /\ otp'[o].purpose = req[r].purpose
        /\ now' = now
    BY <1>3 DEF CreateEmailOtp, Finish, TypeInv, TypeOK
  <2>2. CASE req[r].user = u /\ req[r].purpose = p
    <3>1. C' \subseteq C \cup {o}
      BY <2>1 DEF RecentOtps, OtpsOf, TypeInv, TypeOK
    <3>2. r \in H /\ H' \subseteq H \ {r}
      BY <2>1, <2>2, IdleType DEF Senders, TypeInv, TypeOK
    <3> HIDE DEF C, H
    <3> QED
      BY <1>0, <3>1, <3>2, BudgetKept, SendLimitType
  <2>3. CASE ~(req[r].user = u /\ req[r].purpose = p)
    <3>1. C' \subseteq C
      BY <2>1, <2>3 DEF RecentOtps, OtpsOf, TypeInv, TypeOK
    <3>2. H' \subseteq H
      BY <2>1, IdleType DEF Senders, TypeInv, TypeOK
    <3> HIDE DEF C, H
    <3> QED
      BY <1>0, <3>1, <3>2, BudgetKept, SendLimitType
  <2> QED
    BY <2>2, <2>3
<1>4. ASSUME \A r \in Requests : ~RegisterCreate(r, u),
             \A r \in Requests :
                CountResends(r) => req[r].user # u \/ req[r].purpose # p,
             \A r \in Requests, o \in OtpIds : ~CreateEmailOtp(r, o)
      PROVE  IsFiniteSet(C') /\ Cardinality(C') + Cardinality(H') <= SendLimit
  <2>1. C' \subseteq C \cup {}
    BY <1>4, RecentKept
  <2>2. H' \subseteq H
    BY <1>4, SendersKept
  <2> HIDE DEF C, H
  <2> QED
    BY <1>0, <2>1, <2>2, BudgetKept, SendLimitType
<1> QED
  BY <1>1, <1>2, <1>3, <1>4

(***************************************************************************)
(* No resend window sees more codes than the limit and the requests that   *)
(* passed its check together.                                              *)
(***************************************************************************)
THEOREM Sends == Spec => []SendsBounded
<1>1. Spec => [](TypeInv /\ SendsInv)
  BY TypeInvInit, TypeInvStep, SendsInit, SendsStep, PTL DEF Spec
<1>2. SendsInv => SendsBounded
  <2> SUFFICES ASSUME SendsInv, NEW u \in Users, NEW p \in Purposes
               PROVE  Cardinality(RecentOtps(u, p)) <= SendLimit
    BY DEF SendsBounded, SendLimit
  <2>1. /\ IsFiniteSet(RecentOtps(u, p)) /\ IsFiniteSet(Senders(u, p))
        /\ Cardinality(RecentOtps(u, p)) + Cardinality(Senders(u, p))
             <= SendLimit
    BY RequestsFinite, FS_Subset DEF SendsInv, Senders
  <2> QED
    BY <2>1, SendLimitType, ProducedBounded
<1> QED
  BY <1>1, <1>2, PTL

-----------------------------------------------------------------------------
(* How many codes are unused at a time.                                    *)

SentFor(u, p, l) ==
  {r \in Requests : req[r].pc = l /\ req[r].user = u /\ req[r].purpose = p}

(* What of the unused codes would stay if the updates of S were committed. *)
Standing(u, p, S) == UnusedOtps(u, p) \ UNION {req[r].batch : r \in S}

(***************************************************************************)
(* Whichever of the pending updates commit first, the codes they leave and *)
(* the requests that then have only their insert before them are no more   *)
(* than the requests.  The bound has to be stated for every set S of       *)
(* pending updates: two of them may have selected the same rows, and the   *)
(* second then makes no room for its own insert.                           *)
(***************************************************************************)
UnusedInv ==
  \A u \in Users, p \in Purposes :
     /\ IsFiniteSet(UnusedOtps(u, p))
     /\ \A S \in SUBSET SentFor(u, p, "commit_invalidate") :
          Cardinality(Standing(u, p, S))
            + Cardinality(SentFor(u, p, "insert") \cup S) <= Cardinality(Requests)

LEMMA SentForRequests ==
  ASSUME NEW u, NEW p, NEW l, NEW S, NEW k, S \subseteq SentFor(u, p, k)
  PROVE  SentFor(u, p, l) \cup S \subseteq Requests
BY DEF SentFor

LEMMA UnusedInit == Init => UnusedInv
<1> SUFFICES ASSUME Init, NEW u \in Users, NEW p \in Purposes
             PROVE  /\ IsFiniteSet(UnusedOtps(u, p))
                    /\ \A S \in SUBSET SentFor(u, p, "commit_invalidate") :
                         Cardinality(Standing(u, p, S))
                           + Cardinality(SentFor(u, p, "insert") \cup S)
                         <= Cardinality(Requests)
  BY DEF UnusedInv
<1>1. UnusedOtps(u, p) = {}
  BY TypeInvInit, NoneRecent DEF Init
<1>2. ASSUME NEW S \in SUBSET SentFor(u, p, "commit_invalidate")
      PROVE  /\ Standing(u, p, S) = {}
             /\ SentFor(u, p, "insert") \cup S \subseteq Requests
  BY <1>1, SentForRequests DEF Standing
<1> QED
  BY <1>1, <1>2, RequestsFinite, NothingProduced, FS_EmptySet

(* A step that neither starts, updates nor inserts for (u, p) adds nothing. *)
LEMMA QuietStep ==
  ASSUME TypeInv, [Next]_vars, NEW u \in Users, NEW p \in Purposes,
         \A r \in Requests : ~RegisterCreate(r, u),
         \A r \in Requests :
            InvalidateExecute(r) \/ InvalidateCommit(r)
              => req[r].user # u \/ req[r].purpose # p,
         \A r \in Requests, o \in OtpIds : ~CreateEmailOtp(r, o)
  PROVE  /\ UnusedOtps(u, p)' \subseteq UnusedOtps(u, p)
         /\ SentFor(u, p, "insert")' \subseteq SentFor(u, p, "insert")
         /\ \A q \in SentFor(u, p, "commit_invalidate")' :
              /\ q \in SentFor(u, p, "commit_invalidate")
              /\ req'[q].batch = req[q].batch
<1>1. UnusedOtps(u, p)' \subseteq UnusedOtps(u, p)
  BY RowsKept DEF UnusedOtps, OtpsOf
<1>2. ASSUME NEW q \in Requests, req'[q] # req[q],
             req'[q].pc \in {"insert", "commit_invalidate"},
             req'[q].user = u, req'[q].purpose = p
      PROVE  FALSE
  <2>1. ASSUME NEW v \in Users, RegisterCreate(q, v)
        PROVE  FALSE
    <3>1. req'[q].user = v
      BY <2>1, IdleType DEF RegisterCreate, TypeInv, TypeOK, Slot
    <3> QED
      BY <1>2, <2>1, <3>1
  <2>2. ASSUME NEW l, InvalidateExecute(q) \/ InvalidateCommit(q), Moves(q, l)
        PROVE  FALSE
    BY <1>2, <2>2 DEF Moves
  <2> QED
    BY <1>2, <2>1, <2>2, Flow DEF Moves
<1> QED
  BY <1>1, <1>2 DEF SentFor

LEMMA UnusedStep == TypeInv /\ UnusedInv /\ [Next]_vars => UnusedInv'
<1> SUFFICES ASSUME TypeInv, UnusedInv, [Next]_vars,
                    NEW u \in Users, NEW p \in Purposes
             PROVE  /\ IsFiniteSet(UnusedOtps(u, p)')
                    /\ \A S \in SUBSET SentFor(u, p, "commit_invalidate")' :
                         Cardinality(Standing(u, p, S)')
                           + Cardinality(SentFor(u, p, "insert")' \cup S)
                         <= Cardinality(Requests)
  BY DEF UnusedInv, Standing
<1> DEFINE U == UnusedOtps(u, p)
           I == SentFor(u, p, "insert")
           P == SentFor(u, p, "commit_invalidate")
<1>0. ASSUME NEW S \in SUBSET P
      PROVE  /\ IsFiniteSet(U)
             /\ IsFiniteSet(Standing(u, p, S)) /\ IsFiniteSet(I \cup S)
             /\ Cardinality(Standing(u, p, S)) + Cardinality(I \cup S)
                  <= Cardinality(Requests)
  BY SentForRequests, RequestsFinite, FS_Subset DEF UnusedInv, Standing
<1>a. req \in [Requests -> Slot] /\ otp \in [OtpIds -> Row] /\ IsFiniteSet(U)
  BY DEF TypeInv, TypeOK, UnusedInv
<1>b. ASSUME NEW S \in SUBSET P', Standing(u, p, S)' = {}
      PROVE  Cardinality(Standing(u, p, S)') + Cardinality(I' \cup S)
               <= Cardinality(Requests)
  <2>1. I' \cup S \subseteq Requests
    BY DEF SentFor
  <2> QED
    BY <1>b, <2>1, RequestsFinite, NothingProduced
<1>1. ASSUME NEW r \in Requests, RegisterCreate(r, u)
      PROVE  /\ IsFiniteSet(U')
             /\ \A S \in SUBSET P' :
                  Cardinality(Standing(u, p, S)') + Cardinality(I' \cup S)
                    <= Cardinality(Requests)
  <2>1. U = {} /\ otp' = otp
    BY <1>1, NoneRecent DEF RegisterCreate
  <2>2. U' = {}
    BY <2>1 DEF UnusedOtps, OtpsOf
  <2> QED
    BY <1>b, <2>2, FS_EmptySet DEF Standing
<1>2. ASSUME NEW r \in Requests, InvalidateExecute(r),
             req[r].user = u, req[r].purpose = p
      PROVE  /\ IsFiniteSet(U')
             /\ \A S \in SUBSET P' :
                  Cardinality(Standing(u, p, S)') + Cardinality(I' \cup S)
                    <= Cardinality(Requests)
  <2>1. /\ \A q \in Requests \ {r} : req'[q] = req[q]
        /\ req'[r].pc = "commit_invalidate" /\ req'[r].batch = U
        /\ U' = U
    BY <1>a, <1>2 DEF InvalidateExecute, Slot, tables, UnusedOtps, OtpsOf
  <2>2. ASSUME NEW S \in SUBSET P', r \in S
        PROVE  Standing(u, p, S)' = {}
    <3>1. U \subseteq UNION {req'[q].batch : q \in S}
      BY <2>1, <2>2
    <3> QED
      BY <2>1, <3>1 DEF Standing
  <2>3. ASSUME NEW S \in SUBSET P', r \notin S
        PROVE  /\ S \in SUBSET P /\ Standing(u, p, S)' = Standing(u, p, S)
               /\ I' \subseteq I
    <3>1. S \in SUBSET P /\ I' \subseteq I
      BY <2>1, <2>3 DEF SentFor
    <3>2. \A q \in S : req'[q].batch = req[q].batch
      BY <2>1, <2>3, <3>1 DEF SentFor
    <3> QED
      BY <2>1, <3>1, <3>2 DEF Standing
  <2>4. ASSUME NEW S \in SUBSET P', r \notin S
        PROVE  Cardinality(Standing(u, p, S)') + Cardinality(I' \cup S)
                 <= Cardinality(Requests)
    <3>1. I' \cup S \subseteq I \cup S
      BY <2>3, <2>4
    <3> HIDE DEF I, P
    <3> QED
      BY <1>0, <2>3, <2>4, <3>1, BudgetKept, RequestsCount
  <2> QED
    BY <1>a, <1>b, <2>1, <2>2, <2>4
<1>3. ASSUME NEW r \in Requests, InvalidateCommit(r),
             req[r].user = u, req[r].purpose = p
      PROVE  /\ IsFiniteSet(U')
             /\ \A S \in SUBSET P' :
                  Cardinality(Standing(u, p, S)') + Cardinality(I' \cup S)
                    <= Cardinality(Requests)
  <2>1. /\ \A q \in Requests \ {r} : req'[q] = req[q]
        /\ req[r].pc = "commit_invalidate" /\ req'[r].pc = "insert"
    BY <1>a, <1>3 DEF InvalidateCommit, Slot
  <2>2. U' = U \ req[r].batch
    <3>1. ASSUME NEW i \in OtpIds
          PROVE  /\ otp'[i].user = otp[i].user /\ otp'[i].purpose = otp[i].purpose
                 /\ otp'[i].used <=> otp[i].used \/ i \in req[r].batch
      <4>1. otp'[i] = IF i \in req[r].batch THEN [otp[i] EXCEPT !.used = TRUE]
                      ELSE otp[i]
        BY <1>3 DEF InvalidateCommit
      <4> QED
        BY <1>a, <4>1 DEF Row
    <3> QED
      BY <3>1 DEF UnusedOtps, OtpsOf
  <2>3. ASSUME NEW S \in SUBSET P'
        PROVE  /\ S \cup {r} \in SUBSET P
               /\ Standing(u, p, S)' \subseteq Standing(u, p, S \cup {r})
               /\ I' \cup S \subseteq I \cup (S \cup {r})
    <3>1. S \cup {r} \in SUBSET P /\ r \notin S /\ I' \subseteq I \cup {r}
      BY <1>3, <2>1 DEF SentFor
    <3>2. \A q \in S : req'[q].batch = req[q].batch
      BY <2>1, <3>1 DEF SentFor
    <3> QED
      BY <2>2, <3>1, <3>2 DEF Standing
  <2>4. IsFiniteSet(U')
    BY <1>a, <2>2, FS_Subset
  <2> HIDE DEF U, I, P
  <2>5. ASSUME NEW S \in SUBSET P'
        PROVE  Cardinality(Standing(u, p, S)') + Cardinality(I' \cup S)
                 <= Cardinality(Requests)
    <3> DEFINE T == S \cup {r}
    <3>1. /\ IsFiniteSet(Standing(u, p, T)) /\ IsFiniteSet(I \cup T)
          /\ Cardinality(Standing(u, p, T)) + Cardinality(I \cup T)
               <= Cardinality(Requests)
      BY <1>0, <2>3
    <3>2. Standing(u, p, S)' \subseteq Standing(u, p, T) /\ I' \cup S \subseteq I \cup T
      BY <2>3
    <3> HIDE DEF T
    <3> QED
      BY <3>1, <3>2, BudgetKept, RequestsCount
  <2> QED
    BY <2>4, <2>5
<1>4. ASSUME NEW r \in Requests, NEW o \in OtpIds, CreateEmailOtp(r, o)
      PROVE  /\ IsFiniteSet(U')
             /\ \A S \in SUBSET P' :
                  Cardinality(Standing(u, p, S)') + Cardinality(I' \cup S)
                    <= Cardinality(Requests)
  <2>1. /\ req[r].pc = "insert" /\ req' = [req EXCEPT ![r] = Idle]
        /\ otp' = [otp EXCEPT ![o] = otp'[o]]
        /\ otp'[o].user = req[r].user /\ otp'[o].purpose = req[r].purpose
    BY <1>4 DEF CreateEmailOtp, Finish, TypeInv, TypeOK
  <2>2. IsFiniteSet(U')
    <3>1. U' \subseteq U \cup {o}
      BY <2>1, <1>a DEF UnusedOtps, OtpsOf
    <3> HIDE DEF U
    <3> QED
      BY <1>a, <3>1, FS_AddElement, FS_Subset
  <2>3. ASSUME NEW S \in SUBSET P'
        PROVE  S \in SUBSET P /\ r \notin S
               /\ \A q \in S : req'[q].batch = req[q].batch
    BY <1>a, <2>1, IdleType DEF SentFor
  <2>4. CASE req[r].user = u /\ req[r].purpose = p
    <3>1. ASSUME NEW S \in SUBSET P'
          PROVE  /\ Standing(u, p, S)' \subseteq Standing(u, p, S) \cup {o}
                 /\ r \in I \cup S
                 /\ I' \cup S \subseteq (I \cup S) \ {r}
      <4>1. U' \subseteq U \cup {o}
        BY <2>1, <1>a DEF UnusedOtps, OtpsOf
      <4>2. r \in I /\ I' \subseteq I \ {r}
        BY <1>a, <2>1, <2>4, IdleType DEF SentFor
      <4>3. UNION {req'[q].batch : q \in S} = UNION {req[q].batch : q \in S}
        BY <2>3
      <4> QED
        BY <2>3, <4>1, <4>2, <4>3 DEF Standing
    <3> HIDE DEF U, I, P
    <3>2. ASSUME NEW S \in SUBSET P'
          PROVE  Cardinality(Standing(u, p, S)') + Cardinality(I' \cup S)
                   <= Cardinality(Requests)
      <4>1. /\ IsFiniteSet(Standing(u, p, S)) /\ IsFiniteSet(I \cup S)
            /\ Cardinality(Standing(u, p, S)) + Cardinality(I \cup S)
                 <= Cardinality(Requests)
        BY <1>0, <2>3
      <4> QED
        BY <3>1, <4>1, BudgetKept, RequestsCount
    <3> QED
      BY <2>2, <3>2
  <2>5. CASE ~(req[r].user = u /\ req[r].purpose = p)
    <3>1. ASSUME NEW S \in SUBSET P'
          PROVE  /\ Standing(u, p, S)' \subseteq Standing(u, p, S)
                 /\ I' \cup S \subseteq I \cup S
      <4>1. U' \subseteq U
        BY <2>1, <2>5, <1>a DEF UnusedOtps, OtpsOf
      <4>2. I' \subseteq I
        BY <1>a, <2>1, IdleType DEF SentFor
      <4>3. UNION {req'[q].batch : q \in S} = UNION {req[q].batch : q \in S}
        BY <2>3
      <4> QED
        BY <4>1, <4>2, <4>3 DEF Standing
    <3> HIDE DEF U, I, P
    <3>2. ASSUME NEW S \in SUBSET P'
          PROVE  Cardinality(Standing(u, p, S)') + Cardinality(I' \cup S)
                   <= Cardinality(Requests)
      <4>1. /\ IsFiniteSet(Standing(u, p, S)) /\ IsFiniteSet(I \cup S)
            /\ Cardinality(Standing(u, p, S)) + Cardinality(I \cup S)
                 <= Cardinality(Requests)
        BY <1>0, <2>3
      <4> QED
        BY <3>1, <4>1, BudgetKept, RequestsCount
    <3> QED
      BY <2>2, <3>2
  <2> QED
    BY <2>4, <2>5
<1>5. ASSUME \A r \in Requests : ~RegisterCreate(r, u),
             \A r \in Requests :
                InvalidateExecute(r) \/ InvalidateCommit(r)
                  => req[r].user # u \/ req[r].purpose # p,
             \A r \in Requests, o \in OtpIds : ~CreateEmailOtp(r, o)
      PROVE  /\ IsFiniteSet(U')
             /\ \A S \in SUBSET P' :
                  Cardinality(Standing(u, p, S)') + Cardinality(I' \cup S)
                    <= Cardinality(Requests)
  <2>1. U' \subseteq U /\ I' \subseteq I
    BY <1>5, QuietStep
  <2>2. ASSUME NEW S \in SUBSET P'
        PROVE  /\ S \in SUBSET P
               /\ Standing(u, p, S)' \subseteq Standing(u, p, S)
    <3>1. \A q \in S : q \in P /\ req'[q].batch = req[q].batch
      BY <1>5, QuietStep
    <3>2. UNION {req'[q].batch : q \in S} = UNION {req[q].batch : q \in S}
      BY <3>1
    <3> QED
      BY <2>1, <3>1, <3>2 DEF Standing
  <2> HIDE DEF U, I, P
  <2>3. IsFiniteSet(U')
    BY <1>a, <2>1, FS_Subset
  <2>4. ASSUME NEW S \in SUBSET P'
        PROVE  Cardinality(Standing(u, p, S)') + Cardinality(I' \cup S)
                 <= Cardinality(Requests)
    <3>1. I' \cup S \subseteq I \cup S
      BY <2>1
    <3>2. /\ IsFiniteSet(Standing(u, p, S)) /\ IsFiniteSet(I \cup S)
          /\ Cardinality(Standing(u, p, S)) + Cardinality(I \cup S)
               <= Cardinality(Requests)
      BY <1>0, <2>2
    <3> QED
      BY <2>2, <3>1, <3>2, BudgetKept, RequestsCount
  <2> QED
    BY <2>3, <2>4
<1> QED
  BY <1>1, <1>2, <1>3, <1>4, <1>5

(***************************************************************************)
(* No more codes are unused at a time than requests are served.            *)
(***************************************************************************)
THEOREM Unused == Spec => []UnusedBounded
<1>1. Spec => [](TypeInv /\ UnusedInv)
  BY TypeInvInit, TypeInvStep, UnusedInit, UnusedStep, PTL DEF Spec
<1>2. UnusedInv => UnusedBounded
  <2> SUFFICES ASSUME UnusedInv, NEW u \in Users, NEW p \in Purposes
               PROVE  Cardinality(UnusedOtps(u, p)) <= Cardinality(Requests)
    BY DEF UnusedBounded
  <2>1. {} \subseteq SentFor(u, p, "commit_invalidate")
    OBVIOUS
  <2>2. Standing(u, p, {}) = UnusedOtps(u, p)
    BY DEF Standing
  <2>3. IsFiniteSet(SentFor(u, p, "insert") \cup {})
    BY RequestsFinite, FS_Subset DEF SentFor
  <2>4. /\ IsFiniteSet(UnusedOtps(u, p))
        /\ Cardinality(UnusedOtps(u, p))
             + Cardinality(SentFor(u, p, "insert") \cup {})
           <= Cardinality(Requests)
    BY <2>1, <2>2 DEF UnusedInv
  <2> QED
    BY <2>3, <2>4, RequestsCount, ProducedBounded
<1> QED
  BY <1>1, <1>2, PTL

-----------------------------------------------------------------------------
(* Verification and reset tokens come from a code that was shown.          *)

(* A request that has compared a code holds one of its own user, sent for  *)
(* its own purpose.                                                        *)
HoldsOwnCode(r) ==
  req[r].pc \in {"count_failure", "mark_used"} =>
     /\ otp[req[r].otp].user = req[r].user
     /\ otp[req[r].otp].purpose = req[r].purpose

(* A request past mark_otp_used has had a code accepted.                   *)
HasShown(r) ==
  req[r].pc \in {"verify_email", "reply"} =>
     CodeShown(req[r].user, {req[r].purpose})

CodeInv ==
  /\ \A r \in Requests : HoldsOwnCode(r) /\ HasShown(r)
  /\ OnlyByCode

LEMMA CodeInit == Init => CodeInv
<1> SUFFICES ASSUME Init PROVE CodeInv
  OBVIOUS
<1>1. \A r \in Requests : HoldsOwnCode(r) /\ HasShown(r)
  BY IdleType DEF Init, HoldsOwnCode, HasShown
<1>2. OnlyByCode
  BY DEF Init, OnlyByCode
<1> QED
  BY <1>1, <1>2 DEF CodeInv

(* A code that was shown stays shown.                                      *)
LEMMA ShownStays ==
  ASSUME TypeInv, [Next]_vars, NEW u \in Users, NEW P, CodeShown(u, P)
  PROVE  CodeShown(u, P)'
<1>1. PICK o \in OtpIds : /\ otp[o].user = u /\ otp[o].purpose \in P
                          /\ accepts[o] > 0
  BY DEF CodeShown
<1>2. \A r \in Requests : ~CreateEmailOtp(r, o)
  BY <1>1, NullsAreOutside DEF CreateEmailOtp, NoRow
<1>3. otp'[o].user = u /\ otp'[o].purpose \in P
  BY <1>1, <1>2, RowsKept
<1>4. accepts[o] \in Nat
  BY DEF TypeInv, TypeOK
<1>5. accepts'[o] > 0
  BY <1>1, <1>4, AcceptsKept
<1> QED
  BY <1>3, <1>5 DEF CodeShown

LEMMA ShownNext ==
  ASSUME NEW q, \A u, p : u = req'[q].user /\ p = req'[q].purpose
                            => CodeShown(u, {p})'
  PROVE  HasShown(q)'
BY DEF HasShown, CodeShown

LEMMA CodeStep == TypeInv /\ CodeInv /\ [Next]_vars => CodeInv'
<1> SUFFICES ASSUME TypeInv, CodeInv, [Next]_vars PROVE CodeInv'
  OBVIOUS
<1>0. ASSUME NEW q \in Requests
      PROVE  /\ req[q] \in Slot
             /\ req[q].pc # "idle" => req[q].user \in Users
             /\ req[q].pc \in {"count_failure", "mark_used"}
                  => req[q].otp \in OtpIds
             /\ HoldsOwnCode(q) /\ HasShown(q)
  BY DEF TypeInv, TypeOK, SlotOK, CodeInv
<1>1. ASSUME NEW q \in Requests, req'[q] = req[q]
      PROVE  HoldsOwnCode(q)' /\ HasShown(q)'
  <2>1. HoldsOwnCode(q)'
    <3> SUFFICES ASSUME req[q].pc \in {"count_failure", "mark_used"}
                 PROVE  /\ otp'[req[q].otp].user = req[q].user
                        /\ otp'[req[q].otp].purpose = req[q].purpose
      BY <1>1 DEF HoldsOwnCode
    <3>1. otp[req[q].otp] # NoRow
      BY <1>0, NullsAreOutside DEF HoldsOwnCode, NoRow
    <3>2. \A r \in Requests : ~CreateEmailOtp(r, req[q].otp)
      BY <3>1 DEF CreateEmailOtp
    <3> QED
      BY <1>0, <3>2, RowsKept DEF HoldsOwnCode
  <2>2. HasShown(q)'
    <3>1. CASE req[q].pc \in {"verify_email", "reply"}
      <4>1. req[q].user \in Users /\ CodeShown(req[q].user, {req[q].purpose})
        BY <1>0, <3>1 DEF HasShown
      <4>2. ASSUME NEW u, NEW p, u = req[q].user, p = req[q].purpose
            PROVE  CodeShown(u, {p})'
        BY <4>1, <4>2, ShownStays
      <4> QED
        BY <1>1, <4>2, ShownNext
    <3>2. CASE req[q].pc \notin {"verify_email", "reply"}
      BY <1>1, <3>2 DEF HasShown
    <3> QED
      BY <3>1, <3>2
  <2> QED
    BY <2>1, <2>2
<1>2. ASSUME NEW r \in Requests, NEW o \in OtpIds,
             NEW next \in {"count_failure", "mark_used"},
             VerifyCompare(r, o, next), Moves(r, next)
      PROVE  HoldsOwnCode(r)' /\ HasShown(r)'
  <2>1. req'[r].otp = o /\ otp' = otp
    BY <1>0, <1>2 DEF VerifyCompare, tables, Slot, TypeInv, TypeOK
  <2>2. otp[o].user = req[r].user /\ otp[o].purpose = req[r].purpose
    BY <1>2 DEF VerifyCompare, GetActiveOtp, LiveOtps, UnusedOtps, OtpsOf
  <2> QED
    BY <1>2, <2>1, <2>2 DEF HoldsOwnCode, HasShown, Moves
<1>3. ASSUME NEW r \in Requests, MarkOtpUsed(r),
             Moves(r, "verify_email") \/ Moves(r, "reply")
      PROVE  HoldsOwnCode(r)' /\ HasShown(r)'
  <2> DEFINE o == req[r].otp
  <2>1. /\ o \in OtpIds /\ otp[o].user = req[r].user
        /\ otp[o].purpose = req[r].purpose /\ req[r].user \in Users
    BY <1>0, <1>3 DEF HoldsOwnCode, MarkOtpUsed
  <2>2. /\ otp'[o].user = otp[o].user /\ otp'[o].purpose = otp[o].purpose
        /\ accepts'[o] > 0
    <3>1. otp[o] \in Row /\ accepts[o] \in Nat
      BY <2>1 DEF TypeInv, TypeOK
    <3>2. otp'[o] = [otp[o] EXCEPT !.used = TRUE] /\ accepts'[o] = accepts[o] + 1
      BY <1>3, <2>1 DEF MarkOtpUsed, TypeInv, TypeOK
    <3> QED
      BY <3>1, <3>2 DEF Row
  <2>3. ASSUME NEW u, NEW p, u = req'[r].user, p = req'[r].purpose
        PROVE  CodeShown(u, {p})'
    BY <1>3, <2>1, <2>2, <2>3 DEF CodeShown, Moves
  <2>4. HasShown(r)'
    BY <2>3, ShownNext
  <2> QED
    BY <1>3, <2>4 DEF HoldsOwnCode, Moves
<1>4. ASSUME NEW r \in Requests, VerifyUserEmail(r), Moves(r, "reply")
      PROVE  HoldsOwnCode(r)' /\ HasShown(r)'
  <2>1. req[r].user \in Users /\ CodeShown(req[r].user, {req[r].purpose})
    BY <1>0, <1>4 DEF HasShown, VerifyUserEmail
  <2>2. ASSUME NEW u, NEW p, u = req'[r].user, p = req'[r].purpose
        PROVE  CodeShown(u, {p})'
    BY <1>4, <2>1, <2>2, ShownStays DEF Moves
  <2>3. HasShown(r)'
    BY <2>2, ShownNext
  <2> QED
    BY <1>4, <2>3 DEF HoldsOwnCode, Moves
<1>5. ASSUME NEW r \in Requests, NEW u \in Users, RegisterCreate(r, u)
      PROVE  HoldsOwnCode(r)' /\ HasShown(r)'
  <2>1. req'[r].pc = "insert"
    BY <1>5, IdleType DEF RegisterCreate, TypeInv, TypeOK, Slot
  <2> QED
    BY <2>1 DEF HoldsOwnCode, HasShown
<1>6. ASSUME NEW r \in Requests,
             req'[r].pc \in {"idle", "count_resends", "get_otp", "invalidate",
                             "commit_invalidate", "insert"}
      PROVE  HoldsOwnCode(r)' /\ HasShown(r)'
  BY <1>6 DEF HoldsOwnCode, HasShown
<1>7. \A q \in Requests : HoldsOwnCode(q)' /\ HasShown(q)'
  BY <1>1, <1>2, <1>3, <1>4, <1>5, <1>6, Flow DEF Moves
<1>8. OnlyByCode'
  <2> SUFFICES ASSUME NEW u \in Users
               PROVE  /\ verified'[u] => CodeShown(u, Purposes)'
                      /\ u \in resets' => CodeShown(u, {Reset})'
    BY DEF OnlyByCode, CodeShown
  <2>1. ASSUME NEW r \in Requests, VerifyUserEmail(r), req[r].user = u
        PROVE  CodeShown(u, Purposes)'
    <3>1. CodeShown(u, {req[r].purpose})
      BY <1>0, <2>1 DEF VerifyUserEmail, HasShown
    <3>2. req[r].purpose \in Purposes
      BY <1>0 DEF Slot
    <3>3. CodeShown(u, Purposes)
      BY <3>1, <3>2 DEF CodeShown
    <3> QED
      BY <3>3, ShownStays
  <2>2. ASSUME NEW r \in Requests, ReplyResetToken(r), req[r].user = u
        PROVE  CodeShown(u, {Reset})'
    <3>1. CodeShown(u, {Reset})
      BY <1>0, <2>2 DEF ReplyResetToken, HasShown
    <3> QED
      BY <3>1, ShownStays
  <2>3. \/ verified' = verified
        \/ \E r \in Requests :
             /\ VerifyUserEmail(r)
             /\ verified' = [verified EXCEPT ![req[r].user] = TRUE]
    <3>1. verified' = verified \/ \E r \in Requests : VerifyUserEmail(r)
      BY DEF Next, Send, Verify, RegisterCreate, CreateEmailOtp, ForgotRead,
             ResendRead, StartSending, CountResends, InvalidateExecute,
             InvalidateCommit, VerifyRead, VerifyRefuse, VerifyCompare,
             IncrementOtpAttempts, MarkOtpUsed, ReplyResetToken,
             ReplyTokenPair, Abort, SoftDeleteUser, Tick, vars, tables
    <3> QED
      BY <3>1 DEF VerifyUserEmail
  <2>4. \/ resets' = resets
        \/ \E r \in Requests :
             ReplyResetToken(r) /\ resets' = resets \cup {req[r].user}
    BY DEF Next, Send, Verify, RegisterCreate, CreateEmailOtp, ForgotRead,
           ResendRead, StartSending, CountResends, InvalidateExecute,
           InvalidateCommit, VerifyRead, VerifyRefuse, VerifyCompare,
           IncrementOtpAttempts, MarkOtpUsed, VerifyUserEmail,
           ReplyResetToken, ReplyTokenPair, Abort, SoftDeleteUser, Tick,
           vars, tables
  <2>5. /\ verified[u] => CodeShown(u, Purposes)'
        /\ u \in resets => CodeShown(u, {Reset})'
    BY ShownStays DEF CodeInv, OnlyByCode
  <2>6. verified'[u] => CodeShown(u, Purposes)'
    BY <2>1, <2>3, <2>5 DEF TypeInv, TypeOK
  <2>7. u \in resets' => CodeShown(u, {Reset})'
    BY <2>2, <2>4, <2>5
  <2> QED
    BY <2>6, <2>7
<1> QED
  BY <1>7, <1>8 DEF CodeInv

(***************************************************************************)
(* Nobody is verified and nobody gets a reset token without a right code.  *)
(***************************************************************************)
THEOREM ByCode == Spec => []OnlyByCode
<1>1. Spec => [](TypeInv /\ CodeInv)
  BY TypeInvInit, TypeInvStep, CodeInit, CodeStep, PTL DEF Spec
<1>2. CodeInv => OnlyByCode
  BY DEF CodeInv
<1> QED
  BY <1>1, <1>2, PTL

=============================================================================
