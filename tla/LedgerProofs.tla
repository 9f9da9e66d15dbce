---------------------------- MODULE LedgerProofs ----------------------------
(***************************************************************************)
(* Sessions implements SessionLedger, for any number of users, request     *)
(* slots and tokens.  Two facts of SessionsProofs carry the argument: a    *)
(* token is revoked before its successor is inserted, and its successors   *)
(* and those still to be inserted are together no more than the slots.     *)
(* The third is proved here: a refresh inserts for the owner of the token  *)
(* it has read.                                                            *)
(***************************************************************************)
EXTENDS SessionsRefinement, SessionsProofs

OwnersAgree ==
  \A r \in Requests :
     req[r].pc \in Rotating /\ req[r].token \in Jtis =>
        owner[req[r].token] = req[r].user

LedgerInv == TypeInv /\ ExchangeInv /\ OwnersAgree

LEMMA OwnersInit == Init => OwnersAgree
BY NullsAreOutside DEF Init, OwnersAgree, Idle

(* A token with a row keeps its owner.                                     *)
LEMMA OwnersKept ==
  ASSUME TypeInv, [Next]_vars, NEW j \in Jtis, status[j] # "absent"
  PROVE  owner'[j] = owner[j]
<1>1. ASSUME NEW r \in Requests, NEW k \in Jtis, CreateRefreshTokenRecord(r, k)
      PROVE  owner'[j] = owner[j]
  BY <1>1 DEF CreateRefreshTokenRecord, FreshJti, TypeInv, TypeOK
<1>2. CASE \A r \in Requests, k \in Jtis : ~CreateRefreshTokenRecord(r, k)
  BY <1>2, ParentsKept
<1> QED
  BY <1>1, <1>2

LEMMA OwnersStep == TypeInv /\ OwnersAgree /\ [Next]_vars => OwnersAgree'
<1> SUFFICES ASSUME TypeInv, OwnersAgree, [Next]_vars, NEW q \in Requests,
                    req'[q].pc \in Rotating, req'[q].token \in Jtis
             PROVE  owner'[req'[q].token] = req'[q].user
  BY DEF OwnersAgree
<1>0. /\ req \in [Requests -> Slot] /\ SlotOK(req[q])
      /\ req[q].token \in Jtis => status[req[q].token] # "absent"
  BY DEF TypeInv, TypeOK, RowsExist
<1>1. ASSUME req[q].pc \in Rotating, req'[q].token = req[q].token,
             req'[q].user = req[q].user
      PROVE  owner'[req'[q].token] = req'[q].user
  BY <1>0, <1>1, OwnersKept DEF OwnersAgree
<1>2. ASSUME req'[q] = req[q]
      PROVE  owner'[req'[q].token] = req'[q].user
  BY <1>1, <1>2
<1>3. ASSUME NEW r \in Requests, NEW u \in Users, LoginRead(r, u)
      PROVE  owner'[req'[q].token] = req'[q].user
  <2>1. CASE r = q
    BY <1>0, <1>3, <2>1, NullsAreOutside DEF LoginRead, Idle
  <2>2. CASE r # q
    BY <1>0, <1>2, <1>3, <2>2 DEF LoginRead
  <2> QED
    BY <2>1, <2>2
<1>4. ASSUME NEW r \in Requests, LoginRehash(r)
      PROVE  owner'[req'[q].token] = req'[q].user
  <2>1. CASE r = q
    BY <1>0, <1>4, <2>1, NullsAreOutside DEF LoginRehash, SlotOK, Slot
  <2>2. CASE r # q
    BY <1>0, <1>2, <1>4, <2>2 DEF LoginRehash
  <2> QED
    BY <2>1, <2>2
<1>5. ASSUME NEW r \in Requests, NEW j \in Jtis, RefreshRead(r, j)
      PROVE  owner'[req'[q].token] = req'[q].user
  <2>1. CASE r = q
    BY <1>0, <1>5, <2>1 DEF RefreshRead, Idle, tokens
  <2>2. CASE r # q
    BY <1>0, <1>2, <1>5, <2>2 DEF RefreshRead
  <2> QED
    BY <2>1, <2>2
<1>6. ASSUME NEW r \in Requests, RefreshCheckUser(r) \/ RefreshRevoke(r)
      PROVE  owner'[req'[q].token] = req'[q].user
  <2>1. CASE r = q
    <3>1. req[q].pc \in Rotating
      BY <1>6, <2>1 DEF RefreshCheckUser, RefreshRevoke, Rotating
    <3>2. req'[q].token = req[q].token /\ req'[q].user = req[q].user
      BY <1>0, <1>6, <2>1, NullsAreOutside
         DEF RefreshCheckUser, RefreshRevoke, Finish, Idle, Slot
    <3> QED
      BY <1>1, <3>1, <3>2
  <2>2. CASE r # q
    BY <1>0, <1>2, <1>6, <2>2 DEF RefreshCheckUser, RefreshRevoke, Finish
  <2> QED
    BY <2>1, <2>2
<1>7. ASSUME NEW r \in Requests, SetPassword(r) \/ RevokeAllExecute(r)
      PROVE  owner'[req'[q].token] = req'[q].user
  <2>1. r # q /\ req'[q].pc = req[q].pc
    BY <1>7, MarksOnly DEF Rotating
  <2> QED
    BY <1>1, <1>7, <2>1, MarksOnly
<1>8. ASSUME NEW r \in Requests,
             \/ \E j \in Jtis : CreateRefreshTokenRecord(r, j)
             \/ \E j \in Jtis : LogoutRead(r, j)
             \/ \E u \in Users, p \in Passwords : ChangeRead(r, u, p)
             \/ \E u \in Users : DeleteRead(r, u)
             \/ LogoutRevoke(r) \/ RevokeAllCommit(r) \/ SoftDeleteUser(r)
             \/ Abort(r)
      PROVE  owner'[req'[q].token] = req'[q].user
  <2>1. CASE \/ \E j \in Jtis : CreateRefreshTokenRecord(r, j)
             \/ LogoutRevoke(r) \/ RevokeAllCommit(r) \/ SoftDeleteUser(r)
             \/ Abort(r)
    <3>1. Finish(r)
      BY <2>1 DEF CreateRefreshTokenRecord, LogoutRevoke, RevokeAllCommit,
                  SoftDeleteUser, Abort
    <3>2. r # q
      BY <1>0, <3>1 DEF Finish, Idle, Rotating
    <3> QED
      BY <1>0, <1>2, <3>1, <3>2 DEF Finish
  <2>2. CASE \E j \in Jtis : LogoutRead(r, j)
    <3>1. r # q
      BY <1>0, <2>2 DEF LogoutRead, Idle, Rotating
    <3> QED
      BY <1>0, <1>2, <2>2, <3>1 DEF LogoutRead
  <2>3. CASE \E u \in Users, p \in Passwords : ChangeRead(r, u, p)
    <3>1. r # q
      BY <1>0, <2>3 DEF ChangeRead, Idle, Rotating
    <3> QED
      BY <1>0, <1>2, <2>3, <3>1 DEF ChangeRead
  <2>4. CASE \E u \in Users : DeleteRead(r, u)
    <3>1. r # q
      BY <1>0, <2>4 DEF DeleteRead, Idle, Rotating
    <3> QED
      BY <1>0, <1>2, <2>4, <3>1 DEF DeleteRead
  <2> QED
    BY <1>8, <2>1, <2>2, <2>3, <2>4
<1>9. CASE UNCHANGED req
  BY <1>2, <1>9
<1> QED
  BY <1>3, <1>4, <1>5, <1>6, <1>7, <1>8, <1>9
     DEF Next, Login, Refresh, Logout, ChangePassword, DeleteUser,
         VerifyUserEmail, vars

LEMMA LedgerInvInit == Init => LedgerInv
BY TypeInvInit, ExchangeInit, OwnersInit DEF LedgerInv

LEMMA LedgerInvStep == LedgerInv /\ [Next]_vars => LedgerInv'
BY TypeInvStep, ExchangeStep, OwnersStep DEF LedgerInv

-----------------------------------------------------------------------------
(* The insertion of a token is an opening or a renewal.                    *)
LEMMA InsertIsIssue ==
  ASSUME LedgerInv, NEW r \in Requests, NEW k \in Jtis,
         CreateRefreshTokenRecord(r, k)
  PROVE  Ledger!LedgerNext
<1>0. /\ TypeInv /\ ExchangeInv /\ OwnersAgree
      /\ req[r] \in Slot /\ SlotOK(req[r])
  BY DEF LedgerInv, TypeInv, TypeOK
<1>1. /\ req[r].pc = "insert" /\ req[r].user \in Users
      /\ status[k] = "absent"
      /\ status' = [status EXCEPT ![k] = "live"]
      /\ owner' = [owner EXCEPT ![k] = req[r].user]
  BY <1>0 DEF CreateRefreshTokenRecord, FreshJti, SlotOK
<1>2. [j \in Jtis |-> chain'[j].parent]
        = [[j \in Jtis |-> chain[j].parent] EXCEPT ![k] = req[r].token]
  BY <1>0 DEF CreateRefreshTokenRecord, TypeInv, TypeOK
<1>3. Ledger!Issue(k, req[r].user, req[r].token)
  BY <1>1, <1>2 DEF Ledger!Issue
<1>4. CASE req[r].token = NoJti
  <2>1. Ledger!Open(k, req[r].user)
    BY <1>3, <1>4 DEF Ledger!Open, Ledger!Issue
  <2> QED
    BY <1>1, <2>1 DEF Ledger!LedgerNext
<1>5. CASE req[r].token \in Jtis
  <2> DEFINE j == req[r].token
  <2>1. status[j] = "revoked" /\ owner[j] = req[r].user
    BY <1>0, <1>1, <1>5 DEF ExchangeInv, InsertAfterRevoke, OwnersAgree, Rotating
  <2>2. /\ IsFiniteSet(Children(j)) /\ IsFiniteSet(Holders(j))
        /\ Cardinality(Children(j)) + Cardinality(Holders(j))
             <= Cardinality(Requests)
    BY <1>0, <1>5, RequestsFinite, FS_Subset
       DEF ExchangeInv, ExchangeBudget, FanOutBounded, Holders
  <2>3. r \in Holders(j)
    BY <1>1 DEF Holders, Rotating
  <2>4. Cardinality(Holders(j)) # 0
    BY <2>2, <2>3, FS_EmptySet
  <2>5. Cardinality(Children(j)) < Cardinality(Requests)
    BY <2>2, <2>4, RequestsCount, FS_CardinalityType
  <2>6. Ledger!Heirs(j) = Children(j)
    BY DEF Ledger!Heirs, Children
  <2>7. Ledger!Issue(k, owner[j], j)
    BY <1>3, <2>1
  <2>8. Ledger!Renew(j, k)
    BY <2>1, <2>5, <2>6, <2>7 DEF Ledger!Renew, Cardinality, Ledger!Cardinality
  <2> QED
    BY <1>5, <2>8 DEF Ledger!LedgerNext
<1> QED
  BY <1>0, <1>4, <1>5 DEF Slot

(* The steps that set is_revoked are revocations.                          *)
LEMMA RevokeIsRevoke ==
  ASSUME LedgerInv, NEW r \in Requests,
         RefreshRevoke(r) \/ LogoutRevoke(r) \/ RevokeAllCommit(r)
  PROVE  Ledger!LedgerNext
<1>0. TypeInv /\ req[r] \in Slot /\ SlotOK(req[r])
  BY DEF LedgerInv, TypeInv, TypeOK
<1>1. PICK S \in SUBSET Jtis :
        /\ \A j \in S : status[j] # "absent"
        /\ status' = [j \in Jtis |-> IF j \in S THEN "revoked" ELSE status[j]]
        /\ UNCHANGED <<owner, chain>>
  <2>1. CASE RefreshRevoke(r) \/ LogoutRevoke(r)
    <3>1. /\ req[r].token \in Jtis /\ status[req[r].token] # "absent"
          /\ status' = [status EXCEPT ![req[r].token] = "revoked"]
          /\ UNCHANGED <<owner, chain>>
      BY <1>0, <2>1
         DEF RefreshRevoke, LogoutRevoke, RevokeRefreshToken, SlotOK, TypeInv,
             RowsExist, history
    <3>2. PICK B \in SUBSET Jtis : B = {req[r].token}
      BY <3>1
    <3>3. status' = [j \in Jtis |-> IF j \in B THEN "revoked" ELSE status[j]]
      BY <1>0, <3>1, <3>2 DEF TypeInv, TypeOK
    <3> QED
      BY <3>1, <3>2, <3>3
  <2>2. CASE RevokeAllCommit(r)
    <3>1. req[r].batch \in SUBSET Jtis /\ \A j \in req[r].batch : status[j] # "absent"
      BY <1>0 DEF Slot, TypeInv, RowsExist
    <3>2. /\ status' = [j \in Jtis |-> IF j \in req[r].batch THEN "revoked"
                                       ELSE status[j]]
          /\ UNCHANGED <<owner, chain>>
      BY <2>2 DEF RevokeAllCommit, history
    <3>3. PICK B \in SUBSET Jtis : B = req[r].batch
      BY <3>1
    <3> QED
      BY <3>1, <3>2, <3>3
  <2> QED
    BY <2>1, <2>2
<1>2. Ledger!Revoke(S)
  BY <1>1 DEF Ledger!Revoke
<1> QED
  BY <1>1, <1>2 DEF Ledger!LedgerNext

LEMMA StepIsLedgerStep ==
  LedgerInv /\ [Next]_vars => [Ledger!LedgerNext]_Ledger!ledger
<1> SUFFICES ASSUME LedgerInv, [Next]_vars
             PROVE  Ledger!LedgerNext \/ UNCHANGED Ledger!ledger
  OBVIOUS
<1>1. ASSUME NEW r \in Requests,
             \/ \E k \in Jtis : CreateRefreshTokenRecord(r, k)
             \/ RefreshRevoke(r) \/ LogoutRevoke(r) \/ RevokeAllCommit(r)
      PROVE  Ledger!LedgerNext
  BY <1>1, InsertIsIssue, RevokeIsRevoke
<1>2. ASSUME NEW r \in Requests, SetPassword(r) \/ RevokeAllExecute(r)
      PROVE  UNCHANGED Ledger!ledger
  <2>1. TypeInv
    BY DEF LedgerInv
  <2>2. /\ UNCHANGED <<status, owner>>
        /\ \A j \in Jtis : chain'[j].parent = chain[j].parent
    BY <1>2, <2>1, MarksOnly
  <2> QED
    BY <2>2 DEF Ledger!ledger
<1>3. CASE UNCHANGED <<status, owner, chain>>
  BY <1>3 DEF Ledger!ledger
<1> QED
  BY <1>1, <1>2, <1>3
     DEF Next, Login, Refresh, Logout, ChangePassword, DeleteUser,
         VerifyUserEmail, vars, tokens, history, LoginRead, LoginRehash,
         RefreshRead, RefreshCheckUser, LogoutRead, ChangeRead, DeleteRead,
         SoftDeleteUser, Abort

LEMMA InitIsLedgerInit == Init => Ledger!LedgerInit
BY DEF Init, Unissued, Ledger!LedgerInit

(***************************************************************************)
(* Login, refresh, logout, change_password and delete_user, interleaved    *)
(* and aborted anywhere, implement the ledger of tokens.                   *)
(***************************************************************************)
THEOREM LedgerImplemented == Spec => ImplementsLedger
<1>1. Spec => []LedgerInv /\ [][Next]_vars
  BY LedgerInvInit, LedgerInvStep, PTL DEF Spec
<1>2. Spec => Init
  BY DEF Spec
<1>3. Spec => Ledger!LedgerInit
  BY <1>2, InitIsLedgerInit
<1>4. []LedgerInv /\ [][Next]_vars => [][Ledger!LedgerNext]_Ledger!ledger
  BY StepIsLedgerStep, PTL
<1> QED
  BY <1>1, <1>3, <1>4, PTL DEF ImplementsLedger, Ledger!LedgerSpec

=============================================================================
