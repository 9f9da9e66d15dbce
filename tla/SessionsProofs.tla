--------------------------- MODULE SessionsProofs ---------------------------
(***************************************************************************)
(* Proofs about Sessions, for any number of users, request slots and       *)
(* tokens.                                                                 *)
(***************************************************************************)
EXTENDS Sessions, Budget

(***************************************************************************)
(* What a request holds is in the table: the token it has read has a row,  *)
(* and so has every token a bulk UPDATE has selected.  A token without a   *)
(* row has no history.                                                     *)
(***************************************************************************)
RowsExist ==
  /\ \A r \in Requests :
       /\ req[r].token \in Jtis => status[req[r].token] # "absent"
       /\ \A j \in req[r].batch : status[j] # "absent"
  /\ \A j \in Jtis : status[j] = "absent" => chain[j] = Unissued

TypeInv == TypeOK /\ RowsExist

-----------------------------------------------------------------------------
(* Types.                                                                  *)

LEMMA IdleType == Idle \in Slot /\ SlotOK(Idle)
BY DEF Idle, Slot, SlotOK, PCs, Issuing

LEMMA TypeInvInit == Init => TypeInv
<1> SUFFICES ASSUME Init PROVE TypeInv
  OBVIOUS
<1>1. TypeOK
  BY IdleType DEF Init, TypeOK, Origin, Unissued
<1>2. RowsExist
  BY NullsAreOutside DEF Init, RowsExist, Idle
<1> QED
  BY <1>1, <1>2 DEF TypeInv

(* Marking a slot, or moving a request on, keeps the slot well formed.     *)
LEMMA SlotMoves ==
  ASSUME NEW s \in Slot, SlotOK(s)
  PROVE  /\ [s EXCEPT !.predates = TRUE] \in Slot
         /\ SlotOK([s EXCEPT !.predates = TRUE])
         /\ [s EXCEPT !.overlaps = TRUE] \in Slot
         /\ SlotOK([s EXCEPT !.overlaps = TRUE])
         /\ s.pc \in {"rehash", "revoke"} =>
              /\ [s EXCEPT !.pc = "insert"] \in Slot
              /\ SlotOK([s EXCEPT !.pc = "insert"])
         /\ s.pc = "check_user" =>
              /\ [s EXCEPT !.pc = "revoke"] \in Slot
              /\ SlotOK([s EXCEPT !.pc = "revoke"])
         /\ s.pc = "set_password" =>
              /\ [s EXCEPT !.pc = "revoke_all"] \in Slot
              /\ SlotOK([s EXCEPT !.pc = "revoke_all"])
         /\ s.pc = "revoke_all" =>
              \A b \in SUBSET Jtis :
                 /\ [s EXCEPT !.pc = "commit_revoke", !.batch = b] \in Slot
                 /\ SlotOK([s EXCEPT !.pc = "commit_revoke", !.batch = b])
<1> USE DEF Slot, SlotOK, PCs, Issuing
<1>1. /\ [s EXCEPT !.predates = TRUE] \in Slot
      /\ SlotOK([s EXCEPT !.predates = TRUE])
  OBVIOUS
<1>2. /\ [s EXCEPT !.overlaps = TRUE] \in Slot
      /\ SlotOK([s EXCEPT !.overlaps = TRUE])
  OBVIOUS
<1>3. ASSUME s.pc \in {"rehash", "revoke"}
      PROVE  /\ [s EXCEPT !.pc = "insert"] \in Slot
             /\ SlotOK([s EXCEPT !.pc = "insert"])
  BY <1>3
<1>4. ASSUME s.pc = "check_user"
      PROVE  /\ [s EXCEPT !.pc = "revoke"] \in Slot
             /\ SlotOK([s EXCEPT !.pc = "revoke"])
  BY <1>4
<1>5. ASSUME s.pc = "set_password"
      PROVE  /\ [s EXCEPT !.pc = "revoke_all"] \in Slot
             /\ SlotOK([s EXCEPT !.pc = "revoke_all"])
  BY <1>5
<1>6. ASSUME s.pc = "revoke_all", NEW b \in SUBSET Jtis
      PROVE  /\ [s EXCEPT !.pc = "commit_revoke", !.batch = b] \in Slot
             /\ SlotOK([s EXCEPT !.pc = "commit_revoke", !.batch = b])
  BY <1>6
<1> HIDE DEF Slot, SlotOK, PCs, Issuing
<1> QED
  BY <1>1, <1>2, <1>3, <1>4, <1>5, <1>6

(***************************************************************************)
(* A step that gives slot r a well-formed content whose token and batch    *)
(* have rows, and leaves the tables alone, keeps TypeInv.                  *)
(***************************************************************************)
LEMMA SlotWrite ==
  ASSUME TypeInv, NEW r \in Requests, NEW s \in Slot, SlotOK(s),
         s.token \in Jtis => status[s.token] # "absent",
         \A j \in s.batch : status[j] # "absent",
         req' = [req EXCEPT ![r] = s],
         UNCHANGED <<tokens, chain>>,
         (UNCHANGED password) \/ password' \in [Users -> Passwords],
         (UNCHANGED legacy) \/ legacy' \in [Users -> BOOLEAN],
         (UNCHANGED active) \/ active' \in [Users -> BOOLEAN],
         UNCHANGED verified,
         (UNCHANGED torn) \/ torn' \in SUBSET Users
  PROVE  TypeInv'
<1> USE DEF TypeInv, tokens
<1>1. TypeOK'
  BY DEF TypeOK
<1>2. RowsExist'
  BY DEF TypeOK, RowsExist
<1> QED
  BY <1>1, <1>2

LEMMA TypeInvStep == TypeInv /\ [Next]_vars => TypeInv'
<1> SUFFICES ASSUME TypeInv, [Next]_vars PROVE TypeInv'
  OBVIOUS
<1>0. ASSUME NEW q \in Requests
      PROVE  /\ req[q] \in Slot /\ SlotOK(req[q])
             /\ req[q].token \in Jtis => status[req[q].token] # "absent"
             /\ \A j \in req[q].batch : status[j] # "absent"
  BY DEF TypeInv, TypeOK, RowsExist
<1>1. ASSUME NEW r \in Requests, NEW u \in Users, LoginRead(r, u)
      PROVE  TypeInv'
  <2> DEFINE s == [Idle EXCEPT !.pc = IF legacy[u] THEN "rehash" ELSE "insert",
                               !.user = u, !.pw = password[u]]
  <2>1. /\ s \in Slot /\ SlotOK(s) /\ s.batch = {}
        /\ s.token \in Jtis => status[s.token] # "absent"
    BY <1>1, NullsAreOutside
       DEF TypeInv, TypeOK, Idle, Slot, SlotOK, PCs, Issuing
  <2>2. req' = [req EXCEPT ![r] = s]
    BY <1>1 DEF LoginRead
  <2> QED
    BY ONLY TypeInv, <1>1, <2>1, <2>2, SlotWrite
       DEF LoginRead, users, tokens, history
<1>2. ASSUME NEW r \in Requests, LoginRehash(r)
      PROVE  TypeInv'
  <2> DEFINE s == [req[r] EXCEPT !.pc = "insert"]
  <2>1. s \in Slot /\ SlotOK(s) /\ s.token = req[r].token /\ s.batch = req[r].batch
    BY <1>0, <1>2, SlotMoves DEF LoginRehash, Slot
  <2>2. req' = [req EXCEPT ![r] = s]
    BY <1>2 DEF LoginRehash
  <2>3. password' \in [Users -> Passwords] /\ legacy' \in [Users -> BOOLEAN]
    BY <1>0, <1>2 DEF LoginRehash, TypeInv, TypeOK, SlotOK
  <2> HIDE DEF s
  <2> QED
    BY <1>0, <1>2, <2>1, <2>2, <2>3, SlotWrite
       DEF LoginRehash, users, tokens, history
<1>3. ASSUME NEW r \in Requests, NEW j \in Jtis, CreateRefreshTokenRecord(r, j)
      PROVE  TypeInv'
  <2> DEFINE t == [parent |-> req[r].token, predates |-> req[r].predates,
                   overlaps |-> req[r].overlaps, late |-> ~active[req[r].user]]
  <2>1. req[r].user \in Users /\ t \in Origin
    BY <1>0, <1>3 DEF CreateRefreshTokenRecord, SlotOK, Slot, Origin
  <2>2. /\ chain' = [chain EXCEPT ![j] = t]
        /\ owner' = [owner EXCEPT ![j] = req[r].user]
        /\ status' = [status EXCEPT ![j] = "live"]
        /\ req' = [req EXCEPT ![r] = Idle]
        /\ UNCHANGED <<users, torn>>
    BY <1>3 DEF CreateRefreshTokenRecord, Finish
  <2> HIDE DEF t
  <2>3. TypeOK'
    BY <2>1, <2>2, IdleType DEF TypeInv, TypeOK, users
  <2>4. RowsExist'
    BY <2>2, NullsAreOutside DEF TypeInv, TypeOK, RowsExist, Idle
  <2> QED
    BY <2>3, <2>4 DEF TypeInv
<1>4. ASSUME NEW r \in Requests, NEW j \in Jtis, RefreshRead(r, j)
      PROVE  TypeInv'
  <2> DEFINE s == [Idle EXCEPT !.pc = "check_user", !.user = owner[j],
                     !.token = j, !.predates = chain[j].predates,
                     !.overlaps = chain[j].overlaps \/ BeingRevoked(owner[j])]
  <2>1. /\ s \in Slot /\ SlotOK(s) /\ s.batch = {}
        /\ s.token \in Jtis => status[s.token] # "absent"
    <3>1. owner[j] \in Users /\ status[j] = "live"
      BY <1>4 DEF RefreshRead, GetRefreshTokenByJti, TypeInv, TypeOK
    <3>2. chain[j].predates \in BOOLEAN /\ chain[j].overlaps \in BOOLEAN
      BY DEF TypeInv, TypeOK, Origin
    <3> QED
      BY <3>1, <3>2 DEF Idle, Slot, SlotOK, PCs, Issuing, BeingRevoked
  <2>2. req' = [req EXCEPT ![r] = s]
    BY <1>4 DEF RefreshRead
  <2> QED
    BY ONLY TypeInv, <1>4, <2>1, <2>2, SlotWrite
       DEF RefreshRead, users, tokens, history
<1>5. ASSUME NEW r \in Requests, RefreshCheckUser(r)
      PROVE  TypeInv'
  <2> DEFINE s == [req[r] EXCEPT !.pc = "revoke"]
  <2>1. s \in Slot /\ SlotOK(s) /\ s.token = req[r].token /\ s.batch = req[r].batch
    BY <1>0, <1>5, SlotMoves DEF RefreshCheckUser, Slot
  <2>2. req' = [req EXCEPT ![r] = s] \/ req' = [req EXCEPT ![r] = Idle]
    BY <1>5 DEF RefreshCheckUser, Finish
  <2>3. Idle.token \notin Jtis /\ Idle.batch = {}
    BY NullsAreOutside DEF Idle
  <2> HIDE DEF s
  <2> QED
    BY <1>0, <1>5, <2>1, <2>2, <2>3, IdleType, SlotWrite
       DEF RefreshCheckUser, users, tokens, history
<1>6. ASSUME NEW r \in Requests, RefreshRevoke(r)
      PROVE  TypeInv'
  <2> DEFINE s == [req[r] EXCEPT !.pc = "insert"]
  <2>1. s \in Slot /\ SlotOK(s) /\ s.token = req[r].token /\ s.batch = req[r].batch
    BY <1>0, <1>6, SlotMoves DEF RefreshRevoke, Slot
  <2>2. /\ req' = [req EXCEPT ![r] = s]
        /\ status' = [status EXCEPT ![req[r].token] = "revoked"]
        /\ req[r].token \in Jtis
        /\ UNCHANGED <<users, owner, history>>
    BY <1>0, <1>6 DEF RefreshRevoke, RevokeRefreshToken, SlotOK
  <2> HIDE DEF s
  <2>3. TypeOK'
    BY <1>0, <2>1, <2>2 DEF TypeInv, TypeOK, users, history
  <2>4. RowsExist'
    BY <1>0, <2>1, <2>2 DEF TypeInv, TypeOK, RowsExist, history
  <2> QED
    BY <2>3, <2>4 DEF TypeInv
<1>7. ASSUME NEW r \in Requests, NEW j \in Jtis, LogoutRead(r, j)
      PROVE  TypeInv'
  <2> DEFINE s == [Idle EXCEPT !.pc = "logout", !.token = j]
  <2>1. /\ s \in Slot /\ SlotOK(s) /\ s.batch = {}
        /\ s.token \in Jtis => status[s.token] # "absent"
    BY <1>7, NullsAreOutside
       DEF LogoutRead, GetRefreshTokenByJti,
           TypeInv, TypeOK, Idle, Slot, SlotOK, PCs, Issuing
  <2>2. req' = [req EXCEPT ![r] = s]
    BY <1>7 DEF LogoutRead
  <2> QED
    BY ONLY TypeInv, <1>7, <2>1, <2>2, SlotWrite
       DEF LogoutRead, users, tokens, history
<1>8. ASSUME NEW r \in Requests, LogoutRevoke(r)
      PROVE  TypeInv'
  <2>1. /\ req' = [req EXCEPT ![r] = Idle]
        /\ status' = [status EXCEPT ![req[r].token] = "revoked"]
        /\ req[r].token \in Jtis
        /\ UNCHANGED <<users, owner, history>>
    BY <1>0, <1>8 DEF LogoutRevoke, RevokeRefreshToken, Finish, SlotOK
  <2>2. TypeOK'
    BY <1>0, <2>1, IdleType DEF TypeInv, TypeOK, users, history
  <2>3. RowsExist'
    BY <1>0, <2>1, NullsAreOutside DEF TypeInv, TypeOK, RowsExist, history, Idle
  <2> QED
    BY <2>2, <2>3 DEF TypeInv
<1>9. ASSUME NEW r \in Requests, NEW u \in Users, NEW p \in Passwords,
             ChangeRead(r, u, p)
      PROVE  TypeInv'
  <2> DEFINE s == [Idle EXCEPT !.pc = "set_password", !.user = u, !.pw = p]
  <2>1. /\ s \in Slot /\ SlotOK(s) /\ s.batch = {}
        /\ s.token \in Jtis => status[s.token] # "absent"
    BY <1>9, NullsAreOutside
       DEF TypeInv, TypeOK, Idle, Slot, SlotOK, PCs, Issuing
  <2>2. req' = [req EXCEPT ![r] = s]
    BY <1>9 DEF ChangeRead
  <2> QED
    BY ONLY TypeInv, <1>9, <2>1, <2>2, SlotWrite
       DEF ChangeRead, users, tokens, history
<1>10. ASSUME NEW r \in Requests, SetPassword(r)
       PROVE  TypeInv'
  <2>1. ASSUME NEW q \in Requests
        PROVE  /\ req'[q] \in Slot /\ SlotOK(req'[q])
               /\ req'[q].token = req[q].token /\ req'[q].batch = req[q].batch
    <3> DEFINE s == [req[q] EXCEPT !.pc = "revoke_all"]
               t == [req[q] EXCEPT !.predates = TRUE]
    <3>1. req'[q] = req[q] \/ req'[q] = t \/ (q = r /\ req'[q] = s)
      BY <1>10 DEF SetPassword
    <3>2. t \in Slot /\ SlotOK(t)
      BY <1>0, SlotMoves
    <3>3. q = r => s \in Slot /\ SlotOK(s)
      BY <1>0, <1>10, SlotMoves DEF SetPassword
    <3>4. /\ t.token = req[q].token /\ t.batch = req[q].batch
          /\ s.token = req[q].token /\ s.batch = req[q].batch
      BY <1>0 DEF Slot
    <3> HIDE DEF s, t
    <3> QED
      BY <1>0, <3>1, <3>2, <3>3, <3>4
  <2>2. req' \in [Requests -> Slot]
    BY <1>10, <2>1 DEF SetPassword
  <2>3. chain' \in [Jtis -> Origin]
    BY <1>10 DEF SetPassword, TypeInv, TypeOK, Origin
  <2>4. password' \in [Users -> Passwords] /\ legacy' \in [Users -> BOOLEAN]
    BY <1>0, <1>10 DEF SetPassword, TypeInv, TypeOK, SlotOK
  <2>5. TypeOK'
    BY <1>10, <2>1, <2>2, <2>3, <2>4 DEF SetPassword, TypeInv, TypeOK, tokens
  <2>6. RowsExist'
    BY <1>10, <2>1 DEF SetPassword, TypeInv, RowsExist, tokens, LiveTokensOf
  <2> QED
    BY <2>5, <2>6 DEF TypeInv
<1>11. ASSUME NEW r \in Requests, RevokeAllExecute(r)
       PROVE  TypeInv'
  <2> DEFINE b == LiveTokensOf(req[r].user)
  <2>1. b \in SUBSET Jtis /\ \A j \in b : status[j] # "absent"
    BY DEF LiveTokensOf
  <2>2. ASSUME NEW q \in Requests
        PROVE  /\ req'[q] \in Slot /\ SlotOK(req'[q])
               /\ req'[q].token = req[q].token
               /\ req'[q].batch \in {req[q].batch, b}
    <3> DEFINE s == [req[q] EXCEPT !.pc = "commit_revoke", !.batch = b]
               t == [req[q] EXCEPT !.overlaps = TRUE]
    <3>1. req'[q] = req[q] \/ req'[q] = t \/ (q = r /\ req'[q] = s)
      BY <1>11 DEF RevokeAllExecute
    <3> HIDE DEF b
    <3>2. t \in Slot /\ SlotOK(t)
      BY <1>0, SlotMoves
    <3>3. q = r => s \in Slot /\ SlotOK(s)
      BY <1>0, <1>11, <2>1, SlotMoves DEF RevokeAllExecute
    <3>4. /\ t.token = req[q].token /\ t.batch = req[q].batch
          /\ s.token = req[q].token /\ s.batch = b
      BY <1>0 DEF Slot
    <3> HIDE DEF s, t
    <3> QED
      BY <1>0, <3>1, <3>2, <3>3, <3>4
  <2>3. req' \in [Requests -> Slot] /\ UNCHANGED <<users, tokens, history>>
    BY <1>11, <2>2 DEF RevokeAllExecute
  <2> HIDE DEF b
  <2>4. TypeOK'
    BY <2>2, <2>3 DEF TypeInv, TypeOK, users, tokens, history
  <2>5. RowsExist'
    BY <2>1, <2>2, <2>3 DEF TypeInv, RowsExist, tokens, history
  <2> QED
    BY <2>4, <2>5 DEF TypeInv
<1>12. ASSUME NEW r \in Requests, RevokeAllCommit(r)
       PROVE  TypeInv'
  <2>1. /\ req' = [req EXCEPT ![r] = Idle]
        /\ status' = [j \in Jtis |->
                        IF j \in req[r].batch THEN "revoked" ELSE status[j]]
        /\ UNCHANGED <<users, owner, history>>
    BY <1>12 DEF RevokeAllCommit, Finish
  <2>2. TypeOK'
    BY <1>0, <2>1, IdleType DEF TypeInv, TypeOK, users, history
  <2>3. RowsExist'
    BY <1>0, <2>1, NullsAreOutside
       DEF TypeInv, TypeOK, RowsExist, history, Idle, Slot
  <2> QED
    BY <2>2, <2>3 DEF TypeInv
<1>13. ASSUME NEW r \in Requests, NEW u \in Users, DeleteRead(r, u)
      PROVE  TypeInv'
  <2> DEFINE s == [Idle EXCEPT !.pc = "soft_delete", !.user = u]
  <2>1. /\ s \in Slot /\ SlotOK(s) /\ s.batch = {}
        /\ s.token \in Jtis => status[s.token] # "absent"
    BY <1>13, NullsAreOutside
       DEF TypeInv, TypeOK, Idle, Slot, SlotOK, PCs, Issuing
  <2>2. req' = [req EXCEPT ![r] = s]
    BY <1>13 DEF DeleteRead
  <2> QED
    BY ONLY TypeInv, <1>13, <2>1, <2>2, SlotWrite
       DEF DeleteRead, users, tokens, history
<1>14. ASSUME NEW r \in Requests, SoftDeleteUser(r) \/ Abort(r)
       PROVE  TypeInv'
  <2>1. req' = [req EXCEPT ![r] = Idle] /\ UNCHANGED <<tokens, chain>>
    BY <1>14 DEF SoftDeleteUser, Abort, Finish, history
  <2>2. Idle.token \notin Jtis /\ Idle.batch = {}
    BY NullsAreOutside DEF Idle
  <2>3. CASE SoftDeleteUser(r)
    BY <2>1, <2>2, <2>3, IdleType, SlotWrite
       DEF SoftDeleteUser, TypeInv, TypeOK, history
  <2>4. CASE Abort(r)
    <3>1. torn' \in SUBSET Users
      BY <1>0, <2>4 DEF Abort, TypeInv, TypeOK, SlotOK
    <3> QED
      BY <2>1, <2>2, <2>4, <3>1, IdleType, SlotWrite DEF Abort, users
  <2> QED
    BY <1>14, <2>3, <2>4
<1>15. ASSUME NEW u \in Users, VerifyUserEmail(u)
       PROVE  TypeInv'
  BY <1>15 DEF VerifyUserEmail, TypeInv, TypeOK, RowsExist, tokens, history
<1>16. CASE UNCHANGED vars
  BY <1>16 DEF vars, users, tokens, history, TypeInv, TypeOK, RowsExist
<1> QED
  BY <1>1, <1>2, <1>3, <1>4, <1>5, <1>6, <1>7, <1>8, <1>9, <1>10, <1>11,
     <1>12, <1>13, <1>14, <1>15, <1>16
     DEF Next, Login, Refresh, Logout, ChangePassword, DeleteUser

(***************************************************************************)
(* The tables and the slots keep their types, and no request reaches a     *)
(* write without the row or the value it needs.                            *)
(***************************************************************************)
THEOREM SessionTypes == Spec => []TypeOK
<1>1. Spec => []TypeInv
  BY TypeInvInit, TypeInvStep, PTL DEF Spec
<1>2. TypeInv => TypeOK
  BY DEF TypeInv
<1> QED
  BY <1>1, <1>2, PTL


-----------------------------------------------------------------------------
(* Tokens that outlive a password change.                                  *)

(***************************************************************************)
(* SurvivorsExplained is not inductive: it says nothing of a request that  *)
(* is about to insert an out-of-date token.  Such a token, live and marked *)
(* by nothing, is still going to be caught by some change_password: one    *)
(* that has yet to select its rows, or has selected this one.  A request   *)
(* that would insert one has a change_password ahead of it that has yet to *)
(* select, and will then mark the request as overlapping.                  *)
(***************************************************************************)
CaughtBy(j, r) ==
  /\ req[r].user = owner[j]
  /\ \/ req[r].pc = "revoke_all"
     \/ req[r].pc = "commit_revoke" /\ j \in req[r].batch

StaleTokensCaught ==
  \A j \in Jtis :
     /\ status[j] = "live"
     /\ chain[j].predates
     /\ ~chain[j].overlaps
     /\ owner[j] \notin torn
     => \E r \in Requests : CaughtBy(j, r)

StaleRequestsCaught ==
  \A q \in Requests :
     /\ req[q].pc \in Issuing
     /\ req[q].predates
     /\ ~req[q].overlaps
     /\ req[q].user \notin torn
     => \E r \in Requests : req[r].pc = "revoke_all" /\ req[r].user = req[q].user

SurvivorInv == StaleTokensCaught /\ StaleRequestsCaught

LEMMA SurvivorInit == Init => SurvivorInv
BY DEF Init, SurvivorInv, StaleTokensCaught, StaleRequestsCaught, Idle, Issuing

LEMMA SurvivorStep == TypeInv /\ SurvivorInv /\ [Next]_vars => SurvivorInv'
<1> SUFFICES ASSUME TypeInv, SurvivorInv, [Next]_vars PROVE SurvivorInv'
  OBVIOUS
<1> USE DEF SurvivorInv, StaleTokensCaught, StaleRequestsCaught, CaughtBy
<1>0. /\ req \in [Requests -> Slot] /\ chain \in [Jtis -> Origin]
      /\ status \in [Jtis -> {"absent", "live", "revoked"}]
      /\ owner \in [Jtis -> Users \cup {NoUser}]
  BY DEF TypeInv, TypeOK
<1>1. ASSUME NEW r \in Requests, NEW u \in Users, LoginRead(r, u)
      PROVE  SurvivorInv'
  BY <1>0, <1>1 DEF LoginRead, tokens, history, Idle, Issuing, Slot
<1>2. ASSUME NEW r \in Requests, LoginRehash(r)
      PROVE  SurvivorInv'
  BY <1>0, <1>2 DEF LoginRehash, tokens, history, Idle, Issuing, Slot
<1>3. ASSUME NEW r \in Requests, NEW j \in Jtis, CreateRefreshTokenRecord(r, j)
      PROVE  SurvivorInv'
  <2>1. /\ req[r].pc = "insert" /\ status[j] = "absent"
        /\ status' = [status EXCEPT ![j] = "live"]
        /\ owner' = [owner EXCEPT ![j] = req[r].user]
        /\ \A k \in Jtis \ {j} : chain'[k] = chain[k]
        /\ chain'[j].predates = req[r].predates
        /\ chain'[j].overlaps = req[r].overlaps
        /\ req' = [req EXCEPT ![r] = Idle]
        /\ UNCHANGED torn
    BY <1>0, <1>3 DEF CreateRefreshTokenRecord, FreshJti, Finish
  <2>2. StaleTokensCaught'
    BY <1>0, <2>1 DEF Idle, Issuing
  <2>3. StaleRequestsCaught'
    BY <1>0, <2>1 DEF Idle, Issuing
  <2> QED
    BY <2>2, <2>3
<1>4. ASSUME NEW r \in Requests, NEW j \in Jtis, RefreshRead(r, j)
      PROVE  SurvivorInv'
  <2>1. /\ req[r].pc = "idle" /\ status[j] = "live"
        /\ \A q \in Requests \ {r} : req'[q] = req[q]
        /\ req'[r].pc = "check_user" /\ req'[r].user = owner[j]
        /\ req'[r].predates = chain[j].predates
        /\ req'[r].overlaps = (chain[j].overlaps \/ BeingRevoked(owner[j]))
        /\ UNCHANGED <<status, owner, chain, torn>>
    BY <1>0, <1>4
       DEF RefreshRead, GetRefreshTokenByJti, Idle, tokens, history
  <2>2. StaleTokensCaught'
    BY <1>0, <2>1
  <2>3. ASSUME req'[r].predates, ~req'[r].overlaps, owner[j] \notin torn
        PROVE  \E q \in Requests : /\ req[q].pc = "revoke_all"
                                   /\ req[q].user = owner[j]
    <3>1. ~chain[j].overlaps /\ ~BeingRevoked(owner[j])
      BY <1>0, <2>1, <2>3
    <3>2. PICK q \in Requests : CaughtBy(j, q)
      BY <2>1, <2>3, <3>1
    <3> QED
      BY <3>1, <3>2 DEF BeingRevoked
  <2>4. StaleRequestsCaught'
    BY <1>0, <2>1, <2>3
  <2> QED
    BY <2>2, <2>4
<1>5. ASSUME NEW r \in Requests, RefreshCheckUser(r)
      PROVE  SurvivorInv'
  BY <1>0, <1>5 DEF RefreshCheckUser, Finish, tokens, history, Idle, Issuing, Slot
<1>6. ASSUME NEW r \in Requests, RefreshRevoke(r)
      PROVE  SurvivorInv'
  BY <1>0, <1>6 DEF RefreshRevoke, RevokeRefreshToken, tokens, history, Idle, Issuing, Slot
<1>7. ASSUME NEW r \in Requests, NEW j \in Jtis, LogoutRead(r, j)
      PROVE  SurvivorInv'
  BY <1>0, <1>7 DEF LogoutRead, tokens, history, Idle, Issuing, Slot
<1>8. ASSUME NEW r \in Requests, LogoutRevoke(r)
      PROVE  SurvivorInv'
  BY <1>0, <1>8 DEF LogoutRevoke, RevokeRefreshToken, Finish, tokens, history, Idle, Issuing, Slot
<1>9. ASSUME NEW r \in Requests, NEW u \in Users, NEW p \in Passwords,
             ChangeRead(r, u, p)
      PROVE  SurvivorInv'
  BY <1>0, <1>9 DEF ChangeRead, tokens, history, Idle, Issuing, Slot
<1>10. ASSUME NEW r \in Requests, SetPassword(r)
       PROVE  SurvivorInv'
  <2> DEFINE u == req[r].user
  <2>1. /\ req[r].pc = "set_password"
        /\ req'[r].pc = "revoke_all" /\ req'[r].user = u
        /\ UNCHANGED <<status, owner, torn>>
    BY <1>0, <1>10 DEF SetPassword, tokens, Slot
  <2>2. ASSUME NEW q \in Requests \ {r}
        PROVE  /\ req'[q].pc = req[q].pc /\ req'[q].user = req[q].user
               /\ req'[q].batch = req[q].batch
               /\ req'[q].overlaps = req[q].overlaps
               /\ req[q].user # u => req'[q] = req[q]
    BY <1>0, <1>10 DEF SetPassword, InFlight, Slot
  <2>3. ASSUME NEW j \in Jtis
        PROVE  /\ chain'[j].overlaps = chain[j].overlaps
               /\ owner[j] # u => chain'[j] = chain[j]
    BY <1>0, <1>10 DEF SetPassword, LiveTokensOf, Origin
  <2>4. StaleTokensCaught'
    BY <1>0, <2>1, <2>2, <2>3
  <2>5. StaleRequestsCaught'
    BY <1>0, <2>1, <2>2 DEF Issuing
  <2> QED
    BY <2>4, <2>5
<1>11. ASSUME NEW r \in Requests, RevokeAllExecute(r)
       PROVE  SurvivorInv'
  <2> DEFINE u == req[r].user
  <2>1. /\ req[r].pc = "revoke_all"
        /\ req'[r].pc = "commit_revoke" /\ req'[r].user = u
        /\ req'[r].batch = LiveTokensOf(u)
        /\ UNCHANGED <<status, owner, chain, torn>>
    <3> DEFINE b == LiveTokensOf(u)
               s == [req[r] EXCEPT !.pc = "commit_revoke", !.batch = b]
    <3>1. /\ req[r].pc = "revoke_all" /\ req'[r] = s
          /\ UNCHANGED <<status, owner, chain, torn>>
      BY <1>11 DEF RevokeAllExecute, tokens, history
    <3> HIDE DEF b
    <3>2. s.pc = "commit_revoke" /\ s.user = u /\ s.batch = b
      BY <1>0 DEF Slot
    <3> QED
      BY <3>1, <3>2 DEF b
  <2>2. ASSUME NEW q \in Requests \ {r}
        PROVE  /\ req'[q].pc = req[q].pc /\ req'[q].user = req[q].user
               /\ req'[q].batch = req[q].batch
               /\ req'[q].predates = req[q].predates
               /\ req[q].user # u => req'[q] = req[q]
               /\ req[q].user = u /\ req[q].pc \in Issuing => req'[q].overlaps
    <3> DEFINE t == [req[q] EXCEPT !.overlaps = TRUE]
    <3>1. req'[q] = IF q \in InFlight(u) THEN t ELSE req[q]
      BY <1>11 DEF RevokeAllExecute
    <3>2. /\ t.pc = req[q].pc /\ t.user = req[q].user
          /\ t.batch = req[q].batch /\ t.predates = req[q].predates
          /\ t.overlaps
      BY <1>0 DEF Slot
    <3> HIDE DEF t
    <3> QED
      BY <3>1, <3>2 DEF InFlight
  <2>3. StaleTokensCaught'
    BY <1>0, <2>1, <2>2 DEF LiveTokensOf
  <2>4. StaleRequestsCaught'
    BY <1>0, <2>1, <2>2 DEF Issuing
  <2> QED
    BY <2>3, <2>4
<1>12. ASSUME NEW r \in Requests, RevokeAllCommit(r)
       PROVE  SurvivorInv'
  <2>1. /\ req[r].pc = "commit_revoke"
        /\ status' = [j \in Jtis |->
                        IF j \in req[r].batch THEN "revoked" ELSE status[j]]
        /\ req' = [req EXCEPT ![r] = Idle]
        /\ UNCHANGED <<owner, chain, torn>>
    BY <1>12 DEF RevokeAllCommit, Finish, history
  <2>2. StaleTokensCaught'
    BY <1>0, <2>1
  <2>3. StaleRequestsCaught'
    BY <1>0, <2>1 DEF Idle, Issuing
  <2> QED
    BY <2>2, <2>3
<1>13. ASSUME NEW r \in Requests, NEW u \in Users, DeleteRead(r, u)
      PROVE  SurvivorInv'
  BY <1>0, <1>13 DEF DeleteRead, tokens, history, Idle, Issuing, Slot
<1>14. ASSUME NEW r \in Requests, SoftDeleteUser(r)
      PROVE  SurvivorInv'
  BY <1>0, <1>14 DEF SoftDeleteUser, Finish, tokens, history, Idle, Issuing, Slot
<1>15. ASSUME NEW r \in Requests, Abort(r)
       PROVE  SurvivorInv'
  <2>1. /\ req' = [req EXCEPT ![r] = Idle]
        /\ UNCHANGED <<status, owner, chain>>
        /\ torn \subseteq torn'
        /\ req[r].pc \in {"revoke_all", "commit_revoke"} => req[r].user \in torn'
    BY <1>15 DEF Abort, Finish, tokens
  <2>2. StaleTokensCaught'
    BY <1>0, <2>1
  <2>3. StaleRequestsCaught'
    BY <1>0, <2>1 DEF Idle, Issuing
  <2> QED
    BY <2>2, <2>3
<1>16. ASSUME NEW u \in Users, VerifyUserEmail(u)
       PROVE  SurvivorInv'
  BY <1>16 DEF VerifyUserEmail, tokens, history
<1>17. CASE UNCHANGED vars
  BY <1>17 DEF vars, tokens, history
<1> QED
  BY <1>1, <1>2, <1>3, <1>4, <1>5, <1>6, <1>7, <1>8, <1>9, <1>10, <1>11,
     <1>12, <1>13, <1>14, <1>15, <1>16, <1>17
     DEF Next, Login, Refresh, Logout, ChangePassword, DeleteUser

(***************************************************************************)
(* No usable token is out of date except for the three reasons             *)
(* SurvivorsExplained names, however many devices and requests there are.  *)
(***************************************************************************)
THEOREM Survivors == Spec => []SurvivorsExplained
<1>1. Spec => [](TypeInv /\ SurvivorInv)
  BY TypeInvInit, TypeInvStep, SurvivorInit, SurvivorStep, PTL DEF Spec
<1>2. SurvivorInv => SurvivorsExplained
  BY DEF SurvivorInv, StaleTokensCaught, CaughtBy, SurvivorsExplained,
         ChangePending
<1> QED
  BY <1>1, <1>2, PTL

-----------------------------------------------------------------------------
(* Exchanges of one refresh token.                                         *)

LEMMA RequestsCount == Cardinality(Requests) \in Nat
BY RequestsFinite, FS_CardinalityType

(***************************************************************************)
(* Nobody joins the holders of a token after its revocation, and every     *)
(* insertion takes one of them away.                                       *)
(***************************************************************************)
InsertAfterRevoke ==
  \A r \in Requests :
     req[r].pc = "insert" /\ req[r].token \in Jtis =>
        status[req[r].token] = "revoked"

ExchangeBudget == FanOutBounded /\ \A j \in Jtis : IsFiniteSet(Children(j))

ExchangeInv == NeverBothUsable /\ InsertAfterRevoke /\ ExchangeBudget

LEMMA ExchangeInit == Init => ExchangeInv
<1> SUFFICES ASSUME Init PROVE ExchangeInv
  OBVIOUS
<1>1. NeverBothUsable /\ InsertAfterRevoke
  BY DEF Init, NeverBothUsable, InsertAfterRevoke, Unissued, Idle
<1>2. \A j \in Jtis : Children(j) = {} /\ Holders(j) \subseteq Requests
  BY NullsAreOutside DEF Init, Children, Holders, Unissued
<1>3. ExchangeBudget
  BY <1>2, RequestsFinite, NothingProduced DEF ExchangeBudget, FanOutBounded
<1> QED
  BY <1>1, <1>3 DEF ExchangeInv

(***************************************************************************)
(* The two statements of change_password that mark other requests move no  *)
(* request but their own, and change no token's origin.                    *)
(***************************************************************************)
LEMMA MarksOnly ==
  ASSUME TypeInv, NEW r \in Requests, SetPassword(r) \/ RevokeAllExecute(r)
  PROVE  /\ \A q \in Requests :
              /\ req'[q].user = req[q].user
              /\ req'[q].token = req[q].token
              /\ q # r => req'[q].pc = req[q].pc
         /\ req[r].pc \in {"set_password", "revoke_all"}
         /\ req'[r].pc \in {"revoke_all", "commit_revoke"}
         /\ \A j \in Jtis : /\ chain'[j].parent = chain[j].parent
                            /\ chain'[j].late = chain[j].late
         /\ UNCHANGED <<status, owner, active>>
<1>0. req \in [Requests -> Slot] /\ chain \in [Jtis -> Origin]
  BY DEF TypeInv, TypeOK
<1>1. CASE SetPassword(r)
  <2>1. ASSUME NEW q \in Requests
        PROVE  /\ req'[q].user = req[q].user
               /\ req'[q].token = req[q].token
               /\ q # r => req'[q].pc = req[q].pc
               /\ q = r => req'[q].pc = "revoke_all"
    BY <1>0, <1>1 DEF SetPassword, Slot
  <2>2. ASSUME NEW j \in Jtis
        PROVE  /\ chain'[j].parent = chain[j].parent
               /\ chain'[j].late = chain[j].late
    BY <1>0, <1>1 DEF SetPassword, Origin
  <2> QED
    BY <1>1, <2>1, <2>2 DEF SetPassword, tokens
<1>2. CASE RevokeAllExecute(r)
  <2>1. ASSUME NEW q \in Requests
        PROVE  /\ req'[q].user = req[q].user
               /\ req'[q].token = req[q].token
               /\ q # r => req'[q].pc = req[q].pc
               /\ q = r => req'[q].pc = "commit_revoke"
    <3> DEFINE b == LiveTokensOf(req[r].user)
               s == [req[q] EXCEPT !.pc = "commit_revoke", !.batch = b]
               t == [req[q] EXCEPT !.overlaps = TRUE]
    <3>1. req'[q] = IF q = r THEN s
                    ELSE IF q \in InFlight(req[r].user) THEN t ELSE req[q]
      BY <1>2 DEF RevokeAllExecute
    <3> HIDE DEF b
    <3>2. /\ s.user = req[q].user /\ s.token = req[q].token
          /\ s.pc = "commit_revoke"
          /\ t.user = req[q].user /\ t.token = req[q].token
          /\ t.pc = req[q].pc
      BY <1>0 DEF Slot
    <3> HIDE DEF s, t
    <3> QED
      BY <3>1, <3>2
  <2> QED
    BY <1>2, <2>1 DEF RevokeAllExecute, users, tokens, history
<1> QED
  BY <1>1, <1>2

(***************************************************************************)
(* The order of the two commits of a refresh: a step that sets no parent   *)
(* takes no revocation back and lets nobody insert before its revocation.  *)
(***************************************************************************)
LEMMA OrderStep ==
  TypeInv /\ NeverBothUsable /\ InsertAfterRevoke /\ [Next]_vars
     => NeverBothUsable' /\ InsertAfterRevoke'
<1> SUFFICES ASSUME TypeInv, NeverBothUsable, InsertAfterRevoke, [Next]_vars
             PROVE  NeverBothUsable' /\ InsertAfterRevoke'
  OBVIOUS
<1> USE NullsAreOutside DEF NeverBothUsable, InsertAfterRevoke
<1>0. /\ req \in [Requests -> Slot] /\ chain \in [Jtis -> Origin]
      /\ status \in [Jtis -> {"absent", "live", "revoked"}]
      /\ \A r \in Requests : req[r].pc = "revoke" => req[r].token \in Jtis
      /\ \A r \in Requests : req[r].pc = "logout" => req[r].token \in Jtis
      /\ \A r \in Requests : req[r].pc = "rehash" => req[r].token = NoJti
      /\ \A r \in Requests : req[r].token \in Jtis \cup {NoJti}
      /\ \A j \in Jtis : chain[j].parent \in Jtis \cup {NoJti}
  BY DEF TypeInv, TypeOK, SlotOK, Slot, Origin
<1>1. ASSUME NEW r \in Requests, NEW u \in Users, LoginRead(r, u)
      PROVE  NeverBothUsable' /\ InsertAfterRevoke'
  BY <1>0, <1>1 DEF LoginRead, tokens, history, Idle, Slot, Origin
<1>2. ASSUME NEW r \in Requests, LoginRehash(r)
      PROVE  NeverBothUsable' /\ InsertAfterRevoke'
  BY <1>0, <1>2 DEF LoginRehash, tokens, history, Idle, Slot, Origin
<1>3. ASSUME NEW r \in Requests, NEW j \in Jtis, CreateRefreshTokenRecord(r, j)
      PROVE  NeverBothUsable' /\ InsertAfterRevoke'
  BY <1>0, <1>3 DEF CreateRefreshTokenRecord, FreshJti, Finish, tokens, history, Idle, Slot, Origin
<1>4. ASSUME NEW r \in Requests, NEW j \in Jtis, RefreshRead(r, j)
      PROVE  NeverBothUsable' /\ InsertAfterRevoke'
  BY <1>0, <1>4 DEF RefreshRead, tokens, history, Idle, Slot, Origin
<1>5. ASSUME NEW r \in Requests, RefreshCheckUser(r)
      PROVE  NeverBothUsable' /\ InsertAfterRevoke'
  BY <1>0, <1>5 DEF RefreshCheckUser, Finish, tokens, history, Idle, Slot, Origin
<1>6. ASSUME NEW r \in Requests, RefreshRevoke(r)
      PROVE  NeverBothUsable' /\ InsertAfterRevoke'
  BY <1>0, <1>6 DEF RefreshRevoke, RevokeRefreshToken, tokens, history, Idle, Slot, Origin
<1>7. ASSUME NEW r \in Requests, NEW j \in Jtis, LogoutRead(r, j)
      PROVE  NeverBothUsable' /\ InsertAfterRevoke'
  BY <1>0, <1>7 DEF LogoutRead, tokens, history, Idle, Slot, Origin
<1>8. ASSUME NEW r \in Requests, LogoutRevoke(r)
      PROVE  NeverBothUsable' /\ InsertAfterRevoke'
  BY <1>0, <1>8 DEF LogoutRevoke, RevokeRefreshToken, Finish, tokens, history, Idle, Slot, Origin
<1>9. ASSUME NEW r \in Requests, NEW u \in Users, NEW p \in Passwords,
             ChangeRead(r, u, p)
      PROVE  NeverBothUsable' /\ InsertAfterRevoke'
  BY <1>0, <1>9 DEF ChangeRead, tokens, history, Idle, Slot, Origin
<1>10. ASSUME NEW r \in Requests, SetPassword(r) \/ RevokeAllExecute(r)
       PROVE  NeverBothUsable' /\ InsertAfterRevoke'
  BY <1>10, MarksOnly
<1>12. ASSUME NEW r \in Requests, RevokeAllCommit(r)
       PROVE  NeverBothUsable' /\ InsertAfterRevoke'
  BY <1>0, <1>12 DEF RevokeAllCommit, Finish, tokens, history, Idle, Slot, Origin
<1>13. ASSUME NEW r \in Requests, NEW u \in Users, DeleteRead(r, u)
       PROVE  NeverBothUsable' /\ InsertAfterRevoke'
  BY <1>0, <1>13 DEF DeleteRead, tokens, history, Idle, Slot, Origin
<1>14. ASSUME NEW r \in Requests, SoftDeleteUser(r)
       PROVE  NeverBothUsable' /\ InsertAfterRevoke'
  BY <1>0, <1>14 DEF SoftDeleteUser, Finish, tokens, history, Idle, Slot, Origin
<1>15. ASSUME NEW r \in Requests, Abort(r)
       PROVE  NeverBothUsable' /\ InsertAfterRevoke'
  BY <1>0, <1>15 DEF Abort, Finish, tokens, history, Idle, Slot, Origin
<1>16. ASSUME NEW u \in Users, VerifyUserEmail(u)
       PROVE  NeverBothUsable' /\ InsertAfterRevoke'
  BY <1>16 DEF VerifyUserEmail, tokens, history
<1>17. CASE UNCHANGED vars
  BY <1>17 DEF vars, tokens, history
<1> QED
  BY <1>1, <1>2, <1>3, <1>4, <1>5, <1>6, <1>7, <1>8, <1>9, <1>10, <1>12,
     <1>13, <1>14, <1>15, <1>16, <1>17
     DEF Next, Login, Refresh, Logout, ChangePassword, DeleteUser

(***************************************************************************)
(* A step that sets no parent adds no holder to a revoked token.           *)
(***************************************************************************)
LEMMA HoldersShrink ==
  ASSUME TypeInv, [Next]_vars, NEW j \in Jtis, status[j] = "revoked",
         \A r \in Requests, k \in Jtis : ~CreateRefreshTokenRecord(r, k)
  PROVE  Holders(j)' \subseteq Holders(j)
<1>0. req \in [Requests -> Slot]
  BY DEF TypeInv, TypeOK
<1>1. ASSUME NEW r \in Requests, SetPassword(r) \/ RevokeAllExecute(r)
      PROVE  Holders(j)' \subseteq Holders(j)
  BY <1>1, MarksOnly DEF Holders, Rotating
<1>2. ASSUME NEW r \in Requests,
             \/ \E u \in Users : LoginRead(r, u) \/ DeleteRead(r, u)
             \/ \E k \in Jtis : LogoutRead(r, k)
             \/ \E u \in Users, p \in Passwords : ChangeRead(r, u, p)
      PROVE  Holders(j)' \subseteq Holders(j)
  <2>1. \A q \in Requests \ {r} : req'[q] = req[q]
    BY <1>0, <1>2 DEF LoginRead, DeleteRead, LogoutRead, ChangeRead
  <2>2. req'[r].token = NoJti \/ req'[r].pc = "logout"
    <3>1. ASSUME NEW u \in Users, LoginRead(r, u)
          PROVE  req'[r].token = NoJti
      BY <1>0, <3>1 DEF LoginRead, Idle
    <3>2. ASSUME NEW u \in Users, DeleteRead(r, u)
          PROVE  req'[r].token = NoJti
      BY <1>0, <3>2 DEF DeleteRead, Idle
    <3>3. ASSUME NEW k \in Jtis, LogoutRead(r, k)
          PROVE  req'[r].pc = "logout"
      BY <1>0, <3>3 DEF LogoutRead, Idle
    <3>4. ASSUME NEW u \in Users, NEW p \in Passwords, ChangeRead(r, u, p)
          PROVE  req'[r].token = NoJti
      BY <1>0, <3>4 DEF ChangeRead, Idle
    <3> QED
      BY <1>2, <3>1, <3>2, <3>3, <3>4
  <2> QED
    BY <2>1, <2>2, NullsAreOutside DEF Holders, Rotating
<1>3. ASSUME NEW r \in Requests, NEW k \in Jtis, RefreshRead(r, k)
      PROVE  Holders(j)' \subseteq Holders(j)
  BY <1>0, <1>3 DEF Holders, Rotating, RefreshRead, GetRefreshTokenByJti, Idle
<1>4. ASSUME NEW r \in Requests,
             LoginRehash(r) \/ RefreshCheckUser(r) \/ RefreshRevoke(r)
      PROVE  Holders(j)' \subseteq Holders(j)
  <2>1. req[r].pc = "rehash" => req[r].token \notin Jtis
    BY NullsAreOutside DEF TypeInv, TypeOK, SlotOK
  <2>2. req[r].pc \in {"rehash", "check_user", "revoke"}
    BY <1>4 DEF LoginRehash, RefreshCheckUser, RefreshRevoke
  <2>3. \A q \in Requests \ {r} : req'[q] = req[q]
    BY <1>0, <1>4 DEF LoginRehash, RefreshCheckUser, RefreshRevoke, Finish
  <2>4. req'[r].token = req[r].token \/ req'[r].token = NoJti
    BY <1>0, <1>4
       DEF LoginRehash, RefreshCheckUser, RefreshRevoke, Finish, Idle, Slot
  <2>5. r \in Holders(j)' => r \in Holders(j)
    BY <2>1, <2>2, <2>4, NullsAreOutside DEF Holders, Rotating
  <2> QED
    BY <2>3, <2>5 DEF Holders
<1>5. ASSUME NEW r \in Requests,
             \/ LogoutRevoke(r) \/ RevokeAllCommit(r)
             \/ SoftDeleteUser(r) \/ Abort(r)
      PROVE  Holders(j)' \subseteq Holders(j)
  BY <1>0, <1>5 DEF Holders, Rotating, LogoutRevoke, RevokeAllCommit,
                    SoftDeleteUser, Abort, Finish, Idle
<1>6. CASE UNCHANGED req
  BY <1>6 DEF Holders
<1> QED
  BY <1>1, <1>2, <1>3, <1>4, <1>5, <1>6
     DEF Next, Login, Refresh, Logout, ChangePassword, DeleteUser,
         VerifyUserEmail, vars

LEMMA ParentsKept ==
  ASSUME TypeInv, [Next]_vars,
         \A r \in Requests, k \in Jtis : ~CreateRefreshTokenRecord(r, k)
  PROVE  \A k \in Jtis : /\ chain'[k].parent = chain[k].parent
                         /\ chain'[k].late = chain[k].late
                         /\ owner'[k] = owner[k]
<1>1. ASSUME NEW r \in Requests, SetPassword(r) \/ RevokeAllExecute(r)
      PROVE  \A k \in Jtis : /\ chain'[k].parent = chain[k].parent
                             /\ chain'[k].late = chain[k].late
                             /\ owner'[k] = owner[k]
  BY <1>1, MarksOnly
<1>2. CASE UNCHANGED <<chain, owner>>
  BY <1>2
<1> QED
  BY <1>1, <1>2
     DEF Next, Login, Refresh, Logout, ChangePassword, DeleteUser,
         VerifyUserEmail, vars, tokens, history, LoginRead, LoginRehash,
         RefreshRead, RefreshCheckUser, RefreshRevoke, LogoutRead,
         LogoutRevoke, ChangeRead, RevokeAllCommit, DeleteRead,
         SoftDeleteUser, Abort

LEMMA ExchangeStep == TypeInv /\ ExchangeInv /\ [Next]_vars => ExchangeInv'
<1> SUFFICES ASSUME TypeInv, ExchangeInv, [Next]_vars PROVE ExchangeInv'
  OBVIOUS
<1>1. NeverBothUsable' /\ InsertAfterRevoke'
  BY OrderStep DEF ExchangeInv
<1>2. ASSUME NEW j \in Jtis
      PROVE  /\ IsFiniteSet(Children(j)')
             /\ Cardinality(Children(j)') + Cardinality(Holders(j)')
                  <= Cardinality(Requests)
  <2>0. /\ IsFiniteSet(Children(j)) /\ IsFiniteSet(Holders(j))
        /\ Cardinality(Children(j)) + Cardinality(Holders(j))
             <= Cardinality(Requests)
    BY RequestsFinite, FS_Subset DEF ExchangeInv, ExchangeBudget, FanOutBounded, Holders
  <2>1. CASE Children(j)' = {}
    BY <2>1, RequestsFinite, NothingProduced DEF Holders
  <2>2. CASE \E r \in Requests, k \in Jtis : CreateRefreshTokenRecord(r, k)
    <3>1. PICK r \in Requests, k \in Jtis : CreateRefreshTokenRecord(r, k)
      BY <2>2
    <3>2. /\ req[r].pc = "insert" /\ req' = [req EXCEPT ![r] = Idle]
          /\ chain[k].parent = NoJti
          /\ chain'[k].parent = req[r].token
          /\ \A i \in Jtis \ {k} : chain'[i] = chain[i]
      BY <3>1 DEF CreateRefreshTokenRecord, FreshJti, Finish, TypeInv, TypeOK,
                  RowsExist, Unissued
    <3>3. CASE req[r].token = j
      <4>1. r \in Holders(j) /\ Holders(j)' = Holders(j) \ {r}
        BY <3>2, <3>3, NullsAreOutside
           DEF Holders, Rotating, Idle, TypeInv, TypeOK
      <4>2. Children(j)' = Children(j) \cup {k}
        BY <3>2, <3>3 DEF Children
      <4> QED
        BY <2>0, <4>1, <4>2, BudgetKept, RequestsCount
    <3>4. CASE req[r].token # j
      <4>1. Holders(j)' \subseteq Holders(j)
        BY <3>2, NullsAreOutside DEF Holders, Rotating, Idle, TypeInv, TypeOK
      <4>2. Children(j)' = Children(j)
        BY <3>2, <3>4, NullsAreOutside DEF Children
      <4> QED
        BY <2>0, <4>1, <4>2, BudgetKept, RequestsCount
    <3> QED
      BY <3>3, <3>4
  <2>3. CASE \A r \in Requests, k \in Jtis : ~CreateRefreshTokenRecord(r, k)
    <3>1. Children(j)' = Children(j)
      BY <2>3, ParentsKept DEF Children
    <3>2. CASE status[j] = "revoked"
      BY <2>0, <2>3, <3>1, <3>2, HoldersShrink, BudgetKept, RequestsCount
    <3>3. CASE status[j] # "revoked"
      BY <2>1, <3>1, <3>3, NullsAreOutside
         DEF ExchangeInv, NeverBothUsable, Children
    <3> QED
      BY <3>2, <3>3
  <2> QED
    BY <2>2, <2>3
<1>3. ExchangeBudget'
  BY <1>2 DEF ExchangeBudget, FanOutBounded
<1> QED
  BY <1>1, <1>3 DEF ExchangeInv

(***************************************************************************)
(* The presented token is revoked before its successor exists.             *)
(***************************************************************************)
THEOREM HandOver == Spec => []NeverBothUsable
<1>1. Spec => [](TypeInv /\ ExchangeInv)
  BY TypeInvInit, TypeInvStep, ExchangeInit, ExchangeStep, PTL DEF Spec
<1>2. ExchangeInv => NeverBothUsable
  BY DEF ExchangeInv
<1> QED
  BY <1>1, <1>2, PTL

(***************************************************************************)
(* A refresh token is exchanged at most once per concurrent request.       *)
(***************************************************************************)
THEOREM FanOut == Spec => []FanOutBounded
<1>1. Spec => [](TypeInv /\ ExchangeInv)
  BY TypeInvInit, TypeInvStep, ExchangeInit, ExchangeStep, PTL DEF Spec
<1>2. ExchangeInv => FanOutBounded
  BY DEF ExchangeInv, ExchangeBudget
<1> QED
  BY <1>1, <1>2, PTL


-----------------------------------------------------------------------------
(* Tokens issued after a soft delete.                                      *)

(* The requests past the is_active check that may still insert a token.    *)
Admitted(u) ==
  {r \in Requests : /\ req[r].pc \in {"rehash", "revoke", "insert"}
                    /\ req[r].user = u}

(***************************************************************************)
(* Once u is deactivated nobody is admitted for u any more, and each of    *)
(* those admitted before inserts one token at most.                        *)
(***************************************************************************)
LateInv ==
  \A u \in Users :
     /\ active[u] => LateTokens(u) = {}
     /\ IsFiniteSet(LateTokens(u))
     /\ Cardinality(LateTokens(u)) + Cardinality(Admitted(u))
          <= Cardinality(Requests)

LEMMA LateInit == Init => LateInv
<1> SUFFICES ASSUME Init PROVE LateInv
  OBVIOUS
<1>1. \A u \in Users : LateTokens(u) = {} /\ Admitted(u) \subseteq Requests
  BY DEF Init, LateTokens, Admitted, Unissued
<1> QED
  BY <1>1, RequestsFinite, NothingProduced DEF LateInv

LEMMA AdmittedShrink ==
  ASSUME TypeInv, [Next]_vars, NEW v \in Users, ~active[v],
         \A r \in Requests, k \in Jtis : ~CreateRefreshTokenRecord(r, k)
  PROVE  Admitted(v)' \subseteq Admitted(v)
<1>0. req \in [Requests -> Slot]
  BY DEF TypeInv, TypeOK
<1>1. ASSUME NEW r \in Requests, SetPassword(r) \/ RevokeAllExecute(r)
      PROVE  Admitted(v)' \subseteq Admitted(v)
  BY <1>1, MarksOnly DEF Admitted
<1>2. ASSUME NEW r \in Requests, NEW u \in Users, LoginRead(r, u)
      PROVE  Admitted(v)' \subseteq Admitted(v)
  <2>1. /\ \A q \in Requests \ {r} : req'[q] = req[q]
        /\ req'[r].user = u /\ active[u]
    BY <1>0, <1>2 DEF LoginRead, Idle
  <2> QED
    BY <2>1 DEF Admitted
<1>3. ASSUME NEW r \in Requests, NEW k \in Jtis,
             RefreshRead(r, k) \/ LogoutRead(r, k)
      PROVE  Admitted(v)' \subseteq Admitted(v)
  <2>1. /\ \A q \in Requests \ {r} : req'[q] = req[q]
        /\ req'[r].pc \in {"check_user", "logout"}
    BY <1>0, <1>3 DEF RefreshRead, LogoutRead, Idle
  <2> QED
    BY <2>1 DEF Admitted
<1>4. ASSUME NEW r \in Requests, NEW u \in Users,
             DeleteRead(r, u) \/ \E p \in Passwords : ChangeRead(r, u, p)
      PROVE  Admitted(v)' \subseteq Admitted(v)
  <2>1. /\ \A q \in Requests \ {r} : req'[q] = req[q]
        /\ req'[r].pc \in {"soft_delete", "set_password"}
    <3>1. CASE DeleteRead(r, u)
      BY <1>0, <3>1 DEF DeleteRead, Idle
    <3>2. ASSUME NEW p \in Passwords, ChangeRead(r, u, p)
          PROVE  /\ \A q \in Requests \ {r} : req'[q] = req[q]
                 /\ req'[r].pc = "set_password"
      BY <1>0, <3>2 DEF ChangeRead, Idle
    <3> QED
      BY <1>4, <3>1, <3>2
  <2> QED
    BY <2>1 DEF Admitted
<1>5. ASSUME NEW r \in Requests, LoginRehash(r) \/ RefreshRevoke(r)
      PROVE  Admitted(v)' \subseteq Admitted(v)
  <2>1. /\ \A q \in Requests \ {r} : req'[q] = req[q]
        /\ req[r].pc \in {"rehash", "revoke"} /\ req'[r].user = req[r].user
    BY <1>0, <1>5 DEF LoginRehash, RefreshRevoke, Slot
  <2> QED
    BY <2>1 DEF Admitted
<1>6. ASSUME NEW r \in Requests, RefreshCheckUser(r)
      PROVE  Admitted(v)' \subseteq Admitted(v)
  <2>1. /\ \A q \in Requests \ {r} : req'[q] = req[q]
        /\ \/ active[req[r].user] /\ req'[r].user = req[r].user
           \/ req'[r].pc = "idle"
    BY <1>0, <1>6 DEF RefreshCheckUser, MayRefresh, Finish, Idle, Slot
  <2> QED
    BY <2>1 DEF Admitted
<1>7. ASSUME NEW r \in Requests,
             \/ LogoutRevoke(r) \/ RevokeAllCommit(r)
             \/ SoftDeleteUser(r) \/ Abort(r)
      PROVE  Admitted(v)' \subseteq Admitted(v)
  <2>1. req' = [req EXCEPT ![r] = Idle]
    BY <1>7 DEF LogoutRevoke, RevokeAllCommit, SoftDeleteUser, Abort, Finish
  <2> QED
    BY <1>0, <2>1 DEF Admitted, Idle
<1>8. CASE UNCHANGED req
  BY <1>8 DEF Admitted
<1> QED
  BY <1>1, <1>2, <1>3, <1>4, <1>5, <1>6, <1>7, <1>8
     DEF Next, Login, Refresh, Logout, ChangePassword, DeleteUser,
         VerifyUserEmail, vars

(* Nothing makes a deactivated user active again.                          *)
LEMMA NoReactivation ==
  ASSUME TypeInv, [Next]_vars, NEW v \in Users, active'[v]
  PROVE  active[v]
<1>1. ASSUME NEW r \in Requests, SetPassword(r) \/ RevokeAllExecute(r)
      PROVE  active[v]
  BY <1>1, MarksOnly
<1>2. ASSUME NEW r \in Requests, SoftDeleteUser(r)
      PROVE  active[v]
  BY <1>2 DEF SoftDeleteUser, TypeInv, TypeOK
<1>3. CASE UNCHANGED active
  BY <1>3
<1> QED
  BY <1>1, <1>2, <1>3
     DEF Next, Login, Refresh, Logout, ChangePassword, DeleteUser,
         VerifyUserEmail, vars, users, LoginRead, LoginRehash,
         CreateRefreshTokenRecord, RefreshRead, RefreshCheckUser,
         RefreshRevoke, LogoutRead, LogoutRevoke, ChangeRead,
         RevokeAllCommit, DeleteRead, Abort

LEMMA LateStep == TypeInv /\ LateInv /\ [Next]_vars => LateInv'
<1> SUFFICES ASSUME TypeInv, LateInv, [Next]_vars, NEW v \in Users
             PROVE  /\ active'[v] => LateTokens(v)' = {}
                    /\ IsFiniteSet(LateTokens(v)')
                    /\ Cardinality(LateTokens(v)') + Cardinality(Admitted(v)')
                         <= Cardinality(Requests)
  BY DEF LateInv
<1>0. /\ IsFiniteSet(LateTokens(v)) /\ IsFiniteSet(Admitted(v))
      /\ Cardinality(LateTokens(v)) + Cardinality(Admitted(v))
           <= Cardinality(Requests)
  BY RequestsFinite, FS_Subset DEF LateInv, Admitted
<1>1. CASE \E r \in Requests, k \in Jtis : CreateRefreshTokenRecord(r, k)
  <2>1. PICK r \in Requests, k \in Jtis : CreateRefreshTokenRecord(r, k)
    BY <1>1
  <2>2. /\ req[r].pc = "insert" /\ req' = [req EXCEPT ![r] = Idle]
        /\ status[k] = "absent" /\ ~chain[k].late
        /\ chain'[k].late = ~active[req[r].user]
        /\ owner'[k] = req[r].user
        /\ \A i \in Jtis \ {k} : chain'[i] = chain[i] /\ owner'[i] = owner[i]
        /\ UNCHANGED active
    BY <2>1 DEF CreateRefreshTokenRecord, FreshJti, Finish, TypeInv, TypeOK,
                RowsExist, Unissued, users
  <2>3. CASE req[r].user = v /\ ~active[v]
    <3>1. r \in Admitted(v) /\ Admitted(v)' = Admitted(v) \ {r}
      BY <2>2, <2>3 DEF Admitted, Idle, TypeInv, TypeOK
    <3>2. LateTokens(v)' = LateTokens(v) \cup {k}
      BY <2>2, <2>3 DEF LateTokens
    <3> QED
      BY <1>0, <2>2, <2>3, <3>1, <3>2, BudgetKept, RequestsCount
  <2>4. CASE req[r].user # v \/ active[v]
    <3>1. Admitted(v)' \subseteq Admitted(v)
      BY <2>2 DEF Admitted, Idle, TypeInv, TypeOK
    <3>2. LateTokens(v)' = LateTokens(v)
      BY <2>2, <2>4 DEF LateTokens
    <3> QED
      BY <1>0, <2>2, <3>1, <3>2, BudgetKept, RequestsCount DEF LateInv
  <2> QED
    BY <2>3, <2>4
<1>2. CASE \A r \in Requests, k \in Jtis : ~CreateRefreshTokenRecord(r, k)
  <2>1. LateTokens(v)' = LateTokens(v)
    BY <1>2, ParentsKept DEF LateTokens
  <2>2. active'[v] => LateTokens(v)' = {}
    BY <2>1, NoReactivation DEF LateInv
  <2>3. CASE active[v]
    <3>1. LateTokens(v)' = {} /\ Admitted(v)' \subseteq Requests
      BY <2>1, <2>3 DEF LateInv, Admitted
    <3> QED
      BY <2>2, <3>1, RequestsFinite, NothingProduced
  <2>4. CASE ~active[v]
    BY <1>0, <1>2, <2>1, <2>2, <2>4, AdmittedShrink, BudgetKept, RequestsCount
  <2> QED
    BY <2>3, <2>4
<1> QED
  BY <1>1, <1>2

(***************************************************************************)
(* A deactivated user gets at most one more token per request that was     *)
(* already admitted.                                                       *)
(***************************************************************************)
THEOREM LateTokensCapped == Spec => []LateTokensBounded
<1>1. Spec => [](TypeInv /\ LateInv)
  BY TypeInvInit, TypeInvStep, LateInit, LateStep, PTL DEF Spec
<1>2. LateInv => LateTokensBounded
  <2> SUFFICES ASSUME LateInv, NEW u \in Users
               PROVE  Cardinality(LateTokens(u)) <= Cardinality(Requests)
    BY DEF LateTokensBounded
  <2>1. /\ IsFiniteSet(LateTokens(u)) /\ IsFiniteSet(Admitted(u))
        /\ Cardinality(LateTokens(u)) + Cardinality(Admitted(u))
             <= Cardinality(Requests)
    BY RequestsFinite, FS_Subset DEF LateInv, Admitted
  <2> QED
    BY <2>1, RequestsCount, ProducedBounded
<1> QED
  BY <1>1, <1>2, PTL

-----------------------------------------------------------------------------
(***************************************************************************)
(* No step takes a revocation back.                                        *)
(***************************************************************************)
THEOREM Revocation == Spec => RevocationIsFinal
<1> DEFINE A == \A j \in Jtis : status[j] = "revoked" => status'[j] = "revoked"
<1>1. TypeInv /\ [Next]_vars => [A]_vars
  <2> SUFFICES ASSUME TypeInv, [Next]_vars PROVE A
    OBVIOUS
  <2>1. ASSUME NEW r \in Requests, SetPassword(r) \/ RevokeAllExecute(r)
        PROVE  A
    BY <2>1, MarksOnly
  <2>2. ASSUME NEW r \in Requests,
               \/ \E j \in Jtis : CreateRefreshTokenRecord(r, j)
               \/ RefreshRevoke(r) \/ LogoutRevoke(r) \/ RevokeAllCommit(r)
        PROVE  A
    BY <2>2 DEF CreateRefreshTokenRecord, FreshJti, RefreshRevoke,
                LogoutRevoke, RevokeRefreshToken, RevokeAllCommit, TypeInv,
                TypeOK
  <2>3. CASE UNCHANGED status
    BY <2>3
  <2> QED
    BY <2>1, <2>2, <2>3
       DEF Next, Login, Refresh, Logout, ChangePassword, DeleteUser,
           VerifyUserEmail, vars, tokens, LoginRead, LoginRehash, RefreshRead,
           RefreshCheckUser, LogoutRead, ChangeRead, DeleteRead,
           SoftDeleteUser, Abort
<1>2. Spec => []TypeInv /\ [][Next]_vars
  BY TypeInvInit, TypeInvStep, PTL DEF Spec
<1>3. Spec => [][A]_vars
  BY <1>1, <1>2, PTL
<1> QED
  BY <1>3 DEF RevocationIsFinal

=============================================================================
