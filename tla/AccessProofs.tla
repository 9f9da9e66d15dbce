---------------------------- MODULE AccessProofs ----------------------------
(***************************************************************************)
(* Proofs about AccessTokens, for any users, slots, seeds and bounds, on   *)
(* top of RbacInv: requests change the tables here as they do in Rbac, and *)
(* logins only read them.                                                  *)
(***************************************************************************)
EXTENDS AccessTokens, RbacProofs

(* Whatever a session holds was so at some time since its login began.     *)
Backed(s, was) ==
  /\ s.links \subseteq was.links
  /\ \A i \in RoleIds : s.name[i] # NoName => <<i, s.name[i]>> \in was.names
  /\ \A i \in RoleIds : \A p \in s.grants[i] :
       \E n \in PermNames : <<i, p, n>> \in was.grants
  /\ \A p \in PermIds : s.known[p] # NoName => <<p, s.known[p]>> \in was.perms
  /\ \A i \in RoleIds : \A n \in s.perms[i] :
       n # NoName => GrantSeen(i, n, was)

(* An id that no migration seeded has one name at most, for good.          *)
NamedOnce(was) ==
  /\ \A i \in RoleIds, p \in PermIds, n \in PermNames :
       <<i, p, n>> \in was.grants => <<p, n>> \in was.perms
  /\ \A p \in PermIds, n \in PermNames :
       <<p, n>> \in was.perms /\ p > Len(SeedPerms) =>
         /\ p < nextPerm
         /\ perm[p] \in {n, NoName}
         /\ \A m \in PermNames : <<p, m>> \in was.perms => m = n

SessionOK(s) ==
  /\ s \in Loaded
  /\ s.pc = "idle" => s = NewSession
  /\ s.pc # "idle" => s.user \in Users

LoginInv ==
  /\ login \in [Logins -> Loaded]
  /\ \A l \in Logins : /\ SessionOK(login[l])
                       /\ Backed(login[l], seen[l])
                       /\ NamedOnce(seen[l])

TokenInv ==
  /\ token \in [Tokens -> Token]
  /\ \A t \in Tokens : token[t].user \in Users <=> token[t].left > 0

AccessInv ==
  RbacInv /\ active \in [Users -> BOOLEAN] /\ LoginInv /\ TokenInv

-----------------------------------------------------------------------------
(* The initial states: the accounts have the roles they registered for.    *)

LEMMA AccountRows ==
  ASSUME AccessInit, NEW x \in RowIds, x <= Len(Accounts)
  PROVE  /\ userRole[x] \in Assignment
         /\ userRole[x].by = "registration"
         /\ userRole[x].role <= Seeded
         /\ role[userRole[x].role] # NoName
         /\ origin[userRole[x].user] = SeedRoles[userRole[x].role]
<1> DEFINE u == Accounts[x][1]
           n == Accounts[x][2]
           i == CHOOSE i \in RoleIds : role[i] = n
           h == CHOOSE k \in 1 .. Len(Accounts) : Accounts[k][1] = u
<1>1. x \in 1 .. Len(Accounts)
  BY AccountsOK, BoundsOK DEF RowIds
<1>2. Accounts[x] \in Users \X {DefaultName, AdminName}
  BY <1>1, AccountsOK
<1>3. u \in Users /\ n \in DefaultNames
  BY <1>2, Seeds
<1>4. RoleInv
  BY MigratedInv DEF AccessInit
<1>5. PICK k \in 1 .. Seeded : SeedRoles[k] = n
  BY <1>3, Seeds
<1>6. k \in RoleIds /\ role[k] = n
  BY <1>4, <1>5, DefaultsUsed, Seeds
<1>7. i \in RoleIds /\ role[i] = n
  BY <1>6
<1>8. i = k
  BY <1>3, <1>4, <1>6, <1>7, Seeds DEF RoleInv, NamesUnique
<1>9. h \in 1 .. Len(Accounts) /\ Accounts[h][1] = u
  BY <1>1
<1>10. h = x
  BY <1>1, <1>3, <1>9, AccountsOK
<1>11. userRole[x] = [user |-> u, by |-> "registration", live |-> TRUE, role |-> i]
  BY DEF AccessInit
<1>12. origin[u] = Accounts[h][2]
  BY <1>3 DEF AccessInit
<1> HIDE DEF u, n, i, h
<1>13. origin[u] = n
  BY <1>10, <1>12 DEF n
<1>14. userRole[x] \in Assignment
  BY <1>3, <1>7, <1>11 DEF Assignment
<1> QED
  BY <1>3, <1>5, <1>7, <1>8, <1>11, <1>13, <1>14, Seeds

LEMMA AccessInitRbac == AccessInit => RbacInv
<1> SUFFICES ASSUME AccessInit PROVE RbacInv
  OBVIOUS
<1>1. SlotInv /\ RoleInv /\ PermInv /\ RolePermInv
  BY MigratedInv DEF AccessInit
<1>2. AccountInv
  <2>1. ASSUME NEW u \in Users PROVE origin[u] \in DefaultNames
    <3>1. PICK k \in 1 .. Len(Accounts) : Accounts[k][1] = u
      BY AccountsOK
    <3> DEFINE h == CHOOSE h \in 1 .. Len(Accounts) : Accounts[h][1] = u
    <3>2. h \in 1 .. Len(Accounts)
      BY <3>1
    <3>3. origin[u] = Accounts[h][2]
      BY DEF AccessInit
    <3> HIDE DEF h
    <3>4. Accounts[h] \in Users \X {DefaultName, AdminName}
      BY <3>2, AccountsOK
    <3> QED
      BY <3>3, <3>4, Seeds
  <2>2. origin = [u \in Users |-> origin[u]]
    BY DEF AccessInit
  <2>3. origin \in [Users -> DefaultNames \cup {NoName}]
    BY <2>1, <2>2
  <2> QED
    BY <2>1, <2>3 DEF AccessInit, Quiet, AccountInv
<1>3. UserRoleInv
  <2>1. ASSUME NEW x \in RowIds
        PROVE  /\ userRole[x] \in Assignment \cup {NoRow}
               /\ userRole[x] # NoRow =>
                    /\ role[userRole[x].role] # NoName
                    /\ userRole[x].user \in registered
                    /\ userRole[x].role <= Seeded
                    /\ origin[userRole[x].user] = SeedRoles[userRole[x].role]
    <3>1. CASE x <= Len(Accounts)
      BY <3>1, AccountRows DEF AccessInit, Assignment
    <3>2. CASE ~(x <= Len(Accounts))
      BY <3>2 DEF AccessInit
    <3> QED
      BY <3>1, <3>2
  <2>2. userRole = [x \in RowIds |-> userRole[x]]
    BY DEF AccessInit
  <2>3. userRole \in [RowIds -> Assignment \cup {NoRow}]
    BY <2>1, <2>2
  <2> QED
    BY <2>1, <2>3 DEF UserRoleInv, HasRow
<1> QED
  BY <1>1, <1>2, <1>3 DEF RbacInv

LEMMA NewSessionOK ==
  /\ NewSession \in Loaded /\ SessionOK(NewSession)
  /\ \A was : Backed(NewSession, was)
  /\ NewSession.pc = "idle"
<1>1. NewSession \in Loaded /\ NewSession.pc = "idle"
  BY DEF NewSession, Loaded
<1>2. ASSUME NEW was PROVE Backed(NewSession, was)
  BY DEF NewSession, Backed
<1> QED
  BY <1>1, <1>2 DEF SessionOK

LEMMA AccessInvInit == AccessInit => AccessInv
<1> SUFFICES ASSUME AccessInit PROVE AccessInv
  OBVIOUS
<1>1. RbacInv
  BY AccessInitRbac
<1>2. active \in [Users -> BOOLEAN]
  BY DEF AccessInit
<1>3. LoginInv
  <2>1. NamedOnce(Nothing)
    BY DEF NamedOnce, Nothing
  <2> QED
    BY <2>1, NewSessionOK DEF AccessInit, LoginInv
<1>4. TokenInv
  <2>1. NoToken \in Token /\ ~(NoToken.left > 0) /\ NoToken.user \notin Users
    BY LifetimeOK, NullsAreOutside DEF NoToken, Token
  <2> QED
    BY <2>1 DEF AccessInit, TokenInv
<1> QED
  BY <1>1, <1>2, <1>3, <1>4 DEF AccessInv

-----------------------------------------------------------------------------
(* Requests: to the tables a step is one of Rbac, or one of delete_user's, *)
(* or nothing.                                                             *)

Tables == <<accounts, catalog, links, history>>

LEMMA SlotsOnly ==
  ASSUME RbacInv, UNCHANGED Tables, NEW r \in Requests, NEW s \in Slot,
         SlotOK(s), Sure(s), req' = [req EXCEPT ![r] = s]
  PROVE  RbacInv'
<1>1. /\ UNCHANGED <<registered, verified, role, perm, nextRole, nextPerm>>
      /\ UNCHANGED <<userRole, rolePerm, origin, torn, collisions>>
  BY DEF Tables, accounts, catalog, links, history
<1>2. SlotInv'
  <2>1. req' \in [Requests -> Slot]
    BY DEF RbacInv, SlotInv
  <2>2. ASSUME NEW q \in Requests PROVE SlotOK(req[q])' /\ Sure(req[q])'
    <3>1. req'[q] = s \/ req'[q] = req[q]
      BY DEF RbacInv, SlotInv
    <3>2. SlotOK(req'[q]) /\ Sure(req'[q])
      BY <3>1 DEF RbacInv, SlotInv
    <3> QED
      BY <1>1, <3>2 DEF SlotOK, Sure
  <2> QED
    BY <2>1, <2>2 DEF SlotInv
<1>3. AccountInv' /\ PermInv' /\ RolePermInv'
  BY <1>1 DEF RbacInv, AccountInv, PermInv, RolePermInv, HasRow
<1>4. RoleInv'
  BY <1>1 DEF RbacInv, RoleInv, NamesUnique, DefaultRolesKept
<1>5. UserRoleInv'
  BY <1>1 DEF RbacInv, UserRoleInv, HasRow
<1> QED
  BY <1>2, <1>3, <1>4, <1>5 DEF RbacInv

LEMMA AccessSteps ==
  ASSUME [AccessNext]_accessVars
  PROVE  /\ \/ [RbacNext]_rbacVars
            \/ \E r \in Requests :
                 \/ \E t \in Tokens, u \in Users : DeleteUserRead(r, t, u)
                 \/ SoftDeleteUser(r)
         /\ \/ UNCHANGED login
            \/ \E l \in Logins : Enter(l) /\ UNCHANGED rbacVars
         /\ \/ UNCHANGED token
            \/ \E l \in Logins, t \in Tokens : IssueToken(l, t)
            \/ Tick
         /\ UNCHANGED active \/ \E r \in Requests : SoftDeleteUser(r)
         /\ UNCHANGED accessVars \/ Observe
<1>1. UNCHANGED accessVars => UNCHANGED <<rbacVars, active, login, token>>
  BY DEF accessVars
<1>2. ASSUME NEW l \in Logins, Enter(l)
      PROVE  UNCHANGED token \/ \E t \in Tokens : IssueToken(l, t)
  BY <1>2 DEF Enter, LoadUser, LoadLinks, LoadRoles, LoadGrants,
              LoadPermissions, AbortLogin
<1>3. ASSUME NEW r \in Requests, AdminCall(r) \/ Background(r)
      PROVE  RbacNext /\ UNCHANGED <<active, login, token>>
  BY <1>3 DEF AdminCall, Background, RbacNext
<1>4. ASSUME NEW r \in Requests, NEW t \in Tokens, NEW u \in Users,
             DeleteUserRead(r, t, u)
      PROVE  UNCHANGED <<active, login, token>>
  BY <1>4 DEF DeleteUserRead
<1>5. ASSUME NEW r \in Requests, SoftDeleteUser(r)
      PROVE  UNCHANGED <<login, token>>
  BY <1>5 DEF SoftDeleteUser
<1>6. Tick => UNCHANGED <<rbacVars, active, login>>
  BY DEF Tick
<1>7. \/ UNCHANGED accessVars
      \/ /\ Observe
         /\ \/ \E l \in Logins : Enter(l) /\ UNCHANGED <<rbacVars, active>>
            \/ \E r \in Requests : AdminCall(r) \/ Background(r)
            \/ \E r \in Requests, t \in Tokens, u \in Users :
                 DeleteUserRead(r, t, u)
            \/ \E r \in Requests : SoftDeleteUser(r)
            \/ Tick
  BY DEF AccessNext
<1>8. \/ [RbacNext]_rbacVars
      \/ \E r \in Requests :
           \/ \E t \in Tokens, u \in Users : DeleteUserRead(r, t, u)
           \/ SoftDeleteUser(r)
  BY <1>1, <1>3, <1>6, <1>7
<1>9. \/ UNCHANGED login
      \/ \E l \in Logins : Enter(l) /\ UNCHANGED rbacVars
  BY <1>1, <1>3, <1>4, <1>5, <1>6, <1>7
<1>10. \/ UNCHANGED token
       \/ \E l \in Logins, t \in Tokens : IssueToken(l, t)
       \/ Tick
  BY <1>1, <1>2, <1>3, <1>4, <1>5, <1>7
<1>11. UNCHANGED active \/ \E r \in Requests : SoftDeleteUser(r)
  BY <1>1, <1>3, <1>4, <1>6, <1>7
<1> QED
  BY <1>7, <1>8, <1>9, <1>10, <1>11

LEMMA AccessRbacStep ==
  ASSUME AccessInv, [AccessNext]_accessVars
  PROVE  /\ RbacInv'
         /\ [RbacNext]_rbacVars \/ UNCHANGED Tables
<1>0. RbacInv
  BY DEF AccessInv
<1>1. CASE [RbacNext]_rbacVars
  BY <1>0, <1>1, RbacInvStep
<1>2. ASSUME NEW r \in Requests, NEW t \in Tokens, NEW u \in Users,
             DeleteUserRead(r, t, u)
      PROVE  RbacInv' /\ UNCHANGED Tables
  <2> DEFINE s == [Idle EXCEPT !.pc = "soft_delete", !.user = u]
  <2>1. s \in Slot /\ SlotOK(s) /\ Sure(s)
    BY DEF Idle, Slot, PCs, SlotOK, Sure, Registers
  <2>2. req' = [req EXCEPT ![r] = s] /\ UNCHANGED Tables
    BY <1>2 DEF DeleteUserRead, Begin, Tables
  <2> HIDE DEF s
  <2> QED
    BY <1>0, <2>1, <2>2, SlotsOnly
<1>3. ASSUME NEW r \in Requests, SoftDeleteUser(r)
      PROVE  RbacInv' /\ UNCHANGED Tables
  <2>1. req' = [req EXCEPT ![r] = Idle] /\ UNCHANGED Tables
    BY <1>3 DEF SoftDeleteUser, Finish, Tables
  <2> QED
    BY <1>0, <2>1, IdleType, SlotsOnly
<1> QED
  BY <1>1, <1>2, <1>3, AccessSteps

-----------------------------------------------------------------------------
(* What a login has seen.                                                  *)

Grown(was, more) ==
  /\ was.links \subseteq more.links
  /\ was.names \subseteq more.names
  /\ was.perms \subseteq more.perms
  /\ was.grants \subseteq more.grants

(* The history holds what is true now.                                     *)
Current(was, u) ==
  /\ LinksOf(u) \subseteq was.links
  /\ \A i \in RoleIds : <<i, role[i]>> \in was.names
  /\ \A p \in PermIds : perm[p] # NoName => <<p, perm[p]>> \in was.perms
  /\ \A i \in RoleIds : \A p \in GrantsOf(i) : <<i, p, perm[p]>> \in was.grants

LEMMA RowTypes ==
  RbacInv => /\ \A u : LinksOf(u) \subseteq RoleIds
             /\ \A i : /\ GrantsOf(i) \subseteq PermIds
                       /\ \A p \in GrantsOf(i) : perm[p] \in PermNames
             /\ \A i \in RoleIds : role[i] \in Names \cup {NoName}
             /\ \A p \in PermIds : perm[p] \in PermNames \cup {NoName}
<1> SUFFICES ASSUME RbacInv
             PROVE  /\ \A u : LinksOf(u) \subseteq RoleIds
                    /\ \A i : /\ GrantsOf(i) \subseteq PermIds
                              /\ \A p \in GrantsOf(i) : perm[p] \in PermNames
                    /\ \A i \in RoleIds : role[i] \in Names \cup {NoName}
                    /\ \A p \in PermIds : perm[p] \in PermNames \cup {NoName}
  OBVIOUS
<1>1. /\ \A i \in RoleIds : role[i] \in Names \cup {NoName}
      /\ \A p \in PermIds : perm[p] \in PermNames \cup {NoName}
  BY DEF RbacInv, RoleInv, PermInv
<1>2. ASSUME NEW x \in RowIds, HasRow(userRole, x)
      PROVE  userRole[x].role \in RoleIds
  BY <1>2 DEF RbacInv, UserRoleInv, HasRow, Assignment
<1>3. ASSUME NEW x \in GrantIds, HasRow(rolePerm, x)
      PROVE  /\ rolePerm[x].perm \in PermIds
             /\ perm[rolePerm[x].perm] # NoName
  BY <1>3 DEF RbacInv, RolePermInv, HasRow, Grant
<1>4. \A u : LinksOf(u) \subseteq RoleIds
  BY <1>2 DEF LinksOf
<1>5. \A i : \A p \in GrantsOf(i) : p \in PermIds /\ perm[p] # NoName
  BY <1>3 DEF GrantsOf
<1> QED
  BY <1>1, <1>4, <1>5

LEMMA Observed ==
  ASSUME Observe, RbacInv', NEW l \in Logins, login'[l].pc # "idle"
  PROVE  /\ Grown(seen[l], seen'[l])
         /\ Current(seen[l], login[l].user)'
<1>1. /\ seen'[l].links = seen[l].links \cup LinksOf(login[l].user)'
      /\ seen'[l].names = seen[l].names \cup {<<i, role'[i]>> : i \in RoleIds}
      /\ seen'[l].perms = seen[l].perms \cup
           {<<p, perm'[p]>> : p \in {q \in PermIds : perm'[q] # NoName}}
      /\ seen'[l].grants = seen[l].grants \cup
           {<<g[1], g[2], perm'[g[2]]>> : g \in
              {h \in RoleIds \X PermIds : h[2] \in GrantsOf(h[1])'}}
  BY DEF Observe
<1>2. Grown(seen[l], seen'[l])
  BY <1>1 DEF Grown
<1>3. LinksOf(login[l].user)' \subseteq seen'[l].links
  BY <1>1
<1>4. \A i \in RoleIds : <<i, role'[i]>> \in seen'[l].names
  BY <1>1
<1>5. \A p \in PermIds : perm'[p] # NoName => <<p, perm'[p]>> \in seen'[l].perms
  BY <1>1
<1>6. ASSUME NEW i \in RoleIds, NEW p \in PermIds, p \in GrantsOf(i)'
      PROVE  <<i, p, perm'[p]>> \in seen'[l].grants
  <2>1. <<i, p>> \in {h \in RoleIds \X PermIds : h[2] \in GrantsOf(h[1])'}
    BY <1>6
  <2> QED
    BY <1>1, <2>1
<1>7. \A i : GrantsOf(i)' \subseteq PermIds
  <2>1. ASSUME NEW x \in GrantIds, HasRow(rolePerm, x)'
        PROVE  rolePerm'[x].perm \in PermIds
    BY <2>1 DEF RbacInv, RolePermInv, HasRow, Grant
  <2> QED
    BY <2>1 DEF GrantsOf
<1> QED
  BY <1>2, <1>3, <1>4, <1>5, <1>6, <1>7 DEF Current

LEMMA BackedGrown ==
  ASSUME NEW s, NEW was, NEW more, Backed(s, was), Grown(was, more)
  PROVE  Backed(s, more)
<1>1. ASSUME NEW i, NEW n, GrantSeen(i, n, was)
      PROVE  GrantSeen(i, n, more)
  BY <1>1 DEF GrantSeen, Grown
<1> QED
  BY <1>1 DEF Backed, Grown

LEMMA NamedOnceStep ==
  ASSUME AccessInv, [AccessNext]_accessVars, NEW l \in Logins
  PROVE  NamedOnce(seen[l])'
<1>0. /\ RbacInv /\ RbacInv' /\ NamedOnce(seen[l])
      /\ nextPerm \in Nat /\ nextPerm' \in Nat
      /\ \A p \in PermIds : p \in Nat
      /\ Len(SeedPerms) \in Nat
  <2>1. RbacInv /\ RbacInv' /\ NamedOnce(seen[l])
    BY AccessRbacStep DEF AccessInv, LoginInv
  <2>2. nextPerm \in Nat /\ nextPerm' \in Nat
    BY <2>1, BoundsOK DEF RbacInv, PermInv
  <2> QED
    BY <2>1, <2>2, BoundsOK, SeedsOK DEF PermIds
(* Names and the sequence go on from where they were.                      *)
<1>1. /\ nextPerm <= nextPerm'
      /\ \A p \in PermIds :
           perm'[p] # NoName /\ perm'[p] # perm[p] => p = nextPerm
      /\ \A p \in PermIds :
           perm'[p] # NoName /\ p > Len(SeedPerms) => p < nextPerm'
  <2>1. CASE [RbacNext]_rbacVars
    <3>1. \A p \in PermIds :
            perm'[p] # NoName /\ p > Len(SeedPerms) => p < nextPerm'
      BY <1>0 DEF RbacInv, PermInv
    <3> QED
      BY <1>0, <2>1, <3>1, PermDrawn, PermSequence
  <2>2. CASE UNCHANGED Tables
    <3>1. UNCHANGED <<perm, nextPerm>>
      BY <2>2 DEF Tables, catalog
    <3> QED
      BY <1>0, <3>1 DEF RbacInv, PermInv
  <2> QED
    BY <2>1, <2>2, AccessRbacStep
<1>2. CASE seen'[l] = Nothing
  BY <1>2 DEF NamedOnce, Nothing
<1>3. ASSUME /\ \A p \in PermIds, n \in PermNames :
                  <<p, n>> \in seen'[l].perms =>
                    <<p, n>> \in seen[l].perms \/ n = perm'[p]
             /\ \A i \in RoleIds, p \in PermIds, n \in PermNames :
                  <<i, p, n>> \in seen'[l].grants =>
                    \/ <<i, p, n>> \in seen[l].grants
                    \/ <<p, n>> \in seen'[l].perms
             /\ seen[l].perms \subseteq seen'[l].perms
      PROVE  NamedOnce(seen[l])'
  <2>1. \A i \in RoleIds, p \in PermIds, n \in PermNames :
          <<i, p, n>> \in seen'[l].grants => <<p, n>> \in seen'[l].perms
    BY <1>0, <1>3 DEF NamedOnce
  <2>2. ASSUME NEW p \in PermIds, NEW n \in PermNames,
               <<p, n>> \in seen'[l].perms, p > Len(SeedPerms)
        PROVE  /\ p < nextPerm'
               /\ perm'[p] \in {n, NoName}
               /\ \A m \in PermNames : <<p, m>> \in seen'[l].perms => m = n
    <3>0. NoName \notin PermNames
      BY NullsAreOutside
    <3>1. ASSUME NEW k \in PermNames, <<p, k>> \in seen[l].perms
          PROVE  /\ p < nextPerm' /\ perm'[p] \in {k, NoName}
                 /\ \A m \in PermNames : <<p, m>> \in seen[l].perms => m = k
      <4>1. /\ p < nextPerm /\ perm[p] \in {k, NoName}
            /\ \A m \in PermNames : <<p, m>> \in seen[l].perms => m = k
        BY <1>0, <2>2, <3>1 DEF NamedOnce
      <4>2. p < nextPerm' /\ p # nextPerm
        BY <1>0, <1>1, <4>1
      <4> QED
        BY <1>1, <4>1, <4>2
    <3>2. ASSUME NEW k \in PermNames, k = perm'[p]
          PROVE  p < nextPerm'
      BY <1>0, <1>1, <2>2, <3>0, <3>2
    <3> QED
      BY <1>3, <2>2, <3>0, <3>1, <3>2
  <2> QED
    BY <2>1, <2>2 DEF NamedOnce
<1>4. CASE Observe /\ login'[l].pc # "idle"
  <2>1. /\ seen'[l].perms = seen[l].perms \cup
             {<<p, perm'[p]>> : p \in {q \in PermIds : perm'[q] # NoName}}
        /\ seen'[l].grants = seen[l].grants \cup
             {<<g[1], g[2], perm'[g[2]]>> : g \in
                {h \in RoleIds \X PermIds : h[2] \in GrantsOf(h[1])'}}
    BY <1>4 DEF Observe
  <2>2. \A p, n : <<p, n>> \in seen'[l].perms =>
          <<p, n>> \in seen[l].perms \/ n = perm'[p]
    BY <2>1
  <2>3. ASSUME NEW i \in RoleIds, NEW p \in PermIds, NEW n \in PermNames,
               <<i, p, n>> \in seen'[l].grants, <<i, p, n>> \notin seen[l].grants
        PROVE  <<p, n>> \in seen'[l].perms
    <3>1. n = perm'[p]
      BY <2>1, <2>3
    <3>2. n # NoName
      BY NullsAreOutside
    <3> QED
      BY <2>1, <3>1, <3>2
  <2>4. seen[l].perms \subseteq seen'[l].perms
    BY <2>1
  <2> QED
    BY <1>3, <2>2, <2>3, <2>4
<1>5. CASE UNCHANGED accessVars
  <2>1. seen' = seen
    BY <1>5 DEF accessVars
  <2> QED
    BY <1>3, <2>1
<1>6. CASE Observe /\ login'[l].pc = "idle"
  BY <1>2, <1>6 DEF Observe
<1> QED
  BY <1>4, <1>5, <1>6, AccessSteps

-----------------------------------------------------------------------------
(* A login reads: what it takes up is true now, so its history holds it.   *)

LEMMA ProceedKeeps ==
  ASSUME NEW s \in Loaded, NEW pc \in {"roles", "grants", "perms"}
  PROVE  /\ Proceed(s, pc) \in Loaded
         /\ Proceed(s, pc).pc # "idle"
         /\ Proceed(s, pc).user = s.user
         /\ \A was : Backed(s, was) => Backed(Proceed(s, pc), was)
<1> DEFINE moved == Proceed(s, pc)
<1>1. moved \in Loaded /\ moved.pc # "idle"
  BY DEF Proceed, Loaded
<1>2. /\ moved.user = s.user /\ moved.links = s.links
      /\ moved.name = s.name /\ moved.grants = s.grants
      /\ moved.perms = s.perms /\ moved.known = s.known
  BY DEF Proceed, Loaded
<1> HIDE DEF moved
<1>3. ASSUME NEW was, Backed(s, was) PROVE Backed(moved, was)
  BY <1>2, <1>3 DEF Backed
<1> QED
  BY <1>1, <1>2, <1>3 DEF moved

LEMMA Reads ==
  ASSUME AccessInv, RbacInv', Observe, UNCHANGED rbacVars, NEW l \in Logins,
         NEW s \in Loaded, s.pc # "idle", login' = [login EXCEPT ![l] = s]
  PROVE  /\ Grown(seen[l], seen'[l])
         /\ Current(seen'[l], s.user)
         /\ Backed(login[l], seen'[l])
<1>1. login'[l] = s
  BY DEF AccessInv, LoginInv
<1>2. Grown(seen[l], seen'[l]) /\ Current(seen[l], login[l].user)'
  BY <1>1, Observed
<1>3. UNCHANGED <<role, perm, userRole, rolePerm>>
  BY DEF rbacVars, catalog, links
<1>4. /\ LinksOf(login[l].user)' = LinksOf(s.user)
      /\ \A i : GrantsOf(i)' = GrantsOf(i)
  BY <1>1, <1>3 DEF LinksOf, GrantsOf, HasRow
<1>5. Current(seen'[l], s.user)
  BY <1>2, <1>3, <1>4 DEF Current
<1>6. Backed(login[l], seen'[l])
  BY <1>2, BackedGrown DEF AccessInv, LoginInv
<1> QED
  BY <1>2, <1>5, <1>6

(* The step that takes up s and proceeds.                                  *)
LEMMA ReadKept ==
  ASSUME NEW s \in Loaded, NEW pc \in {"roles", "grants", "perms"},
         s.user \in Users, NEW was, Backed(s, was)
  PROVE  SessionOK(Proceed(s, pc)) /\ Backed(Proceed(s, pc), was)
BY ProceedKeeps DEF SessionOK

LEMMA EnterStep ==
  ASSUME AccessInv, RbacInv', Observe, UNCHANGED rbacVars, NEW l \in Logins,
         NamedOnce(seen[l])', Enter(l)
  PROVE  \E s : /\ login' = [login EXCEPT ![l] = s]
                /\ SessionOK(s)
                /\ Backed(s, seen'[l])
<1> DEFINE s   == login[l]
           was == seen'[l]
           Kept(x) == /\ login' = [login EXCEPT ![l] = x]
                      /\ SessionOK(x)
                      /\ Backed(x, was)
<1> SUFFICES \E x : Kept(x)
  OBVIOUS
<1>0. /\ RbacInv /\ login \in [Logins -> Loaded]
      /\ s \in Loaded /\ SessionOK(s)
  BY DEF AccessInv, LoginInv
<1>1. s.pc # "idle" => s.user \in Users
  BY <1>0 DEF SessionOK
<1>2. Kept(NewSession) <=> login' = [login EXCEPT ![l] = NewSession]
  BY NewSessionOK
(* What every step below needs to know of what it takes up.                *)
<1>3. ASSUME NEW x \in Loaded, x.pc # "idle", x.user \in Users,
             NEW pc \in {"roles", "grants", "perms"},
             login' = [login EXCEPT ![l] = Proceed(x, pc)]
      PROVE  /\ Current(was, x.user)
             /\ Backed(s, was)
             /\ Backed(x, was) => Kept(Proceed(x, pc))
  <2>1. Proceed(x, pc) \in Loaded /\ Proceed(x, pc).pc # "idle"
        /\ Proceed(x, pc).user = x.user
    BY <1>3, ProceedKeeps
  <2>2. Current(was, x.user) /\ Backed(s, was)
    BY <1>3, <2>1, Reads
  <2> QED
    BY <1>3, <2>2, ReadKept
<1>4. ASSUME NEW u \in Users, LoadUser(l, u)
      PROVE  \E x : Kept(x)
  <2> DEFINE x == [s EXCEPT !.pc = "links", !.user = u]
  <2>1. login' = [login EXCEPT ![l] = x] /\ s.pc = "idle"
    BY <1>0, <1>4 DEF LoadUser
  <2>2. x \in Loaded /\ x.pc # "idle" /\ x.user = u
    BY <1>0 DEF Loaded
  <2>3. /\ x.links = s.links /\ x.name = s.name /\ x.grants = s.grants
        /\ x.perms = s.perms /\ x.known = s.known
    BY <1>0 DEF Loaded
  <2> HIDE DEF x, s
  <2>4. Backed(s, was)
    BY <2>1, <2>2, Reads DEF s
  <2>5. Backed(x, was)
    BY <2>3, <2>4 DEF Backed
  <2>6. SessionOK(x)
    BY <2>2 DEF SessionOK
  <2> QED
    BY <2>1, <2>5, <2>6
<1>5. CASE LoadLinks(l)
  <2> DEFINE x == [s EXCEPT !.links = LinksOf(s.user),
                            !.fresh = {i \in LinksOf(s.user) : s.name[i] = NoName}]
  <2>1. s.pc = "links" /\ login' = [login EXCEPT ![l] = Proceed(x, "roles")]
    BY <1>5 DEF LoadLinks
  <2>2. LinksOf(s.user) \subseteq RoleIds
    BY <1>0, RowTypes
  <2>3. x \in Loaded /\ x.pc # "idle" /\ x.user = s.user
    BY <1>0, <2>1, <2>2 DEF Loaded
  <2>4. /\ x.links = LinksOf(s.user) /\ x.name = s.name
        /\ x.grants = s.grants /\ x.perms = s.perms /\ x.known = s.known
    BY <1>0 DEF Loaded
  <2> HIDE DEF x, s
  <2>5. Current(was, s.user) /\ Backed(s, was)
    BY <1>1, <1>3, <2>1, <2>3
  <2>6. Backed(x, was)
    BY <2>4, <2>5 DEF Backed, Current
  <2> QED
    BY <1>1, <1>3, <2>1, <2>3, <2>6
<1>6. CASE LoadRoles(l)
  <2> DEFINE x == [s EXCEPT !.fresh = {i \in s.fresh : role[i] # NoName},
                            !.name = [i \in RoleIds |->
                               IF i \in s.fresh THEN role[i] ELSE s.name[i]]]
  <2>1. s.pc = "roles" /\ login' = [login EXCEPT ![l] = Proceed(x, "grants")]
    BY <1>6 DEF LoadRoles
  <2>2. \A i \in RoleIds : role[i] \in Names \cup {NoName}
    BY <1>0, RowTypes
  <2>3. x \in Loaded /\ x.pc # "idle" /\ x.user = s.user
    BY <1>0, <2>1, <2>2 DEF Loaded
  <2>4. /\ x.links = s.links /\ x.grants = s.grants
        /\ x.perms = s.perms /\ x.known = s.known
        /\ \A i \in RoleIds : x.name[i] \in {role[i], s.name[i]}
    BY <1>0 DEF Loaded
  <2> HIDE DEF x, s
  <2>5. Current(was, s.user) /\ Backed(s, was)
    BY <1>1, <1>3, <2>1, <2>3
  <2>6. \A i \in RoleIds : x.name[i] # NoName => <<i, x.name[i]>> \in was.names
    BY <2>4, <2>5 DEF Backed, Current
  <2>7. Backed(x, was)
    BY <2>4, <2>5, <2>6 DEF Backed
  <2> QED
    BY <1>1, <1>3, <2>1, <2>3, <2>7
<1>7. CASE LoadGrants(l)
  <2> DEFINE x == [s EXCEPT !.fresh = {i \in s.fresh : GrantsOf(i) # {}},
                            !.grants = [i \in RoleIds |->
                               IF i \in s.fresh THEN GrantsOf(i) ELSE s.grants[i]]]
  <2>1. s.pc = "grants" /\ login' = [login EXCEPT ![l] = Proceed(x, "perms")]
    BY <1>7 DEF LoadGrants
  <2>2. \A i : GrantsOf(i) \subseteq PermIds /\ \A p \in GrantsOf(i) : perm[p] \in PermNames
    BY <1>0, RowTypes
  <2>3. x \in Loaded /\ x.pc # "idle" /\ x.user = s.user
    BY <1>0, <2>1, <2>2 DEF Loaded
  <2>4. /\ x.links = s.links /\ x.name = s.name
        /\ x.perms = s.perms /\ x.known = s.known
        /\ \A i \in RoleIds : x.grants[i] \in {GrantsOf(i), s.grants[i]}
    BY <1>0 DEF Loaded
  <2> HIDE DEF x, s
  <2>5. Current(was, s.user) /\ Backed(s, was)
    BY <1>1, <1>3, <2>1, <2>3
  <2>6. ASSUME NEW i \in RoleIds, NEW p \in x.grants[i]
        PROVE  \E n \in PermNames : <<i, p, n>> \in was.grants
    <3>1. CASE p \in GrantsOf(i)
      BY <2>2, <2>5, <3>1 DEF Current
    <3>2. CASE p \in s.grants[i]
      BY <2>5, <3>2 DEF Backed
    <3> QED
      BY <2>4, <3>1, <3>2
  <2>7. Backed(x, was)
    BY <2>4, <2>5, <2>6 DEF Backed
  <2> QED
    BY <1>1, <1>3, <2>1, <2>3, <2>7
<1>8. CASE LoadPermissions(l)
  <2> DEFINE found == UNION {s.grants[i] : i \in s.fresh}
             known == [p \in PermIds |->
                         IF p \in found /\ s.known[p] = NoName THEN perm[p]
                         ELSE s.known[p]]
             Name(p) == IF perm[p] = NoName THEN NoName ELSE known[p]
             x == [s EXCEPT !.fresh = {}, !.known = known,
                            !.perms = [i \in RoleIds |->
                               IF i \in s.fresh THEN {Name(p) : p \in s.grants[i]}
                               ELSE s.perms[i]]]
  <2>1. s.pc = "perms" /\ login' = [login EXCEPT ![l] = Proceed(x, "perms")]
    BY <1>8 DEF LoadPermissions
  <2>2. \A p \in PermIds : perm[p] \in PermNames \cup {NoName}
    BY <1>0, RowTypes
  <2>3. known \in [PermIds -> PermNames \cup {NoName}]
    BY <1>0, <2>2 DEF Loaded
  <2>4. \A i \in RoleIds : s.grants[i] \subseteq PermIds
    BY <1>0 DEF Loaded
  <2>5. \A p \in PermIds : known[p] \in {perm[p], s.known[p]}
    OBVIOUS
  <2>6. \A p \in PermIds : Name(p) \in PermNames \cup {NoName} /\ Name(p) \in {known[p], NoName}
    BY <2>3
  <2> HIDE DEF known, Name
  <2>7. x \in Loaded /\ x.pc # "idle" /\ x.user = s.user
    <3> DEFINE perms == [i \in RoleIds |->
                 IF i \in s.fresh THEN {Name(p) : p \in s.grants[i]}
                 ELSE s.perms[i]]
    <3>1. \A i \in RoleIds : {Name(p) : p \in s.grants[i]} \subseteq PermNames \cup {NoName}
      BY <2>4, <2>6
    <3>2. perms \in [RoleIds -> SUBSET (PermNames \cup {NoName})]
      BY <1>0, <3>1 DEF Loaded
    <3>3. x = [s EXCEPT !.fresh = {}, !.known = known, !.perms = perms]
      OBVIOUS
    <3> HIDE DEF perms, x
    <3> QED
      BY <1>0, <2>1, <2>3, <3>2, <3>3 DEF Loaded
  <2>8. /\ x.links = s.links /\ x.name = s.name
        /\ x.grants = s.grants /\ x.known = known
        /\ \A i \in RoleIds : x.perms[i] \in {{Name(p) : p \in s.grants[i]}, s.perms[i]}
    BY <1>0 DEF Loaded
  <2> HIDE DEF x, s
  <2>9. Current(was, s.user) /\ Backed(s, was)
    BY <1>1, <1>3, <2>1, <2>7
  <2>10. \A p \in PermIds : known[p] # NoName => <<p, known[p]>> \in was.perms
    BY <2>5, <2>9 DEF Backed, Current
  (* The grant was of this name, but for a seeded id.                      *)
  <2>11. ASSUME NEW i \in RoleIds, NEW p \in s.grants[i], Name(p) # NoName
         PROVE  GrantSeen(i, Name(p), was)
    <3>1. p \in PermIds /\ Name(p) = known[p] /\ Name(p) \in PermNames
      BY <2>4, <2>6, <2>11
    <3>2. PICK m \in PermNames : <<i, p, m>> \in was.grants
      BY <2>9 DEF Backed
    <3>3. <<p, Name(p)>> \in was.perms
      BY <2>10, <2>11, <3>1
    <3>4. m = Name(p) \/ p <= Len(SeedPerms)
      <4>1. p \in Nat /\ Len(SeedPerms) \in Nat
        BY <3>1, SeedsOK, BoundsOK DEF PermIds
      <4>2. p > Len(SeedPerms) => m = Name(p)
        BY <3>1, <3>2, <3>3 DEF NamedOnce
      <4> QED
        BY <4>1, <4>2
    <3>5. <<i, p, m>>[1] = i /\ <<i, p, m>>[2] = p /\ <<i, p, m>>[3] = m
      OBVIOUS
    <3> QED
      BY <3>2, <3>3, <3>4, <3>5 DEF GrantSeen
  <2>12. \A i \in RoleIds : \A n \in x.perms[i] : n # NoName => GrantSeen(i, n, was)
    BY <2>8, <2>9, <2>11 DEF Backed
  <2>13. Backed(x, was)
    BY <2>8, <2>9, <2>10, <2>12 DEF Backed
  <2> QED
    BY <1>1, <1>3, <2>1, <2>7, <2>13
<1>9. ASSUME NEW t \in Tokens, IssueToken(l, t)
      PROVE  Kept(NewSession)
  BY <1>2, <1>9 DEF IssueToken, CloseSession
<1>10. CASE AbortLogin(l)
  BY <1>2, <1>10 DEF AbortLogin, CloseSession
<1> HIDE DEF Kept
<1> QED
  BY <1>4, <1>5, <1>6, <1>7, <1>8, <1>9, <1>10 DEF Enter

-----------------------------------------------------------------------------
(* The steps keep the invariant.                                           *)

LEMMA LoginUntouched ==
  ASSUME AccessInv, RbacInv', Observe \/ UNCHANGED accessVars,
         NEW l \in Logins, login'[l] = login[l]
  PROVE  SessionOK(login'[l]) /\ Backed(login'[l], seen'[l])
<1>1. SessionOK(login[l]) /\ Backed(login[l], seen[l])
  BY DEF AccessInv, LoginInv
<1>2. CASE UNCHANGED accessVars
  BY <1>1, <1>2 DEF accessVars
<1>3. CASE Observe /\ login'[l].pc = "idle"
  BY <1>1, <1>3, NewSessionOK DEF SessionOK
<1>4. CASE Observe /\ login'[l].pc # "idle"
  BY <1>1, <1>4, Observed, BackedGrown
<1> QED
  BY <1>2, <1>3, <1>4

LEMMA LoginStep ==
  ASSUME AccessInv, [AccessNext]_accessVars
  PROVE  LoginInv'
<1>0. RbacInv' /\ login \in [Logins -> Loaded]
  BY AccessRbacStep DEF AccessInv, LoginInv
<1>1. Observe \/ UNCHANGED accessVars
  BY AccessSteps
<1>2. SUFFICES /\ login' \in [Logins -> Loaded]
               /\ \A l \in Logins : /\ SessionOK(login'[l])
                                    /\ Backed(login'[l], seen'[l])
  BY NamedOnceStep DEF LoginInv
<1>3. CASE UNCHANGED login
  BY <1>0, <1>1, <1>3, LoginUntouched
<1>4. ASSUME NEW k \in Logins, Enter(k), UNCHANGED rbacVars, Observe
      PROVE  /\ login' \in [Logins -> Loaded]
             /\ \A l \in Logins : /\ SessionOK(login'[l])
                                  /\ Backed(login'[l], seen'[l])
  <2>1. PICK s : /\ login' = [login EXCEPT ![k] = s]
                 /\ SessionOK(s) /\ Backed(s, seen'[k])
    BY <1>0, <1>4, EnterStep, NamedOnceStep
  <2>2. login' \in [Logins -> Loaded]
    BY <1>0, <2>1 DEF SessionOK
  <2>3. ASSUME NEW l \in Logins, l # k
        PROVE  SessionOK(login'[l]) /\ Backed(login'[l], seen'[l])
    BY <1>0, <1>4, <2>1, <2>3, LoginUntouched
  <2>4. SessionOK(login'[k]) /\ Backed(login'[k], seen'[k])
    BY <1>0, <2>1
  <2> QED
    BY <2>2, <2>3, <2>4
<1>5. CASE UNCHANGED accessVars
  BY <1>3, <1>5 DEF accessVars
<1> QED
  BY <1>1, <1>3, <1>4, <1>5, AccessSteps

LEMMA TokenStep ==
  ASSUME AccessInv, [AccessNext]_accessVars
  PROVE  TokenInv'
<1>0. /\ token \in [Tokens -> Token]
      /\ \A t \in Tokens : token[t].user \in Users <=> token[t].left > 0
      /\ login \in [Logins -> Loaded]
      /\ \A l \in Logins : SessionOK(login[l])
  BY DEF AccessInv, TokenInv, LoginInv
<1>1. NoToken \in Token /\ ~(NoToken.left > 0) /\ NoToken.user \notin Users
  BY LifetimeOK, NullsAreOutside DEF NoToken, Token
<1>2. CASE UNCHANGED token
  BY <1>0, <1>2 DEF TokenInv
(* A token that is issued carries names, and its whole lifetime.           *)
<1>3. ASSUME NEW l \in Logins, NEW t \in Tokens, IssueToken(l, t)
      PROVE  TokenInv'
  <2> DEFINE s == login[l]
  <2>1. s \in Loaded /\ s.user \in Users
    BY <1>0, <1>3 DEF IssueToken, SessionOK
  <2>2. CASE NoName \in RoleNamesIn(s) \cup PermNamesIn(s)
    BY <1>2, <1>3, <2>2 DEF IssueToken
  <2>3. CASE NoName \notin RoleNamesIn(s) \cup PermNamesIn(s)
    <3>1. token' = [token EXCEPT ![t] = RightsIn(s)]
      BY <1>3, <2>3 DEF IssueToken
    <3>2. RoleNamesIn(s) \subseteq Names
      BY <2>1, <2>3 DEF RoleNamesIn, Loaded
    <3>3. PermNamesIn(s) \subseteq PermNames
      BY <2>1, <2>3 DEF PermNamesIn, Loaded
    <3> HIDE DEF s
    <3>4. RightsIn(s) \in Token /\ RightsIn(s).user \in Users /\ RightsIn(s).left > 0
      BY <2>1, <3>2, <3>3, LifetimeOK DEF RightsIn, Token
    <3> QED
      BY <1>0, <3>1, <3>4 DEF TokenInv
  <2> QED
    BY <2>2, <2>3
<1>4. CASE Tick
  <2>1. ASSUME NEW t \in Tokens
        PROVE  /\ token'[t] \in Token
               /\ token'[t].user \in Users <=> token'[t].left > 0
    <3>1. token[t] \in Token /\ token[t].left \in Nat
      BY <1>0, LifetimeOK DEF Token
    <3>2. CASE token[t].left > 1
      <4> DEFINE x == [token[t] EXCEPT !.left = @ - 1]
      <4>1. token'[t] = x
        BY <1>4, <3>2 DEF Tick
      <4>2. x \in Token /\ x.user = token[t].user /\ x.left > 0
        BY <3>1, <3>2, LifetimeOK DEF Token
      <4>3. token[t].user \in Users
        BY <1>0, <3>1, <3>2
      <4> QED
        BY <4>1, <4>2, <4>3
    <3>3. CASE ~(token[t].left > 1)
      BY <1>1, <1>4, <3>3 DEF Tick
    <3> QED
      BY <3>2, <3>3
  <2>2. token' = [t \in Tokens |-> token'[t]]
    BY <1>4 DEF Tick
  <2> QED
    BY <2>1, <2>2 DEF TokenInv
<1> QED
  BY <1>2, <1>3, <1>4, AccessSteps

LEMMA AccessInvStep == AccessInv /\ [AccessNext]_accessVars => AccessInv'
<1> SUFFICES ASSUME AccessInv, [AccessNext]_accessVars PROVE AccessInv'
  OBVIOUS
<1>1. active' \in [Users -> BOOLEAN]
  BY AccessSteps DEF AccessInv, SoftDeleteUser
<1> QED
  BY <1>1, AccessRbacStep, LoginStep, TokenStep DEF AccessInv

LEMMA AccessInvGives == AccessInv => AccessTypeOK /\ RightsObserved
<1> SUFFICES ASSUME AccessInv PROVE AccessTypeOK /\ RightsObserved
  OBVIOUS
<1>1. AccessTypeOK
  BY RbacInvGives DEF AccessInv, LoginInv, TokenInv, AccessTypeOK
<1>2. ASSUME NEW l \in Logins,
             NoName \notin RoleNamesIn(login[l]) \cup PermNamesIn(login[l])
      PROVE  /\ login[l].links \subseteq seen[l].links
             /\ \A i \in login[l].links :
                  /\ <<i, login[l].name[i]>> \in seen[l].names
                  /\ \A n \in login[l].perms[i] : GrantSeen(i, n, seen[l])
  <2>1. Backed(login[l], seen[l]) /\ login[l].links \subseteq RoleIds
    BY DEF AccessInv, LoginInv, Loaded
  <2>2. ASSUME NEW i \in login[l].links
        PROVE  /\ login[l].name[i] # NoName
               /\ NoName \notin login[l].perms[i]
    BY <1>2, <2>2 DEF RoleNamesIn, PermNamesIn
  <2> QED
    BY <2>1, <2>2 DEF Backed
<1> QED
  BY <1>1, <1>2 DEF RightsObserved

-----------------------------------------------------------------------------
(* What lasted through the login so far is in the session, but for what it *)
(* has still to load.                                                      *)

Complete(s, was) ==
  s.pc # "idle" =>
    /\ was.held \subseteq LinksOf(s.user)
    /\ s.pc # "links" =>
         \A i \in was.held :
           /\ i \in s.links
           /\ s.name[i] # NoName \/ (s.pc = "roles" /\ i \in s.fresh)
    /\ \A i \in RoleIds, p \in PermIds : <<i, p>> \in was.kept =>
         /\ p \in GrantsOf(i)
         /\ s.known[p] \in {NoName, perm[p]}
         /\ s.name[i] # NoName =>
              /\ p \in s.grants[i] \/ (s.pc = "grants" /\ i \in s.fresh)
              /\ \/ perm[p] \in s.perms[i]
                 \/ s.pc \in {"grants", "perms"} /\ i \in s.fresh

CompleteInv == \A l \in Logins : Complete(login[l], seen[l])

LEMMA RowsExist ==
  RbacInv => /\ \A u : \A i \in LinksOf(u) : i \in RoleIds /\ role[i] # NoName
             /\ \A i : \A p \in GrantsOf(i) : p \in PermIds /\ perm[p] # NoName
<1> SUFFICES ASSUME RbacInv
             PROVE  /\ \A u : \A i \in LinksOf(u) : i \in RoleIds /\ role[i] # NoName
                    /\ \A i : \A p \in GrantsOf(i) : p \in PermIds /\ perm[p] # NoName
  OBVIOUS
<1>1. ASSUME NEW x \in RowIds, HasRow(userRole, x)
      PROVE  role[userRole[x].role] # NoName
  BY <1>1 DEF RbacInv, UserRoleInv, HasRow
<1>2. ASSUME NEW x \in GrantIds, HasRow(rolePerm, x)
      PROVE  perm[rolePerm[x].perm] # NoName
  BY <1>2 DEF RbacInv, RolePermInv, HasRow
<1>3. \A u : \A i \in LinksOf(u) : role[i] # NoName
  BY <1>1 DEF LinksOf
<1>4. \A i : \A p \in GrantsOf(i) : perm[p] # NoName
  BY <1>2 DEF GrantsOf
<1> QED
  BY <1>3, <1>4, RowTypes

LEMMA Lasted ==
  ASSUME Observe, NEW l \in Logins, login'[l].pc # "idle"
  PROVE  /\ seen'[l].held \subseteq LinksOf(login[l].user)'
         /\ \A i \in RoleIds, p \in PermIds :
              <<i, p>> \in seen'[l].kept => p \in GrantsOf(i)'
         /\ login[l].pc # "idle" => /\ seen'[l].held \subseteq seen[l].held
                                    /\ seen'[l].kept \subseteq seen[l].kept
<1>1. /\ seen'[l].held = {i \in LinksOf(login[l].user)' :
                            login[l].pc = "idle" \/ i \in seen[l].held}
      /\ seen'[l].kept = {h \in RoleIds \X PermIds :
                            /\ h[2] \in GrantsOf(h[1])'
                            /\ login[l].pc = "idle" \/ h \in seen[l].kept}
  BY DEF Observe
<1> QED
  BY <1>1

(* A permission that lasts keeps its name.                                 *)
LEMMA LastingName ==
  ASSUME AccessInv, [AccessNext]_accessVars, NEW i \in RoleIds,
         NEW p \in GrantsOf(i), p \in GrantsOf(i)'
  PROVE  p \in PermIds /\ perm'[p] = perm[p]
<1>1. RbacInv /\ RbacInv'
  BY AccessRbacStep DEF AccessInv
<1>2. p \in PermIds /\ perm[p] # NoName
  BY <1>1, RowsExist
<1>3. perm'[p] # NoName
  <2>1. ASSUME NEW x \in GrantIds, HasRow(rolePerm, x)'
        PROVE  perm'[rolePerm'[x].perm] # NoName
    BY <1>1, <2>1 DEF RbacInv, RolePermInv, HasRow
  <2> QED
    BY <2>1 DEF GrantsOf
<1>4. CASE [RbacNext]_rbacVars
  BY <1>1, <1>2, <1>3, <1>4, PermDrawn
<1>5. CASE UNCHANGED Tables
  BY <1>2, <1>5 DEF Tables, catalog
<1> QED
  BY <1>4, <1>5, AccessRbacStep

LEMMA CompleteUntouched ==
  ASSUME AccessInv, [AccessNext]_accessVars, Observe, NEW l \in Logins,
         Complete(login[l], seen[l]), login'[l] = login[l]
  PROVE  Complete(login[l], seen[l])'
<1> SUFFICES ASSUME login[l].pc # "idle" PROVE Complete(login[l], seen[l])'
  BY DEF Complete
<1>1. /\ seen'[l].held \subseteq LinksOf(login[l].user)'
      /\ \A i \in RoleIds, p \in PermIds :
           <<i, p>> \in seen'[l].kept => p \in GrantsOf(i)'
      /\ seen'[l].held \subseteq seen[l].held
      /\ seen'[l].kept \subseteq seen[l].kept
  BY Lasted
<1>2. ASSUME NEW i \in RoleIds, NEW p \in PermIds, <<i, p>> \in seen'[l].kept
      PROVE  p \in GrantsOf(i)' /\ perm'[p] = perm[p]
  BY <1>1, <1>2, LastingName DEF Complete
<1> QED
  BY <1>1, <1>2 DEF Complete

LEMMA ProceedComplete ==
  ASSUME NEW s \in Loaded, NEW pc \in {"roles", "grants", "perms"}, NEW was,
         Complete([s EXCEPT !.pc = pc], was)
  PROVE  Complete(Proceed(s, pc), was)
<1> DEFINE x == [s EXCEPT !.pc = pc]
           y == Proceed(s, pc)
<1>1. /\ x.pc = pc /\ x.fresh = s.fresh /\ x.user = s.user /\ x.links = s.links
      /\ x.name = s.name /\ x.grants = s.grants
      /\ x.perms = s.perms /\ x.known = s.known
  BY DEF Loaded
<1>2. /\ y.fresh = s.fresh /\ y.user = s.user /\ y.links = s.links
      /\ y.name = s.name /\ y.grants = s.grants
      /\ y.perms = s.perms /\ y.known = s.known
      /\ y.pc = pc \/ s.fresh = {}
  BY DEF Proceed, Loaded
<1>3. Complete(x, was)
  OBVIOUS
<1> HIDE DEF x, y
<1>4. Complete(y, was)
  <2>1. CASE y.pc = pc
    BY <1>1, <1>2, <1>3, <2>1 DEF Complete
  <2>2. CASE s.fresh = {}
    BY <1>1, <1>2, <1>3, <2>2 DEF Complete
  <2> QED
    BY <1>2, <2>1, <2>2
<1> QED
  BY <1>4 DEF y

LEMMA CompleteEnter ==
  ASSUME AccessInv, RbacInv', Observe, UNCHANGED rbacVars, NEW l \in Logins,
         Complete(login[l], seen[l]), Enter(l)
  PROVE  Complete(login[l], seen[l])'
<1> DEFINE s   == login[l]
           was == seen'[l]
<1>0. RbacInv /\ login \in [Logins -> Loaded] /\ s \in Loaded /\ SessionOK(s)
  BY DEF AccessInv, LoginInv
<1>1. UNCHANGED <<role, perm, userRole, rolePerm>>
  BY DEF rbacVars, catalog, links
<1>2. SUFFICES Complete(login'[l], was)
  <2>1. /\ \A u : LinksOf(u)' = LinksOf(u)
        /\ LinksOf(login[l].user)' = LinksOf(login'[l].user)
        /\ \A i : GrantsOf(i)' = GrantsOf(i)
    BY <1>1 DEF LinksOf, GrantsOf, HasRow
  <2> QED
    BY <1>1, <2>1 DEF Complete
<1>3. CASE login'[l].pc = "idle"
  BY <1>3 DEF Complete
(* What lasted, if the login goes on.                                      *)
<1>4. ASSUME login'[l].pc # "idle"
      PROVE  /\ was.held \subseteq LinksOf(login'[l].user)
             /\ \A i \in was.held : i \in RoleIds /\ role[i] # NoName
             /\ \A i \in RoleIds, p \in PermIds : <<i, p>> \in was.kept =>
                  p \in GrantsOf(i) /\ perm[p] # NoName
             /\ s.pc # "idle" => /\ was.held \subseteq seen[l].held
                                 /\ was.kept \subseteq seen[l].kept
  <2>1. /\ LinksOf(login[l].user)' = LinksOf(login'[l].user)
        /\ \A i : GrantsOf(i)' = GrantsOf(i)
    BY <1>1 DEF LinksOf, GrantsOf, HasRow
  <2> QED
    BY <1>0, <1>4, <2>1, Lasted, RowsExist
<1>5. ASSUME NEW u \in Users, LoadUser(l, u)
      PROVE  Complete(login'[l], was)
  <2>1. s = NewSession
    BY <1>0, <1>5 DEF LoadUser, SessionOK
  <2>2. login'[l] = [s EXCEPT !.pc = "links", !.user = u]
    BY <1>0, <1>5 DEF LoadUser
  <2>3. /\ login'[l].pc = "links"
        /\ \A i \in RoleIds : login'[l].name[i] = NoName
        /\ \A p \in PermIds : login'[l].known[p] = NoName
    BY <2>1, <2>2 DEF NewSession
  <2> QED
    BY <1>4, <2>3 DEF Complete
<1>6. CASE LoadLinks(l)
  <2> DEFINE x == [s EXCEPT !.links = LinksOf(s.user),
                            !.fresh = {i \in LinksOf(s.user) : s.name[i] = NoName}]
             y == [x EXCEPT !.pc = "roles"]
  <2>1. s.pc = "links" /\ login'[l] = Proceed(x, "roles")
    BY <1>0, <1>6 DEF LoadLinks
  <2>2. LinksOf(s.user) \subseteq RoleIds
    BY <1>0, RowTypes
  <2>3. x \in Loaded /\ x.user = s.user
    BY <1>0, <2>2 DEF Loaded
  <2>4. /\ y.pc = "roles" /\ y.user = s.user /\ y.links = LinksOf(s.user)
        /\ y.fresh = {i \in LinksOf(s.user) : s.name[i] = NoName}
        /\ y.name = s.name /\ y.grants = s.grants
        /\ y.perms = s.perms /\ y.known = s.known
    BY <1>0 DEF Loaded
  <2>5. login'[l].pc # "idle" /\ login'[l].user = s.user
    BY <2>1, <2>3, ProceedKeeps
  <2> HIDE DEF x, y, s, was
  <2>6. Complete(y, was)
    BY <1>4, <2>1, <2>4, <2>5 DEF Complete, s, was
  <2> QED
    BY <2>1, <2>3, <2>6, ProceedComplete DEF y
<1>7. CASE LoadRoles(l)
  <2> DEFINE x == [s EXCEPT !.fresh = {i \in s.fresh : role[i] # NoName},
                            !.name = [i \in RoleIds |->
                               IF i \in s.fresh THEN role[i] ELSE s.name[i]]]
             y == [x EXCEPT !.pc = "grants"]
  <2>1. s.pc = "roles" /\ login'[l] = Proceed(x, "grants")
    BY <1>0, <1>7 DEF LoadRoles
  <2>2. \A i \in RoleIds : role[i] \in Names \cup {NoName}
    BY <1>0, RowTypes
  <2>3. x \in Loaded /\ x.user = s.user
    BY <1>0, <2>2 DEF Loaded
  <2>4. /\ y.pc = "grants" /\ y.user = s.user /\ y.links = s.links
        /\ y.fresh = {i \in s.fresh : role[i] # NoName}
        /\ \A i \in RoleIds :
             y.name[i] = IF i \in s.fresh THEN role[i] ELSE s.name[i]
        /\ y.grants = s.grants /\ y.perms = s.perms /\ y.known = s.known
    BY <1>0 DEF Loaded
  <2>5. login'[l].pc # "idle" /\ login'[l].user = s.user
    BY <2>1, <2>3, ProceedKeeps
  <2> HIDE DEF x, y, s, was
  <2>6. Complete(y, was)
    BY <1>4, <2>1, <2>4, <2>5 DEF Complete, s, was
  <2> QED
    BY <2>1, <2>3, <2>6, ProceedComplete DEF y
<1>8. CASE LoadGrants(l)
  <2> DEFINE x == [s EXCEPT !.fresh = {i \in s.fresh : GrantsOf(i) # {}},
                            !.grants = [i \in RoleIds |->
                               IF i \in s.fresh THEN GrantsOf(i) ELSE s.grants[i]]]
             y == [x EXCEPT !.pc = "perms"]
  <2>1. s.pc = "grants" /\ login'[l] = Proceed(x, "perms")
    BY <1>0, <1>8 DEF LoadGrants
  <2>2. \A i : GrantsOf(i) \subseteq PermIds
    BY <1>0, RowTypes
  <2>3. x \in Loaded /\ x.user = s.user
    BY <1>0, <2>2 DEF Loaded
  <2>4. /\ y.pc = "perms" /\ y.user = s.user /\ y.links = s.links
        /\ y.fresh = {i \in s.fresh : GrantsOf(i) # {}}
        /\ \A i \in RoleIds :
             y.grants[i] = IF i \in s.fresh THEN GrantsOf(i) ELSE s.grants[i]
        /\ y.name = s.name /\ y.perms = s.perms /\ y.known = s.known
    BY <1>0 DEF Loaded
  <2>5. login'[l].pc # "idle" /\ login'[l].user = s.user
    BY <2>1, <2>3, ProceedKeeps
  <2> HIDE DEF x, y, s, was
  <2>6. Complete(y, was)
    BY <1>4, <2>1, <2>4, <2>5 DEF Complete, s, was
  <2> QED
    BY <2>1, <2>3, <2>6, ProceedComplete DEF y
<1>9. CASE LoadPermissions(l)
  <2> DEFINE found == UNION {s.grants[i] : i \in s.fresh}
             known == [p \in PermIds |->
                         IF p \in found /\ s.known[p] = NoName THEN perm[p]
                         ELSE s.known[p]]
             Name(p) == IF perm[p] = NoName THEN NoName ELSE known[p]
             perms == [i \in RoleIds |->
                         IF i \in s.fresh THEN {Name(p) : p \in s.grants[i]}
                         ELSE s.perms[i]]
             x == [s EXCEPT !.fresh = {}, !.known = known, !.perms = perms]
             y == [x EXCEPT !.pc = "perms"]
  <2>1. s.pc = "perms" /\ login'[l] = Proceed(x, "perms")
    BY <1>0, <1>9 DEF LoadPermissions
  <2>2. \A p \in PermIds : perm[p] \in PermNames \cup {NoName}
    BY <1>0, RowTypes
  <2>3. known \in [PermIds -> PermNames \cup {NoName}]
    BY <1>0, <2>2 DEF Loaded
  <2>4. \A i \in RoleIds : s.grants[i] \subseteq PermIds
    BY <1>0 DEF Loaded
  <2>5. \A p \in PermIds :
          /\ known[p] \in {perm[p], s.known[p]}
          /\ p \in found => known[p] # NoName \/ perm[p] = NoName
    OBVIOUS
  <2>6. \A i \in RoleIds : \A p \in s.grants[i] :
          /\ perm[p] # NoName => Name(p) = known[p]
          /\ Name(p) \in PermNames \cup {NoName}
    BY <2>3, <2>4
  <2> HIDE DEF known, Name
  <2>7. /\ perms \in [RoleIds -> SUBSET (PermNames \cup {NoName})]
        /\ \A i \in RoleIds : i \in s.fresh =>
             /\ perms[i] = {Name(p) : p \in s.grants[i]}
             /\ s.grants[i] \subseteq found
        /\ \A i \in RoleIds : i \notin s.fresh => perms[i] = s.perms[i]
    BY <1>0, <2>6 DEF Loaded
  <2> HIDE DEF perms, found
  <2>8. x \in Loaded /\ x.user = s.user
    BY <1>0, <2>3, <2>7 DEF Loaded
  <2>9. /\ y.pc = "perms" /\ y.user = s.user /\ y.links = s.links
        /\ y.fresh = {} /\ y.name = s.name /\ y.grants = s.grants
        /\ y.perms = perms /\ y.known = known
    BY <1>0 DEF Loaded
  <2>10. login'[l].pc # "idle" /\ login'[l].user = s.user
    BY <2>1, <2>8, ProceedKeeps
  <2> HIDE DEF x, y, s, was
  <2>11. ASSUME NEW i \in RoleIds, NEW p \in PermIds, <<i, p>> \in was.kept
         PROVE  /\ p \in GrantsOf(i) /\ known[p] \in {NoName, perm[p]}
                /\ s.name[i] # NoName =>
                     p \in s.grants[i] /\ perm[p] \in perms[i]
    <3>1. /\ p \in GrantsOf(i) /\ perm[p] # NoName
          /\ s.known[p] \in {NoName, perm[p]}
          /\ s.name[i] # NoName =>
               p \in s.grants[i] /\ (perm[p] \in s.perms[i] \/ i \in s.fresh)
      BY <1>4, <2>1, <2>10, <2>11 DEF Complete, s, was
    <3>2. known[p] \in {NoName, perm[p]}
      BY <2>5, <3>1
    <3>3. ASSUME i \in s.fresh, s.name[i] # NoName PROVE perm[p] \in perms[i]
      <4>1. known[p] = perm[p]
        BY <2>5, <2>7, <3>1, <3>2, <3>3
      <4> QED
        BY <2>6, <2>7, <3>1, <3>3, <4>1
    <3> QED
      BY <2>7, <3>1, <3>2, <3>3
  <2>12. /\ was.held \subseteq LinksOf(s.user)
         /\ \A i \in was.held : i \in s.links /\ s.name[i] # NoName
    BY <1>4, <2>1, <2>10 DEF Complete, s, was
  <2>13. Complete(y, was)
    BY <2>9, <2>11, <2>12 DEF Complete
  <2> QED
    BY <2>1, <2>8, <2>13, ProceedComplete DEF y
<1>10. ASSUME NEW t \in Tokens, IssueToken(l, t)
       PROVE  login'[l].pc = "idle"
  BY <1>0, <1>10, NewSessionOK DEF IssueToken, CloseSession
<1>11. CASE AbortLogin(l)
  BY <1>0, <1>3, <1>11, NewSessionOK DEF AbortLogin, CloseSession
<1> QED
  BY <1>3, <1>5, <1>6, <1>7, <1>8, <1>9, <1>10, <1>11 DEF Enter

LEMMA CompleteStep ==
  AccessInv /\ CompleteInv /\ [AccessNext]_accessVars => CompleteInv'
<1> SUFFICES ASSUME AccessInv, CompleteInv, [AccessNext]_accessVars,
                    NEW l \in Logins
             PROVE  Complete(login[l], seen[l])'
  BY DEF CompleteInv
<1>0. RbacInv' /\ login \in [Logins -> Loaded] /\ Complete(login[l], seen[l])
  BY AccessRbacStep DEF AccessInv, LoginInv, CompleteInv
<1>1. CASE UNCHANGED accessVars
  BY <1>0, <1>1 DEF accessVars, rbacVars, catalog, links, Complete,
                    LinksOf, GrantsOf, HasRow
<1>2. CASE Observe /\ login'[l] = login[l]
  BY <1>0, <1>2, CompleteUntouched
<1>3. ASSUME Observe, NEW k \in Logins, Enter(k), UNCHANGED rbacVars,
             login'[l] # login[l]
      PROVE  Complete(login[l], seen[l])'
  <2>1. k = l
    BY <1>0, <1>3, AccessInvStep, EnterStep, NamedOnceStep
  <2> QED
    BY <1>0, <1>3, <2>1, CompleteEnter
<1> QED
  BY <1>1, <1>2, <1>3, AccessSteps

LEMMA CompleteGives == AccessInv /\ CompleteInv => RightsComplete
<1> SUFFICES ASSUME AccessInv, NEW l \in Logins, Complete(login[l], seen[l]),
                    login[l].pc = "issue", NEW i \in seen[l].held
             PROVE  /\ i \in login[l].links /\ login[l].name[i] # NoName
                    /\ \A p \in PermIds : <<i, p>> \in seen[l].kept =>
                         perm[p] # NoName /\ perm[p] \in login[l].perms[i]
  BY DEF RightsComplete, CompleteInv
<1>1. i \in RoleIds /\ i \in login[l].links /\ login[l].name[i] # NoName
  BY RowsExist DEF Complete, AccessInv
<1> QED
  BY <1>1, RowsExist DEF Complete, AccessInv

LEMMA AccessInvariant == AccessSpec => []AccessInv
BY AccessInvInit, AccessInvStep, PTL DEF AccessSpec

(***************************************************************************)
(* Types: the tables of Rbac stay well-formed while logins read and        *)
(* accounts are deleted; a token that is valid names its user, carries no  *)
(* None of a role or permission that was missing, and runs out in time.    *)
(***************************************************************************)
THEOREM AccessTypes == AccessSpec => []AccessTypeOK
BY AccessInvariant, AccessInvGives, PTL

(***************************************************************************)
(* No token gives a right that was gone before its login began, and only a *)
(* seeded permission id that was deleted and drawn again can put into it a *)
(* name the grant never had.                                               *)
(***************************************************************************)
THEOREM Rights == AccessSpec => []RightsObserved
BY AccessInvariant, AccessInvGives, PTL

(***************************************************************************)
(* A token has every right that was there from the begin of its login to   *)
(* its issue, and no such right is the None that ends a login.             *)
(***************************************************************************)
THEOREM RightsWhole == AccessSpec => []RightsComplete
<1>1. AccessInit => CompleteInv
  BY NewSessionOK DEF AccessInit, CompleteInv, Complete
<1>2. AccessSpec => []CompleteInv
  BY <1>1, AccessInvariant, CompleteStep, PTL DEF AccessSpec
<1> QED
  BY <1>2, AccessInvariant, CompleteGives, PTL

(***************************************************************************)
(* What Rbac's requests keep they keep beside logins and account deletion: *)
(* the default roles stay, and an admin assignment an administrator did    *)
(* not make is of an account registered as one.                            *)
(***************************************************************************)
THEOREM TablesStay == AccessSpec => [](DefaultRolesKept /\ AdminsExplained)
<1>1. AccessInv => DefaultRolesKept /\ AdminsExplained
  BY RbacInvGives DEF AccessInv, RbacInv, RoleInv
<1> QED
  BY <1>1, AccessInvariant, PTL

=============================================================================
