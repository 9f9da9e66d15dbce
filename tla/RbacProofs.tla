----------------------------- MODULE RbacProofs -----------------------------
(***************************************************************************)
(* Proofs about Rbac, for any users, request slots, names, seeds and       *)
(* bounds.  The seeded rows never move, so what a registration has found   *)
(* stays true of the role it is about to assign; the invariant says so of  *)
(* every slot and of every row.                                            *)
(***************************************************************************)
EXTENDS Rbac, TLAPS

Seeded == Len(SeedRoles)

(* After create_user, until the role is given.                             *)
Registers == {"verify_admin", "find_role", "insert_assignment"}

(* What a request has made sure of, and no later step takes away.          *)
Sure(s) ==
  /\ s.pc \in {"rename_role", "delete_role"} => s.role > Seeded
  /\ s.pc \in Registers => s.user \in registered
  /\ s.pc \in {"create_user", "verify_admin", "find_role"} =>
       s.name \in {DefaultName, AdminName}
  /\ s.pc \in Registers /\ s.name # NoName =>
       s.name \in DefaultNames /\ origin[s.user] = s.name
  /\ s.pc = "insert_assignment" /\ s.name # NoName =>
       s.role <= Seeded /\ SeedRoles[s.role] = s.name
  /\ s.pc = "delete_assignment" => userRole[s.row] # NoRow
  /\ s.pc = "delete_grant" => rolePerm[s.row] # NoRow

SlotInv ==
  /\ req \in [Requests -> Slot]
  /\ \A r \in Requests : SlotOK(req[r]) /\ Sure(req[r])

AccountInv ==
  /\ registered \in SUBSET Users
  /\ verified \in SUBSET registered
  /\ origin \in [Users -> DefaultNames \cup {NoName}]
  /\ \A u \in registered : origin[u] \in DefaultNames
  /\ torn \in SUBSET Users

NamesUnique ==
  \A i, k \in RoleIds : role[i] = role[k] /\ role[i] # NoName => i = k

(* Above the sequence only seeded ids are taken.                           *)
RoleInv ==
  /\ role \in [RoleIds -> Names \cup {NoName}]
  /\ nextRole \in 1 .. MaxRoles + 1
  /\ NamesUnique
  /\ DefaultRolesKept
  /\ \A i \in RoleIds : i >= nextRole /\ role[i] # NoName => i <= Seeded
  /\ collisions \in Nat /\ collisions < nextRole /\ collisions <= Seeded

PermInv ==
  /\ perm \in [PermIds -> PermNames \cup {NoName}]
  /\ nextPerm \in 1 .. MaxPerms + 1
  /\ \A p \in PermIds :
       p >= nextPerm /\ perm[p] # NoName => p <= Len(SeedPerms)

(* A row that a registration inserted is one of the role it is to give.    *)
UserRoleInv ==
  /\ userRole \in [RowIds -> Assignment \cup {NoRow}]
  /\ \A x \in RowIds : HasRow(userRole, x) =>
        role[userRole[x].role] # NoName /\ userRole[x].user \in registered
  /\ \A x \in RowIds : userRole[x] # NoRow => userRole[x].user \in registered
  /\ \A x \in RowIds : userRole[x] # NoRow /\ userRole[x].by = "registration" =>
        /\ userRole[x].role <= Seeded
        /\ origin[userRole[x].user] = SeedRoles[userRole[x].role]

RolePermInv ==
  /\ rolePerm \in [GrantIds -> Grant \cup {NoRow}]
  /\ \A x \in GrantIds : HasRow(rolePerm, x) =>
        role[rolePerm[x].role] # NoName /\ perm[rolePerm[x].perm] # NoName

RbacInv ==
  SlotInv /\ AccountInv /\ RoleInv /\ PermInv /\ UserRoleInv /\ RolePermInv

-----------------------------------------------------------------------------
LEMMA Seeds ==
  /\ Seeded \in Nat /\ Seeded <= MaxRoles
  /\ \A i \in 1 .. Seeded :
       i \in RoleIds /\ SeedRoles[i] \in Names /\ SeedRoles[i] \in DefaultNames
  /\ \A n \in DefaultNames : \E i \in 1 .. Seeded : SeedRoles[i] = n
  /\ \A i, k \in 1 .. Seeded : SeedRoles[i] = SeedRoles[k] => i = k
  /\ DefaultNames \subseteq Names
  /\ AdminName \in DefaultNames /\ DefaultName \in DefaultNames
  /\ NoName \notin Names /\ NoName \notin DefaultNames
<1>1. Seeded \in Nat /\ Seeded <= MaxRoles
  BY SeedsOK DEF Seeded
<1>2. \A i \in 1 .. Seeded :
        i \in RoleIds /\ SeedRoles[i] \in Names /\ SeedRoles[i] \in DefaultNames
  BY <1>1, SeedsOK, BoundsOK DEF Seeded, RoleIds, DefaultNames
<1>3. \A n \in DefaultNames : \E i \in 1 .. Seeded : SeedRoles[i] = n
  BY DEF Seeded, DefaultNames
<1>4. \A i, k \in 1 .. Seeded : SeedRoles[i] = SeedRoles[k] => i = k
  BY SeedsOK DEF Seeded
<1>5. DefaultNames \subseteq Names
  BY <1>2, <1>3
<1>6. NoName \notin Names
  BY NullsAreOutside
<1> QED
  BY <1>1, <1>2, <1>3, <1>4, <1>5, <1>6, SeedsOK

LEMMA IdleType == Idle \in Slot /\ SlotOK(Idle) /\ Sure(Idle)
BY DEF Idle, Slot, PCs, SlotOK, Sure, Registers

(* Ids keep their default names, so a default name is nowhere else.        *)
LEMMA DefaultsUsed ==
  ASSUME RoleInv
  PROVE  /\ \A n \in DefaultNames : RoleNameUsed(n)
         /\ \A i \in 1 .. Seeded : role[i] = SeedRoles[i]
         /\ \A i \in RoleIds : i > Seeded => role[i] \notin DefaultNames
         /\ \A i \in RoleIds : role[i] \notin DefaultNames => i > Seeded
<1>1. \A i \in RoleIds : i \in Nat
  BY BoundsOK DEF RoleIds
<1>2. \A i \in 1 .. Seeded : role[i] = SeedRoles[i]
  BY Seeds DEF RoleInv, DefaultRolesKept, Seeded
<1>3. \A n \in DefaultNames : RoleNameUsed(n)
  BY <1>2, Seeds DEF RoleNameUsed
<1>4. \A i \in RoleIds : i > Seeded => role[i] \notin DefaultNames
  BY <1>1, Seeds DEF RoleInv, DefaultRolesKept, Seeded
<1>5. \A i \in RoleIds : i <= Seeded => i \in 1 .. Seeded
  BY Seeds, BoundsOK DEF RoleIds
<1>6. \A i \in RoleIds : role[i] \notin DefaultNames => i > Seeded
  BY <1>1, <1>2, <1>5, Seeds
<1> QED
  BY <1>2, <1>3, <1>4, <1>6

(* The tables that the migrations fill.                                    *)
LEMMA MigratedInv ==
  Migrated /\ Quiet => SlotInv /\ RoleInv /\ PermInv /\ RolePermInv
<1> SUFFICES ASSUME Migrated, Quiet
             PROVE  SlotInv /\ RoleInv /\ PermInv /\ RolePermInv
  OBVIOUS
<1>1. RoleInv
  <2>1. role = [i \in RoleIds |-> IF i <= Seeded THEN SeedRoles[i] ELSE NoName]
        /\ nextRole = 1 /\ collisions = 0
    BY DEF Migrated, Quiet, Seeded
  <2>2. \A i \in RoleIds : i <= Seeded => i \in 1 .. Seeded
    BY Seeds, BoundsOK DEF RoleIds
  <2>3. role \in [RoleIds -> Names \cup {NoName}]
    BY <2>1, <2>2, Seeds
  <2>4. NamesUnique
    BY <2>1, <2>2, Seeds DEF NamesUnique
  <2>5. DefaultRolesKept
    BY <2>1, Seeds DEF DefaultRolesKept, Seeded
  <2>6. nextRole \in 1 .. MaxRoles + 1 /\ collisions \in Nat
        /\ collisions < nextRole /\ collisions <= Seeded
    BY <2>1, BoundsOK, Seeds
  <2> QED
    BY <2>1, <2>3, <2>4, <2>5, <2>6 DEF RoleInv
<1>2. PermInv
  BY SeedsOK, BoundsOK DEF Migrated, PermInv, PermIds
<1>3. RolePermInv
  <2> DEFINE g(x) == [role |-> SeedGrants[x][1], perm |-> SeedGrants[x][2],
                      live |-> TRUE]
  <2>1. ASSUME NEW x \in GrantIds, x <= Len(SeedGrants)
        PROVE  /\ SeedGrants[x][1] \in 1 .. Seeded
               /\ SeedGrants[x][2] \in 1 .. Len(SeedPerms)
    BY <2>1, SeedsOK, BoundsOK DEF GrantIds, Seeded
  <2>2. \A p \in 1 .. Len(SeedPerms) : p \in PermIds /\ perm[p] # NoName
    BY SeedsOK, BoundsOK, NullsAreOutside DEF Migrated, PermIds
  <2>3. \A i \in 1 .. Seeded : i \in RoleIds /\ role[i] # NoName
    BY <1>1, DefaultsUsed, Seeds
  <2>4. rolePerm = [x \in GrantIds |-> IF x <= Len(SeedGrants) THEN g(x) ELSE NoRow]
    BY DEF Migrated
  <2>5. ASSUME NEW x \in GrantIds
        PROVE  /\ rolePerm[x] \in Grant \cup {NoRow}
               /\ HasRow(rolePerm, x) =>
                    /\ role[rolePerm[x].role] # NoName
                    /\ perm[rolePerm[x].perm] # NoName
    <3>1. CASE x <= Len(SeedGrants)
      <4>1. rolePerm[x] = g(x)
        BY <2>4, <3>1
      <4>2. g(x) \in Grant /\ role[g(x).role] # NoName /\ perm[g(x).perm] # NoName
        BY <2>1, <2>2, <2>3, <3>1 DEF Grant
      <4> QED
        BY <4>1, <4>2
    <3>2. CASE ~(x <= Len(SeedGrants))
      BY <2>4, <3>2 DEF HasRow
    <3> QED
      BY <3>1, <3>2
  <2> QED
    BY <2>4, <2>5 DEF RolePermInv
<1>4. SlotInv
  BY IdleType DEF Quiet, SlotInv
<1> QED
  BY <1>1, <1>2, <1>3, <1>4

LEMMA RbacInvInit == Init => RbacInv
<1> SUFFICES ASSUME Init PROVE RbacInv
  OBVIOUS
<1>1. SlotInv /\ RoleInv /\ PermInv /\ RolePermInv
  BY MigratedInv DEF Init
<1>2. AccountInv
  BY DEF Init, Quiet, AccountInv
<1>3. UserRoleInv
  BY DEF Init, UserRoleInv, HasRow
<1> QED
  BY <1>1, <1>2, <1>3 DEF RbacInv

-----------------------------------------------------------------------------
(* Which actions write which tables.                                       *)

LEMMA WhoWrites ==
  ASSUME [RbacNext]_rbacVars
  PROVE  /\ \/ UNCHANGED <<role, nextRole, collisions>>
            \/ \E r \in Requests : InsertRole(r) \/ RenameRole(r) \/ DeleteRole(r)
         /\ \/ UNCHANGED <<perm, nextPerm>>
            \/ \E r \in Requests :
                 \/ \E clash \in BOOLEAN : InsertPermission(r, clash)
                 \/ DeletePermission(r)
         /\ \/ UNCHANGED userRole
            \/ \E r \in Requests :
                 \/ DeleteRole(r) \/ DeleteUserRole(r)
                 \/ \E x \in RowIds : InsertUserRole(r, x)
         /\ \/ UNCHANGED rolePerm
            \/ \E r \in Requests :
                 \/ DeleteRole(r) \/ DeletePermission(r)
                 \/ \E x \in GrantIds : InsertRolePermission(r, x)
                 \/ DeleteRolePermission(r)
         /\ \/ UNCHANGED <<registered, verified, origin>>
            \/ \E r \in Requests : CreateUser(r) \/ VerifyAdmin(r)
         /\ UNCHANGED torn \/ \E r \in Requests : Abort(r)
<1>1. CASE UNCHANGED rbacVars
  BY <1>1 DEF rbacVars, accounts, catalog, links, history
<1>2. ASSUME NEW r \in Requests, AdminRequest(r)
      PROVE  UNCHANGED <<accounts, catalog, links, history>>
  BY <1>2 DEF AdminRequest, CreateRoleCheck, UpdateRoleRead, DeleteRoleRead,
       CreatePermissionCheck, DeletePermissionRead, AssignPermissionCheck,
       RevokePermissionRead, AssignRoleCheck, RevokeRoleRead
<1>3. ASSUME NEW r \in Requests, Register(r)
      PROVE  /\ UNCHANGED <<catalog, links, torn, collisions>>
             /\ \/ UNCHANGED <<registered, verified, origin>>
                \/ CreateUser(r) \/ VerifyAdmin(r)
  BY <1>3 DEF Register, RegisterCheck, CreateUser, VerifyAdmin, FindRole,
              accounts, history
<1>4. ASSUME NEW r \in Requests, Abort(r)
      PROVE  UNCHANGED <<accounts, catalog, links, origin, collisions>>
  BY <1>4 DEF Abort
<1>5. ASSUME NEW r \in Requests,
             InsertRole(r) \/ RenameRole(r) \/ DeleteRole(r)
      PROVE  /\ UNCHANGED <<accounts, perm, nextPerm, origin, torn>>
             /\ UNCHANGED links \/ DeleteRole(r)
  BY <1>5 DEF InsertRole, RenameRole, DeleteRole, history
<1>6. ASSUME NEW r \in Requests,
             \/ \E clash \in BOOLEAN : InsertPermission(r, clash)
             \/ DeletePermission(r)
      PROVE  /\ UNCHANGED <<accounts, role, nextRole, userRole, history>>
             /\ UNCHANGED rolePerm \/ DeletePermission(r)
  BY <1>6 DEF InsertPermission, DeletePermission, links
<1>7. ASSUME NEW r \in Requests,
             \/ \E x \in GrantIds : InsertRolePermission(r, x)
             \/ DeleteRolePermission(r)
      PROVE  UNCHANGED <<accounts, catalog, userRole, history>>
  BY <1>7 DEF InsertRolePermission, DeleteRolePermission
<1>8. ASSUME NEW r \in Requests,
             \/ \E x \in RowIds : InsertUserRole(r, x)
             \/ DeleteUserRole(r)
      PROVE  UNCHANGED <<accounts, catalog, rolePerm, history>>
  BY <1>8 DEF InsertUserRole, DeleteUserRole
<1>9. ASSUME NEW r \in Requests, Write(r)
      PROVE  \/ InsertRole(r) \/ RenameRole(r) \/ DeleteRole(r)
             \/ \E clash \in BOOLEAN : InsertPermission(r, clash)
             \/ DeletePermission(r)
             \/ \E x \in GrantIds : InsertRolePermission(r, x)
             \/ DeleteRolePermission(r)
             \/ \E x \in RowIds : InsertUserRole(r, x)
             \/ DeleteUserRole(r)
  BY <1>9 DEF Write
<1> USE DEF accounts, catalog, links, history
<1>10. ASSUME NEW r \in Requests, AdminRequest(r) \/ Register(r) \/ Abort(r)
       PROVE  /\ UNCHANGED <<catalog, links, collisions>>
              /\ UNCHANGED torn \/ Abort(r)
              /\ \/ UNCHANGED <<registered, verified, origin>>
                 \/ CreateUser(r) \/ VerifyAdmin(r)
  BY <1>2, <1>3, <1>4, <1>10
<1>11. ASSUME NEW r \in Requests, Write(r)
       PROVE  UNCHANGED <<registered, verified, origin, torn>>
  BY <1>5, <1>6, <1>7, <1>8, <1>9, <1>11
<1>12. \/ UNCHANGED rbacVars
       \/ \E r \in Requests : AdminRequest(r) \/ Register(r) \/ Abort(r)
       \/ \E r \in Requests : Write(r)
  BY DEF RbacNext
<1>13. CASE \E r \in Requests : AdminRequest(r) \/ Register(r) \/ Abort(r)
  BY <1>10, <1>13
<1>14. CASE \E r \in Requests : Write(r)
  BY <1>5, <1>6, <1>7, <1>8, <1>9, <1>11, <1>14
<1> QED
  BY <1>1, <1>12, <1>13, <1>14

(* Accounts are never removed, and what a registration is to give is fixed. *)
LEMMA AccountsGrow ==
  ASSUME RbacInv, [RbacNext]_rbacVars
  PROVE  /\ registered \subseteq registered'
         /\ \A u \in registered : origin'[u] = origin[u]
<1>1. CASE UNCHANGED <<registered, verified, origin>>
  BY <1>1
<1>2. CASE \E r \in Requests : CreateUser(r) \/ VerifyAdmin(r)
  BY <1>2 DEF CreateUser, VerifyAdmin, history, RbacInv, AccountInv
<1> QED
  BY <1>1, <1>2, WhoWrites

LEMMA AccountStep == RbacInv /\ [RbacNext]_rbacVars => AccountInv'
<1> SUFFICES ASSUME RbacInv, [RbacNext]_rbacVars PROVE AccountInv'
  OBVIOUS
<1>0. AccountInv /\ req \in [Requests -> Slot]
      /\ \A r \in Requests : SlotOK(req[r]) /\ Sure(req[r])
  BY DEF RbacInv, SlotInv
<1>1. torn' \in SUBSET Users
  <2>1. ASSUME NEW r \in Requests, Abort(r)
        PROVE  torn' \in SUBSET Users
    BY <1>0, <2>1 DEF Abort, AccountInv
  <2> QED
    BY <1>0, <2>1, WhoWrites DEF AccountInv
<1>2. CASE UNCHANGED <<registered, verified, origin>>
  BY <1>0, <1>1, <1>2 DEF AccountInv
<1>3. ASSUME NEW r \in Requests, CreateUser(r)
      PROVE  AccountInv'
  <2>1. req[r].user \in Users /\ req[r].name \in DefaultNames
    BY <1>0, <1>3, Seeds DEF CreateUser, At, SlotOK, Sure
  <2>2. registered' = registered \cup {req[r].user} /\ verified' = verified
        /\ \/ origin' = origin /\ req[r].user \in registered
           \/ origin' = [origin EXCEPT ![req[r].user] = req[r].name]
    BY <1>3 DEF CreateUser
  <2> QED
    BY <1>0, <1>1, <2>1, <2>2 DEF AccountInv
<1>4. ASSUME NEW r \in Requests, VerifyAdmin(r)
      PROVE  AccountInv'
  <2>1. req[r].user \in registered
    BY <1>0, <1>4 DEF VerifyAdmin, At, Sure, Registers
  <2>2. registered' = registered /\ verified' = verified \cup {req[r].user}
        /\ origin' = origin
    BY <1>4 DEF VerifyAdmin, history
  <2> QED
    BY <1>0, <1>1, <2>1, <2>2 DEF AccountInv
<1> QED
  BY <1>2, <1>3, <1>4, WhoWrites

(* A row of user_roles keeps what it says; it can only be deleted.  A new  *)
(* one is what some request inserts.                                       *)
LEMMA UserRows ==
  ASSUME RbacInv, [RbacNext]_rbacVars, NEW x \in RowIds
  PROVE  /\ userRole[x] # NoRow =>
              /\ userRole'[x] \in Assignment /\ userRole'[x] # NoRow
              /\ userRole'[x].user = userRole[x].user
              /\ userRole'[x].role = userRole[x].role
              /\ userRole'[x].by = userRole[x].by
              /\ userRole'[x].live => userRole[x].live
         /\ userRole[x] = NoRow =>
              \/ userRole'[x] = NoRow
              \/ \E r \in Requests :
                   /\ InsertUserRole(r, x)
                   /\ userRole'[x] =
                        [user |-> req[r].user, role |-> req[r].role, live |-> TRUE,
                         by |-> IF req[r].name = NoName THEN "admin"
                                ELSE "registration"]
         /\ userRole' \in [RowIds -> Assignment \cup {NoRow}]
<1>0. /\ userRole \in [RowIds -> Assignment \cup {NoRow}] /\ NoRow \notin Assignment
      /\ \A r \in Requests : SlotOK(req[r]) /\ Sure(req[r])
  BY NullsAreOutside DEF RbacInv, UserRoleInv, SlotInv
<1>1. ASSUME NEW y \in RowIds, userRole[y] # NoRow
      PROVE  /\ [userRole[y] EXCEPT !.live = FALSE] \in Assignment
             /\ [userRole[y] EXCEPT !.live = FALSE].user = userRole[y].user
             /\ [userRole[y] EXCEPT !.live = FALSE].role = userRole[y].role
             /\ [userRole[y] EXCEPT !.live = FALSE].by = userRole[y].by
             /\ ~[userRole[y] EXCEPT !.live = FALSE].live
  BY <1>0, <1>1 DEF Assignment
<1>2. ASSUME NEW gone \in SUBSET RowIds, \A y \in gone : userRole[y] # NoRow,
             userRole' = Without(userRole, gone)
      PROVE  /\ userRole[x] # NoRow =>
                  /\ userRole'[x] \in Assignment /\ userRole'[x] # NoRow
                  /\ userRole'[x].user = userRole[x].user
                  /\ userRole'[x].role = userRole[x].role
                  /\ userRole'[x].by = userRole[x].by
                  /\ userRole'[x].live => userRole[x].live
             /\ userRole[x] = NoRow => userRole'[x] = NoRow
             /\ userRole' \in [RowIds -> Assignment \cup {NoRow}]
  <2>1. \A y \in RowIds : userRole'[y] =
          IF y \in gone THEN [userRole[y] EXCEPT !.live = FALSE] ELSE userRole[y]
    BY <1>0, <1>2 DEF Without
  <2>2. userRole' \in [RowIds -> Assignment \cup {NoRow}]
    <3>1. \A y \in gone : [userRole[y] EXCEPT !.live = FALSE] \in Assignment
      BY <1>1, <1>2
    <3> QED
      BY <1>0, <1>2, <3>1 DEF Without
  <2>3. CASE x \in gone
    BY <1>0, <1>1, <1>2, <2>1, <2>2, <2>3
  <2>4. CASE x \notin gone
    BY <1>0, <2>1, <2>2, <2>4
  <2> QED
    BY <2>3, <2>4
<1>3. ASSUME NEW r \in Requests, DeleteRole(r)
      PROVE  \E gone \in SUBSET RowIds : /\ \A y \in gone : userRole[y] # NoRow
                                         /\ userRole' = Without(userRole, gone)
  BY <1>3 DEF DeleteRole, HasRow
<1>4. ASSUME NEW r \in Requests, DeleteUserRole(r)
      PROVE  \E gone \in SUBSET RowIds : /\ \A y \in gone : userRole[y] # NoRow
                                         /\ userRole' = Without(userRole, gone)
  <2>1. req[r].row \in RowIds /\ userRole[req[r].row] # NoRow
    BY <1>0, <1>4 DEF DeleteUserRole, At, SlotOK, Sure
  <2>2. PICK gone \in SUBSET RowIds : gone = {req[r].row}
    BY <2>1
  <2> QED
    BY <1>4, <2>1, <2>2 DEF DeleteUserRole
<1>5. ASSUME NEW r \in Requests, NEW y \in RowIds, InsertUserRole(r, y),
             userRole' # userRole
      PROVE  /\ userRole[y] = NoRow
             /\ userRole' = [userRole EXCEPT ![y] =
                  [user |-> req[r].user, role |-> req[r].role, live |-> TRUE,
                   by |-> IF req[r].name = NoName THEN "admin"
                          ELSE "registration"]]
             /\ userRole' \in [RowIds -> Assignment \cup {NoRow}]
  <2>1. /\ userRole[y] = NoRow
        /\ userRole' = [userRole EXCEPT ![y] =
             [user |-> req[r].user, role |-> req[r].role, live |-> TRUE,
              by |-> IF req[r].name = NoName THEN "admin" ELSE "registration"]]
    BY <1>5 DEF InsertUserRole, NextRow
  <2>2. req[r].user \in Users /\ req[r].role \in RoleIds
    BY <1>0, <1>5 DEF InsertUserRole, At, SlotOK
  <2>3. [user |-> req[r].user, role |-> req[r].role, live |-> TRUE,
         by |-> IF req[r].name = NoName THEN "admin" ELSE "registration"]
        \in Assignment
    BY <2>2 DEF Assignment
  <2> QED
    BY <1>0, <2>1, <2>3
<1>6. CASE userRole' = userRole
  BY <1>0, <1>6
<1>7. CASE \E r \in Requests : DeleteRole(r) \/ DeleteUserRole(r)
  BY <1>2, <1>3, <1>4, <1>7
<1>8. ASSUME NEW r \in Requests, NEW y \in RowIds, InsertUserRole(r, y),
             userRole' # userRole, x # y
      PROVE  userRole'[x] = userRole[x]
  BY <1>0, <1>5, <1>8
<1>9. ASSUME NEW r \in Requests, InsertUserRole(r, x), userRole' # userRole
      PROVE  userRole'[x] = [user |-> req[r].user, role |-> req[r].role,
               live |-> TRUE, by |-> IF req[r].name = NoName THEN "admin"
                                     ELSE "registration"]
  <2>1. userRole' = [userRole EXCEPT ![x] =
          [user |-> req[r].user, role |-> req[r].role, live |-> TRUE,
           by |-> IF req[r].name = NoName THEN "admin" ELSE "registration"]]
    BY <1>5, <1>9
  <2>2. x \in DOMAIN userRole
    BY <1>0
  <2> QED
    BY <2>1, <2>2
<1>10. CASE userRole' # userRole
            /\ \E r \in Requests, y \in RowIds : InsertUserRole(r, y)
  BY <1>0, <1>5, <1>8, <1>9, <1>10
<1> QED
  BY <1>6, <1>7, <1>10, WhoWrites

(* The same for role_permissions, of which less is asked.                  *)
LEMMA GrantRows ==
  ASSUME RbacInv, [RbacNext]_rbacVars, NEW x \in GrantIds
  PROVE  /\ rolePerm[x] # NoRow =>
              /\ rolePerm'[x] # NoRow
              /\ rolePerm'[x].role = rolePerm[x].role
              /\ rolePerm'[x].perm = rolePerm[x].perm
              /\ rolePerm'[x].live => rolePerm[x].live
         /\ rolePerm[x] = NoRow =>
              \/ rolePerm'[x] = NoRow
              \/ \E r \in Requests :
                   /\ InsertRolePermission(r, x)
                   /\ rolePerm'[x] = [role |-> req[r].role, perm |-> req[r].perm,
                                      live |-> TRUE]
                   /\ role[req[r].role] # NoName /\ perm[req[r].perm] # NoName
         /\ rolePerm' \in [GrantIds -> Grant \cup {NoRow}]
<1>0. /\ rolePerm \in [GrantIds -> Grant \cup {NoRow}] /\ NoRow \notin Grant
      /\ \A r \in Requests : SlotOK(req[r]) /\ Sure(req[r])
  BY NullsAreOutside DEF RbacInv, RolePermInv, SlotInv
<1>1. ASSUME NEW y \in GrantIds, rolePerm[y] # NoRow
      PROVE  /\ [rolePerm[y] EXCEPT !.live = FALSE] \in Grant
             /\ [rolePerm[y] EXCEPT !.live = FALSE].role = rolePerm[y].role
             /\ [rolePerm[y] EXCEPT !.live = FALSE].perm = rolePerm[y].perm
             /\ ~[rolePerm[y] EXCEPT !.live = FALSE].live
  BY <1>0, <1>1 DEF Grant
<1>2. ASSUME NEW gone \in SUBSET GrantIds, \A y \in gone : rolePerm[y] # NoRow,
             rolePerm' = Without(rolePerm, gone)
      PROVE  /\ rolePerm[x] # NoRow =>
                  /\ rolePerm'[x] # NoRow
                  /\ rolePerm'[x].role = rolePerm[x].role
                  /\ rolePerm'[x].perm = rolePerm[x].perm
                  /\ rolePerm'[x].live => rolePerm[x].live
             /\ rolePerm[x] = NoRow => rolePerm'[x] = NoRow
             /\ rolePerm' \in [GrantIds -> Grant \cup {NoRow}]
  <2>1. \A y \in GrantIds : rolePerm'[y] =
          IF y \in gone THEN [rolePerm[y] EXCEPT !.live = FALSE] ELSE rolePerm[y]
    BY <1>0, <1>2 DEF Without
  <2>2. rolePerm' \in [GrantIds -> Grant \cup {NoRow}]
    <3>1. \A y \in gone : [rolePerm[y] EXCEPT !.live = FALSE] \in Grant
      BY <1>1, <1>2
    <3> QED
      BY <1>0, <1>2, <3>1 DEF Without
  <2>3. CASE x \in gone
    BY <1>0, <1>1, <1>2, <2>1, <2>2, <2>3
  <2>4. CASE x \notin gone
    BY <1>0, <2>1, <2>2, <2>4
  <2> QED
    BY <2>3, <2>4
<1>3. ASSUME NEW r \in Requests, DeleteRole(r) \/ DeletePermission(r)
      PROVE  \E gone \in SUBSET GrantIds : /\ \A y \in gone : rolePerm[y] # NoRow
                                         /\ rolePerm' = Without(rolePerm, gone)
  BY <1>3 DEF DeleteRole, DeletePermission, HasRow
<1>4. ASSUME NEW r \in Requests, DeleteRolePermission(r)
      PROVE  \E gone \in SUBSET GrantIds : /\ \A y \in gone : rolePerm[y] # NoRow
                                         /\ rolePerm' = Without(rolePerm, gone)
  <2>1. req[r].row \in GrantIds /\ rolePerm[req[r].row] # NoRow
    BY <1>0, <1>4 DEF DeleteRolePermission, At, SlotOK, Sure
  <2>2. PICK gone \in SUBSET GrantIds : gone = {req[r].row}
    BY <2>1
  <2> QED
    BY <1>4, <2>1, <2>2 DEF DeleteRolePermission
<1>5. ASSUME NEW r \in Requests, NEW y \in GrantIds, InsertRolePermission(r, y),
             rolePerm' # rolePerm
      PROVE  /\ rolePerm[y] = NoRow
             /\ rolePerm' = [rolePerm EXCEPT ![y] =
                  [role |-> req[r].role, perm |-> req[r].perm, live |-> TRUE]]
             /\ role[req[r].role] # NoName /\ perm[req[r].perm] # NoName
             /\ rolePerm' \in [GrantIds -> Grant \cup {NoRow}]
  <2>1. /\ rolePerm[y] = NoRow
        /\ rolePerm' = [rolePerm EXCEPT ![y] =
             [role |-> req[r].role, perm |-> req[r].perm, live |-> TRUE]]
        /\ role[req[r].role] # NoName /\ perm[req[r].perm] # NoName
    BY <1>5 DEF InsertRolePermission, NextRow
  <2>2. req[r].role \in RoleIds /\ req[r].perm \in PermIds
    BY <1>0, <1>5 DEF InsertRolePermission, At, SlotOK
  <2>3. [role |-> req[r].role, perm |-> req[r].perm, live |-> TRUE] \in Grant
    BY <2>2 DEF Grant
  <2> QED
    BY <1>0, <2>1, <2>3
<1>6. CASE rolePerm' = rolePerm
  BY <1>0, <1>6
<1>7. CASE \E r \in Requests :
             DeleteRole(r) \/ DeletePermission(r) \/ DeleteRolePermission(r)
  BY <1>2, <1>3, <1>4, <1>7
<1>8. ASSUME NEW r \in Requests, NEW y \in GrantIds, InsertRolePermission(r, y),
             rolePerm' # rolePerm, x # y
      PROVE  rolePerm'[x] = rolePerm[x]
  BY <1>0, <1>5, <1>8
<1>9. ASSUME NEW r \in Requests, InsertRolePermission(r, x), rolePerm' # rolePerm
      PROVE  rolePerm'[x] = [role |-> req[r].role, perm |-> req[r].perm,
                             live |-> TRUE]
  <2>1. rolePerm' = [rolePerm EXCEPT ![x] =
          [role |-> req[r].role, perm |-> req[r].perm, live |-> TRUE]]
    BY <1>5, <1>9
  <2>2. x \in DOMAIN rolePerm
    BY <1>0
  <2> QED
    BY <2>1, <2>2
<1>10. CASE rolePerm' # rolePerm
            /\ \E r \in Requests, y \in GrantIds : InsertRolePermission(r, y)
  BY <1>0, <1>5, <1>8, <1>9, <1>10
<1> QED
  BY <1>6, <1>7, <1>10, WhoWrites

-----------------------------------------------------------------------------
(* Slots.                                                                  *)

(* What a slot is sure of stays sure.                                      *)
LEMMA SureKept ==
  ASSUME RbacInv, [RbacNext]_rbacVars, NEW r \in Requests, req'[r] = req[r]
  PROVE  Sure(req[r])'
<1>1. Sure(req[r]) /\ SlotOK(req[r])
  BY DEF RbacInv, SlotInv
<1> QED
  BY <1>1, AccountsGrow, UserRows, GrantRows DEF Sure, SlotOK, Registers

LEMMA SlotWrite ==
  ASSUME RbacInv, [RbacNext]_rbacVars, NEW r \in Requests, NEW s \in Slot,
         SlotOK(s), req' = [req EXCEPT ![r] = s], Sure(req[r])'
  PROVE  SlotInv'
<1>1. req' \in [Requests -> Slot] /\ req \in [Requests -> Slot]
  BY DEF RbacInv, SlotInv
<1>2. ASSUME NEW q \in Requests
      PROVE  SlotOK(req[q])' /\ Sure(req[q])'
  <2>1. CASE q = r
    BY <1>1, <2>1 DEF SlotOK
  <2>2. CASE q # r
    <3>1. req'[q] = req[q] /\ SlotOK(req[q])
      BY <1>1, <2>2 DEF RbacInv, SlotInv
    <3> QED
      BY <3>1, SureKept DEF SlotOK
  <2> QED
    BY <2>1, <2>2
<1> QED
  BY <1>1, <1>2 DEF SlotInv

LEMMA FinishSlot ==
  ASSUME RbacInv, [RbacNext]_rbacVars, NEW r \in Requests, Finish(r)
  PROVE  SlotInv'
<1>1. req' = [req EXCEPT ![r] = Idle] /\ req \in [Requests -> Slot]
  BY DEF Finish, RbacInv, SlotInv
<1>2. req'[r] = Idle
  BY <1>1
<1>3. Sure(req[r])'
  BY <1>2 DEF Sure, Idle, Registers
<1> QED
  BY <1>1, <1>3, IdleType, SlotWrite

(* A request that begins writes nothing else.                              *)
LEMMA BeginSlot ==
  ASSUME RbacInv, [RbacNext]_rbacVars, NEW r \in Requests, NEW s \in Slot,
         SlotOK(s), Sure(s), Begin(r, s)
  PROVE  SlotInv'
<1>1. req' = [req EXCEPT ![r] = s] /\ req'[r] = s
  BY DEF Begin, RbacInv, SlotInv
<1>2. Sure(req[r])'
  BY <1>1, AccountsGrow, UserRows, GrantRows DEF Sure, SlotOK, Registers
<1> QED
  BY <1>1, <1>2, SlotWrite

LEMMA AdminSlots ==
  ASSUME RbacInv, [RbacNext]_rbacVars, NEW r \in Requests, AdminRequest(r)
  PROVE  SlotInv'
<1>0. /\ RoleInv /\ AccountInv
      /\ userRole \in [RowIds -> Assignment \cup {NoRow}]
  BY DEF RbacInv, UserRoleInv
<1> USE DEF Slot, PCs, SlotOK, Sure, Registers, Idle
<1>1. ASSUME NEW n \in Names, CreateRoleCheck(r, n)
      PROVE  SlotInv'
  <2> DEFINE s == [Idle EXCEPT !.pc = "insert_role", !.name = n]
  <2>1. s \in Slot /\ SlotOK(s) /\ Sure(s)
    OBVIOUS
  <2> QED
    BY ONLY RbacInv, [RbacNext]_rbacVars, r \in Requests, <1>1, <2>1, BeginSlot
       DEF CreateRoleCheck
<1>2. ASSUME NEW i \in RoleIds, NEW n \in Names, UpdateRoleRead(r, i, n)
      PROVE  SlotInv'
  <2> DEFINE s == [Idle EXCEPT !.pc = "rename_role", !.role = i, !.name = n]
  <2>1. i > Seeded
    BY <1>0, <1>2, DefaultsUsed DEF UpdateRoleRead, MayRename
  <2>2. s \in Slot /\ SlotOK(s) /\ Sure(s)
    BY <2>1
  <2> QED
    BY ONLY RbacInv, [RbacNext]_rbacVars, r \in Requests, <1>2, <2>2, BeginSlot
       DEF UpdateRoleRead
<1>3. ASSUME NEW i \in RoleIds, DeleteRoleRead(r, i)
      PROVE  SlotInv'
  <2> DEFINE s == [Idle EXCEPT !.pc = "delete_role", !.role = i]
  <2>1. i > Seeded
    BY <1>0, <1>3, DefaultsUsed DEF DeleteRoleRead
  <2>2. s \in Slot /\ SlotOK(s) /\ Sure(s)
    BY <2>1
  <2> QED
    BY ONLY RbacInv, [RbacNext]_rbacVars, r \in Requests, <1>3, <2>2, BeginSlot
       DEF DeleteRoleRead
<1>4. ASSUME NEW n \in PermNames, CreatePermissionCheck(r, n)
      PROVE  SlotInv'
  <2> DEFINE s == [Idle EXCEPT !.pc = "insert_perm", !.name = n]
  <2>1. s \in Slot /\ SlotOK(s) /\ Sure(s)
    OBVIOUS
  <2> QED
    BY ONLY RbacInv, [RbacNext]_rbacVars, r \in Requests, <1>4, <2>1, BeginSlot
       DEF CreatePermissionCheck
<1>5. ASSUME NEW p \in PermIds, DeletePermissionRead(r, p)
      PROVE  SlotInv'
  <2> DEFINE s == [Idle EXCEPT !.pc = "delete_perm", !.perm = p]
  <2>1. s \in Slot /\ SlotOK(s) /\ Sure(s)
    OBVIOUS
  <2> QED
    BY ONLY RbacInv, [RbacNext]_rbacVars, r \in Requests, <1>5, <2>1, BeginSlot
       DEF DeletePermissionRead
<1>6. ASSUME NEW i \in RoleIds, NEW p \in PermIds, AssignPermissionCheck(r, i, p)
      PROVE  SlotInv'
  <2> DEFINE s == [Idle EXCEPT !.pc = "insert_grant", !.role = i, !.perm = p]
  <2>1. s \in Slot /\ SlotOK(s) /\ Sure(s)
    OBVIOUS
  <2> QED
    BY ONLY RbacInv, [RbacNext]_rbacVars, r \in Requests, <1>6, <2>1, BeginSlot
       DEF AssignPermissionCheck
<1>7. ASSUME NEW x \in GrantIds, RevokePermissionRead(r, x)
      PROVE  SlotInv'
  <2> DEFINE s == [Idle EXCEPT !.pc = "delete_grant", !.row = x]
  <2>1. rolePerm[x] # NoRow
    BY <1>7 DEF RevokePermissionRead, HasRow
  <2>2. s \in Slot /\ SlotOK(s) /\ Sure(s)
    BY <2>1
  <2> QED
    BY ONLY RbacInv, [RbacNext]_rbacVars, r \in Requests, <1>7, <2>2, BeginSlot
       DEF RevokePermissionRead
<1>8. ASSUME NEW u \in Users, NEW i \in RoleIds, AssignRoleCheck(r, u, i)
      PROVE  SlotInv'
  <2> DEFINE s == [Idle EXCEPT !.pc = "insert_assignment", !.user = u, !.role = i]
  <2>1. u \in registered
    BY <1>8 DEF AssignRoleCheck
  <2>2. s \in Slot /\ SlotOK(s) /\ Sure(s)
    BY <2>1
  <2> QED
    BY ONLY RbacInv, [RbacNext]_rbacVars, r \in Requests, <1>8, <2>2, BeginSlot
       DEF AssignRoleCheck
<1>9. ASSUME NEW x \in RowIds, RevokeRoleRead(r, x)
      PROVE  SlotInv'
  <2>1. /\ userRole[x].user \in Users /\ userRole[x].role \in RoleIds
        /\ userRole[x] # NoRow
    BY <1>0, <1>9 DEF RevokeRoleRead, HasRow, Assignment
  <2>2. PICK u \in Users, i \in RoleIds : u = userRole[x].user /\ i = userRole[x].role
    BY <2>1
  <2> DEFINE s == [Idle EXCEPT !.pc = "delete_assignment", !.row = x,
                               !.user = u, !.role = i]
  <2>3. s \in Slot /\ SlotOK(s) /\ Sure(s)
    BY <2>1
  <2>4. Begin(r, s)
    BY <1>9, <2>2 DEF RevokeRoleRead, Begin
  <2> QED
    BY ONLY RbacInv, [RbacNext]_rbacVars, r \in Requests, <2>3, <2>4, BeginSlot
<1> QED
  BY <1>1, <1>2, <1>3, <1>4, <1>5, <1>6, <1>7, <1>8, <1>9 DEF AdminRequest

LEMMA RegisterSlots ==
  ASSUME RbacInv, [RbacNext]_rbacVars, NEW r \in Requests, Register(r)
  PROVE  SlotInv'
<1>0. /\ req \in [Requests -> Slot] /\ SlotOK(req[r]) /\ Sure(req[r])
      /\ RoleInv /\ AccountInv
  BY DEF RbacInv, SlotInv
<1>1. ASSUME NEW u \in Users, NEW n \in {DefaultName, AdminName},
             RegisterCheck(r, u, n)
      PROVE  SlotInv'
  <2> DEFINE s == [Idle EXCEPT !.pc = "create_user", !.user = u, !.name = n]
  <2>1. n \in Names
    BY Seeds
  <2>2. s \in Slot /\ SlotOK(s) /\ Sure(s)
    BY <2>1 DEF Slot, PCs, SlotOK, Sure, Registers, Idle
  <2> QED
    BY <1>1, <2>2, BeginSlot DEF RegisterCheck
<1>2. CASE CreateUser(r)
  <2>1. req[r].pc = "create_user" /\ req[r].user \in Users
        /\ req[r].name \in {DefaultName, AdminName}
    BY <1>0, <1>2 DEF CreateUser, At, SlotOK, Sure
  <2>2. CASE req[r].user \in registered
    BY <1>2, <2>2, FinishSlot DEF CreateUser
  <2>3. CASE req[r].user \notin registered
    <3>1. PICK pc \in {"verify_admin", "find_role"} :
            pc = AfterCreation(req[r].name)
      BY DEF AfterCreation
    <3>2. PICK s : s = [req[r] EXCEPT !.pc = pc]
      OBVIOUS
    <3>3. s \in Slot
      BY <1>0, <3>2 DEF Slot, PCs
    <3>4. /\ s.pc = pc /\ s.user = req[r].user /\ s.name = req[r].name
      BY <1>0, <3>2 DEF Slot
    <3>5. /\ registered' = registered \cup {req[r].user}
          /\ origin' = [origin EXCEPT ![req[r].user] = req[r].name]
          /\ req' = [req EXCEPT ![r] = s]
      BY <1>2, <2>3, <3>1, <3>2 DEF CreateUser
    <3>6. SlotOK(s)
      BY <2>1, <3>4 DEF SlotOK
    <3>7. req'[r] = s /\ origin'[s.user] = s.name /\ s.user \in registered'
      BY <1>0, <2>1, <3>4, <3>5 DEF AccountInv
    <3>8. Sure(req[r])'
      BY <2>1, <3>4, <3>7, Seeds DEF Sure, Registers
    <3> QED
      BY <3>3, <3>5, <3>6, <3>8, SlotWrite
  <2> QED
    BY <2>2, <2>3
<1>3. CASE VerifyAdmin(r)
  <2>1. req[r].pc = "verify_admin" /\ req[r].user \in Users
    BY <1>0, <1>3 DEF VerifyAdmin, At, SlotOK
  <2>2. PICK s : s = [req[r] EXCEPT !.pc = "find_role"]
    OBVIOUS
  <2>3. s \in Slot
    BY <1>0, <2>2 DEF Slot, PCs
  <2>4. s.pc = "find_role" /\ s.user = req[r].user /\ s.name = req[r].name
    BY <1>0, <2>2 DEF Slot
  <2>5. req' = [req EXCEPT ![r] = s] /\ UNCHANGED <<registered, origin>>
    BY <1>3, <2>2 DEF VerifyAdmin, history
  <2>6. SlotOK(s)
    BY <2>1, <2>4 DEF SlotOK
  <2>7. req'[r] = s
    BY <1>0, <2>5
  <2>8. Sure(req[r])'
    BY <1>0, <2>1, <2>4, <2>5, <2>7 DEF Sure, Registers
  <2> QED
    BY <2>3, <2>5, <2>6, <2>8, SlotWrite
<1>4. CASE FindRole(r)
  <2>1. req[r].pc = "find_role" /\ req[r].user \in Users
        /\ req[r].name \in DefaultNames
    BY <1>0, <1>4, Seeds DEF FindRole, At, SlotOK, Sure
  <2>2. CASE Finish(r)
    BY <2>2, FinishSlot
  <2>3. ASSUME NEW i \in RoleIds, role[i] = req[r].name,
               req' = [req EXCEPT ![r].pc = "insert_assignment", ![r].role = i]
        PROVE  SlotInv'
    <3>1. PICK s : s = [req[r] EXCEPT !.pc = "insert_assignment", !.role = i]
      OBVIOUS
    <3>2. s \in Slot
      BY <1>0, <3>1 DEF Slot, PCs
    <3>3. /\ s.pc = "insert_assignment" /\ s.role = i
          /\ s.user = req[r].user /\ s.name = req[r].name
      BY <1>0, <3>1 DEF Slot
    <3>4. req' = [req EXCEPT ![r] = s] /\ UNCHANGED <<registered, origin>>
      BY <1>0, <1>4, <2>3, <3>1 DEF FindRole, accounts, history
    <3>5. SlotOK(s)
      BY <2>1, <3>3 DEF SlotOK
    <3>6. i <= Seeded /\ SeedRoles[i] = req[r].name
      <4>1. ~(i > Seeded)
        BY <1>0, <2>1, <2>3, DefaultsUsed
      <4>2. i \in 1 .. Seeded
        BY <4>1, Seeds, BoundsOK DEF RoleIds
      <4> QED
        BY <1>0, <2>3, <4>2, DefaultsUsed
    <3>7. req'[r] = s
      BY <1>0, <3>4
    <3>8. Sure(req[r])'
      BY <1>0, <2>1, <3>3, <3>4, <3>6, <3>7 DEF Sure, Registers
    <3> QED
      BY <3>2, <3>4, <3>5, <3>8, SlotWrite
  <2> QED
    BY <1>4, <2>2, <2>3 DEF FindRole
<1> QED
  BY <1>1, <1>2, <1>3, <1>4 DEF Register

LEMMA SlotStep == RbacInv /\ [RbacNext]_rbacVars => SlotInv'
<1> SUFFICES ASSUME RbacInv, [RbacNext]_rbacVars PROVE SlotInv'
  OBVIOUS
<1>1. ASSUME NEW r \in Requests, Write(r) \/ Abort(r)
      PROVE  SlotInv'
  <2>1. Finish(r)
    BY <1>1 DEF Write, Abort, InsertRole, RenameRole, DeleteRole,
         InsertPermission, DeletePermission, InsertRolePermission,
         DeleteRolePermission, InsertUserRole, DeleteUserRole
  <2> QED
    BY <2>1, FinishSlot
<1>2. CASE UNCHANGED rbacVars
  <2>1. req' = req /\ UNCHANGED <<registered, origin, userRole, rolePerm>>
    BY <1>2 DEF rbacVars, accounts, links, history
  <2> QED
    BY <2>1 DEF RbacInv, SlotInv, SlotOK, Sure
<1> QED
  BY <1>1, <1>2, AdminSlots, RegisterSlots DEF RbacNext

-----------------------------------------------------------------------------
(* Tables.                                                                 *)

LEMMA RoleStep == RbacInv /\ [RbacNext]_rbacVars => RoleInv'
<1> SUFFICES ASSUME RbacInv, [RbacNext]_rbacVars PROVE RoleInv'
  OBVIOUS
<1>0. /\ RoleInv /\ req \in [Requests -> Slot]
      /\ \A r \in Requests : SlotOK(req[r]) /\ Sure(req[r])
  BY DEF RbacInv, SlotInv
<1>1. \A i \in RoleIds : i \in Nat
  BY BoundsOK DEF RoleIds
<1>2. ASSUME NEW r \in Requests, InsertRole(r)
      PROVE  RoleInv'
  <2> DEFINE n == req[r].name
  <2>1. n \in Names
    BY <1>0, <1>2 DEF InsertRole, At, SlotOK
  <2>2. /\ nextRole \in RoleIds /\ nextRole' = nextRole + 1
        /\ nextRole' \in 1 .. MaxRoles + 1
    BY <1>0, <1>2, BoundsOK DEF InsertRole, RoleInv, RoleIds
  <2>3. CASE role[nextRole] = NoName /\ ~RoleNameUsed(n)
    <3>1. role' = [role EXCEPT ![nextRole] = n] /\ collisions' = collisions
      BY <1>0, <1>2, <2>3 DEF InsertRole, RoleInv
    <3>2. n \notin DefaultNames /\ nextRole > Seeded
      BY <1>0, <2>2, <2>3, DefaultsUsed, Seeds
    <3>3. \A i \in RoleIds : role[i] # n
      BY <2>3 DEF RoleNameUsed
    <3>4. NamesUnique'
      BY <1>0, <2>2, <3>1, <3>3 DEF NamesUnique, RoleInv
    <3>5. DefaultRolesKept'
      BY <1>0, <1>1, <2>2, <3>1, <3>2, Seeds
         DEF DefaultRolesKept, RoleInv, Seeded
    <3>6. \A i \in RoleIds : i >= nextRole' /\ role'[i] # NoName => i <= Seeded
      BY <1>0, <1>1, <2>2, <3>1 DEF RoleInv
    <3>7. collisions' \in Nat /\ collisions' < nextRole' /\ collisions' <= Seeded
      BY <1>0, <2>2, <3>1 DEF RoleInv
    <3> QED
      BY <1>0, <2>1, <2>2, <3>1, <3>4, <3>5, <3>6, <3>7 DEF RoleInv
  <2>4. CASE ~(role[nextRole] = NoName /\ ~RoleNameUsed(n))
    <3>1. role' = role
      BY <1>2, <2>4 DEF InsertRole
    <3>2. \/ collisions' = collisions
          \/ collisions' = collisions + 1 /\ role[nextRole] # NoName
      BY <1>0, <1>2 DEF InsertRole, RoleInv
    <3>3. role[nextRole] # NoName => nextRole <= Seeded
      BY <1>0, <1>1, <2>2 DEF RoleInv
    <3>4. collisions' \in Nat /\ collisions' < nextRole' /\ collisions' <= Seeded
      BY <1>0, <1>1, <2>2, <3>2, <3>3, Seeds DEF RoleInv
    <3>5. \A i \in RoleIds : i >= nextRole' /\ role'[i] # NoName => i <= Seeded
      BY <1>0, <1>1, <2>2, <3>1 DEF RoleInv
    <3> QED
      BY <1>0, <2>2, <3>1, <3>4, <3>5
         DEF RoleInv, NamesUnique, DefaultRolesKept
  <2> QED
    BY <2>3, <2>4
<1>3. ASSUME NEW r \in Requests, RenameRole(r)
      PROVE  RoleInv'
  <2> DEFINE i == req[r].role
             n == req[r].name
  <2>1. n \in Names /\ i \in RoleIds /\ i > Seeded
    BY <1>0, <1>3 DEF RenameRole, At, SlotOK, Sure
  <2>2. UNCHANGED <<nextRole, collisions>>
    BY <1>3 DEF RenameRole, history
  <2>3. CASE role[i] # NoName /\ ~RoleNameUsed(n)
    <3>1. role' = [role EXCEPT ![i] = n]
      BY <1>3, <2>3 DEF RenameRole
    <3>2. n \notin DefaultNames
      BY <1>0, <2>3, DefaultsUsed
    <3>3. \A k \in RoleIds : role[k] # n
      BY <2>3 DEF RoleNameUsed
    <3>4. NamesUnique'
      BY <1>0, <2>1, <3>1, <3>3 DEF NamesUnique, RoleInv
    <3>5. DefaultRolesKept'
      BY <1>0, <1>1, <2>1, <3>1, <3>2, Seeds
         DEF DefaultRolesKept, RoleInv, Seeded
    <3>6. \A k \in RoleIds : k >= nextRole' /\ role'[k] # NoName => k <= Seeded
      BY <1>0, <1>1, <2>1, <2>2, <2>3, <3>1 DEF RoleInv
    <3> QED
      BY <1>0, <2>1, <2>2, <3>1, <3>4, <3>5, <3>6 DEF RoleInv
  <2>4. CASE ~(role[i] # NoName /\ ~RoleNameUsed(n))
    <3>1. role' = role
      BY <1>3, <2>4 DEF RenameRole
    <3> QED
      BY <1>0, <2>2, <3>1 DEF RoleInv, NamesUnique, DefaultRolesKept
  <2> QED
    BY <2>3, <2>4
<1>4. ASSUME NEW r \in Requests, DeleteRole(r)
      PROVE  RoleInv'
  <2> DEFINE i == req[r].role
  <2>1. i \in RoleIds /\ i > Seeded
    BY <1>0, <1>4 DEF DeleteRole, At, SlotOK, Sure
  <2>2. role' = [role EXCEPT ![i] = NoName] /\ UNCHANGED <<nextRole, collisions>>
    BY <1>4 DEF DeleteRole, history
  <2>3. NamesUnique'
    BY <1>0, <2>1, <2>2 DEF NamesUnique, RoleInv
  <2>4. DefaultRolesKept'
    BY <1>0, <1>1, <2>1, <2>2, Seeds DEF DefaultRolesKept, RoleInv, Seeded
  <2>5. \A k \in RoleIds : k >= nextRole' /\ role'[k] # NoName => k <= Seeded
    BY <1>0, <1>1, <2>1, <2>2 DEF RoleInv
  <2> QED
    BY <1>0, <2>1, <2>2, <2>3, <2>4, <2>5 DEF RoleInv
<1>5. CASE UNCHANGED <<role, nextRole, collisions>>
  BY <1>0, <1>5 DEF RoleInv, NamesUnique, DefaultRolesKept
<1> QED
  BY <1>2, <1>3, <1>4, <1>5, WhoWrites

LEMMA PermStep == RbacInv /\ [RbacNext]_rbacVars => PermInv'
<1> SUFFICES ASSUME RbacInv, [RbacNext]_rbacVars PROVE PermInv'
  OBVIOUS
<1>0. PermInv /\ \A r \in Requests : SlotOK(req[r])
  BY DEF RbacInv, SlotInv
<1>1. ASSUME NEW r \in Requests, NEW clash \in BOOLEAN, InsertPermission(r, clash)
      PROVE  PermInv'
  <2>1. req[r].name \in PermNames
    BY <1>0, <1>1 DEF InsertPermission, At, SlotOK
  <2>2. nextPerm' \in 1 .. MaxPerms + 1
    BY <1>0, <1>1, BoundsOK DEF InsertPermission, PermInv
  <2>3. /\ nextPerm' = nextPerm + 1
        /\ perm' = perm \/ perm' = [perm EXCEPT ![nextPerm] = req[r].name]
    BY <1>1 DEF InsertPermission
  <2>4. perm' \in [PermIds -> PermNames \cup {NoName}]
    BY <1>0, <2>1, <2>3 DEF PermInv
  <2>5. ASSUME NEW p \in PermIds, p >= nextPerm', perm'[p] # NoName
        PROVE  p <= Len(SeedPerms)
    <3>1. p \in Nat /\ nextPerm \in Nat
      BY <1>0, BoundsOK DEF PermInv, PermIds
    <3>2. p >= nextPerm /\ perm'[p] = perm[p]
      BY <1>0, <2>3, <2>5, <3>1 DEF PermInv
    <3> QED
      BY <1>0, <2>5, <3>2 DEF PermInv
  <2> QED
    BY <2>2, <2>4, <2>5 DEF PermInv
<1>2. ASSUME NEW r \in Requests, DeletePermission(r)
      PROVE  PermInv'
  BY <1>0, <1>2 DEF DeletePermission, PermInv
<1>3. CASE UNCHANGED <<perm, nextPerm>>
  BY <1>0, <1>3 DEF PermInv
<1> QED
  BY <1>1, <1>2, <1>3, WhoWrites

(* An id gets a name by being drawn: not a second time unless seeded.      *)
LEMMA PermDrawn ==
  ASSUME RbacInv, [RbacNext]_rbacVars, NEW p \in PermIds,
         perm'[p] # NoName, perm'[p] # perm[p]
  PROVE  perm[p] = NoName /\ p = nextPerm /\ nextPerm' = nextPerm + 1
<1>0. PermInv
  BY DEF RbacInv
<1>1. ASSUME NEW r \in Requests, NEW clash \in BOOLEAN, InsertPermission(r, clash)
      PROVE  perm[p] = NoName /\ p = nextPerm /\ nextPerm' = nextPerm + 1
  BY <1>0, <1>1 DEF InsertPermission, PermInv
<1>2. ASSUME NEW r \in Requests PROVE ~DeletePermission(r)
  BY <1>0, <1>2 DEF DeletePermission, PermInv
<1> QED
  BY <1>1, <1>2, WhoWrites

LEMMA PermSequence ==
  ASSUME RbacInv, [RbacNext]_rbacVars
  PROVE  nextPerm <= nextPerm'
<1>1. nextPerm \in Nat
  BY BoundsOK DEF RbacInv, PermInv
<1>2. nextPerm' \in {nextPerm, nextPerm + 1}
  BY WhoWrites DEF InsertPermission, DeletePermission
<1> QED
  BY <1>1, <1>2

(* A role that goes takes the rows that name it along.                     *)
LEMMA RolesKept ==
  ASSUME RbacInv, [RbacNext]_rbacVars, NEW i \in RoleIds, role[i] # NoName
  PROVE  role'[i] # NoName \/ \E r \in Requests : DeleteRole(r) /\ req[r].role = i
<1>0. /\ RoleInv /\ \A r \in Requests : SlotOK(req[r])
      /\ NoName \notin Names
  BY Seeds DEF RbacInv, SlotInv
<1>1. ASSUME NEW r \in Requests, InsertRole(r)
      PROVE  role'[i] # NoName
  BY <1>0, <1>1 DEF InsertRole, At, SlotOK, RoleInv
<1>2. ASSUME NEW r \in Requests, RenameRole(r)
      PROVE  role'[i] # NoName
  BY <1>0, <1>2 DEF RenameRole, At, SlotOK, RoleInv
<1>3. ASSUME NEW r \in Requests, DeleteRole(r), req[r].role # i
      PROVE  role'[i] # NoName
  BY <1>0, <1>3 DEF DeleteRole, RoleInv
<1> QED
  BY <1>1, <1>2, <1>3, WhoWrites

LEMMA PermsKept ==
  ASSUME RbacInv, [RbacNext]_rbacVars, NEW p \in PermIds, perm[p] # NoName
  PROVE  \/ perm'[p] # NoName
         \/ \E r \in Requests : DeletePermission(r) /\ req[r].perm = p
<1>0. PermInv /\ (\A r \in Requests : SlotOK(req[r])) /\ NoName \notin PermNames
  BY NullsAreOutside DEF RbacInv, SlotInv
<1>1. ASSUME NEW r \in Requests, NEW clash \in BOOLEAN, InsertPermission(r, clash)
      PROVE  perm'[p] # NoName
  BY <1>0, <1>1 DEF InsertPermission, At, SlotOK, PermInv
<1>2. ASSUME NEW r \in Requests, DeletePermission(r), req[r].perm # p
      PROVE  perm'[p] # NoName
  BY <1>0, <1>2 DEF DeletePermission, PermInv
<1> QED
  BY <1>1, <1>2, WhoWrites

LEMMA UserRoleStep == RbacInv /\ [RbacNext]_rbacVars => UserRoleInv'
<1> SUFFICES ASSUME RbacInv, [RbacNext]_rbacVars PROVE UserRoleInv'
  OBVIOUS
<1>0. /\ UserRoleInv /\ RoleInv /\ AccountInv
      /\ \A r \in Requests : SlotOK(req[r]) /\ Sure(req[r])
  BY DEF RbacInv, SlotInv
<1>1. ASSUME NEW x \in RowIds, userRole[x] = NoRow, userRole'[x] # NoRow
      PROVE  /\ role'[userRole'[x].role] # NoName
             /\ userRole'[x].user \in registered'
             /\ userRole'[x].by = "registration" =>
                  /\ userRole'[x].role <= Seeded
                  /\ origin'[userRole'[x].user] = SeedRoles[userRole'[x].role]
  <2>1. PICK r \in Requests :
          /\ InsertUserRole(r, x)
          /\ userRole'[x] =
               [user |-> req[r].user, role |-> req[r].role, live |-> TRUE,
                by |-> IF req[r].name = NoName THEN "admin" ELSE "registration"]
    BY <1>1, UserRows
  <2>2. /\ userRole'[x].user = req[r].user /\ userRole'[x].role = req[r].role
        /\ userRole'[x].by = "registration" => req[r].name # NoName
    BY <2>1
  <2>3. /\ req[r].pc = "insert_assignment" /\ role[req[r].role] # NoName
        /\ role' = role
    BY <1>1, <2>1 DEF InsertUserRole, At, catalog
  <2>4. req[r].user \in registered
    BY <1>0, <2>3 DEF Sure, Registers
  <2>5. req[r].name # NoName =>
          /\ req[r].role <= Seeded
          /\ origin[req[r].user] = SeedRoles[req[r].role]
    BY <1>0, <2>3 DEF Sure, Registers
  <2> QED
    BY <2>2, <2>3, <2>4, <2>5, AccountsGrow
<1>2. ASSUME NEW x \in RowIds, userRole[x] # NoRow
      PROVE  /\ userRole'[x].user \in registered'
             /\ userRole'[x].by = "registration" =>
                  /\ userRole'[x].role <= Seeded
                  /\ origin'[userRole'[x].user] = SeedRoles[userRole'[x].role]
  BY <1>0, <1>2, UserRows, AccountsGrow DEF UserRoleInv
<1>3. ASSUME NEW x \in RowIds, userRole[x] # NoRow, userRole'[x].live
      PROVE  role'[userRole'[x].role] # NoName
  <2>1. /\ userRole[x].live /\ userRole'[x].role = userRole[x].role
        /\ userRole[x].role \in RoleIds /\ role[userRole[x].role] # NoName
    BY <1>0, <1>3, UserRows DEF UserRoleInv, HasRow, Assignment
  <2>2. ASSUME NEW r \in Requests, DeleteRole(r), req[r].role = userRole[x].role
        PROVE  FALSE
    <3>1. x \in {y \in RowIds : HasRow(userRole, y)
                                 /\ userRole[y].role = req[r].role}
      BY <1>3, <2>1, <2>2 DEF HasRow
    <3>2. userRole'[x] = [userRole[x] EXCEPT !.live = FALSE]
      BY <1>0, <2>2, <3>1 DEF DeleteRole, Without, UserRoleInv
    <3>3. userRole[x] \in Assignment
      BY <1>0, <1>3 DEF UserRoleInv
    <3> QED
      BY <1>3, <3>2, <3>3 DEF Assignment
  <2> QED
    BY <2>1, <2>2, RolesKept
<1>4. userRole' \in [RowIds -> Assignment \cup {NoRow}]
  <2>1. CASE RowIds = {}
    BY <1>0, <2>1, WhoWrites
       DEF UserRoleInv, DeleteRole, DeleteUserRole, Without
  <2>2. CASE RowIds # {}
    BY <2>2, UserRows
  <2> QED
    BY <2>1, <2>2
<1> QED
  BY <1>1, <1>2, <1>3, <1>4 DEF UserRoleInv, HasRow

LEMMA RolePermStep == RbacInv /\ [RbacNext]_rbacVars => RolePermInv'
<1> SUFFICES ASSUME RbacInv, [RbacNext]_rbacVars PROVE RolePermInv'
  OBVIOUS
<1>0. RolePermInv
  BY DEF RbacInv
<1>1. ASSUME NEW x \in GrantIds, rolePerm[x] = NoRow, rolePerm'[x] # NoRow
      PROVE  /\ role'[rolePerm'[x].role] # NoName
             /\ perm'[rolePerm'[x].perm] # NoName
  <2>1. PICK r \in Requests :
          /\ InsertRolePermission(r, x)
          /\ rolePerm'[x] = [role |-> req[r].role, perm |-> req[r].perm,
                             live |-> TRUE]
          /\ role[req[r].role] # NoName /\ perm[req[r].perm] # NoName
    BY <1>1, GrantRows
  <2>2. role' = role /\ perm' = perm
    BY <2>1 DEF InsertRolePermission, catalog
  <2> QED
    BY <2>1, <2>2
<1>2. ASSUME NEW x \in GrantIds, rolePerm[x] # NoRow, rolePerm'[x].live
      PROVE  /\ role'[rolePerm'[x].role] # NoName
             /\ perm'[rolePerm'[x].perm] # NoName
  <2>1. /\ rolePerm[x].live /\ rolePerm[x] \in Grant
        /\ rolePerm'[x].role = rolePerm[x].role
        /\ rolePerm'[x].perm = rolePerm[x].perm
        /\ role[rolePerm[x].role] # NoName /\ perm[rolePerm[x].perm] # NoName
    BY <1>0, <1>2, GrantRows DEF RolePermInv, HasRow
  <2>2. rolePerm[x].role \in RoleIds /\ rolePerm[x].perm \in PermIds
    BY <2>1 DEF Grant
  <2>3. ASSUME NEW r \in Requests, DeleteRole(r), req[r].role = rolePerm[x].role
        PROVE  FALSE
    <3>1. rolePerm'[x] = [rolePerm[x] EXCEPT !.live = FALSE]
      BY <1>0, <1>2, <2>1, <2>3 DEF DeleteRole, Without, HasRow, RolePermInv
    <3> QED
      BY <1>2, <2>1, <3>1 DEF Grant
  <2>4. ASSUME NEW r \in Requests, DeletePermission(r),
               req[r].perm = rolePerm[x].perm
        PROVE  FALSE
    <3>1. rolePerm'[x] = [rolePerm[x] EXCEPT !.live = FALSE]
      BY <1>0, <1>2, <2>1, <2>4 DEF DeletePermission, Without, HasRow, RolePermInv
    <3> QED
      BY <1>2, <2>1, <3>1 DEF Grant
  <2>5. role'[rolePerm[x].role] # NoName
    BY <2>1, <2>2, <2>3, RolesKept
  <2>6. perm'[rolePerm[x].perm] # NoName
    BY <2>1, <2>2, <2>4, PermsKept
  <2> QED
    BY <2>1, <2>5, <2>6
<1>3. rolePerm' \in [GrantIds -> Grant \cup {NoRow}]
  <2>1. CASE GrantIds = {}
    BY <1>0, <2>1, WhoWrites
       DEF RolePermInv, DeleteRole, DeletePermission, DeleteRolePermission, Without
  <2>2. CASE GrantIds # {}
    BY <2>2, GrantRows
  <2> QED
    BY <2>1, <2>2
<1> QED
  BY <1>1, <1>2, <1>3 DEF RolePermInv, HasRow

LEMMA RbacInvStep == RbacInv /\ [RbacNext]_rbacVars => RbacInv'
BY SlotStep, AccountStep, RoleStep, PermStep, UserRoleStep, RolePermStep
   DEF RbacInv

LEMMA RbacInvariant == RbacSpec => []RbacInv
BY RbacInvInit, RbacInvStep, PTL DEF RbacSpec

-----------------------------------------------------------------------------
(* What follows from the invariant.                                        *)

LEMMA RbacInvGives == RbacInv => TypeOK /\ AdminsExplained
<1> SUFFICES ASSUME RbacInv PROVE TypeOK /\ AdminsExplained
  OBVIOUS
<1>1. SlotInv /\ AccountInv /\ RoleInv /\ PermInv /\ UserRoleInv /\ RolePermInv
  BY DEF RbacInv
<1>2. TypeOK
  BY <1>1 DEF TypeOK, SlotInv, AccountInv, RoleInv, NamesUnique, PermInv,
              UserRoleInv, RolePermInv
<1>3. ASSUME NEW x \in RowIds, HasRow(userRole, x),
             role[userRole[x].role] = AdminName, userRole[x].by # "admin"
      PROVE  origin[userRole[x].user] = AdminName
  <2>1. userRole[x] \in Assignment /\ userRole[x] # NoRow
    BY <1>1, <1>3 DEF UserRoleInv, HasRow
  <2>2. userRole[x].by = "registration" /\ userRole[x].role \in RoleIds
    BY <1>3, <2>1 DEF Assignment
  <2>3. /\ userRole[x].role <= Seeded
        /\ origin[userRole[x].user] = SeedRoles[userRole[x].role]
    BY <1>1, <2>1, <2>2 DEF UserRoleInv
  <2>4. userRole[x].role \in 1 .. Seeded
    BY <2>2, <2>3, Seeds, BoundsOK DEF RoleIds
  <2> QED
    BY <1>1, <1>3, <2>3, <2>4, DefaultsUsed
<1> QED
  BY <1>2, <1>3 DEF AdminsExplained

(***************************************************************************)
(* Who has which role, told from the seeds: the role of a default name is  *)
(* the one with its seeded id.                                             *)
(***************************************************************************)
LEMMA DefaultRole ==
  ASSUME RoleInv, NEW n \in DefaultNames
  PROVE  \E i \in RoleIds : i <= Seeded /\ SeedRoles[i] = n /\ role[i] = n
BY DefaultsUsed, Seeds

LEMMA SeededRoleKept ==
  ASSUME RbacInv, [RbacNext]_rbacVars, NEW i \in RoleIds, role[i] \in DefaultNames
  PROVE  role'[i] = role[i]
<1>1. RoleInv /\ RoleInv'
  BY RbacInvStep DEF RbacInv
<1>2. ~(i > Seeded) /\ i \in 1 .. Seeded
  BY <1>1, DefaultsUsed, Seeds, BoundsOK DEF RoleIds
<1>3. role[i] = SeedRoles[i]
  BY <1>1, <1>2, DefaultsUsed
<1>4. role'[i] = SeedRoles[i]
  BY <1>1, <1>2, Seeds, BoundsOK DEF RoleInv, DefaultRolesKept, Seeded, RoleIds
<1> QED
  BY <1>3, <1>4

Explained(u) ==
  \/ HasRoleNamed(u, origin[u])
  \/ Registering(u)
  \/ u \in torn
  \/ Stripped(u, origin[u])

(* A role held by name goes only by a revocation, which leaves its trace.  *)
LEMMA RoleHeld ==
  ASSUME RbacInv, [RbacNext]_rbacVars, NEW u \in registered,
         HasRoleNamed(u, origin[u]) \/ Stripped(u, origin[u])
  PROVE  Explained(u)'
<1>0. /\ UserRoleInv /\ AccountInv /\ origin[u] \in DefaultNames
      /\ origin'[u] = origin[u]
  BY AccountsGrow DEF RbacInv, AccountInv
<1>1. PICK x \in RowIds :
        /\ userRole[x] # NoRow /\ userRole[x].user = u
        /\ userRole[x].role \in RoleIds
        /\ role[userRole[x].role] = origin[u]
  BY <1>0 DEF HasRoleNamed, Assigned, Stripped, HasRow, UserRoleInv, Assignment
<1>2. /\ userRole'[x] # NoRow /\ userRole'[x].user = u
      /\ userRole'[x].role = userRole[x].role
      /\ userRole'[x] \in Assignment
  BY <1>1, UserRows
<1>3. role'[userRole'[x].role] = origin'[u]
  BY <1>0, <1>1, <1>2, SeededRoleKept
<1>4. CASE userRole'[x].live
  BY <1>1, <1>2, <1>3, <1>4 DEF Explained, HasRoleNamed, Assigned, HasRow
<1>5. CASE ~userRole'[x].live
  BY <1>2, <1>3, <1>5 DEF Explained, Stripped
<1> QED
  BY <1>4, <1>5

(* A slot changes only by a step of its own request.                       *)
LEMMA WhoActs ==
  ASSUME RbacInv, [RbacNext]_rbacVars, NEW q \in Requests
  PROVE  \/ req'[q] = req[q]
         \/ AdminRequest(q) \/ Register(q) \/ Write(q) \/ Abort(q)
<1>1. req \in [Requests -> Slot]
  BY DEF RbacInv, SlotInv
<1>2. ASSUME NEW r \in Requests, r # q,
             \/ \E s : Begin(r, s)
             \/ Finish(r)
             \/ \E s : req' = [req EXCEPT ![r] = s]
      PROVE  req'[q] = req[q]
  BY <1>1, <1>2 DEF Begin, Finish
<1>3. ASSUME NEW r \in Requests, AdminRequest(r)
      PROVE  \E s : Begin(r, s)
  BY <1>3 DEF AdminRequest, CreateRoleCheck, UpdateRoleRead, DeleteRoleRead,
       CreatePermissionCheck, DeletePermissionRead, AssignPermissionCheck,
       RevokePermissionRead, AssignRoleCheck, RevokeRoleRead
<1>4. ASSUME NEW r \in Requests, Write(r) \/ Abort(r)
      PROVE  Finish(r)
  BY <1>4 DEF Write, Abort, InsertRole, RenameRole, DeleteRole,
       InsertPermission, DeletePermission, InsertRolePermission,
       DeleteRolePermission, InsertUserRole, DeleteUserRole
<1>5. ASSUME NEW r \in Requests, Register(r)
      PROVE  \/ \E s : Begin(r, s)
             \/ Finish(r)
             \/ \E s : req' = [req EXCEPT ![r] = s]
  <2>1. CASE \E u \in Users, n \in {DefaultName, AdminName} : RegisterCheck(r, u, n)
    BY <2>1 DEF RegisterCheck
  <2>2. CASE CreateUser(r) \/ VerifyAdmin(r) \/ FindRole(r)
    BY <1>1, <2>2 DEF CreateUser, VerifyAdmin, FindRole
  <2> QED
    BY <1>5, <2>1, <2>2 DEF Register
<1>6. CASE UNCHANGED rbacVars
  BY <1>6 DEF rbacVars
<1>7. CASE RbacNext
  <2>1. PICK r \in Requests :
          AdminRequest(r) \/ Register(r) \/ Write(r) \/ Abort(r)
    BY <1>7 DEF RbacNext
  <2>2. CASE r = q
    BY <2>1, <2>2
  <2>3. CASE r # q
    <3>1. \/ \E s : Begin(r, s)
          \/ Finish(r)
          \/ \E s : req' = [req EXCEPT ![r] = s]
      BY <1>3, <1>4, <1>5, <2>1
    <3> QED
      BY <1>2, <2>3, <3>1
  <2> QED
    BY <2>2, <2>3
<1> QED
  BY <1>6, <1>7

(* A registration under way goes on, gives the role or is torn.            *)
LEMMA RegistrationGoesOn ==
  ASSUME RbacInv, [RbacNext]_rbacVars, NEW u \in registered, Registering(u)
  PROVE  Explained(u)'
<1>1. PICK r \in Requests :
        /\ req[r].pc \in Registers
        /\ req[r].user = u /\ req[r].name = origin[u]
  BY DEF Registering, Registers
<1>2. /\ req \in [Requests -> Slot] /\ origin[u] \in DefaultNames
      /\ origin'[u] = origin[u] /\ u \in registered'
      /\ RoleInv /\ SlotOK(req[r]) /\ Sure(req[r])
  BY AccountsGrow DEF RbacInv, SlotInv, AccountInv
<1>3. ASSUME req'[r].pc \in Registers, req'[r].user = u, req'[r].name = origin[u]
      PROVE  Explained(u)'
  BY <1>2, <1>3 DEF Explained, Registering, Registers
<1>4. ~AdminRequest(r)
  BY <1>1 DEF AdminRequest, CreateRoleCheck, UpdateRoleRead, DeleteRoleRead,
       CreatePermissionCheck, DeletePermissionRead, AssignPermissionCheck,
       RevokePermissionRead, AssignRoleCheck, RevokeRoleRead, Begin, Registers
<1>5. CASE req'[r] = req[r]
  BY <1>1, <1>3, <1>5
<1>6. CASE Register(r)
  <2>1. VerifyAdmin(r) \/ FindRole(r)
    BY <1>1, <1>6 DEF Register, RegisterCheck, CreateUser, Begin, At, Registers
  <2>2. CASE VerifyAdmin(r)
    <3>1. req' = [req EXCEPT ![r].pc = "find_role"]
      BY <2>2 DEF VerifyAdmin
    <3>2. /\ req'[r].pc = "find_role" /\ req'[r].user = u
          /\ req'[r].name = origin[u]
      BY <1>1, <1>2, <3>1 DEF Slot
    <3> QED
      BY <1>3, <3>2 DEF Registers
  <2>3. CASE FindRole(r)
    <3> DEFINE found == {i \in RoleIds : role[i] = origin[u] /\ ~Assigned(u, i)}
    <3>1. CASE found = {}
      <4>1. PICK i \in RoleIds : role[i] = origin[u]
        BY <1>2, DefaultRole
      <4>2. Assigned(u, i)
        BY <3>1, <4>1
      <4>3. HasRoleNamed(u, origin[u])
        BY <4>1, <4>2 DEF HasRoleNamed
      <4> QED
        BY <4>3, RoleHeld
    <3>2. ASSUME NEW i \in RoleIds,
                 req' = [req EXCEPT ![r].pc = "insert_assignment", ![r].role = i]
          PROVE  Explained(u)'
      <4>1. /\ req'[r].pc = "insert_assignment" /\ req'[r].user = u
            /\ req'[r].name = origin[u]
        BY <1>1, <1>2, <3>2 DEF Slot
      <4> QED
        BY <1>3, <4>1 DEF Registers
    <3> QED
      BY <1>1, <2>3, <3>1, <3>2 DEF FindRole
  <2> QED
    BY <2>1, <2>2, <2>3
<1>7. CASE Write(r)
  <2>1. PICK x \in RowIds : InsertUserRole(r, x)
    BY <1>1, <1>7 DEF Write, InsertRole, RenameRole, DeleteRole, InsertPermission,
         DeletePermission, InsertRolePermission, DeleteRolePermission,
         DeleteUserRole, At, Registers
  <2>2. req[r].pc = "insert_assignment" /\ origin[u] # NoName
    BY <1>2, <2>1, Seeds DEF InsertUserRole, At
  <2> DEFINE i == req[r].role
  <2>3. /\ i \in RoleIds /\ i <= Seeded /\ SeedRoles[i] = origin[u]
    BY <1>1, <1>2, <2>2 DEF SlotOK, Sure
  <2>4. i \in 1 .. Seeded
    BY <2>3, Seeds, BoundsOK DEF RoleIds
  <2>5. role[i] = origin[u]
    BY <1>2, <2>3, <2>4, DefaultsUsed
  <2>6. CASE Assigned(u, i)
    <3>1. HasRoleNamed(u, origin[u])
      BY <2>3, <2>5, <2>6 DEF HasRoleNamed
    <3> QED
      BY <3>1, RoleHeld
  <2>7. CASE ~Assigned(u, i)
    <3>1. userRole' = [userRole EXCEPT ![x] =
            [user |-> u, role |-> i, live |-> TRUE,
             by |-> IF origin[u] = NoName THEN "admin" ELSE "registration"]]
      BY <1>1, <1>2, <2>1, <2>2, <2>5, <2>7 DEF InsertUserRole
    <3>2. x \in DOMAIN userRole
      BY DEF RbacInv, UserRoleInv
    <3>3. /\ userRole'[x].user = u /\ userRole'[x].role = i /\ userRole'[x].live
      BY <3>1, <3>2
    <3>4. userRole'[x] # NoRow
      <4>1. userRole'[x] = NoRow \/ userRole'[x] \in Assignment
        BY UserRows
      <4>2. [user |-> u, role |-> i, live |-> TRUE,
             by |-> IF origin[u] = NoName THEN "admin" ELSE "registration"]
            \in Assignment
        BY <1>2, <2>3 DEF Assignment, RbacInv, AccountInv
      <4> QED
        BY <3>1, <3>2, <4>2, NullsAreOutside
    <3>5. role'[i] = origin'[u]
      BY <1>2, <2>3, <2>5, SeededRoleKept
    <3> QED
      BY <2>3, <3>3, <3>4, <3>5 DEF Explained, HasRoleNamed, Assigned, HasRow
  <2> QED
    BY <2>6, <2>7
<1>8. CASE Abort(r)
  <2>1. u \in torn'
    BY <1>1, <1>2, <1>8 DEF Abort, Registers
  <2> QED
    BY <2>1 DEF Explained
<1> QED
  BY <1>4, <1>5, <1>6, <1>7, <1>8, WhoActs

(* A new account is one whose registration has just begun.                 *)
LEMMA NewAccount ==
  ASSUME RbacInv, [RbacNext]_rbacVars, NEW u \in registered', u \notin registered
  PROVE  Explained(u)'
<1>1. PICK r \in Requests : CreateUser(r) /\ u = req[r].user
  <2>1. PICK r \in Requests : CreateUser(r) \/ VerifyAdmin(r)
    BY WhoWrites
  <2> QED
    BY <2>1 DEF CreateUser, VerifyAdmin
<1>2. /\ req' = [req EXCEPT ![r].pc = AfterCreation(req[r].name)]
      /\ origin' = [origin EXCEPT ![u] = req[r].name]
  BY <1>1 DEF CreateUser
<1>3. req \in [Requests -> Slot] /\ u \in Users /\ origin \in [Users -> DefaultNames \cup {NoName}]
      /\ AccountInv'
  BY RbacInvStep DEF RbacInv, SlotInv, AccountInv
<1>4. AfterCreation(req[r].name) \in {"verify_admin", "find_role"}
  BY DEF AfterCreation
<1>5. /\ req'[r].pc = AfterCreation(req[r].name)
      /\ req'[r].user = u /\ req'[r].name = req[r].name
  BY <1>1, <1>2, <1>3 DEF Slot
<1>6. origin'[u] = req[r].name
  BY <1>2, <1>3
<1> QED
  BY <1>4, <1>5, <1>6 DEF Explained, Registering

LEMMA RolelessStep ==
  RbacInv /\ RolelessExplained /\ [RbacNext]_rbacVars => RolelessExplained'
<1> SUFFICES ASSUME RbacInv, RolelessExplained, [RbacNext]_rbacVars,
                    NEW u \in registered'
             PROVE  Explained(u)'
  BY DEF RolelessExplained, Explained
<1>1. CASE u \notin registered
  BY <1>1, NewAccount
<1>2. CASE u \in registered
  <2>1. Explained(u)
    BY <1>2 DEF RolelessExplained, Explained
  <2>2. CASE u \in torn
    <3>1. u \in torn'
      BY <2>2, WhoWrites DEF Abort
    <3> QED
      BY <3>1 DEF Explained
  <2> QED
    BY <1>2, <2>1, <2>2, RoleHeld, RegistrationGoesOn DEF Explained
<1> QED
  BY <1>1, <1>2

(* Who takes a row of user_roles away.                                     *)
LEMMA RowTaken ==
  ASSUME RbacInv, [RbacNext]_rbacVars, NEW x \in RowIds,
         HasRow(userRole, x), ~HasRow(userRole, x)'
  PROVE  \E r \in Requests :
           \/ req[r].pc = "delete_assignment" /\ req[r].row = x
           \/ req[r].pc = "delete_role" /\ req[r].role = userRole[x].role
<1>1. /\ userRole[x] \in Assignment /\ userRole[x] # NoRow
      /\ userRole'[x] # userRole[x]
      /\ x \in DOMAIN userRole
  BY DEF RbacInv, UserRoleInv, HasRow
<1>2. ASSUME NEW r \in Requests, DeleteRole(r)
      PROVE  req[r].pc = "delete_role" /\ req[r].role = userRole[x].role
  BY <1>1, <1>2 DEF DeleteRole, Without, At
<1>3. ASSUME NEW r \in Requests, DeleteUserRole(r)
      PROVE  req[r].pc = "delete_assignment" /\ req[r].row = x
  BY <1>1, <1>3 DEF DeleteUserRole, Without, At
<1>4. ASSUME NEW r \in Requests, NEW y \in RowIds, InsertUserRole(r, y)
      PROVE  FALSE
  <2>1. y # x
    BY <1>1, <1>4 DEF InsertUserRole, NextRow
  <2> QED
    BY <1>1, <1>4, <2>1 DEF InsertUserRole, RbacInv, UserRoleInv
<1> QED
  BY <1>1, <1>2, <1>3, <1>4, WhoWrites

-----------------------------------------------------------------------------
(* Identifiers: what refers to one has it from a row, so it is seeded or   *)
(* one the sequence has passed.                                            *)

RoleGiven(i) == i < nextRole \/ i <= Seeded
PermGiven(p) == p < nextPerm \/ p <= Len(SeedPerms)

RefInv ==
  /\ \A r \in Requests : /\ req[r].role # 0 => RoleGiven(req[r].role)
                         /\ req[r].perm # 0 => PermGiven(req[r].perm)
  /\ \A x \in RowIds : userRole[x] # NoRow => RoleGiven(userRole[x].role)
  /\ \A x \in GrantIds : rolePerm[x] # NoRow =>
        RoleGiven(rolePerm[x].role) /\ PermGiven(rolePerm[x].perm)

LEMMA IdsAreNumbers ==
  RbacInv => /\ nextRole \in Nat /\ nextPerm \in Nat
             /\ Seeded \in Nat /\ Len(SeedPerms) \in Nat
             /\ \A i \in RoleIds : i \in Nat /\ i # 0
             /\ \A p \in PermIds : p \in Nat /\ p # 0
BY BoundsOK, SeedsOK, Seeds DEF RbacInv, RoleInv, PermInv, RoleIds, PermIds

LEMMA RowsGiven ==
  ASSUME RbacInv
  PROVE  /\ \A i \in RoleIds : role[i] # NoName => RoleGiven(i)
         /\ \A p \in PermIds : perm[p] # NoName => PermGiven(p)
BY IdsAreNumbers DEF RbacInv, RoleInv, PermInv, RoleGiven, PermGiven

LEMMA RoleDrawn ==
  ASSUME RbacInv, [RbacNext]_rbacVars, NEW i \in RoleIds,
         role[i] = NoName, role'[i] # NoName
  PROVE  i = nextRole
<1>0. RoleInv /\ \A r \in Requests : SlotOK(req[r])
  BY DEF RbacInv, SlotInv
<1>1. ASSUME NEW r \in Requests, InsertRole(r)
      PROVE  i = nextRole
  BY <1>0, <1>1 DEF InsertRole, RoleInv
<1>2. ASSUME NEW r \in Requests PROVE ~RenameRole(r) /\ ~DeleteRole(r)
  BY <1>0, <1>2 DEF RenameRole, DeleteRole, RoleInv
<1> QED
  BY <1>1, <1>2, WhoWrites

LEMMA RoleSequence ==
  ASSUME RbacInv, [RbacNext]_rbacVars
  PROVE  nextRole <= nextRole'
<1>1. nextRole' \in {nextRole, nextRole + 1}
  BY WhoWrites DEF InsertRole, RenameRole, DeleteRole
<1> QED
  BY <1>1, IdsAreNumbers

(* What is given stays given, and is not drawn.                            *)
LEMMA GivenStays ==
  ASSUME RbacInv, [RbacNext]_rbacVars
  PROVE  /\ \A i \in RoleIds : RoleGiven(i) => RoleGiven(i)'
         /\ \A p \in PermIds : PermGiven(p) => PermGiven(p)'
<1>1. RbacInv'
  BY RbacInvStep
<1>2. nextRole' \in Nat /\ nextPerm' \in Nat
  BY <1>1, BoundsOK DEF RbacInv, RoleInv, PermInv
<1> QED
  BY <1>2, IdsAreNumbers, RoleSequence, PermSequence DEF RoleGiven, PermGiven

LEMMA GivenNotDrawn ==
  ASSUME RbacInv, [RbacNext]_rbacVars
  PROVE  /\ \A i \in RoleIds :
              role[i] = NoName /\ role'[i] # NoName => ~RoleGiven(i)
         /\ \A p \in PermIds :
              perm[p] = NoName /\ perm'[p] # NoName /\ PermGiven(p) =>
                p <= Len(SeedPerms)
<1>1. ASSUME NEW i \in RoleIds, role[i] = NoName, role'[i] # NoName
      PROVE  ~RoleGiven(i)
  <2>1. i = nextRole
    BY <1>1, RoleDrawn
  <2>2. i > Seeded
    <3>1. ~(i \in 1 .. Seeded)
      BY <1>1, DefaultsUsed, Seeds DEF RbacInv
    <3> QED
      BY <3>1, IdsAreNumbers
  <2> QED
    BY <2>1, <2>2, IdsAreNumbers DEF RoleGiven
<1>2. ASSUME NEW p \in PermIds, perm[p] = NoName, perm'[p] # NoName
      PROVE  p = nextPerm
  BY <1>2, PermDrawn
<1> QED
  BY <1>1, <1>2, IdsAreNumbers DEF PermGiven

(* What a slot can come to refer to.                                       *)
LEMMA NewReferences ==
  ASSUME RbacInv, [RbacNext]_rbacVars, NEW q \in Requests
  PROVE  /\ \/ req'[q].role \in {0, req[q].role}
            \/ req'[q].role \in RoleIds /\ role[req'[q].role] # NoName
            \/ \E x \in RowIds : /\ userRole[x] # NoRow
                                 /\ req'[q].role = userRole[x].role
         /\ \/ req'[q].perm \in {0, req[q].perm}
            \/ req'[q].perm \in PermIds /\ perm[req'[q].perm] # NoName
<1> DEFINE Same == req'[q].role \in {0, req[q].role} /\ req'[q].perm \in {0, req[q].perm}
<1>0. req \in [Requests -> Slot] /\ NoName \notin Names
  BY Seeds DEF RbacInv, SlotInv
<1>1. ASSUME NEW r \in Requests, Finish(r) PROVE Same
  BY <1>0, <1>1 DEF Finish, Idle
<1>2. ASSUME NEW r \in Requests, Write(r) \/ Abort(r) PROVE Same
  BY <1>1, <1>2 DEF Write, Abort, InsertRole, RenameRole, DeleteRole,
       InsertPermission, DeletePermission, InsertRolePermission,
       DeleteRolePermission, InsertUserRole, DeleteUserRole
<1>3. ASSUME NEW r \in Requests, NEW s, Begin(r, s)
      PROVE  req'[q] = req[q] \/ req'[q] = s
  BY <1>0, <1>3 DEF Begin
<1>4. ASSUME NEW r \in Requests, AdminRequest(r)
      PROVE  \/ req'[q] = req[q]
             \/ req'[q].role = 0 /\ req'[q].perm = 0
             \/ /\ req'[q].role \in RoleIds /\ role[req'[q].role] # NoName
                /\ req'[q].perm = 0
             \/ /\ req'[q].perm \in PermIds /\ perm[req'[q].perm] # NoName
                /\ req'[q].role = 0
             \/ /\ req'[q].role \in RoleIds /\ role[req'[q].role] # NoName
                /\ req'[q].perm \in PermIds /\ perm[req'[q].perm] # NoName
             \/ /\ req'[q].perm = 0
                /\ \E x \in RowIds : /\ userRole[x] # NoRow
                                     /\ req'[q].role = userRole[x].role
  <2>1. ASSUME NEW n \in Names, CreateRoleCheck(r, n)
        PROVE  req'[q] = req[q] \/ (req'[q].role = 0 /\ req'[q].perm = 0)
    BY <1>3, <2>1 DEF CreateRoleCheck, Idle
  <2>2. ASSUME NEW i \in RoleIds, NEW n \in Names, UpdateRoleRead(r, i, n)
        PROVE  req'[q] = req[q] \/ (req'[q].role = i /\ role[i] # NoName /\ req'[q].perm = 0)
    BY <1>3, <2>2 DEF UpdateRoleRead, Idle
  <2>3. ASSUME NEW i \in RoleIds, DeleteRoleRead(r, i)
        PROVE  req'[q] = req[q] \/ (req'[q].role = i /\ role[i] # NoName /\ req'[q].perm = 0)
    BY <1>3, <2>3 DEF DeleteRoleRead, Idle
  <2>4. ASSUME NEW n \in PermNames, CreatePermissionCheck(r, n)
        PROVE  req'[q] = req[q] \/ (req'[q].role = 0 /\ req'[q].perm = 0)
    BY <1>3, <2>4 DEF CreatePermissionCheck, Idle
  <2>5. ASSUME NEW p \in PermIds, DeletePermissionRead(r, p)
        PROVE  req'[q] = req[q] \/ (req'[q].perm = p /\ perm[p] # NoName /\ req'[q].role = 0)
    BY <1>3, <2>5 DEF DeletePermissionRead, Idle
  <2>6. ASSUME NEW i \in RoleIds, NEW p \in PermIds, AssignPermissionCheck(r, i, p)
        PROVE  \/ req'[q] = req[q]
               \/ /\ req'[q].role = i /\ role[i] # NoName
                  /\ req'[q].perm = p /\ perm[p] # NoName
    BY <1>3, <2>6 DEF AssignPermissionCheck, Idle
  <2>7. ASSUME NEW x \in GrantIds, RevokePermissionRead(r, x)
        PROVE  req'[q] = req[q] \/ (req'[q].role = 0 /\ req'[q].perm = 0)
    BY <1>3, <2>7 DEF RevokePermissionRead, Idle
  <2>8. ASSUME NEW u \in Users, NEW i \in RoleIds, AssignRoleCheck(r, u, i)
        PROVE  req'[q] = req[q] \/ (req'[q].role = i /\ role[i] # NoName /\ req'[q].perm = 0)
    BY <1>3, <2>8 DEF AssignRoleCheck, Idle
  <2>9. ASSUME NEW x \in RowIds, RevokeRoleRead(r, x)
        PROVE  \/ req'[q] = req[q]
               \/ /\ req'[q].perm = 0 /\ userRole[x] # NoRow
                  /\ req'[q].role = userRole[x].role
    <3> DEFINE s == [Idle EXCEPT !.pc = "delete_assignment", !.row = x,
                       !.user = userRole[x].user, !.role = userRole[x].role]
    <3>1. s.perm = 0 /\ s.role = userRole[x].role
      BY DEF Idle
    <3>2. Begin(r, s) /\ userRole[x] # NoRow
      BY <2>9 DEF RevokeRoleRead, HasRow
    <3> HIDE DEF s
    <3> QED
      BY <1>3, <3>1, <3>2
  <2> QED
    BY <1>4, <2>1, <2>2, <2>3, <2>4, <2>5, <2>6, <2>7, <2>8, <2>9 DEF AdminRequest
<1>5. ASSUME NEW r \in Requests, Register(r)
      PROVE  /\ \/ req'[q].role \in {0, req[q].role}
                \/ req'[q].role \in RoleIds /\ role[req'[q].role] # NoName
             /\ req'[q].perm \in {0, req[q].perm}
  <2>1. ASSUME NEW u \in Users, NEW n \in {DefaultName, AdminName}, RegisterCheck(r, u, n)
        PROVE  Same
    BY <1>3, <2>1 DEF RegisterCheck, Idle
  <2>2. ASSUME NEW pc, req' = [req EXCEPT ![r].pc = pc] PROVE Same
    BY <1>0, <2>2 DEF Slot
  <2>3. CreateUser(r) \/ VerifyAdmin(r) => Same
    BY <1>1, <2>2 DEF CreateUser, VerifyAdmin
  <2>4. ASSUME NEW i \in RoleIds, role[i] # NoName,
               req' = [req EXCEPT ![r].pc = "insert_assignment", ![r].role = i]
        PROVE  req'[q].role \in {i, req[q].role} /\ req'[q].perm = req[q].perm
    BY <1>0, <2>4 DEF Slot
  <2>5. CASE FindRole(r)
    <3>1. req[r].name # NoName
      BY <2>5, Seeds DEF FindRole, At, RbacInv, SlotInv, Sure
    <3> QED
      BY <1>1, <2>4, <2>5, <3>1 DEF FindRole
  <2> QED
    BY <1>5, <2>1, <2>3, <2>5 DEF Register
<1>6. CASE UNCHANGED rbacVars
  BY <1>6 DEF rbacVars
<1> QED
  BY <1>2, <1>4, <1>5, <1>6 DEF RbacNext

LEMMA RefStep == RbacInv /\ RefInv /\ [RbacNext]_rbacVars => RefInv'
<1> SUFFICES ASSUME RbacInv, RefInv, [RbacNext]_rbacVars PROVE RefInv'
  OBVIOUS
<1>0. /\ req \in [Requests -> Slot] /\ req' \in [Requests -> Slot]
      /\ \A r \in Requests : SlotOK(req[r])
      /\ userRole \in [RowIds -> Assignment \cup {NoRow}]
      /\ rolePerm \in [GrantIds -> Grant \cup {NoRow}]
  BY RbacInvStep DEF RbacInv, SlotInv, UserRoleInv, RolePermInv
<1>1. ASSUME NEW q \in Requests
      PROVE  /\ req'[q].role # 0 => RoleGiven(req[q].role)'
             /\ req'[q].perm # 0 => PermGiven(req[q].perm)'
  <2>1. /\ req'[q].role \in {0} \cup RoleIds
        /\ req'[q].perm \in {0} \cup PermIds
    BY <1>0 DEF Slot
  <2>2. req'[q].role # 0 => RoleGiven(req'[q].role)
    BY <2>1, NewReferences, RowsGiven DEF RefInv
  <2>3. req'[q].perm # 0 => PermGiven(req'[q].perm)
    BY <2>1, NewReferences, RowsGiven DEF RefInv
  <2> QED
    BY <2>1, <2>2, <2>3, GivenStays DEF RoleGiven, PermGiven
<1>2. ASSUME NEW x \in RowIds, userRole'[x] # NoRow
      PROVE  RoleGiven(userRole[x].role)'
  <2>1. CASE userRole[x] # NoRow
    <3>1. userRole'[x].role = userRole[x].role /\ userRole[x].role \in RoleIds
      BY <1>0, <2>1, UserRows DEF Assignment
    <3> QED
      BY <2>1, <3>1, GivenStays DEF RefInv, RoleGiven
  <2>2. CASE userRole[x] = NoRow
    <3>0. PICK r \in Requests :
            /\ InsertUserRole(r, x)
            /\ userRole'[x] = [user |-> req[r].user, role |-> req[r].role,
                 live |-> TRUE, by |-> IF req[r].name = NoName THEN "admin"
                                       ELSE "registration"]
      BY <1>2, <2>2, UserRows
    <3>1. InsertUserRole(r, x) /\ userRole'[x].role = req[r].role
      BY <3>0
    <3>2. req[r].role \in RoleIds
      BY <1>0, <3>1 DEF InsertUserRole, At, SlotOK
    <3> QED
      BY <3>1, <3>2, GivenStays, IdsAreNumbers DEF RefInv, RoleGiven
  <2> QED
    BY <2>1, <2>2
<1>3. ASSUME NEW x \in GrantIds, rolePerm'[x] # NoRow
      PROVE  RoleGiven(rolePerm[x].role)' /\ PermGiven(rolePerm[x].perm)'
  <2>1. CASE rolePerm[x] # NoRow
    <3>1. /\ rolePerm'[x].role = rolePerm[x].role /\ rolePerm[x].role \in RoleIds
          /\ rolePerm'[x].perm = rolePerm[x].perm /\ rolePerm[x].perm \in PermIds
      BY <1>0, <2>1, GrantRows DEF Grant
    <3> QED
      BY <2>1, <3>1, GivenStays DEF RefInv, RoleGiven, PermGiven
  <2>2. CASE rolePerm[x] = NoRow
    <3>0. PICK r \in Requests :
            /\ InsertRolePermission(r, x)
            /\ rolePerm'[x] = [role |-> req[r].role, perm |-> req[r].perm,
                               live |-> TRUE]
      BY <1>3, <2>2, GrantRows
    <3>1. /\ InsertRolePermission(r, x)
          /\ rolePerm'[x].role = req[r].role /\ rolePerm'[x].perm = req[r].perm
      BY <3>0
    <3>2. req[r].role \in RoleIds /\ req[r].perm \in PermIds
      BY <1>0, <3>1 DEF InsertRolePermission, At, SlotOK
    <3> QED
      BY <3>1, <3>2, GivenStays, IdsAreNumbers DEF RefInv, RoleGiven, PermGiven
  <2> QED
    BY <2>1, <2>2
<1> QED
  BY <1>1, <1>2, <1>3 DEF RefInv

LEMMA RefInit == Init => RefInv
<1> SUFFICES ASSUME Init PROVE RefInv
  OBVIOUS
<1>1. \A r \in Requests : req[r].role = 0 /\ req[r].perm = 0
  BY DEF Init, Quiet, Idle
<1>2. \A x \in RowIds : userRole[x] = NoRow
  BY DEF Init
<1>3. ASSUME NEW x \in GrantIds, rolePerm[x] # NoRow
      PROVE  RoleGiven(rolePerm[x].role) /\ PermGiven(rolePerm[x].perm)
  <2>1. x \in 1 .. Len(SeedGrants)
        /\ rolePerm[x].role = SeedGrants[x][1] /\ rolePerm[x].perm = SeedGrants[x][2]
    BY <1>3, SeedsOK, BoundsOK DEF Init, Migrated, GrantIds
  <2>2. SeedGrants[x][1] \in 1 .. Seeded /\ SeedGrants[x][2] \in 1 .. Len(SeedPerms)
    BY <2>1, SeedsOK DEF Seeded
  <2> QED
    BY <2>1, <2>2, Seeds, SeedsOK DEF RoleGiven, PermGiven
<1> QED
  BY <1>1, <1>2, <1>3 DEF RefInv

LEMMA RefsAreNew ==
  ASSUME RbacInv, RefInv, [RbacNext]_rbacVars
  PROVE  /\ \A i \in RoleIds :
              role[i] = NoName /\ role'[i] # NoName => ~RoleReferenced(i)
         /\ \A p \in PermIds :
              perm[p] = NoName /\ perm'[p] # NoName =>
                ~PermReferenced(p) \/ p <= Len(SeedPerms)
<1>1. \A i \in RoleIds : RoleReferenced(i) => RoleGiven(i)
  BY IdsAreNumbers DEF RefInv, RoleReferenced
<1>2. \A p \in PermIds : PermReferenced(p) => PermGiven(p)
  BY IdsAreNumbers DEF RefInv, PermReferenced
<1> QED
  BY <1>1, <1>2, GivenNotDrawn

-----------------------------------------------------------------------------
(***************************************************************************)
(* Types, unique names and referential integrity, for any seeds.           *)
(***************************************************************************)
THEOREM RbacTypes == RbacSpec => []TypeOK
BY RbacInvariant, RbacInvGives, PTL

(***************************************************************************)
(* The default roles keep their rows and their names, whatever requests    *)
(* rename, delete and create at once.                                      *)
(***************************************************************************)
THEOREM DefaultRolesStay == RbacSpec => []DefaultRolesKept
<1>1. RbacInv => DefaultRolesKept
  BY DEF RbacInv, RoleInv
<1> QED
  BY <1>1, RbacInvariant, PTL

(***************************************************************************)
(* Who has the admin role registered with the secret or was given it.      *)
(***************************************************************************)
THEOREM Admins == RbacSpec => []AdminsExplained
BY RbacInvariant, RbacInvGives, PTL

(***************************************************************************)
(* At most as many create_role requests fail on an id as roles were seeded.*)
(***************************************************************************)
THEOREM Collisions == RbacSpec => []CollisionsBounded
<1>1. RbacInv => CollisionsBounded
  BY DEF RbacInv, RoleInv, CollisionsBounded, Seeded
<1> QED
  BY <1>1, RbacInvariant, PTL

(***************************************************************************)
(* An account without its role is one whose registration is under way or   *)
(* was cut short, or one that lost the role to an administrator.           *)
(***************************************************************************)
THEOREM Roleless == RbacSpec => []RolelessExplained
<1>1. Init => RolelessExplained
  BY DEF Init, RolelessExplained
<1> QED
  BY <1>1, RolelessStep, RbacInvariant, PTL DEF RbacSpec

(***************************************************************************)
(* A stale revocation takes no newer assignment along.                     *)
(***************************************************************************)
THEOREM NewerSurvive == RbacSpec => NewerAssignmentSurvives
<1>1. RbacInv /\ [RbacNext]_rbacVars =>
        [\A x \in RowIds : HasRow(userRole, x) /\ ~HasRow(userRole', x) =>
           \E r \in Requests :
              \/ req[r].pc = "delete_assignment" /\ req[r].row = x
              \/ req[r].pc = "delete_role" /\ req[r].role = userRole[x].role
        ]_rbacVars
  BY RowTaken DEF HasRow
<1> QED
  BY <1>1, RbacInvariant, PTL DEF RbacSpec, NewerAssignmentSurvives

(***************************************************************************)
(* Nothing refers to an id that is drawn, so no request writes about a row *)
(* that came in the place of the one it checked, except a permission that  *)
(* took the id of a seeded one.                                            *)
(***************************************************************************)
THEOREM IdsAreNew == RbacSpec => DrawnIdsAreNew
<1>1. RbacSpec => []RefInv
  BY RefInit, RefStep, RbacInvariant, PTL DEF RbacSpec
<1>2. RbacInv /\ RefInv /\ [RbacNext]_rbacVars =>
        [/\ \A i \in RoleIds :
              role[i] = NoName /\ role'[i] # NoName => ~RoleReferenced(i)
         /\ \A p \in PermIds :
              perm[p] = NoName /\ perm'[p] # NoName =>
                 ~PermReferenced(p) \/ p <= Len(SeedPerms)
        ]_rbacVars
  BY RefsAreNew
<1> QED
  BY <1>1, <1>2, RbacInvariant, PTL DEF RbacSpec, DrawnIdsAreNew

=============================================================================
