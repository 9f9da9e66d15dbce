-------------------------------- MODULE Rbac --------------------------------
(***************************************************************************)
(* Roles and permissions of the RBAC backend: the administration routes    *)
(* and the role a registration gives, over the tables users, roles,        *)
(* permissions, user_roles and role_permissions.                           *)
(*                                                                         *)
(* As in Sessions a request is interrupted at every await, a write and its *)
(* COMMIT are one action, and what a request has read it keeps.  SELECTs   *)
(* of one handler that can only refuse (404, 409) are one action, at the   *)
(* last of them: a request that one of the earlier ones would have let     *)
(* through and the last refuses is refused by a constraint at its write.   *)
(*                                                                         *)
(* UNIQUE and FOREIGN KEY constraints decide at the write.  A refused      *)
(* write is an IntegrityError that no handler catches: a server error, and *)
(* nothing changes but the sequence the identifier came from.              *)
(***************************************************************************)
EXTENDS Naturals, FiniteSets, Sequences

CONSTANTS
  Users,       \* e-mail addresses, each of one account at most
  Requests,    \* slots for requests being served at the same time
  Names,       \* names a role can have
  PermNames,   \* names a permission can have
  SeedRoles,   \* names of the roles migration 006 inserts, as ids 1, 2, ...
  SeedPerms,   \* names of the permissions it inserts, as ids 1, 2, ...
  SeedGrants,  \* pairs <<role id, permission id>>, in the order it inserts them
  MaxRoles,    \* bound on role ids, of the model only
  MaxPerms,    \* bound on permission ids, of the model only
  MaxRows,     \* bound on the keys of user_roles, of the model only
  MaxGrants,   \* bound on the keys of role_permissions, of the model only
  Routes,      \* routes that clients call, to keep instances small
  NoUser, NoName, NoRow

RoleIds  == 1 .. MaxRoles
PermIds  == 1 .. MaxPerms
RowIds   == 1 .. MaxRows
GrantIds == 1 .. MaxGrants

DefaultName  == "user"                      \* RoleNames.DEFAULT
AdminName    == "admin"                     \* RoleNames.ADMIN
DefaultNames == {SeedRoles[i] : i \in 1 .. Len(SeedRoles)}   \* RoleNames.ALL

(***************************************************************************)
(* Rows of the link tables.  A deleted row stays in the model as history,  *)
(* not live; so does who asked for an assignment.                          *)
(***************************************************************************)
Assignment == [user : Users, role : RoleIds, by : {"registration", "admin"},
               live : BOOLEAN]
Grant      == [role : RoleIds, perm : PermIds, live : BOOLEAN]

ASSUME BoundsOK == /\ MaxRoles \in Nat /\ MaxPerms \in Nat
                   /\ MaxRows \in Nat /\ MaxGrants \in Nat

AllRoutes == {"register", "create_role", "update_role", "delete_role",
              "create_permission", "delete_permission", "assign_permission",
              "revoke_permission", "assign_role", "revoke_role"}

ASSUME RoutesOK == Routes \subseteq AllRoutes

ASSUME SeedsOK ==
  /\ SeedRoles \in Seq(Names) /\ Len(SeedRoles) <= MaxRoles
  /\ \A i, k \in 1 .. Len(SeedRoles) : SeedRoles[i] = SeedRoles[k] => i = k
  /\ SeedPerms \in Seq(PermNames) /\ Len(SeedPerms) <= MaxPerms
  /\ \A i, k \in 1 .. Len(SeedPerms) : SeedPerms[i] = SeedPerms[k] => i = k
  /\ SeedGrants \in Seq((1 .. Len(SeedRoles)) \X (1 .. Len(SeedPerms)))
  /\ Len(SeedGrants) <= MaxGrants
  /\ {DefaultName, AdminName} \subseteq DefaultNames

ASSUME NullsAreOutside ==
  /\ NoUser \notin Users /\ NoName \notin Names \cup PermNames
  /\ NoRow \notin Assignment \cup Grant

VARIABLES
  registered,  \* users with a row
  verified,    \* users.is_email_verified
  role,        \* table roles: id -> name
  perm,        \* table permissions: id -> name
  nextRole,    \* sequence behind roles.id
  nextPerm,    \* sequence behind permissions.id
  userRole,    \* table user_roles: key -> row
  rolePerm,    \* table role_permissions: key -> row
  req,         \* per slot: next statement and what the request has read
  \* history, read by no action of the program
  origin,      \* per user: the role its registration is to give
  torn,        \* users whose registration stopped half-way
  collisions   \* create_role requests that failed on a seeded id

accounts == <<registered, verified>>
catalog  == <<role, perm, nextRole, nextPerm>>
links    == <<userRole, rolePerm>>
history  == <<origin, torn, collisions>>
rbacVars == <<accounts, catalog, links, req, history>>

Idle == [pc |-> "idle", user |-> NoUser, role |-> 0, perm |-> 0,
         name |-> NoName, row |-> 0]

PCs == {"idle", "insert_role", "rename_role", "delete_role", "insert_perm",
        "delete_perm", "insert_grant", "delete_grant", "insert_assignment",
        "delete_assignment", "create_user", "verify_admin", "find_role",
        "soft_delete"}    \* the last one in AccessTokens

(***************************************************************************)
(* What migrations 002 and 006 leave in the tables that registration does  *)
(* not fill: the seeded rows name their ids and draw none from the         *)
(* sequences.                                                              *)
(***************************************************************************)
Migrated ==
  /\ role = [i \in RoleIds |-> IF i <= Len(SeedRoles) THEN SeedRoles[i] ELSE NoName]
  /\ perm = [p \in PermIds |-> IF p <= Len(SeedPerms) THEN SeedPerms[p] ELSE NoName]
  /\ nextRole = 1
  /\ nextPerm = 1
  /\ rolePerm = [x \in GrantIds |->
       IF x <= Len(SeedGrants)
       THEN [role |-> SeedGrants[x][1], perm |-> SeedGrants[x][2], live |-> TRUE]
       ELSE NoRow]

Quiet ==
  /\ req = [r \in Requests |-> Idle]
  /\ torn = {}
  /\ collisions = 0

Init ==
  /\ Migrated
  /\ Quiet
  /\ registered = {}
  /\ verified = {}
  /\ userRole = [x \in RowIds |-> NoRow]
  /\ origin = [u \in Users |-> NoName]

Begin(r, slot) == req[r].pc = "idle" /\ req' = [req EXCEPT ![r] = slot]
At(r, pc)      == req[r].pc = pc
Finish(r)      == req' = [req EXCEPT ![r] = Idle]

HasRow(table, x) == table[x] # NoRow /\ table[x].live

Assigned(u, i) == \E x \in RowIds :
  HasRow(userRole, x) /\ userRole[x].user = u /\ userRole[x].role = i

Granted(i, p) == \E x \in GrantIds :
  HasRow(rolePerm, x) /\ rolePerm[x].role = i /\ rolePerm[x].perm = p

(***************************************************************************)
(* Keys come from a sequence, in order.  One that a refused INSERT uses up *)
(* is left out: nothing depends on it.                                     *)
(***************************************************************************)
NextRow(table, x) == /\ table[x] = NoRow
                     /\ \A y \in 1 .. x - 1 : table[y] # NoRow

(* DELETE of the rows with the given keys, those that are still there.     *)
Without(table, gone) ==
  [x \in DOMAIN table |-> IF x \in gone THEN [table[x] EXCEPT !.live = FALSE]
                          ELSE table[x]]

RoleNameUsed(n) == \E i \in RoleIds : role[i] = n
PermNameUsed(n) == \E p \in PermIds : perm[p] = n

-----------------------------------------------------------------------------
(* create_role, update_role, delete_role.                                  *)

CreateRoleCheck(r, n) ==
  /\ "create_role" \in Routes
  /\ ~RoleNameUsed(n)
  /\ Begin(r, [Idle EXCEPT !.pc = "insert_role", !.name = n])
  /\ UNCHANGED <<accounts, catalog, links, history>>

\* Mutant: the identifier goes back to the sequence when the INSERT fails.
InsertRoleRollback(r) ==
  LET n == req[r].name IN
  /\ At(r, "insert_role")
  /\ nextRole <= MaxRoles
  /\ IF role[nextRole] = NoName /\ ~RoleNameUsed(n)
     THEN /\ role' = [role EXCEPT ![nextRole] = n]
          /\ nextRole' = nextRole + 1
          /\ UNCHANGED collisions
     ELSE /\ collisions' = collisions + IF RoleNameUsed(n) THEN 0 ELSE 1
          /\ UNCHANGED <<role, nextRole>>
  /\ Finish(r)
  /\ UNCHANGED <<accounts, perm, nextPerm, links, origin, torn>>

(***************************************************************************)
(* create_role: the id comes from the sequence, which the migration's      *)
(* explicit ids have not moved, and which a failed INSERT does move.       *)
(***************************************************************************)
InsertRole(r) ==
  LET n == req[r].name IN
  /\ At(r, "insert_role")
  /\ nextRole <= MaxRoles
  /\ nextRole' = nextRole + 1
  /\ role' = IF role[nextRole] = NoName /\ ~RoleNameUsed(n)
             THEN [role EXCEPT ![nextRole] = n] ELSE role
  /\ collisions' = collisions + IF role[nextRole] # NoName /\ ~RoleNameUsed(n)
                                THEN 1 ELSE 0
  /\ Finish(r)
  /\ UNCHANGED <<accounts, perm, nextPerm, links, origin, torn>>

\* Mutant: the route checks the new name instead of the role's own.
UnprotectedRename(i, n) == n \notin DefaultNames

MayRename(i, n) == role[i] \notin DefaultNames

(* The ORM writes nothing when the name is the one it has read.            *)
UpdateRoleRead(r, i, n) ==
  /\ "update_role" \in Routes
  /\ role[i] \notin {NoName, n}
  /\ MayRename(i, n)
  /\ Begin(r, [Idle EXCEPT !.pc = "rename_role", !.role = i, !.name = n])
  /\ UNCHANGED <<accounts, catalog, links, history>>

(***************************************************************************)
(* update_role.  No row left: StaleDataError; the name is another role's:  *)
(* IntegrityError.                                                         *)
(***************************************************************************)
RenameRole(r) ==
  LET i == req[r].role
      n == req[r].name
  IN
  /\ At(r, "rename_role")
  /\ role' = IF role[i] # NoName /\ ~RoleNameUsed(n)
             THEN [role EXCEPT ![i] = n] ELSE role
  /\ Finish(r)
  /\ UNCHANGED <<accounts, perm, nextRole, nextPerm, links, history>>

DeleteRoleRead(r, i) ==
  /\ "delete_role" \in Routes
  /\ role[i] \notin DefaultNames \cup {NoName}
  /\ Begin(r, [Idle EXCEPT !.pc = "delete_role", !.role = i])
  /\ UNCHANGED <<accounts, catalog, links, history>>

\* Mutant: the foreign keys do not cascade.
DeleteRoleAlone(r) ==
  /\ At(r, "delete_role")
  /\ role' = [role EXCEPT ![req[r].role] = NoName]
  /\ Finish(r)
  /\ UNCHANGED <<accounts, perm, nextRole, nextPerm, links, history>>

(* ORM cascade and ON DELETE CASCADE take every row that names the role;   *)
(* when the role is gone already the DELETEs find nothing, with a warning. *)
DeleteRole(r) ==
  LET i == req[r].role IN
  /\ At(r, "delete_role")
  /\ role' = [role EXCEPT ![i] = NoName]
  /\ userRole' = Without(userRole,
       {x \in RowIds : HasRow(userRole, x) /\ userRole[x].role = i})
  /\ rolePerm' = Without(rolePerm,
       {x \in GrantIds : HasRow(rolePerm, x) /\ rolePerm[x].role = i})
  /\ Finish(r)
  /\ UNCHANGED <<accounts, perm, nextRole, nextPerm, history>>

-----------------------------------------------------------------------------
(* create_permission, delete_permission.                                   *)

CreatePermissionCheck(r, n) ==
  /\ "create_permission" \in Routes
  /\ ~PermNameUsed(n)
  /\ Begin(r, [Idle EXCEPT !.pc = "insert_perm", !.name = n])
  /\ UNCHANGED <<accounts, catalog, links, history>>

\* Mutant: the database gives the lowest free identifier, as for a plain
\* INTEGER PRIMARY KEY of SQLite.
InsertPermissionReused(r, clash) ==
  LET n == req[r].name IN
  /\ At(r, "insert_perm")
  /\ \E p \in PermIds :
       /\ perm[p] = NoName
       /\ \A q \in 1 .. p - 1 : perm[q] # NoName
       /\ perm' = IF ~PermNameUsed(n) /\ ~clash
                  THEN [perm EXCEPT ![p] = n] ELSE perm
  /\ Finish(r)
  /\ UNCHANGED <<accounts, role, nextRole, nextPerm, links, history>>

(* As InsertRole; clash: another permission has the resource and action.   *)
InsertPermission(r, clash) ==
  LET n == req[r].name IN
  /\ At(r, "insert_perm")
  /\ nextPerm <= MaxPerms
  /\ nextPerm' = nextPerm + 1
  /\ perm' = IF perm[nextPerm] = NoName /\ ~PermNameUsed(n) /\ ~clash
             THEN [perm EXCEPT ![nextPerm] = n] ELSE perm
  /\ Finish(r)
  /\ UNCHANGED <<accounts, role, nextRole, links, history>>

(* No permission is protected, not a seeded one.                           *)
DeletePermissionRead(r, p) ==
  /\ "delete_permission" \in Routes
  /\ perm[p] # NoName
  /\ Begin(r, [Idle EXCEPT !.pc = "delete_perm", !.perm = p])
  /\ UNCHANGED <<accounts, catalog, links, history>>

DeletePermission(r) ==
  LET p == req[r].perm IN
  /\ At(r, "delete_perm")
  /\ perm' = [perm EXCEPT ![p] = NoName]
  /\ rolePerm' = Without(rolePerm,
       {x \in GrantIds : HasRow(rolePerm, x) /\ rolePerm[x].perm = p})
  /\ Finish(r)
  /\ UNCHANGED <<accounts, role, nextRole, nextPerm, userRole, history>>

-----------------------------------------------------------------------------
(* assign_permission_to_role, revoke_permission_from_role.                 *)

AssignPermissionCheck(r, i, p) ==
  /\ "assign_permission" \in Routes
  /\ role[i] # NoName
  /\ perm[p] # NoName
  /\ ~Granted(i, p)
  /\ Begin(r, [Idle EXCEPT !.pc = "insert_grant", !.role = i, !.perm = p])
  /\ UNCHANGED <<accounts, catalog, links, history>>

InsertRolePermission(r, x) ==
  LET i == req[r].role
      p == req[r].perm
  IN
  /\ At(r, "insert_grant")
  /\ NextRow(rolePerm, x)
  /\ rolePerm' = IF role[i] # NoName /\ perm[p] # NoName /\ ~Granted(i, p)
                 THEN [rolePerm EXCEPT ![x] =
                         [role |-> i, perm |-> p, live |-> TRUE]]
                 ELSE rolePerm
  /\ Finish(r)
  /\ UNCHANGED <<accounts, catalog, userRole, history>>

RevokePermissionRead(r, x) ==
  /\ "revoke_permission" \in Routes
  /\ HasRow(rolePerm, x)
  /\ Begin(r, [Idle EXCEPT !.pc = "delete_grant", !.row = x])
  /\ UNCHANGED <<accounts, catalog, links, history>>

DeleteRolePermission(r) ==
  /\ At(r, "delete_grant")
  /\ rolePerm' = Without(rolePerm, {req[r].row})
  /\ Finish(r)
  /\ UNCHANGED <<accounts, catalog, userRole, history>>

-----------------------------------------------------------------------------
(* assign_role_to_user, revoke_role_from_user.                             *)

AssignRoleCheck(r, u, i) ==
  /\ "assign_role" \in Routes
  /\ u \in registered
  /\ role[i] # NoName
  /\ ~Assigned(u, i)
  /\ Begin(r, [Idle EXCEPT !.pc = "insert_assignment", !.user = u, !.role = i])
  /\ UNCHANGED <<accounts, catalog, links, history>>

\* Mutant: the row is added to the session and never committed.
ForgetUserRole(r, x) ==
  /\ At(r, "insert_assignment")
  /\ NextRow(userRole, x)
  /\ Finish(r)
  /\ UNCHANGED <<accounts, catalog, links, history>>

(* The INSERT of assign_role_to_user, the route's and registration's.      *)
InsertUserRole(r, x) ==
  LET u == req[r].user
      i == req[r].role
  IN
  /\ At(r, "insert_assignment")
  /\ NextRow(userRole, x)
  /\ userRole' = IF role[i] # NoName /\ ~Assigned(u, i)
                 THEN [userRole EXCEPT ![x] =
                         [user |-> u, role |-> i, live |-> TRUE,
                          by |-> IF req[r].name = NoName THEN "admin"
                                 ELSE "registration"]]
                 ELSE userRole
  /\ Finish(r)
  /\ UNCHANGED <<accounts, catalog, rolePerm, history>>

RevokeRoleRead(r, x) ==
  /\ "revoke_role" \in Routes
  /\ HasRow(userRole, x)
  /\ Begin(r, [Idle EXCEPT !.pc = "delete_assignment", !.row = x,
                           !.user = userRole[x].user, !.role = userRole[x].role])
  /\ UNCHANGED <<accounts, catalog, links, history>>

\* Mutant: the DELETE names the user and the role, not the row that was read.
DeleteUserRoleByPair(r) ==
  /\ At(r, "delete_assignment")
  /\ userRole' = Without(userRole,
       {x \in RowIds : /\ HasRow(userRole, x)
                       /\ userRole[x].user = req[r].user
                       /\ userRole[x].role = req[r].role})
  /\ Finish(r)
  /\ UNCHANGED <<accounts, catalog, rolePerm, history>>

DeleteUserRole(r) ==
  /\ At(r, "delete_assignment")
  /\ userRole' = Without(userRole, {req[r].row})
  /\ Finish(r)
  /\ UNCHANGED <<accounts, catalog, rolePerm, history>>

-----------------------------------------------------------------------------
(* register_user and register_admin, up to the role they give; the first   *)
(* code, which only register_user sends, is in Otp.                        *)

RegisterCheck(r, u, n) ==
  /\ "register" \in Routes
  /\ u \notin registered
  /\ Begin(r, [Idle EXCEPT !.pc = "create_user", !.user = u, !.name = n])
  /\ UNCHANGED <<accounts, catalog, links, history>>

AfterCreation(n) == IF n = AdminName THEN "verify_admin" ELSE "find_role"

\* Mutant: an address taken meanwhile is no error, the account is used.
AdoptUser(r) ==
  LET u == req[r].user IN
  /\ At(r, "create_user")
  /\ registered' = registered \cup {u}
  /\ origin' = IF u \in registered THEN origin
               ELSE [origin EXCEPT ![u] = req[r].name]
  /\ req' = [req EXCEPT ![r].pc = AfterCreation(req[r].name)]
  /\ UNCHANGED <<verified, catalog, links, torn, collisions>>

(* create_user: an address registered since the check is an error.         *)
CreateUser(r) ==
  LET u == req[r].user IN
  /\ At(r, "create_user")
  /\ registered' = registered \cup {u}
  /\ IF u \in registered
     THEN Finish(r) /\ UNCHANGED origin
     ELSE /\ origin' = [origin EXCEPT ![u] = req[r].name]
          /\ req' = [req EXCEPT ![r].pc = AfterCreation(req[r].name)]
  /\ UNCHANGED <<verified, catalog, links, torn, collisions>>

(* An administrator's account is verified by a commit of its own.          *)
VerifyAdmin(r) ==
  /\ At(r, "verify_admin")
  /\ verified' = verified \cup {req[r].user}
  /\ req' = [req EXCEPT ![r].pc = "find_role"]
  /\ UNCHANGED <<registered, catalog, links, history>>

(***************************************************************************)
(* assign_role_to_user of the auth repository finds the role by its name;  *)
(* without one, or when the user has it already, there is nothing to do.   *)
(***************************************************************************)
FindRole(r) ==
  LET found == {i \in RoleIds : role[i] = req[r].name
                  /\ ~Assigned(req[r].user, i)}
  IN
  /\ At(r, "find_role")
  /\ IF found = {} THEN Finish(r)
     ELSE \E i \in found :
            req' = [req EXCEPT ![r].pc = "insert_assignment", ![r].role = i]
  /\ UNCHANGED <<accounts, catalog, links, history>>

-----------------------------------------------------------------------------
(* A request ends early at any await, a registration perhaps half-way.     *)
Abort(r) ==
  /\ req[r].pc # "idle"
  /\ torn' = IF req[r].name \in DefaultNames /\ req[r].user \in registered
                /\ req[r].pc \in {"verify_admin", "find_role", "insert_assignment"}
             THEN torn \cup {req[r].user} ELSE torn
  /\ Finish(r)
  /\ UNCHANGED <<accounts, catalog, links, origin, collisions>>

(* The first statements of the administration routes.                      *)
AdminRequest(r) ==
  \/ \E n \in Names : CreateRoleCheck(r, n)
  \/ \E i \in RoleIds, n \in Names : UpdateRoleRead(r, i, n)
  \/ \E i \in RoleIds : DeleteRoleRead(r, i)
  \/ \E n \in PermNames : CreatePermissionCheck(r, n)
  \/ \E p \in PermIds : DeletePermissionRead(r, p)
  \/ \E i \in RoleIds, p \in PermIds : AssignPermissionCheck(r, i, p)
  \/ \E x \in GrantIds : RevokePermissionRead(r, x)
  \/ \E u \in Users, i \in RoleIds : AssignRoleCheck(r, u, i)
  \/ \E x \in RowIds : RevokeRoleRead(r, x)

Register(r) ==
  \/ \E u \in Users, n \in {DefaultName, AdminName} : RegisterCheck(r, u, n)
  \/ CreateUser(r)
  \/ VerifyAdmin(r)
  \/ FindRole(r)

(* The commits.                                                            *)
Write(r) ==
  \/ InsertRole(r)
  \/ RenameRole(r)
  \/ DeleteRole(r)
  \/ \E clash \in BOOLEAN : InsertPermission(r, clash)
  \/ DeletePermission(r)
  \/ \E x \in GrantIds : InsertRolePermission(r, x)
  \/ DeleteRolePermission(r)
  \/ \E x \in RowIds : InsertUserRole(r, x)
  \/ DeleteUserRole(r)

RbacNext ==
  \E r \in Requests : AdminRequest(r) \/ Register(r) \/ Write(r) \/ Abort(r)

RbacSpec == Init /\ [][RbacNext]_rbacVars

-----------------------------------------------------------------------------
(* Properties.                                                             *)

Slot == [pc : PCs, user : Users \cup {NoUser}, role : {0} \cup RoleIds,
         perm : {0} \cup PermIds, name : Names \cup PermNames \cup {NoName},
         row : {0} \cup RowIds \cup GrantIds]

(* A request at a write holds what the write names.                        *)
SlotOK(s) ==
  /\ s.pc \in {"rename_role", "delete_role", "insert_grant",
               "insert_assignment"} => s.role \in RoleIds
  /\ s.pc \in {"delete_perm", "insert_grant"} => s.perm \in PermIds
  /\ s.pc \in {"insert_role", "rename_role"} => s.name \in Names
  /\ s.pc = "insert_perm" => s.name \in PermNames
  /\ s.pc = "delete_grant" => s.row \in GrantIds
  /\ s.pc = "delete_assignment" => s.row \in RowIds
  /\ s.pc \in {"insert_assignment", "create_user", "verify_admin", "find_role",
               "delete_assignment", "soft_delete"} => s.user \in Users

(***************************************************************************)
(* Types of the tables and the slots, and their constraints: names of      *)
(* roles are unique, and every assignment and grant names rows that exist  *)
(* (a role deleted while another request assigns it leaves no dangling     *)
(* row).                                                                   *)
(***************************************************************************)
TypeOK ==
  /\ registered \in SUBSET Users
  /\ verified \in SUBSET registered
  /\ role \in [RoleIds -> Names \cup {NoName}]
  /\ perm \in [PermIds -> PermNames \cup {NoName}]
  /\ nextRole \in 1 .. MaxRoles + 1
  /\ nextPerm \in 1 .. MaxPerms + 1
  /\ userRole \in [RowIds -> Assignment \cup {NoRow}]
  /\ rolePerm \in [GrantIds -> Grant \cup {NoRow}]
  /\ req \in [Requests -> Slot]
  /\ \A r \in Requests : SlotOK(req[r])
  /\ origin \in [Users -> DefaultNames \cup {NoName}]
  /\ torn \in SUBSET Users
  /\ collisions \in Nat
  /\ \A i, k \in RoleIds : role[i] = role[k] /\ role[i] # NoName => i = k
  /\ \A x \in RowIds : HasRow(userRole, x) =>
        role[userRole[x].role] # NoName /\ userRole[x].user \in registered
  /\ \A x \in GrantIds : HasRow(rolePerm, x) =>
        role[rolePerm[x].role] # NoName /\ perm[rolePerm[x].perm] # NoName

(***************************************************************************)
(* The default roles keep their rows and their names, and no other role    *)
(* ever bears one of these names, whatever requests rename, delete and     *)
(* create at once: the gates decide by the name in the token and           *)
(* registration finds its role by it.                                      *)
(***************************************************************************)
DefaultRolesKept ==
  \A i \in RoleIds :
     IF i <= Len(SeedRoles) THEN role[i] = SeedRoles[i]
     ELSE role[i] \notin DefaultNames

(***************************************************************************)
(* An account has the admin role only because register_admin created it    *)
(* (which asks for the secret) or because an administrator assigned the    *)
(* role: two registrations of one address, one of each kind, do not add up.*)
(***************************************************************************)
AdminsExplained ==
  \A x \in RowIds :
     HasRow(userRole, x) /\ role[userRole[x].role] = AdminName =>
        userRole[x].by = "admin" \/ origin[userRole[x].user] = AdminName

Registering(u) ==
  \E r \in Requests :
     /\ req[r].pc \in {"verify_admin", "find_role", "insert_assignment"}
     /\ req[r].user = u /\ req[r].name = origin[u]

HasRoleNamed(u, n) == \E i \in RoleIds : role[i] = n /\ Assigned(u, i)

(* An administrator has revoked the role of that name.                     *)
Stripped(u, n) ==
  \E x \in RowIds : /\ userRole[x] # NoRow
                    /\ ~userRole[x].live
                    /\ userRole[x].user = u
                    /\ role[userRole[x].role] = n

(***************************************************************************)
(* An account without the role its registration gives is one whose         *)
(* registration is in progress or stopped half-way (the commits are        *)
(* separate), or one an administrator has revoked that role from.  An      *)
(* administrator who assigns the same role at once does not lose it.       *)
(***************************************************************************)
RolelessExplained ==
  \A u \in registered :
     \/ HasRoleNamed(u, origin[u])
     \/ Registering(u)
     \/ u \in torn
     \/ Stripped(u, origin[u])

(***************************************************************************)
(* Each create_role that the migration's ids make fail uses up one of      *)
(* them: at most as many fail as roles were seeded, then the sequence is   *)
(* past them.                                                              *)
(***************************************************************************)
CollisionsBounded == collisions <= Len(SeedRoles)

(***************************************************************************)
(* A revocation that read an assignment takes back that assignment: one    *)
(* given after it, to the same user for the same role, stays.  Rows go     *)
(* only by the request that read them or with their role.                  *)
(***************************************************************************)
NewerAssignmentSurvives ==
  [][\A x \in RowIds : HasRow(userRole, x) /\ ~HasRow(userRole', x) =>
        \E r \in Requests :
           \/ req[r].pc = "delete_assignment" /\ req[r].row = x
           \/ req[r].pc = "delete_role" /\ req[r].role = userRole[x].role
    ]_rbacVars

(* Requests under way and link rows, deleted ones too, that name an id.    *)
RoleReferenced(i) ==
  \/ \E r \in Requests : req[r].role = i
  \/ \E x \in RowIds : userRole[x] # NoRow /\ userRole[x].role = i
  \/ \E x \in GrantIds : rolePerm[x] # NoRow /\ rolePerm[x].role = i

PermReferenced(p) ==
  \/ \E r \in Requests : req[r].perm = p
  \/ \E x \in GrantIds : rolePerm[x] # NoRow /\ rolePerm[x].perm = p

(***************************************************************************)
(* A role or permission that is created gets an id that nothing refers to: *)
(* a request that checked one, awaited and writes by its id never writes   *)
(* about another one that came in its place.  Sequences do not go back,    *)
(* but they start below the seeded ids: roles are safe because the seeded  *)
(* ones cannot be deleted, a seeded permission can, and its id comes again.*)
(***************************************************************************)
DrawnIdsAreNew ==
  [][/\ \A i \in RoleIds :
          role[i] = NoName /\ role'[i] # NoName => ~RoleReferenced(i)
     /\ \A p \in PermIds :
          perm[p] = NoName /\ perm'[p] # NoName =>
             ~PermReferenced(p) \/ p <= Len(SeedPerms)
    ]_rbacVars

-----------------------------------------------------------------------------
(* What the repository says and the program does not keep.                 *)

(***************************************************************************)
(* README.md: "List / create roles": a create_role whose name is free is   *)
(* not answered with a server error.                                       *)
(***************************************************************************)
RolesCanBeCreated == collisions = 0

=============================================================================
