\* One address, two requests at once, every route, the two roles that
\* registration gives and an id and two names for another one, one permission,
\* two rows of user_roles and one of role_permissions.
CONSTANTS
  editor = editor
  auditor = auditor
  Users = {u1}
  Requests = {r1, r2}
  Names = {"admin", "user", editor, auditor}
  PermNames = {"read"}
  SeedRoles <- MCSeedRoles
  SeedPerms <- MCSeedPerms
  SeedGrants <- MCSeedGrants
  MaxRoles = 3
  MaxPerms = 1
  MaxRows = 2
  MaxGrants = 1
  Routes = {"register", "create_role", "update_role", "delete_role", "create_permission", "delete_permission", "assign_permission", "revoke_permission", "assign_role", "revoke_role"}
  NoUser = NoUser
  NoName = NoName
  NoRow = NoRow
SPECIFICATION RbacSpec
SYMMETRY Symmetry
INVARIANTS
  TypeOK
  DefaultRolesKept
  AdminsExplained
  RolelessExplained
  CollisionsBounded
PROPERTIES
  NewerAssignmentSurvives
  DrawnIdsAreNew
