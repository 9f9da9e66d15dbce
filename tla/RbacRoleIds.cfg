\* The same instance, and what the routes that create a role promise.
CONSTANTS
  editor = editor
  auditor = auditor
  Users = {u1}
  Requests = {r1, r2}
  Names = {"admin", "user", editor, auditor}
  PermNames = {"read"}
  SeedRoles <- MCSeedRoles
  SeedPerms <- MCSeedPerms
  SeedGrants <- MCSeedGrants
  MaxRoles = 3
  MaxPerms = 1
  MaxRows = 2
  MaxGrants = 1
  Routes = {"register", "create_role", "update_role", "delete_role", "create_permission", "delete_permission", "assign_permission", "revoke_permission", "assign_role", "revoke_role"}
  NoUser = NoUser
  NoName = NoName
  NoRow = NoRow
SPECIFICATION RbacSpec
SYMMETRY Symmetry
INVARIANT
  RolesCanBeCreated
