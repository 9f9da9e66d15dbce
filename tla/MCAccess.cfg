\* An administrator and another account, one administration request, one
\* login and one token at a time.
CONSTANTS
  u1 = u1
  u2 = u2
  Users = {u1, u2}
  Accounts <- MCAccounts
  Requests = {r1}
  Names = {"admin", "user"}
  PermNames = {"users:read", "users:delete"}
  SeedRoles <- MCSeedRoles
  SeedPerms <- MCSeedPerms
  SeedGrants <- MCSeedGrants
  MaxRoles = 2
  MaxPerms = 1
  MaxRows = 3
  MaxGrants = 1
  Routes = {"assign_role", "revoke_role", "create_permission", "delete_permission"}
  Logins = {l1}
  Tokens = {t1}
  Lifetime = 1
  NoUser = NoUser
  NoName = NoName
  NoRow = NoRow
SPECIFICATION AccessSpec
INVARIANTS
  AccessTypeOK
  RightsObserved
  RightsComplete
PROPERTIES
  DemotionTakesEffect
  DeletionTakesEffect
