------------------------------ MODULE MCAccess ------------------------------
(* Small instances of AccessTokens for TLC.                                *)
EXTENDS AccessTokens, TLC

(* Only create_permission brings users:delete here, and nobody grants it:  *)
(* a token has it when the id of the seeded permission was drawn again     *)
(* under the login.                                                        *)
MCSeedRoles  == <<"admin", "user">>
MCSeedPerms  == <<"users:read">>
MCSeedGrants == <<<<1, 1>>>>

CONSTANTS u1, u2
MCAccounts == <<<<u1, "admin">>, <<u2, "user">>>>

=============================================================================
