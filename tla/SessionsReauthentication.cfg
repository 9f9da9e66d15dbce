\* A login or refresh in flight while change_password revokes.
CONSTANTS
  Users = {u1}
  Passwords = {p1}
  Requests = {r1, r2}
  Jtis = {j1, j2}
  NoUser = NoUser
  NoPassword = NoPassword
  NoJti = NoJti
SPECIFICATION Spec
SYMMETRY Symmetry
INVARIANT
  ReauthenticationForced
