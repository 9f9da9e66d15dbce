\* A login that upgrades a legacy hash, and a change_password.
CONSTANTS
  Users = {u1}
  Passwords = {p1, p2}
  Requests = {r1, r2}
  Jtis = {j1}
  NoUser = NoUser
  NoPassword = NoPassword
  NoJti = NoJti
SPECIFICATION Spec
PROPERTY
  OnlyChangeSetsPassword
