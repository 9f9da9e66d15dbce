\* One account, two requests at once, three refresh tokens: a token and as
\* many successors as the two requests can obtain for it.
CONSTANTS
  Users = {u1}
  Passwords = {p1}
  Requests = {r1, r2}
  Jtis = {j1, j2, j3}
  NoUser = NoUser
  NoPassword = NoPassword
  NoJti = NoJti
SPECIFICATION Spec
SYMMETRY Symmetry
INVARIANTS
  TypeOK
  NeverBothUsable
  FanOutBounded
  SurvivorsExplained
  LateTokensBounded
PROPERTIES
  RevocationIsFinal
  ImplementsLedger
