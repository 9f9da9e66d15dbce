\* All four routes: one account, two requests at once, two codes, and time
\* for a code to expire and to leave the resend window.
CONSTANTS
  Users = {u1}
  Requests = {r1, r2}
  OtpIds = {o1, o2}
  MaxVerifyAttempts = 1
  MaxResends = 1
  OtpLife = 1
  ResendWindow = 1
  MaxTime = 2
  Endpoints = {"register", "resend-otp", "forgot-password", "verify-otp"}
  NoUser = NoUser
  NoOtp = NoOtp
SPECIFICATION Spec
SYMMETRY Symmetry
INVARIANTS
  TypeOK
  AcceptsBounded
  OnlyByCode
PROPERTY
  ExpiryCutsOff
