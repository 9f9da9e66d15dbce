\* One request that shows the right code.
CONSTANTS
  Users = {u1}
  Requests = {r1}
  OtpIds = {o1}
  MaxVerifyAttempts = 1
  MaxResends = 1
  OtpLife = 1
  ResendWindow = 1
  MaxTime = 0
  Endpoints = {"register", "verify-otp"}
  NoUser = NoUser
  NoOtp = NoOtp
SPECIFICATION Spec
SYMMETRY Symmetry
INVARIANT
  VerificationAnswered
