\* One code and three requests at once that guess at it.
CONSTANTS
  Users = {u1}
  Requests = {r1, r2, r3}
  OtpIds = {o1}
  MaxVerifyAttempts = 3
  MaxResends = 1
  OtpLife = 1
  ResendWindow = 1
  MaxTime = 0
  Endpoints = {"register", "verify-otp"}
  NoUser = NoUser
  NoOtp = NoOtp
SPECIFICATION Spec
SYMMETRY Symmetry
INVARIANT
  GuessBudget
