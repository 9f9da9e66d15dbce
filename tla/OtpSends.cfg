\* Codes being sent: room for two more than the limit, and time for the
\* first ones to leave the window.
CONSTANTS
  Users = {u1}
  Requests = {r1, r2}
  OtpIds = {o1, o2, o3, o4}
  MaxVerifyAttempts = 1
  MaxResends = 2
  OtpLife = 1
  ResendWindow = 1
  MaxTime = 2
  Endpoints = {"register", "resend-otp", "forgot-password"}
  NoUser = NoUser
  NoOtp = NoOtp
SPECIFICATION Spec
SYMMETRY Symmetry
INVARIANTS
  UnusedBounded
  SendsBounded
