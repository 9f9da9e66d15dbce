-------------------------------- MODULE MCOtp --------------------------------
(* Small instances of Otp for TLC.                                         *)
EXTENDS Otp, TLC

(* Slots and rows are interchangeable: no action names one of them.        *)
Symmetry == Permutations(Requests) \cup Permutations(OtpIds)

=============================================================================
