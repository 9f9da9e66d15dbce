----------------------------- MODULE MCSessions -----------------------------
(* Small instances of Sessions for TLC.                                    *)
EXTENDS SessionsRefinement, TLC

(* Slots and identifiers are interchangeable: no action names one of them. *)
Symmetry == Permutations(Requests) \cup Permutations(Jtis)

=============================================================================
