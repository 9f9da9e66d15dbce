------------------------------- MODULE MCRbac -------------------------------
(* Small instances of Rbac for TLC.                                        *)
EXTENDS Rbac, TLC

CONSTANTS editor, auditor    \* names of roles that are not seeded

(***************************************************************************)
(* The roles of migration 006 that registrations give.  Its permissions    *)
(* are not protected: here an administrator has deleted them all.          *)
(***************************************************************************)
MCSeedRoles  == <<"admin", "user">>
MCSeedPerms  == <<>>
MCSeedGrants == <<>>

(* Slots are interchangeable, and so are names that no action tells apart. *)
Symmetry == Permutations(Requests) \cup Permutations({editor, auditor})

=============================================================================
