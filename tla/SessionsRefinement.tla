-------------------------- MODULE SessionsRefinement --------------------------
(***************************************************************************)
(* Sessions implements SessionLedger: forget the requests, and what is     *)
(* left of the table refresh_tokens is a ledger in which one token is      *)
(* renewed at most once per request slot.                                  *)
(***************************************************************************)
EXTENDS Sessions

Ledger == INSTANCE SessionLedger WITH
            state    <- status,
            holder   <- owner,
            origin   <- [j \in Jtis |-> chain[j].parent],
            MaxHeirs <- Cardinality(Requests)

(***************************************************************************)
(* Every step of a login, refresh, logout or change_password, an abort of  *)
(* one included, is a step of the ledger or leaves it alone.  In           *)
(* particular the successor of a token is inserted after the token is      *)
(* revoked, belongs to the same user, whatever the request did between     *)
(* reading the one and inserting the other, and uses an identifier that    *)
(* no token had.                                                           *)
(***************************************************************************)
ImplementsLedger == Ledger!LedgerSpec

=============================================================================
