---------------------------- MODULE SessionLedger ----------------------------
(***************************************************************************)
(* What the refresh-token sessions of the RBAC backend promise to whoever  *)
(* holds a token, without requests, passwords or database statements: a    *)
(* ledger of tokens.  A login opens a session with a token nobody had; a   *)
(* token that is spent may be renewed, for the same user and only a        *)
(* bounded number of times; tokens are revoked, and that is final.         *)
(* Sessions implements it: see SessionsRefinement.                         *)
(***************************************************************************)
EXTENDS Naturals, FiniteSets

CONSTANTS
  Users, Jtis, NoUser, NoJti,
  MaxHeirs     \* how often one token is renewed, at most

VARIABLES
  state,       \* per token: "absent", "live" or "revoked"
  holder,      \* the user it was issued to
  origin       \* the token it renews, NoJti for the token of a login

ledger == <<state, holder, origin>>

LedgerInit ==
  /\ state = [j \in Jtis |-> "absent"]
  /\ holder = [j \in Jtis |-> NoUser]
  /\ origin = [j \in Jtis |-> NoJti]

Heirs(j) == {k \in Jtis : origin[k] = j}

Issue(k, u, j) ==
  /\ state[k] = "absent"
  /\ state' = [state EXCEPT ![k] = "live"]
  /\ holder' = [holder EXCEPT ![k] = u]
  /\ origin' = [origin EXCEPT ![k] = j]

Open(k, u) == Issue(k, u, NoJti)

Renew(j, k) ==
  /\ state[j] = "revoked"
  /\ Cardinality(Heirs(j)) < MaxHeirs
  /\ Issue(k, holder[j], j)

Revoke(S) ==
  /\ \A j \in S : state[j] # "absent"
  /\ state' = [j \in Jtis |-> IF j \in S THEN "revoked" ELSE state[j]]
  /\ UNCHANGED <<holder, origin>>

LedgerNext ==
  \/ \E k \in Jtis, u \in Users : Open(k, u)
  \/ \E j, k \in Jtis : Renew(j, k)
  \/ \E S \in SUBSET Jtis : Revoke(S)

LedgerSpec == LedgerInit /\ [][LedgerNext]_ledger

=============================================================================
