------------------------------- MODULE Budget -------------------------------
(***************************************************************************)
(* Lemmas for bounds of one kind: a limited number of requests may each    *)
(* still produce one thing, and what has been produced plus what may still *)
(* be produced stays within a limit.                                       *)
(***************************************************************************)
EXTENDS Integers, FiniteSets, FiniteSetTheorems, TLAPS

(***************************************************************************)
(* C has been produced and H may still produce.  A step that takes         *)
(* products or producers away, or turns one producer into at most one      *)
(* product, stays within n.                                                *)
(***************************************************************************)
LEMMA BudgetKept ==
  ASSUME NEW C, NEW H, NEW D, NEW G, NEW n \in Nat,
         IsFiniteSet(C), IsFiniteSet(H),
         Cardinality(C) + Cardinality(H) <= n,
         \/ D \subseteq C /\ G \subseteq H
         \/ \E c, h : h \in H /\ D \subseteq C \cup {c} /\ G \subseteq H \ {h}
  PROVE  IsFiniteSet(D) /\ Cardinality(D) + Cardinality(G) <= n
<1>0. Cardinality(C) \in Nat /\ Cardinality(H) \in Nat
  BY FS_CardinalityType
<1>1. CASE D \subseteq C /\ G \subseteq H
  <2>1. /\ IsFiniteSet(D) /\ Cardinality(D) <= Cardinality(C)
        /\ IsFiniteSet(G) /\ Cardinality(G) <= Cardinality(H)
    BY <1>1, FS_Subset
  <2>2. Cardinality(D) \in Nat /\ Cardinality(G) \in Nat
    BY <2>1, FS_CardinalityType
  <2> QED
    BY <1>0, <2>1, <2>2
<1>2. ASSUME NEW c, NEW h, h \in H, D \subseteq C \cup {c}, G \subseteq H \ {h}
      PROVE  IsFiniteSet(D) /\ Cardinality(D) + Cardinality(G) <= n
  <2>1. /\ IsFiniteSet(C \cup {c})
        /\ \/ Cardinality(C \cup {c}) = Cardinality(C)
           \/ Cardinality(C \cup {c}) = Cardinality(C) + 1
    BY FS_AddElement
  <2>2. /\ IsFiniteSet(H \ {h})
        /\ Cardinality(H \ {h}) = Cardinality(H) - 1
    BY <1>2, FS_RemoveElement
  <2>3. /\ IsFiniteSet(D) /\ Cardinality(D) <= Cardinality(C \cup {c})
        /\ IsFiniteSet(G) /\ Cardinality(G) <= Cardinality(H \ {h})
    BY <1>2, <2>1, <2>2, FS_Subset
  <2>4. /\ Cardinality(D) \in Nat /\ Cardinality(G) \in Nat
        /\ Cardinality(C \cup {c}) \in Nat
    BY <2>1, <2>3, FS_CardinalityType
  <2> QED
    BY <1>0, <2>1, <2>2, <2>3, <2>4
<1> QED
  BY <1>1, <1>2

(* As long as nothing has been produced, any set of producers is within.   *)
LEMMA NothingProduced ==
  ASSUME NEW R, IsFiniteSet(R), NEW H, H \subseteq R
  PROVE  IsFiniteSet({}) /\ Cardinality({}) + Cardinality(H) <= Cardinality(R)
<1>1. IsFiniteSet({}) /\ Cardinality({}) = 0
  BY FS_EmptySet
<1>2. Cardinality(H) \in Nat /\ Cardinality(H) <= Cardinality(R)
  BY FS_Subset, FS_CardinalityType
<1> QED
  BY <1>1, <1>2

(* What has been produced is itself within the limit.                      *)
LEMMA ProducedBounded ==
  ASSUME NEW C, NEW H, NEW n \in Nat, IsFiniteSet(C), IsFiniteSet(H),
         Cardinality(C) + Cardinality(H) <= n
  PROVE  Cardinality(C) <= n
BY FS_CardinalityType

=============================================================================
