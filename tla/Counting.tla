------------------------------ MODULE Counting ------------------------------
(***************************************************************************)
(* How many elements finite sets can have: what the proofs about windows   *)
(* of time share.                                                          *)
(***************************************************************************)
EXTENDS FiniteSetTheorems, TLAPS

\* A set that maps one to one into another has no more elements.
LEMMA InjectionBound ==
  ASSUME NEW L, IsFiniteSet(L), NEW S, IsFiniteSet(S), NEW f \in [L -> S],
         \A r, q \in L : f[r] = f[q] => r = q
  PROVE  Cardinality(L) <= Cardinality(S)
  <1>1. Cardinality(L) \in Nat /\ Cardinality(S) \in Nat
    BY FS_CardinalityType
  <1>2. ~ (Cardinality(S) < Cardinality(L))
    BY FS_PigeonHole
  <1> QED BY <1>1, <1>2

\* Two sets together have no more elements than each for itself.
LEMMA UnionBound ==
  ASSUME NEW A, NEW B, IsFiniteSet(A), IsFiniteSet(B)
  PROVE  /\ IsFiniteSet(A \cup B) /\ Cardinality(A \cup B) \in Nat
         /\ Cardinality(A \cup B) <= Cardinality(A) + Cardinality(B)
  <1>1. IsFiniteSet(A \cap B)
    <2>1. A \cap B \in SUBSET A
      OBVIOUS
    <2> QED BY <2>1, FS_Subset
  <1>2. /\ IsFiniteSet(A \cup B)
        /\ Cardinality(A \cup B) = Cardinality(A) + Cardinality(B) - Cardinality(A \cap B)
    BY FS_Union
  <1>3. /\ Cardinality(A) \in Nat /\ Cardinality(B) \in Nat /\ Cardinality(A \cap B) \in Nat
        /\ Cardinality(A \cup B) \in Nat
    BY <1>1, <1>2, FS_CardinalityType
  <1> QED BY <1>2, <1>3

\* One element more is at most one more.
LEMMA OneMoreBound ==
  ASSUME NEW A, IsFiniteSet(A), NEW x, NEW B \in SUBSET (A \cup {x})
  PROVE  /\ IsFiniteSet(B) /\ Cardinality(B) \in Nat
         /\ Cardinality(B) <= Cardinality(A) + 1
  <1>1. /\ IsFiniteSet(A \cup {x})
        /\ Cardinality(A) \in Nat
        /\ \/ Cardinality(A \cup {x}) = Cardinality(A)
           \/ Cardinality(A \cup {x}) = Cardinality(A) + 1
    BY FS_AddElement, FS_CardinalityType
  <1>2. IsFiniteSet(B) /\ Cardinality(B) <= Cardinality(A \cup {x})
    BY <1>1, FS_Subset
  <1>3. Cardinality(B) \in Nat
    BY <1>2, FS_CardinalityType
  <1> QED BY <1>1, <1>2, <1>3

\* A part has no more elements than the whole.
LEMMA PartBound ==
  ASSUME NEW A, IsFiniteSet(A), NEW B \in SUBSET A
  PROVE  /\ IsFiniteSet(B) /\ Cardinality(B) \in Nat /\ Cardinality(A) \in Nat
         /\ Cardinality(B) <= Cardinality(A)
  BY FS_Subset, FS_CardinalityType
=============================================================================
