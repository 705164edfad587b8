-------------------------------- MODULE Counting --------------------------------
(***************************************************************************)
(* Rows and claims.  A process that has passed a check will add a row      *)
(* later: it holds a claim.  A bound on the rows alone is not inductive;   *)
(* one on the rows a and the claims b together is.                         *)
(***************************************************************************)
EXTENDS Integers, FiniteSetTheorems, TLAPS

(* When rows and claims only go away the sum does not grow.                *)
LEMMA SumShrinks ==
    ASSUME NEW a, IsFiniteSet(a), NEW b, IsFiniteSet(b),
           NEW a2 \in SUBSET a, NEW b2 \in SUBSET b
    PROVE  /\ Cardinality(a2) \in Nat /\ Cardinality(b2) \in Nat
           /\ Cardinality(a2) + Cardinality(b2)
                <= Cardinality(a) + Cardinality(b)
<1>1. /\ IsFiniteSet(a2) /\ Cardinality(a2) <= Cardinality(a)
      /\ IsFiniteSet(b2) /\ Cardinality(b2) <= Cardinality(b)
  BY FS_Subset
<1>2. /\ Cardinality(a) \in Nat /\ Cardinality(b) \in Nat
      /\ Cardinality(a2) \in Nat /\ Cardinality(b2) \in Nat
  BY <1>1, FS_CardinalityType
<1> QED
  BY <1>1, <1>2

(* A claim y becomes a row x.                                              *)
LEMMA SumMoves ==
    ASSUME NEW a, IsFiniteSet(a), NEW b, IsFiniteSet(b),
           NEW x, NEW y \in b,
           NEW a2 \in SUBSET (a \cup {x}), NEW b2 \in SUBSET (b \ {y})
    PROVE  Cardinality(a2) + Cardinality(b2)
             <= Cardinality(a) + Cardinality(b)
<1>1. /\ IsFiniteSet(a \cup {x})
      /\ Cardinality(a \cup {x}) <= Cardinality(a) + 1
  <2>1. Cardinality(a) \in Nat
    BY FS_CardinalityType
  <2>2. /\ IsFiniteSet(a \cup {x})
        /\ Cardinality(a \cup {x}) =
             IF x \in a THEN Cardinality(a) ELSE Cardinality(a) + 1
    BY FS_AddElement
  <2> QED
    BY <2>1, <2>2
<1>2. IsFiniteSet(b \ {y}) /\ Cardinality(b \ {y}) = Cardinality(b) - 1
  BY FS_RemoveElement
<1>3. Cardinality(a2) + Cardinality(b2)
        <= Cardinality(a \cup {x}) + Cardinality(b \ {y})
  BY <1>1, <1>2, SumShrinks
<1>4. /\ Cardinality(a) \in Nat /\ Cardinality(b) \in Nat
      /\ Cardinality(a2) \in Nat /\ Cardinality(b2) \in Nat
      /\ Cardinality(a \cup {x}) \in Nat
  BY <1>1, <1>2, SumShrinks, FS_CardinalityType
<1> QED
  BY <1>1, <1>2, <1>3, <1>4
=============================================================================
