--------------------------- MODULE SequenceLemmas ---------------------------
(***************************************************************************)
(* Induction over numbers and counting in sequences, for the proofs about  *)
(* recursive functions.  The induction principle of the library takes an   *)
(* operator; its theorem about minimal elements does not, and says as      *)
(* much: a property that fails at some number fails first at a least one.  *)
(***************************************************************************)
EXTENDS Naturals, Sequences, FiniteSets, FiniteSetTheorems, WellFoundedInduction, TLAPS

(* A set of numbers has a least one.                                       *)
LEMMA Least ==
  ASSUME NEW T \in SUBSET Nat, T # {}
  PROVE  \E m \in T : \A n \in T : m <= n
<1>1. PICK m \in T : \A n \in T : <<n, m>> \notin OpToRel(<, Nat)
  BY WFMin, NatLessThanWellFounded, Zenon
<1>2. \A n \in T : ~(n < m)
  BY <1>1 DEF OpToRel
<1>3. QED
  BY <1>2

(* Induction up to a bound, over a set rather than an operator.            *)
LEMMA Climb ==
  ASSUME NEW len \in Nat, NEW T, 0 \in T, \A n \in 0 .. len : n \in T /\ n < len => n + 1 \in T
  PROVE  \A n \in 0 .. len : n \in T
<1> DEFINE Miss == {n \in 0 .. len : n \notin T}
<1> SUFFICES ASSUME Miss # {} PROVE FALSE
  OBVIOUS
<1>1. Miss \in SUBSET Nat
  OBVIOUS
<1>2. PICK m \in Miss : \A n \in Miss : m <= n
  BY <1>1, Least
<1>3. m # 0 /\ m - 1 \in 0 .. len /\ m - 1 < len
  BY <1>2
<1>4. m - 1 \in T
  BY <1>2, <1>3
<1>5. QED
  BY <1>2, <1>3, <1>4

-----------------------------------------------------------------------------
(* Where a sequence, or its first n elements, has a value of V.            *)
HitsTo(s, n, V) == {i \in 1 .. n : s[i] \in V}
Hits(s, V) == HitsTo(s, Len(s), V)

(* Hits can be counted.                                                    *)
LEMMA HitsFinite ==
  ASSUME NEW s, NEW n \in Nat, NEW V
  PROVE  /\ IsFiniteSet(HitsTo(s, n, V))
         /\ Cardinality(HitsTo(s, n, V)) \in Nat
<1>1. HitsTo(s, n, V) \subseteq 1 .. n /\ IsFiniteSet(1 .. n)
  BY FS_Interval DEF HitsTo
<1>2. QED
  BY <1>1, FS_Subset, FS_CardinalityType

(* One more element is one more hit, or none.                              *)
LEMMA HitsGrow ==
  ASSUME NEW s, NEW n \in Nat, NEW V
  PROVE  Cardinality(HitsTo(s, n + 1, V)) =
           IF s[n + 1] \in V THEN Cardinality(HitsTo(s, n, V)) + 1 ELSE Cardinality(HitsTo(s, n, V))
<1>1. CASE s[n + 1] \in V
  <2>1. HitsTo(s, n + 1, V) = HitsTo(s, n, V) \cup {n + 1} /\ n + 1 \notin HitsTo(s, n, V)
    BY <1>1 DEF HitsTo
  <2>2. QED
    BY <1>1, <2>1, HitsFinite, FS_AddElement
<1>2. CASE s[n + 1] \notin V
  <2>1. HitsTo(s, n + 1, V) = HitsTo(s, n, V)
    BY <1>2 DEF HitsTo
  <2>2. QED
    BY <1>2, <2>1
<1>3. QED
  BY <1>1, <1>2

(* An element appended is one more hit, or none.                           *)
LEMMA HitsAppend ==
  ASSUME NEW S, NEW s \in Seq(S), NEW x \in S, NEW V
  PROVE  Cardinality(Hits(Append(s, x), V)) =
           IF x \in V THEN Cardinality(Hits(s, V)) + 1 ELSE Cardinality(Hits(s, V))
<1> DEFINE a == Append(s, x)
<1>1. Len(s) \in Nat /\ Len(a) = Len(s) + 1 /\ a[Len(s) + 1] = x /\ \A i \in 1 .. Len(s) : a[i] = s[i]
  OBVIOUS
<1> HIDE DEF a
<1>2. HitsTo(a, Len(s), V) = HitsTo(s, Len(s), V)
  BY <1>1 DEF HitsTo
<1>3. Cardinality(HitsTo(a, Len(s) + 1, V)) =
        IF x \in V THEN Cardinality(HitsTo(a, Len(s), V)) + 1 ELSE Cardinality(HitsTo(a, Len(s), V))
  BY <1>1, HitsGrow
<1>4. QED
  BY <1>1, <1>2, <1>3 DEF Hits, a

(* The empty sequence has no hit.                                          *)
LEMMA HitsNone ==
  ASSUME NEW V
  PROVE  Hits(<<>>, V) = {} /\ Cardinality(Hits(<<>>, V)) = 0
BY FS_EmptySet DEF Hits, HitsTo
=============================================================================
