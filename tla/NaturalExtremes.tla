--------------------------- MODULE NaturalExtremes ---------------------------
(***************************************************************************)
(* Least and greatest elements of sets of natural numbers.  A probe of a   *)
(* hash table stops at the least distance, reuses the last tombstone       *)
(* passed; the list of objects links each object to the newest before it.  *)
(***************************************************************************)
EXTENDS FiniteSetsExt, Integers, WellFoundedInduction, TLAPS

(* A non-empty set of naturals has the minimum that Min names.             *)
LEMMA MinOfNaturals ==
  ASSUME NEW S, S \subseteq Nat, S # {}
  PROVE  Min(S) \in S /\ \A n \in S : Min(S) <= n
<1>1. \E x \in S : \A y \in S : ~ (<<y, x>> \in OpToRel(<, Nat))
  BY NatLessThanWellFounded, WFMin, Zenon
<1>2. PICK x \in S : \A y \in S : ~ (<<y, x>> \in OpToRel(<, Nat))
  BY <1>1
<1>3. ASSUME NEW y \in S PROVE x <= y
  <2>1. x \in Nat /\ y \in Nat
    OBVIOUS
  <2>2. ~ (y < x)
    <3>1. SUFFICES ASSUME y < x PROVE FALSE
      OBVIOUS
    <3>2. <<y, x>> \in Nat \X Nat
      BY <2>1
    <3>3. QED
      BY <1>2, <3>1, <3>2 DEF OpToRel
  <2>3. QED
    BY <2>1, <2>2
<1>4. QED
  BY <1>3 DEF Min

(* A non-empty set of naturals with a bound has the maximum that Max names.*)
LEMMA MaxOfNaturals ==
  ASSUME NEW S, NEW b \in Nat, S \subseteq 0..b, S # {}
  PROVE  Max(S) \in S /\ \A n \in S : n <= Max(S)
<1> DEFINE T == {b - n : n \in S}
<1>1. \A n \in S : n \in Int /\ b - n \in Nat
  OBVIOUS
<1>2. T \subseteq Nat /\ T # {}
  BY <1>1
<1> HIDE DEF T
<1>3. Min(T) \in T /\ \A n \in T : Min(T) <= n
  BY <1>2, MinOfNaturals
<1>4. PICK x \in S : Min(T) = b - x
  BY <1>3 DEF T
<1>5. ASSUME NEW n \in S PROVE n <= x
  <2>1. b - n \in T
    BY DEF T
  <2>2. b - x <= b - n
    BY <1>3, <1>4, <2>1
  <2>3. QED
    BY <1>1, <2>2
<1>6. \A n \in S : x >= n
  BY <1>1, <1>5
<1> HIDE DEF T
<1>7. Max(S) \in S /\ \A n \in S : Max(S) >= n
  BY <1>6 DEF Max
<1>8. QED
  BY <1>1, <1>7

=============================================================================
