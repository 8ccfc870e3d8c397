-------------------------- MODULE NumberingProofs --------------------------
(***************************************************************************)
(* What the number offered to the next case or invoice is, for every base, *)
(* padding and set of numbers already used.                                *)
(***************************************************************************)
EXTENDS Numbering, WellFoundedInduction, TLAPS

\* Multiplication by a natural number is monotone.
LEMMA ProductMonotone ==
  ASSUME NEW a \in Nat, NEW b \in Nat, NEW c \in Nat, a <= b
  PROVE  a * c <= b * c
<1>1. (b - a) * c \in Nat
  BY SMT
<1>2. b * c = a * c + (b - a) * c
  BY SMT
<1> QED BY <1>1, <1>2, SMT

\* Quotient and remainder of the printed digits.
LEMMA DigitsBounded ==
  ASSUME NEW n \in Nat
  PROVE  /\ n \div Base \in Nat
         /\ n \div Base <= n
         /\ n % Base \in 0 .. Base - 1
BY NumberingAssumption, SMT

\* The sort key is a natural number, bounded on bounded numbers.
LEMMA SortKeyBounded ==
  ASSUME NEW n \in Nat, NEW m \in Nat, n <= m
  PROVE  /\ SortKey(n) \in Nat
         /\ SortKey(n) <= m * (Base + 1) + Base
<1>1. n * (Base + 1) \in Nat /\ n * (Base + 1) <= m * (Base + 1)
  BY ProductMonotone, NumberingAssumption, SMT
<1>2. (n \div Base) * (Base + 1) \in Nat /\ (n \div Base) * (Base + 1) <= m * (Base + 1)
  <2>1. n \div Base \in Nat /\ n \div Base <= m
    BY DigitsBounded, SMT
  <2> QED BY <2>1, ProductMonotone, NumberingAssumption, SMT
<1>3. m * (Base + 1) \in Nat
  BY NumberingAssumption, SMT
<1>4. n % Base \in Nat /\ n % Base <= Base - 1 /\ Base \in Nat /\ Limit \in Nat
  BY DigitsBounded, NumberingAssumption, SMT
<1>5. CASE n < Limit
  <2>1. SortKey(n) = n * (Base + 1)
    BY <1>5 DEF SortKey
  <2>2. ASSUME NEW x \in Nat, NEW y \in Nat, x <= y PROVE x <= y + Base
    BY <1>4, <2>2
  <2> QED BY <1>1, <1>3, <2>1, <2>2
<1>6. CASE ~ (n < Limit)
  <2>1. SortKey(n) = (n \div Base) * (Base + 1) + 1 + (n % Base)
    BY <1>6 DEF SortKey
  <2>2. ASSUME NEW x \in Nat, NEW y \in Nat, NEW z \in Nat, x <= y, z <= Base - 1
        PROVE  x + 1 + z \in Nat /\ x + 1 + z <= y + Base
    BY <1>4, <2>2
  <2> QED BY <1>2, <1>3, <1>4, <2>1, <2>2
<1> QED BY <1>5, <1>6

(***************************************************************************)
(* A set of numbers with an upper bound has a last one in text order, and  *)
(* that is what the query returns.                                         *)
(***************************************************************************)
LEMMA HighestIsLast ==
  ASSUME NEW S \in SUBSET Nat, S # {}, NEW top \in Nat, \A n \in S : n <= top
  PROVE  /\ Highest(S) \in S
         /\ \A m \in S : SortKey(m) <= SortKey(Highest(S))
<1> DEFINE bound == top * (Base + 1) + Base
           gaps == {bound - SortKey(n) : n \in S}
<1>1. bound \in Nat
  BY NumberingAssumption, SMT
<1>2. ASSUME NEW n \in S PROVE SortKey(n) \in Nat /\ SortKey(n) <= bound
  BY SortKeyBounded
<1> HIDE DEF bound
<1>3. gaps \subseteq Nat /\ gaps # {}
  <2>1. ASSUME NEW n \in S PROVE bound - SortKey(n) \in Nat
    BY <1>1, <1>2
  <2> QED BY <2>1
<1>4. PICK g \in gaps : \A h \in gaps : ~ (<<h, g>> \in OpToRel(<, Nat))
  <2> HIDE DEF gaps
  <2> QED BY <1>3, NatLessThanWellFounded, WFMin
<1>5. PICK last \in S : g = bound - SortKey(last)
  BY <1>4
<1>6. ASSUME NEW m \in S PROVE SortKey(m) <= SortKey(last)
  <2>1. bound - SortKey(m) \in gaps
    OBVIOUS
  <2>2. ~ (bound - SortKey(m) < g)
    BY <2>1, <1>3, <1>4 DEF OpToRel
  <2> QED BY <2>2, <1>1, <1>2, <1>5
<1> QED BY <1>6 DEF Highest

(***************************************************************************)
(* The number offered is one more than a used one, or 1: the code never    *)
(* skips a number.                                                         *)
(***************************************************************************)
THEOREM NextNumberFollows ==
  ASSUME NEW S \in SUBSET Nat, NEW top \in Nat, \A n \in S : n <= top
  PROVE  /\ NextNumber(S) \in 1 .. top + 1
         /\ NextNumber(S) = 1 \/ NextNumber(S) - 1 \in S
<1>1. CASE S = {}
  BY <1>1 DEF NextNumber
<1>2. CASE S # {}
  <2>1. Highest(S) \in S
    BY <1>2, HighestIsLast
  <2>2. NextNumber(S) = Highest(S) + 1
    BY <1>2 DEF NextNumber
  <2>3. Highest(S) \in Nat /\ Highest(S) <= top
    BY <2>1
  <2>4. NextNumber(S) - 1 = Highest(S) /\ NextNumber(S) \in 1 .. top + 1
    BY <2>2, <2>3
  <2> QED BY <2>1, <2>4
<1> QED BY <1>1, <1>2

(***************************************************************************)
(* As long as every used number fits the padding, the number offered is    *)
(* free: below Limit text order is numeric order.                          *)
(***************************************************************************)
THEOREM NextNumberFreeWhilePadded ==
  ASSUME NEW S \in SUBSET (0 .. Limit - 1)
  PROVE  NextNumber(S) \notin S
<1>1. CASE S = {}
  BY <1>1
<1>2. CASE S # {}
  <2>1. S \in SUBSET Nat /\ Limit - 1 \in Nat /\ \A n \in S : n <= Limit - 1
    BY NumberingAssumption, SMT
  <2>2. Highest(S) \in S /\ \A m \in S : SortKey(m) <= SortKey(Highest(S))
    BY <1>2, <2>1, HighestIsLast
  <2>3. ASSUME NEW m \in S PROVE SortKey(m) = m * (Base + 1)
    BY <2>1, NumberingAssumption, SMT DEF SortKey
  <2>4. ASSUME Highest(S) + 1 \in S PROVE FALSE
    <3> DEFINE h == Highest(S)
    <3>1. h \in Nat /\ (h + 1) * (Base + 1) <= h * (Base + 1)
      BY <2>1, <2>2, <2>3, <2>4
    <3> HIDE DEF h
    <3>2. (h + 1) * (Base + 1) = h * (Base + 1) + Base + 1 /\ h * (Base + 1) \in Nat
      BY <3>1, NumberingAssumption, SMT
    <3> QED BY <3>1, <3>2, NumberingAssumption, SMT
  <2> QED BY <1>2, <2>4 DEF NextNumber
<1> QED BY <1>1, <1>2
=============================================================================
