----------------------------- MODULE NatLemmas -----------------------------
(***************************************************************************)
(* Lemmas on sets of naturals that the proofs share.                       *)
(***************************************************************************)
EXTENDS Integers, FiniteSets, FiniteSetTheorems, WellFoundedInduction, TLAPS

\* A set of naturals that is not empty has a least element.
LEMMA LeastElement ==
    ASSUME NEW T \in SUBSET Nat, T # {}
    PROVE  \E x \in T : \A y \in T : x <= y
<1> DEFINE R == OpToRel(<, Nat)
<1>1. IsWellFoundedOn(R, Nat)
  BY NatLessThanWellFounded, Zenon
<1>2. R = {r \in Nat \X Nat : r[1] < r[2]}
  BY Zenon DEF OpToRel
<1> HIDE DEF R
<1>3. PICK x \in T : \A y \in T : ~ (<<y, x>> \in R)
  BY <1>1, WFMin, Zenon
<1>4. \A y \in T : ~ (y < x)
  BY <1>2, <1>3
<1>5. \A y \in T : x <= y
  BY <1>4
<1>6. QED
  BY <1>5

\* One that is bounded has a greatest element as well.
LEMMA GreatestElement ==
    ASSUME NEW T \in SUBSET Nat, T # {}, NEW b \in Nat, \A y \in T : y <= b
    PROVE  \E x \in T : \A y \in T : x >= y
<1> DEFINE U == {n \in Nat : \A y \in T : y <= n}
<1>1. U \in SUBSET Nat /\ b \in U
  OBVIOUS
<1> HIDE DEF U
<1>2. PICK x \in U : \A n \in U : x <= n
  BY <1>1, LeastElement
<1>3. x \in Nat /\ \A y \in T : y <= x
  BY DEF U
<1>4. x \in T
  <2> SUFFICES ASSUME x \notin T PROVE FALSE
    OBVIOUS
  <2>1. \A y \in T : y < x
    BY <1>3
  <2>2. x - 1 \in Nat
    <3>1. PICK y \in T : TRUE
      OBVIOUS
    <3>2. y \in Nat /\ y < x
      BY <2>1
    <3>3. QED
      BY <1>3, <3>2
  <2>3. \A y \in T : y <= x - 1
    BY <1>3, <2>1
  <2>4. x - 1 \in U
    BY <2>2, <2>3 DEF U
  <2>5. QED
    BY <1>2, <1>3, <2>4
<1>5. QED
  BY <1>3, <1>4

\* What integer division leaves.
LEMMA DivBounds ==
    ASSUME NEW a \in Nat, NEW w \in Nat \ {0}
    PROVE  /\ a \div w \in Nat
           /\ (a \div w) * w <= a
           /\ a < (a \div w) * w + w
  OBVIOUS

LEMMA MulMonotone ==
    ASSUME NEW a \in Int, NEW b \in Int, NEW w \in Nat, a <= b
    PROVE  a * w <= b * w
  OBVIOUS

\* Induction over an interval, on the set of the numbers for which a fact holds.
LEMMA UpFrom ==
    ASSUME NEW a \in Nat, NEW b \in Nat, NEW S,
           a \in S, \A k \in a .. b - 1 : k \in S => k + 1 \in S
    PROVE  \A k \in a .. b : k \in S
<1> DEFINE Bad == {k \in a .. b : k \notin S}
<1> SUFFICES ASSUME Bad # {} PROVE FALSE
  OBVIOUS
<1>1. Bad \in SUBSET Nat
  OBVIOUS
<1>2. PICK k \in Bad : \A j \in Bad : k <= j
  BY <1>1, LeastElement
<1>3. k \in a .. b /\ k \notin S /\ k # a
  OBVIOUS
<1>4. k - 1 \in a .. b - 1 /\ k - 1 \in a .. b /\ ~ (k <= k - 1) /\ (k - 1) + 1 = k
  BY <1>3
<1>5. k - 1 \in S
  BY <1>2, <1>4
<1>6. (k - 1) + 1 \in S
  BY <1>4, <1>5
<1>7. QED
  BY <1>3, <1>4, <1>6

\* The powers of two a tree's size needs, one by one: its depth is at most 32.
LEMMA PowersOfTwo ==
    ASSUME NEW l \in 0 .. 31
    PROVE  2 ^ (l + 1) = 2 * 2 ^ l /\ 2 ^ l \in Nat \ {0}
<1>0. CASE l = 0 BY <1>0
<1>1. CASE l = 1 BY <1>1
<1>2. CASE l = 2 BY <1>2
<1>3. CASE l = 3 BY <1>3
<1>4. CASE l = 4 BY <1>4
<1>5. CASE l = 5 BY <1>5
<1>6. CASE l = 6 BY <1>6
<1>7. CASE l = 7 BY <1>7
<1>8. CASE l = 8 BY <1>8
<1>9. CASE l = 9 BY <1>9
<1>10. CASE l = 10 BY <1>10
<1>11. CASE l = 11 BY <1>11
<1>12. CASE l = 12 BY <1>12
<1>13. CASE l = 13 BY <1>13
<1>14. CASE l = 14 BY <1>14
<1>15. CASE l = 15 BY <1>15
<1>16. CASE l = 16 BY <1>16
<1>17. CASE l = 17 BY <1>17
<1>18. CASE l = 18 BY <1>18
<1>19. CASE l = 19 BY <1>19
<1>20. CASE l = 20 BY <1>20
<1>21. CASE l = 21 BY <1>21
<1>22. CASE l = 22 BY <1>22
<1>23. CASE l = 23 BY <1>23
<1>24. CASE l = 24 BY <1>24
<1>25. CASE l = 25 BY <1>25
<1>26. CASE l = 26 BY <1>26
<1>27. CASE l = 27 BY <1>27
<1>28. CASE l = 28 BY <1>28
<1>29. CASE l = 29 BY <1>29
<1>30. CASE l = 30 BY <1>30
<1>31. CASE l = 31 BY <1>31
<1>32. QED
  BY <1>0, <1>1, <1>2, <1>3, <1>4, <1>5, <1>6, <1>7,
     <1>8, <1>9, <1>10, <1>11, <1>12, <1>13, <1>14, <1>15,
     <1>16, <1>17, <1>18, <1>19, <1>20, <1>21, <1>22, <1>23,
     <1>24, <1>25, <1>26, <1>27, <1>28, <1>29, <1>30, <1>31

\* A size up to that of the deepest tree is a positive number.
LEMMA PowerOfTwo ==
    ASSUME NEW l \in 0 .. 32
    PROVE  2 ^ l \in Nat \ {0}
<1>1. CASE l = 32 BY <1>1
<1>2. CASE l # 32
  <2>1. l \in 0 .. 31
    BY <1>2
  <2>2. QED
    BY <2>1, PowersOfTwo
<1>3. QED
  BY <1>1, <1>2


\* The first n of a set.
Lowest(S, n) == {x \in S : Cardinality({y \in S : y < x}) < n}

\* Everything before one of them is among them, and they are all of the set unless
\* there are as many as asked for.
LEMMA FirstFew ==
    ASSUME NEW S \in SUBSET Nat, NEW b \in Nat, \A x \in S : x <= b,
           NEW n \in Nat \ {0}
    PROVE  LET F == Lowest(S, n) IN
           /\ F \subseteq S
           /\ \A x \in F, y \in S : y <= x => y \in F
           /\ IsFiniteSet(F) /\ Cardinality(F) \in Nat
           /\ Cardinality(F) <= n
           /\ Cardinality(F) < n => F = S
<1> DEFINE F == Lowest(S, n)
           Below(x) == {y \in S : y < x}
<1>0. IsFiniteSet(S)
  BY FS_BoundedSetOfNaturals
<1>1. F \subseteq S /\ \A x \in S : x \in F <=> Cardinality(Below(x)) < n
  BY DEF Lowest
<1> HIDE DEF F
<1>2. \A x : IsFiniteSet(Below(x)) /\ Cardinality(Below(x)) \in Nat
  BY <1>0, FS_Subset, FS_CardinalityType
<1>3. IsFiniteSet(F) /\ Cardinality(F) \in Nat
  BY <1>0, <1>1, FS_Subset, FS_CardinalityType
<1>4. ASSUME NEW x \in F, NEW y \in S, y <= x PROVE y \in F
  <2>1. ASSUME NEW z \in Below(y) PROVE z \in Below(x)
    <3>1. z \in S /\ z < y /\ z \in Nat /\ y \in Nat /\ x \in Nat
      BY <1>1
    <3>2. QED
      BY <1>4, <3>1
  <2>2. Cardinality(Below(y)) <= Cardinality(Below(x))
    BY <1>2, <2>1, Below(y) \subseteq Below(x), FS_Subset
  <2>3. Cardinality(Below(x)) < n
    BY <1>1
  <2> HIDE DEF Below
  <2>4. QED
    BY <1>1, <1>2, <2>2, <2>3
<1>5. Cardinality(F) <= n
  <2>1. CASE F = {}
    BY <2>1, FS_EmptySet
  <2>2. CASE F # {}
    <3>1. PICK m \in F : \A y \in F : m >= y
      <4>1. F \in SUBSET Nat /\ \A y \in F : y <= b
        BY <1>1
      <4>2. QED
        BY <2>2, <4>1, GreatestElement
    <3>2. F \subseteq Below(m) \cup {m}
      BY <1>1, <3>1
    <3>3. Cardinality(Below(m)) < n
      BY <1>1, <3>1
    <3>4. m \notin Below(m)
      BY <1>1, <3>1
    <3> HIDE DEF Below
    <3>5. IsFiniteSet(Below(m) \cup {m})
          /\ Cardinality(Below(m) \cup {m}) = Cardinality(Below(m)) + 1
      BY <1>2, <3>4, FS_AddElement
    <3>6. Cardinality(F) <= Cardinality(Below(m) \cup {m})
      BY <3>2, <3>5, FS_Subset
    <3>7. QED
      BY <1>2, <1>3, <3>3, <3>5, <3>6
  <2>3. QED
    BY <2>1, <2>2
<1>6. ASSUME Cardinality(F) < n PROVE F = S
  <2> SUFFICES ASSUME S \ F # {} PROVE FALSE
    BY <1>1
  <2>1. PICK x \in S \ F : \A y \in S \ F : x <= y
    BY LeastElement
  <2>2. ASSUME NEW y \in Below(x) PROVE y \in F
    <3>1. y \in S /\ y < x /\ y \in Nat /\ x \in Nat
      BY <2>1
    <3>2. y \in S \ F => x <= y
      BY <2>1
    <3>3. QED
      BY <3>1, <3>2
  <2>3. Cardinality(Below(x)) <= Cardinality(F)
    BY <1>3, <2>2, Below(x) \subseteq F, FS_Subset
  <2> HIDE DEF Below
  <2>4. x \in F
    BY <1>1, <1>2, <1>3, <1>6, <2>1, <2>3
  <2>5. QED
    BY <2>1, <2>4
<1>7. QED
  BY <1>1, <1>3, <1>4, <1>5, <1>6 DEF F

\* Position x lies in the block of w that x \div w counts.
LEMMA BlockOf ==
    ASSUME NEW x \in Nat, NEW l \in Nat, NEW w \in Nat \ {0}
    PROVE  /\ x \div w \in Nat
           /\ l * w + w - 1 \in Nat
           /\ x <= l * w + w - 1 <=> x \div w <= l
<1> DEFINE q == x \div w
<1>1. q \in Nat /\ q * w <= x /\ x < q * w + w
  BY DivBounds
<1>2. l * w \in Nat /\ q * w \in Nat
  BY <1>1
<1> HIDE DEF q
<1>3. q <= l => x <= l * w + w - 1
  <2>1. q <= l => q * w <= l * w
    BY <1>1, MulMonotone
  <2>2. QED
    BY <1>1, <1>2, <2>1
<1>4. l + 1 <= q => x > l * w + w - 1
  <2>1. l + 1 <= q => (l + 1) * w <= q * w
    BY <1>1, MulMonotone
  <2>2. (l + 1) * w = l * w + w
    OBVIOUS
  <2>3. QED
    BY <1>1, <1>2, <2>1, <2>2
<1>5. QED
  BY <1>1, <1>2, <1>3, <1>4 DEF q
=============================================================================
