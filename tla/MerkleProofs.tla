---------------------------- MODULE MerkleProofs ----------------------------
(***************************************************************************)
(* That the tree algorithms of MerkleTree compute what its Layers say, for *)
(* trees of every depth up to the 32 levels the code allows.               *)
(***************************************************************************)
EXTENDS MerkleTree, NatLemmas

-----------------------------------------------------------------------------
(* Positions: the ancestor of leaf n at level l, and how many nodes that   *)
(* level has.                                                              *)

Above(n, l) == n \div 2 ^ l
Spans(l) == 2 ^ (Levels - l)

\* The tree of the next level has half as many nodes, the root's only one.
LEMMA Widths ==
    /\ \A l \in 0 .. Levels : Spans(l) \in Nat \ {0}
    /\ \A l \in 0 .. Levels - 1 : Spans(l) = 2 * Spans(l + 1)
    /\ Spans(0) = Capacity
    /\ Spans(Levels) = 1
<1>1. \A l \in 0 .. Levels : Levels - l \in 0 .. 32
  BY LevelsAssumption
<1>2. \A l \in 0 .. Levels : Spans(l) \in Nat \ {0}
  BY <1>1, PowerOfTwo, Zenon DEF Spans
<1>3. ASSUME NEW l \in 0 .. Levels - 1
      PROVE  Spans(l) = 2 * Spans(l + 1)
  <2> DEFINE k == Levels - (l + 1)
  <2>1. k \in 0 .. 31 /\ k + 1 = Levels - l
    BY LevelsAssumption
  <2> HIDE DEF k
  <2>2. 2 ^ (k + 1) = 2 * 2 ^ k
    BY <2>1, PowersOfTwo, Zenon
  <2>3. 2 ^ (Levels - l) = 2 * 2 ^ k
    BY <2>1, <2>2, Zenon
  <2>4. QED
    BY <2>3, Zenon DEF Spans, k
<1>4. Levels - 0 = Levels /\ Levels - Levels = 0
  BY LevelsAssumption
<1>5. Spans(0) = Capacity
  BY <1>4, Zenon DEF Spans, Capacity
<1>6. Spans(Levels) = 1
  <2>1. Spans(Levels) = 2 ^ 0
    BY <1>4, Zenon DEF Spans
  <2>2. QED
    BY <2>1
<1>7. QED
  BY <1>2, <1>3, <1>5, <1>6, Zenon

\* A step up halves the position, rounding down.
LEMMA Halves ==
    ASSUME NEW n \in Nat
    PROVE  /\ Above(n, 0) = n
           /\ \A l \in 0 .. Levels : Above(n, l) \in Nat
           /\ \A l \in 0 .. Levels - 1 : Above(n, l + 1) = Above(n, l) \div 2
<1>1. Above(n, 0) = n
  BY DEF Above
<1>2. ASSUME NEW l \in 0 .. Levels
      PROVE  Above(n, l) \in Nat
  <2>1. l \in 0 .. 32
    BY LevelsAssumption
  <2> DEFINE w == 2 ^ l
  <2>2. w \in Nat \ {0}
    BY <2>1, PowerOfTwo, Zenon
  <2> HIDE DEF w
  <2>3. n \div w \in Nat
    BY <2>2
  <2>4. QED
    BY <2>3, Zenon DEF Above, w
<1>3. ASSUME NEW l \in 0 .. Levels - 1
      PROVE  Above(n, l + 1) = Above(n, l) \div 2
  <2>1. l \in 0 .. 31
    BY LevelsAssumption
  <2> DEFINE w == 2 ^ l
             v == 2 ^ (l + 1)
  <2>2. w \in Nat \ {0} /\ v = 2 * w
    BY <2>1, PowersOfTwo, Zenon
  <2> HIDE DEF w, v
  <2>3. n \div v = (n \div w) \div 2
    BY <2>2
  <2>4. QED
    BY <2>3, Zenon DEF Above, w, v
<1>4. QED
  BY <1>1, <1>2, <1>3, Zenon

\* A leaf of the tree has its ancestors in the tree, the last one the root.
LEMMA Inside ==
    ASSUME NEW n \in 0 .. Capacity - 1
    PROVE  /\ \A l \in 0 .. Levels : Above(n, l) \in 0 .. Spans(l) - 1
           /\ Above(n, Levels) = 0
<1> DEFINE S == {l \in 0 .. Levels : Above(n, l) < Spans(l)}
<1>0. Levels \in Nat /\ n \in Nat
  <2>1. Capacity \in Nat
    BY Widths, LevelsAssumption
  <2>2. QED
    BY <2>1, LevelsAssumption
<1>1. 0 \in S
  <2>1. Above(n, 0) < Spans(0)
    <3>1. Capacity \in Nat /\ Spans(0) = Capacity
      BY Widths, LevelsAssumption
    <3>2. Above(n, 0) = n
      BY <1>0, Halves
    <3>3. QED
      BY <3>1, <3>2
  <2>2. QED
    BY <2>1, <1>0
<1>2. ASSUME NEW l \in 0 .. Levels - 1, l \in S
      PROVE  l + 1 \in S
  <2>1. l + 1 \in 0 .. Levels /\ l \in 0 .. Levels
    BY <1>0
  <2>2. Spans(l) \in Nat /\ Spans(l + 1) \in Nat /\ Spans(l) = 2 * Spans(l + 1)
    BY <2>1, Widths, Zenon
  <2>3. Above(n, l) \in Nat /\ Above(n, l + 1) = Above(n, l) \div 2
    BY <1>0, <2>1, Halves, Zenon
  <2>4. Above(n, l) < Spans(l)
    BY <1>2
  <2>5. Above(n, l + 1) < Spans(l + 1)
    BY <2>2, <2>3, <2>4
  <2>6. QED
    BY <2>1, <2>5
<1> HIDE DEF S
<1>3. \A l \in 0 .. Levels : l \in S
  BY <1>0, <1>1, <1>2, UpFrom
<1>4. ASSUME NEW l \in 0 .. Levels
      PROVE  Above(n, l) \in 0 .. Spans(l) - 1
  <2>1. Above(n, l) < Spans(l)
    BY <1>3 DEF S
  <2>2. Above(n, l) \in Nat /\ Spans(l) \in Nat
    BY <1>0, Halves, Widths, Zenon
  <2>3. QED
    BY <2>1, <2>2
<1>5. Above(n, Levels) = 0
  <2>1. Levels \in 0 .. Levels /\ Spans(Levels) = 1
    BY <1>0, Widths
  <2>2. Above(n, Levels) \in 0 .. Spans(Levels) - 1
    BY <2>1, <1>4, Zenon
  <2>3. QED
    BY <2>1, <2>2
<1>6. QED
  BY <1>4, <1>5, Zenon
-----------------------------------------------------------------------------
(* The recursive functions of MerkleTree exist: what they were defined by  *)
(* holds of them.                                                          *)

\* The empty subtree of each level.
LEMMA ZeroesDef ==
    /\ zeroes = [l \in 0 .. Levels |-> zeroes[l]]
    /\ zeroes[0] = EmptyLeaf
    /\ \A l \in 0 .. Levels - 1 : zeroes[l + 1] = compress(zeroes[l], zeroes[l])
<1> DEFINE E(z, k) == z = [l \in 0 .. k |->
                              IF l = 0 THEN EmptyLeaf ELSE compress(z[l - 1], z[l - 1])]
           Good == {k \in 0 .. Levels : \E z : E(z, k)}
<1>0. Levels \in Nat
  BY LevelsAssumption
<1>1. 0 \in Good
  <2> DEFINE z == [l \in 0 .. 0 |-> EmptyLeaf]
  <2>1. E(z, 0)
    OBVIOUS
  <2>2. 0 \in 0 .. Levels
    BY <1>0
  <2>3. QED
    BY <2>1, <2>2
<1>2. ASSUME NEW k \in 0 .. Levels - 1, k \in Good
      PROVE  k + 1 \in Good
  <2>1. PICK z : E(z, k)
    BY <1>2
  <2> DEFINE y == [l \in 0 .. k + 1 |->
                      IF l = k + 1 THEN compress(z[k], z[k]) ELSE z[l]]
  <2>2. \A l \in 0 .. k : y[l] = z[l]
    BY <1>0
  <2>3. y[k + 1] = compress(z[k], z[k])
    BY <1>0
  <2>4. \A l \in 0 .. k : z[l] = IF l = 0 THEN EmptyLeaf ELSE compress(z[l - 1], z[l - 1])
    BY <2>1, Zenon
  <2>5. y = [l \in 0 .. k + 1 |-> y[l]]
    BY Zenon
  <2> HIDE DEF y
  <2>6. ASSUME NEW l \in 0 .. k + 1
        PROVE  y[l] = IF l = 0 THEN EmptyLeaf ELSE compress(y[l - 1], y[l - 1])
    <3>1. CASE l = k + 1
      <4>1. l # 0 /\ l - 1 = k /\ k \in 0 .. k
        BY <1>0, <3>1
      <4>2. QED
        BY <2>2, <2>3, <3>1, <4>1, Zenon
    <3>2. CASE l # k + 1
      <4>1. l \in 0 .. k /\ (l # 0 => l - 1 \in 0 .. k)
        BY <1>0, <3>2
      <4>2. QED
        BY <2>2, <2>4, <4>1, Zenon
    <3>3. QED
      BY <3>1, <3>2
  <2>7. E(y, k + 1)
    BY <2>5, <2>6, Zenon
  <2>8. k + 1 \in 0 .. Levels
    BY <1>0
  <2>9. QED
    BY <2>7, <2>8, Zenon
<1>3. Levels \in Good
  <2> HIDE DEF Good
  <2>1. \A k \in 0 .. Levels : k \in Good
    BY <1>0, <1>1, <1>2, UpFrom
  <2>2. QED
    BY <1>0, <2>1
<1>4. zeroes = CHOOSE z : E(z, Levels)
  BY Zenon DEF zeroes
<1>5. E(zeroes, Levels)
  BY <1>3, <1>4, Zenon
<1>6. zeroes = [l \in 0 .. Levels |-> zeroes[l]]
  BY <1>5, Zenon
<1>7. \A l \in 0 .. Levels :
         zeroes[l] = IF l = 0 THEN EmptyLeaf ELSE compress(zeroes[l - 1], zeroes[l - 1])
  BY <1>5, Zenon
<1>8. zeroes[0] = EmptyLeaf
  BY <1>0, <1>7
<1>9. ASSUME NEW l \in 0 .. Levels - 1
      PROVE  zeroes[l + 1] = compress(zeroes[l], zeroes[l])
  <2>1. l + 1 \in 0 .. Levels /\ l + 1 # 0 /\ (l + 1) - 1 = l
    BY <1>0
  <2>2. QED
    BY <1>7, <2>1, Zenon
<1>10. QED
  BY <1>6, <1>8, <1>9, Zenon

\* The layers of the reference tree.
LEMMA LayersDef ==
    ASSUME NEW leaves
    PROVE  /\ \A i \in 0 .. Capacity - 1 :
                 Layers(leaves)[0][i] = get(leaves, i, EmptyLeaf)
           /\ \A l \in 0 .. Levels - 1 : \A i \in 0 .. Spans(l + 1) - 1 :
                 Layers(leaves)[l + 1][i]
                   = compress(Layers(leaves)[l][2 * i], Layers(leaves)[l][2 * i + 1])
<1> DEFINE Bottom == [i \in 0 .. Capacity - 1 |-> get(leaves, i, EmptyLeaf)]
           Over(below, l) == [i \in 0 .. 2 ^ (Levels - l) - 1 |->
                                compress(below[2 * i], below[2 * i + 1])]
           E(z, k) == z = [l \in 0 .. k |-> IF l = 0 THEN Bottom ELSE Over(z[l - 1], l)]
           Good == {k \in 0 .. Levels : \E z : E(z, k)}
           layers == Layers(leaves)
<1>0. Levels \in Nat
  BY LevelsAssumption
<1>4. layers = CHOOSE z : E(z, Levels)
  BY Zenon DEF Layers
<1>f. \A l \in 0 .. Levels : \A below : \A i \in 0 .. Spans(l) - 1 :
         Over(below, l)[i] = compress(below[2 * i], below[2 * i + 1])
  BY Zenon DEF Spans
<1>b. \A i \in 0 .. Capacity - 1 : Bottom[i] = get(leaves, i, EmptyLeaf)
  BY Zenon
<1> HIDE DEF Bottom, Over, layers
<1>1. 0 \in Good
  <2> DEFINE z == [l \in 0 .. 0 |-> Bottom]
  <2>1. E(z, 0)
    OBVIOUS
  <2>2. 0 \in 0 .. Levels
    BY <1>0
  <2>3. QED
    BY <2>1, <2>2
<1>2. ASSUME NEW k \in 0 .. Levels - 1, k \in Good
      PROVE  k + 1 \in Good
  <2>1. PICK z : E(z, k)
    BY <1>2
  <2> DEFINE y == [l \in 0 .. k + 1 |-> IF l = k + 1 THEN Over(z[k], k + 1) ELSE z[l]]
  <2>2. \A l \in 0 .. k : y[l] = z[l]
    BY <1>0
  <2>3. y[k + 1] = Over(z[k], k + 1)
    BY <1>0
  <2>4. \A l \in 0 .. k : z[l] = IF l = 0 THEN Bottom ELSE Over(z[l - 1], l)
    BY <2>1, Zenon
  <2>5. y = [l \in 0 .. k + 1 |-> y[l]]
    BY Zenon
  <2> HIDE DEF y
  <2>6. ASSUME NEW l \in 0 .. k + 1
        PROVE  y[l] = IF l = 0 THEN Bottom ELSE Over(y[l - 1], l)
    <3>1. CASE l = k + 1
      <4>1. l # 0 /\ l - 1 = k /\ k \in 0 .. k
        BY <1>0, <3>1
      <4>2. QED
        BY <2>2, <2>3, <3>1, <4>1, Zenon
    <3>2. CASE l # k + 1
      <4>1. l \in 0 .. k /\ (l # 0 => l - 1 \in 0 .. k)
        BY <1>0, <3>2
      <4>2. QED
        BY <2>2, <2>4, <4>1, Zenon
    <3>3. QED
      BY <3>1, <3>2
  <2>7. E(y, k + 1)
    BY <2>5, <2>6, Zenon
  <2>8. k + 1 \in 0 .. Levels
    BY <1>0
  <2>9. QED
    BY <2>7, <2>8, Zenon
<1>3. Levels \in Good
  <2> HIDE DEF Good
  <2>1. \A k \in 0 .. Levels : k \in Good
    BY <1>0, <1>1, <1>2, UpFrom
  <2>2. QED
    BY <1>0, <2>1
<1>5. E(layers, Levels)
  BY <1>3, <1>4, Zenon
<1>6. \A l \in 0 .. Levels : layers[l] = IF l = 0 THEN Bottom ELSE Over(layers[l - 1], l)
  BY <1>5, Zenon
<1>7. layers[0] = Bottom
  BY <1>0, <1>6
<1>8. ASSUME NEW l \in 0 .. Levels - 1, NEW i \in 0 .. Spans(l + 1) - 1
      PROVE  layers[l + 1][i] = compress(layers[l][2 * i], layers[l][2 * i + 1])
  <2>1. l + 1 \in 0 .. Levels /\ l + 1 # 0 /\ (l + 1) - 1 = l
    BY <1>0
  <2>2. layers[l + 1] = Over(layers[l], l + 1)
    BY <1>6, <2>1, Zenon
  <2>3. QED
    BY <1>f, <2>1, <2>2, Zenon
<1>9. QED
  BY <1>b, <1>7, <1>8, Zenon DEF layers
-----------------------------------------------------------------------------
(* The reference tree, and what an insertion leaves of it. *)

\* The two children of a node are nodes of the level below.
LEMMA Children ==
    ASSUME NEW l \in 0 .. Levels - 1, NEW i \in 0 .. Spans(l + 1) - 1
    PROVE  /\ i \in Nat
           /\ 2 * i \in 0 .. Spans(l) - 1
           /\ 2 * i + 1 \in 0 .. Spans(l) - 1
<1>1. Levels \in Nat
  BY LevelsAssumption
<1>2. l \in 0 .. Levels /\ l + 1 \in 0 .. Levels
  BY <1>1
<1>3. Spans(l) \in Nat /\ Spans(l + 1) \in Nat /\ Spans(l) = 2 * Spans(l + 1)
  BY <1>2, Widths, Zenon
<1>4. QED
  BY <1>3

\* Where two trees agree left of leaf n's ancestor, they do so at every level.
LEMMA SameLeft ==
    ASSUME NEW s \in 0 .. Levels, NEW n \in 0 .. Capacity - 1, NEW old, NEW new,
           \A i \in 0 .. Above(n, s) - 1 : Layers(new)[s][i] = Layers(old)[s][i]
    PROVE  \A l \in s .. Levels : \A i \in 0 .. Above(n, l) - 1 :
               Layers(new)[l][i] = Layers(old)[l][i]
<1> DEFINE Same(l) == \A i \in 0 .. Above(n, l) - 1 : Layers(new)[l][i] = Layers(old)[l][i]
           S == {l \in s .. Levels : Same(l)}
<1>0. Levels \in Nat /\ s \in Nat /\ Capacity \in Nat
  BY LevelsAssumption, Widths
<1>1. s \in S
  BY <1>0
<1>2. ASSUME NEW l \in s .. Levels - 1, l \in S
      PROVE  l + 1 \in S
  <2>1. l \in 0 .. Levels - 1 /\ l + 1 \in s .. Levels /\ l \in 0 .. Levels /\ l + 1 \in 0 .. Levels
    BY <1>0
  <2>2. Above(n, l) \in Nat /\ Above(n, l + 1) \in Nat /\ Above(n, l + 1) = Above(n, l) \div 2
    <3>1. n \in Nat
      BY <1>0
    <3>2. QED
      BY <2>1, <3>1, Halves, Zenon
  <2>3. Above(n, l + 1) \in 0 .. Spans(l + 1) - 1 /\ Spans(l + 1) \in Nat
    BY <2>1, Inside, Widths, Zenon
  <2>4. Same(l)
    BY <1>2
  <2>5. ASSUME NEW i \in 0 .. Above(n, l + 1) - 1
        PROVE  Layers(new)[l + 1][i] = Layers(old)[l + 1][i]
    <3>1. i \in 0 .. Spans(l + 1) - 1
      BY <2>2, <2>3
    <3>2. 2 * i \in 0 .. Above(n, l) - 1 /\ 2 * i + 1 \in 0 .. Above(n, l) - 1
      BY <2>2
    <3>3. /\ Layers(new)[l][2 * i] = Layers(old)[l][2 * i]
          /\ Layers(new)[l][2 * i + 1] = Layers(old)[l][2 * i + 1]
      BY <2>4, <3>2, Zenon
    <3>4. /\ Layers(new)[l + 1][i] = compress(Layers(new)[l][2 * i], Layers(new)[l][2 * i + 1])
          /\ Layers(old)[l + 1][i] = compress(Layers(old)[l][2 * i], Layers(old)[l][2 * i + 1])
      BY <2>1, <3>1, LayersDef, Zenon
    <3>5. QED
      BY <3>3, <3>4, Zenon
  <2>6. QED
    BY <2>1, <2>5, Zenon
<1> HIDE DEF S
<1>3. \A l \in s .. Levels : l \in S
  BY <1>0, <1>1, <1>2, UpFrom
<1>4. QED
  BY <1>3, Zenon DEF S

\* Where a tree is empty right of leaf n's ancestor, it is so at every level.
LEMMA EmptyRight ==
    ASSUME NEW s \in 0 .. Levels, NEW n \in 0 .. Capacity - 1, NEW new,
           \A i \in Above(n, s) + 1 .. Spans(s) - 1 : Layers(new)[s][i] = zeroes[s]
    PROVE  \A l \in s .. Levels : \A i \in Above(n, l) + 1 .. Spans(l) - 1 :
               Layers(new)[l][i] = zeroes[l]
<1> DEFINE Empty(l) == \A i \in Above(n, l) + 1 .. Spans(l) - 1 : Layers(new)[l][i] = zeroes[l]
           S == {l \in s .. Levels : Empty(l)}
<1>0. Levels \in Nat /\ s \in Nat /\ Capacity \in Nat
  BY LevelsAssumption, Widths
<1>1. s \in S
  BY <1>0
<1>2. ASSUME NEW l \in s .. Levels - 1, l \in S
      PROVE  l + 1 \in S
  <2>1. l \in 0 .. Levels - 1 /\ l + 1 \in s .. Levels /\ l \in 0 .. Levels /\ l + 1 \in 0 .. Levels
    BY <1>0
  <2>2. Above(n, l) \in Nat /\ Above(n, l + 1) \in Nat /\ Above(n, l + 1) = Above(n, l) \div 2
    <3>1. n \in Nat
      BY <1>0
    <3>2. QED
      BY <2>1, <3>1, Halves, Zenon
  <2>3. Spans(l + 1) \in Nat /\ Spans(l) \in Nat
    BY <2>1, Widths, Zenon
  <2>4. Empty(l)
    BY <1>2
  <2>5. ASSUME NEW i \in Above(n, l + 1) + 1 .. Spans(l + 1) - 1
        PROVE  Layers(new)[l + 1][i] = zeroes[l + 1]
    <3>1. i \in 0 .. Spans(l + 1) - 1
      BY <2>2, <2>3
    <3>2. i \in Nat /\ 2 * i \in 0 .. Spans(l) - 1 /\ 2 * i + 1 \in 0 .. Spans(l) - 1
      BY <2>1, <3>1, Children, Zenon
    <3>3. 2 * i \in Above(n, l) + 1 .. Spans(l) - 1 /\ 2 * i + 1 \in Above(n, l) + 1 .. Spans(l) - 1
      BY <2>2, <2>3, <3>2
    <3>4. Layers(new)[l][2 * i] = zeroes[l] /\ Layers(new)[l][2 * i + 1] = zeroes[l]
      BY <2>4, <3>3, Zenon
    <3>5. Layers(new)[l + 1][i] = compress(Layers(new)[l][2 * i], Layers(new)[l][2 * i + 1])
      BY <2>1, <3>1, LayersDef, Zenon
    <3>6. zeroes[l + 1] = compress(zeroes[l], zeroes[l])
      BY <2>1, ZeroesDef, Zenon
    <3>7. QED
      BY <3>4, <3>5, <3>6, Zenon
  <2>6. QED
    BY <2>1, <2>5, Zenon
<1> HIDE DEF S
<1>3. \A l \in s .. Levels : l \in S
  BY <1>0, <1>1, <1>2, UpFrom
<1>4. QED
  BY <1>3, Zenon DEF S

\* A node with no leaf below it is the empty subtree of its level.
LEMMA EmptyNode ==
    ASSUME NEW leaves, DOMAIN leaves \in SUBSET (0 .. Capacity - 1)
    PROVE  \A l \in 0 .. Levels : \A i \in 0 .. Spans(l) - 1 :
               (\A j \in DOMAIN leaves : Above(j, l) # i) => Layers(leaves)[l][i] = zeroes[l]
<1> DEFINE Bare(l, i) == \A j \in DOMAIN leaves : Above(j, l) # i
           S == {l \in 0 .. Levels : \A i \in 0 .. Spans(l) - 1 :
                    Bare(l, i) => Layers(leaves)[l][i] = zeroes[l]}
<1>0. Levels \in Nat /\ Capacity \in Nat /\ 0 \in Nat
  BY LevelsAssumption, Widths
<1>1. 0 \in S
  <2>1. ASSUME NEW i \in 0 .. Spans(0) - 1, Bare(0, i)
        PROVE  Layers(leaves)[0][i] = zeroes[0]
    <3>1. i \in 0 .. Capacity - 1
      BY Widths, Zenon
    <3>2. i \notin DOMAIN leaves
      <4> SUFFICES ASSUME i \in DOMAIN leaves PROVE FALSE
        OBVIOUS
      <4>1. i \in Nat
        BY <1>0, <3>1
      <4>2. Above(i, 0) = i
        BY <4>1, Halves, Zenon
      <4>3. QED
        BY <2>1, <4>2, Zenon
    <3>3. Layers(leaves)[0][i] = get(leaves, i, EmptyLeaf)
      BY <3>1, LayersDef, Zenon
    <3>4. QED
      BY <3>2, <3>3, ZeroesDef, Zenon DEF get
  <2>2. 0 \in 0 .. Levels
    BY <1>0
  <2>3. QED
    BY <2>1, <2>2, Zenon
<1>2. ASSUME NEW l \in 0 .. Levels - 1, l \in S
      PROVE  l + 1 \in S
  <2>1. l + 1 \in 0 .. Levels /\ l \in 0 .. Levels
    BY <1>0
  <2>2. ASSUME NEW i \in 0 .. Spans(l + 1) - 1, Bare(l + 1, i)
        PROVE  Layers(leaves)[l + 1][i] = zeroes[l + 1]
    <3>1. i \in Nat /\ 2 * i \in 0 .. Spans(l) - 1 /\ 2 * i + 1 \in 0 .. Spans(l) - 1
      BY Children, Zenon
    <3>2. ASSUME NEW j \in DOMAIN leaves
          PROVE  Above(j, l) # 2 * i /\ Above(j, l) # 2 * i + 1
      <4>1. j \in Nat
        BY <1>0
      <4>2. Above(j, l) \in Nat /\ Above(j, l + 1) = Above(j, l) \div 2
        BY <2>1, <4>1, Halves, Zenon
      <4>3. Above(j, l + 1) # i
        BY <2>2, Zenon
      <4>4. QED
        BY <3>1, <4>2, <4>3
    <3>3. Bare(l, 2 * i) /\ Bare(l, 2 * i + 1)
      BY <3>2, Zenon
    <3>4. Layers(leaves)[l][2 * i] = zeroes[l] /\ Layers(leaves)[l][2 * i + 1] = zeroes[l]
      BY <1>2, <3>1, <3>3, Zenon
    <3>5. Layers(leaves)[l + 1][i]
            = compress(Layers(leaves)[l][2 * i], Layers(leaves)[l][2 * i + 1])
      BY LayersDef, Zenon
    <3>6. zeroes[l + 1] = compress(zeroes[l], zeroes[l])
      BY ZeroesDef, Zenon
    <3>7. QED
      BY <3>4, <3>5, <3>6, Zenon
  <2>3. QED
    BY <2>1, <2>2, Zenon
<1> HIDE DEF S
<1>3. \A l \in 0 .. Levels : l \in S
  BY <1>0, <1>1, <1>2, UpFrom
<1>4. QED
  BY <1>3, Zenon DEF S
-----------------------------------------------------------------------------
(* The incremental insertion. *)

\* What the remembered left siblings are: on the way up from the next free
\* position n, the sibling of each right child, of the tree as it is.
Frontier(filled, leaves, n, s) ==
    /\ filled = [k \in 0 .. Levels |-> filled[k]]
    /\ \A l \in s .. Levels - 1 :
          Above(n, l) % 2 = 1 => filled[l] = Layers(leaves)[l][Above(n, l) - 1]

\* The way up from a node that is the last of the new tree ends at the new root,
\* whatever the depth, and leaves the siblings the next position m will need.
LEMMA ClimbRight ==
    ASSUME NEW s \in 0 .. Levels, NEW n \in 0 .. Capacity - 1, NEW m \in Nat,
           NEW old, NEW new, NEW filled, NEW hash,
           Frontier(filled, old, n, s),
           Above(m, s) = Above(n, s) + 1,
           \A i \in 0 .. Above(n, s) - 1 : Layers(new)[s][i] = Layers(old)[s][i],
           Layers(new)[s][Above(n, s)] = hash,
           \A i \in Above(n, s) + 1 .. Spans(s) - 1 : Layers(new)[s][i] = zeroes[s]
    PROVE  /\ UpdatePath(filled, s, hash, Above(n, s)).hash = ReferenceRoot(new)
           /\ Frontier(UpdatePath(filled, s, hash, Above(n, s)).filled, new, m, s)
<1> DEFINE Node(l) == Layers(new)[l][Above(n, l)]
           Kept(l) == [k \in 0 .. Levels |->
                         IF s <= k /\ k < l /\ Above(n, k) % 2 = 0 THEN Node(k) ELSE filled[k]]
           Rung(l) == [hash |-> Node(l), index |-> Above(n, l), filled |-> Kept(l)]
<1>0. Levels \in Nat /\ s \in Nat /\ Capacity \in Nat /\ s \in 0 .. Levels
  BY LevelsAssumption, Widths
<1>1. n \in Nat
  BY <1>0
<1>2. \A l \in s .. Levels : \A i \in 0 .. Above(n, l) - 1 :
         Layers(new)[l][i] = Layers(old)[l][i]
  BY <1>0, SameLeft
<1>3. \A l \in s .. Levels : \A i \in Above(n, l) + 1 .. Spans(l) - 1 :
         Layers(new)[l][i] = zeroes[l]
  BY <1>0, EmptyRight
<1>4. ASSUME NEW l \in s .. Levels - 1
      PROVE  Climb(Rung(l), l) = Rung(l + 1)
  <2>1. /\ l \in Nat /\ l \in 0 .. Levels - 1 /\ l + 1 \in s .. Levels
        /\ l \in 0 .. Levels /\ l + 1 \in 0 .. Levels /\ l \in s .. Levels
    BY <1>0
  <2> DEFINE a == Above(n, l)
             b == Above(n, l + 1)
  <2>2. a \in Nat /\ b \in Nat /\ b = a \div 2
    BY <1>1, <2>1, Halves, Zenon
  <2>3. a \in 0 .. Spans(l) - 1 /\ b \in 0 .. Spans(l + 1) - 1
    BY <2>1, Inside, Zenon
  <2>4. Spans(l) \in Nat /\ Spans(l + 1) \in Nat /\ Spans(l) = 2 * Spans(l + 1)
    BY <2>1, Widths, Zenon
  <2>5. Node(l + 1) = compress(Layers(new)[l][2 * b], Layers(new)[l][2 * b + 1])
    BY <2>1, <2>3, LayersDef, Zenon
  <2>6. Node(l) = Layers(new)[l][a]
    OBVIOUS
  <2>7. Rung(l).index = a /\ Rung(l).hash = Node(l) /\ Rung(l).filled = Kept(l)
    BY Zenon
  <2>8. CASE a % 2 = 1
    <3>1. 2 * b = a - 1 /\ 2 * b + 1 = a /\ a - 1 \in 0 .. a - 1
      BY <2>2, <2>8
    <3>2. Kept(l)[l] = filled[l]
      BY <2>1
    <3>3. filled[l] = Layers(old)[l][a - 1]
      BY <2>1, <2>8, Zenon DEF Frontier
    <3>4. Layers(new)[l][a - 1] = Layers(old)[l][a - 1]
      BY <1>2, <2>1, <3>1, Zenon
    <3>5. Node(l + 1) = compress(Kept(l)[l], Node(l))
      BY <2>5, <2>6, <3>1, <3>2, <3>3, <3>4, Zenon
    <3>6. Kept(l + 1) = Kept(l)
      <4> SUFFICES ASSUME NEW k \in 0 .. Levels
                   PROVE  (s <= k /\ k < l + 1 /\ Above(n, k) % 2 = 0)
                            <=> (s <= k /\ k < l /\ Above(n, k) % 2 = 0)
        BY Zenon
      <4>1. CASE k = l
        <5>1. Above(n, k) % 2 # 0
          BY <2>2, <2>8, <4>1
        <5>2. QED
          BY <5>1, Zenon
      <4>2. CASE k # l
        <5>1. k < l + 1 <=> k < l
          BY <1>0, <2>1, <4>2
        <5>2. QED
          BY <5>1, Zenon
      <4>3. QED
        BY <4>1, <4>2, Zenon
    <3>7. Climb(Rung(l), l) = [Rung(l) EXCEPT !.hash = compress(Kept(l)[l], Node(l)), !.index = b]
      BY <2>2, <2>7, <2>8, Zenon DEF Climb
    <3> HIDE DEF Node, Kept, a, b
    <3>8. Climb(Rung(l), l) = [hash |-> Node(l + 1), index |-> b, filled |-> Kept(l)]
      BY <3>5, <3>7
    <3>9. QED
      BY <3>6, <3>8, Zenon DEF b
  <2>9. CASE a % 2 # 1
    <3>1. 2 * b = a /\ 2 * b + 1 \in a + 1 .. Spans(l) - 1
      BY <2>2, <2>3, <2>4, <2>9
    <3>2. Layers(new)[l][2 * b + 1] = zeroes[l]
      BY <1>3, <2>1, <3>1, Zenon
    <3>3. Node(l + 1) = compress(Node(l), zeroes[l])
      BY <2>5, <2>6, <3>1, <3>2, Zenon
    <3>4. Kept(l + 1) = [Kept(l) EXCEPT ![l] = Node(l)]
      <4>1. ASSUME NEW k \in 0 .. Levels
            PROVE  Kept(l + 1)[k] = IF k = l THEN Node(l) ELSE Kept(l)[k]
        <5>1. CASE k = l
          <6>1. s <= k /\ k < l + 1
            BY <1>0, <2>1, <5>1
          <6>2. Above(n, k) % 2 = 0
            BY <2>2, <2>9, <5>1
          <6>3. QED
            BY <5>1, <6>1, <6>2, Zenon
        <5>2. CASE k # l
          <6>1. k < l + 1 <=> k < l
            BY <1>0, <2>1, <5>2
          <6>2. QED
            BY <5>2, <6>1, Zenon
        <5>3. QED
          BY <5>1, <5>2, Zenon
      <4> DEFINE new1 == Kept(l + 1)
                 old1 == Kept(l)
                 v == Node(l)
      <4>2. new1 = [k \in 0 .. Levels |-> new1[k]] /\ old1 = [k \in 0 .. Levels |-> old1[k]]
        BY Zenon
      <4>3. \A k \in 0 .. Levels : new1[k] = IF k = l THEN v ELSE old1[k]
        BY <4>1, Zenon
      <4> HIDE DEF new1, old1, v
      <4>4. new1 = [old1 EXCEPT ![l] = v]
        BY <4>2, <4>3, Zenon
      <4>5. QED
        BY <4>4, Zenon DEF new1, old1, v
    <3>5. Climb(Rung(l), l) = [hash |-> compress(Node(l), zeroes[l]), index |-> b,
                               filled |-> [Kept(l) EXCEPT ![l] = Node(l)]]
      BY <2>2, <2>7, <2>9, Zenon DEF Climb
    <3>6. QED
      BY <3>3, <3>4, <3>5, Zenon
  <2>10. QED
    BY <2>8, <2>9
<1>5. Rung(s) = [hash |-> hash, index |-> Above(n, s), filled |-> filled]
  <2>1. Kept(s) = [k \in 0 .. Levels |-> filled[k]]
    <3>1. \A k \in 0 .. Levels : ~ (s <= k /\ k < s)
      BY <1>0
    <3>2. QED
      BY <3>1, Zenon
  <2>2. Kept(s) = filled
    BY <2>1, Zenon DEF Frontier
  <2>3. QED
    BY <2>2, Zenon
<1>r. Rung(Levels).hash = Node(Levels) /\ Rung(Levels).filled = Kept(Levels)
  <2> HIDE DEF Node, Kept
  <2>1. QED
    OBVIOUS
<1> HIDE DEF Rung
<1>6. UpdatePath(filled, s, hash, Above(n, s)) = Rung(Levels)
  <2> DEFINE first == [hash |-> hash, index |-> Above(n, s), filled |-> filled]
             E(z) == z = [l \in s .. Levels |-> IF l = s THEN first ELSE Climb(z[l - 1], l - 1)]
             at == CHOOSE z : E(z)
             up == [l \in s .. Levels |-> Rung(l)]
  <2>1. UpdatePath(filled, s, hash, Above(n, s)) = at[Levels]
    BY Zenon DEF UpdatePath
  <2>2. first = Rung(s)
    BY <1>5, Zenon
  <2> HIDE DEF first
  <2>3. E(up)
    <3>1. ASSUME NEW l \in s .. Levels
          PROVE  Rung(l) = IF l = s THEN first ELSE Climb(up[l - 1], l - 1)
      <4>1. CASE l = s
        BY <2>2, <4>1, Zenon
      <4>2. CASE l # s
        <5>1. l - 1 \in s .. Levels - 1 /\ (l - 1) + 1 = l /\ l - 1 \in s .. Levels
          BY <1>0, <4>2
        <5>2. Climb(Rung(l - 1), l - 1) = Rung(l)
          BY <1>4, <5>1, Zenon
        <5>3. up[l - 1] = Rung(l - 1)
          BY <5>1, Zenon
        <5>4. QED
          BY <4>2, <5>2, <5>3, Zenon
      <4>3. QED
        BY <4>1, <4>2, Zenon
    <3>2. QED
      BY <3>1, Zenon
  <2>4. E(at)
    BY <2>3, Zenon
  <2>5. \A l \in s .. Levels : at[l] = IF l = s THEN first ELSE Climb(at[l - 1], l - 1)
    BY <2>4, Zenon
  <2> HIDE DEF at, up
  <2> DEFINE S == {l \in s .. Levels : at[l] = Rung(l)}
  <2>6. s \in S
    BY <1>0, <2>2, <2>5
  <2>7. ASSUME NEW l \in s .. Levels - 1, l \in S
        PROVE  l + 1 \in S
    <3>1. l + 1 \in s .. Levels /\ l + 1 # s /\ (l + 1) - 1 = l
      BY <1>0
    <3>2. at[l + 1] = Climb(at[l], l)
      BY <2>5, <3>1, Zenon
    <3>3. QED
      BY <1>4, <2>7, <3>1, <3>2, Zenon
  <2> HIDE DEF S
  <2>8. \A l \in s .. Levels : l \in S
    BY <1>0, <2>6, <2>7, UpFrom
  <2>9. Levels \in s .. Levels
    BY <1>0
  <2>10. at[Levels] = Rung(Levels)
    BY <2>8, <2>9, Zenon DEF S
  <2>11. QED
    BY <2>1, <2>10, Zenon
<1>7. UpdatePath(filled, s, hash, Above(n, s)).hash = ReferenceRoot(new)
  <2>1. Above(n, Levels) = 0
    BY Inside, Zenon
  <2>2. QED
    BY <1>6, <1>r, <2>1, Zenon DEF ReferenceRoot
<1>8. UpdatePath(filled, s, hash, Above(n, s)).filled = Kept(Levels)
  BY <1>6, <1>r, Zenon
<1>9. \A l \in s .. Levels : Above(m, l) = Above(n, l) \/ Above(m, l) = Above(n, l) + 1
  <2> DEFINE S == {l \in s .. Levels : Above(m, l) = Above(n, l) \/ Above(m, l) = Above(n, l) + 1}
  <2>1. s \in S
    BY <1>0
  <2>2. ASSUME NEW l \in s .. Levels - 1, l \in S
        PROVE  l + 1 \in S
    <3>1. l \in 0 .. Levels - 1 /\ l \in 0 .. Levels /\ l + 1 \in s .. Levels
      BY <1>0
    <3>2. /\ Above(n, l) \in Nat /\ Above(n, l + 1) = Above(n, l) \div 2
          /\ Above(m, l) \in Nat /\ Above(m, l + 1) = Above(m, l) \div 2
      BY <1>1, <3>1, Halves, Zenon
    <3>3. Above(m, l) = Above(n, l) \/ Above(m, l) = Above(n, l) + 1
      BY <2>2
    <3>4. Above(m, l + 1) = Above(n, l + 1) \/ Above(m, l + 1) = Above(n, l + 1) + 1
      BY <3>2, <3>3
    <3>5. QED
      BY <3>1, <3>4
  <2> HIDE DEF S
  <2>3. \A l \in s .. Levels : l \in S
    BY <1>0, <2>1, <2>2, UpFrom
  <2>4. QED
    BY <2>3, Zenon DEF S
<1>10. ASSUME NEW l \in s .. Levels - 1, Above(m, l) % 2 = 1
       PROVE  Kept(Levels)[l] = Layers(new)[l][Above(m, l) - 1]
  <2>1. /\ l \in 0 .. Levels /\ l \in s .. Levels /\ s <= l /\ l < Levels
    BY <1>0
  <2>2. Above(n, l) \in Nat /\ Above(m, l) \in Nat
    BY <1>1, <2>1, Halves, Zenon
  <2>3. CASE Above(m, l) = Above(n, l)
    <3>1. Above(n, l) % 2 = 1 /\ ~ (Above(n, l) % 2 = 0) /\ Above(n, l) - 1 \in 0 .. Above(n, l) - 1
      BY <1>10, <2>2, <2>3
    <3>2. Kept(Levels)[l] = filled[l]
      BY <2>1, <3>1, Zenon
    <3>3. filled[l] = Layers(old)[l][Above(n, l) - 1]
      BY <3>1, Zenon DEF Frontier
    <3>4. Layers(new)[l][Above(n, l) - 1] = Layers(old)[l][Above(n, l) - 1]
      BY <1>2, <2>1, <3>1, Zenon
    <3>5. QED
      BY <2>3, <3>2, <3>3, <3>4, Zenon
  <2>4. CASE Above(m, l) = Above(n, l) + 1
    <3>1. Above(n, l) % 2 = 0 /\ Above(m, l) - 1 = Above(n, l)
      BY <1>10, <2>2, <2>4
    <3>2. Kept(Levels)[l] = Node(l)
      BY <2>1, <3>1, Zenon
    <3>3. QED
      BY <3>1, <3>2, Zenon
  <2>5. QED
    BY <1>9, <2>1, <2>3, <2>4, Zenon
<1>11. Kept(Levels) = [k \in 0 .. Levels |-> Kept(Levels)[k]]
  BY Zenon
<1> HIDE DEF Kept
<1>12. QED
  BY <1>7, <1>8, <1>10, <1>11, Zenon DEF Frontier

\* A new tree: its root and its frontier are the empty subtrees.
LEMMA EmptyTreeRight ==
    ASSUME NEW leaves, DOMAIN leaves = {}
    PROVE  /\ ReferenceRoot(leaves) = zeroes[Levels]
           /\ \A s \in 0 .. Levels : Frontier(zeroes, leaves, 0, s)
<1>0. Levels \in Nat /\ Levels \in 0 .. Levels
  BY LevelsAssumption
<1>1. Layers(leaves)[Levels][0] = zeroes[Levels]
  <2>1. 0 \in 0 .. Spans(Levels) - 1
    BY Widths
  <2>2. DOMAIN leaves \in SUBSET (0 .. Capacity - 1)
    OBVIOUS
  <2>3. \A j \in DOMAIN leaves : Above(j, Levels) # 0
    OBVIOUS
  <2>4. QED
    BY <1>0, <2>1, <2>2, <2>3, EmptyNode, Zenon
<1>2. \A l \in 0 .. Levels : Above(0, l) = 0
  <2> DEFINE S == {l \in 0 .. Levels : Above(0, l) = 0}
  <2>1. 0 \in S
    <3>1. Above(0, 0) = 0
      BY Halves
    <3>2. QED
      BY <1>0, <3>1
  <2>2. ASSUME NEW l \in 0 .. Levels - 1, l \in S
        PROVE  l + 1 \in S
    <3>1. Above(0, l + 1) = Above(0, l) \div 2
      BY Halves
    <3>2. l + 1 \in 0 .. Levels
      BY <1>0
    <3>3. Above(0, l) = 0
      BY <2>2
    <3>4. Above(0, l + 1) = 0
      BY <3>1, <3>3
    <3>5. QED
      BY <3>2, <3>4
  <2> HIDE DEF S
  <2>3. \A l \in 0 .. Levels : l \in S
    BY <1>0, <2>1, <2>2, UpFrom
  <2>4. QED
    BY <2>3, Zenon DEF S
<1>3. ASSUME NEW s \in 0 .. Levels
      PROVE  Frontier(zeroes, leaves, 0, s)
  <2>1. zeroes = [k \in 0 .. Levels |-> zeroes[k]]
    BY ZeroesDef, Zenon
  <2>2. ASSUME NEW l \in s .. Levels - 1, Above(0, l) % 2 = 1
        PROVE  FALSE
    <3>1. l \in 0 .. Levels
      BY <1>0
    <3>2. Above(0, l) = 0
      BY <1>2, <3>1, Zenon
    <3>3. QED
      BY <2>2, <3>2
  <2>3. QED
    BY <2>1, <2>2, Zenon DEF Frontier
<1>4. QED
  BY <1>1, <1>3, Zenon DEF ReferenceRoot

\* The contract's insert_leaf and the indexer's push: one leaf more.
LEMMA PushRight ==
    ASSUME NEW n \in 0 .. Capacity - 1, NEW old, NEW new, NEW filled,
           Frontier(filled, old, n, 0),
           DOMAIN old = 0 .. n - 1, DOMAIN new = 0 .. n,
           \A i \in 0 .. n - 1 : new[i] = old[i]
    PROVE  /\ UpdatePath(filled, 0, new[n], n).hash = ReferenceRoot(new)
           /\ Frontier(UpdatePath(filled, 0, new[n], n).filled, new, n + 1, 0)
<1>0. Levels \in Nat /\ Capacity \in Nat /\ Spans(0) = Capacity /\ 0 \in 0 .. Levels - 1
  BY LevelsAssumption, Widths
<1>1. n \in Nat /\ n + 1 \in Nat
  BY <1>0
<1>2. Above(n, 0) = n /\ Above(n + 1, 0) = n + 1
  BY <1>1, Halves, Zenon
<1>3. \A i \in 0 .. Capacity - 1 : /\ Layers(new)[0][i] = get(new, i, EmptyLeaf)
                                   /\ Layers(old)[0][i] = get(old, i, EmptyLeaf)
  BY LayersDef, Zenon
<1>4. ASSUME NEW i \in 0 .. Above(n, 0) - 1
      PROVE  Layers(new)[0][i] = Layers(old)[0][i]
  <2>1. i \in 0 .. n - 1 /\ i \in 0 .. n /\ i \in 0 .. Capacity - 1
    BY <1>0, <1>1, <1>2
  <2>2. QED
    BY <1>3, <2>1, Zenon DEF get
<1>5. Layers(new)[0][Above(n, 0)] = new[n]
  <2>1. n \in 0 .. n
    BY <1>1
  <2>2. QED
    BY <1>2, <1>3, <2>1, Zenon DEF get
<1>6. ASSUME NEW i \in Above(n, 0) + 1 .. Spans(0) - 1
      PROVE  Layers(new)[0][i] = zeroes[0]
  <2>1. i \in 0 .. Capacity - 1 /\ i \notin 0 .. n
    BY <1>0, <1>1, <1>2
  <2>2. QED
    BY <1>3, <2>1, ZeroesDef, Zenon DEF get
<1>7. Above(n + 1, 0) = Above(n, 0) + 1
  BY <1>2, Zenon
<1> DEFINE end == UpdatePath(filled, 0, new[n], Above(n, 0))
<1>8. end.hash = ReferenceRoot(new) /\ Frontier(end.filled, new, n + 1, 0)
  BY <1>0, <1>1, <1>4, <1>5, <1>6, <1>7, ClimbRight
<1>9. end = UpdatePath(filled, 0, new[n], n)
  BY <1>2, Zenon
<1>10. QED
  BY <1>8, <1>9, Zenon

\* The pool's insert_two_leaves: a pair climbs from the first level.
LEMMA PairRight ==
    ASSUME NEW n \in 0 .. Capacity - 2, n % 2 = 0, NEW old, NEW new, NEW filled,
           Frontier(filled, old, n, 1),
           DOMAIN old = 0 .. n - 1, DOMAIN new = 0 .. n + 1,
           \A i \in 0 .. n - 1 : new[i] = old[i]
    PROVE  /\ UpdatePath(filled, 1, compress(new[n], new[n + 1]), n \div 2).hash
                = ReferenceRoot(new)
           /\ Frontier(UpdatePath(filled, 1, compress(new[n], new[n + 1]), n \div 2).filled,
                       new, n + 2, 1)
<1>0. /\ Levels \in Nat /\ Capacity \in Nat /\ Spans(0) = Capacity
      /\ 0 \in 0 .. Levels - 1 /\ 0 \in 0 .. Levels /\ 1 \in 0 .. Levels /\ 0 + 1 = 1
  BY LevelsAssumption, Widths
<1>1. n \in Nat /\ n + 2 \in Nat /\ n \in 0 .. Capacity - 1
  BY <1>0
<1>2. Spans(1) \in Nat /\ Spans(0) = 2 * Spans(1)
  BY <1>0, Widths
<1>3. Above(n, 1) = n \div 2 /\ Above(n + 2, 1) = (n + 2) \div 2
  <2>1. Above(n, 0) = n /\ Above(n + 2, 0) = n + 2
    BY <1>1, Halves, Zenon
  <2>2. Above(n, 0 + 1) = Above(n, 0) \div 2 /\ Above(n + 2, 0 + 1) = Above(n + 2, 0) \div 2
    BY <1>0, <1>1, Halves, Zenon
  <2>3. QED
    BY <1>0, <2>1, <2>2, Zenon
<1>4. \A i \in 0 .. Capacity - 1 : /\ Layers(new)[0][i] = get(new, i, EmptyLeaf)
                                   /\ Layers(old)[0][i] = get(old, i, EmptyLeaf)
  BY LayersDef, Zenon
<1>5. \A i \in 0 .. Spans(1) - 1 :
         /\ Layers(new)[1][i] = compress(Layers(new)[0][2 * i], Layers(new)[0][2 * i + 1])
         /\ Layers(old)[1][i] = compress(Layers(old)[0][2 * i], Layers(old)[0][2 * i + 1])
  <2>1. \A i \in 0 .. Spans(0 + 1) - 1 :
         /\ Layers(new)[0 + 1][i] = compress(Layers(new)[0][2 * i], Layers(new)[0][2 * i + 1])
         /\ Layers(old)[0 + 1][i] = compress(Layers(old)[0][2 * i], Layers(old)[0][2 * i + 1])
    BY <1>0, LayersDef, Zenon
  <2>2. QED
    BY <1>0, <2>1, Zenon
<1>6. ASSUME NEW i \in 0 .. Above(n, 1) - 1
      PROVE  Layers(new)[1][i] = Layers(old)[1][i]
  <2>1. /\ i \in 0 .. Spans(1) - 1
        /\ 2 * i \in 0 .. n - 1 /\ 2 * i \in 0 .. n + 1 /\ 2 * i \in 0 .. Capacity - 1
        /\ 2 * i + 1 \in 0 .. n - 1 /\ 2 * i + 1 \in 0 .. n + 1 /\ 2 * i + 1 \in 0 .. Capacity - 1
    BY <1>0, <1>1, <1>2, <1>3
  <2>2. /\ Layers(new)[0][2 * i] = Layers(old)[0][2 * i]
        /\ Layers(new)[0][2 * i + 1] = Layers(old)[0][2 * i + 1]
    BY <1>4, <2>1, Zenon DEF get
  <2>3. QED
    BY <1>5, <2>1, <2>2, Zenon
<1>7. Layers(new)[1][Above(n, 1)] = compress(new[n], new[n + 1])
  <2>1. /\ n \div 2 \in 0 .. Spans(1) - 1 /\ 2 * (n \div 2) = n
        /\ n \in 0 .. n + 1 /\ n + 1 \in 0 .. n + 1
        /\ n \in 0 .. Capacity - 1 /\ n + 1 \in 0 .. Capacity - 1
    BY <1>0, <1>1, <1>2
  <2>2. Layers(new)[0][n] = new[n] /\ Layers(new)[0][n + 1] = new[n + 1]
    BY <1>4, <2>1, Zenon DEF get
  <2>3. QED
    BY <1>3, <1>5, <2>1, <2>2, Zenon
<1>8. ASSUME NEW i \in Above(n, 1) + 1 .. Spans(1) - 1
      PROVE  Layers(new)[1][i] = zeroes[1]
  <2>1. /\ i \in 0 .. Spans(1) - 1
        /\ 2 * i \notin 0 .. n + 1 /\ 2 * i \in 0 .. Capacity - 1
        /\ 2 * i + 1 \notin 0 .. n + 1 /\ 2 * i + 1 \in 0 .. Capacity - 1
    BY <1>0, <1>1, <1>2, <1>3
  <2>2. Layers(new)[0][2 * i] = EmptyLeaf /\ Layers(new)[0][2 * i + 1] = EmptyLeaf
    BY <1>4, <2>1, Zenon DEF get
  <2>3. zeroes[0] = EmptyLeaf /\ zeroes[0 + 1] = compress(zeroes[0], zeroes[0])
    BY <1>0, ZeroesDef, Zenon
  <2>4. Layers(new)[1][i] = compress(EmptyLeaf, EmptyLeaf)
    BY <1>5, <2>1, <2>2, Zenon
  <2>5. zeroes[1] = compress(EmptyLeaf, EmptyLeaf)
    BY <1>0, <2>3, Zenon
  <2>6. QED
    BY <2>4, <2>5, Zenon
<1>9. Above(n + 2, 1) = Above(n, 1) + 1
  BY <1>1, <1>3
<1> DEFINE end == UpdatePath(filled, 1, compress(new[n], new[n + 1]), Above(n, 1))
<1>10. end.hash = ReferenceRoot(new) /\ Frontier(end.filled, new, n + 2, 1)
  BY <1>0, <1>1, <1>6, <1>7, <1>8, <1>9, ClimbRight
<1>11. end = UpdatePath(filled, 1, compress(new[n], new[n + 1]), n \div 2)
  BY <1>3, Zenon
<1>12. QED
  BY <1>10, <1>11, Zenon
-----------------------------------------------------------------------------
(* The indexer's sparse tree and its paths. *)

\* A sparse layer holds the nodes with a leaf below them, and each is the
\* reference tree's; the ones it does not hold are empty subtrees.
LEMMA SparseRight ==
    ASSUME NEW leaves, leaves = [i \in DOMAIN leaves |-> leaves[i]],
           DOMAIN leaves \in SUBSET (0 .. Capacity - 1)
    PROVE  /\ \A l \in 0 .. Levels : \A i \in 0 .. Spans(l) - 1 :
                 get(SparseLayers(leaves)[l], i, zeroes[l]) = Layers(leaves)[l][i]
           /\ root(leaves) = ReferenceRoot(leaves)
<1> DEFINE Held(l) == {Above(j, l) : j \in DOMAIN leaves}
           Nodes(l) == [i \in Held(l) |-> Layers(leaves)[l][i]]
<1>0. Levels \in Nat /\ Capacity \in Nat /\ Levels \in 0 .. Levels
  BY LevelsAssumption, Widths
<1>1. \A j \in DOMAIN leaves : j \in Nat
  BY <1>0
<1>2. ASSUME NEW l \in 0 .. Levels, NEW i \in 0 .. Spans(l) - 1
      PROVE  get(Nodes(l), i, zeroes[l]) = Layers(leaves)[l][i]
  <2>1. DOMAIN Nodes(l) = Held(l)
    BY Zenon
  <2>2. CASE i \in Held(l)
    <3>1. Nodes(l)[i] = Layers(leaves)[l][i]
      BY <2>2, Zenon
    <3>2. QED
      BY <2>1, <2>2, <3>1, Zenon DEF get
  <2>3. CASE i \notin Held(l)
    <3>1. \A j \in DOMAIN leaves : Above(j, l) # i
      BY <2>3, Zenon
    <3>2. Layers(leaves)[l][i] = zeroes[l]
      BY <3>1, EmptyNode, Zenon
    <3>3. QED
      BY <2>1, <2>3, <3>2, Zenon DEF get
  <2>4. QED
    BY <2>2, <2>3, Zenon
<1>3. ASSUME NEW l \in 0 .. Levels - 1
      PROVE  Parents(Nodes(l), zeroes[l]) = Nodes(l + 1)
  <2>1. l \in 0 .. Levels /\ l + 1 \in 0 .. Levels
    BY <1>0
  <2>2. {i \div 2 : i \in Held(l)} = Held(l + 1)
    <3>1. \A j \in DOMAIN leaves : Above(j, l + 1) = Above(j, l) \div 2
      BY <1>1, Halves, Zenon
    <3>2. ASSUME NEW x \in {i \div 2 : i \in Held(l)}
          PROVE  x \in Held(l + 1)
      <4>1. PICK j \in DOMAIN leaves : x = Above(j, l) \div 2
        BY Zenon
      <4>2. QED
        BY <3>1, <4>1, Zenon
    <3>3. ASSUME NEW x \in Held(l + 1)
          PROVE  x \in {i \div 2 : i \in Held(l)}
      <4>1. PICK j \in DOMAIN leaves : x = Above(j, l + 1)
        BY Zenon
      <4>2. Above(j, l) \in Held(l) /\ x = Above(j, l) \div 2
        BY <3>1, <4>1, Zenon
      <4>3. QED
        BY <4>2, Zenon
    <3>4. QED
      BY <3>2, <3>3, Zenon
  <2>3. DOMAIN Nodes(l) = Held(l)
    BY Zenon
  <2>4. ASSUME NEW p \in Held(l + 1)
        PROVE  compress(get(Nodes(l), 2 * p, zeroes[l]), get(Nodes(l), 2 * p + 1, zeroes[l]))
                 = Layers(leaves)[l + 1][p]
    <3>1. PICK j \in DOMAIN leaves : p = Above(j, l + 1)
      BY Zenon
    <3>2. p \in 0 .. Spans(l + 1) - 1
      BY <2>1, <3>1, Inside, Zenon
    <3>3. 2 * p \in 0 .. Spans(l) - 1 /\ 2 * p + 1 \in 0 .. Spans(l) - 1
      BY <3>2, Children, Zenon
    <3>4. /\ get(Nodes(l), 2 * p, zeroes[l]) = Layers(leaves)[l][2 * p]
          /\ get(Nodes(l), 2 * p + 1, zeroes[l]) = Layers(leaves)[l][2 * p + 1]
      BY <1>2, <2>1, <3>3, Zenon
    <3>5. Layers(leaves)[l + 1][p]
            = compress(Layers(leaves)[l][2 * p], Layers(leaves)[l][2 * p + 1])
      BY <3>2, LayersDef, Zenon
    <3>6. QED
      BY <3>4, <3>5, Zenon
  <2> HIDE DEF Held
  <2>5. Parents(Nodes(l), zeroes[l])
          = [p \in Held(l + 1) |->
               compress(get(Nodes(l), 2 * p, zeroes[l]), get(Nodes(l), 2 * p + 1, zeroes[l]))]
    BY <2>2, <2>3, Zenon DEF Parents
  <2>6. QED
    BY <2>4, <2>5, Zenon
<1>4. Nodes(0) = leaves
  <2>1. \A j \in DOMAIN leaves : Above(j, 0) = j
    BY <1>1, Halves, Zenon
  <2>2. Held(0) = DOMAIN leaves
    <3>1. \A j \in Held(0) : j \in DOMAIN leaves
      BY <2>1, Zenon
    <3>2. \A j \in DOMAIN leaves : j \in Held(0)
      BY <2>1, Zenon
    <3> HIDE DEF Held
    <3>3. QED
      BY <3>1, <3>2, Zenon
  <2>3. \A i \in DOMAIN leaves : Layers(leaves)[0][i] = leaves[i]
    BY LayersDef, Zenon DEF get
  <2> HIDE DEF Held
  <2>4. Nodes(0) = [i \in DOMAIN leaves |-> leaves[i]]
    BY <2>2, <2>3, Zenon
  <2>5. QED
    BY <2>4, Zenon
<1> HIDE DEF Nodes, Held
<1>5. \A l \in 0 .. Levels : SparseLayers(leaves)[l] = Nodes(l)
  <2> DEFINE E(z) == z = [l \in 0 .. Levels |->
                            IF l = 0 THEN leaves ELSE Parents(z[l - 1], zeroes[l - 1])]
             layers == SparseLayers(leaves)
             up == [l \in 0 .. Levels |-> Nodes(l)]
  <2>1. layers = CHOOSE z : E(z)
    BY Zenon DEF SparseLayers
  <2>2. E(up)
    <3>1. ASSUME NEW l \in 0 .. Levels
          PROVE  Nodes(l) = IF l = 0 THEN leaves ELSE Parents(up[l - 1], zeroes[l - 1])
      <4>1. CASE l = 0
        BY <1>4, <4>1, Zenon
      <4>2. CASE l # 0
        <5>1. l - 1 \in 0 .. Levels - 1 /\ (l - 1) + 1 = l /\ l - 1 \in 0 .. Levels
          BY <1>0, <4>2
        <5>2. Parents(Nodes(l - 1), zeroes[l - 1]) = Nodes(l)
          BY <1>3, <5>1, Zenon
        <5>3. up[l - 1] = Nodes(l - 1)
          BY <5>1, Zenon
        <5>4. QED
          BY <4>2, <5>2, <5>3, Zenon
      <4>3. QED
        BY <4>1, <4>2, Zenon
    <3>2. QED
      BY <3>1, Zenon
  <2> HIDE DEF layers
  <2>3. E(layers)
    BY <2>1, <2>2, Zenon
  <2>4. \A l \in 0 .. Levels :
           layers[l] = IF l = 0 THEN leaves ELSE Parents(layers[l - 1], zeroes[l - 1])
    BY <2>3, Zenon
  <2> HIDE DEF up
  <2> DEFINE S == {l \in 0 .. Levels : layers[l] = Nodes(l)}
  <2>5. 0 \in S
    BY <1>0, <1>4, <2>4
  <2>6. ASSUME NEW l \in 0 .. Levels - 1, l \in S
        PROVE  l + 1 \in S
    <3>1. l + 1 \in 0 .. Levels /\ l + 1 # 0 /\ (l + 1) - 1 = l
      BY <1>0
    <3>2. layers[l + 1] = Parents(layers[l], zeroes[l])
      BY <2>4, <3>1, Zenon
    <3>3. QED
      BY <1>3, <2>6, <3>1, <3>2, Zenon
  <2> HIDE DEF S
  <2>7. \A l \in 0 .. Levels : l \in S
    BY <1>0, <2>5, <2>6, UpFrom
  <2>8. QED
    BY <2>7, Zenon DEF S, layers
<1>6. \A l \in 0 .. Levels : \A i \in 0 .. Spans(l) - 1 :
         get(SparseLayers(leaves)[l], i, zeroes[l]) = Layers(leaves)[l][i]
  BY <1>2, <1>5, Zenon
<1>7. root(leaves) = ReferenceRoot(leaves)
  <2>1. 0 \in 0 .. Spans(Levels) - 1
    BY Widths
  <2>2. QED
    BY <1>0, <1>6, <2>1, Zenon DEF root, ReferenceRoot
<1>8. QED
  BY <1>6, <1>7, Zenon

\* The path the indexer derives for a leaf leads the circuit from that leaf to the
\* root, and it names that root.
LEMMA PathRight ==
    ASSUME NEW leaves, leaves = [j \in DOMAIN leaves |-> leaves[j]],
           DOMAIN leaves \in SUBSET (0 .. Capacity - 1), NEW i \in DOMAIN leaves
    PROVE  /\ path(leaves, i).root = ReferenceRoot(leaves)
           /\ path(leaves, i).leaf = leaves[i]
           /\ path(leaves, i).index = i
           /\ computed_root(leaves[i], path(leaves, i).siblings, i) = ReferenceRoot(leaves)
<1> DEFINE siblings == path(leaves, i).siblings
           Node(l) == Layers(leaves)[l][Above(i, l)]
<1>0. Levels \in Nat /\ Capacity \in Nat /\ Levels \in 0 .. Levels /\ i \in 0 .. Capacity - 1
  BY LevelsAssumption, Widths
<1>1. i \in Nat
  BY <1>0
<1>2. /\ path(leaves, i).root = root(leaves)
      /\ path(leaves, i).leaf = leaves[i]
      /\ path(leaves, i).index = i
      /\ siblings = [l \in 1 .. Levels |->
                       get(SparseLayers(leaves)[l - 1], Sibling(Above(i, l - 1)), zeroes[l - 1])]
  BY Zenon DEF path, Above
<1>3. \A l \in 1 .. Levels :
         siblings[l] = get(SparseLayers(leaves)[l - 1], Sibling(Above(i, l - 1)), zeroes[l - 1])
  BY <1>2, Zenon
<1> HIDE DEF siblings
<1> DEFINE Pair(l, below) == IF Above(i, l - 1) % 2 = 1 THEN compress(siblings[l], below)
                             ELSE compress(below, siblings[l])
           E(z) == z = [l \in 0 .. Levels |-> IF l = 0 THEN leaves[i] ELSE Pair(l, z[l - 1])]
           at == CHOOSE z : E(z)
           up == [l \in 0 .. Levels |-> Node(l)]
<1>4. computed_root(leaves[i], siblings, i) = at[Levels]
  BY Zenon DEF computed_root, Above
<1>5. ASSUME NEW l \in 0 .. Levels - 1
      PROVE  Pair(l + 1, Node(l)) = Node(l + 1)
  <2>1. l \in 0 .. Levels /\ l + 1 \in 0 .. Levels /\ l + 1 \in 1 .. Levels /\ (l + 1) - 1 = l
    BY <1>0
  <2> DEFINE a == Above(i, l)
             b == Above(i, l + 1)
  <2>2. a \in Nat /\ b \in Nat /\ b = a \div 2
    BY <1>1, <2>1, Halves, Zenon
  <2>3. b \in 0 .. Spans(l + 1) - 1
    BY <1>0, <2>1, Inside, Zenon
  <2>4. 2 * b \in 0 .. Spans(l) - 1 /\ 2 * b + 1 \in 0 .. Spans(l) - 1
    BY <2>3, Children, Zenon
  <2>5. Node(l + 1) = compress(Layers(leaves)[l][2 * b], Layers(leaves)[l][2 * b + 1])
    BY <2>3, LayersDef, Zenon
  <2>6. siblings[l + 1] = get(SparseLayers(leaves)[l], Sibling(a), zeroes[l])
    BY <1>3, <2>1, Zenon
  <2> HIDE DEF b
  <2>s. /\ get(SparseLayers(leaves)[l], 2 * b, zeroes[l]) = Layers(leaves)[l][2 * b]
        /\ get(SparseLayers(leaves)[l], 2 * b + 1, zeroes[l]) = Layers(leaves)[l][2 * b + 1]
    BY <2>1, <2>4, SparseRight
  <2>7. CASE a % 2 = 1
    <3>1. a = 2 * b + 1 /\ Sibling(a) = 2 * b
      BY <2>2, <2>7 DEF Sibling
    <3>2. siblings[l + 1] = Layers(leaves)[l][2 * b]
      BY <2>6, <2>s, <3>1, Zenon
    <3>3. Pair(l + 1, Node(l)) = compress(siblings[l + 1], Node(l))
      BY <2>1, <2>7, Zenon
    <3>4. Node(l) = Layers(leaves)[l][2 * b + 1]
      BY <3>1, Zenon
    <3> HIDE DEF Node, Pair
    <3>5. QED
      BY <2>5, <3>2, <3>3, <3>4, Zenon
  <2>8. CASE a % 2 # 1
    <3>1. a = 2 * b /\ Sibling(a) = 2 * b + 1
      BY <2>2, <2>8 DEF Sibling
    <3>2. siblings[l + 1] = Layers(leaves)[l][2 * b + 1]
      BY <2>6, <2>s, <3>1, Zenon
    <3>3. Pair(l + 1, Node(l)) = compress(Node(l), siblings[l + 1])
      BY <2>1, <2>8, Zenon
    <3>4. Node(l) = Layers(leaves)[l][2 * b]
      BY <3>1, Zenon
    <3> HIDE DEF Node, Pair
    <3>5. QED
      BY <2>5, <3>2, <3>3, <3>4, Zenon
  <2>9. QED
    BY <2>7, <2>8, Zenon
<1>6. Node(0) = leaves[i]
  <2>1. Above(i, 0) = i
    BY <1>1, Halves, Zenon
  <2>2. QED
    BY <1>0, <2>1, LayersDef, Zenon DEF get
<1>7. Node(Levels) = ReferenceRoot(leaves)
  BY <1>0, Inside, Zenon DEF ReferenceRoot
<1> HIDE DEF Node, Pair
<1>8. E(up)
  <2>1. ASSUME NEW l \in 0 .. Levels
        PROVE  Node(l) = IF l = 0 THEN leaves[i] ELSE Pair(l, up[l - 1])
    <3>1. CASE l = 0
      BY <1>6, <3>1, Zenon
    <3>2. CASE l # 0
      <4>1. l - 1 \in 0 .. Levels - 1 /\ (l - 1) + 1 = l /\ l - 1 \in 0 .. Levels
        BY <1>0, <3>2
      <4>2. Pair(l, Node(l - 1)) = Node(l)
        BY <1>5, <4>1, Zenon
      <4>3. up[l - 1] = Node(l - 1)
        BY <4>1, Zenon
      <4>4. QED
        BY <3>2, <4>2, <4>3, Zenon
    <3>3. QED
      BY <3>1, <3>2, Zenon
  <2>2. QED
    BY <2>1, Zenon
<1>9. E(at)
  BY <1>8, Zenon
<1>10. \A l \in 0 .. Levels : at[l] = IF l = 0 THEN leaves[i] ELSE Pair(l, at[l - 1])
  BY <1>9, Zenon
<1> HIDE DEF at, up
<1> DEFINE S == {l \in 0 .. Levels : at[l] = Node(l)}
<1>11. 0 \in S
  BY <1>0, <1>6, <1>10
<1>12. ASSUME NEW l \in 0 .. Levels - 1, l \in S
       PROVE  l + 1 \in S
  <2>1. l + 1 \in 0 .. Levels /\ l + 1 # 0 /\ (l + 1) - 1 = l
    BY <1>0
  <2>2. at[l + 1] = Pair(l + 1, at[l])
    BY <1>10, <2>1, Zenon
  <2>3. QED
    BY <1>5, <1>12, <2>1, <2>2, Zenon
<1> HIDE DEF S
<1>13. \A l \in 0 .. Levels : l \in S
  BY <1>0, <1>11, <1>12, UpFrom
<1>14. at[Levels] = ReferenceRoot(leaves)
  BY <1>0, <1>7, <1>13, Zenon DEF S
<1>15. root(leaves) = ReferenceRoot(leaves)
  BY SparseRight, Zenon
<1>16. QED
  BY <1>2, <1>4, <1>14, <1>15, Zenon DEF siblings

\* The first k leaves.
First(leaves, k) == [i \in 0 .. k - 1 |-> leaves[i]]

\* The append-only tree holds the first k leaves.
Built(tree, leaves, k) ==
    /\ tree.next_index = k
    /\ tree.root = ReferenceRoot(First(leaves, k))
    /\ Frontier(tree.filled, First(leaves, k), k, 0)

LEMMA NewTreeBuilt ==
    ASSUME NEW leaves
    PROVE  Built(NewTree, leaves, 0)
<1>1. NewTree.next_index = 0 /\ NewTree.root = zeroes[Levels] /\ NewTree.filled = zeroes
  BY Zenon DEF NewTree
<1>2. DOMAIN First(leaves, 0) = {}
  <2>1. 0 .. 0 - 1 = {}
    OBVIOUS
  <2>2. QED
    BY <2>1, Zenon DEF First
<1>3. 0 \in 0 .. Levels
  BY LevelsAssumption
<1>4. /\ ReferenceRoot(First(leaves, 0)) = zeroes[Levels]
      /\ Frontier(zeroes, First(leaves, 0), 0, 0)
  BY <1>2, <1>3, EmptyTreeRight, Zenon
<1>5. QED
  BY <1>1, <1>4, Zenon DEF Built

LEMMA PushBuilds ==
    ASSUME NEW k \in 0 .. Capacity - 1, NEW leaves, NEW tree, Built(tree, leaves, k)
    PROVE  Built(push(tree, leaves[k]), leaves, k + 1)
<1>0. Capacity \in Nat
  BY LevelsAssumption, Widths
<1>1. k \in Nat /\ (k + 1) - 1 = k /\ k \in 0 .. k
  BY <1>0
<1> DEFINE old == First(leaves, k)
           new == First(leaves, k + 1)
<1>2. DOMAIN old = 0 .. k - 1 /\ DOMAIN new = 0 .. k
  BY <1>1, Zenon DEF First
<1>3. new[k] = leaves[k]
  BY <1>1, Zenon DEF First
<1>4. \A i \in 0 .. k - 1 : new[i] = old[i]
  <2>1. \A i \in 0 .. k - 1 : i \in 0 .. k
    BY <1>1
  <2>2. QED
    BY <1>1, <2>1, Zenon DEF First
<1> HIDE DEF old, new
<1> DEFINE end == UpdatePath(tree.filled, 0, leaves[k], k)
<1>5. Frontier(tree.filled, old, k, 0) /\ tree.next_index = k
  BY Zenon DEF old, Built
<1>6. end.hash = ReferenceRoot(new) /\ Frontier(end.filled, new, k + 1, 0)
  <2>1. /\ UpdatePath(tree.filled, 0, new[k], k).hash = ReferenceRoot(new)
        /\ Frontier(UpdatePath(tree.filled, 0, new[k], k).filled, new, k + 1, 0)
    BY <1>1, <1>2, <1>4, <1>5, PushRight
  <2>2. QED
    BY <1>3, <2>1, Zenon
<1> DEFINE after == push(tree, leaves[k])
<1>7. after = [filled |-> end.filled, next_index |-> k + 1, root |-> end.hash]
  BY <1>5, Zenon DEF push
<1> HIDE DEF end, after
<1>8. after.filled = end.filled /\ after.next_index = k + 1 /\ after.root = end.hash
  BY <1>7
<1>9. Built(after, leaves, k + 1)
  BY <1>6, <1>8, Zenon DEF new, Built
<1>10. QED
  BY <1>9, Zenon DEF after

\* Pushed one by one, the leaves make the tree the indexer's replay compares.
LEMMA PushesRight ==
    ASSUME NEW n \in Nat, n <= Capacity, NEW leaves, NEW tree,
           tree[0] = NewTree,
           \A k \in 0 .. n - 1 : tree[k + 1] = push(tree[k], leaves[k])
    PROVE  \A k \in 0 .. n : Built(tree[k], leaves, k)
<1> DEFINE S == {k \in 0 .. n : Built(tree[k], leaves, k)}
<1>0. Capacity \in Nat
  BY LevelsAssumption, Widths
<1>1. 0 \in S
  <2>1. 0 \in 0 .. n
    OBVIOUS
  <2>2. QED
    BY <2>1, NewTreeBuilt, Zenon
<1>2. ASSUME NEW k \in 0 .. n - 1, k \in S
      PROVE  k + 1 \in S
  <2>1. k \in 0 .. Capacity - 1 /\ k + 1 \in 0 .. n
    BY <1>0
  <2>2. Built(tree[k], leaves, k)
    BY <1>2, Zenon
  <2>3. Built(push(tree[k], leaves[k]), leaves, k + 1)
    BY <2>1, <2>2, PushBuilds, Zenon
  <2>4. Built(tree[k + 1], leaves, k + 1)
    BY <2>3, Zenon
  <2>5. QED
    BY <2>1, <2>4, Zenon
<1> HIDE DEF S
<1>3. \A k \in 0 .. n : k \in S
  BY <1>1, <1>2, UpFrom
<1>4. QED
  BY <1>3, Zenon DEF S
=============================================================================
