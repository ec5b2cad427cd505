---------------------------- MODULE HistoryProofs ----------------------------
(***************************************************************************)
(* The pool's stored tree, for every depth, ring size and set of           *)
(* commitments: its root is the one the indexer and the circuit compute,   *)
(* and its hashes behave as the tree of commitments the pool relies on.    *)
(***************************************************************************)
EXTENDS MerkleTreeWithHistory, MerkleProofs

\* The inductive invariant: the frontier holds the left siblings of the tree of the
\* announced leaves, and the current root is that tree's.
TreeInv ==
    /\ nextIndex \in Nat /\ nextIndex <= Capacity /\ nextIndex % 2 = 0
    /\ announced = First(announced, nextIndex)
    /\ \A i \in 0 .. nextIndex - 1 : announced[i] \in Commitments
    /\ Frontier(filledSubtree, announced, nextIndex, 1)
    /\ currentRootIndex \in DOMAIN roots
    /\ get_last_root = ReferenceRoot(announced)

LEMMA InitTree == Init => TreeInv
<1> SUFFICES ASSUME Init PROVE TreeInv
  OBVIOUS
<1>0. Capacity \in Nat /\ 1 \in 0 .. Levels
  BY LevelsAssumption, Widths
<1>1. /\ filledSubtree = zeroes /\ roots = [i \in {0} |-> zeroes[Levels]]
      /\ currentRootIndex = 0 /\ nextIndex = 0 /\ announced = [i \in {} |-> EmptyLeaf]
  BY Zenon DEF Init
<1>2. 0 .. nextIndex - 1 = {} /\ DOMAIN announced = {}
  BY <1>1
<1>3. announced = First(announced, nextIndex)
  BY <1>1, <1>2 DEF First
<1>4. ReferenceRoot(announced) = zeroes[Levels] /\ Frontier(zeroes, announced, 0, 1)
  BY <1>0, <1>2, EmptyTreeRight, Zenon
<1>5. currentRootIndex \in DOMAIN roots /\ roots[currentRootIndex] = zeroes[Levels]
  BY <1>1, Zenon
<1>6. nextIndex \in Nat /\ nextIndex <= Capacity /\ nextIndex % 2 = 0
  BY <1>0, <1>1
<1>7. QED
  BY <1>1, <1>2, <1>3, <1>4, <1>5, <1>6, Zenon DEF TreeInv, get_last_root

\* What insert_two_leaves leaves behind: the two leaves after the others, and in the
\* next slot of the ring the root of the tree with them.
LEMMA InsertRight ==
    ASSUME TreeInv, NEW c0 \in Commitments, NEW c1 \in Commitments, insert_two_leaves(c0, c1)
    PROVE  /\ nextIndex % 2 = 0 /\ ~ is_full
           /\ nextIndex' = nextIndex + 2
           /\ announced' = [i \in 0 .. nextIndex + 1 |->
                               IF i < nextIndex THEN announced[i]
                               ELSE IF i = nextIndex THEN c0 ELSE c1]
           /\ currentRootIndex' = (currentRootIndex + 1) % RootHistorySize
           /\ roots' = [i \in DOMAIN roots \cup {currentRootIndex'} |->
                           IF i = currentRootIndex' THEN ReferenceRoot(announced')
                           ELSE roots[i]]
           /\ Frontier(filledSubtree', announced', nextIndex', 1)
<1> DEFINE n == nextIndex
           new == [i \in 0 .. n + 1 |->
                     IF i < n THEN announced[i] ELSE IF i = n THEN c0 ELSE c1]
           end == UpdatePath(filledSubtree, 1, compress(c0, c1), n \div 2)
           slot == (currentRootIndex + 1) % RootHistorySize
<1>0. Capacity \in Nat
  BY Widths, LevelsAssumption
<1>1. /\ n % 2 = 0 /\ ~ is_full /\ nextIndex' = n + 2 /\ announced' = new
      /\ filledSubtree' = end.filled /\ currentRootIndex' = slot
      /\ roots' = [i \in DOMAIN roots \cup {slot} |-> IF i = slot THEN end.hash ELSE roots[i]]
  BY Zenon DEF insert_two_leaves, InsertPair
<1>2. n \in Nat /\ n <= Capacity
  BY Zenon DEF TreeInv
<1>3. n \in 0 .. Capacity - 2
  BY <1>0, <1>1, <1>2 DEF is_full
<1>4. n \in 0 .. n + 1 /\ n + 1 \in 0 .. n + 1 /\ ~ (n < n) /\ ~ (n + 1 < n) /\ n + 1 # n
  BY <1>2
<1>5. new[n] = c0 /\ new[n + 1] = c1 /\ DOMAIN new = 0 .. n + 1
  BY <1>4, Zenon
<1>6. \A i \in 0 .. n - 1 : new[i] = announced[i]
  <2>1. \A i \in 0 .. n - 1 : i \in 0 .. n + 1 /\ i < n
    BY <1>2
  <2>2. QED
    BY <2>1, Zenon
<1>7. DOMAIN announced = 0 .. n - 1 /\ Frontier(filledSubtree, announced, n, 1)
  BY Zenon DEF TreeInv, First
<1> HIDE DEF new, n, slot
<1>8. end.hash = ReferenceRoot(new) /\ Frontier(end.filled, new, n + 2, 1)
  <2> DEFINE up == UpdatePath(filledSubtree, 1, compress(new[n], new[n + 1]), n \div 2)
  <2>1. up.hash = ReferenceRoot(new) /\ Frontier(up.filled, new, n + 2, 1)
    BY <1>1, <1>3, <1>5, <1>6, <1>7, PairRight
  <2>2. up = end
    BY <1>5, Zenon
  <2>3. QED
    BY <2>1, <2>2, Zenon
<1> HIDE DEF end
<1>9. Frontier(filledSubtree', announced', nextIndex', 1)
  BY <1>1, <1>8, Zenon
<1>10. roots' = [i \in DOMAIN roots \cup {currentRootIndex'} |->
                    IF i = currentRootIndex' THEN ReferenceRoot(announced') ELSE roots[i]]
  BY <1>1, <1>8, Zenon
<1>11. QED
  BY <1>1, <1>9, <1>10, Zenon DEF n, new, slot

LEMMA NextTree == TreeInv /\ [Next]_vars => TreeInv'
<1> SUFFICES ASSUME TreeInv, [Next]_vars PROVE TreeInv'
  OBVIOUS
<1>1. CASE UNCHANGED vars
  BY <1>1 DEF vars, TreeInv, get_last_root
<1>2. ASSUME NEW c0 \in Commitments, NEW c1 \in Commitments, insert_two_leaves(c0, c1)
      PROVE  TreeInv'
  <2>0. Capacity \in Nat
    BY Widths, LevelsAssumption
  <2>1. /\ nextIndex \in Nat /\ nextIndex <= Capacity
        /\ \A i \in 0 .. nextIndex - 1 : announced[i] \in Commitments
    BY Zenon DEF TreeInv
  <2>2. /\ nextIndex % 2 = 0 /\ ~ is_full
        /\ nextIndex' = nextIndex + 2
        /\ announced' = [i \in 0 .. nextIndex + 1 |->
                            IF i < nextIndex THEN announced[i]
                            ELSE IF i = nextIndex THEN c0 ELSE c1]
        /\ roots' = [i \in DOMAIN roots \cup {currentRootIndex'} |->
                        IF i = currentRootIndex' THEN ReferenceRoot(announced') ELSE roots[i]]
        /\ Frontier(filledSubtree', announced', nextIndex', 1)
    BY <1>2, InsertRight, Zenon
  <2>3. nextIndex' \in Nat /\ nextIndex' <= Capacity /\ nextIndex' % 2 = 0
    BY <2>0, <2>1, <2>2 DEF is_full
  <2>4. nextIndex' - 1 = nextIndex + 1
    BY <2>1, <2>2
  <2>5. announced' = [i \in 0 .. nextIndex' - 1 |-> announced'[i]]
    BY <2>2, <2>4
  <2>6. ASSUME NEW i \in 0 .. nextIndex' - 1
        PROVE  announced'[i] \in Commitments
    <3>1. i \in 0 .. nextIndex + 1
      BY <2>4
    <3>2. i < nextIndex => i \in 0 .. nextIndex - 1
      BY <2>1, <3>1
    <3>3. QED
      BY <2>1, <2>2, <3>1, <3>2, Zenon
  <2>7. currentRootIndex' \in DOMAIN roots' /\ roots'[currentRootIndex'] = ReferenceRoot(announced')
    BY <2>2, Zenon
  <2>8. QED
    BY <2>2, <2>3, <2>5, <2>6, <2>7, Zenon DEF TreeInv, First, get_last_root
<1>3. QED
  BY <1>1, <1>2, Zenon DEF Next

LEMMA SpecTree == Spec => []TreeInv
<1>1. QED
  BY InitTree, NextTree, PTL DEF Spec
-----------------------------------------------------------------------------
(* The indexer and the circuit. *)

\* The replay is a run of pushes.
LEMMA ReplayIs ==
    ASSUME nextIndex \in Nat
    PROVE  \E tree : /\ Replayed = tree[nextIndex]
                     /\ tree[0] = NewTree
                     /\ \A k \in 0 .. nextIndex - 1 : tree[k + 1] = push(tree[k], announced[k])
<1> DEFINE n == nextIndex
           E(z, k) == z = [j \in 0 .. k |->
                              IF j = 0 THEN NewTree ELSE push(z[j - 1], announced[j - 1])]
           Good == {k \in 0 .. n : \E z : E(z, k)}
           tree == CHOOSE z : E(z, n)
<1>1. Replayed = tree[n]
  BY Zenon DEF Replayed
<1>2. n \in Nat
  OBVIOUS
<1> HIDE DEF n
<1>3. 0 \in Good
  <2> DEFINE z == [j \in 0 .. 0 |-> NewTree]
  <2>1. E(z, 0)
    OBVIOUS
  <2>2. 0 \in 0 .. n
    BY <1>2
  <2>3. QED
    BY <2>1, <2>2
<1>4. ASSUME NEW k \in 0 .. n - 1, k \in Good
      PROVE  k + 1 \in Good
  <2>1. PICK z : E(z, k)
    BY <1>4
  <2> DEFINE y == [j \in 0 .. k + 1 |->
                     IF j = k + 1 THEN push(z[k], announced[k]) ELSE z[j]]
  <2>2. \A j \in 0 .. k : y[j] = z[j]
    <3>1. \A j \in 0 .. k : j \in 0 .. k + 1 /\ j # k + 1
      BY <1>2
    <3>2. QED
      BY <3>1, Zenon
  <2>3. y[k + 1] = push(z[k], announced[k])
    <3>1. k + 1 \in 0 .. k + 1
      BY <1>2
    <3>2. QED
      BY <3>1, Zenon
  <2>4. \A j \in 0 .. k : z[j] = IF j = 0 THEN NewTree ELSE push(z[j - 1], announced[j - 1])
    BY <2>1, Zenon
  <2>5. y = [j \in 0 .. k + 1 |-> y[j]]
    BY Zenon
  <2> HIDE DEF y
  <2>6. ASSUME NEW j \in 0 .. k + 1
        PROVE  y[j] = IF j = 0 THEN NewTree ELSE push(y[j - 1], announced[j - 1])
    <3>1. CASE j = k + 1
      <4>1. j # 0 /\ j - 1 = k /\ k \in 0 .. k
        BY <1>2, <3>1
      <4>2. QED
        BY <2>2, <2>3, <3>1, <4>1, Zenon
    <3>2. CASE j # k + 1
      <4>1. j \in 0 .. k /\ (j # 0 => j - 1 \in 0 .. k)
        BY <1>2, <3>2
      <4>2. QED
        BY <2>2, <2>4, <4>1, Zenon
    <3>3. QED
      BY <3>1, <3>2
  <2>7. E(y, k + 1)
    BY <2>5, <2>6, Zenon
  <2>8. k + 1 \in 0 .. n
    BY <1>2
  <2>9. QED
    BY <2>7, <2>8, Zenon
<1>5. n \in Good
  <2> HIDE DEF Good
  <2>1. \A k \in 0 .. n : k \in Good
    BY <1>2, <1>3, <1>4, UpFrom
  <2>2. QED
    BY <1>2, <2>1
<1>6. E(tree, n)
  BY <1>5, Zenon
<1>7. \A j \in 0 .. n : tree[j] = IF j = 0 THEN NewTree ELSE push(tree[j - 1], announced[j - 1])
  BY <1>6, Zenon
<1> HIDE DEF tree
<1>8. tree[0] = NewTree
  BY <1>2, <1>7
<1>9. ASSUME NEW k \in 0 .. n - 1
      PROVE  tree[k + 1] = push(tree[k], announced[k])
  <2>1. k + 1 \in 0 .. n /\ k + 1 # 0 /\ (k + 1) - 1 = k
    BY <1>2
  <2>2. QED
    BY <1>7, <2>1, Zenon
<1>10. QED
  BY <1>1, <1>8, <1>9, Zenon DEF n

\* Whatever the depth and the fill level, the root the contract publishes after
\* insert_two_leaves is the reference root, the indexer's sparse root, the root of its
\* pushes one by one, and where every path of the read API leads the circuit.
THEOREM IndexerComputesTheRoot == Spec => []IndexerAgrees
<1>1. TreeInv => IndexerAgrees
  <2> SUFFICES ASSUME TreeInv PROVE IndexerAgrees
    OBVIOUS
  <2>0. Capacity \in Nat
    BY Widths, LevelsAssumption
  <2>1. /\ nextIndex \in Nat /\ nextIndex <= Capacity
        /\ announced = First(announced, nextIndex)
        /\ get_last_root = ReferenceRoot(announced)
    BY Zenon DEF TreeInv
  <2>2. DOMAIN announced = 0 .. nextIndex - 1 /\ announced = [i \in DOMAIN announced |-> announced[i]]
    BY <2>1, Zenon DEF First
  <2>3. DOMAIN announced \in SUBSET (0 .. Capacity - 1)
    <3>1. 0 .. nextIndex - 1 \in SUBSET (0 .. Capacity - 1)
      BY <2>0, <2>1
    <3>2. QED
      BY <2>2, <3>1, Zenon
  <2>4. root(announced) = ReferenceRoot(announced)
    BY <2>2, <2>3, SparseRight, Zenon
  <2>5. Replayed.root = ReferenceRoot(announced)
    <3>1. PICK tree : /\ Replayed = tree[nextIndex]
                      /\ tree[0] = NewTree
                      /\ \A k \in 0 .. nextIndex - 1 : tree[k + 1] = push(tree[k], announced[k])
      BY <2>1, ReplayIs, Zenon
    <3>2. nextIndex \in 0 .. nextIndex
      BY <2>1
    <3>3. \A k \in 0 .. nextIndex : Built(tree[k], announced, k)
      BY <2>1, <3>1, PushesRight
    <3>4. QED
      BY <2>1, <3>1, <3>2, <3>3, Zenon DEF Built
  <2>6. ASSUME NEW i \in DOMAIN announced
        PROVE  LET p == path(announced, i) IN
               /\ p.root = get_last_root
               /\ computed_root(p.leaf, p.siblings, i) = get_last_root
    <3>1. /\ path(announced, i).root = ReferenceRoot(announced)
          /\ path(announced, i).leaf = announced[i]
          /\ computed_root(announced[i], path(announced, i).siblings, i) = ReferenceRoot(announced)
      BY <2>2, <2>3, PathRight, Zenon
    <3>2. QED
      BY <2>1, <3>1, Zenon
  <2>7. QED
    BY <2>1, <2>4, <2>5, <2>6, Zenon DEF IndexerAgrees
<1>2. QED
  BY <1>1, SpecTree, PTL
-----------------------------------------------------------------------------
(* The refinement: the hashes are the trees they commit to. *)

\* A root gives back the leaves it was computed from.
LEMMA LeafReadBack ==
    ASSUME NEW leaves, NEW i \in 0 .. Capacity - 1
    PROVE  LeafAt(ReferenceRoot(leaves), i) = get(leaves, i, EmptyLeaf)
<1> DEFINE Node(l) == Layers(leaves)[l][Above(i, l)]
           Side(l) == 1 + (Above(i, l) % 2)
           r == ReferenceRoot(leaves)
           E(z) == z = [l \in 0 .. Levels |-> IF l = Levels THEN r ELSE z[l + 1][Side(l)]]
           ancestor == CHOOSE z : E(z)
           up == [l \in 0 .. Levels |-> Node(l)]
<1>0. Levels \in Nat /\ Capacity \in Nat /\ i \in Nat /\ Levels \in 0 .. Levels /\ 0 \in 0 .. Levels
  BY LevelsAssumption, Widths
<1>1. LeafAt(r, i) = ancestor[0]
  BY Zenon DEF LeafAt, Above
<1>2. ASSUME NEW l \in 0 .. Levels - 1
      PROVE  Node(l + 1)[Side(l)] = Node(l)
  <2>1. l \in 0 .. Levels /\ l + 1 \in 0 .. Levels
    BY <1>0
  <2> DEFINE a == Above(i, l)
             b == Above(i, l + 1)
             left == Layers(leaves)[l][2 * b]
             right == Layers(leaves)[l][2 * b + 1]
  <2>2. a \in Nat /\ b \in Nat /\ b = a \div 2
    BY <1>0, <2>1, Halves, Zenon
  <2>3. b \in 0 .. Spans(l + 1) - 1
    BY <2>1, Inside, Zenon
  <2>4. Node(l + 1) = <<left, right>>
    BY <2>3, LayersDef, Zenon DEF compress
  <2>5. Node(l) = Layers(leaves)[l][a] /\ Side(l) = 1 + (a % 2)
    OBVIOUS
  <2> HIDE DEF a, b, Node, Side
  <2>6. CASE a % 2 = 0
    <3>1. a = 2 * b /\ Side(l) = 1
      BY <2>2, <2>5, <2>6
    <3>2. Node(l) = left
      BY <2>5, <3>1, Zenon
    <3> HIDE DEF left, right
    <3>3. <<left, right>>[1] = left
      OBVIOUS
    <3>4. QED
      BY <2>4, <3>1, <3>2, <3>3, Zenon
  <2>7. CASE a % 2 # 0
    <3>1. a = 2 * b + 1 /\ Side(l) = 2
      BY <2>2, <2>5, <2>7
    <3>2. Node(l) = right
      BY <2>5, <3>1, Zenon
    <3> HIDE DEF left, right
    <3>3. <<left, right>>[2] = right
      OBVIOUS
    <3>4. QED
      BY <2>4, <3>1, <3>2, <3>3, Zenon
  <2>8. QED
    BY <2>6, <2>7, Zenon
<1>3. Node(Levels) = r
  BY Inside, Zenon DEF ReferenceRoot
<1>4. Node(0) = get(leaves, i, EmptyLeaf)
  <2>1. Above(i, 0) = i
    BY <1>0, Halves, Zenon
  <2>2. QED
    BY <2>1, LayersDef, Zenon
<1> HIDE DEF Node, Side, r
<1>5. E(up)
  <2>1. ASSUME NEW l \in 0 .. Levels
        PROVE  Node(l) = IF l = Levels THEN r ELSE up[l + 1][Side(l)]
    <3>1. CASE l = Levels
      BY <1>3, <3>1, Zenon
    <3>2. CASE l # Levels
      <4>1. l \in 0 .. Levels - 1 /\ l + 1 \in 0 .. Levels
        BY <1>0, <3>2
      <4>2. QED
        BY <1>2, <3>2, <4>1, Zenon
    <3>3. QED
      BY <3>1, <3>2, Zenon
  <2>2. QED
    BY <2>1, Zenon
<1>6. E(ancestor)
  BY <1>5, Zenon
<1>7. \A l \in 0 .. Levels : ancestor[l] = IF l = Levels THEN r ELSE ancestor[l + 1][Side(l)]
  BY <1>6, Zenon
<1> HIDE DEF ancestor, up
<1> DEFINE S == {k \in 0 .. Levels : ancestor[Levels - k] = Node(Levels - k)}
<1>8. 0 \in S
  <2>1. Levels - 0 = Levels
    BY <1>0
  <2>2. ancestor[Levels] = Node(Levels)
    BY <1>0, <1>3, <1>7, Zenon
  <2>3. QED
    BY <1>0, <2>1, <2>2, Zenon
<1>9. ASSUME NEW k \in 0 .. Levels - 1, k \in S
      PROVE  k + 1 \in S
  <2> DEFINE l == Levels - (k + 1)
  <2>1. /\ l \in 0 .. Levels - 1 /\ l \in 0 .. Levels /\ l # Levels
        /\ l + 1 = Levels - k /\ k + 1 \in 0 .. Levels
    BY <1>0
  <2>2. ancestor[Levels - k] = Node(Levels - k)
    BY <1>9, Zenon
  <2> HIDE DEF l
  <2>3. ancestor[l] = Node(l)
    BY <1>2, <1>7, <2>1, <2>2, Zenon
  <2>4. QED
    BY <2>1, <2>3, Zenon DEF l
<1> HIDE DEF S
<1>10. \A k \in 0 .. Levels : k \in S
  BY <1>0, <1>8, <1>9, UpFrom
<1>11. ancestor[0] = Node(0)
  <2>1. Levels - Levels = 0
    BY <1>0
  <2>2. QED
    BY <1>0, <1>10, <2>1, Zenon DEF S
<1>12. QED
  BY <1>1, <1>4, <1>11, Zenon DEF r

\* So does the whole tree, the positions that are filled and the leaves in them.
LEMMA TreeReadBack ==
    ASSUME NEW leaves, NEW n \in Nat, n <= Capacity, leaves = First(leaves, n),
           \A i \in 0 .. n - 1 : leaves[i] # EmptyLeaf
    PROVE  TreeOf(ReferenceRoot(leaves)) = leaves
<1> DEFINE r == ReferenceRoot(leaves)
<1>0. Capacity \in Nat
  BY Widths, LevelsAssumption
<1>1. DOMAIN leaves = 0 .. n - 1
  BY Zenon DEF First
<1>2. ASSUME NEW j \in 0 .. Capacity - 1
      PROVE  /\ j \in 0 .. n - 1 => LeafAt(r, j) = leaves[j]
             /\ j \notin 0 .. n - 1 => LeafAt(r, j) = EmptyLeaf
  BY <1>1, LeafReadBack, Zenon DEF get
<1>3. \A j \in 0 .. n - 1 : j \in 0 .. Capacity - 1
  BY <1>0
<1>4. {j \in 0 .. Capacity - 1 : LeafAt(r, j) # EmptyLeaf} = 0 .. n - 1
  BY <1>2, <1>3, Zenon
<1>5. TreeOf(r) = [i \in 0 .. n - 1 |-> LeafAt(r, i)]
  BY <1>4, Zenon DEF TreeOf
<1>6. \A i \in 0 .. n - 1 : LeafAt(r, i) = leaves[i]
  BY <1>2, <1>3, Zenon
<1>7. TreeOf(r) = [i \in 0 .. n - 1 |-> leaves[i]]
  BY <1>5, <1>6, Zenon
<1>8. QED
  BY <1>7, Zenon DEF First

\* The current root commits to the announced leaves.
LEMMA CurrentTree ==
    ASSUME TreeInv
    PROVE  TreeOf(get_last_root) = announced
<1>1. /\ nextIndex \in Nat /\ nextIndex <= Capacity
      /\ announced = First(announced, nextIndex)
      /\ get_last_root = ReferenceRoot(announced)
      /\ \A i \in 0 .. nextIndex - 1 : announced[i] # EmptyLeaf
  BY HistoryAssumption, Zenon DEF TreeInv
<1>2. TreeOf(ReferenceRoot(announced)) = announced
  BY <1>1, TreeReadBack
<1>3. QED
  BY <1>1, <1>2, Zenon

\* One insertion of hashes is one insertion into the tree and the ring of RootHistory.
LEMMA InsertImplements ==
    ASSUME TreeInv, TreeInv',
           NEW c0 \in Commitments, NEW c1 \in Commitments, insert_two_leaves(c0, c1)
    PROVE  Abstract!Insert(Commitments)
<1> DEFINE mapped == [i \in DOMAIN roots |-> TreeOf(roots[i])]
           tree == [j \in 0 .. nextIndex + 1 |->
                      IF j < nextIndex THEN mapped[currentRootIndex][j]
                      ELSE IF j = nextIndex THEN c0 ELSE c1]
           index == (currentRootIndex + 1) % RootHistorySize
<1>1. /\ nextIndex % 2 = 0 /\ ~ is_full
      /\ nextIndex' = nextIndex + 2
      /\ announced' = [i \in 0 .. nextIndex + 1 |->
                          IF i < nextIndex THEN announced[i]
                          ELSE IF i = nextIndex THEN c0 ELSE c1]
      /\ currentRootIndex' = index
      /\ roots' = [i \in DOMAIN roots \cup {currentRootIndex'} |->
                      IF i = currentRootIndex' THEN ReferenceRoot(announced') ELSE roots[i]]
  BY InsertRight, Zenon
<1>2. TreeOf(ReferenceRoot(announced')) = announced'
  <2>1. EmptyLeaf \notin Commitments
    BY HistoryAssumption
  <2>2. /\ nextIndex' \in Nat /\ nextIndex' <= Capacity
        /\ announced' = First(announced', nextIndex')
        /\ \A i \in 0 .. nextIndex' - 1 : announced'[i] # EmptyLeaf
    BY <2>1, Zenon DEF TreeInv
  <2>3. QED
    BY <2>2, TreeReadBack
<1>3. mapped[currentRootIndex] = announced
  <2>1. currentRootIndex \in DOMAIN roots
    BY Zenon DEF TreeInv
  <2>2. mapped[currentRootIndex] = TreeOf(roots[currentRootIndex])
    BY <2>1, Zenon
  <2>3. QED
    BY <2>2, CurrentTree, Zenon DEF get_last_root
<1>4. tree = announced'
  <2> HIDE DEF mapped
  <2>1. tree = [j \in 0 .. nextIndex + 1 |->
                  IF j < nextIndex THEN announced[j] ELSE IF j = nextIndex THEN c0 ELSE c1]
    BY <1>3
  <2>2. QED
    BY <1>1, <2>1, Zenon
<1>5. [i \in DOMAIN roots' |-> TreeOf(roots'[i])]
        = [i \in DOMAIN mapped \cup {index} |-> IF i = index THEN tree ELSE mapped[i]]
  <2>1. DOMAIN roots' = DOMAIN roots \cup {index} /\ DOMAIN mapped = DOMAIN roots
    BY <1>1, Zenon
  <2>2. ASSUME NEW i \in DOMAIN roots \cup {index}
        PROVE  TreeOf(roots'[i]) = IF i = index THEN tree ELSE mapped[i]
    <3>1. CASE i = index
      <4>1. roots'[i] = ReferenceRoot(announced')
        BY <1>1, <3>1, Zenon
      <4>2. QED
        BY <1>2, <1>4, <3>1, <4>1, Zenon
    <3>2. CASE i # index
      <4>1. roots'[i] = roots[i] /\ i \in DOMAIN roots
        BY <1>1, <3>2, Zenon
      <4>2. mapped[i] = TreeOf(roots[i])
        BY <4>1, Zenon
      <4>3. QED
        BY <3>2, <4>1, <4>2, Zenon
    <3>3. QED
      BY <3>1, <3>2, Zenon
  <2> HIDE DEF mapped, tree, index
  <2>3. QED
    BY <2>1, <2>2, Zenon
<1>6. Abstract!insert_two_leaves(c0, c1)
  BY <1>1, <1>5, Zenon DEF Abstract!insert_two_leaves, Abstract!get_last_root
<1>7. ~ Abstract!is_full
  BY <1>1, Zenon DEF Abstract!is_full, Abstract!MaxLeaves, is_full, Capacity
<1>8. QED
  BY <1>1, <1>6, <1>7, Zenon DEF Abstract!Insert

\* The pool's tree of hashes implements RootHistory, what the pool relies on: every
\* insert_two_leaves appends its two leaves, moves no other leaf, and replaces only
\* the oldest root of the ring.
THEOREM HashesImplementTheTree == Spec => ImplementsRootHistory
<1>1. Init => Abstract!init
  <2> SUFFICES ASSUME Init PROVE Abstract!init
    OBVIOUS
  <2>1. TreeInv
    BY InitTree
  <2>2. /\ roots = [i \in {0} |-> zeroes[Levels]] /\ currentRootIndex = 0 /\ nextIndex = 0
        /\ announced = [i \in {} |-> EmptyLeaf]
    BY Zenon DEF Init
  <2>3. TreeOf(zeroes[Levels]) = announced
    BY <2>1, <2>2, CurrentTree, Zenon DEF get_last_root
  <2>4. announced = [i \in 0 .. -1 |-> 0]
    BY <2>2
  <2>5. [i \in DOMAIN roots |-> TreeOf(roots[i])] = [i \in {0} |-> [j \in 0 .. -1 |-> 0]]
    BY <2>2, <2>3, <2>4, Zenon
  <2>6. QED
    BY <2>2, <2>5, Zenon DEF Abstract!init, Abstract!EmptyTree
<1>2. TreeInv /\ TreeInv' /\ [Next]_vars => [Abstract!Insert(Commitments)]_vars
  BY InsertImplements, Zenon DEF Next
<1>3. QED
  BY <1>1, <1>2, SpecTree, PTL DEF Spec, ImplementsRootHistory
=============================================================================
