----------------------- MODULE MerkleTreeWithHistory -----------------------
(***************************************************************************)
(* The pool's commitment tree as the contract stores it: hashes only, the  *)
(* frontier of the last insertion and a ring of roots.                     *)
(***************************************************************************)
EXTENDS MerkleTree

CONSTANTS RootHistorySize, Commitments

\* The empty leaf is no commitment: one would be a preimage of its hash.
ASSUME HistoryAssumption ==
    /\ RootHistorySize \in Nat \ {0}
    /\ EmptyLeaf \notin Commitments

VARIABLES
    filledSubtree, roots, currentRootIndex, nextIndex,
    announced      \* history: the leaf at each index, as the pool's events have it

vars == <<filledSubtree, roots, currentRootIndex, nextIndex, announced>>

Init ==
    /\ filledSubtree = zeroes
    /\ roots = [i \in {0} |-> zeroes[Levels]]
    /\ currentRootIndex = 0
    /\ nextIndex = 0
    /\ announced = [i \in {} |-> EmptyLeaf]

is_full == nextIndex + 2 > Capacity
get_last_root == roots[currentRootIndex]
remaining_leaves == Capacity - nextIndex

\* From the slot after the current one round to the current one.
is_known_root(r) ==
    \E k \in 0 .. RootHistorySize - 1 :
        LET i == (currentRootIndex + k) % RootHistorySize
        IN  i \in DOMAIN roots /\ roots[i] = r

\* Two siblings climb from position `index` of the first level.
InsertPair(leaf1, leaf2, index) ==
    /\ nextIndex % 2 = 0 /\ ~ is_full
    /\ LET end == UpdatePath(filledSubtree, 1, compress(leaf1, leaf2), index)
           slot == (currentRootIndex + 1) % RootHistorySize
       IN  /\ filledSubtree' = end.filled
           /\ roots' = [i \in DOMAIN roots \cup {slot} |->
                           IF i = slot THEN end.hash ELSE roots[i]]
           /\ currentRootIndex' = slot
    /\ nextIndex' = nextIndex + 2
    /\ announced' = [i \in 0 .. nextIndex + 1 |->
                        IF i < nextIndex THEN announced[i]
                        ELSE IF i = nextIndex THEN leaf1 ELSE leaf2]

\* A bug: the pair starts its climb at the leaf's index.
InsertAtLeafIndex(leaf1, leaf2) == InsertPair(leaf1, leaf2, nextIndex)

insert_two_leaves(leaf1, leaf2) == InsertPair(leaf1, leaf2, nextIndex \div 2)

Next == \E c0, c1 \in Commitments : insert_two_leaves(c0, c1)

Spec == Init /\ [][Next]_vars
-----------------------------------------------------------------------------
(* The tree a root commits to, read back from the hash. *)

LeafAt(r, i) ==
    LET ancestor[l \in 0 .. Levels] ==
          IF l = Levels THEN r
          ELSE ancestor[l + 1][1 + ((i \div 2 ^ l) % 2)]
    IN  ancestor[0]
TreeOf(r) ==
    [i \in {j \in 0 .. Capacity - 1 : LeafAt(r, j) # EmptyLeaf} |-> LeafAt(r, i)]

\* The hashes behave as the tree of commitments and the ring of past trees the
\* pool relies on: every insertion adds its two leaves at the next two
\* positions, moves no other leaf, and replaces only the oldest root.
Abstract == INSTANCE RootHistory WITH
    roots <- [i \in DOMAIN roots |-> TreeOf(roots[i])]
ImplementsRootHistory == Abstract!init /\ [][Abstract!Insert(Commitments)]_vars

\* Whatever the fill level, the root the contract publishes is the one the
\* indexer recomputes from the announced leaves, sparse or pushed one by one, and
\* every path the read API derives from them leads to it in the circuit.
Replayed ==
    LET tree[n \in 0 .. nextIndex] ==
          IF n = 0 THEN NewTree ELSE push(tree[n - 1], announced[n - 1])
    IN  tree[nextIndex]
IndexerAgrees ==
    /\ get_last_root = ReferenceRoot(announced)
    /\ get_last_root = root(announced)
    /\ get_last_root = Replayed.root
    /\ \A i \in DOMAIN announced :
          LET p == path(announced, i) IN
          /\ p.root = get_last_root
          /\ computed_root(p.leaf, p.siblings, i) = get_last_root
=============================================================================
