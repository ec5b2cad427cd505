----------------------------- MODULE MerkleTree -----------------------------
(***************************************************************************)
(* The Merkle tree algorithms of the contracts, the indexer and the        *)
(* circuit, over a free compression function: the incremental insertion    *)
(* both contracts use, the indexer's sparse root, authentication path and  *)
(* append-only replay, and the circuit's path check.  Layers is the        *)
(* textbook definition they are compared with.                             *)
(*                                                                         *)
(* A set of leaves is a function from positions to leaf values.            *)
(***************************************************************************)
EXTENDS Integers, Sequences

CONSTANTS Levels, EmptyLeaf

ASSUME LevelsAssumption == Levels \in 1 .. 32

Capacity == 2 ^ Levels

compress(left, right) == <<left, right>>

zeroes[l \in 0 .. Levels] ==
    IF l = 0 THEN EmptyLeaf ELSE compress(zeroes[l - 1], zeroes[l - 1])

get(nodes, i, default) == IF i \in DOMAIN nodes THEN nodes[i] ELSE default

\* The whole tree, layer by layer, every position filled.
Layers(leaves) ==
    LET layer[l \in 0 .. Levels] ==
          IF l = 0 THEN [i \in 0 .. Capacity - 1 |-> get(leaves, i, EmptyLeaf)]
          ELSE [i \in 0 .. 2 ^ (Levels - l) - 1 |->
                  compress(layer[l - 1][2 * i], layer[l - 1][2 * i + 1])]
    IN  layer
ReferenceRoot(leaves) == Layers(leaves)[Levels][0]
-----------------------------------------------------------------------------
(* Incremental insertion: the node `hash` at position `index` of level     *)
(* `start` climbs to the root.  A left child is remembered and paired with *)
(* the empty subtree, a right child with the left sibling remembered.      *)

\* A bug: the empty subtree one level too high.
ClimbWrongZero(c, l) ==
    IF c.index % 2 = 1
    THEN [c EXCEPT !.hash = compress(c.filled[l], c.hash), !.index = c.index \div 2]
    ELSE [hash |-> compress(c.hash, zeroes[l + 1]), index |-> c.index \div 2,
          filled |-> [c.filled EXCEPT ![l] = c.hash]]

\* A bug: a left child is not remembered.
ClimbForgets(c, l) ==
    IF c.index % 2 = 1
    THEN [c EXCEPT !.hash = compress(c.filled[l], c.hash), !.index = c.index \div 2]
    ELSE [c EXCEPT !.hash = compress(c.hash, zeroes[l]), !.index = c.index \div 2]

Climb(c, l) ==
    IF c.index % 2 = 1
    THEN [c EXCEPT !.hash = compress(c.filled[l], c.hash), !.index = c.index \div 2]
    ELSE [hash |-> compress(c.hash, zeroes[l]), index |-> c.index \div 2,
          filled |-> [c.filled EXCEPT ![l] = c.hash]]

UpdatePath(filled, start, hash, index) ==
    LET at[l \in start .. Levels] ==
          IF l = start THEN [hash |-> hash, index |-> index, filled |-> filled]
          ELSE Climb(at[l - 1], l - 1)
    IN  at[Levels]
-----------------------------------------------------------------------------
(* The indexer *)

Parents(nodes, zero) ==
    [p \in {i \div 2 : i \in DOMAIN nodes} |->
        compress(get(nodes, 2 * p, zero), get(nodes, 2 * p + 1, zero))]

\* nodes of every level that hold something, from the leaves up
SparseLayers(leaves) ==
    LET nodes[l \in 0 .. Levels] ==
          IF l = 0 THEN leaves ELSE Parents(nodes[l - 1], zeroes[l - 1])
    IN  nodes

root(leaves) == get(SparseLayers(leaves)[Levels], 0, zeroes[Levels])

\* The siblings of a leaf on its way up, and the root they lead to.
Sibling(position) == IF position % 2 = 0 THEN position + 1 ELSE position - 1

path(leaves, index) ==
    [index |-> index, leaf |-> leaves[index],
     siblings |-> [l \in 1 .. Levels |->
        get(SparseLayers(leaves)[l - 1], Sibling(index \div 2 ^ (l - 1)),
            zeroes[l - 1])],
     root |-> root(leaves)]

\* The circuit's MerkleProof, and MerklePath::computed_root.
computed_root(leaf, siblings, index) ==
    LET at[l \in 0 .. Levels] ==
          IF l = 0 THEN leaf
          ELSE IF (index \div 2 ^ (l - 1)) % 2 = 1
               THEN compress(siblings[l], at[l - 1])
               ELSE compress(at[l - 1], siblings[l])
    IN  at[Levels]

\* IncrementalTree: new and push.
NewTree == [next_index |-> 0, filled |-> zeroes, root |-> zeroes[Levels]]
push(t, leaf) ==
    LET end == UpdatePath(t.filled, 0, leaf, t.next_index)
    IN  [next_index |-> t.next_index + 1, filled |-> end.filled, root |-> end.hash]
=============================================================================
