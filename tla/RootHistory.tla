----------------------------- MODULE RootHistory -----------------------------
(***************************************************************************)
(* What the pool's commitment tree promises the pool: an append-only tree  *)
(* filled two leaves at a time, and a ring of the roots it had last.  A    *)
(* root is the tree it commits to, a function from filled positions to     *)
(* commitments; MerkleTreeWithHistory implements this with hashes.         *)
(***************************************************************************)
EXTENDS Integers

CONSTANTS
    Levels,           \* depth of the tree
    RootHistorySize   \* ring size, 90 in the code

VARIABLES roots, currentRootIndex, nextIndex

treeVars == <<roots, currentRootIndex, nextIndex>>

MaxLeaves == 2 ^ Levels
EmptyTree == [i \in 0 .. -1 |-> 0]

init ==
    /\ roots = [i \in {0} |-> EmptyTree]
    /\ currentRootIndex = 0
    /\ nextIndex = 0

get_last_root == roots[currentRootIndex]
is_full == nextIndex + 2 > MaxLeaves

is_known_root(r) == \E i \in DOMAIN roots : roots[i] = r

\* A bug that overwrites the current slot instead of advancing.
InsertInPlace(c0, c1) ==
    /\ roots' = [roots EXCEPT ![currentRootIndex] =
                    [j \in 0 .. nextIndex + 1 |->
                        IF j < nextIndex THEN get_last_root[j]
                        ELSE IF j = nextIndex THEN c0 ELSE c1]]
    /\ nextIndex' = nextIndex + 2
    /\ UNCHANGED currentRootIndex

insert_two_leaves(c0, c1) ==
    LET index == (currentRootIndex + 1) % RootHistorySize
        tree == [j \in 0 .. nextIndex + 1 |->
                    IF j < nextIndex THEN get_last_root[j]
                    ELSE IF j = nextIndex THEN c0 ELSE c1]
    IN  /\ nextIndex' = nextIndex + 2
        /\ currentRootIndex' = index
        /\ roots' = [i \in DOMAIN roots \cup {index} |->
                        IF i = index THEN tree ELSE roots[i]]

\* The only step: two commitments of S, while they fit.
Insert(S) ==
    /\ nextIndex % 2 = 0 /\ ~ is_full
    /\ \E c0, c1 \in S : insert_two_leaves(c0, c1)
=============================================================================
