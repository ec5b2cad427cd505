---------------------------- MODULE AspMembership ----------------------------
(***************************************************************************)
(* The allowlist contract (contracts/asp-membership), and that what the    *)
(* indexer and the read API derive from its events is right: verify        *)
(* replays them against the contract, allowlist_path opens the root the    *)
(* pool will ask for (AllowlistReplay).                                    *)
(*                                                                         *)
(* Leaves are membership hashes, all of them field elements: the encoding  *)
(* check on U256 arguments is modelled in Pool.                            *)
(***************************************************************************)
EXTENDS AllowlistReplay

CONSTANTS
    Callers,         \* addresses that call, the faucet contract among them
    InitialAdmin,
    Leaves,
    OperatorRoots,   \* roots the operator publishes after a revocation
    MaxEvents        \* bound on the length of the event log

ASSUME AspAssumption == InitialAdmin \in Callers /\ MaxEvents \in Nat

VARIABLES
    admin, adminInsertOnly, operatorMaintained,
    aspRoot, nextIndex, filledSubtree,
    log              \* LeafAdded and LeafRevoked events, oldest first

treeVars == <<aspRoot, nextIndex, filledSubtree>>
aspVars == <<admin, adminInsertOnly, operatorMaintained, treeVars, log>>

Publish(kind, leaf, index, r) ==
    /\ Len(log) < MaxEvents
    /\ log' = Append(log, [kind |-> kind, leaf |-> leaf, index |-> index, root |-> r])

AspInit ==
    /\ admin = InitialAdmin
    /\ adminInsertOnly = TRUE
    /\ operatorMaintained = FALSE
    /\ aspRoot = zeroes[Levels]
    /\ nextIndex = 0
    /\ filledSubtree = zeroes
    /\ log = <<>>

\* A bug: the stored frontier is appended to after a revocation.
InsertAfterHandover(caller, leaf) ==
    /\ adminInsertOnly => caller = admin
    /\ nextIndex < Capacity
    /\ LET end == UpdatePath(filledSubtree, 0, leaf, nextIndex)
       IN  /\ aspRoot' = end.hash
           /\ filledSubtree' = end.filled
           /\ Publish("added", leaf, nextIndex, end.hash)
    /\ nextIndex' = nextIndex + 1
    /\ UNCHANGED <<admin, adminInsertOnly, operatorMaintained>>

insert_leaf(caller, leaf) ==
    /\ ~ operatorMaintained
    /\ adminInsertOnly => caller = admin
    /\ nextIndex < Capacity
    /\ LET end == UpdatePath(filledSubtree, 0, leaf, nextIndex)
       IN  /\ aspRoot' = end.hash
           /\ filledSubtree' = end.filled
           /\ Publish("added", leaf, nextIndex, end.hash)
    /\ nextIndex' = nextIndex + 1
    /\ UNCHANGED <<admin, adminInsertOnly, operatorMaintained>>

\* A bug: the tree is not marked as rebuilt off chain.
RevokeUnmarked(caller, leaf, newRoot) ==
    /\ caller = admin
    /\ aspRoot' = newRoot
    /\ Publish("revoked", leaf, NoIndex, newRoot)
    /\ UNCHANGED <<admin, adminInsertOnly, operatorMaintained, nextIndex, filledSubtree>>

revoke_leaf(caller, leaf, newRoot) ==
    /\ caller = admin
    /\ operatorMaintained' = TRUE
    /\ aspRoot' = newRoot
    /\ Publish("revoked", leaf, NoIndex, newRoot)
    /\ UNCHANGED <<admin, adminInsertOnly, nextIndex, filledSubtree>>

publish_leaf(caller, leaf, index, newRoot) ==
    /\ operatorMaintained
    /\ caller = admin
    /\ aspRoot' = newRoot
    /\ Publish("added", leaf, index, newRoot)
    /\ UNCHANGED <<admin, adminInsertOnly, operatorMaintained, nextIndex, filledSubtree>>

update_admin(caller, new) ==
    /\ caller = admin
    /\ admin' = new
    /\ UNCHANGED <<adminInsertOnly, operatorMaintained, treeVars, log>>

set_admin_insert_only(caller, only) ==
    /\ caller = admin
    /\ adminInsertOnly' = only
    /\ UNCHANGED <<admin, operatorMaintained, treeVars, log>>

PublishedIndices == 0 .. 1   \* the operator may claim any index

\* The calls the contract takes, from a caller that authorizes them.
AspCall(caller) ==
    \/ \E leaf \in Leaves : insert_leaf(caller, leaf)
    \/ \E leaf \in Leaves, r \in OperatorRoots : revoke_leaf(caller, leaf, r)
    \/ \E leaf \in Leaves, i \in PublishedIndices, r \in OperatorRoots :
          publish_leaf(caller, leaf, i, r)
    \/ \E new \in Callers : update_admin(caller, new)
    \/ \E only \in BOOLEAN : set_admin_insert_only(caller, only)

AspNext == \E caller \in Callers : AspCall(caller)

AspSpec == AspInit /\ [][AspNext]_aspVars
-----------------------------------------------------------------------------
(* Properties *)

Enrolled == [i \in 0 .. nextIndex - 1 |-> log[i + 1].leaf]

\* Until a revocation, the root the pool compares spends with is the root of
\* exactly the leaves enrolled so far, in order (insert_leaf).
RootIsEnrolledSet == ~ operatorMaintained => aspRoot = ReferenceRoot(Enrolled)

\* "From here on the tree is maintained off chain" (contract.rs 126): nothing
\* undoes a revocation, and no call uses the stale frontier again.
HandoverFinal ==
    operatorMaintained =>
        operatorMaintained' /\ UNCHANGED <<nextIndex, filledSubtree>>

\* An index that holds every event always verifies against the contract,
\* before and after revocations: check_allowlist raises no false alarm.
ReplayAgrees ==
    check_allowlist(log, [operator_maintained |-> operatorMaintained,
                          root |-> aspRoot, next_index |-> nextIndex])

\* A path the API serves opens the contract's live root with the asked leaf;
\* every enrolled leaf gets one until a revocation, and none after it.
PathOpensLiveRoot ==
    \A leaf \in Leaves :
        LET answer == allowlist_path(log, leaf)
        IN  /\ answer.status = IF operatorMaintained THEN 409
                               ELSE IF \E i \in DOMAIN Enrolled : Enrolled[i] = leaf
                                    THEN 200 ELSE 404
            /\ answer.status = 200 =>
                  /\ answer.path.leaf = leaf
                  /\ answer.path.root = aspRoot
                  /\ computed_root(leaf, answer.path.siblings, answer.path.index)
                       = aspRoot
=============================================================================
