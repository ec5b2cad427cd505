--------------------------- MODULE AllowlistReplay ---------------------------
(***************************************************************************)
(* What the services make of the allowlist's events: the replay of verify, *)
(* and the membership path of the read API.                                *)
(*                                                                         *)
(* An event is a record: kind ("added" or "revoked"), leaf, index (NoIndex *)
(* for a revocation) and root.                                             *)
(***************************************************************************)
EXTENDS MerkleTree

NoIndex == -1

(* The indexer's check_allowlist: replay the events, compare with the      *)
(* contract.  A mismatch of any part makes the whole report fail.          *)

ReplayStart == [tree |-> NewTree, matches |-> TRUE, handed |-> FALSE,
                latest |-> zeroes[Levels]]

Replay(s, event) ==
    LET pushed == push(s.tree, event.leaf)
        expected == event.index = s.tree.next_index /\ event.root = pushed.root
    IN  IF s.handed \/ event.kind = "revoked"
        THEN [tree |-> s.tree, matches |-> s.matches, handed |-> TRUE,
              latest |-> event.root]
        ELSE [tree |-> pushed, matches |-> IF expected THEN s.matches ELSE FALSE,
              handed |-> FALSE, latest |-> event.root]

ReplayAll(events) ==
    LET after[n \in 0 .. Len(events)] ==
          IF n = 0 THEN ReplayStart ELSE Replay(after[n - 1], events[n])
    IN  after[Len(events)]

check_allowlist(events, state) ==
    LET end == ReplayAll(events)
    IN  /\ end.matches
        /\ end.handed = state.operator_maintained
        /\ end.latest = state.root
        /\ ~ end.handed => /\ end.tree.root = state.root
                           /\ end.tree.next_index = state.next_index

(* The read API's allowlist_path. *)

\* A bug: the revocations are not looked for.
PathDespiteRevocation(events, wanted) ==
    LET added == [i \in 0 .. Len(events) - 1 |-> events[i + 1].leaf]
        found == {i \in DOMAIN added : added[i] = wanted}
    IN  IF found = {} THEN [status |-> 404]
        ELSE [status |-> 200,
              path |-> path(added, CHOOSE i \in found : \A j \in found : j <= i)]

allowlist_path(events, wanted) ==
    LET added == [i \in 0 .. Len(events) - 1 |-> events[i + 1].leaf]
        found == {i \in DOMAIN added : added[i] = wanted}
        replayed == ReplayAll(events)
    IN  IF \E k \in DOMAIN events : events[k].kind = "revoked" THEN [status |-> 409]
        ELSE IF \/ \E i \in DOMAIN added : events[i + 1].index # i
                \/ replayed.tree.root # replayed.latest THEN [status |-> 500]
        ELSE IF found = {} THEN [status |-> 404]
        ELSE [status |-> 200,
              path |-> path(added, CHOOSE i \in found : \A j \in found : j <= i)]
=============================================================================
