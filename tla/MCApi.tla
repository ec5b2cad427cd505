-------------------------------- MODULE MCApi --------------------------------
(* Two ledgers: a deposit through the closed path, an enrolment, a key; then a *)
(* transaction, a second enrolment, a key and a revocation; a page ends        *)
(* between the transaction's two commitments.                                  *)
EXTENDS Api

Event(k, i, v, b) == [kind |-> k, index |-> i, value |-> v, body |-> b]

MCWidth == 12
MCChain ==
    LET alice == <<"alice">>
        bob == <<"bob">>
    IN
    (13 :> Event("LegacyDeposit", 0, <<"c0">>, <<"token">>)) @@
    (14 :> Event("LeafAdded", 0, alice, ReferenceRoot(0 :> alice))) @@
    (16 :> Event("PublicKey", 0, alice, <<"key0">>)) @@
    (25 :> Event("NewNullifier", 0, <<"n0">>, <<"">>)) @@
    (26 :> Event("NewNullifier", 0, <<"n1">>, <<"">>)) @@
    (27 :> Event("NewCommitment", 2, <<"c2">>, <<"note2">>)) @@
    (28 :> Event("NewCommitment", 3, <<"c3">>, <<"note3">>)) @@
    (29 :> Event("Settlement", 2, <<"n0">>, <<"c2c3">>)) @@
    (30 :> Event("LeafAdded", 1, bob, ReferenceRoot((0 :> alice) @@ (1 :> bob)))) @@
    (31 :> Event("PublicKey", 0, alice, <<"key1">>)) @@
    (33 :> Event("LeafRevoked", 0, alice, <<"published">>))
MCAltered(e) == [e EXCEPT !.value = <<"altered">>]

\* A client asks where Stellar Expert lists what the chain emitted; where it does
\* not, verify is at work.  A request reads what verify recorded only in its
\* snapshot, so it is enough that verify works between requests, and a request
\* begins where a verification has ended or was abandoned.
MCNext ==
    \/ StoreNext /\ UNCHANGED <<verifier, client>>
    \/ client = Quiet /\ (\E v \in Verifiers : VerifierStep(v)) /\ UNCHANGED client
    \/ /\ listing = Chain /\ \A v \in Verifiers : verifier[v] = Idle
       /\ Ask \/ Finish \/ NextPage \/ Rest
MCSpec == ApiInit /\ [][MCNext]_apiVars
=============================================================================
