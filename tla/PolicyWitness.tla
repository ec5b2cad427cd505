---------------------------- MODULE PolicyWitness ----------------------------
(***************************************************************************)
(* A private transaction from its notes to the pool's verdict: the signals *)
(* that policy-fixture computes, the circuit they must satisfy, the public *)
(* inputs in the circuit's order, the argument the demo makes of them, and *)
(* the pool and its verifier putting them in order again.                  *)
(*                                                                         *)
(* A scalar is a tuple: a number <<n>>, or the hash of other scalars with  *)
(* its domain separator.  Amounts keep their widths, scaled down: u128,    *)
(* i128, the circuit's 248 bits and the field's order.  A request is       *)
(*   kind "tx"       a transaction of the demo,                            *)
(*   kind "signals"  one whose prover skips transaction_inputs' checks,    *)
(*   kind "fixture"  a fixture; key says which file of the verifying key   *)
(*                   the verifier was made from, from_file whether the     *)
(*                   prover read the signals from the file of inputs.      *)
(***************************************************************************)
EXTENDS Integers, Sequences, SequencesExt, FiniteSets, Groth16

CONSTANTS
    Levels,         \* depth of both trees (16)
    AmountBits,     \* bits of u128
    RangeBits,      \* bits the circuit allows an amount (248)
    FieldOrder,     \* the order of the scalar field
    FundedAmount,   \* what the fixtures' funded note holds (13)
    PoolNotes,      \* the notes in the pool's tree, in leaf order
    Enrolled,       \* the private keys on the allowlist, in leaf order
    SpentNotes, Roots, Memberships, Outputs, ExtAmounts, Digests,  \* what transactions are made of
    EdgeOutputs     \* outputs a prover of signals may choose

WitnessAssumption ==
    /\ Levels \in Nat \ {0, 1} /\ AmountBits < RangeBits
    /\ FieldOrder > 4 * 2 ^ RangeBits
    /\ 2 * FundedAmount < 2 ^ RangeBits

\* The transaction asked for and how far it is.
VARIABLES request, stage, result
vars == <<request, stage, result>>

num(n) == <<n>>
empty_leaf == num(FieldOrder - 1)
T == INSTANCE MerkleTree WITH EmptyLeaf <- empty_leaf

poseidon2_compression(left, right) == T!compress(left, right)
poseidon2_hash2(a, b, separator) == <<a, b, separator>>
poseidon2_hash3(a, b, c, separator) == <<a, b, c, separator>>

derive_public_key(private_key) == poseidon2_hash2(private_key, num(0), 3)
sign(private_key, cm, at) == poseidon2_hash3(private_key, cm, at, 4)
commitment(amount, public_key, blinding) == poseidon2_hash3(amount, public_key, blinding, 1)
nullifier(cm, at, signature) == poseidon2_hash3(cm, at, signature, 2)
note_nullifier(private_key, cm, at) == nullifier(cm, at, sign(private_key, cm, at))
membership_leaf(public_key) == poseidon2_hash2(public_key, num(0), 1)

\* The commitment of a note one can spend.
CommitmentOf(note) ==
    commitment(num(note.amount), derive_public_key(note.private_key), note.blinding)

U128Max == 2 ^ AmountBits - 1

Err == [ok |-> FALSE]
Ok(values) == [ok |-> TRUE, values |-> values]
-----------------------------------------------------------------------------
(* The witness of a transaction with chosen notes *)

Balanced(sum_in, ext, sum_out) ==
    IF ext >= 0 THEN sum_in + ext <= U128Max /\ sum_in + ext = sum_out
    ELSE sum_in + ext >= 0 /\ sum_in + ext = sum_out

public_amount(ext) == IF ext >= 0 THEN num(ext) ELSE num(FieldOrder - (- ext))

\* The signals both builders set, from what each has worked out.
Signals(pool_root, ext, hash, inputs, paths, members, outputs) ==
    [root |-> pool_root, publicAmount |-> public_amount(ext), extDataHash |-> hash,
     inputNullifier |-> [i \in 1 .. 2 |->
        note_nullifier(inputs[i].private_key, CommitmentOf(inputs[i]), num(inputs[i].leaf_index))],
     outputCommitment |-> [i \in 1 .. 2 |->
        commitment(num(outputs[i].amount), outputs[i].public_key, outputs[i].blinding)],
     membershipRoots |-> [i \in 1 .. 2 |-> members[i].root],
     membershipProofs |-> [i \in 1 .. 2 |->
        [leaf |-> membership_leaf(derive_public_key(inputs[i].private_key)), blinding |-> num(0),
         pathElements |-> members[i].path_elements, pathIndices |-> members[i].path_indices]],
     inAmount |-> [i \in 1 .. 2 |-> inputs[i].amount],
     inPrivateKey |-> [i \in 1 .. 2 |-> inputs[i].private_key],
     inBlinding |-> [i \in 1 .. 2 |-> inputs[i].blinding],
     inPathIndices |-> [i \in 1 .. 2 |-> inputs[i].leaf_index],
     inPathElements |-> paths,
     outAmount |-> [i \in 1 .. 2 |-> outputs[i].amount],
     outPubkey |-> [i \in 1 .. 2 |-> outputs[i].public_key],
     outBlinding |-> [i \in 1 .. 2 |-> outputs[i].blinding]]

transaction_inputs(tx) ==
    LET sum_in == tx.inputs[1].amount + tx.inputs[2].amount
        sum_out == tx.outputs[1].amount + tx.outputs[2].amount
        signals == Signals(tx.root, tx.ext_amount, num(tx.ext_data_hash % FieldOrder), tx.inputs,
                           [i \in 1 .. 2 |-> tx.inputs[i].path_elements], tx.memberships, tx.outputs)
    IN  IF /\ sum_in <= U128Max /\ sum_out <= U128Max
           /\ Balanced(sum_in, tx.ext_amount, sum_out)
           /\ \A i \in 1 .. 2 : /\ Len(tx.inputs[i].path_elements) = Levels
                                /\ Len(tx.memberships[i].path_elements) = Levels
           /\ signals.inputNullifier[1] # signals.inputNullifier[2]
        THEN Ok(signals) ELSE Err
-----------------------------------------------------------------------------
(* The fixtures *)

chunks(nodes) == [p \in 0 .. Cardinality(DOMAIN nodes) \div 2 - 1 |->
                    poseidon2_compression(nodes[2 * p], nodes[2 * p + 1])]
level_nodes(leaves) ==
    LET nodes[l \in 0 .. Levels] == IF l = 0 THEN leaves ELSE chunks(nodes[l - 1])
    IN  nodes
merkle_root(leaves) == level_nodes(leaves)[Levels][0]
merkle_proof(leaves, index) ==
    LET nodes == level_nodes(leaves)
        at(l) == index \div 2 ^ (l - 1)
    IN  [path_elements |-> [l \in 1 .. Levels |->
            nodes[l - 1][IF at(l) % 2 = 0 THEN at(l) + 1 ELSE at(l) - 1]],
         path_indices |-> index, root |-> nodes[Levels][0]]

leaf_slots == 0 .. 2 ^ Levels - 1

fixture_inputs(funding) ==
    <<[leaf_index |-> 0, private_key |-> num(1), blinding |-> num(3), amount |-> 0],
      [leaf_index |-> 2, private_key |-> num(2), blinding |-> num(4),
       amount |-> IF funding = "Existing" THEN FundedAmount ELSE 0]>>
fixture_outputs(funded_out) ==
    <<[public_key |-> num(5), blinding |-> num(7), amount |-> funded_out],
      [public_key |-> num(6), blinding |-> num(8), amount |-> 0]>>

tx_leaves(inputs, funding) ==
    [i \in leaf_slots |->
        IF funding = "Existing" /\ \E n \in 1 .. 2 : inputs[n].leaf_index = i
        THEN CommitmentOf(inputs[CHOOSE n \in 1 .. 2 : inputs[n].leaf_index = i])
        ELSE IF funding = "Existing" /\ \E n \in 1 .. 2 : inputs[n].leaf_index + 1 = i
        THEN num(0) ELSE empty_leaf]

\* root_override is a set: empty, or the root to use.
build_policy_inputs(hash, ext, funding, root_override) ==
    LET inputs == fixture_inputs(funding)
        funded_out == (IF funding = "Existing" THEN FundedAmount ELSE 0) + ext
        leaves == tx_leaves(inputs, funding)
        members == [i \in leaf_slots |->
                      IF i < 2 THEN membership_leaf(derive_public_key(inputs[i + 1].private_key))
                      ELSE empty_leaf]
    IN  IF funded_out < 0 \/ (root_override # {} /\ funding # "None") THEN Err
        ELSE Ok(Signals(IF root_override = {} THEN merkle_root(leaves)
                        ELSE CHOOSE r \in root_override : TRUE,
                        ext, num(hash % FieldOrder), inputs,
                        [i \in 1 .. 2 |-> merkle_proof(leaves, inputs[i].leaf_index).path_elements],
                        [i \in 1 .. 2 |-> merkle_proof(members, i - 1)],
                        fixture_outputs(funded_out)))

\* The same signals as a file for snarkjs, where a bus is one flat array, ...
input_json(s) ==
    [s EXCEPT !.membershipProofs = [i \in 1 .. 2 |->
        <<@[i].leaf, @[i].blinding>> \o @[i].pathElements \o <<num(@[i].pathIndices)>>]]
\* ... read in the order the circuit declares its members.
ReadInputs(json) ==
    [json EXCEPT !.membershipProofs = [i \in 1 .. 2 |->
        [leaf |-> @[i][1], blinding |-> @[i][2], pathElements |-> SubSeq(@[i], 3, Levels + 2),
         pathIndices |-> @[i][Levels + 3][1]]]]
-----------------------------------------------------------------------------
(* The circuit *)

MerkleProof(leaf, elements, index) == T!computed_root(leaf, elements, index)

OutputsHold(s) ==
    \A i \in 1 .. 2 :
        s.outputCommitment[i] = commitment(num(s.outAmount[i]), s.outPubkey[i], s.outBlinding[i])
InputsHold(s) ==
    \A i \in 1 .. 2 :
        LET pk == derive_public_key(s.inPrivateKey[i])
            cm == commitment(num(s.inAmount[i]), pk, s.inBlinding[i])
            at == num(s.inPathIndices[i])
            member == s.membershipProofs[i]
        IN  /\ s.inputNullifier[i] = nullifier(cm, at, sign(s.inPrivateKey[i], cm, at))
            /\ s.inPathIndices[i] \in leaf_slots
            /\ s.inAmount[i] # 0 => s.root = MerkleProof(cm, s.inPathElements[i], s.inPathIndices[i])
            /\ member.leaf = poseidon2_hash2(pk, member.blinding, 1)
            /\ member.pathIndices \in leaf_slots
            /\ s.membershipRoots[i] = MerkleProof(member.leaf, member.pathElements, member.pathIndices)
SumsHold(s) ==
    (s.inAmount[1] + s.inAmount[2] + s.publicAmount[1]) % FieldOrder
        = (s.outAmount[1] + s.outAmount[2]) % FieldOrder

\* A bug: output amounts are not limited to so many bits.
PolicyTransactionUnbounded(s) ==
    InputsHold(s) /\ OutputsHold(s) /\ SumsHold(s) /\ s.inputNullifier[1] # s.inputNullifier[2]

PolicyTransaction(s) ==
    /\ InputsHold(s) /\ OutputsHold(s) /\ SumsHold(s)
    /\ \A i \in 1 .. 2 : s.outAmount[i] < 2 ^ RangeBits
    /\ s.inputNullifier[1] # s.inputNullifier[2]

\* In the order the circuit declares them.
get_public_inputs(s) ==
    <<s.root, s.publicAmount, s.extDataHash>> \o s.inputNullifier \o s.outputCommitment
        \o s.membershipRoots
-----------------------------------------------------------------------------
(* To the pool *)

proof_json(public, parts) ==
    [root |-> public[1], public_amount |-> public[2], ext_data_hash |-> public[3],
     input_nullifiers |-> <<public[4], public[5]>>, output_commitment0 |-> public[6],
     output_commitment1 |-> public[7], asp_membership_root |-> public[8], proof |-> parts]

from_proof(p) ==
    <<p.root, p.public_amount, p.ext_data_hash>> \o p.input_nullifiers
        \o <<p.output_commitment0, p.output_commitment1>>
        \o [i \in 1 .. Len(p.input_nullifiers) |-> p.asp_membership_root]

insert_two_leaves(tree, leaf1, leaf2) ==
    LET end == T!UpdatePath(tree.filled, 1, poseidon2_compression(leaf1, leaf2), tree.next_index \div 2)
    IN  [filled |-> end.filled, next_index |-> tree.next_index + 2, root |-> end.hash]

\* The pool's tree after so many pairs, and the allowlist after its enrolments.
PoolTree(pairs) ==
    LET tree[n \in 0 .. Len(pairs)] ==
          IF n = 0 THEN T!NewTree ELSE insert_two_leaves(tree[n - 1], pairs[n][1], pairs[n][2])
    IN  tree
AllowlistOf(leaves) ==
    LET tree[n \in 0 .. Len(leaves)] == IF n = 0 THEN T!NewTree ELSE T!push(tree[n - 1], leaves[n])
    IN  tree[Len(leaves)].root

PoolPairs == [n \in 1 .. Len(PoolNotes) \div 2 |->
                <<CommitmentOf(PoolNotes[2 * n - 1]), CommitmentOf(PoolNotes[2 * n])>>]
EnrolledLeaves == [i \in DOMAIN Enrolled |-> membership_leaf(derive_public_key(Enrolled[i]))]

\* The pool of the demo, and the one a fixture's test sets up for it.
Held(pairs) == {PoolTree(pairs)[n].root : n \in 0 .. Len(pairs)}
DemoRoots == Held(PoolPairs)
DemoAllowlist == AllowlistOf(EnrolledLeaves)
SeededRoots ==
    Held([i \in 1 .. 2 |-> <<CommitmentOf(fixture_inputs("Existing")[i]), num(0)>>])
SeededAllowlist ==
    AllowlistOf([i \in 1 .. 2 |->
        membership_leaf(derive_public_key(fixture_inputs("None")[i].private_key))])
RootsHeld(q) ==
    IF q.kind = "fixture" /\ q.funding = "Existing" THEN SeededRoots
    ELSE IF q.kind = "fixture" /\ q.root_override = {} THEN Held(<<>>)
    ELSE DemoRoots
LiveAllowlist(q) == IF q.kind = "fixture" THEN SeededAllowlist ELSE DemoAllowlist

calculate_public_amount(ext) == IF ext >= 0 THEN num(ext) ELSE num(FieldOrder - (- ext))
hash_ext_data(digest) == num(digest % FieldOrder)

\* The verifier of a request: its key read from one of the files made of it.
Key == VerifyingKey(9)
DeployedKey(q) ==
    CASE q.key = "json"  -> embedded_vk(vk_rs_from_json(vk_to_snarkjs_json(Key)))
      [] q.key = "const" -> embedded_vk(write_vk_rust_const(Key))
      [] q.key = "bin"   -> embedded_vk(BinLayout(write_vk_soroban_bin(Key)))
      [] q.key = "ark"   -> verification_key_from_bytes(vk_bytes_from_ark(Key))

\* settle up to the verifier's answer, in a pool where nothing is spent.  Every
\* scalar is a field element.
settle(p, q, proved) ==
    IF p.root \notin RootsHeld(q) THEN "UnknownRoot"
    ELSE IF p.input_nullifiers[1] = p.input_nullifiers[2] THEN "AlreadySpentNullifier"
    ELSE IF p.ext_data_hash # hash_ext_data(q.digest) THEN "WrongExtHash"
    ELSE IF q.ext_amount >= 2 ^ RangeBits \/ - q.ext_amount >= 2 ^ RangeBits
         \/ p.public_amount # calculate_public_amount(q.ext_amount) THEN "WrongExtAmount"
    ELSE IF p.asp_membership_root # LiveAllowlist(q) THEN "InvalidProof"
    ELSE verify_with_vk(DeployedKey(q), p.proof, proved, from_proof(p))
-----------------------------------------------------------------------------
(* The steps *)

Init == request = {} /\ stage = "idle" /\ result = {}

AskTransaction(kind, outputs) ==
    /\ stage = "idle"
    /\ \E i, j \in SpentNotes, r \in Roots, m \in Memberships, o \in outputs,
           e \in ExtAmounts, d \in Digests :
          /\ kind = "signals" => \A note \in {i, j} : Len(note.path_elements) = Levels
          /\ request' = {[kind |-> kind, key |-> "json", root |-> r, ext_amount |-> e, digest |-> d,
                          inputs |-> <<i, j>>, memberships |-> m, outputs |-> o]}
    /\ stage' = "asked"
    /\ UNCHANGED result

\* generate_with_ext_data_hash_and_amount, ...
AskFixture ==
    /\ stage = "idle"
    /\ \E e \in ExtAmounts \cup {- FundedAmount - 1, FundedAmount}, d \in Digests,
           key \in {"json", "const", "bin", "ark"}, from_file \in BOOLEAN :
          request' = {[kind |-> "fixture", key |-> key, from_file |-> from_file, funding |-> "Existing",
                       root_override |-> {}, ext_amount |-> e, digest |-> d]}
    /\ stage' = "asked"
    /\ UNCHANGED result

\* ... generate_first_shield and generate_shield_against_root.
AskShield ==
    /\ stage = "idle"
    /\ \E e \in ExtAmounts, d \in Digests, root_override \in {{}} \cup {{r} : r \in DemoRoots} :
          /\ e > 0
          /\ request' = {[kind |-> "fixture", key |-> "json", from_file |-> FALSE,
                          funding |-> "None", root_override |-> root_override, ext_amount |-> e, digest |-> d]}
    /\ stage' = "asked"
    /\ UNCHANGED result

asked == CHOOSE q \in request : TRUE

Transact(q) ==
    [root |-> q.root, ext_amount |-> q.ext_amount, ext_data_hash |-> q.digest,
     inputs |-> q.inputs, memberships |-> q.memberships, outputs |-> q.outputs]

Build ==
    /\ stage = "asked"
    /\ LET q == asked
           built == CASE q.kind = "tx" -> transaction_inputs(Transact(q))
                      [] q.kind = "signals" ->
                           Ok(Signals(q.root, q.ext_amount, num(q.digest % FieldOrder), q.inputs,
                                      [i \in 1 .. 2 |-> q.inputs[i].path_elements],
                                      q.memberships, q.outputs))
                      [] q.kind = "fixture" ->
                           build_policy_inputs(q.digest, q.ext_amount, q.funding, q.root_override)
       IN  IF built.ok
           THEN /\ stage' = "built"
                /\ result' = {IF q.kind = "fixture" /\ q.from_file
                              THEN ReadInputs(input_json(built.values)) ELSE built.values}
           ELSE stage' = "refused" /\ UNCHANGED result
    /\ UNCHANGED request

signals == CHOOSE s \in result : TRUE

\* The witness is checked, and the proof against its own public inputs.
prove_and_verify ==
    /\ stage = "built"
    /\ stage' = IF PolicyTransaction(signals) THEN "proved" ELSE "refused"
    /\ UNCHANGED <<request, result>>

\* The fixtures go as bytes, the demo's proofs as three points.
Submit ==
    /\ stage = "proved"
    /\ LET public == get_public_inputs(signals)
           proved == prove(Key, public)
           parts == IF asked.kind = "fixture" THEN try_from(proof_bytes(proved))
                    ELSE proof_soroban_parts(proved)
       IN  stage' = settle(proof_json(public, parts), asked, proved)
    /\ UNCHANGED <<request, result>>

Next ==
    \/ AskTransaction("tx", Outputs) \/ AskTransaction("signals", EdgeOutputs)
    \/ AskFixture \/ AskShield
    \/ Build \/ prove_and_verify \/ Submit
Spec == Init /\ [][Next]_vars
-----------------------------------------------------------------------------
(* Properties *)

Decided == stage \notin {"idle", "asked", "built", "proved"}

\* What a transaction should be, over the integers and the real trees.
Owned(q, i) ==
    LET note == q.inputs[i] IN
    note.amount # 0 =>
      \E n \in 0 .. Len(PoolPairs) :
        LET leaves == [j \in 0 .. 2 * n - 1 |-> CommitmentOf(PoolNotes[j + 1])] IN
        /\ note.leaf_index \in DOMAIN leaves
        /\ leaves[note.leaf_index] = CommitmentOf(note)
        /\ q.root = T!ReferenceRoot(leaves)
        /\ note.path_elements = T!path(leaves, note.leaf_index).siblings
Member(q, i) ==
    LET leaves == [j \in 0 .. Len(Enrolled) - 1 |-> EnrolledLeaves[j + 1]] IN
    \E j \in DOMAIN leaves :
        /\ Enrolled[j + 1] = q.inputs[i].private_key
        /\ q.memberships[i] = [path_elements |-> T!path(leaves, j).siblings,
                               path_indices |-> j, root |-> T!ReferenceRoot(leaves)]
Conserves(q) ==
    q.inputs[1].amount + q.inputs[2].amount + q.ext_amount
        = q.outputs[1].amount + q.outputs[2].amount
SameNote(a, b) == CommitmentOf(a) = CommitmentOf(b) /\ a.leaf_index = b.leaf_index

Valid(q) ==
    /\ q.root \in RootsHeld(q)
    /\ \A i \in 1 .. 2 : Owned(q, i) /\ Member(q, i)
    /\ Conserves(q)
    /\ ~ SameNote(q.inputs[1], q.inputs[2])

\* The totals a wallet can count.
Countable(q) ==
    /\ q.inputs[1].amount + q.inputs[2].amount <= U128Max
    /\ q.outputs[1].amount + q.outputs[2].amount <= U128Max

\* A valid transaction is never lost between the prover and the contract: the
\* signals transaction_inputs computes satisfy the circuit, and the public inputs
\* from_proof puts together and the key the build script embedded are the ones
\* the proof was made with.
ValidAccepted ==
    (Decided /\ asked.kind = "tx" /\ Valid(asked) /\ Countable(asked)) => stage = "Ok"

\* Whatever signals a prover uses, what the circuit, settle and verify_with_vk let
\* through together spends notes of the pool by enrolled keys, and creates as much
\* as it spends and brings in, in integers and not only in the field.
AcceptedValid ==
    (stage = "Ok" /\ asked.kind # "fixture") => Valid(asked)

\* Every fixture policy-fixture generates is accepted by a pool holding its input
\* commitments, each paired with zero, and an allowlist with its leaves pushed in
\* order, whichever file of the key the verifier was made from, and also when the
\* prover takes its signals from input_json.
FixturesAccepted ==
    (Decided /\ asked.kind = "fixture") =>
        stage = IF asked.funding = "Existing" /\ FundedAmount + asked.ext_amount < 0
                THEN "refused" ELSE "Ok"
=============================================================================
