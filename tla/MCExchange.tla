----------------------------- MODULE MCExchange -----------------------------
(***************************************************************************)
(* What one program writes and another reads, each exchange in behaviours  *)
(* of its own, the others at rest:                                         *)
(*   witness   a transaction, from the prover to the contract,             *)
(*   tree      the pool's leaves, to the indexer and to the circuit,       *)
(*   events    the contracts' events, to the indexer's decoder,            *)
(*   storage   the contracts' entries, to the indexer's verify,            *)
(*   hash      a permutation, by the crate, the circuit and its definition,*)
(*   tables    the constants of a permutation, as the crate reads them,    *)
(*   keys      key files, by runs of regen-from-zkey and whoever reads,    *)
(*   wallet    a wallet file, by runs of `new`.                            *)
(***************************************************************************)
EXTENDS MerkleTreeWithHistory, Sequences

CONSTANTS
    AmountBits, RangeBits, FieldOrder, FundedAmount,                \* PolicyWitness
    Addresses, Blobs, PoolContract, AspContract, Other, NoAddress, Accounts, Runs, Short, News

VARIABLES
    part,
    request, stage, result,                                         \* PolicyWitness
    emitted, contract, raw, changes,                                \* Events
    pool, allowlist, archived, config, seen,                        \* LedgerStorage
    params, input, round, state, circuit, reference, panicked,      \* Poseidon2
    tables, turn, width, read, overrun,                             \* Poseidon2Instances
    dir, durable, data, synced, run, new, replaced, crashes         \* KeyFiles

\* The hashes and trees that notes and memberships are made with.
Make == INSTANCE PolicyWitness WITH
    PoolNotes <- <<>>, Enrolled <- <<>>, SpentNotes <- {}, Roots <- {}, Memberships <- {},
    Outputs <- {}, EdgeOutputs <- {}, ExtAmounts <- {}, Digests <- {}

num(n) == Make!num(n)
Note(key, blinding, amount, leaf_index) ==
    [private_key |-> num(key), blinding |-> num(blinding), amount |-> amount,
     leaf_index |-> leaf_index]

\* Two notes of the enrolled key, one of a key that is not, and a padding note.
ThreeNotes == <<Note(1, 1, 1, 0), Note(1, 2, 2, 1), Note(2, 3, 1, 2), Note(1, 4, 0, 3)>>
OneKey == <<num(1), num(9)>>

LeavesAfter(pairs) == [i \in 0 .. 2 * pairs - 1 |-> Make!CommitmentOf(ThreeNotes[i + 1])]
With(note, path_elements) ==
    [private_key |-> note.private_key, blinding |-> note.blinding, amount |-> note.amount,
     leaf_index |-> note.leaf_index, path_elements |-> path_elements]
ZeroPath == [l \in 1 .. Levels |-> num(0)]

\* A note in the tree with its path now or before the last insertion, a note that is
\* not in the tree, and the demo's dummies; one path is too short.
MCSpentNotes ==
    {With(ThreeNotes[i], Make!T!path(LeavesAfter(2), i - 1).siblings) : i \in 1 .. 3}
    \cup {With(ThreeNotes[1], Make!T!path(LeavesAfter(1), 0).siblings),
          With(ThreeNotes[1], Tail(Make!T!path(LeavesAfter(2), 0).siblings)),
          With(Note(1, 5, 2, 0), Make!T!path(LeavesAfter(2), 0).siblings),
          With(Note(1, 6, 0, 0), ZeroPath), With(Note(1, 7, 0, 0), ZeroPath)}
MCRoots == {Make!T!root(LeavesAfter(n)) : n \in 0 .. 2} \cup {num(9)}

MembershipIn(keys, j) ==
    LET leaves == [i \in 0 .. keys - 1 |->
                      Make!membership_leaf(Make!derive_public_key(OneKey[i + 1]))]
    IN  [path_elements |-> Make!T!path(leaves, j).siblings, path_indices |-> j,
         root |-> Make!T!root(leaves)]
\* The live allowlist, the one before the last enrolment, another key's place.
MCMemberships ==
    {<<MembershipIn(2, 0), MembershipIn(2, 0)>>, <<MembershipIn(1, 0), MembershipIn(1, 0)>>,
     <<MembershipIn(2, 0), MembershipIn(1, 0)>>, <<MembershipIn(2, 1), MembershipIn(2, 0)>>}

MCOutputs(first, second) ==
    {<<[public_key |-> num(5), blinding |-> num(7), amount |-> a],
       [public_key |-> num(6), blinding |-> num(8), amount |-> b]>> : a \in first, b \in second}
SmallOutputs == MCOutputs(0 .. 3, {0, 2})
\* Amounts about the circuit's limit and the field's.
LargeOutputs == MCOutputs({1, 2 ^ RangeBits, FieldOrder - 1}, {2 ^ RangeBits - 1, 2})

Witness == INSTANCE PolicyWitness WITH
    PoolNotes <- ThreeNotes, Enrolled <- OneKey, SpentNotes <- MCSpentNotes,
    Roots <- MCRoots, Memberships <- MCMemberships, Outputs <- SmallOutputs,
    EdgeOutputs <- LargeOutputs, ExtAmounts <- -2 .. 1, Digests <- {FieldOrder + 5}
-----------------------------------------------------------------------------
Wire == INSTANCE Events WITH
    Word <- 2, Numbers <- {4}, Amounts <- {2}, Indices <- {1}, MaxChanges <- 2,
    Pool <- PoolContract, Allowlist <- AspContract

Ledger == INSTANCE LedgerStorage WITH
    PoolLevels <- 2, AspLevels <- 1, ROOT_HISTORY_SIZE <- 2, POOL_ROOT_HISTORY <- 2,
    MaxArchived <- 1, MaxRoots <- 1
-----------------------------------------------------------------------------
\* The field of 17 elements, where cubes, fifth and seventh powers are invertible,
\* and constants with the tables' shape: a partial round has one that is not zero.
\* A linear layer is right when it is right on the unit vectors.
RoundConstants(t, f, p) ==
    [r \in 1 .. f + p |->
        [i \in 1 .. t |->
            IF i = 1 \/ r <= f \div 2 \/ r > f \div 2 + p THEN (5 * r + 3 * i) % 17 ELSE 0]]

SmallHash(t, d, diag, inputs) ==
    [t |-> t, d |-> d, rounds_f |-> 4, rounds_p |-> 3, diag |-> diag,
     round_constants |-> RoundConstants(t, 4, 3), inputs |-> inputs]

Units(t) == {[i \in 1 .. t |-> IF i = k THEN 1 ELSE 0] : k \in 1 .. t}
              \cup {[i \in 1 .. t |-> (i * i) % 17]}

SmallHashes == {
    SmallHash(2, 5, <<1, 2>>, [1 .. 2 -> 0 .. 16]),
    SmallHash(3, 5, <<1, 1, 2>>, [1 .. 3 -> {0, 1, 7, 16}]),
    SmallHash(3, 3, <<1, 1, 2>>, Units(3)),
    SmallHash(3, 11, <<1, 1, 2>>, Units(3)),
    SmallHash(4, 5, <<3, 7, 2, 9>>, [1 .. 4 -> {0, 1, 13}]),
    SmallHash(4, 7, <<3, 7, 2, 9>>, Units(4)),
    SmallHash(8, 7, <<3, 7, 2, 9, 4, 11, 6, 13>>, Units(8)),
    SmallHash(12, 7, <<3, 7, 2, 9, 4, 11, 6, 13, 5, 8, 10, 12>>, Units(12))}

Hash == INSTANCE Poseidon2 WITH P <- 17, Instances <- SmallHashes

Tables == INSTANCE Poseidon2Instances WITH
    params <- tables, round <- turn, panicked <- overrun
-----------------------------------------------------------------------------
\* All runs have one process id, and there is a name less than there are runs.
Files == INSTANCE KeyFiles WITH
    Pid <- [r \in Runs |-> 7], KeyNames <- <<"proving_key", "vk_json">>, Attempts <- 2,
    MaxCrashes <- 1

-----------------------------------------------------------------------------
ASSUME ExchangeAssumption ==
    /\ Witness!WitnessAssumption /\ Wire!EventsAssumption /\ Ledger!StorageAssumption
    /\ Hash!FieldAssumption /\ Files!KeyFilesAssumption

witnessVars == <<request, stage, result>>
wireVars == <<emitted, contract, raw, changes>>
ledgerVars == <<pool, allowlist, archived, config, seen>>
hashVars == <<params, input, round, state, circuit, reference, panicked>>
tableVars == <<tables, turn, width, read, overrun>>
fileVars == <<dir, durable, data, synced, run, new, replaced, crashes>>
allVars == <<part, vars, witnessVars, wireVars, ledgerVars, hashVars, tableVars, fileVars>>

Rest == "at rest"

MCInit ==
    /\ part \in {"witness", "tree", "events", "storage", "hash", "tables", "keys", "wallet"}
    /\ Init /\ Witness!Init /\ Ledger!Init /\ Files!Init
    /\ IF part = "events" THEN Wire!Init
       ELSE emitted = Rest /\ contract = Rest /\ raw = Rest /\ changes = Rest
    /\ IF part = "hash" THEN Hash!Init
       ELSE /\ params = Rest /\ input = Rest /\ round = Rest /\ panicked = Rest
            /\ state = Rest /\ circuit = Rest /\ reference = Rest
    /\ IF part = "tables" THEN Tables!Init
       ELSE tables = Rest /\ turn = Rest /\ width = Rest /\ read = Rest /\ overrun = Rest

\* The runs of one tool; the machine stops all.  One run gets no further than its
\* first file.
OnlyRuns ==
    /\ crashes' = crashes => new' = new
    /\ \A r \in Short : run'[r].key = 1
OnlyNews == crashes' = crashes => run' = run

\* No later step depends on what verify read, so a behaviour of `storage` ends there.
MCNext ==
    /\ \/ part = "witness" /\ Witness!Next
          /\ UNCHANGED <<vars, wireVars, ledgerVars, hashVars, tableVars, fileVars>>
       \/ part = "tree" /\ Next
          /\ UNCHANGED <<witnessVars, wireVars, ledgerVars, hashVars, tableVars, fileVars>>
       \/ part = "events" /\ Wire!Next
          /\ UNCHANGED <<witnessVars, vars, ledgerVars, hashVars, tableVars, fileVars>>
       \/ part = "storage" /\ seen.of = "none" /\ Ledger!Next
          /\ UNCHANGED <<witnessVars, vars, wireVars, hashVars, tableVars, fileVars>>
       \/ part = "hash" /\ Hash!Next
          /\ UNCHANGED <<witnessVars, vars, wireVars, ledgerVars, tableVars, fileVars>>
       \/ part = "tables" /\ Tables!Next
          /\ UNCHANGED <<witnessVars, vars, wireVars, ledgerVars, hashVars, fileVars>>
       \/ part = "keys" /\ Files!Next /\ OnlyRuns
          /\ UNCHANGED <<witnessVars, vars, wireVars, ledgerVars, hashVars, tableVars>>
       \/ part = "wallet" /\ Files!Next /\ OnlyNews
          /\ UNCHANGED <<witnessVars, vars, wireVars, ledgerVars, hashVars, tableVars>>
    /\ UNCHANGED part

MCSpec == MCInit /\ [][MCNext]_allVars
-----------------------------------------------------------------------------
(* Properties *)

\* A valid transaction is never lost between the prover and the contract, and
\* every fixture policy-fixture generates is accepted by a pool and an allowlist set
\* up as it says (transaction_inputs, from_proof, the key the build script embeds).
NothingLost == Witness!ValidAccepted /\ Witness!FixturesAccepted

\* Whatever signals a prover uses, what the circuit, settle and verify_with_vk let
\* through together spends notes of the pool by enrolled keys, and creates as much
\* as it spends and brings in, in integers and not only in the field.
AcceptedValid == Witness!AcceptedValid

\* The decoder accepts what the contracts publish and nothing else: an event nobody
\* changed has its own kind and values, and whatever a source hands over, what is
\* accepted encodes back to the same bytes and is one the contract it came from
\* could have published (event/mod.rs, the contracts' structs).
DecoderExact ==
    part = "events" => Wire!DecodesWhatWasPublished /\ Wire!AcceptsOnlyPublished

\* Two enums of keys share the pool's storage and no write of the tree disturbs
\* what the constructor and the updates set (storage.rs, get_config); the tree
\* verify reads is the contract's at that ledger, or the read fails with a cause, an
\* entry archived or a contract not constructed (chain.rs).
StorageReadsBack == Ledger!ConfigReadsBack /\ Ledger!TreeReadsExact

\* The crate's folded matrices, the circuit's templates and the permutation's
\* definition agree after every round, and compress and hash2 return what the
\* circuit's templates do.
ImplementationsAgree == part = "hash" => Hash!ImplementationsAgree

\* The constants fit the code that reads them: each permutation reads its tables to
\* the last constant and never past them, its power is invertible in its field, and
\* the contracts ask the host for the width, degree, rounds, diagonal, shape of table
\* and modulus the crate has.
TablesRight ==
    part = "tables" =>
        Tables!TablesFit /\ Tables!SboxInvertible /\ Tables!ContractHashesAsCrate

\* Whoever reads a key file finds all of some run's key in it, and once a run of
\* regen-from-zkey returned Ok, that run's or a later one's: whichever runs shared a
\* process id, failed, were killed or stopped with the machine (atomic_write).
KeysSafe == Files!KeysWhole /\ Files!OkIsDurable

\* A wallet that was saved is never replaced by another `new` of its name.
WalletKept == Files!WalletKept
=============================================================================
