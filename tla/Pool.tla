-------------------------------- MODULE Pool --------------------------------
(***************************************************************************)
(* The shielded pool contract (contracts/pool) with the policy circuit its *)
(* verifier checks (circuits/) and the two contracts it calls, the token   *)
(* and the allowlist, seen through the calls the pool makes.               *)
(*                                                                         *)
(* A Soroban call is atomic: an error rolls back everything it did.  So an *)
(* entrypoint is one action, guarded by the result its checks compute in   *)
(* the code's order being "Ok"; every other result changes nothing.        *)
(*                                                                         *)
(* Hashes are free constructors: a note stands for its commitment, a note  *)
(* with its leaf index for its nullifier, the function from leaf indices   *)
(* to notes for the Merkle root of that tree (module MerkleTree relates    *)
(* the incremental hashing to it), ExtData for its own hash.  A U256 is a  *)
(* field element with the multiple of the modulus added to it.             *)
(***************************************************************************)
EXTENDS RootHistory, Sequences, Functions

CONSTANTS
    Keys, Blindings,          \* note public keys and blinding factors
    Addresses, PoolAddress,   \* token accounts; the pool's own
    FeeRecipient, FeeBps,     \* protocol fee, fixed by the constructor
    MaximumDeposit,           \* per-transaction deposit limit
    Admins, Verifiers, Asps,  \* addresses the admin may configure
    AspRoots, Members,        \* allowlist roots, and the keys each enrols
    FieldSize,                \* the BN254 scalar field
    MaxWrap,                  \* a U256 is elem + wrap * FieldSize
    MaxAmount,                \* 2^248, bound on amounts in circuit and pool
    MaxI128,                  \* largest token amount
    InitialBalance            \* token balances when the pool is deployed

MAX_FEE_BPS == 10000

ASSUME ConstantsAssumption ==
    /\ PoolAddress \in Addresses /\ FeeRecipient \in Addresses
    /\ FeeBps \in 0 .. MAX_FEE_BPS
    /\ MaximumDeposit \in Nat /\ MaxI128 \in Nat /\ MaxWrap \in Nat
    /\ RootHistorySize \in Nat \ {0}
    /\ Members \in [AspRoots -> SUBSET Keys]
    /\ InitialBalance \in [Addresses -> Nat]
    /\ Levels \in 1 .. 32

\* The field has room for the largest imbalance of two inputs, two outputs and
\* a public amount: 2^253 < FieldSize and every amount is below 2^248.
ASSUME FieldAssumption ==
    /\ MaxAmount \in Nat \ {0} /\ FieldSize \in Nat
    /\ FieldSize > 4 * MaxAmount

Notes == [amount : 0 .. FieldSize - 1, key : Keys, blinding : Blindings]
VARIABLES
    nullifiers, commitments,
    admin, verifier, aspMembership,
    balance,            \* the token contract's ledger
    aspRoot,            \* root each allowlist contract answers with
    emitted             \* events of the last call

Nullifiers == [note : Notes, index : 0 .. MaxLeaves - 1]
U256(S) == [elem : S, wrap : 0 .. MaxWrap]
Trees == UNION {[0 .. n - 1 -> Notes] : n \in 0 .. MaxLeaves}
ExtData == [recipient : Addresses, ext_amount : Int]
Proofs == [root : Trees, input_nullifiers : Seq(U256(Nullifiers)),
           output_commitment0 : U256(Notes), output_commitment1 : U256(Notes),
           public_amount : Nat, ext_data_hash : ExtData,
           asp_membership_root : AspRoots]

spendVars == <<nullifiers, commitments>>
configVars == <<admin, verifier, aspMembership>>
vars == <<treeVars, spendVars, configVars, balance, aspRoot, emitted>>

NoEvents == [kind |-> "none", nullifiers |-> <<>>, leaves |-> <<>>,
             recipient |-> {}, amount |-> 0]
-----------------------------------------------------------------------------
(* Views *)

get_root == get_last_root
is_spent(n) == n \in nullifiers
get_asp_membership_root == aspRoot[aspMembership]
hash_ext_data(e) == e

calculate_public_amount(x) == IF x >= 0 THEN x ELSE FieldSize + x
calculate_fee_amount(amount) == (amount * FeeBps) \div MAX_FEE_BPS

Abs(x) == IF x >= 0 THEN x ELSE -x
Withdrawn(e) == IF e.ext_amount < 0 THEN -e.ext_amount ELSE 0
\* A bug: the fee is paid on top of the whole amount.
PaidInFull(e) == Withdrawn(e)

Paid(e) == Withdrawn(e) - calculate_fee_amount(Withdrawn(e))
-----------------------------------------------------------------------------
(* The circuit.  Commitments and nullifiers determine their preimages, so  *)
(* a witness exists exactly when the public inputs satisfy this predicate. *)

SpendsFrom(r, n) ==
    n.note.amount # 0 => n.index \in DOMAIN r /\ r[n.index] = n.note

PolicyTransaction(r, ins, outs, publicAmount, membershipRoot) ==
    /\ \A k \in 1 .. 2 : SpendsFrom(r, ins[k])
    /\ \A k \in 1 .. 2 : ins[k].note.key \in Members[membershipRoot]
    /\ \A k \in 1 .. 2 : outs[k].amount < MaxAmount
    /\ ins[1] # ins[2]
    /\ (ins[1].note.amount + ins[2].note.amount + publicAmount) % FieldSize
         = (outs[1].amount + outs[2].amount) % FieldSize

\* The verifying key has nine public inputs, so it takes two nullifiers.  Every
\* address in Verifiers is a Groth16 verifier holding this circuit's key.
verify_proof(p) ==
    /\ Len(p.input_nullifiers) = 2
    /\ PolicyTransaction(p.root,
          <<p.input_nullifiers[1].elem, p.input_nullifiers[2].elem>>,
          <<p.output_commitment0.elem, p.output_commitment1.elem>>,
          p.public_amount, p.asp_membership_root)
-----------------------------------------------------------------------------
(* The checks of settle, in order; the result of a call *)

\* A bug: encodings beyond the modulus are let through.
AnyEncoding(u) == TRUE

ensure_field_element(u) == u.wrap = 0

ensure_proof_field_elements(p) ==
    /\ p.public_amount < FieldSize
    /\ \A k \in DOMAIN p.input_nullifiers :
          ensure_field_element(p.input_nullifiers[k])
    /\ ensure_field_element(p.output_commitment0)
    /\ ensure_field_element(p.output_commitment1)

ensure_nullifiers_unspent(ns) ==
    /\ \A k \in DOMAIN ns : ~ is_spent(ns[k])
    /\ \A j, k \in DOMAIN ns : ns[j] = ns[k] => j = k

\* A bug: any root the allowlist could have is accepted, not only the live one.
AnyAspRoot(p) == p.asp_membership_root \in AspRoots

ensure_asp_root(p) == get_asp_membership_root = p.asp_membership_root

ensure_public_amount(p, e) ==
    /\ Abs(e.ext_amount) < MaxAmount
    /\ p.public_amount = calculate_public_amount(e.ext_amount)

\* A bug: the two outputs are not compared with each other.
CommitmentsUnusedOnly(p) ==
    /\ p.output_commitment0 \notin commitments
    /\ p.output_commitment1 \notin commitments

ensure_commitments_unused(p) ==
    /\ p.output_commitment0 \notin commitments
    /\ p.output_commitment1 \notin commitments
    /\ p.output_commitment0 # p.output_commitment1

Transfer(b, from, to, amount) ==
    LET spent == [b EXCEPT ![from] = @ - amount]
    IN  [spent EXCEPT ![to] = @ + amount]

\* A bug: the fee is withheld and never paid.
PayOutNoFee(b, e) == Transfer(b, PoolAddress, e.recipient, Paid(e))

\* Two transfers out of the pool; the token refuses one it cannot cover.
PayOut(b, e) ==
    Transfer(Transfer(b, PoolAddress, e.recipient, Paid(e)),
             PoolAddress, FeeRecipient, calculate_fee_amount(Withdrawn(e)))

CanPayOut(b, e) ==
    /\ b[PoolAddress] >= Paid(e)
    /\ Transfer(b, PoolAddress, e.recipient, Paid(e))[PoolAddress]
         >= calculate_fee_amount(Withdrawn(e))

SettleResult(p, e, insertOutputs, b) ==
    IF ~ ensure_proof_field_elements(p)  THEN "InvalidFieldElement"
    ELSE IF ~ is_known_root(p.root)      THEN "UnknownRoot"
    ELSE IF ~ ensure_nullifiers_unspent(p.input_nullifiers)
                                         THEN "AlreadySpentNullifier"
    ELSE IF hash_ext_data(e) # p.ext_data_hash THEN "WrongExtHash"
    ELSE IF ~ ensure_public_amount(p, e) THEN "WrongExtAmount"
    ELSE IF ~ ensure_asp_root(p)         THEN "InvalidProof"
    ELSE IF ~ verify_proof(p)            THEN "InvalidProof"
    ELSE IF insertOutputs /\ ~ ensure_commitments_unused(p)
                                         THEN "AlreadyInsertedCommitment"
    ELSE IF Withdrawn(e) > MaxI128       THEN "WrongExtAmount"
    ELSE IF Withdrawn(e) * FeeBps > MaxI128 THEN "Overflow"
    ELSE IF insertOutputs /\ nextIndex % 2 # 0 THEN "NextIndexNotEven"
    ELSE IF insertOutputs /\ is_full     THEN "MerkleTreeFull"
    ELSE IF ~ CanPayOut(b, e)            THEN "TransferFailed"
    ELSE "Ok"

\* A deposit reaches the pool's account before anything else is checked.
PayIn(e, sender) ==
    IF e.ext_amount > 0 THEN Transfer(balance, sender, PoolAddress, e.ext_amount)
    ELSE balance

TransactResult(p, e, sender) ==
    IF e.ext_amount > 0 /\ e.ext_amount > MaximumDeposit THEN "WrongExtAmount"
    ELSE IF e.ext_amount > 0 /\ e.ext_amount > MaxI128 THEN "WrongExtAmount"
    ELSE IF e.ext_amount > 0 /\ balance[sender] < e.ext_amount
         THEN "TransferFailed"
    ELSE SettleResult(p, e, TRUE, PayIn(e, sender))

\* A bug: the sign test of exit the wrong way round.
ExitOnlyDeposits(p, e) ==
    IF ~ is_full THEN "TreeNotFull"
    ELSE IF e.ext_amount < 0 THEN "WrongExtAmount"
    ELSE SettleResult(p, e, FALSE, balance)

ExitResult(p, e) ==
    IF ~ is_full THEN "TreeNotFull"
    ELSE IF e.ext_amount >= 0 THEN "WrongExtAmount"
    ELSE SettleResult(p, e, FALSE, balance)
-----------------------------------------------------------------------------
(* The effects of settle *)

spend_nullifiers_once(ns) == nullifiers' = nullifiers \cup Range(ns)

mark_commitments_inserted(p) ==
    commitments' = commitments
                     \cup {p.output_commitment0, p.output_commitment1}

\* NewNullifier, NewCommitment and Settlement events of one transaction.
SettlementEvents(p, e) ==
    [kind |-> "settlement", nullifiers |-> p.input_nullifiers,
     leaves |-> [i \in nextIndex .. nextIndex + 1 |->
                    IF i = nextIndex THEN p.output_commitment0
                    ELSE p.output_commitment1],
     recipient |-> IF e.ext_amount < 0 THEN {e.recipient} ELSE {},
     amount |-> e.ext_amount]

\* A bug: the discarded outputs are announced as leaves.
ExitAnnouncesLeaves(p, e) == [SettlementEvents(p, e) EXCEPT !.kind = "exit"]

\* NewNullifier and Exit events: no leaf is announced.
ExitEvents(p, e) ==
    [kind |-> "exit", nullifiers |-> p.input_nullifiers, leaves |-> <<>>,
     recipient |-> {e.recipient}, amount |-> e.ext_amount]
-----------------------------------------------------------------------------
(* Entrypoints.  deposit always answers DepositClosed and has no action.   *)

transact(p, e, sender) ==
    /\ TransactResult(p, e, sender) = "Ok"
    /\ spend_nullifiers_once(p.input_nullifiers)
    /\ insert_two_leaves(p.output_commitment0.elem, p.output_commitment1.elem)
    /\ mark_commitments_inserted(p)
    /\ balance' = PayOut(PayIn(e, sender), e)
    /\ emitted' = SettlementEvents(p, e)
    /\ UNCHANGED <<configVars, aspRoot>>

exit(p, e) ==
    /\ ExitResult(p, e) = "Ok"
    /\ spend_nullifiers_once(p.input_nullifiers)
    /\ balance' = PayOut(balance, e)
    /\ emitted' = ExitEvents(p, e)
    /\ UNCHANGED <<treeVars, commitments, configVars, aspRoot>>

register(owner) ==
    /\ emitted' = [NoEvents EXCEPT !.kind = "public_key", !.recipient = {owner}]
    /\ UNCHANGED <<treeVars, spendVars, configVars, balance, aspRoot>>

update_admin(caller, new) ==
    /\ caller = admin
    /\ admin' = new
    /\ emitted' = NoEvents
    /\ UNCHANGED <<treeVars, spendVars, verifier, aspMembership, balance, aspRoot>>

update_verifier(caller, new) ==
    /\ caller = admin
    /\ verifier' = new
    /\ emitted' = NoEvents
    /\ UNCHANGED <<treeVars, spendVars, admin, aspMembership, balance, aspRoot>>

update_asp_membership(caller, new) ==
    /\ caller = admin
    /\ aspMembership' = new
    /\ emitted' = NoEvents
    /\ UNCHANGED <<treeVars, spendVars, admin, verifier, balance, aspRoot>>

\* The token's own transfers.  A contract's address authorizes only the calls
\* the contract makes, so none of them takes from the pool.
token_transfer(from, to, amount) ==
    /\ from # PoolAddress
    /\ balance[from] >= amount
    /\ balance' = Transfer(balance, from, to, amount)
    /\ emitted' = NoEvents
    /\ UNCHANGED <<treeVars, spendVars, configVars, aspRoot>>

\* An allowlist contract publishes a new root (module AspMembership).
asp_publish(asp, r) ==
    /\ aspRoot' = [aspRoot EXCEPT ![asp] = r]
    /\ emitted' = NoEvents
    /\ UNCHANGED <<treeVars, spendVars, configVars, balance>>

Init ==
    /\ init
    /\ nullifiers = {} /\ commitments = {}
    /\ admin \in Admins /\ verifier \in Verifiers /\ aspMembership \in Asps
    /\ balance = InitialBalance
    /\ aspRoot \in [Asps -> AspRoots]
    /\ emitted = NoEvents

Senders == Addresses \ {PoolAddress}

Next ==
    \/ \E p \in Proofs, e \in ExtData, s \in Senders : transact(p, e, s)
    \/ \E p \in Proofs, e \in ExtData : exit(p, e)
    \/ \E s \in Senders : register(s)
    \/ \E a, b \in Admins : update_admin(a, b)
    \/ \E a \in Admins, v \in Verifiers : update_verifier(a, v)
    \/ \E a \in Admins, m \in Asps : update_asp_membership(a, m)
    \/ \E s, t \in Addresses, n \in Nat : token_transfer(s, t, n)
    \/ \E m \in Asps, r \in AspRoots : asp_publish(m, r)

Spec == Init /\ [][Next]_vars
-----------------------------------------------------------------------------
(* Properties *)

Settled == {"settlement", "exit"}
Canonical(x) == [elem |-> x, wrap |-> 0]
NullifierOf(i) == Canonical([note |-> get_root[i], index |-> i])

\* The value of the notes the pool still owes: leaves whose nullifier is unspent.
LiveValues ==
    [i \in 0 .. MaxLeaves - 1 |->
        IF i < nextIndex /\ ~ is_spent(NullifierOf(i)) THEN get_root[i].amount ELSE 0]
PartialSums(v, n) ==
    LET s[i \in 0 .. n] == IF i = 0 THEN 0 ELSE s[i - 1] + v[i - 1] IN s
LiveValue == PartialSums(LiveValues, MaxLeaves)[MaxLeaves]
Surplus == balance[PoolAddress] - LiveValue

TypeOK ==
    /\ nextIndex \in 0 .. MaxLeaves
    /\ currentRootIndex \in DOMAIN roots
    /\ DOMAIN roots \subseteq 0 .. RootHistorySize - 1
    /\ \A i \in DOMAIN roots :
          \E n \in 0 .. MaxLeaves : roots[i] \in [0 .. n - 1 -> Notes]
    /\ DOMAIN get_root = 0 .. nextIndex - 1
    /\ nullifiers \subseteq U256(Nullifiers)
    /\ commitments \subseteq U256(Notes)
    /\ admin \in Admins /\ verifier \in Verifiers /\ aspMembership \in Asps
    /\ balance \in [Addresses -> Nat]
    /\ aspRoot \in [Asps -> AspRoots]

\* The pool's token account always covers every unspent note in the tree:
\* settle pays out (contract.rs 496-532) no more than the notes it spends.
Solvency == balance[PoolAddress] >= LiveValue

\* No call eats into the surplus, and a transact that pays nothing to the pool
\* itself keeps it: value is created or destroyed only by the forfeited outputs
\* of exit, which "can only pay out less than it took in" (contract.rs 186-190).
ConservesValue ==
    /\ Surplus' >= Surplus
    /\ (/\ emitted'.kind = "settlement"
        /\ PoolAddress \notin emitted'.recipient \cup {FeeRecipient})
          => Surplus' = Surplus
ValueConserved == [][ConservesValue]_vars

\* No field element is ever spent twice, in one call or in two, whatever U256
\* encodes it (ensure_proof_field_elements, ensure_nullifiers_unspent).
SpendsOnce ==
    emitted'.kind \in Settled =>
        /\ \A k \in DOMAIN emitted'.nullifiers : \A n \in nullifiers :
              emitted'.nullifiers[k].elem # n.elem
        /\ \A j, k \in DOMAIN emitted'.nullifiers :
              j # k => emitted'.nullifiers[j].elem # emitted'.nullifiers[k].elem
NoDoubleSpend == [][SpendsOnce]_vars

\* The known roots are exactly the last RootHistorySize trees the pool held,
\* however often the ring has wrapped (insert_two_leaves, is_known_root).
RootWindow ==
    {roots[i] : i \in DOMAIN roots} =
        {[i \in 0 .. nextIndex - 2 * j - 1 |-> get_root[i]] :
            j \in {k \in 0 .. RootHistorySize - 1 : 2 * k <= nextIndex}}

\* The duplicate guard's map and the tree agree: every marked commitment is a
\* leaf, every leaf is marked, no commitment has two leaves.
CommitmentsMatchTree ==
    /\ commitments = {Canonical(get_root[i]) : i \in DOMAIN get_root}
    /\ IsInjective(get_root)

\* Every key that spends is enrolled in the allowlist the pool points at when
\* it settles, dummies included: neither a root from before a revocation nor
\* one of a replaced allowlist contract settles.
MembersSettle ==
    emitted'.kind \in Settled =>
        \A k \in DOMAIN emitted'.nullifiers :
            emitted'.nullifiers[k].elem.note.key
                \in Members[get_asp_membership_root]
OnlyMembersSettle == [][MembersSettle]_vars

\* A follower that applies the events of a call to the leaves and nullifiers
\* it had holds what the contract holds, exits included (contract.rs 539-587).
FollowsEvents ==
    /\ get_root' = [i \in DOMAIN get_root \cup DOMAIN emitted'.leaves |->
                       IF i \in DOMAIN emitted'.leaves THEN emitted'.leaves[i].elem
                       ELSE get_root[i]]
    /\ nullifiers' = nullifiers \cup Range(emitted'.nullifiers)
EventsRebuildState == [][FollowsEvents]_vars

\* An enrolled holder can always take a note out in full: through transact
\* while the tree has room and through exit once it is full ("enough for any
\* holder to empty a full pool", contract.rs 187-189).
NoStrandedNote ==
    \A i \in DOMAIN get_root, s \in Senders :
        LET note == get_root[i]
            zero(b) == [amount |-> 0, key |-> note.key, blinding |-> b]
            ext == [recipient |-> s, ext_amount |-> -note.amount]
            proof(b0, b1, b2) ==
                [root |-> get_root,
                 input_nullifiers |->
                   <<NullifierOf(i), Canonical([note |-> zero(b0), index |-> 0])>>,
                 output_commitment0 |-> Canonical(zero(b1)),
                 output_commitment1 |-> Canonical(zero(b2)),
                 public_amount |-> calculate_public_amount(ext.ext_amount),
                 ext_data_hash |-> hash_ext_data(ext),
                 asp_membership_root |-> get_asp_membership_root]
        IN  /\ note.amount > 0 /\ note.amount * FeeBps <= MaxI128
            /\ ~ is_spent(NullifierOf(i))
            /\ note.key \in Members[get_asp_membership_root]
            => \E b0, b1, b2 \in Blindings :
                  "Ok" = IF is_full THEN ExitResult(proof(b0, b1, b2), ext)
                         ELSE TransactResult(proof(b0, b1, b2), ext, s)

\* What makes the properties above inductive: every root in the ring is of a
\* prefix of the tree; every spent nullifier is a canonical element and, unless
\* its note is worth nothing, of the leaf at its index; no leaf holds an amount
\* that could wrap the field.
SettlementInv ==
    /\ \A i \in DOMAIN roots : \E n \in 0 .. nextIndex :
          roots[i] = [j \in 0 .. n - 1 |-> get_root[j]]
    /\ \A u \in nullifiers : ensure_field_element(u) /\ SpendsFrom(get_root, u.elem)
    /\ \A i \in DOMAIN get_root : get_root[i].amount < MaxAmount

\* The view is_tree_full as its comment has it: "False means `transact` is
\* closed and `exit` is the only way out" (contract.rs 220).
FalseMeansClosed == [][~ is_full => emitted'.kind # "settlement"]_vars
=============================================================================
