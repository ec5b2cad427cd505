--------------------------- MODULE LedgerStorage ---------------------------
(***************************************************************************)
(* The persistent entries of the pool and of the allowlist contract, one   *)
(* by one, as the contracts write them and as the indexer's verify reads   *)
(* them with getLedgerEntries.                                             *)
(*                                                                         *)
(* The pool keeps two enums of keys, DataKey and MerkleDataKey, in one     *)
(* storage.  A key is the vector of its variant's name and fields.  No     *)
(* code extends an entry's life, so any entry may be archived: the ledger  *)
(* restores it for a contract call that touches it, and leaves it out of   *)
(* what it answers the indexer.                                            *)
(*                                                                         *)
(* A root is the number of times the tree has changed, and the zero hash   *)
(* of a level is the level, negated.                                       *)
(***************************************************************************)
EXTENDS Integers, FiniteSets

CONSTANTS
    PoolLevels, AspLevels,
    ROOT_HISTORY_SIZE,    \* the pool's ring
    POOL_ROOT_HISTORY,    \* the ring as the indexer knows it
    Addresses,
    MaxArchived,          \* bound: entries archived at a time
    MaxRoots              \* bound: changes of the allowlist's root

StorageAssumption ==
    /\ PoolLevels \in 1 .. 32 /\ AspLevels \in 1 .. 32
    /\ POOL_ROOT_HISTORY = ROOT_HISTORY_SIZE /\ ROOT_HISTORY_SIZE \in Nat \ {0}

VARIABLES
    pool, allowlist,   \* key -> value, of the entries that exist
    archived,          \* of those, the ones archived: contract and key
    config,            \* what the pool's calls have set, by name
    seen               \* the indexer's last read, beside the contract's answer

vars == <<pool, allowlist, archived, config, seen>>

Contracts == {"pool", "allowlist"}
U32(n) == [type |-> "u32", v |-> n]
U64(n) == [type |-> "u64", v |-> n]
U256(n) == [type |-> "u256", v |-> n]
Bool(b) == [type |-> "bool", v |-> b]
Address(a) == [type |-> "address", v |-> a]
AMap(n) == [type |-> "map", v |-> n]

\* chain.rs, and #[contracttype]: a variant is a vector of its name and fields.
key(variant) == <<variant>>
keyAt(variant, i) == <<variant, U32(i)>>

set(e, k, value) == [x \in DOMAIN e \cup {k} |-> IF x = k THEN value ELSE e[x]]
SetAll(e, more) == [x \in DOMAIN e \cup DOMAIN more |->
                      IF x \in DOMAIN more THEN more[x] ELSE e[x]]
-----------------------------------------------------------------------------
(* pool/src/storage.rs *)

get(e, k) == IF k \in DOMAIN e THEN e[k].v ELSE "NotInitialized"

get_admin(e) == get(e, key("Admin"))
get_token(e) == get(e, key("Token"))
get_verifier(e) == get(e, key("Verifier"))
get_maximum_deposit(e) == get(e, key("MaximumDepositAmount"))
get_fee_recipient(e) == get(e, key("FeeRecipient"))
get_fee_bps(e) == get(e, key("FeeBps"))
get_asp_membership(e) == get(e, key("ASPMembership"))
get_nullifiers(e) == get(e, key("Nullifiers"))
get_commitments(e) == get(e, key("Commitments"))

set_admin(e, a) == set(e, key("Admin"), Address(a))
set_token(e, a) == set(e, key("Token"), Address(a))
set_verifier(e, a) == set(e, key("Verifier"), Address(a))
set_maximum_deposit(e, n) == set(e, key("MaximumDepositAmount"), U256(n))
set_fee_recipient(e, a) == set(e, key("FeeRecipient"), Address(a))
set_fee_bps(e, n) == set(e, key("FeeBps"), U32(n))
set_asp_membership(e, a) == set(e, key("ASPMembership"), Address(a))
set_nullifiers(e, n) == set(e, key("Nullifiers"), AMap(n))
set_commitments(e, n) == set(e, key("Commitments"), AMap(n))

get_config(e) ==
    [admin |-> get_admin(e), token |-> get_token(e), verifier |-> get_verifier(e),
     asp_membership |-> get_asp_membership(e),
     maximum_deposit_amount |-> get_maximum_deposit(e),
     fee_recipient |-> get_fee_recipient(e), fee_bps |-> get_fee_bps(e)]
-----------------------------------------------------------------------------
(* pool/src/merkle_with_history.rs, the tree's entries *)

\* soroban-utils: a hash for every level a tree of 32 levels has.
get_zeroes == [i \in 0 .. 32 |-> U256(0 - i)]

\* Both contracts begin with every subtree empty.
ZeroEntries(names, levels) ==
    [k \in {keyAt(name, i) : name \in names, i \in 0 .. levels} |-> get_zeroes[k[2].v]]

init(e, levels) ==
    LET subtrees == SetAll(e, ZeroEntries({"FilledSubtree", "Zeroes"}, levels))
        rooted == set(set(subtrees, key("Levels"), U32(levels)),
                      keyAt("Root", 0), get_zeroes[levels])
    IN  set(set(rooted, key("CurrentRootIndex"), U32(0)), key("NextIndex"), U64(0))

get_last_root(e) == e[keyAt("Root", e[key("CurrentRootIndex")].v)].v

\* The subtrees of a left child are written over; what they hold is not followed.
insert_two_leaves(e) ==
    LET next_index == e[key("NextIndex")].v
        root_index == (e[key("CurrentRootIndex")].v + 1) % ROOT_HISTORY_SIZE
        root == (next_index \div 2) + 1
        rooted == set(e, keyAt("Root", root_index), U256(root))
    IN  set(set(rooted, key("CurrentRootIndex"), U32(root_index)),
            key("NextIndex"), U64(next_index + 2))
-----------------------------------------------------------------------------
(* asp-membership/src/storage.rs: the same names for some keys, in a storage *)
(* of its own, and two flags with a value when there is no entry             *)

set_levels(e, n) == set(e, key("Levels"), U32(n))
set_next_index(e, n) == set(e, key("NextIndex"), U64(n))
get_next_index(e) == e[key("NextIndex")].v
set_root(e, n) == set(e, key("Root"), U256(n))
get_root(e) == e[key("Root")].v
set_admin_insert_only(e, b) == set(e, key("AdminInsertOnly"), Bool(b))
set_operator_maintained(e, b) == set(e, key("OperatorMaintained"), Bool(b))
get_operator_maintained(e) ==
    key("OperatorMaintained") \in DOMAIN e /\ e[key("OperatorMaintained")].v
-----------------------------------------------------------------------------
(* The contracts' calls, by the entries they write.  The ledger restores     *)
(* what a call touches.                                                      *)

NoEntries == [k \in {} |-> U32(0)]
Constructed == pool # NoEntries
Restore(contract, keys) == archived' = archived \ ({contract} \X keys)

Init ==
    /\ pool = NoEntries /\ allowlist = NoEntries /\ archived = {}
    /\ config = NoEntries /\ seen = [of |-> "none"]

Arguments(admin, other) ==
    [admin |-> admin, token |-> other, verifier |-> admin, asp_membership |-> other,
     maximum_deposit_amount |-> 1, fee_recipient |-> other, fee_bps |-> 2]

constructor(a) ==
    LET e1 == set_verifier(set_token(set_admin(NoEntries, a.admin), a.token), a.verifier)
        e2 == set_maximum_deposit(set_asp_membership(e1, a.asp_membership),
                                  a.maximum_deposit_amount)
        e3 == set_fee_bps(set_fee_recipient(e2, a.fee_recipient), a.fee_bps)
    IN  init(set_commitments(set_nullifiers(e3, 0), 0), PoolLevels)

PoolConstructor(admin, other) ==
    /\ ~ Constructed
    /\ config' = Arguments(admin, other)
    /\ pool' = constructor(config')
    /\ UNCHANGED <<allowlist, archived, seen>>

update_admin(new_admin) ==
    /\ Constructed
    /\ pool' = set_admin(pool, new_admin)
    /\ config' = [config EXCEPT !.admin = new_admin]
    /\ Restore("pool", {key("Admin")})
    /\ UNCHANGED <<allowlist, seen>>

update_verifier(new_verifier) ==
    /\ Constructed
    /\ pool' = set_verifier(pool, new_verifier)
    /\ config' = [config EXCEPT !.verifier = new_verifier]
    /\ Restore("pool", {key("Admin"), key("Verifier")})
    /\ UNCHANGED <<allowlist, seen>>

update_asp_membership(new_asp) ==
    /\ Constructed
    /\ pool' = set_asp_membership(pool, new_asp)
    /\ config' = [config EXCEPT !.asp_membership = new_asp]
    /\ Restore("pool", {key("Admin"), key("ASPMembership")})
    /\ UNCHANGED <<allowlist, seen>>

\* A settlement reads every setting and every root, and writes both maps and the
\* tree.
transact ==
    /\ Constructed
    /\ pool[key("NextIndex")].v + 2 <= 2 ^ PoolLevels
    /\ LET spent == set_nullifiers(pool, get_nullifiers(pool) + 1)
            marked == set_commitments(spent, get_commitments(pool) + 2)
        IN  pool' = insert_two_leaves(marked)
    /\ Restore("pool", DOMAIN pool)
    /\ UNCHANGED <<allowlist, config, seen>>

AspConstructor(admin) ==
    /\ allowlist = NoEntries
    /\ LET e1 == set_next_index(set_levels(set_admin(NoEntries, admin), AspLevels), 0)
        IN  allowlist' = set_root(
                SetAll(set_admin_insert_only(e1, TRUE),
                       ZeroEntries({"FilledSubtrees", "Zeroes"}, AspLevels)),
                get_zeroes[AspLevels].v)
    /\ UNCHANGED <<pool, archived, config, seen>>

insert_leaf ==
    /\ allowlist # NoEntries
    /\ ~ get_operator_maintained(allowlist)
    /\ get_next_index(allowlist) < 2 ^ AspLevels
    /\ allowlist' = set_next_index(set_root(allowlist, get_root(allowlist) + 1),
                                   get_next_index(allowlist) + 1)
    /\ Restore("allowlist", DOMAIN allowlist)
    /\ UNCHANGED <<pool, config, seen>>

revoke_leaf ==
    /\ allowlist # NoEntries /\ get_root(allowlist) < MaxRoots
    /\ allowlist' = set_root(set_operator_maintained(allowlist, TRUE), get_root(allowlist) + 1)
    /\ Restore("allowlist", {key("Admin"), key("OperatorMaintained"), key("Root")})
    /\ UNCHANGED <<pool, config, seen>>

publish_leaf ==
    /\ allowlist # NoEntries /\ get_root(allowlist) < MaxRoots
    /\ get_operator_maintained(allowlist)
    /\ allowlist' = set_root(allowlist, get_root(allowlist) + 1)
    /\ Restore("allowlist", {key("Admin"), key("OperatorMaintained"), key("Root")})
    /\ UNCHANGED <<pool, config, seen>>

AdminInsertOnly(admin_only) ==
    /\ allowlist # NoEntries
    /\ allowlist' = set_admin_insert_only(allowlist, admin_only)
    /\ Restore("allowlist", {key("Admin"), key("AdminInsertOnly")})
    /\ UNCHANGED <<pool, config, seen>>

Entries(contract) == IF contract = "pool" THEN pool ELSE allowlist

Archive(contract, k) ==
    /\ Cardinality(archived) < MaxArchived
    /\ archived' = archived \cup {<<contract, k>>}
    /\ UNCHANGED <<pool, allowlist, config, seen>>
-----------------------------------------------------------------------------
(* chain.rs *)

\* A bug: the ring is read one slot short.
KeysOfShortRing ==
    {key("Levels"), key("NextIndex"), key("CurrentRootIndex")}
      \cup {keyAt("Root", i) : i \in 0 .. POOL_ROOT_HISTORY - 2}

pool_keys ==
    {key("Levels"), key("NextIndex"), key("CurrentRootIndex")}
      \cup {keyAt("Root", i) : i \in 0 .. POOL_ROOT_HISTORY - 1}

allowlist_keys == {key("Levels"), key("NextIndex"), key("Root"), key("OperatorMaintained")}

\* One request for all keys: the entries there are, less the archived ones.
contract_data(contract, names) ==
    LET found == {k \in names \cap DOMAIN Entries(contract) : <<contract, k>> \notin archived}
    IN  [k \in found |-> Entries(contract)[k]]

Missing == [error |-> "Missing"]
TypeError == [error |-> "Type"]
Has(values, k, type) == k \in DOMAIN values /\ values[k].type = type

\* The entries in the order they are looked up, each with its type.
Lookup(values, wanted) ==
    IF \E w \in wanted : w[1] \notin DOMAIN values THEN Missing
    ELSE IF \E w \in wanted : ~ Has(values, w[1], w[2]) THEN TypeError
    ELSE [error |-> "none"]

pool_tree(values) ==
    LET head == Lookup(values, {<<key("Levels"), "u32">>, <<key("NextIndex"), "u64">>,
                                <<key("CurrentRootIndex"), "u32">>})
    IN  IF head.error # "none" THEN head
        ELSE LET root_key == keyAt("Root", values[key("CurrentRootIndex")].v)
                 root == Lookup(values, {<<root_key, "u256">>})
             IN  IF root.error # "none" THEN root
                 ELSE [error |-> "none", levels |-> values[key("Levels")].v,
                       next_index |-> values[key("NextIndex")].v,
                       root |-> values[root_key].v]

allowlist_tree(values) ==
    LET flag == key("OperatorMaintained")
        head == Lookup(values, {<<key("Levels"), "u32">>, <<key("NextIndex"), "u64">>,
                                <<key("Root"), "u256">>})
    IN  IF flag \in DOMAIN values /\ values[flag].type # "bool" THEN TypeError
        ELSE IF head.error # "none" THEN head
        ELSE [error |-> "none", levels |-> values[key("Levels")].v,
              next_index |-> values[key("NextIndex")].v, root |-> values[key("Root")].v,
              operator_maintained |-> flag \in DOMAIN values /\ values[flag].v]

\* The indexer's read, and what the contract itself holds at that ledger.
ReadPool ==
    /\ seen' = [of |-> "pool", tree |-> pool_tree(contract_data("pool", pool_keys)),
                explained |-> ~ Constructed \/ \E k \in pool_keys : <<"pool", k>> \in archived,
                truth |-> IF ~ Constructed THEN Missing
                          ELSE [error |-> "none", levels |-> PoolLevels,
                                next_index |-> get_commitments(pool), root |-> get_last_root(pool)]]
    /\ UNCHANGED <<pool, allowlist, archived, config>>

ReadAllowlist ==
    /\ seen' = [of |-> "allowlist",
                tree |-> allowlist_tree(contract_data("allowlist", allowlist_keys)),
                explained |-> allowlist = NoEntries
                                \/ \E k \in allowlist_keys : <<"allowlist", k>> \in archived,
                truth |-> IF allowlist = NoEntries THEN Missing
                          ELSE [error |-> "none", levels |-> AspLevels,
                                next_index |-> get_next_index(allowlist),
                                root |-> get_root(allowlist),
                                operator_maintained |-> get_operator_maintained(allowlist)]]
    /\ UNCHANGED <<pool, allowlist, archived, config>>

Next ==
    \/ \E a, b \in Addresses : PoolConstructor(a, b)
    \/ \E a \in Addresses :
          update_admin(a) \/ update_verifier(a) \/ update_asp_membership(a) \/ AspConstructor(a)
    \/ \E b \in BOOLEAN : AdminInsertOnly(b)
    \/ transact \/ insert_leaf \/ revoke_leaf \/ publish_leaf
    \/ \E contract \in Contracts : \E k \in DOMAIN Entries(contract) : Archive(contract, k)
    \/ ReadPool \/ ReadAllowlist

Spec == Init /\ [][Next]_vars
-----------------------------------------------------------------------------
\* Two enums of keys share the pool's storage, and Levels, NextIndex and Root are
\* names of both contracts: whatever calls came before, get_config answers what
\* the constructor and the updates set, and no write of the tree disturbs it.
ConfigReadsBack == Constructed => get_config(pool) = config

\* verify compares the index with the tree at one ledger, or is told which entry is
\* missing: the tree it reads is the contract's, and an error has a cause, an entry
\* archived or a contract not constructed.  The allowlist's flag is apart.
TreeReadsExact ==
    seen.of # "none" =>
        \/ /\ seen.tree.error = "none" /\ seen.truth.error = "none"
           /\ \A f \in {"levels", "next_index", "root"} : seen.tree[f] = seen.truth[f]
        \/ seen.tree.error = "Missing" /\ seen.explained
=============================================================================
