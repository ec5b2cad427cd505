-------------------------------- MODULE Store --------------------------------
(***************************************************************************)
(* The database as store.rs and the migrations define it: every event as   *)
(* it was read, the typed rows derived from it, and a checkpoint for each  *)
(* stream.  The seed fills it from Stellar Expert and RPC continues, with  *)
(* an overlap; a write is one transaction.                                 *)
(*                                                                         *)
(* RPC lists what the chain emitted.  Stellar Expert's listing may differ  *)
(* from it: an event altered, left out, or listed twice.  Processes, locks *)
(* and lost hand-offs are modelled in Indexer, decoding in Events.         *)
(*                                                                         *)
(* A position is ledger * Width + k, as in Indexer.  An event is a record: *)
(* kind, index (a tree position), value (commitment, nullifier, owner or   *)
(* leaf) and body (note, keys, root or the rest of it).                    *)
(***************************************************************************)
EXTENDS Integers, SequencesExt

CONSTANTS
    Chain,           \* the events of the chain: a function from positions
    Width, MaxLedger,
    PageSize,
    Overlap,         \* ledgers RPC re-reads before the end of the seed
    MaxI64,          \* largest value of a bigint column
    Altered(_),      \* an event with other bytes
    Faults           \* ways in which Stellar Expert's listing may differ

ASSUME StoreAssumption ==
    /\ Width \in Nat /\ Width > 2 /\ MaxLedger \in Nat /\ PageSize \in Nat \ {0}
    /\ Overlap \in Nat
    /\ DOMAIN Chain \subseteq Width .. (MaxLedger + 1) * Width - 1
    /\ Faults \subseteq {"none", "altered", "missing", "twice"}

VARIABLES
    tip,             \* newest ledger of the chain
    listing,         \* the events Stellar Expert lists
    seeding,         \* what the seed is at: a contract, "mark" or "idle"
    seedTip,         \* the tip the seed read when it started
    db

storeVars == <<tip, listing, seeding, seedTip, db>>

LedgerOf(p) == p \div Width
EndOf(l) == l * Width + Width - 1

\* The contract an event kind comes from.
Emitter(e) == IF e.kind \in {"LeafAdded", "LeafRevoked"} THEN "allowlist" ELSE "pool"
Contracts == {"pool", "allowlist"}

SEED_STREAM == "stellar_expert"
RPC_STREAM == "rpc"
SeedStream(c) == IF c = "pool" THEN "stellar_expert:pool" ELSE "stellar_expert:allowlist"
-----------------------------------------------------------------------------
(* store.rs: the rows of an event, and one transaction.                    *)

Row(table, p, e) ==
    [table |-> table, at |-> p, index |-> e.index, value |-> e.value, body |-> e.body]

insert_typed(p, e) ==
    CASE e.kind = "NewCommitment" -> {Row("transact", p, e)}
      [] e.kind = "NewNullifier" -> {Row("pool_nullifiers", p, e)}
      [] e.kind = "Settlement" -> {Row("pool_settlements", p, e)}
      [] e.kind = "Exit" -> {Row("pool_exits", p, e)}
      [] e.kind = "LegacyDeposit" ->
            {Row("legacy_deposit", p, e), Row("pool_legacy_deposits", p, e)}
      [] e.kind = "PublicKey" -> {Row("pool_public_keys", p, e)}
      [] e.kind = "LeafAdded" -> {Row("added", p, e)}
      [] e.kind = "LeafRevoked" -> {Row("revoked", p, e)}
      [] OTHER -> {}

\* The two origins of a pool_commitments row, the two kinds of an
\* allowlist_events row.
pool_commitments(rows) == {r \in rows : r.table \in {"transact", "legacy_deposit"}}
allowlist_events(rows) == {r \in rows : r.table \in {"added", "revoked"}}
pool_nullifiers(rows) == {r \in rows : r.table = "pool_nullifiers"}

\* The unique constraints of the schema, and the width of a column.
Consistent(rows) ==
    /\ \A r, s \in pool_commitments(rows) : r.index = s.index => r = s
    /\ \A r, s \in pool_nullifiers(rows) : r.value = s.value => r = s
    /\ \A r \in allowlist_events(rows) : r.index <= MaxI64

\* A bug: an event that is already there is not compared.
InsertUnchecked(s, p) == TRUE

\* An event that is already there must be the same; s is the source read from.
insert_event(s, p) == p \in DOMAIN db.raw => db.raw[p] = s[p]

\* The constraints are on single rows and on pairs, so a transaction that inserts
\* its events one by one fails exactly when all its rows together break one.
write_batch(stream, s, batch, cursor, latest) ==
    LET new == batch \ DOMAIN db.raw
        rows == db.rows \cup UNION {insert_typed(p, s[p]) : p \in new}
    IN  /\ stream \in DOMAIN db.checkpoints => db.checkpoints[stream].cursor <= cursor
        /\ \A p \in batch : insert_event(s, p)
        /\ Consistent(rows)
        /\ db' = [raw |-> [p \in DOMAIN db.raw \cup new |->
                             IF p \in new THEN s[p] ELSE db.raw[p]],
                  rows |-> rows,
                  checkpoints |-> [c \in DOMAIN db.checkpoints \cup {stream} |->
                             IF c = stream THEN [cursor |-> cursor, latest |-> latest]
                             ELSE db.checkpoints[c]],
                  verified |-> db.verified]

checkpoint(stream) ==
    IF stream \in DOMAIN db.checkpoints THEN db.checkpoints[stream].cursor ELSE 0
-----------------------------------------------------------------------------
(* The sources *)

Domain(fault) ==
    CASE fault = "none" -> {Chain}
      [] fault = "altered" -> {[Chain EXCEPT ![p] = Altered(Chain[p])] : p \in DOMAIN Chain}
      [] fault = "missing" -> {[q \in DOMAIN Chain \ {p} |-> Chain[q]] : p \in DOMAIN Chain}
      [] fault = "twice" ->
            {[q \in DOMAIN Chain \cup {p + 1} |-> Chain[IF q = p + 1 THEN p ELSE q]] :
                p \in {r \in DOMAIN Chain : r + 1 \notin DOMAIN Chain}}

Listings == UNION {Domain(f) : f \in Faults}

StoreInit ==
    /\ tip = 1 /\ seeding = "idle" /\ seedTip = 0
    /\ listing \in Listings
    /\ db = [raw |-> <<>>, rows |-> {}, checkpoints |-> <<>>, verified |-> <<>>]

CloseLedger ==
    /\ tip < MaxLedger
    /\ tip' = tip + 1
    /\ UNCHANGED <<listing, seeding, seedTip, db>>

\* The first n positions of ps.
FirstOf(ps, n) == {p \in ps : Cardinality({q \in ps : q < p}) < n}

\* What a source has closed and lists after a cursor, for the contracts asked.
After(s, cursor, contracts) ==
    {p \in DOMAIN s : p > cursor /\ LedgerOf(p) <= tip /\ Emitter(s[p]) \in contracts}

\* The service seeds an empty database; `seed` resumes one that was stopped.
SeedStart ==
    /\ seeding = "idle" /\ SEED_STREAM \notin DOMAIN db.checkpoints
    /\ seeding' = "pool" /\ seedTip' = tip
    /\ UNCHANGED <<tip, listing, db>>

\* An error or a crash ends the seed where it is.
SeedStops ==
    /\ seeding # "idle" /\ seeding' = "idle"
    /\ UNCHANGED <<tip, listing, seedTip, db>>

\* One page of a contract; a page that is not full is the last.
SeedPage(c) ==
    LET batch == FirstOf(After(listing, checkpoint(SeedStream(c)), {c}), PageSize)
    IN  /\ seeding = c
        /\ \/ batch = {} /\ UNCHANGED db
           \/ /\ batch # {}
              /\ write_batch(SeedStream(c), listing, batch, Max(batch), seedTip)
        /\ seeding' = IF Cardinality(batch) = PageSize THEN c
                      ELSE IF c = "pool" THEN "allowlist" ELSE "mark"
        /\ UNCHANGED <<tip, listing, seedTip>>

SeedComplete ==
    /\ seeding = "mark" /\ seeding' = "idle"
    /\ write_batch(SEED_STREAM, listing, {}, EndOf(seedTip), seedTip)
    /\ UNCHANGED <<tip, listing, seedTip>>

\* RPC starts Overlap ledgers before the end of the seed.
RpcStart ==
    LET complete_to == db.checkpoints[SEED_STREAM].latest
    IN  EndOf((IF complete_to > Overlap THEN complete_to - Overlap ELSE 1) - 1)

\* One page of sync_to_tip; nothing is written when nothing moved.
RpcPage ==
    /\ SEED_STREAM \in DOMAIN db.checkpoints
    /\ LET from == IF RPC_STREAM \in DOMAIN db.checkpoints THEN checkpoint(RPC_STREAM)
                   ELSE RpcStart
           batch == FirstOf(After(Chain, from, Contracts), PageSize)
           cursor == IF Cardinality(batch) = PageSize THEN Max(batch) ELSE EndOf(tip)
       IN  /\ cursor # from
           /\ write_batch(RPC_STREAM, Chain, batch, cursor, tip)
    /\ UNCHANGED <<tip, listing, seeding, seedTip>>

Writes ==
    \/ SeedStart \/ SeedStops \/ (\E c \in Contracts : SeedPage(c))
    \/ SeedComplete \/ RpcPage

StoreNext == CloseLedger \/ Writes

StoreSpec == StoreInit /\ [][StoreNext]_storeVars
-----------------------------------------------------------------------------
(* Properties *)

\* The typed rows a client is answered from are those of the stored events,
\* each with all its rows and no other: a batch that fails half way, an event read
\* twice or a conflict leaves none behind (insert_event, insert_typed).
TypedFollowRaw ==
    db.rows = UNION {insert_typed(p, db.raw[p]) : p \in DOMAIN db.raw}

\* "Every event at or before it is stored" (store.rs 95), with the bytes its own
\* source gave: a stream passes no event that the other source had stored
\* differently, so a disagreement in the overlap stops the follower for good and
\* is never settled silently in favour of either source.
Read(s, from, to, contracts) ==
    \A p \in DOMAIN s :
        from < p /\ p <= to /\ Emitter(s[p]) \in contracts =>
            p \in DOMAIN db.raw /\ db.raw[p] = s[p]
StreamsAgree ==
    /\ \A c \in Contracts : Read(listing, 0, checkpoint(SeedStream(c)), {c})
    /\ RPC_STREAM \in DOMAIN db.checkpoints =>
          Read(Chain, RpcStart, checkpoint(RPC_STREAM), Contracts)

\* The store is sound whichever source writes it: rows, events and checkpoints
\* agree with one another and with what each source gave.
StoreSound == TypedFollowRaw /\ StreamsAgree
=============================================================================
