------------------------------- MODULE Verify -------------------------------
(***************************************************************************)
(* verify.rs beside the running indexer: read both contracts' state, wait  *)
(* for the index to reach it, compare, record the outcome for the API.     *)
(* The service runs it periodically (service.rs) and an operator from the  *)
(* command line (main.rs), possibly at once.                               *)
(*                                                                         *)
(* The contracts' state at a ledger is a function of the events up to it:  *)
(* Pool!EventsRebuildState, IndexerAgrees and ReplayAgrees show that.      *)
(***************************************************************************)
EXTENDS Store, AllowlistReplay

CONSTANTS
    Verifiers,
    Zero             \* the leaf the closed deposit path put beside each deposit

VARIABLE verifier    \* what each verifier is at and has read

verifyVars == <<storeVars, verifier>>

Idle == [pc |-> "idle"]

VerifyInit == StoreInit /\ verifier = [v \in Verifiers |-> Idle]
-----------------------------------------------------------------------------
(* chain.rs: the entries of one contract, all from one ledger.             *)

UpTo(s, ledger) == {p \in DOMAIN s : LedgerOf(p) <= ledger}
Kind(s, ledger, kinds) == {p \in UpTo(s, ledger) : s[p].kind \in kinds}

\* The leaves of the pool's tree at a ledger.
LeavesAt(s, ledger) ==
    LET own == Kind(s, ledger, {"NewCommitment", "LegacyDeposit"})
        paired == Kind(s, ledger, {"LegacyDeposit"})
    IN  [i \in {s[p].index : p \in own} \cup {s[p].index + 1 : p \in paired} |->
            IF \E p \in own : s[p].index = i
            THEN s[CHOOSE p \in own : s[p].index = i].value ELSE Zero]

pool_tree ==
    LET leaves == LeavesAt(Chain, tip)
    IN  [ledger |-> tip, next_index |-> Cardinality(DOMAIN leaves),
         root |-> ReferenceRoot(leaves)]

allowlist_tree ==
    LET events == Kind(Chain, tip, {"LeafAdded", "LeafRevoked"})
        revoked == Kind(Chain, tip, {"LeafRevoked"})
    IN  [ledger |-> tip,
         root |-> IF events = {} THEN zeroes[Levels] ELSE Chain[Max(events)].body,
         next_index |-> Cardinality({p \in events : \A r \in revoked : p < r}),
         operator_maintained |-> revoked # {}]
-----------------------------------------------------------------------------
(* verify.rs *)

indexed_ledger(d) ==
    IF RPC_STREAM \notin DOMAIN d.checkpoints THEN 0
    ELSE LET cursor == d.checkpoints[RPC_STREAM].cursor
         IN  IF cursor = EndOf(LedgerOf(cursor)) THEN LedgerOf(cursor)
             ELSE LedgerOf(cursor) - 1

StoredUpTo(rows, ledger) == {r \in rows : LedgerOf(r.at) <= ledger}

\* The deposit's zero leaf is filled in at the next position.  A position set
\* twice, or beyond the tree, is an error of `root`.
check_pool(rows, state) ==
    LET stored == StoredUpTo(pool_commitments(rows), state.ledger)
        paired == {r.index + 1 : r \in {s \in stored : s.table = "legacy_deposit"}}
        own == {r.index : r \in stored}
        leaves == [i \in own \cup paired |->
                     IF i \in own THEN (CHOOSE r \in stored : r.index = i).value ELSE Zero]
        next_index == IF stored = {} THEN 0 ELSE Max(DOMAIN leaves) + 1
    IN  IF own \cap paired # {} \/ ~ DOMAIN leaves \subseteq 0 .. Capacity - 1
        THEN "error"
        ELSE IF /\ DOMAIN leaves = 0 .. next_index - 1
                /\ next_index = state.next_index
                /\ root(leaves) = state.root
        THEN "match" ELSE "mismatch"

Sorted(ps) == SetToSortSeq(ps, <)

AllowlistLog(rows, ledger) ==
    LET stored == StoredUpTo(allowlist_events(rows), ledger)
        At(p) == CHOOSE r \in stored : r.at = p
    IN  [i \in 1 .. Cardinality(stored) |->
            LET r == At(Sorted({s.at : s \in stored})[i])
            IN  [kind |-> r.table, leaf |-> r.value, root |-> r.body,
                 index |-> IF r.table = "added" THEN r.index ELSE NoIndex]]

\* A bug: what was stored after the state's ledger is replayed too.
CheckAllEvents(rows, state) ==
    IF check_allowlist(AllowlistLog(rows, MaxLedger), state)
    THEN "match" ELSE "mismatch"

CheckAllowlist(rows, state) ==
    IF check_allowlist(AllowlistLog(rows, state.ledger), state)
    THEN "match" ELSE "mismatch"

evidence(rows, ledger) ==
    LET stored == StoredUpTo(pool_commitments(rows), ledger)
    IN  [pool_commitment_rows |-> Cardinality(stored),
         pool_legacy_zero_positions |->
            Cardinality({r \in stored : r.table = "legacy_deposit"})]
-----------------------------------------------------------------------------
(* One verification; every step ends where the code awaits.                *)

At(v, pc) == verifier[v].pc = pc
Goto(v, s) == verifier' = [verifier EXCEPT ![v] = s]

ReadPool(v) ==
    /\ At(v, "idle") /\ Goto(v, [pc |-> "read", pool |-> pool_tree])
    /\ UNCHANGED storeVars

ReadAllowlist(v) ==
    /\ At(v, "read")
    /\ Goto(v, [pc |-> "wait", pool |-> verifier[v].pool, allowlist |-> allowlist_tree])
    /\ UNCHANGED storeVars

Newest(v) == Max({verifier[v].pool.ledger, verifier[v].allowlist.ledger})

CaughtUp(v) ==
    /\ At(v, "wait") /\ indexed_ledger(db) >= Newest(v)
    /\ Goto(v, [verifier[v] EXCEPT !.pc = "check_pool"])
    /\ UNCHANGED storeVars

\* The wait is over and the indexer is still behind.
Behind(v) ==
    /\ At(v, "wait") /\ indexed_ledger(db) < Newest(v)
    /\ Goto(v, Idle)
    /\ UNCHANGED storeVars

ComparePool(v) ==
    /\ At(v, "check_pool")
    /\ LET verdict == check_pool(db.rows, verifier[v].pool)
       IN  Goto(v, IF verdict = "error" THEN Idle
                   ELSE [pc |-> "check_allowlist", pool |-> verifier[v].pool,
                         allowlist |-> verifier[v].allowlist, poolVerdict |-> verdict])
    /\ UNCHANGED storeVars

CompareAllowlist(v) ==
    /\ At(v, "check_allowlist")
    /\ Goto(v, [verifier[v] EXCEPT !.pc = "evidence"] @@
               [allowlistVerdict |-> CheckAllowlist(db.rows, verifier[v].allowlist)])
    /\ UNCHANGED storeVars

GatherEvidence(v) ==
    /\ At(v, "evidence")
    /\ Goto(v, [verifier[v] EXCEPT !.pc = "record_pool"] @@
               [evidence |-> evidence(db.rows, verifier[v].pool.ledger)])
    /\ UNCHANGED storeVars

\* One upsert for each contract, unconditional.
Record(contract, state, verdict) ==
    /\ db' = [db EXCEPT !.verified =
                (contract :> [state |-> state, matches |-> verdict = "match"]) @@ @]
    /\ UNCHANGED <<tip, listing, seeding, seedTip>>

RecordPool(v) ==
    /\ At(v, "record_pool")
    /\ Record("pool", verifier[v].pool, verifier[v].poolVerdict)
    /\ Goto(v, [verifier[v] EXCEPT !.pc = "record_allowlist"])

RecordAllowlist(v) ==
    /\ At(v, "record_allowlist")
    /\ Record("allowlist", verifier[v].allowlist, verifier[v].allowlistVerdict)
    /\ Goto(v, Idle)

\* A query fails, or the process stops.
Abandon(v) ==
    /\ ~ At(v, "idle")
    /\ Goto(v, Idle)
    /\ UNCHANGED storeVars

VerifierStep(v) ==
    \/ ReadPool(v) \/ ReadAllowlist(v) \/ CaughtUp(v) \/ Behind(v) \/ ComparePool(v)
    \/ CompareAllowlist(v) \/ GatherEvidence(v) \/ RecordPool(v)
    \/ RecordAllowlist(v) \/ Abandon(v)

VerifyNext ==
    \/ StoreNext /\ UNCHANGED verifier
    \/ \E v \in Verifiers : VerifierStep(v)

VerifySpec == VerifyInit /\ [][VerifyNext]_verifyVars
-----------------------------------------------------------------------------
(* Properties *)

\* verify tells the truth about the tree, whatever the seed's source listed and
\* however far the chain and the indexer went on meanwhile: the recorded verdict
\* on the pool is a match exactly when the positions stored up to the state's
\* ledger are those the pool holds there.  No false alarm, nothing missed.
PoolVerdictRight ==
    "pool" \in DOMAIN db.verified =>
        LET row == db.verified["pool"]
        IN  row.matches <=> LeavesAt(db.raw, row.state.ledger)
                              = LeavesAt(Chain, row.state.ledger)

\* The same for the allowlist, up to what its events determine: as long as the
\* contract computes the roots, a match means every enrolment is stored as it
\* happened; after a revocation, that the enrolments before it are and that the
\* last published root is the contract's.  A complete index always matches.
Changes(s, ledger) ==
    [p \in Kind(s, ledger, {"LeafAdded", "LeafRevoked"}) |-> s[p]]
BeforeRevocation(s, ledger) ==
    LET all == Changes(s, ledger)
    IN  {<<all[p].kind, all[p].value, all[p].index>> :
            p \in {q \in DOMAIN all : \A r \in DOMAIN all :
                      all[r].kind = "LeafRevoked" => q < r}}
AllowlistVerdictRight ==
    "allowlist" \in DOMAIN db.verified =>
        LET row == db.verified["allowlist"]
            ledger == row.state.ledger
        IN  /\ Changes(db.raw, ledger) = Changes(Chain, ledger) => row.matches
            /\ row.matches => BeforeRevocation(db.raw, ledger)
                                = BeforeRevocation(Chain, ledger)

\* "Rows plus these equal the pool's next index" (verify.rs 141): the evidence of
\* a report whose pool checks match adds up to the state it was compared with,
\* though the rows are counted later, while the indexer goes on writing.
EvidenceAddsUp ==
    \A v \in Verifiers :
        At(v, "record_pool") /\ verifier[v].poolVerdict = "match" =>
            verifier[v].evidence.pool_commitment_rows
              + verifier[v].evidence.pool_legacy_zero_positions
                = verifier[v].pool.next_index

\* What verify reports and records is right on both contracts, though their states
\* are read one after the other and compared while the indexer goes on.
ReportRight == PoolVerdictRight /\ AllowlistVerdictRight /\ EvidenceAddsUp
=============================================================================
