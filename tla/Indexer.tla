------------------------------- MODULE Indexer -------------------------------
(***************************************************************************)
(* The event indexer (services/indexer): the seed from Stellar Expert, the *)
(* hand-off to RPC, the page-by-page follower, and the database            *)
(* transactions both write through, run by processes that crash, restart   *)
(* and lose the writer lock while they work.                               *)
(*                                                                         *)
(* An event is its position, ledger * Width + k with 0 < k < Width - 1;    *)
(* k = Width - 1 is the end-of-ledger cursor, k = 0 the start of a ledger. *)
(* Both sources carry the same bytes for a position, so a position is all  *)
(* there is to an event; typed rows follow their raw row.                  *)
(***************************************************************************)
EXTENDS Integers, FiniteSets, FiniteSetsExt

CONSTANTS
    Procs,         \* indexer processes on one database
    Modes,         \* commands they run: "run", "seed"
    Events,        \* every event the two contracts will ever emit
    Failed,        \* those of failed calls, which only old RPC servers list
    PoolEvents,    \* those of the pool; the rest are the allowlist's
    Width,
    MaxLedger,     \* bound: the chain stops here
    PageSize,
    ScanLedgers,   \* ledgers one RPC request scans, 10000 on testnet
    Retention,     \* ledgers RPC keeps, about seven days
    Overlap,       \* ledgers re-read from RPC before the seed's end
    SeedIfEmpty,   \* VEIL_SEED_IF_EMPTY
    MaxFaults      \* bound on crashes, lost locks and failed requests

ASSUME IndexerAssumption ==
    /\ Width \in Nat \ {0, 1, 2} /\ PageSize \in Nat \ {0}
    /\ ScanLedgers \in Nat \ {0} /\ Retention \in Nat \ {0}
    /\ MaxLedger \in Nat /\ Overlap \in Nat /\ MaxFaults \in Nat
    /\ SeedIfEmpty \in BOOLEAN /\ Modes \subseteq {"run", "seed"}
    /\ Failed \subseteq Events /\ PoolEvents \subseteq Events
    /\ \A e \in Events : \E l \in 1 .. MaxLedger, k \in 1 .. Width - 2 : e = l * Width + k

VARIABLES
    closed,        \* latest ledger of the network and of RPC
    expertLedger,  \* latest ledger Stellar Expert has processed
    stored,        \* contract_events
    checkpoints,   \* ingest_checkpoints: a row for each stream that has one
    lock,          \* process holding the advisory lock, as a set
    proc,          \* local state of each process
    faults         \* faults so far

env == <<closed, expertLedger>>
db == <<stored, checkpoints>>
vars == <<env, db, lock, proc, faults>>

ledger(position) == position \div Width
end_of_ledger(l) == l * Width + Width - 1
start_of_ledger(l) == l * Width

Larger(a, b) == IF a >= b THEN a ELSE b
Smaller(a, b) == IF a <= b THEN a ELSE b

Emitted(contract) ==
    (IF contract = "pool" THEN PoolEvents ELSE Events \ PoolEvents) \ Failed
SeedStream(contract) ==
    IF contract = "pool" THEN "seed:pool" ELSE "seed:allowlist"
SEED_STREAM == "stellar_expert"
RPC_STREAM == "rpc"
Streams == {SEED_STREAM, RPC_STREAM, SeedStream("pool"), SeedStream("allowlist")}

\* The first n of a set of positions.
FirstOf(S, n) == {x \in S : Cardinality({y \in S : y < x}) < n}

Down == [pc |-> "down", mode |-> "none", oldest |-> 0, start |-> 0, tip |-> 0,
         contract |-> "none", job |-> "none"]
-----------------------------------------------------------------------------
(* The sources *)

oldest_ledger == Larger(1, closed - Retention + 1)

\* getEvents: a page is full, or reaches the end of the range it scanned.  A
\* start outside the retained range is refused.
RpcServes(start) == ledger(start + 1) >= oldest_ledger

RpcPage(start) ==
    LET end == Smaller(ledger(start + 1) + ScanLedgers - 1, closed)
        page == FirstOf({e \in Events : e > start /\ ledger(e) <= end}, PageSize)
        events == page \ Failed
        cursor == IF Cardinality(page) = PageSize THEN Max(page) ELSE end_of_ledger(end)
        full == Cardinality(events) >= PageSize
    IN  [events |-> events, cursor |-> cursor, latest |-> closed,
         atTip |-> ledger(cursor) >= closed /\ ~ full]

ExpertPage(contract, after) ==
    FirstOf({e \in Emitted(contract) : e > after /\ ledger(e) <= expertLedger}, PageSize)

CloseLedger ==
    /\ closed < MaxLedger
    /\ closed' = closed + 1
    /\ UNCHANGED <<expertLedger, db, lock, proc, faults>>

ExpertIngests ==
    /\ expertLedger < closed
    /\ expertLedger' = expertLedger + 1
    /\ UNCHANGED <<closed, db, lock, proc, faults>>
-----------------------------------------------------------------------------
(* The hand-off *)

rpc_start(oldest) ==
    IF RPC_STREAM \in DOMAIN checkpoints
    THEN IF ledger(checkpoints[RPC_STREAM].cursor) + 1 < oldest
         THEN [result |-> "Gap"] ELSE [result |-> "resume"]
    ELSE IF SEED_STREAM \notin DOMAIN checkpoints THEN [result |-> "NotSeeded"]
    ELSE LET complete_to == checkpoints[SEED_STREAM].latest IN
         IF complete_to + 1 < oldest THEN [result |-> "Gap"]
         ELSE [result |-> "start",
               ledger |-> Larger(Larger(0, complete_to - Overlap), oldest)]
-----------------------------------------------------------------------------
(* A process.  Each step ends where the code awaits. *)

Step(p, from, local) == proc[p].pc = from /\ proc' = [proc EXCEPT ![p] = local]
Goto(p, pc) == [proc[p] EXCEPT !.pc = pc]

\* The end of a cycle that failed, and of a command.
Retry(p) == [Down EXCEPT !.pc = "top", !.mode = proc[p].mode]
Fails(p) == IF proc[p].mode = "run" THEN Retry(p) ELSE Down
Release(p) == lock \ {p}
KeepIfUp(p) == lock' = IF proc'[p].pc = "down" THEN Release(p) ELSE lock

\* `run` waits for the lock, `seed` gives up without it.
LaunchRun(p) ==
    /\ "run" \in Modes
    /\ Step(p, "down", [Down EXCEPT !.pc = "waiting", !.mode = "run"])
    /\ UNCHANGED <<env, db, lock, faults>>

LaunchSeed(p) ==
    /\ "seed" \in Modes
    /\ lock = {}
    /\ lock' = {p}
    /\ Step(p, "down", [Down EXCEPT !.pc = "seedTip", !.mode = "seed"])
    /\ UNCHANGED <<env, db, faults>>

acquire_writer_lock(p) ==
    /\ lock = {}
    /\ lock' = {p}
    /\ Step(p, "waiting", Goto(p, "top"))
    /\ UNCHANGED <<env, db, faults>>

\* The top of the loop: a process that lost the lock ends here.
still_held(p) ==
    /\ Step(p, "top", IF p \in lock
                      THEN [Goto(p, "handoff") EXCEPT !.oldest = oldest_ledger]
                      ELSE Down)
    /\ UNCHANGED <<env, db, lock, faults>>

Handoff(p) ==
    /\ LET answer == rpc_start(proc[p].oldest) IN
       Step(p, "handoff",
            CASE answer.result = "start" ->
                   [Goto(p, "sync") EXCEPT !.start = start_of_ledger(answer.ledger)]
              [] answer.result = "resume" -> Goto(p, "sync")
              [] answer.result = "NotSeeded" /\ SeedIfEmpty -> Goto(p, "seedTip")
              [] OTHER -> Retry(p))
    /\ UNCHANGED <<env, db, lock, faults>>

\* sync_to_tip looks the checkpoint up again.
SyncStart(p) ==
    /\ Step(p, "sync",
            IF RPC_STREAM \in DOMAIN checkpoints
            THEN [Goto(p, "fetch") EXCEPT !.start = checkpoints[RPC_STREAM].cursor]
            ELSE Goto(p, "fetch"))
    /\ UNCHANGED <<env, db, lock, faults>>

Job(stream, batch, cursor, latest, then) ==
    [stream |-> stream, batch |-> batch,
     checkpoint |-> [cursor |-> cursor, latest |-> latest], then |-> then]

\* A bug: a page without events is taken for the tip.
FetchStopsOnEmpty(p) ==
    /\ LET page == RpcPage(proc[p].start)
           then == IF page.atTip THEN "top" ELSE "fetch"
       IN  Step(p, "fetch",
                IF ~ RpcServes(proc[p].start) \/ page.events = {} THEN Retry(p)
                ELSE [Goto(p, "write") EXCEPT
                        !.start = page.cursor,
                        !.job = Job(RPC_STREAM, page.events, page.cursor,
                                    page.latest, then)])
    /\ UNCHANGED <<env, db, lock, faults>>

FetchPage(p) ==
    /\ LET page == RpcPage(proc[p].start)
           unchanged == page.cursor = proc[p].start
           then == IF page.atTip \/ unchanged THEN "top" ELSE "fetch"
       IN  Step(p, "fetch",
                IF ~ RpcServes(proc[p].start) THEN Retry(p)
                ELSE IF unchanged /\ page.events = {} THEN Retry(p)
                ELSE [Goto(p, "write") EXCEPT
                        !.start = page.cursor,
                        !.job = Job(RPC_STREAM, page.events, page.cursor,
                                    page.latest, then)])
    /\ UNCHANGED <<env, db, lock, faults>>

Resume(stream) ==
    IF stream \in DOMAIN checkpoints THEN checkpoints[stream].cursor ELSE 0

\* The tip is read first: what is listed afterwards is complete up to it.
SeedTip(p) ==
    /\ Step(p, "seedTip",
            [Goto(p, "seedFetch") EXCEPT !.tip = expertLedger, !.contract = "pool",
               !.start = Resume(SeedStream("pool"))])
    /\ UNCHANGED <<env, db, lock, faults>>

SeedFetch(p) ==
    /\ LET batch == ExpertPage(proc[p].contract, proc[p].start)
           then == IF Cardinality(batch) >= PageSize THEN "seedFetch" ELSE "seedNext"
       IN  Step(p, "seedFetch",
                IF batch = {} THEN Goto(p, "seedNext")
                ELSE [Goto(p, "write") EXCEPT
                        !.start = Max(batch),
                        !.job = Job(SeedStream(proc[p].contract), batch, Max(batch),
                                    proc[p].tip, then)])
    /\ UNCHANGED <<env, db, lock, faults>>

\* A bug: the seed is marked with the tip of the time it ends.
SeedMarksLater(p) ==
    /\ Step(p, "seedNext",
            IF proc[p].contract = "pool"
            THEN [Goto(p, "seedFetch") EXCEPT !.contract = "allowlist",
                    !.start = Resume(SeedStream("allowlist"))]
            ELSE [Goto(p, "write") EXCEPT
                    !.job = Job(SEED_STREAM, {}, end_of_ledger(expertLedger),
                                expertLedger, "seeded")])
    /\ UNCHANGED <<env, db, lock, faults>>

\* The allowlist after the pool; then the seed is marked complete.
SeedNext(p) ==
    /\ Step(p, "seedNext",
            IF proc[p].contract = "pool"
            THEN [Goto(p, "seedFetch") EXCEPT !.contract = "allowlist",
                    !.start = Resume(SeedStream("allowlist"))]
            ELSE [Goto(p, "write") EXCEPT
                    !.job = Job(SEED_STREAM, {}, end_of_ledger(proc[p].tip),
                                proc[p].tip, "seeded")])
    /\ UNCHANGED <<env, db, lock, faults>>

\* The command ends; the service goes on with the range it read before.
Seeded(p) ==
    /\ Step(p, "seeded", IF proc[p].mode = "run"
                         THEN [Retry(p) EXCEPT !.pc = "handoff",
                                               !.oldest = proc[p].oldest]
                         ELSE Down)
    /\ KeepIfUp(p)
    /\ UNCHANGED <<env, db, faults>>
-----------------------------------------------------------------------------
(* write_batch: one transaction.  SELECT ... FOR UPDATE locks the          *)
(* checkpoint row until the commit, if there is a row: the transaction is  *)
(* then one step.  Without one nothing is locked, and whatever is stored   *)
(* by the time of the upsert is overwritten.                               *)

Commit(p) ==
    LET job == proc[p].job
        next == IF job.then = "top" THEN Retry(p)
                ELSE [Goto(p, job.then) EXCEPT !.job = "none"]
    IN  /\ stored' = stored \cup job.batch
        /\ checkpoints' = [s \in DOMAIN checkpoints \cup {job.stream} |->
                              IF s = job.stream THEN job.checkpoint
                              ELSE checkpoints[s]]
        /\ proc' = [proc EXCEPT ![p] = next]
        /\ UNCHANGED <<env, lock, faults>>

CheckpointRegression(job) ==
    job.checkpoint.cursor < checkpoints[job.stream].cursor

WriteLocked(p) ==
    /\ proc[p].pc = "write"
    /\ proc[p].job.stream \in DOMAIN checkpoints
    /\ IF CheckpointRegression(proc[p].job)
       THEN Step(p, "write", Fails(p)) /\ KeepIfUp(p) /\ UNCHANGED <<env, db, faults>>
       ELSE Commit(p)

WriteUnlocked(p) ==
    /\ proc[p].pc = "write"
    /\ proc[p].job.stream \notin DOMAIN checkpoints
    /\ Step(p, "write", Goto(p, "upsert"))
    /\ UNCHANGED <<env, db, lock, faults>>

Upsert(p) == proc[p].pc = "upsert" /\ Commit(p)
-----------------------------------------------------------------------------
(* Faults *)

Fault == faults < MaxFaults /\ faults' = faults + 1

\* The process dies; Postgres frees its lock and undoes its transaction.
Crash(p) ==
    /\ Fault
    /\ proc[p].pc # "down"
    /\ proc' = [proc EXCEPT ![p] = Down]
    /\ lock' = Release(p)
    /\ UNCHANGED <<env, db>>

\* The lock's connection drops; the process does not notice.
LoseLock(p) ==
    /\ Fault
    /\ p \in lock
    /\ lock' = Release(p)
    /\ UNCHANGED <<env, db, proc>>

\* A request or a transaction fails and the cycle with it.
CycleFails(p) ==
    /\ Fault
    /\ proc[p].pc \notin {"down", "waiting", "top"}
    /\ proc' = [proc EXCEPT ![p] = Fails(p)]
    /\ KeepIfUp(p)
    /\ UNCHANGED <<env, db>>

Init ==
    /\ closed = 1 /\ expertLedger = 0
    /\ stored = {}
    /\ checkpoints = [s \in {} |-> 0]
    /\ lock = {}
    /\ proc = [p \in Procs |-> Down]
    /\ faults = 0

Work(p) ==
    \/ LaunchRun(p) \/ LaunchSeed(p) \/ acquire_writer_lock(p) \/ still_held(p)
    \/ Handoff(p) \/ SyncStart(p) \/ FetchPage(p)
    \/ SeedTip(p) \/ SeedFetch(p) \/ SeedNext(p) \/ Seeded(p)
    \/ WriteLocked(p) \/ WriteUnlocked(p) \/ Upsert(p)

Next ==
    \/ CloseLedger \/ ExpertIngests
    \/ \E p \in Procs : Work(p)
    \/ \E p \in Procs : Crash(p) \/ LoseLock(p) \/ CycleFails(p)

Spec == Init /\ [][Next]_vars

\* The platform restarts a process that ended, and a process that can take a
\* step takes it; faults and the sources owe nothing.
FairSpec == Spec /\ \A p \in Procs : WF_vars(Work(p))
-----------------------------------------------------------------------------
(* What readers of the database rely on *)

\* A bug: a cursor inside a ledger counts for the whole of it.
CursorLedger ==
    IF RPC_STREAM \notin DOMAIN checkpoints THEN 0
    ELSE ledger(checkpoints[RPC_STREAM].cursor)

\* The last ledger the index holds completely.
indexed_ledger ==
    IF RPC_STREAM \notin DOMAIN checkpoints THEN 0
    ELSE LET cursor == checkpoints[RPC_STREAM].cursor IN
         IF cursor = end_of_ledger(ledger(cursor)) THEN ledger(cursor)
         ELSE Larger(0, ledger(cursor) - 1)
-----------------------------------------------------------------------------
(* Properties *)

CompleteTo(S, cursor) == \A e \in S : e <= cursor => e \in stored

\* A checkpoint never claims more than the database holds, whatever died in
\* between and whoever else wrote: all events up to the cursor are stored, of
\* its contract for a seed stream, of both for the other two.
CheckpointsHonest ==
    \A s \in DOMAIN checkpoints :
        CompleteTo(IF s = SeedStream("pool") THEN Emitted("pool")
                   ELSE IF s = SeedStream("allowlist") THEN Emitted("allowlist")
                   ELSE Events \ Failed,
                   checkpoints[s].cursor)

\* verify compares, and the API answers, "up to" this ledger: nothing emitted
\* up to it is missing (verify.rs 214-225, queries.rs 51-77).
IndexedLedgerComplete ==
    \A e \in Events \ Failed : ledger(e) <= indexed_ledger => e \in stored

\* While RPC retains what it needs, the index catches up with the chain once
\* faults stop, through rolling deploys, failed cycles and lost locks.
EventuallyIndexed ==
    closed = MaxLedger ~> Events \ Failed \subseteq stored

\* rpc_start "fails rather than skip ledgers RPC no longer has" (seed.rs 173):
\* when it lets RPC go on, nothing RPC has dropped is still missing.
HandoffSkipsNothing ==
    rpc_start(oldest_ledger).result \in {"resume", "start"} =>
        \A e \in Events \ Failed : ledger(e) < oldest_ledger => e \in stored

\* "Run `veil-indexer seed` again to fill it" (seed.rs 167): once the seed is
\* complete up to what RPC retains, the hand-off no longer reports a gap.
SeedFillsGap ==
    /\ SEED_STREAM \in DOMAIN checkpoints
    /\ checkpoints[SEED_STREAM].latest + 1 >= oldest_ledger
    => rpc_start(oldest_ledger).result # "Gap"

\* "Lock the checkpoint row first, so two writers on the same stream serialise
\* here" (store.rs 204): no write moves a checkpoint back.
CheckpointsAdvance ==
    [][\A s \in DOMAIN checkpoints :
          checkpoints'[s].cursor >= checkpoints[s].cursor]_vars
=============================================================================
