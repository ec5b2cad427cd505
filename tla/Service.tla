------------------------------- MODULE Service -------------------------------
(***************************************************************************)
(* The long-running indexer as its operators see it: the follow loop with  *)
(* its backoff, what /ready answers, a stop signal at any moment, and one  *)
(* deployment taking over from another.  Beside it, the read API's /ready. *)
(*                                                                         *)
(* What is read and written, and the races on it, is Indexer's subject; a  *)
(* page is one step here, and only how far it gets is kept.  Time passes   *)
(* in ticks; an age or a delay stops counting where it makes no further    *)
(* difference.                                                             *)
(***************************************************************************)
EXTENDS Integers, FiniteSets

CONSTANTS
    Instances,       \* deployments of the service
    Free,            \* nobody holds the writer lock
    MaxLedger,       \* bound on the chain
    poll_interval, LockRetry,
    MaxDelay,        \* cap of the backoff: 120 s
    MaxShift,        \* failures beyond which the delay stops doubling: 6
    max_lag, max_silence,
    max_staleness    \* the API's limit on the age of the checkpoint

ASSUME ServiceAssumption ==
    /\ Free \notin Instances /\ MaxLedger \in Nat \ {0}
    /\ poll_interval \in Nat \ {0} /\ LockRetry \in Nat \ {0}
    /\ MaxDelay \in Nat \ {0} /\ MaxShift \in Nat
    /\ max_lag \in Nat /\ max_silence \in Nat /\ max_staleness \in Nat

VARIABLES
    tip,             \* newest ledger of the chain
    checkpoint,      \* of the RPC stream: ledger, whether all of it, the tip then
    age,             \* of the checkpoint
    healthy,         \* RPC and database answer, and RPC's pages reach its tip
    lock,            \* holder of the writer lock
    proc             \* the instances

vars == <<tip, checkpoint, age, healthy, lock, proc>>

None == -1
Min2(a, b) == IF a < b THEN a ELSE b

Default == [latest_ledger |-> None, indexed_ledger |-> None, silence |-> None]
Process(pc) ==
    [pc |-> pc, stop |-> FALSE, left |-> 0, failures |-> 0, range |-> None, status |-> Default]

Init ==
    /\ tip = 1 /\ healthy = TRUE /\ lock = Free
    /\ checkpoint = [ledger |-> None, whole |-> FALSE, latest |-> None]
    /\ age = 0
    /\ proc = [i \in Instances |-> Process("down")]
-----------------------------------------------------------------------------
(* What is reported *)

lag(status) ==
    IF status.latest_ledger > status.indexed_ledger
    THEN status.latest_ledger - status.indexed_ledger ELSE 0

\* A bug: only the silence is looked at.
ReadyUnlessSilent(status) == status.silence # None /\ status.silence <= max_silence

readiness(status) ==
    /\ status.silence # None
    /\ status.silence <= max_silence
    /\ status.indexed_ledger # None => lag(status) <= max_lag

Ready(i) == proc[i].pc \notin {"down", "exited"} /\ readiness(proc[i].status)

\* The read API's own /ready.
ApiReady == checkpoint.ledger # None /\ age <= max_staleness

\* The last ledger the store holds completely.
CompleteLedger == checkpoint.ledger - (IF checkpoint.whole THEN 0 ELSE 1)
-----------------------------------------------------------------------------
(* One instance: serve, acquire_writer_lock, run.                          *)

At(i, pc) == proc[i].pc = pc
Become(i, new) == proc' = [proc EXCEPT ![i] = new]

\* A bug: the lock outlives the run.
LeaveKeepingLock(i) ==
    /\ Become(i, Process("exited"))
    /\ UNCHANGED <<tip, checkpoint, age, healthy, lock>>

\* The lock is a session's, and goes with it.
Leave(i) ==
    /\ Become(i, Process("exited"))
    /\ lock' = IF lock = i THEN Free ELSE lock
    /\ UNCHANGED <<tip, checkpoint, age, healthy>>

Launch(i) ==
    /\ At(i, "down")
    /\ Become(i, [proc[i] EXCEPT !.pc = "waiting"])
    /\ UNCHANGED <<tip, checkpoint, age, healthy, lock>>

acquire_writer_lock(i) ==
    /\ At(i, "waiting")
    /\ IF proc[i].stop THEN Leave(i)
       ELSE /\ Become(i, IF lock = Free THEN [proc[i] EXCEPT !.pc = "cycle"]
                         ELSE [proc[i] EXCEPT !.pc = "lock_sleep", !.left = LockRetry])
            /\ lock' = IF lock = Free THEN i ELSE lock
            /\ UNCHANGED <<tip, checkpoint, age, healthy>>

\* The end of a sleep, which the signal cuts short.
Sleep(i, pc, next) ==
    /\ At(i, pc)
    /\ \/ proc[i].stop /\ Leave(i)
       \/ /\ proc[i].left = 0
          /\ Become(i, [proc[i] EXCEPT !.pc = next])
          /\ UNCHANGED <<tip, checkpoint, age, healthy, lock>>

\* A database error while waiting ends the process.
LockError(i) == At(i, "waiting") /\ ~ healthy /\ Leave(i)

\* A bug: a failed sync counts as contact.
FailInTouch(i) ==
    LET failures == Min2(proc[i].failures + 1, MaxShift)
    IN  /\ Become(i, [proc[i] EXCEPT
             !.pc = "sleep", !.failures = failures, !.status.silence = 0,
             !.left = Min2(poll_interval * 2 ^ failures, MaxDelay)])
        /\ UNCHANGED <<tip, checkpoint, age, healthy, lock>>

\* failures is only used up to MaxShift.
Fail(i) ==
    LET failures == Min2(proc[i].failures + 1, MaxShift)
    IN  /\ Become(i, [proc[i] EXCEPT
             !.pc = "sleep", !.failures = failures,
             !.left = Min2(poll_interval * 2 ^ failures, MaxDelay)])
        /\ UNCHANGED <<tip, checkpoint, age, healthy, lock>>

\* Stop, still_held, and the tip as RPC reports it.
BeginCycle(i) ==
    /\ At(i, "cycle")
    /\ IF proc[i].stop \/ lock # i THEN Leave(i)
       ELSE \/ ~ healthy /\ Fail(i)
            \/ /\ Become(i, [proc[i] EXCEPT !.pc = "sync", !.range = tip])
               /\ UNCHANGED <<tip, checkpoint, age, healthy, lock>>

\* One page of sync_to_tip.  A full page's cursor is its last event, inside a
\* ledger; any other is the end of a ledger.  Whether a page is full is judged by the
\* events that are left of it, so a full page with an event of a failed call is
\* taken for a short one.  A server that does not get further ends the sync too.
\* (A further page inside the same ledger changes nothing here.)
Reaches(l, whole) ==
    \/ l > checkpoint.ledger
    \/ l = checkpoint.ledger /\ whole /\ ~ checkpoint.whole

SyncPage(i) ==
    /\ At(i, "sync") /\ ~ proc[i].stop
    /\ \/ \E l \in 1 .. tip, whole, full \in BOOLEAN :
            /\ Reaches(l, whole) /\ (full => ~ whole)
            /\ checkpoint' = [ledger |-> l, whole |-> whole, latest |-> tip]
            /\ age' = 0
            /\ Become(i, [proc[i] EXCEPT !.pc = IF l = tip /\ ~ full THEN "synced" ELSE "sync"])
       \/ /\ checkpoint.ledger # None
          /\ ~ healthy \/ (checkpoint.ledger = tip /\ checkpoint.whole)
          /\ Become(i, [proc[i] EXCEPT !.pc = "synced"])
          /\ UNCHANGED <<checkpoint, age>>
    /\ UNCHANGED <<tip, healthy, lock>>

SyncFails(i) == At(i, "sync") /\ ~ healthy /\ Fail(i)
SyncStops(i) == At(i, "sync") /\ proc[i].stop /\ Leave(i)

\* The outcome of the cycle goes into the status.
Succeed(i) ==
    /\ At(i, "synced")
    /\ Become(i, [proc[i] EXCEPT
         !.pc = "sleep", !.failures = 0, !.left = poll_interval, !.range = None,
         !.status = [latest_ledger |-> IF proc[i].range > checkpoint.latest
                                       THEN proc[i].range ELSE checkpoint.latest,
                     indexed_ledger |-> checkpoint.ledger,
                     silence |-> 0]])
    /\ UNCHANGED <<tip, checkpoint, age, healthy, lock>>

Step(i) ==
    \/ acquire_writer_lock(i) \/ LockError(i) \/ Sleep(i, "lock_sleep", "waiting")
    \/ BeginCycle(i) \/ SyncPage(i) \/ SyncFails(i) \/ SyncStops(i) \/ Succeed(i)
    \/ Sleep(i, "sleep", "cycle")
-----------------------------------------------------------------------------
(* Around them *)

Signal(i) ==
    /\ proc[i].pc \notin {"down", "exited"} /\ ~ proc[i].stop
    /\ Become(i, [proc[i] EXCEPT !.stop = TRUE])
    /\ UNCHANGED <<tip, checkpoint, age, healthy, lock>>

\* The database connection that holds the lock drops.
LoseLock ==
    /\ lock # Free /\ ~ healthy /\ lock' = Free
    /\ UNCHANGED <<tip, checkpoint, age, healthy, proc>>

CloseLedger ==
    /\ tip < MaxLedger /\ tip' = tip + 1
    /\ UNCHANGED <<checkpoint, age, healthy, lock, proc>>

Weather ==
    /\ healthy' = ~ healthy
    /\ UNCHANGED <<tip, checkpoint, age, lock, proc>>

Older(t, limit) == IF t = None THEN None ELSE Min2(t + 1, limit + 1)

\* A sleep that is over is left before more time passes.
Tick ==
    /\ \A i \in Instances : proc[i].pc \in {"sleep", "lock_sleep"} => proc[i].left > 0
    /\ age' = Min2(age + 1, max_staleness + 1)
    /\ proc' = [i \in Instances |->
                 [proc[i] EXCEPT !.left = IF @ > 0 THEN @ - 1 ELSE 0,
                                 !.status.silence = Older(@, max_silence)]]
    /\ UNCHANGED <<tip, checkpoint, healthy, lock>>

Next ==
    \/ \E i \in Instances : Launch(i) \/ Signal(i) \/ Step(i)
    \/ LoseLock \/ CloseLedger \/ Weather \/ Tick

\* Tasks that can run are run, and time passes.
Spec ==
    /\ Init /\ [][Next]_vars
    /\ \A i \in Instances : WF_vars(Step(i))
    /\ WF_vars(Tick)
-----------------------------------------------------------------------------
(* Properties *)

\* /ready answers for the store: as long as an instance is ready, all but one of the
\* ledgers within max_lag of the tip it reports are completely stored.  The one is
\* the ledger the cursor is in, which Status::lag counts as reached.
ReadyIsBacked ==
    \A i \in Instances :
        Ready(i) => CompleteLedger >= proc[i].status.latest_ledger - max_lag - 1

\* Trouble that stays shows: if from some time on no sync succeeds and nothing is
\* stored, then from some time on no instance is ready and neither is the API,
\* whatever backoff, signals and take-overs do (readiness in service.rs, ready in
\* routes.rs).
StuckIsReported ==
    <>[][checkpoint' = checkpoint /\ \A i \in Instances : ~ Succeed(i)]_vars
        => <>[](~ ApiReady /\ \A i \in Instances : ~ Ready(i))

\* Trouble that ends is recovered from without help: an instance that holds the
\* lock and is not told to stop is ready again and again once all is well (run's
\* backoff, and the status a success resets).
RecoversReady ==
    \A i \in Instances :
        <>[](healthy /\ lock = i /\ ~ proc[i].stop) => []<> Ready(i)

\* A signal ends the process at whatever point it is, waiting, sleeping or reading
\* (the stop checks of acquire_writer_lock and run).
StopEnds == \A i \in Instances : proc[i].stop ~> At(i, "exited")

\* A deployment that waits takes over when the other is told to stop: "take over
\* once the old one stops" (service.rs 295).
TakesOver ==
    \A i \in Instances :
        At(i, "waiting") /\ (\A j \in Instances \ {i} : proc[j].stop)
            ~> lock = i \/ At(i, "exited")

\* Readiness follows the trouble both ways: what stays shows, what ends is
\* recovered from (run, readiness).
ReadinessFollows == StuckIsReported /\ RecoversReady

\* A rolling deployment comes to an end: the old process leaves when it is told
\* to, and the new one gets the lock (acquire_writer_lock, run).
LockChangesHands == StopEnds /\ TakesOver
=============================================================================
