--------------------------- MODULE ServiceProofs ---------------------------
(***************************************************************************)
(* What /ready answers is backed by the store, for any number of instances *)
(* and any limits: what an instance last reported was stored then, and the *)
(* store never loses a ledger.                                             *)
(***************************************************************************)
EXTENDS Service, TLAPS

Fields == {"pc", "stop", "left", "failures", "range", "status"}
StatusFields == {"latest_ledger", "indexed_ledger", "silence"}

\* A status that was never set, or one whose ledgers the store holds.
Backed(status, complete) ==
    /\ DOMAIN status = StatusFields
    /\ status.silence # None =>
          /\ status.latest_ledger \in Int
          /\ status.indexed_ledger \in Nat \ {0}
          /\ complete >= status.indexed_ledger - 1

InstanceOK(x, ledger, complete) ==
    /\ DOMAIN x = Fields
    /\ x.range \in Int
    /\ x.pc = "synced" => ledger # None
    /\ Backed(x.status, complete)

CheckpointOK ==
    /\ checkpoint \in [ledger : Int, whole : BOOLEAN, latest : Int]
    /\ checkpoint.ledger = None \/ checkpoint.ledger \in Nat \ {0}

ServiceInv ==
    /\ tip \in Nat
    /\ CheckpointOK
    /\ DOMAIN proc = Instances
    /\ \A i \in Instances : InstanceOK(proc[i], checkpoint.ledger, CompleteLedger)

LEMMA CompleteType ==
    ASSUME CheckpointOK
    PROVE  CompleteLedger \in Int
  BY DEF CheckpointOK, CompleteLedger

\* What is backed stays backed as the store grows.
LEMMA BackedStays ==
    ASSUME NEW x, NEW l, NEW l2, NEW c \in Int, NEW c2 \in Int, c <= c2,
           l # None => l2 # None, InstanceOK(x, l, c)
    PROVE  InstanceOK(x, l2, c2)
  BY DEF InstanceOK, Backed

\* A step of one instance that leaves the checkpoint alone.
LEMMA OneMoves ==
    ASSUME ServiceInv, NEW i \in Instances, NEW x, Become(i, x),
           tip' = tip, checkpoint' = checkpoint,
           InstanceOK(x, checkpoint.ledger, CompleteLedger)
    PROVE  ServiceInv'
<1>1. CompleteLedger' = CompleteLedger /\ CheckpointOK'
  BY DEF ServiceInv, CheckpointOK, CompleteLedger
<1>2. DOMAIN proc' = Instances /\ proc'[i] = x
      /\ \A j \in Instances : j # i => proc'[j] = proc[j]
  BY DEF ServiceInv, Become
<1>3. \A j \in Instances : InstanceOK(proc'[j], checkpoint'.ledger, CompleteLedger')
  BY <1>1, <1>2 DEF ServiceInv
<1>4. QED
  BY <1>1, <1>2, <1>3 DEF ServiceInv

\* Changes of an instance's other fields.
LEMMA SameStatus ==
    ASSUME NEW y, NEW x, NEW l, NEW c, InstanceOK(y, l, c),
           DOMAIN x = Fields, x.status = y.status, x.range \in Int,
           x.pc = "synced" => l # None
    PROVE  InstanceOK(x, l, c)
  BY DEF InstanceOK

LEMMA LeaveStep ==
    ASSUME ServiceInv, NEW i \in Instances, Leave(i)
    PROVE  ServiceInv'
<1> DEFINE x == Process("exited")
<1>1. Become(i, x) /\ tip' = tip /\ checkpoint' = checkpoint
  BY DEF Leave
<1>2. DOMAIN x = Fields /\ x.range \in Int /\ x.pc # "synced" /\ x.status = Default
  BY DEF Process, Fields, None
<1>3. DOMAIN Default = StatusFields /\ Default.silence = None
  BY DEF Default, StatusFields
<1> HIDE DEF x
<1>4. InstanceOK(x, checkpoint.ledger, CompleteLedger)
  BY <1>2, <1>3 DEF InstanceOK, Backed
<1>5. QED
  BY <1>1, <1>4, OneMoves

LEMMA FailStep ==
    ASSUME ServiceInv, NEW i \in Instances, Fail(i)
    PROVE  ServiceInv'
<1> DEFINE f == Min2(proc[i].failures + 1, MaxShift)
           x == [proc[i] EXCEPT !.pc = "sleep", !.failures = f,
                   !.left = Min2(poll_interval * 2 ^ f, MaxDelay)]
<1>1. Become(i, x) /\ tip' = tip /\ checkpoint' = checkpoint
  BY DEF Fail
<1>2. InstanceOK(proc[i], checkpoint.ledger, CompleteLedger)
  BY DEF ServiceInv
<1>3. DOMAIN x = Fields /\ x.status = proc[i].status /\ x.range \in Int /\ x.pc = "sleep"
  BY <1>2 DEF InstanceOK, Fields
<1> HIDE DEF x
<1>4. QED
  BY <1>1, <1>2, <1>3, SameStatus, OneMoves

\* Steps that only move an instance on, and do not end a sync.
LEMMA MoveStep ==
    ASSUME ServiceInv, NEW i \in Instances, NEW x, Become(i, x),
           tip' = tip, checkpoint' = checkpoint,
           DOMAIN x = DOMAIN proc[i], x.status = proc[i].status, x.range \in Int,
           x.pc = "synced" => checkpoint.ledger # None
    PROVE  ServiceInv'
<1>1. InstanceOK(proc[i], checkpoint.ledger, CompleteLedger)
  BY DEF ServiceInv
<1>2. DOMAIN x = Fields
  BY <1>1 DEF InstanceOK
<1>3. QED
  BY <1>1, <1>2, SameStatus, OneMoves

\* A page moves the checkpoint on, never back.
LEMMA PageStep ==
    ASSUME ServiceInv, NEW i \in Instances, SyncPage(i)
    PROVE  ServiceInv'
<1>1. InstanceOK(proc[i], checkpoint.ledger, CompleteLedger) /\ CheckpointOK /\ tip \in Nat
  BY DEF ServiceInv
<1>2. CASE \E l \in 1 .. tip, whole, full \in BOOLEAN :
              /\ Reaches(l, whole) /\ (full => ~ whole)
              /\ checkpoint' = [ledger |-> l, whole |-> whole, latest |-> tip]
              /\ age' = 0
              /\ Become(i, [proc[i] EXCEPT !.pc = IF l = tip /\ ~ full THEN "synced" ELSE "sync"])
  <2>1. PICK l \in 1 .. tip, whole \in BOOLEAN, full \in BOOLEAN :
              /\ Reaches(l, whole)
              /\ checkpoint' = [ledger |-> l, whole |-> whole, latest |-> tip]
              /\ Become(i, [proc[i] EXCEPT !.pc = IF l = tip /\ ~ full THEN "synced" ELSE "sync"])
    BY <1>2
  <2> DEFINE x == [proc[i] EXCEPT !.pc = IF l = tip /\ ~ full THEN "synced" ELSE "sync"]
  <2>2. l \in Nat \ {0} /\ l # None
    BY <1>1 DEF None
  <2>3. CheckpointOK' /\ checkpoint'.ledger = l
    BY <1>1, <2>1, <2>2 DEF CheckpointOK
  <2>4. CompleteLedger \in Int /\ CompleteLedger' \in Int /\ CompleteLedger <= CompleteLedger'
    <3>1. CompleteLedger' = l - (IF whole THEN 0 ELSE 1)
      BY <2>1 DEF CompleteLedger
    <3>2. checkpoint.ledger \in Int /\ checkpoint.whole \in BOOLEAN
      BY <1>1 DEF CheckpointOK
    <3>3. QED
      BY <2>1, <2>2, <3>1, <3>2 DEF CompleteLedger, Reaches
  <2>5. DOMAIN x = Fields /\ x.status = proc[i].status /\ x.range \in Int
    BY <1>1 DEF InstanceOK, Fields
  <2>6. proc' = [proc EXCEPT ![i] = x]
    BY <2>1 DEF Become
  <2> HIDE DEF x
  <2>7. InstanceOK(proc[i], l, CompleteLedger')
    BY <1>1, <2>2, <2>4, BackedStays
  <2>8. InstanceOK(x, l, CompleteLedger')
    BY <2>2, <2>5, <2>7, SameStatus
  <2>9. ASSUME NEW j \in Instances
        PROVE  InstanceOK(proc'[j], checkpoint'.ledger, CompleteLedger')
    <3>1. CASE j = i
      BY <2>3, <2>6, <2>8, <3>1 DEF ServiceInv
    <3>2. CASE j # i
      <4>1. proc'[j] = proc[j]
        BY <2>6, <3>2 DEF ServiceInv
      <4>2. InstanceOK(proc[j], checkpoint.ledger, CompleteLedger)
        BY DEF ServiceInv
      <4>3. QED
        BY <2>2, <2>3, <2>4, <4>1, <4>2, BackedStays
    <3>3. QED
      BY <3>1, <3>2
  <2>10. tip' = tip /\ DOMAIN proc' = Instances
    BY <2>6 DEF SyncPage, ServiceInv
  <2>11. QED
    BY <1>1, <2>3, <2>9, <2>10 DEF ServiceInv
<1>3. CASE /\ checkpoint.ledger # None
           /\ Become(i, [proc[i] EXCEPT !.pc = "synced"])
           /\ UNCHANGED <<checkpoint, age>>
  <2> DEFINE x == [proc[i] EXCEPT !.pc = "synced"]
  <2>1. DOMAIN x = DOMAIN proc[i] /\ x.status = proc[i].status /\ x.range \in Int
    BY <1>1 DEF InstanceOK, Fields
  <2>2. Become(i, x) /\ tip' = tip
    BY <1>3 DEF SyncPage
  <2> HIDE DEF x
  <2>3. QED
    BY <1>3, <2>1, <2>2, MoveStep
<1>4. QED
  BY <1>2, <1>3 DEF SyncPage

\* The status of a cycle that succeeded is what the store holds.
LEMMA SucceedStep ==
    ASSUME ServiceInv, NEW i \in Instances, Succeed(i)
    PROVE  ServiceInv'
<1> DEFINE st == [latest_ledger |-> IF proc[i].range > checkpoint.latest
                                    THEN proc[i].range ELSE checkpoint.latest,
                  indexed_ledger |-> checkpoint.ledger,
                  silence |-> 0]
           x == [proc[i] EXCEPT !.pc = "sleep", !.failures = 0, !.left = poll_interval,
                   !.range = None, !.status = st]
<1>1. InstanceOK(proc[i], checkpoint.ledger, CompleteLedger) /\ CheckpointOK
      /\ proc[i].pc = "synced"
  BY DEF ServiceInv, Succeed, At
<1>2. checkpoint.ledger \in Nat \ {0} /\ checkpoint.latest \in Int /\ proc[i].range \in Int
      /\ checkpoint.whole \in BOOLEAN
  BY <1>1 DEF InstanceOK, CheckpointOK
<1>3. CompleteLedger >= checkpoint.ledger - 1
  BY <1>2 DEF CompleteLedger
<1>4. DOMAIN st = StatusFields /\ st.latest_ledger \in Int /\ st.indexed_ledger = checkpoint.ledger
  BY <1>2 DEF StatusFields
<1> HIDE DEF st
<1>5. Backed(st, CompleteLedger)
  BY <1>2, <1>3, <1>4 DEF Backed
<1>6. DOMAIN x = Fields /\ x.status = st /\ x.range \in Int /\ x.pc = "sleep"
  BY <1>1 DEF InstanceOK, Fields, None
<1>7. Become(i, x) /\ tip' = tip /\ checkpoint' = checkpoint
  BY DEF Succeed, st
<1> HIDE DEF x
<1>8. InstanceOK(x, checkpoint.ledger, CompleteLedger)
  BY <1>5, <1>6 DEF InstanceOK
<1>9. QED
  BY <1>7, <1>8, OneMoves

LEMMA OtherSteps ==
    ASSUME ServiceInv, NEW i \in Instances,
           \/ Launch(i) \/ Signal(i) \/ acquire_writer_lock(i) \/ BeginCycle(i)
           \/ Sleep(i, "lock_sleep", "waiting") \/ Sleep(i, "sleep", "cycle")
    PROVE  ServiceInv'
<1>1. DOMAIN proc[i] = Fields /\ proc[i].range \in Int /\ tip \in Nat
  BY DEF ServiceInv, InstanceOK
<1>2. CASE Leave(i)
  BY <1>2, LeaveStep
<1>3. CASE Fail(i)
  BY <1>3, FailStep
<1>4. CASE Launch(i)
  <2> DEFINE x == [proc[i] EXCEPT !.pc = "waiting"]
  <2>1. DOMAIN x = DOMAIN proc[i] /\ x.status = proc[i].status /\ x.range \in Int
        /\ x.pc = "waiting"
    BY <1>1 DEF Fields
  <2>2. Become(i, x) /\ tip' = tip /\ checkpoint' = checkpoint
    BY <1>4 DEF Launch
  <2> HIDE DEF x
  <2>3. QED
    BY <2>1, <2>2, MoveStep
<1>5. CASE Signal(i)
  <2> DEFINE x == [proc[i] EXCEPT !.stop = TRUE]
  <2>1. DOMAIN x = DOMAIN proc[i] /\ x.status = proc[i].status /\ x.range \in Int
        /\ x.pc = proc[i].pc
    BY <1>1 DEF Fields
  <2>2. Become(i, x) /\ tip' = tip /\ checkpoint' = checkpoint
    BY <1>5 DEF Signal
  <2>3. proc[i].pc = "synced" => checkpoint.ledger # None
    BY DEF ServiceInv, InstanceOK
  <2> HIDE DEF x
  <2>4. QED
    BY <2>1, <2>2, <2>3, MoveStep
<1>6. CASE acquire_writer_lock(i) /\ ~ Leave(i)
  <2> DEFINE x == IF lock = Free THEN [proc[i] EXCEPT !.pc = "cycle"]
                  ELSE [proc[i] EXCEPT !.pc = "lock_sleep", !.left = LockRetry]
  <2>1. DOMAIN x = DOMAIN proc[i] /\ x.status = proc[i].status /\ x.range \in Int
        /\ x.pc # "synced"
    BY <1>1 DEF Fields
  <2>2. Become(i, x) /\ tip' = tip /\ checkpoint' = checkpoint
    BY <1>6 DEF acquire_writer_lock
  <2> HIDE DEF x
  <2>3. QED
    BY <2>1, <2>2, MoveStep
<1>7. CASE BeginCycle(i) /\ ~ Leave(i) /\ ~ Fail(i)
  <2> DEFINE x == [proc[i] EXCEPT !.pc = "sync", !.range = tip]
  <2>1. DOMAIN x = DOMAIN proc[i] /\ x.status = proc[i].status /\ x.range \in Int
        /\ x.pc # "synced"
    BY <1>1 DEF Fields
  <2>2. Become(i, x) /\ tip' = tip /\ checkpoint' = checkpoint
    BY <1>7 DEF BeginCycle
  <2> HIDE DEF x
  <2>3. QED
    BY <2>1, <2>2, MoveStep
<1>8. ASSUME NEW pc, NEW next \in {"waiting", "cycle"}, Sleep(i, pc, next), ~ Leave(i)
      PROVE  ServiceInv'
  <2> DEFINE x == [proc[i] EXCEPT !.pc = next]
  <2>1. DOMAIN x = DOMAIN proc[i] /\ x.status = proc[i].status /\ x.range \in Int
        /\ x.pc # "synced"
    BY <1>1 DEF Fields
  <2>2. Become(i, x) /\ tip' = tip /\ checkpoint' = checkpoint
    BY <1>8 DEF Sleep
  <2> HIDE DEF x
  <2>3. QED
    BY <2>1, <2>2, MoveStep
<1>9. QED
  BY <1>2, <1>3, <1>4, <1>5, <1>6, <1>7, <1>8

\* Time passes: a silence that was none stays none.
LEMMA TickStep ==
    ASSUME ServiceInv, Tick
    PROVE  ServiceInv'
<1>1. tip' = tip /\ checkpoint' = checkpoint /\ CompleteLedger' = CompleteLedger
  BY DEF Tick, CompleteLedger
<1>2. CheckpointOK'
  BY <1>1 DEF ServiceInv, CheckpointOK
<1>3. ASSUME NEW i \in Instances
      PROVE  InstanceOK(proc'[i], checkpoint.ledger, CompleteLedger)
  <2>1. InstanceOK(proc[i], checkpoint.ledger, CompleteLedger)
    BY DEF ServiceInv
  <2>2. DOMAIN proc[i] = Fields /\ DOMAIN proc[i].status = StatusFields
    BY <2>1 DEF InstanceOK, Backed
  <2>3. proc'[i] = [proc[i] EXCEPT !.left = IF @ > 0 THEN @ - 1 ELSE 0,
                                   !.status.silence = Older(@, max_silence)]
    BY DEF Tick
  <2>4. /\ DOMAIN proc'[i] = Fields /\ proc'[i].range = proc[i].range
        /\ proc'[i].pc = proc[i].pc
        /\ proc'[i].status = [proc[i].status EXCEPT !.silence = Older(@, max_silence)]
    BY <2>2, <2>3 DEF Fields
  <2>5. /\ DOMAIN proc'[i].status = StatusFields
        /\ proc'[i].status.latest_ledger = proc[i].status.latest_ledger
        /\ proc'[i].status.indexed_ledger = proc[i].status.indexed_ledger
        /\ proc'[i].status.silence = Older(proc[i].status.silence, max_silence)
    BY <2>2, <2>4 DEF StatusFields
  <2>6. proc[i].status.silence = None => proc'[i].status.silence = None
    BY <2>5 DEF Older
  <2>7. QED
    BY <2>1, <2>4, <2>5, <2>6 DEF InstanceOK, Backed
<1>4. DOMAIN proc' = Instances
  BY DEF Tick
<1>5. QED
  BY <1>1, <1>2, <1>3, <1>4 DEF ServiceInv

LEMMA WorldStep ==
    ASSUME ServiceInv, LoseLock \/ CloseLedger \/ Weather \/ UNCHANGED vars
    PROVE  ServiceInv'
<1>1. checkpoint' = checkpoint /\ proc' = proc
  BY DEF LoseLock, CloseLedger, Weather, vars
<1>2. tip' \in Nat
  BY DEF ServiceInv, LoseLock, CloseLedger, Weather, vars
<1>3. QED
  BY <1>1, <1>2 DEF ServiceInv, CheckpointOK, CompleteLedger
-----------------------------------------------------------------------------
\* As long as an instance answers ready, the store completely holds all but one of
\* the ledgers within max_lag of the tip it reports, whichever instance stored
\* them and whatever failed since (readiness, Status::lag, run).
THEOREM ReadyMeansBacked == Spec => []ReadyIsBacked
<1>1. Init => ServiceInv
  <2> SUFFICES ASSUME Init PROVE ServiceInv
    OBVIOUS
  <2>1. tip \in Nat /\ CheckpointOK /\ DOMAIN proc = Instances
    BY DEF Init, CheckpointOK, None
  <2>2. DOMAIN Default = StatusFields /\ Default.silence = None
    BY DEF Default, StatusFields
  <2> DEFINE x == Process("down")
  <2>3. DOMAIN x = Fields /\ x.range \in Int /\ x.pc # "synced" /\ x.status = Default
    BY DEF Process, Fields, None
  <2>4. \A i \in Instances : proc[i] = x
    BY DEF Init
  <2> HIDE DEF x
  <2>5. InstanceOK(x, checkpoint.ledger, CompleteLedger)
    BY <2>2, <2>3 DEF InstanceOK, Backed
  <2>6. QED
    BY <2>1, <2>4, <2>5 DEF ServiceInv
<1>2. ServiceInv /\ [Next]_vars => ServiceInv'
  <2> SUFFICES ASSUME ServiceInv, [Next]_vars PROVE ServiceInv'
    OBVIOUS
  <2>1. ASSUME NEW i \in Instances, Launch(i) \/ Signal(i) PROVE ServiceInv'
    BY <2>1, OtherSteps
  <2>2. ASSUME NEW i \in Instances, Step(i) PROVE ServiceInv'
    <3>1. CASE LockError(i)
      BY <3>1, LeaveStep DEF LockError
    <3>2. CASE SyncPage(i)
      BY <3>2, PageStep
    <3>3. CASE SyncFails(i)
      BY <3>3, FailStep DEF SyncFails
    <3>4. CASE SyncStops(i)
      BY <3>4, LeaveStep DEF SyncStops
    <3>5. CASE Succeed(i)
      BY <3>5, SucceedStep
    <3>6. QED
      BY <2>2, <3>1, <3>2, <3>3, <3>4, <3>5, OtherSteps DEF Step
  <2>3. CASE LoseLock \/ CloseLedger \/ Weather \/ UNCHANGED vars
    BY <2>3, WorldStep
  <2>4. CASE Tick
    BY <2>4, TickStep
  <2>5. QED
    BY <2>1, <2>2, <2>3, <2>4 DEF Next
<1>3. ServiceInv => ReadyIsBacked
  <2> SUFFICES ASSUME ServiceInv, NEW i \in Instances, Ready(i)
               PROVE  CompleteLedger >= proc[i].status.latest_ledger - max_lag - 1
    BY DEF ReadyIsBacked
  <2> DEFINE st == proc[i].status
  <2>1. /\ st.silence # None
        /\ st.indexed_ledger # None => lag(st) <= max_lag
    BY DEF Ready, readiness
  <2>2. /\ st.latest_ledger \in Int /\ st.indexed_ledger \in Nat \ {0}
        /\ CompleteLedger >= st.indexed_ledger - 1 /\ CompleteLedger \in Int
    BY <2>1, CompleteType DEF ServiceInv, InstanceOK, Backed
  <2>3. max_lag \in Nat
    BY ServiceAssumption
  <2> HIDE DEF st
  <2>4. st.latest_ledger - st.indexed_ledger <= max_lag
    BY <2>1, <2>2, <2>3 DEF lag, None
  <2>5. QED
    BY <2>2, <2>3, <2>4 DEF st
<1>4. QED
  BY <1>1, <1>2, <1>3, PTL DEF Spec
=============================================================================
