--------------------------- MODULE IndexerProofs ---------------------------
(***************************************************************************)
(* No checkpoint claims more than the database holds, for any events,      *)
(* processes, page sizes and retention, whatever dies and whoever writes.  *)
(***************************************************************************)
EXTENDS Indexer, NatLemmas

-----------------------------------------------------------------------------
(* Positions *)

\* An event lies strictly between the start and the end of its ledger.
LEMMA EventPositions ==
    ASSUME NEW e \in Events
    PROVE  /\ e \in Nat
           /\ \E l \in 1 .. MaxLedger : l * Width < e /\ e < end_of_ledger(l)
<1>1. PICK l \in 1 .. MaxLedger, k \in 1 .. Width - 2 : e = l * Width + k
  BY IndexerAssumption
<1>2. Width \in Nat /\ l \in Nat /\ l * Width \in Nat
  BY IndexerAssumption
<1>3. QED
  BY <1>1, <1>2 DEF end_of_ledger

\* The ledger of a position, and the cursors that bound it.
LEMMA LedgerBounds ==
    ASSUME NEW x \in Nat, NEW l \in Nat
    PROVE  /\ ledger(x) \in Nat
           /\ end_of_ledger(l) \in Nat
           /\ start_of_ledger(l) \in Nat
           /\ x <= end_of_ledger(l) <=> ledger(x) <= l
           /\ x >= start_of_ledger(l) <=> ledger(x) >= l
<1>1. Width \in Nat \ {0}
  BY IndexerAssumption
<1> DEFINE q == x \div Width
<1>2. q \in Nat /\ q * Width <= x /\ x < q * Width + Width
  BY <1>1, DivBounds
<1>3. l * Width \in Nat /\ q * Width \in Nat
  BY <1>1, <1>2
<1> HIDE DEF q
<1>4. q <= l => x <= l * Width + Width - 1
  <2>1. q <= l => q * Width <= l * Width
    BY <1>1, <1>2, MulMonotone
  <2>2. QED
    BY <1>1, <1>2, <1>3, <2>1
<1>5. l + 1 <= q => x > l * Width + Width - 1
  <2>1. l + 1 <= q => (l + 1) * Width <= q * Width
    BY <1>1, <1>2, MulMonotone
  <2>2. (l + 1) * Width = l * Width + Width
    BY <1>1
  <2>3. QED
    BY <1>1, <1>2, <1>3, <2>1, <2>2
<1>6. l <= q => l * Width <= x
  <2>1. l <= q => l * Width <= q * Width
    BY <1>1, <1>2, MulMonotone
  <2>2. QED
    BY <1>1, <1>2, <1>3, <2>1
<1>7. q + 1 <= l => x < l * Width
  <2>1. q + 1 <= l => (q + 1) * Width <= l * Width
    BY <1>1, <1>2, MulMonotone
  <2>2. (q + 1) * Width = q * Width + Width
    BY <1>1, <1>2
  <2>3. QED
    BY <1>1, <1>2, <1>3, <2>1, <2>2
<1>8. ledger(x) = q
  BY DEF ledger, q
<1>9. QED
  BY <1>1, <1>2, <1>3, <1>4, <1>5, <1>6, <1>7, <1>8 DEF end_of_ledger, start_of_ledger

\* Events are not at the start of a ledger, and no event is in ledger 0.
LEMMA EventsInside ==
    ASSUME NEW e \in Events, NEW l \in Nat
    PROVE  /\ e <= start_of_ledger(l) => ledger(e) + 1 <= l
           /\ ledger(e) >= 1
<1>1. e \in Nat
  BY EventPositions
<1>2. PICK m \in 1 .. MaxLedger : m * Width < e /\ e < end_of_ledger(m)
  BY EventPositions
<1>3. m \in Nat /\ MaxLedger \in Nat
  BY IndexerAssumption
<1>4. ledger(e) \in Nat /\ (e >= start_of_ledger(m) <=> ledger(e) >= m)
      /\ (e <= end_of_ledger(m) <=> ledger(e) <= m) /\ end_of_ledger(m) \in Nat
      /\ start_of_ledger(m) \in Nat
  BY <1>1, <1>3, LedgerBounds
<1>5. e >= start_of_ledger(m) /\ e # start_of_ledger(m)
  BY <1>1, <1>2, <1>3, <1>4 DEF start_of_ledger
<1>6. ledger(e) = m
  BY <1>1, <1>2, <1>3, <1>4, <1>5
<1>7. ASSUME e <= start_of_ledger(l) PROVE ledger(e) + 1 <= l
  <2>1. start_of_ledger(l) \in Nat /\ start_of_ledger(m) \in Nat
    BY <1>3, LedgerBounds, <1>1
  <2>2. ledger(e) <= l
    <3>1. start_of_ledger(l) <= end_of_ledger(l) /\ end_of_ledger(l) \in Nat
      BY IndexerAssumption, <2>1 DEF start_of_ledger, end_of_ledger
    <3>2. e <= end_of_ledger(l) <=> ledger(e) <= l
      BY <1>1, LedgerBounds
    <3>3. QED
      BY <1>1, <1>7, <2>1, <3>1, <3>2
  <2>3. m = l => e > start_of_ledger(l)
    BY <1>1, <1>5, <2>1
  <2>4. QED
    BY <1>1, <1>3, <1>6, <1>7, <2>1, <2>2, <2>3
<1>8. QED
  BY <1>3, <1>6, <1>7
-----------------------------------------------------------------------------
(* Pages *)

LEMMA EventsFinite ==
    /\ \E b \in Nat : \A e \in Events : e <= b
    /\ Events \subseteq Nat
    /\ IsFiniteSet(Events)
<1>1. Events \subseteq Nat
  BY EventPositions
<1> DEFINE b == end_of_ledger(MaxLedger)
<1>2. b \in Nat
  BY IndexerAssumption, LedgerBounds, 0 \in Nat
<1>3. ASSUME NEW e \in Events PROVE e <= b
  <2>1. PICK l \in 1 .. MaxLedger : l * Width < e /\ e < end_of_ledger(l)
    BY EventPositions
  <2>2. l \in Int /\ MaxLedger \in Int /\ Width \in Nat /\ l <= MaxLedger
    BY IndexerAssumption
  <2>3. l * Width <= MaxLedger * Width
    BY <2>2, MulMonotone
  <2>4. l * Width \in Int /\ MaxLedger * Width \in Int
    BY <2>2
  <2>5. QED
    BY <1>1, <2>1, <2>2, <2>3, <2>4 DEF end_of_ledger
<1> HIDE DEF b
<1>4. IsFiniteSet(Events)
  BY <1>1, <1>2, <1>3, FS_BoundedSetOfNaturals
<1>5. QED
  BY <1>1, <1>2, <1>3, <1>4

\* The greatest of some events.
LEMMA MaxOfEvents ==
    ASSUME NEW S \in SUBSET Events, S # {}
    PROVE  /\ Max(S) \in S
           /\ \A y \in S : Max(S) >= y
<1>1. PICK b \in Nat : \A e \in Events : e <= b
  BY EventsFinite
<1>2. S \in SUBSET Nat /\ \A y \in S : y <= b
  BY <1>1, EventsFinite
<1>3. \E x \in S : \A y \in S : x >= y
  BY <1>2, GreatestElement
<1>4. QED
  BY <1>3 DEF Max

\* The first events of a set: everything before one of them is among them, and
\* they are all of the set unless there are as many as asked for.
LEMMA FirstEvents ==
    ASSUME NEW S \in SUBSET Events
    PROVE  LET F == FirstOf(S, PageSize) IN
           /\ F \subseteq S
           /\ \A x \in F, y \in S : y <= x => y \in F
           /\ IsFiniteSet(F) /\ Cardinality(F) \in Nat
           /\ Cardinality(F) <= PageSize
           /\ Cardinality(F) < PageSize => F = S
<1> DEFINE F == FirstOf(S, PageSize)
           Below(x) == {y \in S : y < x}
<1>1. S \subseteq Nat /\ IsFiniteSet(S) /\ PageSize \in Nat \ {0}
  BY EventsFinite, FS_Subset, IndexerAssumption
<1>2. F \subseteq S /\ \A x \in S : x \in F <=> Cardinality(Below(x)) < PageSize
  BY DEF FirstOf
<1>3. \A x : IsFiniteSet(Below(x)) /\ Cardinality(Below(x)) \in Nat
  BY <1>1, FS_Subset, FS_CardinalityType
<1>4. IsFiniteSet(F) /\ Cardinality(F) \in Nat
  BY <1>1, <1>2, FS_Subset, FS_CardinalityType
<1> HIDE DEF F
<1>5. ASSUME NEW x \in F, NEW y \in S, y <= x PROVE y \in F
  <2>1. ASSUME NEW z \in Below(y) PROVE z \in Below(x)
    <3>1. z \in S /\ z < y /\ z \in Nat /\ y \in Nat /\ x \in Nat
      BY <1>1, <1>2
    <3>2. QED
      BY <1>5, <3>1
  <2>2. Cardinality(Below(y)) <= Cardinality(Below(x))
    BY <1>3, <2>1, Below(y) \subseteq Below(x), FS_Subset
  <2>3. Cardinality(Below(x)) < PageSize
    BY <1>2
  <2>4. QED
    BY <1>1, <1>2, <1>3, <2>2, <2>3
<1>6. Cardinality(F) <= PageSize
  <2>1. CASE F = {}
    BY <1>1, <2>1, FS_EmptySet
  <2>2. CASE F # {}
    <3> DEFINE m == Max(F)
    <3>1. m \in F /\ \A y \in F : m >= y
      BY <1>2, <2>2, MaxOfEvents
    <3> HIDE DEF m
    <3>2. F \subseteq Below(m) \cup {m}
      BY <1>1, <1>2, <3>1
    <3>3. Cardinality(Below(m)) < PageSize
      BY <1>2, <3>1
    <3>4. m \notin Below(m)
      BY <1>1, <1>2, <3>1
    <3>5. IsFiniteSet(Below(m) \cup {m})
          /\ Cardinality(Below(m) \cup {m}) = Cardinality(Below(m)) + 1
      BY <1>3, <3>4, FS_AddElement
    <3>6. Cardinality(F) <= Cardinality(Below(m) \cup {m})
      BY <3>2, <3>5, FS_Subset
    <3>7. QED
      BY <1>1, <1>3, <1>4, <3>3, <3>5, <3>6
  <2>3. QED
    BY <2>1, <2>2
<1>7. ASSUME Cardinality(F) < PageSize PROVE F = S
  <2> SUFFICES ASSUME S \ F # {} PROVE FALSE
    BY <1>2
  <2>1. PICK x \in S \ F : \A y \in S \ F : x <= y
    BY <1>1, LeastElement
  <2>2. ASSUME NEW y \in Below(x) PROVE y \in F
    <3>1. y \in S /\ y < x /\ y \in Nat /\ x \in Nat
      BY <1>1, <2>1
    <3>2. y \in S \ F => x <= y
      BY <2>1
    <3>3. QED
      BY <3>1, <3>2
  <2>3. Cardinality(Below(x)) <= Cardinality(F)
    BY <1>4, <2>2, Below(x) \subseteq F, FS_Subset
  <2>4. x \in F
    BY <1>1, <1>2, <1>3, <1>4, <1>7, <2>1, <2>3
  <2>5. QED
    BY <2>1, <2>4
<1>8. QED
  BY <1>2, <1>4, <1>5, <1>6, <1>7 DEF F
-----------------------------------------------------------------------------
(* The inductive invariant.  What a process holds is described relative to *)
(* the events stored, the streams that have a checkpoint and the ledgers   *)
(* Stellar Expert has processed, all of which only grow.                   *)

Contracts == {"pool", "allowlist"}
Pcs == {"down", "waiting", "top", "handoff", "sync", "fetch", "seedTip", "seedFetch",
        "seedNext", "seeded", "write", "upsert"}
Jobs == [stream : Streams, batch : SUBSET Events,
         checkpoint : [cursor : Nat, latest : Nat],
         then : {"top", "fetch", "seedFetch", "seedNext", "seeded"}]
Locals == [pc : Pcs, mode : {"none", "run", "seed"}, oldest : Nat, start : Nat,
           tip : Nat, contract : {"none"} \cup Contracts, job : {"none"} \cup Jobs]

\* The events a stream's cursor speaks of.
Scope(s) ==
    IF s = SeedStream("pool") THEN Emitted("pool")
    ELSE IF s = SeedStream("allowlist") THEN Emitted("allowlist")
    ELSE Events \ Failed

Covered(S, cursor, held) == \A e \in S : e <= cursor => e \in held

\* The seed is at a contract: those before it are complete up to the tip.
Seeding(x, held, seen) ==
    /\ x.contract \in Contracts
    /\ x.tip <= seen
    /\ x.contract = "allowlist" => Covered(Emitted("pool"), end_of_ledger(x.tip), held)

\* The checkpoint to be written is honest once the batch is stored with it.
JobOK(x, held, seen) ==
    LET job == x.job
        cursor == job.checkpoint.cursor
    IN  /\ job \in Jobs
        /\ Covered(Scope(job.stream), cursor, held \cup job.batch)
        /\ job.stream = RPC_STREAM => job.then \in {"top", "fetch"} /\ x.start = cursor
        /\ job.stream = SEED_STREAM =>
              job.then = "seeded" /\ cursor = end_of_ledger(job.checkpoint.latest)
        /\ job.stream \notin {RPC_STREAM, SEED_STREAM} =>
              /\ Seeding(x, held, seen)
              /\ job.stream = SeedStream(x.contract)
              /\ job.then \in {"seedFetch", "seedNext"}
              /\ x.start = cursor
              /\ job.then = "seedNext" =>
                    Covered(Emitted(x.contract), end_of_ledger(x.tip), held \cup job.batch)

LocalOK(x, held, streams, seen) ==
    /\ x.pc = "sync" => RPC_STREAM \in streams \/ Covered(Events \ Failed, x.start, held)
    /\ x.pc = "fetch" => Covered(Events \ Failed, x.start, held)
    /\ x.pc = "seedFetch" =>
          Seeding(x, held, seen) /\ Covered(Emitted(x.contract), x.start, held)
    /\ x.pc = "seedNext" =>
          Seeding(x, held, seen) /\ Covered(Emitted(x.contract), end_of_ledger(x.tip), held)
    /\ x.pc \in {"write", "upsert"} => JobOK(x, held, seen)

ProcsOK ==
    /\ proc \in [Procs -> Locals]
    /\ \A p \in Procs : LocalOK(proc[p], stored, DOMAIN checkpoints, expertLedger)

CheckpointsOK ==
    /\ DOMAIN checkpoints \subseteq Streams
    /\ checkpoints = [s \in DOMAIN checkpoints |-> checkpoints[s]]
    /\ \A s \in DOMAIN checkpoints :
          /\ checkpoints[s] \in [cursor : Nat, latest : Nat]
          /\ Covered(Scope(s), checkpoints[s].cursor, stored)
    /\ SEED_STREAM \in DOMAIN checkpoints =>
          checkpoints[SEED_STREAM].cursor = end_of_ledger(checkpoints[SEED_STREAM].latest)

IndInv ==
    /\ closed \in Nat /\ expertLedger \in Nat
    /\ CheckpointsOK
    /\ ProcsOK

\* What holds of a process's local state survives whatever others do.
LEMMA LocalStable ==
    ASSUME NEW x \in Locals, NEW held, NEW held2, held \subseteq held2,
           NEW streams, NEW streams2, streams \subseteq streams2,
           NEW seen \in Nat, NEW seen2 \in Nat, seen <= seen2,
           LocalOK(x, held, streams, seen)
    PROVE  LocalOK(x, held2, streams2, seen2)
<1>1. \A S, c : Covered(S, c, held) => Covered(S, c, held2)
  BY DEF Covered
<1>2. \A S, c, b : Covered(S, c, held \cup b) => Covered(S, c, held2 \cup b)
  BY DEF Covered
<1>3. x.tip \in Nat
  BY DEF Locals
<1>4. Seeding(x, held, seen) => Seeding(x, held2, seen2)
  BY <1>1, <1>3 DEF Seeding
<1>5. JobOK(x, held, seen) => JobOK(x, held2, seen2)
  BY <1>2, <1>4 DEF JobOK
<1>6. QED
  BY <1>1, <1>4, <1>5 DEF LocalOK

\* A step in which at most one process changes its local state.
LEMMA OneMoves ==
    ASSUME IndInv, NEW p \in Procs, NEW x \in Locals,
           proc' = [proc EXCEPT ![p] = x],
           stored \subseteq stored', DOMAIN checkpoints \subseteq DOMAIN checkpoints',
           expertLedger' \in Nat, expertLedger <= expertLedger',
           LocalOK(x, stored', (DOMAIN checkpoints)', expertLedger')
    PROVE  ProcsOK'
<1>1. proc \in [Procs -> Locals] /\ expertLedger \in Nat
  BY DEF IndInv, ProcsOK
<1>2. proc' \in [Procs -> Locals]
  BY <1>1
<1>3. ASSUME NEW q \in Procs
      PROVE  LocalOK(proc'[q], stored', (DOMAIN checkpoints)', expertLedger')
  <2>1. CASE q = p
    BY <1>1, <2>1
  <2>2. CASE q # p
    <3>1. proc'[q] = proc[q] /\ proc[q] \in Locals
      BY <1>1, <2>2
    <3>2. LocalOK(proc[q], stored, DOMAIN checkpoints, expertLedger)
      BY DEF IndInv, ProcsOK
    <3>3. QED
      BY <1>1, <3>1, <3>2, LocalStable
  <2>3. QED
    BY <2>1, <2>2
<1>4. QED
  BY <1>2, <1>3 DEF ProcsOK
-----------------------------------------------------------------------------
(* What a page adds *)

\* A page of getEvents holds every event up to the cursor it comes with.
LEMMA RpcPageCovers ==
    ASSUME closed \in Nat, NEW start \in Nat, NEW held,
           Covered(Events \ Failed, start, held)
    PROVE  /\ RpcPage(start).cursor \in Nat
           /\ RpcPage(start).events \in SUBSET Events
           /\ RpcPage(start).latest = closed
           /\ Covered(Events \ Failed, RpcPage(start).cursor,
                      held \cup RpcPage(start).events)
<1> DEFINE end == Smaller(ledger(start + 1) + ScanLedgers - 1, closed)
           S == {e \in Events : e > start /\ ledger(e) <= end}
           page == FirstOf(S, PageSize)
           cursor == IF Cardinality(page) = PageSize THEN Max(page) ELSE end_of_ledger(end)
<1>1. /\ RpcPage(start).cursor = cursor
      /\ RpcPage(start).events = page \ Failed
      /\ RpcPage(start).latest = closed
  BY DEF RpcPage
<1>2. end \in Nat
  <2>1. ledger(start + 1) \in Nat /\ ScanLedgers \in Nat \ {0}
    BY IndexerAssumption, LedgerBounds, start + 1 \in Nat
  <2>2. QED
    BY <2>1 DEF Smaller
<1>3. S \in SUBSET Events /\ Events \subseteq Nat
  BY EventsFinite
<1>4. \A e \in Events : e \in S <=> e > start /\ ledger(e) <= end
  OBVIOUS
<1> HIDE DEF S, end
<1>5. /\ page \subseteq S
      /\ \A x \in page, y \in S : y <= x => y \in page
      /\ IsFiniteSet(page) /\ Cardinality(page) \in Nat
      /\ Cardinality(page) <= PageSize
      /\ Cardinality(page) < PageSize => page = S
  BY <1>3, FirstEvents
<1>6. PageSize \in Nat \ {0}
  BY IndexerAssumption
<1> HIDE DEF page
<1>7. CASE Cardinality(page) = PageSize
  <2>1. page # {}
    BY <1>6, <1>7, FS_EmptySet
  <2>2. Max(page) \in page
    BY <1>3, <1>5, <2>1, MaxOfEvents
  <2>3. cursor = Max(page) /\ cursor \in Nat
    BY <1>3, <1>5, <1>7, <2>2
  <2>4. ASSUME NEW e \in Events \ Failed, e <= cursor
        PROVE  e \in held \cup (page \ Failed)
    <3>1. CASE e <= start
      BY <3>1 DEF Covered
    <3>2. CASE ~ (e <= start)
      <4>0. e \in Nat /\ Max(page) \in Events
        BY <1>3, <1>5, <2>2
      <4>1. e \in Nat /\ Max(page) \in Events /\ e > start
        BY <3>2, <4>0
      <4>2. ledger(Max(page)) <= end
        BY <1>4, <1>5, <2>2, <4>1
      <4>3. Max(page) <= end_of_ledger(end)
        BY <1>2, <1>3, <4>1, <4>2, LedgerBounds
      <4>4. end_of_ledger(end) \in Nat
        BY <1>2, <4>1, LedgerBounds
      <4>5. e <= end_of_ledger(end)
        BY <1>3, <2>3, <2>4, <4>1, <4>3, <4>4
      <4>6. ledger(e) <= end
        BY <1>2, <4>1, <4>5, LedgerBounds
      <4>7. e \in S
        BY <1>4, <4>1, <4>6
      <4>8. QED
        BY <1>5, <2>2, <2>3, <2>4, <4>7
    <3>3. QED
      BY <3>1, <3>2
  <2>5. QED
    BY <1>1, <1>3, <1>5, <2>3, <2>4 DEF Covered
<1>8. CASE Cardinality(page) # PageSize
  <2>1. page = S /\ cursor = end_of_ledger(end)
    BY <1>5, <1>6, <1>8
  <2>2. cursor \in Nat
    BY <1>2, <2>1, LedgerBounds, 0 \in Nat
  <2>3. ASSUME NEW e \in Events \ Failed, e <= cursor
        PROVE  e \in held \cup (page \ Failed)
    <3>1. CASE e <= start
      BY <3>1 DEF Covered
    <3>2. CASE ~ (e <= start)
      <4>0. e \in Nat
        BY <1>3
      <4>1. e \in Nat /\ e > start
        BY <3>2, <4>0
      <4>2. ledger(e) <= end
        BY <1>2, <2>1, <2>3, <4>1, LedgerBounds
      <4>3. QED
        BY <1>4, <2>1, <4>1, <4>2
    <3>3. QED
      BY <3>1, <3>2
  <2>4. QED
    BY <1>1, <1>3, <1>5, <2>2, <2>3 DEF Covered
<1>9. QED
  BY <1>7, <1>8

\* A page of Stellar Expert holds every event of its contract up to its last, and
\* a page that is not full everything up to any ledger processed by then.
LEMMA ExpertPageCovers ==
    ASSUME expertLedger \in Nat, NEW c \in Contracts, NEW start \in Nat, NEW held,
           Covered(Emitted(c), start, held),
           NEW batch, batch = ExpertPage(c, start)
    PROVE  /\ batch \in SUBSET Events
           /\ batch # {} => Max(batch) \in Nat /\ Covered(Emitted(c), Max(batch), held \cup batch)
           /\ (batch = {} \/ Cardinality(batch) < PageSize) =>
                 \A tip \in Nat : tip <= expertLedger =>
                    Covered(Emitted(c), end_of_ledger(tip), held \cup batch)
           /\ Cardinality(batch) >= PageSize \/ Cardinality(batch) < PageSize
<1> DEFINE S == {e \in Emitted(c) : e > start /\ ledger(e) <= expertLedger}
<1>1. S \in SUBSET Events /\ Events \subseteq Nat /\ Emitted(c) \subseteq Events
  BY EventsFinite, IndexerAssumption DEF Emitted
<1>2. \A e \in Emitted(c) : e \in S <=> e > start /\ ledger(e) <= expertLedger
  OBVIOUS
<1>3. batch = FirstOf(S, PageSize)
  BY DEF ExpertPage
<1> HIDE DEF S
<1>4. /\ batch \subseteq S
      /\ \A x \in batch, y \in S : y <= x => y \in batch
      /\ Cardinality(batch) \in Nat
      /\ Cardinality(batch) < PageSize => batch = S
  BY <1>1, <1>3, FirstEvents
<1>5. PageSize \in Nat \ {0}
  BY IndexerAssumption
<1>6. ASSUME batch # {}
      PROVE  Max(batch) \in Nat /\ Covered(Emitted(c), Max(batch), held \cup batch)
  <2>1. Max(batch) \in batch /\ Max(batch) \in S
    BY <1>1, <1>4, <1>6, MaxOfEvents
  <2>2. Max(batch) \in Nat /\ Max(batch) \in Emitted(c)
    BY <1>1, <2>1 DEF S
  <2>3. ASSUME NEW e \in Emitted(c), e <= Max(batch) PROVE e \in held \cup batch
    <3>1. CASE e <= start
      BY <3>1 DEF Covered
    <3>2. CASE ~ (e <= start)
      <4>0. e \in Nat
        BY <1>1
      <4>1. e \in Nat /\ e > start
        BY <3>2, <4>0
      <4>2. ledger(Max(batch)) <= expertLedger
        BY <1>2, <2>1, <2>2
      <4>3. Max(batch) <= end_of_ledger(expertLedger)
        BY <2>2, <4>2, LedgerBounds
      <4>4. end_of_ledger(expertLedger) \in Nat
        BY <4>1, LedgerBounds
      <4>5. ledger(e) <= expertLedger
        BY <2>2, <2>3, <4>1, <4>3, <4>4, LedgerBounds, e <= end_of_ledger(expertLedger)
      <4>6. QED
        BY <1>2, <1>4, <2>1, <2>3, <4>1, <4>5
    <3>3. QED
      BY <3>1, <3>2
  <2>4. QED
    BY <2>2, <2>3 DEF Covered
<1>7. ASSUME batch = {} \/ Cardinality(batch) < PageSize,
             NEW tip \in Nat, tip <= expertLedger
      PROVE  Covered(Emitted(c), end_of_ledger(tip), held \cup batch)
  <2>1. batch = S
    BY <1>4, <1>5, <1>7, FS_EmptySet
  <2>2. ASSUME NEW e \in Emitted(c), e <= end_of_ledger(tip) PROVE e \in held \cup batch
    <3>1. CASE e <= start
      BY <3>1 DEF Covered
    <3>2. CASE ~ (e <= start)
      <4>0. e \in Nat
        BY <1>1
      <4>1. e \in Nat /\ e > start
        BY <3>2, <4>0
      <4>2. ledger(e) \in Nat /\ ledger(e) <= tip
        BY <2>2, <4>1, LedgerBounds
      <4>3. QED
        BY <1>2, <1>7, <2>1, <4>1, <4>2
    <3>3. QED
      BY <3>1, <3>2
  <2>3. QED
    BY <2>2 DEF Covered
<1>8. batch \in SUBSET Events
  BY <1>1, <1>4
<1>9. Cardinality(batch) >= PageSize \/ Cardinality(batch) < PageSize
  BY <1>4, <1>5
<1>10. QED
  BY <1>6, <1>7, <1>8, <1>9
-----------------------------------------------------------------------------
(* Steps *)

\* A process whose counter is at none of the awaits of LocalOK owes nothing.
LEMMA IdleOK ==
    ASSUME NEW x, NEW held, NEW streams, NEW seen,
           x.pc \notin {"sync", "fetch", "seedFetch", "seedNext", "write", "upsert"}
    PROVE  LocalOK(x, held, streams, seen)
  BY DEF LocalOK

\* A step that writes nothing to the database.
LEMMA QuietStep ==
    ASSUME IndInv, UNCHANGED <<env, db>>, NEW p \in Procs, NEW x \in Locals,
           proc' = [proc EXCEPT ![p] = x],
           LocalOK(x, stored, DOMAIN checkpoints, expertLedger)
    PROVE  IndInv'
<1>1. closed' = closed /\ expertLedger' = expertLedger /\ stored' = stored
      /\ checkpoints' = checkpoints
  BY DEF env, db
<1>2. expertLedger \in Nat
  BY DEF IndInv
<1>3. ProcsOK'
  <2>1. /\ stored \subseteq stored' /\ DOMAIN checkpoints \subseteq DOMAIN checkpoints'
        /\ expertLedger' \in Nat /\ expertLedger <= expertLedger'
    BY <1>1, <1>2
  <2>2. LocalOK(x, stored', (DOMAIN checkpoints)', expertLedger')
    BY <1>1
  <2>3. QED
    BY <2>1, <2>2, OneMoves
<1>4. CheckpointsOK'
  <2>1. CheckpointsOK
    BY DEF IndInv
  <2>2. /\ (DOMAIN checkpoints)' = DOMAIN checkpoints
        /\ \A s : checkpoints'[s] = checkpoints[s]
    BY <1>1
  <2>3. QED
    BY <1>1, <2>1, <2>2 DEF CheckpointsOK
<1>5. QED
  BY <1>1, <1>3, <1>4 DEF IndInv

\* The states a failed cycle, a failed command and a crash leave behind.
LEMMA FailedLocals ==
    ASSUME IndInv, NEW p \in Procs
    PROVE  /\ Down \in Locals /\ Down.pc = "down"
           /\ Retry(p) \in Locals /\ Retry(p).pc = "top"
           /\ Fails(p) \in Locals /\ Fails(p).pc \in {"down", "top"}
<1>1. proc[p] \in Locals
  BY DEF IndInv, ProcsOK
<1>2. Down \in Locals /\ Down.pc = "down"
  BY DEF Down, Locals, Pcs
<1>3. proc[p].mode \in {"none", "run", "seed"}
  BY <1>1 DEF Locals
<1>4. Retry(p) \in Locals /\ Retry(p).pc = "top"
  BY <1>2, <1>3 DEF Retry, Locals, Pcs
<1>5. QED
  BY <1>2, <1>4 DEF Fails

LEMMA LaunchStep ==
    ASSUME IndInv, NEW p \in Procs,
           LaunchRun(p) \/ LaunchSeed(p) \/ acquire_writer_lock(p)
    PROVE  IndInv'
<1>1. proc[p] \in Locals
  BY DEF IndInv, ProcsOK
<1>2. Down \in Locals
  BY FailedLocals
<1>3. UNCHANGED <<env, db>>
  BY DEF LaunchRun, LaunchSeed, acquire_writer_lock
<1>4. CASE LaunchRun(p)
  <2> DEFINE x == [Down EXCEPT !.pc = "waiting", !.mode = "run"]
  <2>1. x \in Locals /\ x.pc = "waiting"
    BY <1>2 DEF Locals, Pcs
  <2>2. proc' = [proc EXCEPT ![p] = x]
    BY <1>4 DEF LaunchRun, Step
  <2> HIDE DEF x
  <2>3. QED
    BY <1>3, <2>1, <2>2, IdleOK, QuietStep
<1>5. CASE LaunchSeed(p)
  <2> DEFINE x == [Down EXCEPT !.pc = "seedTip", !.mode = "seed"]
  <2>1. x \in Locals /\ x.pc = "seedTip"
    BY <1>2 DEF Locals, Pcs
  <2>2. proc' = [proc EXCEPT ![p] = x]
    BY <1>5 DEF LaunchSeed, Step
  <2> HIDE DEF x
  <2>3. QED
    BY <1>3, <2>1, <2>2, IdleOK, QuietStep
<1>6. CASE acquire_writer_lock(p)
  <2>1. Goto(p, "top") \in Locals /\ Goto(p, "top").pc = "top"
    BY <1>1 DEF Goto, Locals, Pcs
  <2>2. proc' = [proc EXCEPT ![p] = Goto(p, "top")]
    BY <1>6 DEF acquire_writer_lock, Step
  <2>3. QED
    BY <1>3, <2>1, <2>2, IdleOK, QuietStep
<1>7. QED
  BY <1>4, <1>5, <1>6

LEMMA TopStep ==
    ASSUME IndInv, NEW p \in Procs, still_held(p)
    PROVE  IndInv'
<1>1. proc[p] \in Locals
  BY DEF IndInv, ProcsOK
<1>2. oldest_ledger \in Nat
  BY IndexerAssumption DEF IndInv, oldest_ledger, Larger
<1> DEFINE x == IF p \in lock THEN [Goto(p, "handoff") EXCEPT !.oldest = oldest_ledger]
                ELSE Down
<1>3. x \in Locals /\ x.pc \in {"handoff", "down"}
  BY <1>1, <1>2, FailedLocals DEF Goto, Locals, Pcs
<1>4. proc' = [proc EXCEPT ![p] = x] /\ UNCHANGED <<env, db>>
  BY DEF still_held, Step
<1> HIDE DEF x
<1>5. QED
  BY <1>3, <1>4, IdleOK, QuietStep

\* Where RPC starts after a seed, the seed has left nothing missing.
LEMMA HandoffStep ==
    ASSUME IndInv, NEW p \in Procs, Handoff(p)
    PROVE  IndInv'
<1>1. proc[p] \in Locals /\ proc[p].oldest \in Nat
  BY DEF IndInv, ProcsOK, Locals
<1> DEFINE answer == rpc_start(proc[p].oldest)
           x == CASE answer.result = "start" ->
                       [Goto(p, "sync") EXCEPT !.start = start_of_ledger(answer.ledger)]
                  [] answer.result = "resume" -> Goto(p, "sync")
                  [] answer.result = "NotSeeded" /\ SeedIfEmpty -> Goto(p, "seedTip")
                  [] OTHER -> Retry(p)
<1>2. proc' = [proc EXCEPT ![p] = x] /\ UNCHANGED <<env, db>>
  BY DEF Handoff, Step
<1>3. answer.result \in {"start", "resume", "NotSeeded", "Gap"}
  BY DEF rpc_start
<1>4. answer.result = "resume" => RPC_STREAM \in DOMAIN checkpoints
  BY DEF rpc_start
<1>5. ASSUME answer.result = "start"
      PROVE  /\ answer.ledger \in Nat
             /\ Covered(Events \ Failed, start_of_ledger(answer.ledger), stored)
  <2> DEFINE c == checkpoints[SEED_STREAM]
  <2>1. /\ SEED_STREAM \in DOMAIN checkpoints
        /\ ~ (c.latest + 1 < proc[p].oldest)
        /\ answer.ledger = Larger(Larger(0, c.latest - Overlap), proc[p].oldest)
    BY <1>5 DEF rpc_start
  <2>2. c.latest \in Nat /\ c.cursor = end_of_ledger(c.latest)
        /\ Covered(Events \ Failed, c.cursor, stored)
    BY <2>1 DEF IndInv, CheckpointsOK, Scope, SEED_STREAM, SeedStream
  <2>3. answer.ledger \in Nat /\ answer.ledger <= c.latest + 1
    BY <1>1, <2>1, <2>2, IndexerAssumption DEF Larger
  <2>4. ASSUME NEW e \in Events \ Failed, e <= start_of_ledger(answer.ledger)
        PROVE  e \in stored
    <3>1. e \in Nat /\ ledger(e) \in Nat
      BY EventPositions, LedgerBounds
    <3>2. ledger(e) + 1 <= answer.ledger
      BY <2>3, <2>4, EventsInside
    <3>3. ledger(e) <= c.latest
      BY <2>2, <2>3, <3>1, <3>2
    <3>4. e <= end_of_ledger(c.latest)
      BY <2>2, <3>1, <3>3, LedgerBounds
    <3>5. QED
      BY <2>2, <3>4 DEF Covered
  <2>5. QED
    BY <2>3, <2>4 DEF Covered
<1> HIDE DEF answer
<1>6. CASE answer.result = "start"
  <2>1. start_of_ledger(answer.ledger) \in Nat
    BY <1>5, <1>6, LedgerBounds
  <2> DEFINE y == [Goto(p, "sync") EXCEPT !.start = start_of_ledger(answer.ledger)]
  <2>2. y \in Locals /\ y.pc = "sync" /\ y.start = start_of_ledger(answer.ledger)
    BY <1>1, <2>1 DEF Goto, Locals, Pcs
  <2>3. x = y
    BY <1>6
  <2> HIDE DEF x, y
  <2>4. LocalOK(y, stored, DOMAIN checkpoints, expertLedger)
    BY <1>5, <1>6, <2>2 DEF LocalOK
  <2>5. QED
    BY <1>2, <2>2, <2>3, <2>4, QuietStep
<1>7. CASE answer.result = "resume"
  <2>1. Goto(p, "sync") \in Locals /\ Goto(p, "sync").pc = "sync"
    BY <1>1 DEF Goto, Locals, Pcs
  <2>2. x = Goto(p, "sync")
    BY <1>7
  <2> HIDE DEF x
  <2>3. LocalOK(Goto(p, "sync"), stored, DOMAIN checkpoints, expertLedger)
    BY <1>4, <1>7, <2>1 DEF LocalOK
  <2>4. QED
    BY <1>2, <2>1, <2>2, <2>3, QuietStep
<1>8. CASE answer.result \in {"NotSeeded", "Gap"}
  <2>1. x \in {Goto(p, "seedTip"), Retry(p)}
    BY <1>8
  <2>2. Goto(p, "seedTip") \in Locals /\ Goto(p, "seedTip").pc = "seedTip"
    BY <1>1 DEF Goto, Locals, Pcs
  <2>3. x \in Locals /\ x.pc \in {"seedTip", "top"}
    BY <2>1, <2>2, FailedLocals
  <2> HIDE DEF x
  <2>4. QED
    BY <1>2, <2>3, IdleOK, QuietStep
<1>9. QED
  BY <1>3, <1>6, <1>7, <1>8

LEMMA SyncStep ==
    ASSUME IndInv, NEW p \in Procs, SyncStart(p)
    PROVE  IndInv'
<1>1. proc[p] \in Locals
      /\ LocalOK(proc[p], stored, DOMAIN checkpoints, expertLedger) /\ proc[p].pc = "sync"
  BY DEF IndInv, ProcsOK, SyncStart, Step
<1> DEFINE x == IF RPC_STREAM \in DOMAIN checkpoints
                THEN [Goto(p, "fetch") EXCEPT !.start = checkpoints[RPC_STREAM].cursor]
                ELSE Goto(p, "fetch")
<1>2. proc' = [proc EXCEPT ![p] = x] /\ UNCHANGED <<env, db>>
  BY DEF SyncStart, Step
<1>3. RPC_STREAM \in DOMAIN checkpoints =>
         checkpoints[RPC_STREAM].cursor \in Nat
         /\ Covered(Events \ Failed, checkpoints[RPC_STREAM].cursor, stored)
  BY DEF IndInv, CheckpointsOK, Scope, RPC_STREAM, SeedStream
<1>4. x \in Locals /\ x.pc = "fetch" /\ Covered(Events \ Failed, x.start, stored)
  BY <1>1, <1>3 DEF Goto, Locals, Pcs, LocalOK
<1> HIDE DEF x
<1>5. LocalOK(x, stored, DOMAIN checkpoints, expertLedger)
  BY <1>4 DEF LocalOK
<1>6. QED
  BY <1>2, <1>4, <1>5, QuietStep

LEMMA FetchStep ==
    ASSUME IndInv, NEW p \in Procs, FetchPage(p)
    PROVE  IndInv'
<1> DEFINE page == RpcPage(proc[p].start)
           unchanged == page.cursor = proc[p].start
           then == IF page.atTip \/ unchanged THEN "top" ELSE "fetch"
           job == Job(RPC_STREAM, page.events, page.cursor, page.latest, then)
           y == [Goto(p, "write") EXCEPT !.start = page.cursor, !.job = job]
           x == IF ~ RpcServes(proc[p].start) THEN Retry(p)
                ELSE IF unchanged /\ page.events = {} THEN Retry(p) ELSE y
<1>1. proc[p] \in Locals /\ proc[p].start \in Nat
      /\ LocalOK(proc[p], stored, DOMAIN checkpoints, expertLedger) /\ proc[p].pc = "fetch"
  BY DEF IndInv, ProcsOK, FetchPage, Step, Locals
<1>2. proc' = [proc EXCEPT ![p] = x] /\ UNCHANGED <<env, db>>
  BY DEF FetchPage, Step
<1>3. Covered(Events \ Failed, proc[p].start, stored) /\ closed \in Nat
  BY <1>1 DEF LocalOK, IndInv
<1>4. /\ page.cursor \in Nat /\ page.events \in SUBSET Events /\ page.latest \in Nat
      /\ Covered(Events \ Failed, page.cursor, stored \cup page.events)
  BY <1>1, <1>3, RpcPageCovers
<1>5. then \in {"top", "fetch"}
  OBVIOUS
<1> HIDE DEF page, then
<1>6. /\ job \in Jobs
      /\ job.stream = RPC_STREAM /\ job.batch = page.events /\ job.then = then
      /\ job.checkpoint.cursor = page.cursor
  BY <1>4, <1>5 DEF Job, Jobs, Streams
<1> HIDE DEF job
<1>7. y \in Locals /\ y.pc = "write" /\ y.start = page.cursor /\ y.job = job
  BY <1>1, <1>4, <1>6 DEF Goto, Locals, Pcs
<1> HIDE DEF y
<1>8. Scope(RPC_STREAM) = Events \ Failed /\ RPC_STREAM # SEED_STREAM
  BY DEF Scope, RPC_STREAM, SEED_STREAM, SeedStream
<1>9. JobOK(y, stored, expertLedger)
  BY <1>4, <1>5, <1>6, <1>7, <1>8 DEF JobOK
<1>10. LocalOK(y, stored, DOMAIN checkpoints, expertLedger)
  BY <1>7, <1>9 DEF LocalOK
<1>11. x \in {y, Retry(p)}
  OBVIOUS
<1> HIDE DEF x
<1>12. x \in Locals /\ LocalOK(x, stored, DOMAIN checkpoints, expertLedger)
  BY <1>7, <1>10, <1>11, FailedLocals, IdleOK
<1>13. QED
  BY <1>2, <1>12, QuietStep

\* Where the seed of a contract resumes, nothing before is missing.
LEMMA ResumeCovers ==
    ASSUME IndInv, NEW c \in Contracts
    PROVE  /\ Resume(SeedStream(c)) \in Nat
           /\ Covered(Emitted(c), Resume(SeedStream(c)), stored)
<1>1. Scope(SeedStream(c)) = Emitted(c)
  BY DEF Scope, SeedStream, Contracts
<1>2. CASE SeedStream(c) \in DOMAIN checkpoints
  BY <1>1, <1>2 DEF IndInv, CheckpointsOK, Resume
<1>3. CASE SeedStream(c) \notin DOMAIN checkpoints
  <2>1. ASSUME NEW e \in Events PROVE ~ (e <= 0)
    <3>1. PICK l \in 1 .. MaxLedger : l * Width < e
      BY EventPositions
    <3>2. l * Width \in Nat /\ e \in Nat
      BY EventPositions, IndexerAssumption
    <3>3. QED
      BY <3>1, <3>2
  <2>2. Emitted(c) \subseteq Events
    BY IndexerAssumption DEF Emitted
  <2>3. QED
    BY <1>3, <2>1, <2>2 DEF Resume, Covered
<1>4. QED
  BY <1>2, <1>3

LEMMA SeedTipStep ==
    ASSUME IndInv, NEW p \in Procs, SeedTip(p)
    PROVE  IndInv'
<1> DEFINE x == [Goto(p, "seedFetch") EXCEPT !.tip = expertLedger, !.contract = "pool",
                   !.start = Resume(SeedStream("pool"))]
<1>1. proc[p] \in Locals /\ expertLedger \in Nat /\ "pool" \in Contracts
  BY DEF IndInv, ProcsOK, Contracts
<1>2. proc' = [proc EXCEPT ![p] = x] /\ UNCHANGED <<env, db>>
  BY DEF SeedTip, Step
<1>3. Resume(SeedStream("pool")) \in Nat
      /\ Covered(Emitted("pool"), Resume(SeedStream("pool")), stored)
  BY <1>1, ResumeCovers
<1>4. /\ x \in Locals /\ x.pc = "seedFetch" /\ x.tip = expertLedger
      /\ x.contract = "pool" /\ x.start = Resume(SeedStream("pool"))
  BY <1>1, <1>3 DEF Goto, Locals, Pcs
<1> HIDE DEF x
<1>5. LocalOK(x, stored, DOMAIN checkpoints, expertLedger)
  BY <1>1, <1>3, <1>4 DEF LocalOK, Seeding
<1>6. QED
  BY <1>2, <1>4, <1>5, QuietStep

LEMMA SeedFetchStep ==
    ASSUME IndInv, NEW p \in Procs, SeedFetch(p)
    PROVE  IndInv'
<1> DEFINE c == proc[p].contract
           batch == ExpertPage(c, proc[p].start)
           then == IF Cardinality(batch) >= PageSize THEN "seedFetch" ELSE "seedNext"
           job == Job(SeedStream(c), batch, Max(batch), proc[p].tip, then)
           y == [Goto(p, "write") EXCEPT !.start = Max(batch), !.job = job]
           x == IF batch = {} THEN Goto(p, "seedNext") ELSE y
<1>1. /\ proc[p] \in Locals /\ proc[p].start \in Nat /\ proc[p].tip \in Nat
      /\ LocalOK(proc[p], stored, DOMAIN checkpoints, expertLedger)
      /\ proc[p].pc = "seedFetch" /\ expertLedger \in Nat
  BY DEF IndInv, ProcsOK, SeedFetch, Step, Locals
<1>2. proc' = [proc EXCEPT ![p] = x] /\ UNCHANGED <<env, db>>
  BY DEF SeedFetch, Step
<1>3. Seeding(proc[p], stored, expertLedger) /\ Covered(Emitted(c), proc[p].start, stored)
  BY <1>1 DEF LocalOK
<1>4. c \in Contracts /\ proc[p].tip <= expertLedger
      /\ (c = "allowlist" => Covered(Emitted("pool"), end_of_ledger(proc[p].tip), stored))
  BY <1>3 DEF Seeding
<1> HIDE DEF c
<1>5. /\ batch \in SUBSET Events
      /\ batch # {} => Max(batch) \in Nat /\ Covered(Emitted(c), Max(batch), stored \cup batch)
      /\ (batch = {} \/ Cardinality(batch) < PageSize) =>
            Covered(Emitted(c), end_of_ledger(proc[p].tip), stored \cup batch)
      /\ Cardinality(batch) >= PageSize \/ Cardinality(batch) < PageSize
  BY <1>1, <1>3, <1>4, ExpertPageCovers
<1>6. then \in {"seedFetch", "seedNext"} /\ (then = "seedNext" => Cardinality(batch) < PageSize)
  BY <1>5
<1> HIDE DEF batch, then
<1>7. CASE batch = {}
  <2> DEFINE z == Goto(p, "seedNext")
  <2>1. z \in Locals /\ z.pc = "seedNext" /\ z.tip = proc[p].tip /\ z.contract = c
    BY <1>1 DEF Goto, Locals, Pcs, c
  <2>2. x = z
    BY <1>7
  <2> HIDE DEF x, z
  <2>3. stored \cup batch = stored
    BY <1>7
  <2>4. LocalOK(z, stored, DOMAIN checkpoints, expertLedger)
    BY <1>4, <1>5, <1>7, <2>1, <2>3 DEF LocalOK, Seeding
  <2>5. QED
    BY <1>2, <2>1, <2>2, <2>4, QuietStep
<1>8. CASE batch # {}
  <2>1. SeedStream(c) \in Streams /\ SeedStream(c) \notin {RPC_STREAM, SEED_STREAM}
        /\ Scope(SeedStream(c)) = Emitted(c)
    BY <1>4 DEF SeedStream, Streams, Contracts, RPC_STREAM, SEED_STREAM, Scope
  <2>2. /\ job \in Jobs
        /\ job.stream = SeedStream(c) /\ job.batch = batch /\ job.then = then
        /\ job.checkpoint.cursor = Max(batch)
    BY <1>1, <1>5, <1>6, <1>8, <2>1 DEF Job, Jobs
  <2> HIDE DEF job
  <2>3. /\ y \in Locals /\ y.pc = "write" /\ y.start = Max(batch) /\ y.job = job
        /\ y.tip = proc[p].tip /\ y.contract = c
    BY <1>1, <1>5, <1>8, <2>2 DEF Goto, Locals, Pcs, c
  <2>4. x = y
    BY <1>8
  <2> HIDE DEF x, y
  <2>5. Seeding(y, stored, expertLedger)
    BY <1>4, <2>3 DEF Seeding
  <2>6. JobOK(y, stored, expertLedger)
    BY <1>5, <1>6, <1>8, <2>1, <2>2, <2>3, <2>5 DEF JobOK
  <2>7. LocalOK(y, stored, DOMAIN checkpoints, expertLedger)
    BY <2>3, <2>6 DEF LocalOK
  <2>8. QED
    BY <1>2, <2>3, <2>4, <2>7, QuietStep
<1>9. QED
  BY <1>7, <1>8

\* When both contracts are complete up to the tip, so are all events.
LEMMA SeedNextStep ==
    ASSUME IndInv, NEW p \in Procs, SeedNext(p)
    PROVE  IndInv'
<1> DEFINE tip == proc[p].tip
           y == [Goto(p, "seedFetch") EXCEPT !.contract = "allowlist",
                    !.start = Resume(SeedStream("allowlist"))]
           job == Job(SEED_STREAM, {}, end_of_ledger(tip), tip, "seeded")
           z == [Goto(p, "write") EXCEPT !.job = job]
           x == IF proc[p].contract = "pool" THEN y ELSE z
<1>1. /\ proc[p] \in Locals /\ tip \in Nat
      /\ LocalOK(proc[p], stored, DOMAIN checkpoints, expertLedger)
      /\ proc[p].pc = "seedNext" /\ expertLedger \in Nat
  BY DEF IndInv, ProcsOK, SeedNext, Step, Locals
<1>2. proc' = [proc EXCEPT ![p] = x] /\ UNCHANGED <<env, db>>
  BY DEF SeedNext, Step
<1>3. Seeding(proc[p], stored, expertLedger)
      /\ Covered(Emitted(proc[p].contract), end_of_ledger(tip), stored)
  BY <1>1 DEF LocalOK
<1>4. proc[p].contract \in {"pool", "allowlist"} /\ tip <= expertLedger
  BY <1>3 DEF Seeding, Contracts
<1>5. CASE proc[p].contract = "pool"
  <2>1. /\ "allowlist" \in Contracts /\ Resume(SeedStream("allowlist")) \in Nat
        /\ Covered(Emitted("allowlist"), Resume(SeedStream("allowlist")), stored)
    BY ResumeCovers DEF Contracts
  <2>2. /\ y \in Locals /\ y.pc = "seedFetch" /\ y.tip = tip
        /\ y.contract = "allowlist" /\ y.start = Resume(SeedStream("allowlist"))
    BY <1>1, <2>1 DEF Goto, Locals, Pcs
  <2>3. x = y
    BY <1>5
  <2> HIDE DEF x, y
  <2>4. Seeding(y, stored, expertLedger)
    BY <1>3, <1>4, <1>5, <2>1, <2>2 DEF Seeding
  <2>5. LocalOK(y, stored, DOMAIN checkpoints, expertLedger)
    BY <2>1, <2>2, <2>4 DEF LocalOK
  <2>6. QED
    BY <1>2, <2>2, <2>3, <2>5, QuietStep
<1>6. CASE proc[p].contract = "allowlist"
  <2>1. Covered(Emitted("pool"), end_of_ledger(tip), stored)
        /\ Covered(Emitted("allowlist"), end_of_ledger(tip), stored)
    BY <1>3, <1>6 DEF Seeding
  <2>2. Covered(Events \ Failed, end_of_ledger(tip), stored)
    BY <2>1 DEF Covered, Emitted
  <2>3. end_of_ledger(tip) \in Nat
    BY <1>1, LedgerBounds
  <2>4. /\ job \in Jobs /\ job.stream = SEED_STREAM /\ job.batch = {}
        /\ job.then = "seeded" /\ job.checkpoint.cursor = end_of_ledger(tip)
        /\ job.checkpoint.latest = tip
    BY <1>1, <2>3 DEF Job, Jobs, Streams
  <2> HIDE DEF job
  <2>5. z \in Locals /\ z.pc = "write" /\ z.job = job
    BY <1>1, <2>4 DEF Goto, Locals, Pcs
  <2>6. x = z
    BY <1>6
  <2> HIDE DEF x, z
  <2>7. Scope(SEED_STREAM) = Events \ Failed /\ SEED_STREAM # RPC_STREAM
    BY DEF Scope, SEED_STREAM, RPC_STREAM, SeedStream
  <2>8. Covered(Events \ Failed, end_of_ledger(tip), stored \cup {})
    BY <2>2, stored \cup {} = stored
  <2>9. JobOK(z, stored, expertLedger)
    BY <2>4, <2>5, <2>7, <2>8 DEF JobOK
  <2>10. LocalOK(z, stored, DOMAIN checkpoints, expertLedger)
    BY <2>5, <2>9 DEF LocalOK
  <2>11. QED
    BY <1>2, <2>5, <2>6, <2>10, QuietStep
<1>7. QED
  BY <1>4, <1>5, <1>6

LEMMA SeededStep ==
    ASSUME IndInv, NEW p \in Procs, Seeded(p)
    PROVE  IndInv'
<1> DEFINE x == IF proc[p].mode = "run"
                THEN [Retry(p) EXCEPT !.pc = "handoff", !.oldest = proc[p].oldest]
                ELSE Down
<1>1. proc[p] \in Locals
  BY DEF IndInv, ProcsOK
<1>2. proc' = [proc EXCEPT ![p] = x] /\ UNCHANGED <<env, db>>
  BY DEF Seeded, Step
<1>3. x \in Locals /\ x.pc \in {"handoff", "down"}
  BY <1>1, FailedLocals DEF Locals, Pcs
<1> HIDE DEF x
<1>4. QED
  BY <1>2, <1>3, IdleOK, QuietStep

\* A transaction that commits: the checkpoint is honest with the batch it comes
\* with, whether it moves the cursor on or, unlocked, back.
LEMMA CommitStep ==
    ASSUME IndInv, NEW p \in Procs, proc[p].pc \in {"write", "upsert"}, Commit(p)
    PROVE  IndInv'
<1> DEFINE job == proc[p].job
           x == IF job.then = "top" THEN Retry(p)
                ELSE [Goto(p, job.then) EXCEPT !.job = "none"]
<1>1. /\ proc[p] \in Locals /\ closed \in Nat /\ expertLedger \in Nat
      /\ JobOK(proc[p], stored, expertLedger)
  BY DEF IndInv, ProcsOK, LocalOK
<1>2. /\ stored' = stored \cup job.batch
      /\ checkpoints' = [s \in DOMAIN checkpoints \cup {job.stream} |->
                            IF s = job.stream THEN job.checkpoint ELSE checkpoints[s]]
      /\ proc' = [proc EXCEPT ![p] = x]
      /\ closed' = closed /\ expertLedger' = expertLedger
  BY DEF Commit, env
<1>3. /\ job \in Jobs /\ job.stream \in Streams
      /\ job.checkpoint \in [cursor : Nat, latest : Nat]
      /\ job.then \in {"top", "fetch", "seedFetch", "seedNext", "seeded"}
  BY <1>1 DEF JobOK, Jobs
<1>4. Covered(Scope(job.stream), job.checkpoint.cursor, stored')
  BY <1>1, <1>2 DEF JobOK
<1>5. CheckpointsOK'
  <2>1. CheckpointsOK
    BY DEF IndInv
  <2>2. (DOMAIN checkpoints)' = DOMAIN checkpoints \cup {job.stream}
    BY <1>2
  <2>3. /\ checkpoints'[job.stream] = job.checkpoint
        /\ \A s \in DOMAIN checkpoints : s # job.stream => checkpoints'[s] = checkpoints[s]
    BY <1>2
  <2>4. checkpoints' = [s \in DOMAIN checkpoints' |-> checkpoints'[s]]
    BY <1>2
  <2>5. \A S, c : Covered(S, c, stored) => Covered(S, c, stored')
    BY <1>2 DEF Covered
  <2>6. job.stream = SEED_STREAM =>
           job.checkpoint.cursor = end_of_ledger(job.checkpoint.latest)
    BY <1>1 DEF JobOK
  <2>7. ASSUME NEW s \in DOMAIN checkpoints'
        PROVE  /\ checkpoints'[s] \in [cursor : Nat, latest : Nat]
               /\ Covered(Scope(s), checkpoints'[s].cursor, stored')
    <3>1. CASE s = job.stream
      BY <1>3, <1>4, <2>3, <3>1
    <3>2. CASE s # job.stream
      <4>1. s \in DOMAIN checkpoints /\ checkpoints'[s] = checkpoints[s]
        BY <2>2, <2>3, <3>2
      <4>2. /\ checkpoints[s] \in [cursor : Nat, latest : Nat]
            /\ Covered(Scope(s), checkpoints[s].cursor, stored)
        BY <2>1, <4>1 DEF CheckpointsOK
      <4>3. QED
        BY <2>5, <4>1, <4>2
    <3>3. QED
      BY <3>1, <3>2
  <2>8. ASSUME SEED_STREAM \in DOMAIN checkpoints'
        PROVE  checkpoints'[SEED_STREAM].cursor = end_of_ledger(checkpoints'[SEED_STREAM].latest)
    BY <2>1, <2>2, <2>3, <2>6, <2>8 DEF CheckpointsOK
  <2>9. (DOMAIN checkpoints)' \subseteq Streams
    BY <1>3, <2>1, <2>2 DEF CheckpointsOK
  <2>10. QED
    BY <2>4, <2>7, <2>8, <2>9 DEF CheckpointsOK
<1>6. LocalOK(x, stored', (DOMAIN checkpoints)', expertLedger') /\ x \in Locals
  <2>1. CASE job.then = "top"
    <3>1. x = Retry(p)
      BY <2>1
    <3>2. QED
      BY <3>1, FailedLocals, IdleOK
  <2>2. CASE job.then # "top"
    <3>1. /\ x \in Locals /\ x.pc = job.then /\ x.start = proc[p].start
          /\ x.tip = proc[p].tip /\ x.contract = proc[p].contract
      BY <1>1, <1>3, <2>2 DEF Goto, Locals, Pcs
    <3> HIDE DEF x
    <3>2. CASE job.stream = RPC_STREAM
      <4>1. x.pc = "fetch" /\ x.start = job.checkpoint.cursor
        BY <1>1, <2>2, <3>1, <3>2 DEF JobOK
      <4>2. Scope(RPC_STREAM) = Events \ Failed
        BY DEF Scope, RPC_STREAM, SeedStream
      <4>3. QED
        BY <1>4, <3>1, <3>2, <4>1, <4>2 DEF LocalOK
    <3>3. CASE job.stream = SEED_STREAM
      <4>1. x.pc = "seeded"
        BY <1>1, <3>1, <3>3 DEF JobOK
      <4>2. QED
        BY <3>1, <4>1, IdleOK
    <3>4. CASE job.stream \notin {RPC_STREAM, SEED_STREAM}
      <4>1. /\ Seeding(proc[p], stored, expertLedger)
            /\ job.stream = SeedStream(x.contract)
            /\ x.pc \in {"seedFetch", "seedNext"}
            /\ x.start = job.checkpoint.cursor
            /\ x.pc = "seedNext" =>
                  Covered(Emitted(x.contract), end_of_ledger(x.tip), stored')
        BY <1>1, <1>2, <3>1, <3>4 DEF JobOK
      <4>2. x.contract \in Contracts
        BY <3>1, <4>1 DEF Seeding
      <4>3. Scope(job.stream) = Emitted(x.contract)
        BY <4>1, <4>2 DEF Scope, SeedStream, Contracts
      <4>4. Seeding(x, stored', expertLedger')
        BY <1>2, <3>1, <4>1 DEF Seeding, Covered
      <4>5. QED
        BY <1>4, <3>1, <4>1, <4>3, <4>4 DEF LocalOK
    <3>5. QED
      BY <3>2, <3>3, <3>4
  <2>3. QED
    BY <2>1, <2>2
<1>7. ProcsOK'
  <2> HIDE DEF x
  <2>1. stored \subseteq stored' /\ DOMAIN checkpoints \subseteq DOMAIN checkpoints'
    BY <1>2
  <2>2. expertLedger' \in Nat /\ expertLedger <= expertLedger'
    BY <1>1, <1>2
  <2>3. QED
    BY <1>2, <1>6, <2>1, <2>2, OneMoves
<1>8. QED
  BY <1>1, <1>2, <1>5, <1>7 DEF IndInv

LEMMA WriteStep ==
    ASSUME IndInv, NEW p \in Procs, WriteLocked(p) \/ WriteUnlocked(p) \/ Upsert(p)
    PROVE  IndInv'
<1>1. CASE WriteLocked(p)
  <2>1. CASE CheckpointRegression(proc[p].job)
    <3>1. proc' = [proc EXCEPT ![p] = Fails(p)] /\ UNCHANGED <<env, db>>
      BY <1>1, <2>1 DEF WriteLocked, Step
    <3>2. QED
      BY <3>1, FailedLocals, IdleOK, QuietStep
  <2>2. CASE ~ CheckpointRegression(proc[p].job)
    BY <1>1, <2>2, CommitStep DEF WriteLocked
  <2>3. QED
    BY <2>1, <2>2
<1>2. CASE WriteUnlocked(p)
  <2> DEFINE x == Goto(p, "upsert")
  <2>1. /\ proc[p] \in Locals /\ proc[p].pc = "write" /\ JobOK(proc[p], stored, expertLedger)
    BY <1>2 DEF IndInv, ProcsOK, LocalOK, WriteUnlocked
  <2>2. /\ x \in Locals /\ x.pc = "upsert" /\ x.job = proc[p].job /\ x.start = proc[p].start
        /\ x.tip = proc[p].tip /\ x.contract = proc[p].contract
    BY <2>1 DEF Goto, Locals, Pcs
  <2>3. proc' = [proc EXCEPT ![p] = x] /\ UNCHANGED <<env, db>>
    BY <1>2 DEF WriteUnlocked, Step
  <2> HIDE DEF x
  <2>4. JobOK(x, stored, expertLedger)
    BY <2>1, <2>2 DEF JobOK, Seeding
  <2>5. LocalOK(x, stored, DOMAIN checkpoints, expertLedger)
    BY <2>2, <2>4 DEF LocalOK
  <2>6. QED
    BY <2>2, <2>3, <2>5, QuietStep
<1>3. CASE Upsert(p)
  BY <1>3, CommitStep DEF Upsert
<1>4. QED
  BY <1>1, <1>2, <1>3

LEMMA FaultStep ==
    ASSUME IndInv, NEW p \in Procs, Crash(p) \/ LoseLock(p) \/ CycleFails(p)
    PROVE  IndInv'
<1>1. CASE Crash(p)
  <2>1. proc' = [proc EXCEPT ![p] = Down] /\ UNCHANGED <<env, db>>
    BY <1>1 DEF Crash
  <2>2. QED
    BY <2>1, FailedLocals, IdleOK, QuietStep
<1>2. CASE LoseLock(p)
  <2>1. proc[p] \in Locals /\ proc \in [Procs -> Locals]
        /\ LocalOK(proc[p], stored, DOMAIN checkpoints, expertLedger)
    BY DEF IndInv, ProcsOK
  <2>2. proc' = [proc EXCEPT ![p] = proc[p]] /\ UNCHANGED <<env, db>>
    BY <1>2, <2>1 DEF LoseLock
  <2>3. QED
    BY <2>1, <2>2, QuietStep
<1>3. CASE CycleFails(p)
  <2>1. proc' = [proc EXCEPT ![p] = Fails(p)] /\ UNCHANGED <<env, db>>
    BY <1>3 DEF CycleFails
  <2>2. QED
    BY <2>1, FailedLocals, IdleOK, QuietStep
<1>4. QED
  BY <1>1, <1>2, <1>3

\* The chain and Stellar Expert move on, or nothing does.
LEMMA WorldStep ==
    ASSUME IndInv, CloseLedger \/ ExpertIngests \/ UNCHANGED vars
    PROVE  IndInv'
<1>1. closed \in Nat /\ expertLedger \in Nat /\ CheckpointsOK /\ ProcsOK
  BY DEF IndInv
<1>2. stored' = stored /\ checkpoints' = checkpoints /\ proc' = proc
  BY DEF CloseLedger, ExpertIngests, vars, db
<1>3. closed' \in Nat /\ expertLedger' \in Nat /\ expertLedger <= expertLedger'
  BY <1>1 DEF CloseLedger, ExpertIngests, vars, env
<1>4. CheckpointsOK'
  BY <1>1, <1>2 DEF CheckpointsOK
<1>5. ASSUME NEW q \in Procs
      PROVE  LocalOK(proc[q], stored, DOMAIN checkpoints, expertLedger')
  <2>1. proc[q] \in Locals /\ LocalOK(proc[q], stored, DOMAIN checkpoints, expertLedger)
    BY <1>1 DEF ProcsOK
  <2>2. QED
    BY <1>1, <1>3, <2>1, LocalStable
<1>6. ProcsOK'
  BY <1>1, <1>2, <1>5 DEF ProcsOK
<1>7. QED
  BY <1>3, <1>4, <1>6 DEF IndInv
-----------------------------------------------------------------------------
(* Theorems *)

THEOREM Inductive == Spec => []IndInv
<1>1. Init => IndInv
  <2> SUFFICES ASSUME Init PROVE IndInv
    OBVIOUS
  <2>1. closed \in Nat /\ expertLedger \in Nat
    BY DEF Init
  <2>2. DOMAIN checkpoints = {} /\ checkpoints = [s \in DOMAIN checkpoints |-> checkpoints[s]]
    BY DEF Init
  <2>3. CheckpointsOK
    BY <2>2 DEF CheckpointsOK
  <2>4. Down \in Locals /\ Down.pc = "down"
    BY DEF Down, Locals, Pcs
  <2>5. proc \in [Procs -> Locals] /\ \A p \in Procs : proc[p].pc = "down"
    BY <2>4 DEF Init
  <2>6. ProcsOK
    BY <2>5, IdleOK DEF ProcsOK
  <2>7. QED
    BY <2>1, <2>3, <2>6 DEF IndInv
<1>2. IndInv /\ [Next]_vars => IndInv'
  <2> SUFFICES ASSUME IndInv, [Next]_vars PROVE IndInv'
    OBVIOUS
  <2>1. CASE CloseLedger \/ ExpertIngests \/ UNCHANGED vars
    BY <2>1, WorldStep
  <2>2. ASSUME NEW p \in Procs, Work(p) PROVE IndInv'
    BY <2>2, LaunchStep, TopStep, HandoffStep, SyncStep, FetchStep, SeedTipStep,
       SeedFetchStep, SeedNextStep, SeededStep, WriteStep DEF Work
  <2>3. ASSUME NEW p \in Procs, Crash(p) \/ LoseLock(p) \/ CycleFails(p) PROVE IndInv'
    BY <2>3, FaultStep
  <2>4. QED
    BY <2>1, <2>2, <2>3 DEF Next
<1>3. QED
  BY <1>1, <1>2, PTL DEF Spec

\* No checkpoint claims more than the database holds: all events up to its cursor
\* are stored, for any number of processes, faults, events and pages
\* (write_batch, seed, sync_to_tip).
THEOREM CheckpointsAreHonest == Spec => []CheckpointsHonest
<1>1. IndInv => CheckpointsHonest
  BY DEF IndInv, CheckpointsOK, CheckpointsHonest, Covered, CompleteTo, Scope
<1>2. QED
  BY <1>1, Inductive, PTL

\* Nothing emitted up to the ledger that verify compares at and the API answers
\* for is missing from the index (indexed_ledger in verify.rs and queries.rs).
THEOREM IndexedLedgerIsComplete == Spec => []IndexedLedgerComplete
<1>1. IndInv => IndexedLedgerComplete
  <2> SUFFICES ASSUME IndInv, NEW e \in Events \ Failed, ledger(e) <= indexed_ledger
               PROVE  e \in stored
    BY DEF IndexedLedgerComplete
  <2>1. e \in Nat /\ ledger(e) \in Nat /\ ledger(e) >= 1
    BY EventPositions, EventsInside, LedgerBounds, 0 \in Nat
  <2>2. RPC_STREAM \in DOMAIN checkpoints
    BY <2>1 DEF indexed_ledger
  <2> DEFINE c == checkpoints[RPC_STREAM].cursor
  <2>3. c \in Nat /\ Covered(Events \ Failed, c, stored)
    BY <2>2 DEF IndInv, CheckpointsOK, Scope, RPC_STREAM, SeedStream
  <2>4. ledger(c) \in Nat
    BY <2>3, LedgerBounds, 0 \in Nat
  <2>5. e <= c
    <3>1. CASE c = end_of_ledger(ledger(c))
      <4>1. ledger(e) <= ledger(c)
        BY <2>2, <3>1 DEF indexed_ledger
      <4>2. QED
        BY <2>1, <2>4, <3>1, <4>1, LedgerBounds
    <3>2. CASE c # end_of_ledger(ledger(c))
      <4>1. ledger(e) <= Larger(0, ledger(c) - 1)
        BY <2>2, <3>2 DEF indexed_ledger
      <4>2. ledger(e) + 1 <= ledger(c)
        BY <2>1, <2>4, <4>1 DEF Larger
      <4>3. ~ (ledger(c) <= ledger(e))
        BY <2>1, <2>4, <4>2
      <4>4. end_of_ledger(ledger(e)) \in Nat /\ ~ (c <= end_of_ledger(ledger(e)))
        BY <2>1, <2>3, <4>3, LedgerBounds
      <4>5. e <= end_of_ledger(ledger(e))
        BY <2>1, LedgerBounds
      <4>6. QED
        BY <2>1, <2>3, <4>4, <4>5
    <3>3. QED
      BY <3>1, <3>2
  <2>6. QED
    BY <2>3, <2>5 DEF Covered
<1>2. QED
  BY <1>1, Inductive, PTL
=============================================================================
