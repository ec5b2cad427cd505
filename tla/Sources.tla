------------------------------ MODULE Sources ------------------------------
(***************************************************************************)
(* The two HTTP clients of the indexer (rpc.rs, expert.rs) and the readers *)
(* that store what they return (ingest.rs, seed.rs), against sources that  *)
(* may answer anything: a request may fail or time out, and a page may     *)
(* repeat, skip back, come from another contract or hold events that never *)
(* took effect.  One reader runs at a time, and may be killed at any step. *)
(*                                                                         *)
(* A position is a number, so that ids of either format parse to the same  *)
(* one; what is wrong with a record is the set of its flaws.               *)
(***************************************************************************)
EXTENDS Integers, Sequences

CONSTANTS
    MaxPosition, LedgerSize,  \* positions 1 .. MaxPosition, LedgerSize to a ledger
    page_size, MAX_PAGE_SIZE,
    attempts, first_delay, max_delay,      \* struct Retry
    ShiftBits, MaxDuration,   \* u32's bits in checked_shl; the largest Duration
    Flaws                     \* the combinations of flaws a record may have

Positions == 1 .. MaxPosition
None == 0
Readers == {"rpc", "expert"}

\* Doubling reaches the cap before the shift saturates: 500 ms * (2^32 - 1) > 30 s.
SourcesAssumption ==
    /\ attempts \in Nat \ {0} /\ first_delay \in Nat \ {0}
    /\ max_delay \in first_delay .. MaxDuration
    /\ first_delay * (2 ^ ShiftBits - 1) >= max_delay
    /\ page_size \in Nat

VARIABLES
    pc,          \* "idle", "sending" a request, or "asleep" before a retry
    reader,      \* the client in use
    start,       \* the position to read after; None is Start::Ledger
    delays,      \* the sleeps of the call under way, one per failed attempt
    outcome,     \* how the last call ended
    checkpoint,  \* database: the cursor of each reader's stream, or None
    stored       \* database: the positions each reader wrote

callVars == <<pc, reader, start, delays, outcome>>
vars == <<callVars, checkpoint, stored>>

ledger(p) == (p + LedgerSize - 1) \div LedgerSize
-----------------------------------------------------------------------------
(* struct Retry and the retry loop *)

MulDuration(factor) ==
    IF first_delay * factor > MaxDuration THEN max_delay
    ELSE IF first_delay * factor < max_delay THEN first_delay * factor ELSE max_delay

delay(attempt) ==
    MulDuration(IF attempt < ShiftBits THEN 2 ^ attempt ELSE 2 ^ ShiftBits - 1)

Transient == {"transport", "busy"}     \* no answer in time; 5xx or 429
Refusals(r) ==
    IF r = "rpc" THEN {"status", "garbled", "rpc_error", "empty"}
    ELSE {"status", "garbled"}

Call(r, from) ==
    /\ reader' = r /\ start' = from /\ delays' = <<>>
    /\ pc' = "sending" /\ outcome' = "none"

Return(result) ==
    /\ pc' = "idle" /\ outcome' = result
    /\ UNCHANGED <<reader, start, delays>>

attempt == Len(delays) + 1

\* An attempt fails in a way a retry may mend.
Fail(kind) ==
    /\ pc = "sending"
    /\ IF attempt >= attempts THEN Return(kind)
       ELSE /\ pc' = "asleep" /\ delays' = Append(delays, delay(attempt - 1))
            /\ UNCHANGED <<reader, start, outcome>>
    /\ UNCHANGED <<checkpoint, stored>>

Wake ==
    /\ pc = "asleep" /\ pc' = "sending"
    /\ UNCHANGED <<reader, start, delays, outcome, checkpoint, stored>>

\* Any other status, or a 2xx body with no usable result.
Refuse(kind) ==
    /\ pc = "sending" /\ kind \in Refusals(reader)
    /\ Return(kind)
    /\ UNCHANGED <<checkpoint, stored>>
-----------------------------------------------------------------------------
(* Pages *)

Records == [id : Positions, flaws : Flaws]
Pages == UNION {[1 .. n -> Records] : n \in 0 .. page_size}

IdsOf(records) == [i \in DOMAIN records |-> records[i].id]

\* into_page: events of failed calls are left out before anything is checked.
Effective(records) == SelectSeq(records, LAMBDA r : "failed" \notin r.flaws)

\* into_page, into_event, decode and Contracts::check: any other flaw, an id that
\* does not parse, another ledger than the id's, a contract not asked for, XDR
\* that does not decode, an event its contract does not emit, refuses the page.
Flawless(records) == \A i \in DOMAIN records : records[i].flaws \subseteq {"failed"}

\* Strictly ascending, from `after` when there is one.
InOrder(ids, after) ==
    \A i \in DOMAIN ids : ids[i] > IF i = 1 THEN after ELSE ids[i - 1]

LastOf(ids, after) == IF ids = <<>> THEN after ELSE ids[Len(ids)]

write_batch(r, ids, cursor) ==
    /\ checkpoint' = [checkpoint EXCEPT ![r] = cursor]
    /\ stored' = [stored EXCEPT ![r] = @ \cup {ids[i] : i \in DOMAIN ids}]

Reject(why) == Return(why) /\ UNCHANGED <<checkpoint, stored>>
-----------------------------------------------------------------------------
(* Follower::sync_to_tip *)

\* A bug: the cursor of a page is taken as it comes.
AnyCursor(ids, cursor) == TRUE

CursorHolds(ids, cursor) == LastOf(ids, start) <= cursor

\* A bug: only the tip ends the loop.
EndsAtTip(atTip, cursor) == atTip

Ends(atTip, cursor) == atTip \/ cursor = start

sync_page(records, cursor, latest) ==
    LET ids == IdsOf(Effective(records))
        full == Len(ids) >= page_size
        at_tip == ledger(cursor) >= latest /\ ~ full
        unchanged == cursor = start
    IN  IF ~ Flawless(Effective(records)) \/ ~ InOrder(ids, start)
                \/ ~ CursorHolds(ids, cursor) \/ cursor < checkpoint["rpc"]
        THEN Reject("rejected")
        ELSE /\ IF unchanged /\ ids = <<>> THEN UNCHANGED <<checkpoint, stored>>
                ELSE write_batch("rpc", ids, cursor)
             /\ IF Ends(at_tip, cursor) THEN Return("ok") ELSE Call("rpc", cursor)

SyncPage ==
    /\ pc = "sending" /\ reader = "rpc"
    /\ \E records \in Pages, cursor \in Positions, latest \in 1 .. ledger(MaxPosition) :
          sync_page(records, cursor, latest)

\* The loop of seed over one contract: the archive does not flag failed calls, the
\* cursor is the last record's id, and a page that is not full is the last.
seed_page(records) ==
    LET ids == IdsOf(records)
    IN  IF ~ Flawless(records) \/ ~ InOrder(ids, start)
                \/ LastOf(ids, start) < checkpoint["expert"]
        THEN Reject("rejected")
        ELSE /\ IF ids = <<>> THEN UNCHANGED <<checkpoint, stored>>
                ELSE write_batch("expert", ids, LastOf(ids, start))
             /\ IF Len(records) < page_size THEN Return("ok")
                ELSE Call("expert", LastOf(ids, start))

SeedPage ==
    /\ pc = "sending" /\ reader = "expert"
    /\ \E records \in Pages : seed_page(records)

\* The database refuses the page's transaction.
StoreFails == pc = "sending" /\ Reject("store")
-----------------------------------------------------------------------------
Init ==
    /\ pc = "idle" /\ reader = "rpc" /\ start = None
    /\ delays = <<>> /\ outcome = "none"
    /\ checkpoint = [r \in Readers |-> None] /\ stored = [r \in Readers |-> {}]

\* A page size the server would refuse is refused before a request.
Begin(r) ==
    /\ pc = "idle"
    /\ IF r = "rpc" /\ ~ page_size \in 1 .. MAX_PAGE_SIZE THEN Return("page_size")
       ELSE Call(r, checkpoint[r])
    /\ UNCHANGED <<checkpoint, stored>>

\* The process dies and is started again.
Crash ==
    /\ pc # "idle" /\ pc' = "idle" /\ outcome' = "none"
    /\ UNCHANGED <<reader, start, delays, checkpoint, stored>>

Step == Wake \/ SyncPage \/ SeedPage \/ StoreFails
          \/ (\E kind \in Transient : Fail(kind))
          \/ (\E kind \in Refusals("rpc") : Refuse(kind))

Next == Step \/ Crash \/ (\E r \in Readers : Begin(r))

\* A request ends within the client's timeout and a sleep when its time is over.
Spec == Init /\ [][Next]_vars /\ WF_vars(Step)
-----------------------------------------------------------------------------
\* Whatever a source answers, and wherever the reader dies, no stored event lies
\* beyond the cursor its stream resumes from: sync_to_tip and seed write a page
\* and the cursor after it together, and refuse a page that steps back.
StoredBehindCheckpoint ==
    \A r \in Readers : \A p \in stored[r] : p <= checkpoint[r]

\* The sleeps of a call double up to the cap, even past the width of the shift,
\* and a call gives up on a failure worth retrying only after every attempt
\* (Retry::delay and the loops of RpcClient::call and ExpertClient::get).
Doubled(i) ==
    LET d == first_delay * 2 ^ (i - 1) IN IF d < max_delay THEN d ELSE max_delay
BacksOff ==
    /\ \A i \in DOMAIN delays : delays[i] = Doubled(i)
    /\ Len(delays) < attempts
    /\ outcome \in Transient => Len(delays) = attempts - 1

\* Reading always comes to an end: a page moves the cursor, ends the loop, or is
\* refused, and a call that fails stops retrying.
ReadingEnds == (pc # "idle") ~> (pc = "idle")
=============================================================================
