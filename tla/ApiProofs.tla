----------------------------- MODULE ApiProofs -----------------------------
(***************************************************************************)
(* What the database holds, for any chain, page size and overlap, and      *)
(* whichever of its events Stellar Expert altered, left out or listed      *)
(* twice.                                                                  *)
(***************************************************************************)
EXTENDS Api, MerkleProofs

DbFields == {"raw", "rows", "checkpoints", "verified"}
Streams == DOMAIN db.checkpoints

\* What is known of a source's positions.
Bounded(s) ==
    DOMAIN s \subseteq Nat /\ \E b \in Nat : \A p \in DOMAIN s : p <= b

\* The inductive invariant: the store is sound, RPC starts only once the seed is
\* complete, and the seed is over by then.
StoreInv ==
    /\ tip \in Nat /\ seedTip \in Nat
    /\ Bounded(listing)
    /\ DOMAIN db = DbFields
    /\ \A c \in Streams : db.checkpoints[c].cursor \in Nat /\ db.checkpoints[c].latest \in Nat
    /\ seeding # "idle" => SEED_STREAM \notin Streams
    /\ RPC_STREAM \in Streams => SEED_STREAM \in Streams
    /\ TypedFollowRaw
    /\ StreamsAgree
-----------------------------------------------------------------------------
(* Pages *)

LEMMA Ledgers ==
    ASSUME NEW p \in Nat, NEW l \in Nat
    PROVE  /\ LedgerOf(p) \in Nat /\ EndOf(l) \in Nat
           /\ p <= EndOf(l) <=> LedgerOf(p) <= l
<1>1. Width \in Nat \ {0}
  BY StoreAssumption
<1>2. /\ p \div Width \in Nat /\ l * Width + Width - 1 \in Nat
      /\ p <= l * Width + Width - 1 <=> p \div Width <= l
  BY <1>1, BlockOf
<1>3. QED
  BY <1>2, Zenon DEF LedgerOf, EndOf

LEMMA ChainBounded == Bounded(Chain)
<1> DEFINE b == (MaxLedger + 1) * Width - 1
<1>1. b \in Nat /\ DOMAIN Chain \subseteq Nat /\ \A p \in DOMAIN Chain : p <= b
  <2>1. Width \in Nat /\ Width > 2 /\ MaxLedger \in Nat /\ DOMAIN Chain \subseteq Width .. b
    BY StoreAssumption
  <2>2. (MaxLedger + 1) * Width = MaxLedger * Width + Width /\ MaxLedger * Width \in Nat
    BY <2>1
  <2>3. QED
    BY <2>1, <2>2
<1> HIDE DEF b
<1>2. QED
  BY <1>1, Zenon DEF Bounded

\* Every listing is bounded, an event listed twice included.
LEMMA ListingBounded ==
    ASSUME listing \in Listings
    PROVE  Bounded(listing)
<1>1. PICK f \in Faults : listing \in Domain(f)
  BY DEF Listings
<1>2. PICK b \in Nat : \A p \in DOMAIN Chain : p <= b
  BY ChainBounded DEF Bounded
<1>3. DOMAIN Chain \subseteq Nat
  BY ChainBounded DEF Bounded
<1>4. ASSUME NEW x \in Nat, x <= b + 1, DOMAIN listing \subseteq DOMAIN Chain \cup {x}
      PROVE  Bounded(listing)
  <2>1. \A q \in DOMAIN listing : q \in Nat /\ q <= b + 1
    BY <1>2, <1>3, <1>4
  <2>2. b + 1 \in Nat
    OBVIOUS
  <2>3. QED
    BY <2>1, <2>2, Zenon DEF Bounded
<1>5. 0 \in Nat /\ 0 <= b + 1
  OBVIOUS
<1>6. ASSUME DOMAIN listing \subseteq DOMAIN Chain
      PROVE  Bounded(listing)
  BY <1>4, <1>5, <1>6
<1>7. CASE f = "none"
  <2>1. listing = Chain
    BY <1>1, <1>7 DEF Domain
  <2>2. QED
    BY <2>1, ChainBounded
<1>8. CASE f = "altered"
  <2>1. PICK p \in DOMAIN Chain : listing = [Chain EXCEPT ![p] = Altered(Chain[p])]
    BY <1>1, <1>8 DEF Domain
  <2>2. DOMAIN listing = DOMAIN Chain
    BY <2>1, Zenon
  <2>3. QED
    BY <1>6, <2>2, Zenon
<1>9. CASE f = "missing"
  <2>1. PICK p \in DOMAIN Chain : listing = [q \in DOMAIN Chain \ {p} |-> Chain[q]]
    BY <1>1, <1>9 DEF Domain
  <2>2. DOMAIN listing \subseteq DOMAIN Chain
    BY <2>1, Zenon
  <2>3. QED
    BY <1>6, <2>2, Zenon
<1>10. CASE f = "twice"
  <2>1. PICK p \in DOMAIN Chain :
            listing = [q \in DOMAIN Chain \cup {p + 1} |-> Chain[IF q = p + 1 THEN p ELSE q]]
    BY <1>1, <1>10 DEF Domain
  <2>2. DOMAIN listing = DOMAIN Chain \cup {p + 1}
    BY <2>1, Zenon
  <2>3. p + 1 \in Nat /\ p + 1 <= b + 1
    BY <1>2, <1>3
  <2>4. QED
    BY <1>4, <2>2, <2>3, Zenon
<1>11. f \in {"none", "altered", "missing", "twice"}
  BY StoreAssumption
<1>12. QED
  BY <1>7, <1>8, <1>9, <1>10, <1>11

\* What a source lists between two positions, and the page read from one of them.
Given(s, from, to, contracts) ==
    {p \in DOMAIN s : from < p /\ p <= to /\ Emitter(s[p]) \in contracts}
NextBatch(s, from, contracts) == FirstOf(After(s, from, contracts), PageSize)

\* A page holds everything up to its last event, and one that is not full
\* everything up to the newest ledger.
LEMMA PageCovers ==
    ASSUME NEW s, Bounded(s), NEW from \in Nat, NEW contracts, tip \in Nat
    PROVE  LET batch == NextBatch(s, from, contracts) IN
           /\ Cardinality(batch) = PageSize => batch # {}
           /\ batch # {} => /\ Max(batch) \in Nat
                            /\ Given(s, from, Max(batch), contracts) \subseteq batch
           /\ Cardinality(batch) # PageSize =>
                Given(s, from, EndOf(tip), contracts) \subseteq batch
<1> DEFINE S == After(s, from, contracts)
           batch == NextBatch(s, from, contracts)
<1>1. PICK b \in Nat : \A p \in DOMAIN s : p <= b
  BY DEF Bounded
<1>2. DOMAIN s \subseteq Nat
  BY DEF Bounded
<1>3. /\ S \subseteq DOMAIN s
      /\ \A p \in DOMAIN s : p \in S <=>
            p > from /\ LedgerOf(p) <= tip /\ Emitter(s[p]) \in contracts
  BY DEF After
<1>4. batch = Lowest(S, PageSize)
  BY Zenon DEF NextBatch, FirstOf, Lowest
<1> HIDE DEF S, batch
<1>5. S \in SUBSET Nat /\ \A p \in S : p <= b
  BY <1>1, <1>2, <1>3
<1>6. PageSize \in Nat \ {0}
  BY StoreAssumption
<1>7. /\ batch \subseteq S
      /\ \A x \in batch, y \in S : y <= x => y \in batch
      /\ Cardinality(batch) \in Nat /\ Cardinality(batch) <= PageSize
      /\ Cardinality(batch) < PageSize => batch = S
  BY <1>4, <1>5, <1>6, FirstFew
<1>8. Cardinality(batch) = PageSize => batch # {}
  BY <1>6, FS_EmptySet
<1>9. ASSUME batch # {}
      PROVE  Max(batch) \in Nat /\ Given(s, from, Max(batch), contracts) \subseteq batch
  <2>1. batch \in SUBSET Nat /\ \A y \in batch : y <= b
    BY <1>5, <1>7
  <2>2. \E x \in batch : \A y \in batch : x >= y
    BY <1>9, <2>1, GreatestElement
  <2>3. Max(batch) \in batch
    BY <2>2, Zenon DEF Max
  <2> DEFINE m == Max(batch)
  <2>4. m \in Nat /\ m \in S /\ m \in DOMAIN s
    BY <1>3, <1>7, <2>1, <2>3
  <2> HIDE DEF m
  <2>5. m <= EndOf(tip) /\ EndOf(tip) \in Nat
    BY <1>3, <2>4, Ledgers
  <2>6. ASSUME NEW p \in Given(s, from, m, contracts) PROVE p \in batch
    <3>1. p \in DOMAIN s /\ p \in Nat /\ from < p /\ p <= m /\ Emitter(s[p]) \in contracts
      BY <1>2 DEF Given
    <3>2. LedgerOf(p) <= tip
      BY <2>4, <2>5, <3>1, Ledgers
    <3>3. p \in S
      BY <1>3, <3>1, <3>2
    <3>4. m \in batch
      BY <2>3, Zenon DEF m
    <3>5. QED
      BY <1>7, <3>1, <3>3, <3>4
  <2>7. QED
    BY <2>4, <2>6, Zenon DEF m
<1>10. ASSUME Cardinality(batch) # PageSize
       PROVE  Given(s, from, EndOf(tip), contracts) \subseteq batch
  <2>1. batch = S
    BY <1>6, <1>7, <1>10
  <2>2. ASSUME NEW p \in Given(s, from, EndOf(tip), contracts) PROVE p \in S
    <3>1. p \in DOMAIN s /\ p \in Nat /\ from < p /\ p <= EndOf(tip) /\ Emitter(s[p]) \in contracts
      BY <1>2 DEF Given
    <3>2. LedgerOf(p) <= tip
      BY <3>1, Ledgers
    <3>3. QED
      BY <1>3, <3>1, <3>2
  <2>3. QED
    BY <2>1, <2>2
<1>11. QED
  BY <1>8, <1>9, <1>10 DEF batch
-----------------------------------------------------------------------------
(* One transaction *)

\* That a database holds positions ps as s gives them.
Holds(d, s, ps) == \A p \in ps : p \in DOMAIN d.raw /\ d.raw[p] = s[p]

LEMMA ReadIsHolds ==
    ASSUME NEW s, NEW from, NEW to, NEW contracts
    PROVE  Read(s, from, to, contracts) <=> Holds(db, s, Given(s, from, to, contracts))
BY Zenon DEF Read, Holds, Given

\* A transaction keeps every event and adds its batch, and moves one checkpoint.
LEMMA WriteEffect ==
    ASSUME NEW stream, NEW s, NEW batch, NEW cursor, NEW latest,
           write_batch(stream, s, batch, cursor, latest)
    PROVE  /\ DOMAIN db' = DbFields
           /\ Holds(db', db.raw, DOMAIN db.raw)
           /\ Holds(db', s, batch)
           /\ DOMAIN db'.checkpoints = Streams \cup {stream}
           /\ db'.checkpoints[stream] = [cursor |-> cursor, latest |-> latest]
           /\ \A c \in Streams : c # stream => db'.checkpoints[c] = db.checkpoints[c]
<1> DEFINE new == batch \ DOMAIN db.raw
           rows == db.rows \cup UNION {insert_typed(p, s[p]) : p \in new}
           raw == [p \in DOMAIN db.raw \cup new |-> IF p \in new THEN s[p] ELSE db.raw[p]]
           moved == [c \in DOMAIN db.checkpoints \cup {stream} |->
                        IF c = stream THEN [cursor |-> cursor, latest |-> latest]
                        ELSE db.checkpoints[c]]
<1>1. db' = [raw |-> raw, rows |-> rows, checkpoints |-> moved, verified |-> db.verified]
  BY Zenon DEF write_batch
<1>2. \A p \in batch : insert_event(s, p)
  BY Zenon DEF write_batch
<1>3. DOMAIN raw = DOMAIN db.raw \cup batch
  OBVIOUS
<1>4. \A p \in DOMAIN db.raw : raw[p] = db.raw[p]
  OBVIOUS
<1>5. \A p \in batch : raw[p] = s[p]
  BY <1>2 DEF insert_event
<1>6. /\ DOMAIN moved = Streams \cup {stream}
      /\ moved[stream] = [cursor |-> cursor, latest |-> latest]
      /\ \A c \in Streams : c # stream => moved[c] = db.checkpoints[c]
  BY DEF Streams
<1> HIDE DEF raw, rows, moved
<1>7. db'.raw = raw /\ db'.checkpoints = moved /\ DOMAIN db' = DbFields
  BY <1>1 DEF DbFields
<1>8. Holds(db', db.raw, DOMAIN db.raw)
  BY <1>3, <1>4, <1>7, Zenon DEF Holds
<1>9. Holds(db', s, batch)
  BY <1>3, <1>5, <1>7, Zenon DEF Holds
<1>10. QED
  BY <1>6, <1>7, <1>8, <1>9, Zenon

\* The rows stay those of the events.
LEMMA WriteTyped ==
    ASSUME NEW stream, NEW s, NEW batch, NEW cursor, NEW latest,
           write_batch(stream, s, batch, cursor, latest), TypedFollowRaw
    PROVE  TypedFollowRaw'
<1> DEFINE new == batch \ DOMAIN db.raw
           rows == db.rows \cup UNION {insert_typed(p, s[p]) : p \in new}
           raw == [p \in DOMAIN db.raw \cup new |-> IF p \in new THEN s[p] ELSE db.raw[p]]
           moved == [c \in DOMAIN db.checkpoints \cup {stream} |->
                        IF c = stream THEN [cursor |-> cursor, latest |-> latest]
                        ELSE db.checkpoints[c]]
<1>1. db' = [raw |-> raw, rows |-> rows, checkpoints |-> moved, verified |-> db.verified]
  BY Zenon DEF write_batch
<1>2. /\ DOMAIN raw = DOMAIN db.raw \cup new
      /\ \A p \in new : raw[p] = s[p]
      /\ \A p \in DOMAIN db.raw : raw[p] = db.raw[p]
  OBVIOUS
<1>3. db.rows = UNION {insert_typed(p, db.raw[p]) : p \in DOMAIN db.raw}
  BY Zenon DEF TypedFollowRaw
<1>4. \A r : r \in rows <=> r \in db.rows \/ \E p \in new : r \in insert_typed(p, s[p])
  OBVIOUS
<1> HIDE DEF raw, rows, moved, new
<1>5. \A r : r \in db.rows <=> \E p \in DOMAIN db.raw : r \in insert_typed(p, db.raw[p])
  BY <1>3, Zenon
<1>6. ASSUME NEW r
      PROVE  r \in rows <=> \E p \in DOMAIN raw : r \in insert_typed(p, raw[p])
  <2>1. ASSUME r \in rows PROVE \E p \in DOMAIN raw : r \in insert_typed(p, raw[p])
    BY <1>2, <1>4, <1>5, <2>1, Zenon
  <2>2. ASSUME NEW p \in DOMAIN raw, r \in insert_typed(p, raw[p]) PROVE r \in rows
    BY <1>2, <1>4, <1>5, <2>2, Zenon
  <2>3. QED
    BY <2>1, <2>2, Zenon
<1>7. rows = UNION {insert_typed(p, raw[p]) : p \in DOMAIN raw}
  BY <1>6, Zenon
<1>8. db'.raw = raw /\ db'.rows = rows
  BY <1>1
<1>9. QED
  BY <1>7, <1>8, Zenon DEF TypedFollowRaw

\* A source read further: what was held is held, and what lies beyond was in the batch.
LEMMA ReadFurther ==
    ASSUME NEW s, NEW from \in Nat, NEW old \in Nat, NEW to \in Nat, NEW contracts, NEW batch,
           DOMAIN s \subseteq Nat,
           Holds(db, s, Given(s, from, old, contracts)),
           Holds(db', db.raw, DOMAIN db.raw),
           Holds(db', s, batch),
           Given(s, old, to, contracts) \subseteq batch
    PROVE  Holds(db', s, Given(s, from, to, contracts))
<1>1. ASSUME NEW p \in Given(s, from, to, contracts)
      PROVE  p \in Given(s, from, old, contracts) \/ p \in Given(s, old, to, contracts)
  BY <1>1 DEF Given
<1>2. ASSUME NEW p \in Given(s, from, old, contracts)
      PROVE  p \in DOMAIN db'.raw /\ db'.raw[p] = s[p]
  BY <1>2, Zenon DEF Holds
<1>3. ASSUME NEW p \in Given(s, old, to, contracts)
      PROVE  p \in DOMAIN db'.raw /\ db'.raw[p] = s[p]
  BY <1>3, Zenon DEF Holds
<1>4. QED
  BY <1>1, <1>2, <1>3, Zenon DEF Holds

LEMMA ReadStill ==
    ASSUME NEW s, NEW ps, Holds(db, s, ps), Holds(db', db.raw, DOMAIN db.raw)
    PROVE  Holds(db', s, ps)
BY Zenon DEF Holds

\* What each stream has passed, in the same words before and after a step.
LEMMA AgreeBefore ==
    ASSUME StreamsAgree
    PROVE  /\ \A c \in Contracts :
                Holds(db, listing, Given(listing, 0, checkpoint(SeedStream(c)), {c}))
           /\ RPC_STREAM \in Streams =>
                Holds(db, Chain, Given(Chain, RpcStart, checkpoint(RPC_STREAM), Contracts))
BY Zenon DEF StreamsAgree, Read, Holds, Given, Streams

LEMMA AgreeAfter ==
    ASSUME \A c \in Contracts :
              Holds(db', listing', Given(listing', 0, checkpoint(SeedStream(c))', {c})),
           RPC_STREAM \in Streams' =>
              Holds(db', Chain, Given(Chain, RpcStart', checkpoint(RPC_STREAM)', Contracts))
    PROVE  StreamsAgree'
BY Zenon DEF StreamsAgree, Read, Holds, Given, Streams

LEMMA Names ==
    /\ RPC_STREAM # SEED_STREAM
    /\ \A c \in Contracts : SeedStream(c) # RPC_STREAM /\ SeedStream(c) # SEED_STREAM
    /\ \A c, d \in Contracts : SeedStream(c) = SeedStream(d) => c = d
    /\ \A c \in Contracts : c # "idle"
BY DEF RPC_STREAM, SEED_STREAM, SeedStream, Contracts

LEMMA Cursors ==
    ASSUME StoreInv, NEW stream
    PROVE  /\ checkpoint(stream) \in Nat
           /\ SEED_STREAM \in Streams => RpcStart \in Nat
<1>1. checkpoint(stream) \in Nat
  BY DEF StoreInv, checkpoint, Streams
<1>2. ASSUME SEED_STREAM \in Streams PROVE RpcStart \in Nat
  <2> DEFINE done == db.checkpoints[SEED_STREAM].latest
             before == (IF done > Overlap THEN done - Overlap ELSE 1) - 1
  <2>1. done \in Nat
    BY <1>2 DEF StoreInv
  <2>2. Overlap \in Nat
    BY StoreAssumption
  <2>3. RpcStart = EndOf(before)
    BY Zenon DEF RpcStart
  <2> HIDE DEF done
  <2>4. before \in Nat
    BY <2>1, <2>2
  <2> HIDE DEF before
  <2>5. QED
    BY <2>3, <2>4, Ledgers
<1>3. QED
  BY <1>1, <1>2

\* A checkpoint that a transaction does not move, and the one it moves.
LEMMA CheckpointsAfter ==
    ASSUME NEW stream, NEW s, NEW batch, NEW cursor, NEW latest,
           write_batch(stream, s, batch, cursor, latest)
    PROVE  /\ checkpoint(stream)' = cursor
           /\ \A c : c # stream => checkpoint(c)' = checkpoint(c)
           /\ SEED_STREAM \in Streams /\ SEED_STREAM # stream => RpcStart' = RpcStart
<1>1. /\ DOMAIN db'.checkpoints = DOMAIN db.checkpoints \cup {stream}
      /\ db'.checkpoints[stream] = [cursor |-> cursor, latest |-> latest]
      /\ \A c \in DOMAIN db.checkpoints : c # stream => db'.checkpoints[c] = db.checkpoints[c]
  BY WriteEffect DEF Streams
<1>2. checkpoint(stream)' = cursor
  BY <1>1 DEF checkpoint
<1>3. ASSUME NEW c, c # stream PROVE checkpoint(c)' = checkpoint(c)
  BY <1>1, <1>3, Zenon DEF checkpoint
<1>4. ASSUME SEED_STREAM \in Streams, SEED_STREAM # stream PROVE RpcStart' = RpcStart
  BY <1>1, <1>4, Zenon DEF RpcStart, Streams
<1>5. QED
  BY <1>2, <1>3, <1>4

LEMMA WriteCursors ==
    ASSUME StoreInv, NEW stream, NEW s, NEW batch, NEW cursor \in Nat, NEW latest \in Nat,
           write_batch(stream, s, batch, cursor, latest)
    PROVE  (\A c \in Streams :
              db.checkpoints[c].cursor \in Nat /\ db.checkpoints[c].latest \in Nat)'
<1>1. /\ DOMAIN db'.checkpoints = DOMAIN db.checkpoints \cup {stream}
      /\ db'.checkpoints[stream] = [cursor |-> cursor, latest |-> latest]
      /\ \A c \in DOMAIN db.checkpoints : c # stream => db'.checkpoints[c] = db.checkpoints[c]
  BY WriteEffect DEF Streams
<1>2. \A c \in DOMAIN db.checkpoints :
         db.checkpoints[c].cursor \in Nat /\ db.checkpoints[c].latest \in Nat
  BY DEF StoreInv, Streams
<1>3. ASSUME NEW c \in DOMAIN db'.checkpoints
      PROVE  db'.checkpoints[c].cursor \in Nat /\ db'.checkpoints[c].latest \in Nat
  <2>1. CASE c = stream
    BY <1>1, <2>1
  <2>2. CASE c # stream
    BY <1>1, <1>2, <2>2
  <2>3. QED
    BY <2>1, <2>2
<1>4. QED
  BY <1>3, Zenon DEF Streams
-----------------------------------------------------------------------------
(* One lemma for each writer *)

\* A step that leaves events, rows and checkpoints alone.
LEMMA LeftAlone ==
    ASSUME StoreInv, tip' \in Nat, seedTip' \in Nat, listing' = listing,
           DOMAIN db' = DbFields, db'.raw = db.raw, db'.rows = db.rows,
           db'.checkpoints = db.checkpoints,
           seeding' # "idle" => SEED_STREAM \notin Streams
    PROVE  StoreInv'
<1>1. Bounded(listing)' /\ Streams' = Streams
  BY Zenon DEF StoreInv, Bounded, Streams
<1>2. (\A d \in Streams : db.checkpoints[d].cursor \in Nat /\ db.checkpoints[d].latest \in Nat)'
  BY Zenon DEF StoreInv, Streams
<1>3. TypedFollowRaw' /\ StreamsAgree'
  <2>1. TypedFollowRaw'
    BY Zenon DEF StoreInv, TypedFollowRaw
  <2>2. (\A c : checkpoint(c)' = checkpoint(c)) /\ RpcStart' = RpcStart
    BY Zenon DEF checkpoint, RpcStart
  <2>3. \A s, from, to, contracts :
          Read(s, from, to, contracts)' <=> Read(s, from, to, contracts)
    BY Zenon DEF Read
  <2>4. StreamsAgree
    BY Zenon DEF StoreInv
  <2>5. (\A c \in Contracts : Read(listing, 0, checkpoint(SeedStream(c)), {c}))'
    BY <2>2, <2>3, <2>4, Zenon DEF StreamsAgree, Read
  <2>6. (RPC_STREAM \in DOMAIN db.checkpoints =>
          Read(Chain, RpcStart, checkpoint(RPC_STREAM), Contracts))'
    BY <2>2, <2>3, <2>4, Zenon DEF StreamsAgree, Read
  <2>7. QED
    BY <2>1, <2>5, <2>6, Zenon DEF StreamsAgree
<1>4. (RPC_STREAM \in Streams => SEED_STREAM \in Streams)'
  BY <1>1, Zenon DEF StoreInv
<1>5. (seeding # "idle" => SEED_STREAM \notin Streams)'
  BY <1>1, Zenon
<1>6. QED
  BY <1>1, <1>2, <1>3, <1>4, <1>5, Zenon DEF StoreInv

LEMMA SeedPageKeeps ==
    ASSUME StoreInv, NEW c \in Contracts, SeedPage(c)
    PROVE  StoreInv'
<1> DEFINE stream == SeedStream(c)
           from == checkpoint(stream)
           batch == NextBatch(listing, from, {c})
<1>1. /\ seeding = c /\ UNCHANGED <<tip, listing, seedTip>>
      /\ \/ batch = {} /\ UNCHANGED db
         \/ batch # {} /\ write_batch(stream, listing, batch, Max(batch), seedTip)
  BY Zenon DEF SeedPage, NextBatch
<1>2. SEED_STREAM \notin Streams /\ RPC_STREAM \notin Streams
  BY <1>1, Names DEF StoreInv
<1>3. tip \in Nat /\ seedTip \in Nat /\ Bounded(listing)
  BY DEF StoreInv
<1>4. (tip \in Nat /\ seedTip \in Nat /\ Bounded(listing))'
  BY <1>1, <1>3, Zenon DEF Bounded
<1>5. CASE batch = {} /\ UNCHANGED db
  <2>1. DOMAIN db' = DbFields /\ db' = db
    BY <1>5 DEF StoreInv
  <2>2. QED
    BY <1>1, <1>2, <1>4, <2>1, LeftAlone
<1>6. CASE batch # {} /\ write_batch(stream, listing, batch, Max(batch), seedTip)
  <2>1. from \in Nat
    BY Cursors
  <2> HIDE DEF from
  <2>2. Max(batch) \in Nat /\ Given(listing, from, Max(batch), {c}) \subseteq batch
    BY <1>3, <1>6, <2>1, PageCovers
  <2> HIDE DEF batch
  <2>3. /\ Holds(db', db.raw, DOMAIN db.raw) /\ Holds(db', listing, batch)
        /\ DOMAIN db' = DbFields /\ Streams' = Streams \cup {stream}
    <3>1. DOMAIN db'.checkpoints = Streams \cup {stream}
      BY <1>6, WriteEffect
    <3>2. QED
      BY <1>6, <3>1, WriteEffect DEF Streams
  <2>4. SEED_STREAM \notin Streams' /\ RPC_STREAM \notin Streams'
    BY <1>2, <2>3, Names, Zenon
  <2>5. (\A d \in Streams : db.checkpoints[d].cursor \in Nat /\ db.checkpoints[d].latest \in Nat)'
    BY <1>3, <1>6, <2>2, WriteCursors
  <2>6. TypedFollowRaw'
    BY <1>6, WriteTyped DEF StoreInv
  <2>7. /\ checkpoint(stream)' = Max(batch)
        /\ \A d : d # stream => checkpoint(d)' = checkpoint(d)
    BY <1>6, CheckpointsAfter
  <2>8. \A d \in Contracts :
            Holds(db, listing, Given(listing, 0, checkpoint(SeedStream(d)), {d}))
    BY AgreeBefore DEF StoreInv
  <2>9. ASSUME NEW d \in Contracts
        PROVE  Holds(db', listing', Given(listing', 0, checkpoint(SeedStream(d))', {d}))
    <3>1. CASE d = c
      <4>1. Holds(db, listing, Given(listing, 0, from, {c}))
        BY <2>8, <3>1, Zenon DEF from
      <4>2. DOMAIN listing \subseteq Nat /\ 0 \in Nat
        BY <1>3 DEF Bounded
      <4>3. Holds(db', listing, Given(listing, 0, Max(batch), {c}))
        BY <2>1, <2>2, <2>3, <4>1, <4>2, ReadFurther
      <4>4. QED
        BY <1>1, <2>7, <3>1, <4>3, Zenon
    <3>2. CASE d # c
      <4>1. SeedStream(d) # stream
        BY <3>2, Names, Zenon
      <4>2. Holds(db', listing, Given(listing, 0, checkpoint(SeedStream(d)), {d}))
        BY <2>3, <2>8, ReadStill
      <4>3. QED
        BY <1>1, <2>7, <4>1, <4>2, Zenon
    <3>3. QED
      BY <3>1, <3>2
  <2>10. StreamsAgree'
    BY <2>4, <2>9, AgreeAfter
  <2>11. QED
    BY <1>4, <2>3, <2>4, <2>5, <2>6, <2>10, Zenon DEF StoreInv
<1>7. QED
  BY <1>1, <1>5, <1>6

LEMMA SeedCompleteKeeps ==
    ASSUME StoreInv, SeedComplete
    PROVE  StoreInv'
<1>1. /\ seeding = "mark" /\ seeding' = "idle" /\ UNCHANGED <<tip, listing, seedTip>>
      /\ write_batch(SEED_STREAM, listing, {}, EndOf(seedTip), seedTip)
  BY Zenon DEF SeedComplete
<1>2. RPC_STREAM \notin Streams
  BY <1>1 DEF StoreInv
<1>3. tip \in Nat /\ seedTip \in Nat /\ Bounded(listing)
  BY DEF StoreInv
<1>4. (tip \in Nat /\ seedTip \in Nat /\ Bounded(listing))'
  BY <1>1, <1>3, Zenon DEF Bounded
<1>5. Holds(db', db.raw, DOMAIN db.raw) /\ DOMAIN db' = DbFields
  BY <1>1, WriteEffect
<1>6. Streams' = Streams \cup {SEED_STREAM}
  <2>1. DOMAIN db'.checkpoints = Streams \cup {SEED_STREAM}
    BY <1>1, WriteEffect
  <2>2. QED
    BY <2>1, Zenon DEF Streams
<1>7. RPC_STREAM \notin Streams'
  BY <1>2, <1>6, Names, Zenon
<1>8. EndOf(seedTip) \in Nat
  BY <1>3, Ledgers
<1>9. (\A d \in Streams : db.checkpoints[d].cursor \in Nat /\ db.checkpoints[d].latest \in Nat)'
  BY <1>1, <1>3, <1>8, WriteCursors
<1>10. TypedFollowRaw'
  BY <1>1, WriteTyped DEF StoreInv
<1>11. \A d : d # SEED_STREAM => checkpoint(d)' = checkpoint(d)
  BY <1>1, CheckpointsAfter
<1>12. ASSUME NEW d \in Contracts
       PROVE  Holds(db', listing', Given(listing', 0, checkpoint(SeedStream(d))', {d}))
  <2>1. Holds(db, listing, Given(listing, 0, checkpoint(SeedStream(d)), {d}))
    BY AgreeBefore DEF StoreInv
  <2>2. Holds(db', listing, Given(listing, 0, checkpoint(SeedStream(d)), {d}))
    BY <1>5, <2>1, ReadStill
  <2>3. checkpoint(SeedStream(d))' = checkpoint(SeedStream(d))
    BY <1>11, Names, Zenon
  <2>4. QED
    BY <1>1, <2>2, <2>3, Zenon
<1>13. StreamsAgree'
  BY <1>7, <1>12, AgreeAfter
<1>14. QED
  BY <1>1, <1>4, <1>5, <1>7, <1>9, <1>10, <1>13, Zenon DEF StoreInv

LEMMA RpcPageKeeps ==
    ASSUME StoreInv, RpcPage
    PROVE  StoreInv'
<1> DEFINE from == IF RPC_STREAM \in Streams THEN checkpoint(RPC_STREAM) ELSE RpcStart
           batch == NextBatch(Chain, from, Contracts)
           cursor == IF Cardinality(batch) = PageSize THEN Max(batch) ELSE EndOf(tip)
<1>1. /\ SEED_STREAM \in Streams /\ UNCHANGED <<tip, listing, seeding, seedTip>>
      /\ write_batch(RPC_STREAM, Chain, batch, cursor, tip)
  BY Zenon DEF RpcPage, NextBatch, Streams
<1>2. seeding = "idle" /\ seeding' = "idle"
  BY <1>1 DEF StoreInv
<1>3. tip \in Nat /\ seedTip \in Nat /\ Bounded(listing)
  BY DEF StoreInv
<1>4. (tip \in Nat /\ seedTip \in Nat /\ Bounded(listing))'
  BY <1>1, <1>3, Zenon DEF Bounded
<1>5. RpcStart \in Nat /\ from \in Nat
  BY <1>1, Cursors
<1>6. Holds(db, Chain, Given(Chain, RpcStart, from, Contracts))
  <2>1. CASE RPC_STREAM \in Streams
    BY <2>1, AgreeBefore DEF StoreInv
  <2>2. CASE RPC_STREAM \notin Streams
    <3>1. \A p \in DOMAIN Chain : p \in Nat
      BY ChainBounded DEF Bounded
    <3>2. from = RpcStart
      BY <2>2
    <3> HIDE DEF from
    <3>3. Given(Chain, RpcStart, from, Contracts) = {}
      BY <1>5, <3>1, <3>2 DEF Given
    <3>4. QED
      BY <3>3, Zenon DEF Holds
  <2>3. QED
    BY <2>1, <2>2
<1> HIDE DEF from
<1>7. cursor \in Nat /\ Given(Chain, from, cursor, Contracts) \subseteq batch
  <2>1. /\ Cardinality(batch) = PageSize => batch # {}
        /\ batch # {} => /\ Max(batch) \in Nat
                         /\ Given(Chain, from, Max(batch), Contracts) \subseteq batch
        /\ Cardinality(batch) # PageSize =>
             Given(Chain, from, EndOf(tip), Contracts) \subseteq batch
    BY <1>3, <1>5, ChainBounded, PageCovers
  <2>2. EndOf(tip) \in Nat
    BY <1>3, Ledgers
  <2> HIDE DEF batch
  <2>3. QED
    BY <2>1, <2>2
<1> HIDE DEF batch, cursor
<1>8. Holds(db', db.raw, DOMAIN db.raw) /\ Holds(db', Chain, batch) /\ DOMAIN db' = DbFields
  BY <1>1, WriteEffect
<1>9. Streams' = Streams \cup {RPC_STREAM}
  <2>1. DOMAIN db'.checkpoints = Streams \cup {RPC_STREAM}
    BY <1>1, WriteEffect
  <2>2. QED
    BY <2>1, Zenon DEF Streams
<1>10. (\A d \in Streams : db.checkpoints[d].cursor \in Nat /\ db.checkpoints[d].latest \in Nat)'
  BY <1>1, <1>3, <1>7, WriteCursors
<1>11. TypedFollowRaw'
  BY <1>1, WriteTyped DEF StoreInv
<1>12. /\ checkpoint(RPC_STREAM)' = cursor
       /\ \A d : d # RPC_STREAM => checkpoint(d)' = checkpoint(d)
       /\ RpcStart' = RpcStart
  BY <1>1, CheckpointsAfter, Names
<1>13. ASSUME NEW d \in Contracts
       PROVE  Holds(db', listing', Given(listing', 0, checkpoint(SeedStream(d))', {d}))
  <2>1. Holds(db, listing, Given(listing, 0, checkpoint(SeedStream(d)), {d}))
    BY AgreeBefore DEF StoreInv
  <2>2. Holds(db', listing, Given(listing, 0, checkpoint(SeedStream(d)), {d}))
    BY <1>8, <2>1, ReadStill
  <2>3. checkpoint(SeedStream(d))' = checkpoint(SeedStream(d))
    BY <1>12, Names, Zenon
  <2>4. QED
    BY <1>1, <2>2, <2>3, Zenon
<1>14. Holds(db', Chain, Given(Chain, RpcStart', checkpoint(RPC_STREAM)', Contracts))
  <2>1. DOMAIN Chain \subseteq Nat
    BY ChainBounded DEF Bounded
  <2>2. Holds(db', Chain, Given(Chain, RpcStart, cursor, Contracts))
    BY <1>5, <1>6, <1>7, <1>8, <2>1, ReadFurther
  <2>3. QED
    BY <1>12, <2>2, Zenon
<1>15. StreamsAgree'
  BY <1>13, <1>14, AgreeAfter
<1>16. QED
  BY <1>1, <1>2, <1>4, <1>8, <1>9, <1>10, <1>11, <1>15, Zenon DEF StoreInv

LEMMA StoreInvInit ==
    ASSUME StoreInit
    PROVE  StoreInv
<1>1. tip = 1 /\ seeding = "idle" /\ seedTip = 0 /\ Bounded(listing)
  BY ListingBounded DEF StoreInit
<1>2. db = [raw |-> <<>>, rows |-> {}, checkpoints |-> <<>>, verified |-> <<>>]
  BY DEF StoreInit
<1>3. DOMAIN db = DbFields /\ db.raw = <<>> /\ db.rows = {} /\ db.checkpoints = <<>>
  BY <1>2 DEF DbFields
<1>4. DOMAIN db.raw = {} /\ Streams = {}
  BY <1>3 DEF Streams
<1>5. TypedFollowRaw
  BY <1>3, <1>4 DEF TypedFollowRaw
<1>6. \A c : checkpoint(c) = 0
  BY <1>4 DEF checkpoint, Streams
<1>7. StreamsAgree
  <2>1. \A p \in DOMAIN listing : p \in Nat
    BY <1>1 DEF Bounded
  <2>2. \A c \in Contracts : Read(listing, 0, checkpoint(SeedStream(c)), {c})
    BY <1>6, <2>1 DEF Read
  <2>3. QED
    BY <1>4, <2>2 DEF StreamsAgree, Streams
<1>8. tip \in Nat /\ seedTip \in Nat
  BY <1>1
<1>9. QED
  BY <1>1, <1>3, <1>4, <1>5, <1>7, <1>8, Zenon DEF StoreInv

\* Recording a verdict changes only what verify has recorded.
LEMMA RecordKeeps ==
    ASSUME StoreInv, NEW contract, NEW state, NEW verdict, Record(contract, state, verdict)
    PROVE  StoreInv'
<1> DEFINE recorded == (contract :> [state |-> state, matches |-> verdict = "match"]) @@ db.verified
<1>1. db' = [db EXCEPT !.verified = recorded] /\ UNCHANGED <<tip, listing, seeding, seedTip>>
  BY Zenon DEF Record
<1>2. DOMAIN db = DbFields /\ tip \in Nat /\ seedTip \in Nat
  BY DEF StoreInv
<1> HIDE DEF recorded
<1>3. DOMAIN db' = DbFields
  BY <1>1, <1>2, Zenon
<1>4. db'.raw = db.raw /\ db'.rows = db.rows /\ db'.checkpoints = db.checkpoints
  BY <1>1, <1>2 DEF DbFields
<1>5. tip' \in Nat /\ seedTip' \in Nat /\ listing' = listing /\ seeding' = seeding
  BY <1>1, <1>2
<1>6. seeding' # "idle" => SEED_STREAM \notin Streams
  BY <1>5, Zenon DEF StoreInv
<1>7. QED
  BY <1>3, <1>4, <1>5, <1>6, LeftAlone

LEMMA StoreInvNext ==
    ASSUME StoreInv, StoreNext
    PROVE  StoreInv'
<1>1. tip \in Nat /\ seedTip \in Nat /\ DOMAIN db = DbFields
  BY DEF StoreInv
<1>2. CASE CloseLedger
  <2>1. tip' = tip + 1 /\ UNCHANGED <<listing, seeding, seedTip, db>>
    BY <1>2 DEF CloseLedger
  <2>2. tip' \in Nat /\ seedTip' \in Nat
    BY <1>1, <2>1
  <2>3. seeding' # "idle" => SEED_STREAM \notin Streams
    BY <2>1, Zenon DEF StoreInv
  <2>4. QED
    BY <1>1, <2>1, <2>2, <2>3, LeftAlone
<1>3. CASE SeedStart
  <2>1. SEED_STREAM \notin Streams /\ seedTip' = tip /\ UNCHANGED <<tip, listing, db>>
    BY <1>3 DEF SeedStart, Streams
  <2>2. QED
    BY <1>1, <2>1, LeftAlone
<1>4. CASE SeedStops
  <2>1. seeding' = "idle" /\ UNCHANGED <<tip, listing, seedTip, db>>
    BY <1>4 DEF SeedStops
  <2>2. QED
    BY <1>1, <2>1, LeftAlone
<1>5. ASSUME NEW c \in Contracts, SeedPage(c) PROVE StoreInv'
  BY <1>5, SeedPageKeeps
<1>6. CASE SeedComplete
  BY <1>6, SeedCompleteKeeps
<1>7. CASE RpcPage
  BY <1>7, RpcPageKeeps
<1>8. QED
  BY <1>2, <1>3, <1>4, <1>5, <1>6, <1>7 DEF StoreNext, Writes

LEMMA StoreInvUnchanged ==
    ASSUME StoreInv, UNCHANGED storeVars
    PROVE  StoreInv'
<1>1. UNCHANGED <<tip, listing, seeding, seedTip, db>>
  BY DEF storeVars
<1>2. tip' \in Nat /\ seedTip' \in Nat /\ DOMAIN db' = DbFields
  BY <1>1 DEF StoreInv
<1>3. seeding' # "idle" => SEED_STREAM \notin Streams
  BY <1>1, Zenon DEF StoreInv
<1>4. QED
  BY <1>1, <1>2, <1>3, LeftAlone

LEMMA StoreInvVerifier ==
    ASSUME StoreInv, NEW v \in Verifiers, VerifierStep(v)
    PROVE  StoreInv'
<1>1. CASE RecordPool(v)
  BY <1>1, RecordKeeps DEF RecordPool
<1>2. CASE RecordAllowlist(v)
  BY <1>2, RecordKeeps DEF RecordAllowlist
<1>3. CASE UNCHANGED storeVars
  BY <1>3, StoreInvUnchanged
<1>4. RecordPool(v) \/ RecordAllowlist(v) \/ UNCHANGED storeVars
  BY Zenon DEF VerifierStep, ReadPool, ReadAllowlist, CaughtUp, Behind, ComparePool,
               CompareAllowlist, GatherEvidence, Abandon
<1>5. QED
  BY <1>1, <1>2, <1>3, <1>4

LEMMA StoreInvStep ==
    ASSUME StoreInv, [ApiNext]_apiVars
    PROVE  StoreInv'
<1>1. CASE StoreNext
  BY <1>1, StoreInvNext
<1>2. ASSUME NEW v \in Verifiers, VerifierStep(v) PROVE StoreInv'
  BY <1>2, StoreInvVerifier
<1>3. CASE UNCHANGED storeVars
  BY <1>3, StoreInvUnchanged
<1>4. \/ StoreNext \/ UNCHANGED storeVars
      \/ \E v \in Verifiers : VerifierStep(v)
  BY Zenon DEF ApiNext, VerifyNext, Ask, Finish, NextPage, Rest, Begin, apiVars, verifyVars
<1>5. QED
  BY <1>1, <1>2, <1>3, <1>4

\* The store is sound at every moment, whatever Stellar Expert altered, left out
\* or listed twice, wherever the seed was stopped and resumed: the typed rows are
\* those of the stored events, and each stream has stored, byte for byte, all its
\* source gave up to its checkpoint (store.rs, write_batch and insert_event).
THEOREM StoreStaysSound == ApiSpec => []StoreSound
<1>1. ApiInit => StoreInv
  BY StoreInvInit DEF ApiInit, VerifyInit
<1>2. StoreInv /\ [ApiNext]_apiVars => StoreInv'
  BY StoreInvStep
<1>3. StoreInv => StoreSound
  BY Zenon DEF StoreInv, StoreSound
<1>4. QED
  BY <1>1, <1>2, <1>3, PTL DEF ApiSpec
=============================================================================
