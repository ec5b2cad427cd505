--------------------------------- MODULE Api ---------------------------------
(***************************************************************************)
(* The read API beside the indexer and verify: one client asks, page by    *)
(* page where an answer is a listing, while the database goes on changing. *)
(*                                                                         *)
(* A request begins with a repeatable-read snapshot and ends with the      *)
(* answer; what it reads in between it reads from the snapshot.  HTTP,     *)
(* parsing and rate limits are left out.                                   *)
(***************************************************************************)
EXTENDS Verify

CONSTANTS
    Limits,          \* page sizes clients ask for
    MAX_PAGE,        \* largest page
    NoCursor         \* absent next_cursor

VARIABLE client      \* the request under way, or the last answer

apiVars == <<verifyVars, client>>

Quiet == [pc |-> "quiet"]
ApiInit == VerifyInit /\ client = Quiet
-----------------------------------------------------------------------------
(* queries.rs *)

\* The last complete ledger of the RPC checkpoint; 0 when there is none.
checkpoint_ledger(d) ==
    IF RPC_STREAM \notin DOMAIN d.checkpoints THEN 0
    ELSE LET cursor == d.checkpoints[RPC_STREAM].cursor
         IN  LedgerOf(cursor) - (IF cursor = EndOf(LedgerOf(cursor)) THEN 0 ELSE 1)

on_chain(d, contract) == d.verified[contract].state

\* Whether verify has recorded the contract's depth: 503 until then.
HasLevels(d, contract) == contract \in DOMAIN d.verified

PoolRow(rows, i) == CHOOSE r \in pool_commitments(rows) : r.index = i
IsDeposit(rows, i) ==
    \E r \in pool_commitments(rows) : r.index = i /\ r.table = "legacy_deposit"
PoolIndices(rows, from) == {r.index : r \in {s \in pool_commitments(rows) : s.index >= from}}

PoolLeaf(rows, i, stored) ==
    LET r == PoolRow(rows, IF stored THEN i ELSE i - 1)
    IN  [index |-> i, ledger |-> LedgerOf(r.at),
         value |-> IF stored THEN r.value ELSE Zero,
         origin |-> IF stored THEN r.table ELSE "legacy_deposit_zero"]

InOrder(S, Item(_)) == [k \in 1 .. Cardinality(S) |-> Item(Sorted(S)[k])]

\* A bug: the rows are read from the cursor on.
LeavesFromCursor(rows, from, limit) ==
    LET picked == FirstOf(PoolIndices(rows, from), limit + 1)
        zeros == {i + 1 : i \in {j \in picked : IsDeposit(rows, j)}}
    IN  InOrder(FirstOf(picked \cup zeros, limit),
                LAMBDA i : PoolLeaf(rows, i, i \in picked))

\* A deposit at index i also filled i + 1, so the rows start one earlier.
pool_leaves(rows, from, limit) ==
    LET start == IF from > 0 THEN from - 1 ELSE 0
        picked == FirstOf(PoolIndices(rows, start), limit + 1)
        zeros == {i + 1 : i \in {j \in picked : IsDeposit(rows, j)}}
    IN  InOrder(FirstOf({i \in picked \cup zeros : i >= from}, limit),
                LAMBDA i : PoolLeaf(rows, i, i \in picked))

as_tree(leaves) ==
    [i \in {leaves[k].index : k \in DOMAIN leaves} |->
        (CHOOSE l \in Range(leaves) : l.index = i).value]

AllLeaves(rows) == pool_leaves(rows, 0, Cardinality(rows) * 2)

notes(rows, from, limit) ==
    LET sent == {i \in PoolIndices(rows, from) : ~ IsDeposit(rows, i)}
    IN  InOrder(FirstOf(sent, limit),
                LAMBDA i : [index |-> i, value |-> PoolRow(rows, i).value,
                            ledger |-> LedgerOf(PoolRow(rows, i).at),
                            encrypted_output |-> PoolRow(rows, i).body])

allowlist(rows, after, limit) ==
    LET changes == FirstOf({r.at : r \in {s \in allowlist_events(rows) : s.at > after}}, limit)
    IN  InOrder(changes, LAMBDA p : CHOOSE r \in allowlist_events(rows) : r.at = p)

\* A bug: a spend is looked up among the settlements, which an exit does not have.
SpentBySettlement(rows, n) ==
    {LedgerOf(r.at) : r \in {s \in rows : s.table = "pool_settlements" /\ s.value = n}}

nullifier(rows, n) == {LedgerOf(r.at) : r \in {s \in pool_nullifiers(rows) : s.value = n}}

public_key(rows, owner) ==
    LET own == {r \in rows : r.table = "pool_public_keys" /\ r.value = owner}
    IN  {[key |-> r.body, ledger |-> LedgerOf(r.at), registrations |-> Cardinality(own)] :
            r \in {newest \in own : \A s \in own : s.at <= newest.at}}
-----------------------------------------------------------------------------
(* routes.rs: the answer to a request from a snapshot.                     *)

\* A listing asks for one more than the page, to know whether there is more.
Page(rows, limit, CursorAfter(_)) ==
    LET items == SubSeq(rows, 1, IF Len(rows) < limit THEN Len(rows) ELSE limit)
    IN  [status |-> 200, items |-> items,
         next_cursor |-> IF Len(rows) > limit THEN CursorAfter(Last(items)) ELSE NoCursor]

LeafPage(d, req) ==
    Page(pool_leaves(d.rows, req.cursor, req.limit + 1), req.limit, LAMBDA l : l.index + 1)
NotePage(d, req) ==
    Page(notes(d.rows, req.cursor, req.limit + 1), req.limit, LAMBDA n : n.index + 1)
AllowlistPage(d, req) ==
    Page(allowlist(d.rows, req.cursor, req.limit + 1), req.limit, LAMBDA e : e.at)

pool_state(d) ==
    LET leaves == AllLeaves(d.rows)
    IN  IF ~ HasLevels(d, "pool") THEN [status |-> 503]
        ELSE [status |-> 200, root |-> root(as_tree(leaves)),
              next_index |-> IF leaves = <<>> THEN 0 ELSE Last(leaves).index + 1,
              on_chain |-> on_chain(d, "pool")]


pool_path(d, i) ==
    LET tree == as_tree(AllLeaves(d.rows))
    IN  IF ~ HasLevels(d, "pool") THEN [status |-> 503]
        ELSE IF i \notin DOMAIN tree THEN [status |-> 404]
        ELSE [status |-> 200, path |-> path(tree, i)]

allowlist_state(d) ==
    LET rows == allowlist(d.rows, 0, Cardinality(d.rows))
        revocations == Cardinality({k \in DOMAIN rows : rows[k].table = "revoked"})
    IN  IF ~ HasLevels(d, "allowlist") THEN [status |-> 503]
        ELSE [status |-> 200, operator_maintained |-> revocations > 0,
              additions |-> Len(rows) - revocations, revocations |-> revocations,
              root |-> IF rows = <<>> THEN zeroes[Levels] ELSE Last(rows).body]

MembershipPath(d, leaf) ==
    IF ~ HasLevels(d, "allowlist") THEN [status |-> 503]
    ELSE allowlist_path(AllowlistLog(d.rows, MaxLedger), leaf)

NullifierStatus(d, n) ==
    [status |-> 200, spent |-> nullifier(d.rows, n) # {}, ledger |-> nullifier(d.rows, n)]

PublicKey(d, owner) ==
    LET registered == public_key(d.rows, owner)
    IN  IF registered = {} THEN [status |-> 404]
        ELSE [status |-> 200, latest |-> CHOOSE r \in registered : TRUE]

PageSizeOk(limit) == limit \in 1 .. MAX_PAGE

Response(req, d) ==
    IF "limit" \in DOMAIN req /\ ~ PageSizeOk(req.limit) THEN [status |-> 400]
    ELSE
    CASE req.route = "leaves" -> LeafPage(d, req)
      [] req.route = "notes" -> NotePage(d, req)
      [] req.route = "entries" -> AllowlistPage(d, req)
      [] req.route = "pool" -> pool_state(d)
      [] req.route = "path" -> pool_path(d, req.arg)
      [] req.route = "nullifier" -> NullifierStatus(d, req.arg)
      [] req.route = "allowlist" -> allowlist_state(d)
      [] req.route = "membership" -> MembershipPath(d, req.arg)
      [] req.route = "key" -> PublicKey(d, req.arg)
-----------------------------------------------------------------------------
(* The client *)

Listing(route, limit) == [route |-> route, cursor |-> 0, limit |-> limit]
Asking(route, arg) == [route |-> route, arg |-> arg]
ValuesOf(kinds) == {Chain[p].value : p \in {q \in DOMAIN Chain : Chain[q].kind \in kinds}}

Requests ==
    {Listing(route, limit) : route \in {"leaves", "notes", "entries"}, limit \in Limits}
    \cup {Asking(route, NoCursor) : route \in {"pool", "allowlist"}}
    \cup {Asking("path", i) : i \in 0 .. Capacity - 1}
    \cup {Asking("nullifier", n) : n \in ValuesOf({"NewNullifier"})}
    \cup {Asking("membership", l) : l \in ValuesOf({"LeafAdded"})}
    \cup {Asking("key", o) : o \in ValuesOf({"PublicKey"})}

\* The snapshot is taken.
Begin(req, items) ==
    /\ client' = [pc |-> "reading", req |-> req, snap |-> db, items |-> items]
    /\ UNCHANGED verifyVars

Ask == client.pc = "quiet" /\ \E req \in Requests : Begin(req, <<>>)

Answer(c) ==
    LET response == Response(c.req, c.snap)
    IN  [pc |-> "answered", req |-> c.req, response |-> response,
         indexed_ledger |-> checkpoint_ledger(c.snap),
         items |-> c.items \o (IF "items" \in DOMAIN response THEN response.items ELSE <<>>)]

Finish ==
    /\ client.pc = "reading"
    /\ client' = Answer(client)
    /\ UNCHANGED verifyVars

More(c) == "next_cursor" \in DOMAIN c.response /\ c.response.next_cursor # NoCursor

NextPage ==
    /\ client.pc = "answered" /\ More(client)
    /\ Begin([client.req EXCEPT !.cursor = client.response.next_cursor], client.items)

\* The answer is final, or the client asks no further.
Rest ==
    /\ client.pc = "answered"
    /\ client' = Quiet
    /\ UNCHANGED verifyVars

ApiNext ==
    \/ VerifyNext /\ UNCHANGED client
    \/ Ask \/ Finish \/ NextPage \/ Rest

ApiSpec == ApiInit /\ [][ApiNext]_apiVars
-----------------------------------------------------------------------------
(* Properties *)

\* The chain's own listings, in full.
TrueLeaves ==
    LET leaves == LeavesAt(Chain, MaxLedger)
        Source(i) == CHOOSE p \in Kind(Chain, MaxLedger, {"NewCommitment", "LegacyDeposit"}) :
                        Chain[p].index = i \/ (Chain[p].kind = "LegacyDeposit" /\ Chain[p].index + 1 = i)
    IN  InOrder(DOMAIN leaves,
                LAMBDA i : [index |-> i, value |-> leaves[i], ledger |-> LedgerOf(Source(i))])
TrueNotes ==
    LET ps == Kind(Chain, MaxLedger, {"NewCommitment"})
    IN  InOrder(ps, LAMBDA p : [index |-> Chain[p].index, value |-> Chain[p].value,
                                ledger |-> LedgerOf(p)])
TrueEntries ==
    LET ps == Kind(Chain, MaxLedger, {"LeafAdded", "LeafRevoked"})
    IN  InOrder(ps, LAMBDA p : [index |-> Chain[p].index, value |-> Chain[p].value,
                                ledger |-> LedgerOf(p)])
TrueListing(route) ==
    CASE route = "leaves" -> TrueLeaves [] route = "notes" -> TrueNotes
      [] route = "entries" -> TrueEntries
Shown(route, item) ==
    [index |-> item.index, value |-> item.value,
     ledger |-> IF route = "entries" THEN LedgerOf(item.at) ELSE item.ledger]

\* Pages read one after another while the indexer writes (routes.rs 286-328,
\* 393-433, 499-549) make one listing: nothing repeated, skipped or out of order
\* across a page boundary, the closed path's zero leaves included, and, once
\* next_cursor is absent, nothing left out up to the last page's indexed_ledger.
PagesMakeListing ==
    client.pc = "answered" /\ "items" \in DOMAIN client.response =>
        LET route == client.req.route
            shown == [k \in DOMAIN client.items |-> Shown(route, client.items[k])]
        IN  /\ IsPrefix(shown, TrueListing(route))
            /\ ~ More(client) =>
                 \A k \in DOMAIN TrueListing(route) :
                    TrueListing(route)[k].ledger <= client.indexed_ledger => k <= Len(shown)

\* "Every answer reflects the chain up to this ledger" (model.rs 16), as a lower
\* bound: what happened by the indexed_ledger shown beside an answer is in it,
\* for a spend, a membership, the counts of the allowlist and the latest keys.
AnswersUpToDate ==
    client.pc = "answered" /\ client.response.status = 200 =>
        LET seen == Kind(Chain, client.indexed_ledger, {"NewNullifier"})
            changes(kind) == Cardinality(Kind(Chain, client.indexed_ledger, {kind}))
        IN  /\ client.req.route = "nullifier" =>
                 /\ (\E p \in seen : Chain[p].value = client.req.arg) => client.response.spent
                 /\ client.response.spent =>
                      \E p \in UpTo(Chain, tip) : /\ Chain[p].kind = "NewNullifier"
                                                  /\ Chain[p].value = client.req.arg
                                                  /\ client.response.ledger = {LedgerOf(p)}
            /\ client.req.route = "allowlist" =>
                 /\ client.response.additions >= changes("LeafAdded")
                 /\ client.response.revocations >= changes("LeafRevoked")
            /\ client.req.route = "membership" => changes("LeafRevoked") = 0
            /\ client.req.route = "key" =>
                 \A p \in Kind(Chain, client.indexed_ledger, {"PublicKey"}) :
                    Chain[p].value = client.req.arg =>
                        client.response.latest.ledger >= LedgerOf(p)

=============================================================================
