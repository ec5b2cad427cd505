------------------------------- MODULE Client -------------------------------
(***************************************************************************)
(* The demo client's flows, enroll, shield and pay, against the chain they *)
(* write to and the lagging API they read from.                            *)
(*                                                                         *)
(* The chain is the log of what the contracts accepted, and the API is a   *)
(* prefix of it.  Every API call of a flow is a step, so the index and the *)
(* other flows move between any two.  Each process runs its script and     *)
(* runs a command again when it failed, as the messages tell its user to.  *)
(*                                                                         *)
(* Trees only grow, so the pool's root is the number of settlements and    *)
(* the allowlist's the number of leaves.  A note's blinding is fresh: the  *)
(* transaction's own number and the output's.                              *)
(***************************************************************************)
EXTENDS Integers, Sequences, SequencesExt, FiniteSets, FiniteSetsExt

CONSTANTS
    Scenarios,          \* by name, records of scripts, genesis, others and faults:
                        \*   scripts: per process, the commands it runs
                        \*   genesis: the log when the flows start, all of it indexed
                        \*   others: bound on leaves other users enrol
                        \*   faults: bound on processes killed, calls that fail or time out
    RootHistorySize,
    MaxSettlements      \* the pool's tree is full

VARIABLES
    scenario,
    log,        \* what the chain accepted, in order
    indexed,    \* how much of it the API serves
    at,         \* per process, the command it is at
    flow,       \* per process, the step of that command and its locals
    reported,   \* transactions a flow returned Ok for
    faults      \* how often a flow has died

vars == <<scenario, log, indexed, at, flow, reported, faults>>

Scripts == Scenarios[scenario].scripts
Procs == DOMAIN Scripts
Command(p) == Scripts[p][at[p]]
Commands == UNION {Range(Scripts[p]) : p \in Procs}
Wallets == {c.wallet : c \in Commands} \cup {c.to : c \in {d \in Commands : d.cmd = "pay"}}
-----------------------------------------------------------------------------
(* The chain and the API: what the first n entries of the log amount to *)

Entries(n, kind) == SelectSeq(SubSeq(log, 1, n), LAMBDA e : e.kind = kind)
Now == Len(log)
Settled(n) == {e.tx : e \in {log[i] : i \in {j \in 1 .. n : log[j].kind = "transact"}}}
root(n) == Len(Entries(n, "transact"))
allowlist_root(n) == Len(Entries(n, "leaf"))
SpentNullifiers(n) == UNION {tx.nullifiers : tx \in Settled(n)}
Enrolled(n, w) == \E i \in 1 .. n : log[i].kind = "leaf" /\ log[i].wallet = w
Published(n, w) == \E i \in 1 .. n : log[i].kind = "keys" /\ log[i].wallet = w

\* The notes in the order of their leaves, as /v1/notes lists them.
NotesListed(n) ==
    LET txs == Entries(n, "transact")
    IN  [leaf \in 1 .. 2 * Len(txs) |->
            LET tx == txs[(leaf + 1) \div 2].tx
            IN  tx.outputs[IF leaf % 2 = 1 THEN 1 ELSE 2]]

\* The pool: a known root, unspent nullifiers, the live allowlist root, room.
Accepts(tx) ==
    /\ tx.root \in root(Now) - RootHistorySize + 1 .. root(Now)
    /\ tx.nullifiers \cap SpentNullifiers(Now) = {}
    /\ tx.asp_root = allowlist_root(Now)
    /\ root(Now) < MaxSettlements

\* The faucet's cooldown outlasts a behaviour.
OnboardAccepts(w) == ~ Enrolled(Now, w)
-----------------------------------------------------------------------------
(* Notes *)

encrypt(recipient, opened) == [to |-> recipient, opened |-> opened]
decrypt(wallet, sealed) == sealed.to = wallet

note_nullifier(note) == note.blinding
dummy_input(id, slot) == <<id, "dummy", slot>>

new_note(key, encryption_key, amount, blinding) ==
    [owner |-> key, amount |-> amount, blinding |-> blinding,
     sealed |-> encrypt(encryption_key, [amount |-> amount, blinding |-> blinding])]

\* A transaction's number: the first that neither the chain nor a flow has.
InFlight == {flow[p].tx : p \in {q \in Procs : flow[q].pc \in {"invoke", "poll"}}}
FreshId ==
    Min({i \in 1 .. MaxSettlements + Cardinality(Procs) + 1 :
            \A tx \in Settled(Now) \cup InFlight : tx.id # i})

Opens(w, note) ==
    /\ decrypt(w, note.sealed)
    /\ note.owner = w /\ note.sealed.opened = [amount |-> note.amount, blinding |-> note.blinding]
    /\ note.amount # 0

\* What a wallet can see among the first n entries, spent or not.
Candidates(w, n) == {leaf \in DOMAIN NotesListed(n) : Opens(w, NotesListed(n)[leaf])}
scan(w, n) ==
    {NotesListed(n)[leaf] : leaf \in
        {l \in Candidates(w, n) : note_nullifier(NotesListed(n)[l]) \notin SpentNullifiers(n)}}
-----------------------------------------------------------------------------
(* Steps of a flow *)

Idle == [pc |-> "idle"]
To(p, step) == flow' = [flow EXCEPT ![p] = step]
Succeed(p) == To(p, Idle) /\ at' = [at EXCEPT ![p] = @ + 1]
Reading == UNCHANGED <<log, indexed, at, reported, faults>>
Fail(p) == To(p, Idle) /\ Reading

Init ==
    /\ scenario \in DOMAIN Scenarios
    /\ log = Scenarios[scenario].genesis /\ indexed = Len(log) /\ reported = {} /\ faults = 0
    /\ at = [p \in Procs |-> 1] /\ flow = [p \in Procs |-> Idle]

FirstStep == [enroll |-> "enroll", shield |-> "membership", pay |-> "recipient"]

Run(p) ==
    /\ flow[p].pc = "idle" /\ at[p] <= Len(Scripts[p])
    /\ To(p, [pc |-> FirstStep[Command(p).cmd]])
    /\ Reading

\* enroll: look for the leaf, onboard when the API does not show it, ...
EnrollLeaf(p) ==
    /\ flow[p].pc = "enroll"
    /\ To(p, [pc |-> IF Enrolled(indexed, Command(p).wallet) THEN "keys" ELSE "onboard"])
    /\ Reading

Onboard(p) ==
    LET w == Command(p).wallet
    IN  /\ flow[p].pc = "onboard"
        /\ \/ /\ OnboardAccepts(w)
              /\ log' = Append(log, [kind |-> "leaf", wallet |-> w])
              /\ To(p, [pc |-> "keys"])
              /\ UNCHANGED <<indexed, at, reported, faults>>
           \/ ~ OnboardAccepts(w) /\ Fail(p)

\* ... publish the keys unless the API shows them, and wait for both.
EnrollKeys(p) ==
    /\ flow[p].pc = "keys"
    /\ To(p, [pc |-> IF Published(indexed, Command(p).wallet) THEN "enrolled" ELSE "register"])
    /\ Reading

Register(p) ==
    /\ flow[p].pc = "register"
    /\ log' = Append(log, [kind |-> "keys", wallet |-> Command(p).wallet])
    /\ To(p, [pc |-> "enrolled"])
    /\ UNCHANGED <<indexed, at, reported, faults>>

EnrollPoll(p) ==
    /\ flow[p].pc = "enrolled"
    /\ Enrolled(indexed, Command(p).wallet) /\ Published(indexed, Command(p).wallet)
    /\ Succeed(p)
    /\ UNCHANGED <<log, indexed, reported, faults>>

\* pay: the recipient's keys, ...
Recipient(p) ==
    /\ flow[p].pc = "recipient"
    /\ IF Published(indexed, Command(p).to) THEN To(p, [pc |-> "notes"]) /\ Reading ELSE Fail(p)

\* ... scan: every page of notes, then each candidate's nullifier, ...
ListNotes(p) ==
    /\ flow[p].pc = "notes"
    /\ To(p, [pc |-> "spent", unchecked |-> Candidates(Command(p).wallet, indexed), owned |-> {}])
    /\ Reading

NoteAt(leaf) == NotesListed(Now)[leaf]

\* A bug: the spent set is not asked.
CheckNothing(p) ==
    LET f == flow[p]
    IN  /\ f.pc = "spent" /\ f.unchecked # {}
        /\ To(p, [f EXCEPT !.unchecked = {}, !.owned = @ \cup f.unchecked])
        /\ Reading

CheckSpent(p) ==
    LET f == flow[p]
        leaf == Min(f.unchecked)
        spent == note_nullifier(NoteAt(leaf)) \in SpentNullifiers(indexed)
    IN  /\ f.pc = "spent" /\ f.unchecked # {}
        /\ To(p, [f EXCEPT !.unchecked = @ \ {leaf},
                           !.owned = IF spent THEN @ ELSE @ \cup {leaf}])
        /\ Reading

AmountOf(chosen) == FoldSeq(LAMBDA leaf, sum : sum + NoteAt(leaf).amount, 0, chosen)

\* ... sorted by amount, the smallest note that covers the amount, else the
\* two largest, ...
Before(l, m) ==
    \/ NoteAt(l).amount < NoteAt(m).amount
    \/ NoteAt(l).amount = NoteAt(m).amount /\ l < m

chosen_notes(owned, amount) ==
    LET notes == SetToSortSeq(owned, Before)
        n == Len(notes)
        covering == {i \in 1 .. n : NoteAt(notes[i]).amount >= amount}
    IN  IF covering # {} THEN <<notes[Min(covering)]>>
        ELSE [k \in 1 .. Min({2, n}) |-> notes[n + 1 - k]]

Choose(p) ==
    LET chosen == chosen_notes(flow[p].owned, Command(p).amount)
    IN  /\ flow[p].pc = "spent" /\ flow[p].unchecked = {}
        /\ IF AmountOf(chosen) >= Command(p).amount
           THEN To(p, [pc |-> "paths", chosen |-> chosen, roots |-> <<>>]) /\ Reading
           ELSE Fail(p)

\* ... a path for each, one call at a time, ...
PathOf(p) ==
    LET f == flow[p]
    IN  /\ f.pc = "paths" /\ Len(f.roots) < Len(f.chosen)
        /\ To(p, [f EXCEPT !.roots = Append(@, root(indexed))])
        /\ Reading

\* A bug: the roots are not compared.
AnyRoots(roots) == TRUE

\* ... "the pool moved while reading paths, try again", ...
OneRoot(roots) == \A i, j \in DOMAIN roots : roots[i] = roots[j]

PathsRead(p) ==
    LET f == flow[p]
    IN  /\ f.pc = "paths" /\ Len(f.roots) = Len(f.chosen)
        /\ IF OneRoot(f.roots)
           THEN To(p, [f EXCEPT !.pc = "membership"]) /\ Reading
           ELSE Fail(p)

\* A bug: both outputs are encrypted to the recipient.
ChangeToRecipient(w, to, amount, change, id) ==
    <<new_note(to, to, amount, <<id, 1>>), new_note(w, to, change, <<id, 2>>)>>

\* The payment and the change.
PayOutputs(w, to, amount, change, id) ==
    <<new_note(to, to, amount, <<id, 1>>), new_note(w, w, change, <<id, 2>>)>>

\* ... and the wallet's own allowlist path, the last thing read.
PayMembership(p) ==
    LET f == flow[p]
        c == Command(p)
        id == FreshId
        dummies == {dummy_input(id, k) : k \in Len(f.chosen) + 1 .. 2}
        inputs == {note_nullifier(NoteAt(l)) : l \in Range(f.chosen)}
    IN  /\ f.pc = "membership" /\ c.cmd = "pay"
        /\ IF Enrolled(indexed, c.wallet)
           THEN /\ To(p, [pc |-> "invoke", chosen |-> f.chosen, roots |-> f.roots, tx |->
                     [id |-> id, root |-> f.roots[1], asp_root |-> allowlist_root(indexed),
                      nullifiers |-> inputs \cup dummies,
                      first |-> note_nullifier(NoteAt(f.chosen[1])),
                      ext_amount |-> 0,
                      outputs |-> PayOutputs(c.wallet, c.to, c.amount,
                                             AmountOf(f.chosen) - c.amount, id)]])
                /\ Reading
           ELSE Fail(p)

\* shield: the allowlist path, then the pool's root.
ShieldMembership(p) ==
    /\ flow[p].pc = "membership" /\ Command(p).cmd = "shield"
    /\ IF Enrolled(indexed, Command(p).wallet)
       THEN To(p, [pc |-> "pool", asp_root |-> allowlist_root(indexed)]) /\ Reading
       ELSE Fail(p)

ShieldPool(p) ==
    LET c == Command(p)
        id == FreshId
    IN  /\ flow[p].pc = "pool"
        /\ To(p, [pc |-> "invoke", chosen |-> <<>>, roots |-> <<>>, tx |->
              [id |-> id, root |-> root(indexed), asp_root |-> flow[p].asp_root,
               nullifiers |-> {dummy_input(id, 1), dummy_input(id, 2)},
               first |-> dummy_input(id, 1), ext_amount |-> c.amount,
               outputs |-> <<new_note(c.wallet, c.wallet, c.amount, <<id, 1>>),
                             new_note(c.wallet, c.wallet, 0, <<id, 2>>)>>]])
        /\ Reading

\* submit: the call returns once it is in a ledger, or with its refusal.
\* A bug: a refusal is not an error.
PollAnyway(p) == To(p, [flow[p] EXCEPT !.pc = "poll"]) /\ Reading

Refused(p) == Fail(p)

Invoke(p) ==
    LET tx == flow[p].tx
    IN  /\ flow[p].pc = "invoke"
        /\ \/ /\ Accepts(tx)
              /\ log' = Append(log, [kind |-> "transact", tx |-> tx])
              /\ To(p, [flow[p] EXCEPT !.pc = "poll"])
              /\ UNCHANGED <<indexed, at, reported, faults>>
           \/ ~ Accepts(tx) /\ Refused(p)

\* The API shows the first nullifier as spent.
Poll(p) ==
    /\ flow[p].pc = "poll" /\ flow[p].tx.first \in SpentNullifiers(indexed)
    /\ reported' = reported \cup {flow[p].tx}
    /\ Succeed(p)
    /\ UNCHANGED <<log, indexed, faults>>

\* The process is killed, an API call fails, the CLI fails after its transaction
\* landed, or 120 polls did not show it.
Die(p) ==
    /\ faults < Scenarios[scenario].faults /\ flow[p].pc # "idle"
    /\ faults' = faults + 1
    /\ To(p, Idle)
    /\ UNCHANGED <<log, indexed, at, reported>>

Index ==
    /\ indexed < Now /\ indexed' = indexed + 1
    /\ UNCHANGED <<log, at, flow, reported, faults>>

Other ==
    /\ Cardinality({i \in 1 .. Now : log[i] = [kind |-> "leaf", wallet |-> "other"]}) < Scenarios[scenario].others
    /\ log' = Append(log, [kind |-> "leaf", wallet |-> "other"])
    /\ UNCHANGED <<indexed, at, flow, reported, faults>>

Step(p) ==
    \/ Run(p)
    \/ EnrollLeaf(p) \/ Onboard(p) \/ EnrollKeys(p) \/ Register(p) \/ EnrollPoll(p)
    \/ Recipient(p) \/ ListNotes(p) \/ CheckSpent(p) \/ Choose(p) \/ PathOf(p)
    \/ PathsRead(p) \/ PayMembership(p)
    \/ ShieldMembership(p) \/ ShieldPool(p)
    \/ Invoke(p) \/ Poll(p)

Done == \A p \in Procs : at[p] > Len(Scripts[p])
Next ==
    /\ Index \/ Other \/ \E p \in Procs : Step(p) \/ Die(p)
    /\ UNCHANGED scenario
Processes == UNION {DOMAIN Scenarios[s].scripts : s \in DOMAIN Scenarios}
Fairness ==
    /\ WF_vars(Index /\ UNCHANGED scenario)
    /\ \A p \in Processes : WF_vars(p \in Procs /\ Step(p) /\ UNCHANGED scenario)
Spec == Init /\ [][Next]_vars
FairSpec == Spec /\ Fairness
-----------------------------------------------------------------------------
(* Properties *)

\* Ok means paid: whatever submit returned Ok for is in a ledger, whoever else
\* was spending the same notes, and though the poll only asks for one nullifier.
OkMeansSettled == reported \subseteq Settled(Now)

\* What the prover is handed has a witness: every path opens at the
\* transaction's root, that root's tree holds the notes, and the amounts
\* balance, however far the index moved while the flow was reading.
Provable ==
    \A p \in Procs : flow[p].pc = "invoke" =>
        LET f == flow[p]
            out == f.tx.outputs[1].amount + f.tx.outputs[2].amount
        IN  /\ \A i \in DOMAIN f.chosen : /\ f.roots[i] = f.tx.root
                                          /\ f.chosen[i] <= 2 * f.tx.root
            /\ AmountOf(f.chosen) + f.tx.ext_amount = out
            /\ \A note \in Range(f.tx.outputs) : note.amount >= 0

\* No value is out of reach: once the API has caught up, the wallets' scans
\* together find all that was ever shielded, whatever was submitted twice, died
\* half way or raced.
ScansFindAll ==
    indexed = Now =>
        MapThenSumSet(LAMBDA w : MapThenSumSet(LAMBDA note : note.amount, scan(w, Now)), Wallets)
          = MapThenSumSet(LAMBDA tx : tx.ext_amount, Settled(Now))

\* Every command ends in Ok when it is run again after each error: no two flows
\* keep refusing one another, and a stale root is stale only until the index
\* catches up.
EventuallyDone == <>Done
=============================================================================
