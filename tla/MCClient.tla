------------------------------ MODULE MCClient ------------------------------
(***************************************************************************)
(* Client on three scenarios.                                              *)
(***************************************************************************)
EXTENDS Client

Enroll(w) == [cmd |-> "enroll", wallet |-> w]
Shield(w, amount) == [cmd |-> "shield", wallet |-> w, amount |-> amount]
Pay(w, to, amount) == [cmd |-> "pay", wallet |-> w, to |-> to, amount |-> amount]

\* Two newcomers, one of them enrolled from two terminals at once.
Newcomers == [a |-> <<Enroll("alice"), Shield("alice", 1)>>,
              b |-> <<Enroll("bob")>>,
              c |-> <<Enroll("alice")>>]

\* A wallet with notes of 1 and 2, run from two terminals: both need the notes.
Shielded(id, w, amount) ==
    [kind |-> "transact", tx |->
        [id |-> id, root |-> id - 1, asp_root |-> 2,
         nullifiers |-> {dummy_input(id, 1), dummy_input(id, 2)},
         first |-> dummy_input(id, 1), ext_amount |-> amount,
         outputs |-> <<new_note(w, w, amount, <<id, 1>>), new_note(w, w, 0, <<id, 2>>)>>]]
TwoNotes ==
    <<[kind |-> "leaf", wallet |-> "alice"], [kind |-> "keys", wallet |-> "alice"],
      [kind |-> "leaf", wallet |-> "bob"], [kind |-> "keys", wallet |-> "bob"],
      Shielded(1, "alice", 1), Shielded(2, "alice", 2)>>
Contenders == [a |-> <<Pay("alice", "bob", 3), Pay("bob", "alice", 1)>>,
               b |-> <<Shield("alice", 1), Pay("alice", "bob", 1)>>]

\* Two payments from the same notes, small enough to be made once more.
Interrupted == [a |-> <<Pay("alice", "bob", 1)>>, b |-> <<Pay("alice", "bob", 1)>>]

MCScenarios ==
    [newcomers |-> [scripts |-> Newcomers, genesis |-> <<>>, others |-> 0, faults |-> 1],
     contenders |-> [scripts |-> Contenders, genesis |-> TwoNotes, others |-> 1, faults |-> 0],
     interrupted |-> [scripts |-> Interrupted, genesis |-> TwoNotes, others |-> 1, faults |-> 1]]
=============================================================================
