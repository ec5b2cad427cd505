------------------------------- MODULE MCPool -------------------------------
(***************************************************************************)
(* Pool with the calls worth trying: a call whose proof is made for it,    *)
(* and calls with one part that does not fit (an evicted or foreign root,  *)
(* a note of a foreign tree, a nullifier or commitment encoded beyond the  *)
(* modulus, a repeated one, an amount that wraps around the field, the     *)
(* hash, public amount or allowlist root of another call).                 *)
(***************************************************************************)
EXTENDS Pool

Note(a, k, b) == [amount |-> a, key |-> k, blinding |-> b]
Nul(n, i, w) == [elem |-> [note |-> n, index |-> i], wrap |-> w]
Com(n, w) == [elem |-> n, wrap |-> w]

MCKeys == {"A", "B"}
MCBlindings == {"d1", "d2", "x", "y", "f", "w0", "w1", "w2"}
MCAddresses == {"user", "fee", "pool"}
MCInitialBalance == [a \in MCAddresses |-> IF a = "user" THEN 3 ELSE 0]
MCAspRoots == {{"A"}, {"A", "B"}}
MCMembers == [r \in MCAspRoots |-> r]

ForeignNote == Note(2, "A", "f")
ForeignTree == [i \in 0 .. 1 |-> ForeignNote]

HeldRoots == {[i \in 0 .. n - 1 |-> get_root[i]] : n \in {0, 2, 4} \cap 0 .. nextIndex}

LeafNullifiers(is, w) == {Nul(get_root[i], i, w) : i \in is \cap DOMAIN get_root}
Inputs ==
    {<<a, b>> : a \in LeafNullifiers(0 .. 3, 0) \cup LeafNullifiers({0}, 1)
                        \cup {Nul(Note(0, "A", "d1"), 0, 0), Nul(ForeignNote, 0, 0)},
                b \in LeafNullifiers({0, 1}, 0)
                        \cup {Nul(Note(0, "A", "d2"), 0, 0),
                              Nul(Note(0, "A", "d2"), 1, 0)}}

Outputs0 == {Com(Note(1, "A", "x"), 0), Com(Note(2, "B", "x"), 0),
             Com(Note(0, "A", "x"), 0), Com(Note(FieldSize - 1, "A", "x"), 0)}
Outputs1 == {Com(Note(1, "A", "y"), 0), Com(Note(0, "A", "y"), 0),
             Com(Note(1, "A", "x"), 0), Com(Note(1, "A", "x"), 1)}

MCExtData == [recipient : {"user"}, ext_amount : -2 .. 2]
               \cup {[recipient |-> "pool", ext_amount |-> -1]}
OddExtData == [recipient : {"user"}, ext_amount : {-1, 1}]
OtherExt == [recipient |-> "fee", ext_amount |-> 0]

\* The proofs tried with an ExtData e.
ProofsFor(rs, pas, hs, as) ==
    [root : rs, input_nullifiers : Inputs,
     output_commitment0 : Outputs0, output_commitment1 : Outputs1,
     public_amount : pas, ext_data_hash : hs, asp_membership_root : as]

Try(p, e) == transact(p, e, "user") \/ exit(p, e)

FittingCall(e) ==
    \E p \in ProofsFor(HeldRoots \cup {ForeignTree},
                       {calculate_public_amount(e.ext_amount)}, {hash_ext_data(e)},
                       {get_asp_membership_root}) : Try(p, e)
OddCall(e) ==
    \/ \E p \in ProofsFor({get_root}, {0, 1}, {hash_ext_data(e)},
                          {get_asp_membership_root}) : Try(p, e)
    \/ \E p \in ProofsFor({get_root}, {calculate_public_amount(e.ext_amount)},
                          {hash_ext_data(e), OtherExt}, AspRoots) : Try(p, e)

MCNext ==
    \/ \E e \in MCExtData : FittingCall(e)
    \/ \E e \in OddExtData : OddCall(e)
    \/ register("user")
    \/ \E a, b \in Admins : update_admin(a, b)
    \/ \E a \in Admins, v \in Verifiers : update_verifier(a, v)
    \/ \E a \in Admins, m \in Asps : update_asp_membership(a, m)
    \/ token_transfer("user", "pool", 1)
    \/ \E r \in AspRoots : asp_publish("asp1", r)

\* The pool is deployed with asp1; asp2 keeps the root it starts with.
MCInit == Init /\ aspMembership = "asp1" /\ aspRoot = [m \in Asps |-> {"A"}]
MCSpec == MCInit /\ [][MCNext]_vars
=============================================================================
