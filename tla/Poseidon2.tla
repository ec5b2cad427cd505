------------------------------ MODULE Poseidon2 ------------------------------
(***************************************************************************)
(* The hash under every commitment, nullifier and Merkle node, written     *)
(* three times: the poseidon2 crate the indexer and the tools use, the     *)
(* circuit's templates, and the Soroban host function the contracts call   *)
(* with the constants of soroban-utils.  All three run round by round over *)
(* a small prime field, beside the definition of the permutation by its    *)
(* matrices, which also stands for the host function.                      *)
(*                                                                         *)
(* Vectors are sequences, so the source's index i is i + 1 here.           *)
(***************************************************************************)
EXTENDS Integers, Sequences, SequencesExt

CONSTANTS
    P,          \* the field's modulus
    Instances   \* parameter sets: t, d, rounds_f, rounds_p, diag, round_constants
                \* as given to Poseidon2Params::new, and the inputs to try

FieldAssumption == P \in Nat /\ P > 2 /\ \A k \in 2 .. P - 1 : P % k # 0

VARIABLES
    params, input,
    round,      \* -1 before the first linear layer, then the rounds done
    state,      \* the crate's current_state
    circuit,    \* the circuit's aux[round]
    reference,  \* the permutation by its definition
    panicked

vars == <<params, input, round, state, circuit, reference, panicked>>

Add(a, b) == (a + b) % P
Mul(a, b) == (a * b) % P
Sum(s) == FoldLeft(Add, 0, s)
-----------------------------------------------------------------------------
(* poseidon2.rs *)

Supported(d) == d \in {3, 5, 7}

sbox_p(d, x) ==
    LET x2 == Mul(x, x)
        x4 == Mul(x2, x2)
    IN  CASE d = 3 -> Mul(x2, x)
          [] d = 5 -> Mul(x4, x)
          [] d = 7 -> Mul(Mul(x4, x2), x)

sbox(d, s) == [i \in DOMAIN s |-> sbox_p(d, s[i])]

\* The block of four an index is in, and its place there.
Block(i) == (i - 1) \div 4
Lane(i) == ((i - 1) % 4) + 1

\* The block of four at b + 1 .. b + 4.
M4(s, b) ==
    LET t_0 == Add(s[b + 1], s[b + 2])
        t_1 == Add(s[b + 3], s[b + 4])
        t_2 == Add(2 * s[b + 2], t_1)
        t_3 == Add(2 * s[b + 4], t_0)
        t_4 == Add(4 * t_1, t_3)
        t_5 == Add(4 * t_0, t_2)
    IN  <<Add(t_3, t_5), t_5, Add(t_2, t_4), t_4>>

matmul_m4(s) ==
    [i \in DOMAIN s |-> M4(s, 4 * Block(i))[Lane(i)]]

\* A bug: the second layer of a wide state leaves out the first block.
SumWithoutFirst(s, i) ==
    Sum([j \in 1 .. Len(s) \div 4 |-> IF j = 1 THEN 0 ELSE s[4 * (j - 1) + i]])

SumOfBlocks(s, i) == Sum([j \in 1 .. Len(s) \div 4 |-> s[4 * (j - 1) + i]])

matmul_external(s) ==
    IF Len(s) \in {2, 3} THEN [i \in DOMAIN s |-> Add(s[i], Sum(s))]
    ELSE LET m4 == matmul_m4(s)
         IN  IF Len(s) = 4 THEN m4
             ELSE [i \in DOMAIN s |-> Add(m4[i], SumOfBlocks(m4, Lane(i)))]

\* Widths 2 and 3 have their diagonal in the code.
matmul_internal(s, diag) ==
    LET last == Len(s)
    IN  IF last \in {2, 3}
        THEN [i \in DOMAIN s |-> Add(Sum(s), IF i = last THEN 2 * s[i] ELSE s[i])]
        ELSE [i \in DOMAIN s |-> Add(Mul(diag[i], s[i]), Sum(s))]

\* The zip stops at the shorter of the two.
add_rc(s, rc) ==
    [i \in 1 .. (IF Len(s) < Len(rc) THEN Len(s) ELSE Len(rc)) |-> Add(s[i], rc[i])]

FullRound(s, r) ==
    matmul_external(sbox(params.d, add_rc(s, params.round_constants[r])))

PartialRound(s, r) ==
    matmul_internal(
        [s EXCEPT ![1] = sbox_p(params.d, Add(@, params.round_constants[r][1]))],
        params.diag)
-----------------------------------------------------------------------------
(* The circuit, for t = 2, 3 and 4 with d = 5: its constants are split     *)
(* into a table of full rounds and one of partial rounds.                  *)

HasCircuit == params.d = 5 /\ params.t \in {2, 3, 4}
Half == params.rounds_f \div 2

POSEIDON_FULL_ROUNDS(k) ==
    params.round_constants[IF k <= Half THEN k ELSE k + params.rounds_p]
POSEIDON_PARTIAL_ROUNDS(k) == params.round_constants[Half + k][1]

SBox(x) == Mul(x, Mul(Mul(x, x), Mul(x, x)))

LinearLayer(s) ==
    IF Len(s) = 4 THEN M4(s, 0) ELSE [i \in DOMAIN s |-> Add(Sum(s), s[i])]

ExternalRound(s, k) ==
    LinearLayer([i \in DOMAIN s |-> SBox(Add(s[i], POSEIDON_FULL_ROUNDS(k)[i]))])

InternalRound(s, k) ==
    LET first == SBox(Add(s[1], POSEIDON_PARTIAL_ROUNDS(k)))
        after == [s EXCEPT ![1] = first]
    IN  [i \in DOMAIN s |-> Add(Sum(after), Mul(after[i], params.diag[i]))]
-----------------------------------------------------------------------------
(* The permutation by its matrices *)

MDS == <<<<5, 7, 1, 3>>, <<4, 6, 1, 1>>, <<1, 3, 5, 7>>, <<1, 1, 4, 6>>>>

ExternalMatrix(t) ==
    [i, j \in 1 .. t |->
        IF t < 4 THEN (IF i = j THEN 2 ELSE 1)
        ELSE MDS[Lane(i)][Lane(j)]
             * (IF t > 4 /\ Block(i) = Block(j) THEN 2 ELSE 1)]
InternalMatrix(t, diag) ==
    [i, j \in 1 .. t |-> IF i = j THEN Add(diag[i], 1) ELSE 1]

Apply(m, s) ==
    [i \in DOMAIN s |-> Sum([j \in DOMAIN s |-> Mul(m[i, j], s[j])])]
Power(x, n) == FoldLeft(LAMBDA acc, i : Mul(acc, x), 1, [i \in 1 .. n |-> i])

Layer(r) ==
    IF r <= Half \/ r > Half + params.rounds_p THEN ExternalMatrix(params.t)
    ELSE InternalMatrix(params.t, params.diag)
Nonlinear(s, r) ==
    [i \in DOMAIN s |->
        IF i = 1 \/ Layer(r) = ExternalMatrix(params.t)
        THEN Power(Add(s[i], params.round_constants[r][i]), params.d)
        ELSE s[i]]
-----------------------------------------------------------------------------
(* The steps of permutation *)

rounds == params.rounds_f + params.rounds_p

\* The assertions of Poseidon2Params::new.
new(p) == p.d \in {3, 5, 7, 11} /\ p.rounds_f % 2 = 0

Init ==
    /\ params \in {p \in Instances : new(p)}
    /\ input \in params.inputs
    /\ round = -1 /\ panicked = FALSE
    /\ state = input /\ circuit = input /\ reference = input

Linear ==
    /\ round = -1 /\ round' = 0
    /\ state' = matmul_external(state)
    /\ circuit' = IF HasCircuit THEN LinearLayer(circuit) ELSE circuit
    /\ reference' = Apply(ExternalMatrix(params.t), reference)
    /\ UNCHANGED <<params, input, panicked>>

Round(crate(_, _), template(_, _), k) ==
    /\ ~ panicked /\ round' = round + 1
    /\ UNCHANGED <<params, input>>
    /\ IF Supported(params.d)
       THEN /\ state' = crate(state, round + 1)
            /\ circuit' = IF HasCircuit THEN template(circuit, k) ELSE circuit
            /\ reference' = Apply(Layer(round + 1), Nonlinear(reference, round + 1))
            /\ UNCHANGED panicked
       ELSE panicked' = TRUE /\ UNCHANGED <<state, circuit, reference>>

FirstFull == round \in 0 .. Half - 1 /\ Round(FullRound, ExternalRound, round + 1)
Partial ==
    /\ round \in Half .. Half + params.rounds_p - 1
    /\ Round(PartialRound, InternalRound, round + 1 - Half)
LastFull ==
    /\ round \in Half + params.rounds_p .. rounds - 1
    /\ Round(FullRound, ExternalRound, round + 1 - params.rounds_p)

Next == Linear \/ FirstFull \/ Partial \/ LastFull
Spec == Init /\ [][Next]_vars
-----------------------------------------------------------------------------
(* soroban-utils: the host permutes, the contract reduces *)

InRange(xs) == \A i \in DOMAIN xs : xs[i] < P

\* out_0 is what the host returns first.
poseidon2_compress(left, right, out_0) ==
    IF ~ InRange(<<left, right>>) THEN "panic"
    ELSE IF out_0 + left >= P THEN (out_0 + left) % P ELSE out_0 + left

poseidon2_hash2(a, b, sep, out_0) ==
    IF ~ InRange(<<a, b, sep>>) THEN "panic" ELSE out_0
-----------------------------------------------------------------------------
\* The crate's folded matrices, the circuit's templates with their own tables,
\* and the permutation's definition compute the same state after every round,
\* and at the end the contract's compress and hash2 return what the circuit's
\* templates do: a note committed off chain can be proved and settled.
ImplementationsAgree ==
    /\ state = reference
    /\ HasCircuit => circuit = reference
    /\ round = rounds /\ ~ panicked =>
         /\ params.t = 2 => poseidon2_compress(input[1], input[2], reference[1])
                              = Add(state[1], input[1])
         /\ params.t = 3 => poseidon2_hash2(input[1], input[2], input[3], reference[1])
                              = state[1]
=============================================================================
