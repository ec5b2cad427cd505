------------------------- MODULE Poseidon2Instances -------------------------
(***************************************************************************)
(* The parameter sets of the poseidon2 crate and of soroban-utils, by the  *)
(* shape of their tables, and the order in which a permutation reads them. *)
(*                                                                         *)
(* A row of round constants is its width and the columns that are not      *)
(* zero.  A diagonal too large to write is a row of opaque entries.  A     *)
(* modulus is the sequence of its digits.                                  *)
(***************************************************************************)
EXTENDS Integers, Sequences, SequencesExt

VARIABLES
    params,
    round,     \* -1 before the first linear layer, then the rounds done
    width,     \* the length of current_state
    read,      \* the table entries read so far
    panicked

vars == <<params, round, width, read, panicked>>
-----------------------------------------------------------------------------
(* fields/: four decimal digits at a time, and bn256_modulus: bytes *)

Decimal(digits) == [base |-> 10000, digits |-> digits]
FpBabyBear == Decimal(<<20, 1326, 5921>>)
FpGoldiLocks == Decimal(<<1844, 6744, 694, 1458, 4321>>)
FpBLS12 == Decimal(<<5, 2435, 8751, 7512, 6190, 4794, 4774, 508, 1859, 6583,
    7690, 5525, 52, 7637, 8226, 365, 8699, 9385, 8118, 4513>>)
FpBN256 == Decimal(<<2, 1888, 2428, 7183, 9275, 2222, 4640, 5745, 2572, 7508,
    8548, 3644, 41, 6034, 3436, 9820, 4186, 5758, 849, 5617>>)
FpPallas == Decimal(<<2, 8948, 223, 932, 9048, 8558, 9274, 6252, 1719, 7696,
    3363, 564, 8194, 1560, 7159, 5467, 6764, 3499, 6763, 337>>)
FpVesta == Decimal(<<2, 8948, 223, 932, 9048, 8558, 9274, 6252, 1719, 7696,
    3363, 564, 8194, 1647, 3796, 7974, 2748, 3933, 6294, 8097>>)

bn256_modulus == [base |-> 256, digits |->
    <<48, 100, 78, 114, 225, 49, 160, 41, 184, 80, 69, 182, 129, 129, 88, 93,
      40, 51, 232, 72, 121, 185, 112, 145, 67, 225, 245, 147, 240, 0, 0, 1>>]

residue(p, k) == FoldLeft(LAMBDA r, digit : (r * p.base + digit) % k, 0, p.digits)

-----------------------------------------------------------------------------
(* Tables *)

Full(t) == [width |-> t, nonzero |-> 1 .. t]
Partial(t) == [width |-> t, nonzero |-> {1}]
Rows(n, row) == [i \in 1 .. n |-> row]
RC(t, before, between, after) ==
    Rows(before, Full(t)) \o Rows(between, Partial(t)) \o Rows(after, Full(t))

Opaque(t) == [i \in 1 .. t |-> "constant"]

babybear_RC16 == RC(16, 4, 13, 4)
babybear_MAT_DIAG16_M_1 == Opaque(16)
babybear_RC24 == RC(24, 4, 21, 4)
babybear_MAT_DIAG24_M_1 == Opaque(24)
goldilocks_RC8 == RC(8, 4, 22, 4)
goldilocks_MAT_DIAG8_M_1 == Opaque(8)
goldilocks_RC12 == RC(12, 4, 22, 4)
goldilocks_MAT_DIAG12_M_1 == Opaque(12)
goldilocks_RC16 == RC(16, 4, 22, 4)
goldilocks_MAT_DIAG16_M_1 == Opaque(16)
goldilocks_RC20 == RC(20, 4, 22, 4)
goldilocks_MAT_DIAG20_M_1 == Opaque(20)
bls12_RC2 == RC(2, 4, 56, 4)
bls12_MAT_DIAG2_M_1 == <<1, 2>>
bls12_RC3 == RC(3, 4, 56, 4)
bls12_MAT_DIAG3_M_1 == <<1, 1, 2>>
bls12_RC4 == RC(4, 4, 56, 4)
bls12_MAT_DIAG4_M_1 == Opaque(4)

bls12_RC8 == RC(8, 4, 57, 4)
bls12_MAT_DIAG8_M_1 == Opaque(8)
bn256_RC2 == RC(2, 4, 56, 4)
bn256_MAT_DIAG2_M_1 == <<1, 2>>
bn256_RC3 == RC(3, 4, 56, 4)
bn256_MAT_DIAG3_M_1 == <<1, 1, 2>>
bn256_RC4 == RC(4, 4, 56, 4)
bn256_MAT_DIAG4_M_1 == Opaque(4)
pallas_RC3 == RC(3, 4, 56, 4)
pallas_MAT_DIAG3_M_1 == <<1, 1, 2>>
pallas_RC4 == RC(4, 4, 56, 4)
pallas_MAT_DIAG4_M_1 == Opaque(4)
pallas_RC8 == RC(8, 4, 57, 4)
pallas_MAT_DIAG8_M_1 == Opaque(8)
vesta_RC3 == RC(3, 4, 56, 4)
vesta_MAT_DIAG3_M_1 == <<1, 1, 2>>

\* soroban-utils, constants.rs
\* Row 30 has one entry; the other rows of partial rounds end with a zero.
get_round_constants_t2 ==
    [RC(2, 4, 56, 4) EXCEPT ![30] = [width |-> 1, nonzero |-> {1}]]
get_round_constants_t3 == RC(3, 4, 56, 4)
-----------------------------------------------------------------------------
(* Parameter sets *)

new(field, t, d, rounds_f, rounds_p, diag, round_constants) ==
    [field |-> field, t |-> t, d |-> d, rounds_f |-> rounds_f,
     rounds_p |-> rounds_p, diag |-> diag, round_constants |-> round_constants]

POSEIDON2_BABYBEAR_16_PARAMS ==
    new(FpBabyBear, 16, 7, 8, 13, babybear_MAT_DIAG16_M_1, babybear_RC16)
POSEIDON2_BABYBEAR_24_PARAMS ==
    new(FpBabyBear, 24, 7, 8, 21, babybear_MAT_DIAG24_M_1, babybear_RC24)
POSEIDON2_GOLDILOCKS_8_PARAMS ==
    new(FpGoldiLocks, 8, 7, 8, 22, goldilocks_MAT_DIAG8_M_1, goldilocks_RC8)
POSEIDON2_GOLDILOCKS_12_PARAMS ==
    new(FpGoldiLocks, 12, 7, 8, 22, goldilocks_MAT_DIAG12_M_1, goldilocks_RC12)
POSEIDON2_GOLDILOCKS_16_PARAMS ==
    new(FpGoldiLocks, 16, 7, 8, 22, goldilocks_MAT_DIAG16_M_1, goldilocks_RC16)
POSEIDON2_GOLDILOCKS_20_PARAMS ==
    new(FpGoldiLocks, 20, 7, 8, 22, goldilocks_MAT_DIAG20_M_1, goldilocks_RC20)
POSEIDON2_BLS_2_PARAMS ==
    new(FpBLS12, 2, 5, 8, 56, bls12_MAT_DIAG2_M_1, bls12_RC2)
POSEIDON2_BLS_3_PARAMS ==
    new(FpBLS12, 3, 5, 8, 56, bls12_MAT_DIAG3_M_1, bls12_RC3)
POSEIDON2_BLS_4_PARAMS ==
    new(FpBLS12, 4, 5, 8, 56, bls12_MAT_DIAG4_M_1, bls12_RC4)
POSEIDON2_BLS_8_PARAMS ==
    new(FpBLS12, 8, 5, 8, 57, bls12_MAT_DIAG8_M_1, bls12_RC8)
POSEIDON2_BN256_PARAMS_2 ==
    new(FpBN256, 2, 5, 8, 56, bn256_MAT_DIAG2_M_1, bn256_RC2)
POSEIDON2_BN256_PARAMS_3 ==
    new(FpBN256, 3, 5, 8, 56, bn256_MAT_DIAG3_M_1, bn256_RC3)
POSEIDON2_BN256_PARAMS_4 ==
    new(FpBN256, 4, 5, 8, 56, bn256_MAT_DIAG4_M_1, bn256_RC4)
POSEIDON2_PALLAS_3_PARAMS ==
    new(FpPallas, 3, 5, 8, 56, pallas_MAT_DIAG3_M_1, pallas_RC3)
POSEIDON2_PALLAS_4_PARAMS ==
    new(FpPallas, 4, 5, 8, 56, pallas_MAT_DIAG4_M_1, pallas_RC4)
POSEIDON2_PALLAS_8_PARAMS ==
    new(FpPallas, 8, 5, 8, 57, pallas_MAT_DIAG8_M_1, pallas_RC8)
POSEIDON2_VESTA_PARAMS ==
    new(FpVesta, 3, 5, 8, 56, vesta_MAT_DIAG3_M_1, vesta_RC3)

\* A bug: the host is asked for the rounds of a wider state.
CompressRoundsOfWide == new(bn256_modulus, 2, 5, 8, 57, <<1, 2>>, get_round_constants_t2)

\* What poseidon2_compress and poseidon2_hash2 ask the host for.  The host knows
\* its field by name (BN254); bn256_modulus is the one the contracts check their
\* inputs against and reduce by.
poseidon2_compress == new(bn256_modulus, 2, 5, 8, 56, <<1, 2>>, get_round_constants_t2)
poseidon2_hash2 == new(bn256_modulus, 3, 5, 8, 56, <<1, 1, 2>>, get_round_constants_t3)

Instances == {
    POSEIDON2_BABYBEAR_16_PARAMS, POSEIDON2_BABYBEAR_24_PARAMS,
    POSEIDON2_GOLDILOCKS_8_PARAMS, POSEIDON2_GOLDILOCKS_12_PARAMS,
    POSEIDON2_GOLDILOCKS_16_PARAMS, POSEIDON2_GOLDILOCKS_20_PARAMS,
    POSEIDON2_BLS_2_PARAMS, POSEIDON2_BLS_3_PARAMS, POSEIDON2_BLS_4_PARAMS,
    POSEIDON2_BLS_8_PARAMS, POSEIDON2_BN256_PARAMS_2,
    POSEIDON2_BN256_PARAMS_3, POSEIDON2_BN256_PARAMS_4,
    POSEIDON2_PALLAS_3_PARAMS, POSEIDON2_PALLAS_4_PARAMS,
    POSEIDON2_PALLAS_8_PARAMS, POSEIDON2_VESTA_PARAMS, poseidon2_compress,
    poseidon2_hash2}
-----------------------------------------------------------------------------
(* permutation, by what it reads *)

Half == params.rounds_f \div 2
rounds == params.rounds_f + params.rounds_p

Init ==
    /\ params \in Instances
    /\ round = -1 /\ width = params.t /\ read = {} /\ panicked = FALSE

\* matmul_external has a case for the width.
Linear ==
    /\ round = -1 /\ round' = 0
    /\ panicked' = (params.t \notin {2, 3, 4, 8, 12, 16, 20, 24})
    /\ UNCHANGED <<params, width, read>>

Row == params.round_constants[round + 1]
HasRow == round + 1 \in DOMAIN params.round_constants

\* add_rc zips the state with its row; the linear layer indexes t elements.
FullRound ==
    /\ ~ panicked
    /\ round \in (0 .. Half - 1) \cup (Half + params.rounds_p .. rounds - 1)
    /\ round' = round + 1
    /\ IF HasRow /\ params.d \in {3, 5, 7}
       THEN /\ width' = IF Row.width < width THEN Row.width ELSE width
            /\ read' = read \cup {<<round + 1, i>> : i \in 1 .. width'}
            /\ panicked' = (width' < params.t)
       ELSE panicked' = TRUE /\ UNCHANGED <<width, read>>
    /\ UNCHANGED params

\* One constant; from width 4 on the diagonal is read as well.
PartialRound ==
    /\ ~ panicked /\ round \in Half .. Half + params.rounds_p - 1
    /\ round' = round + 1
    /\ IF HasRow /\ params.d \in {3, 5, 7} /\ (params.t < 4 \/ Len(params.diag) >= width)
       THEN read' = read \cup {<<round + 1, 1>>} /\ UNCHANGED panicked
       ELSE panicked' = TRUE /\ UNCHANGED read
    /\ UNCHANGED <<params, width>>

Next == Linear \/ FullRound \/ PartialRound
Spec == Init /\ [][Next]_vars
-----------------------------------------------------------------------------
\* A permutation reads its tables to the last constant and never past them: a
\* table with a row too few panics, and one with a row too many, or a constant a
\* partial round skips, would be another function under the same name.  For
\* widths 2 and 3 matmul_internal does not read the diagonal: what it has written
\* out is the table's.
TablesFit ==
    /\ ~ panicked
    /\ round = rounds =>
         {<<r, i>> \in read : i \in params.round_constants[r].nonzero}
           = UNION {{<<r, i>> : i \in params.round_constants[r].nonzero} :
                       r \in DOMAIN params.round_constants}
    /\ Len(params.diag) = params.t
    /\ params.t = 2 => params.diag = <<1, 2>>
    /\ params.t = 3 => params.diag = <<1, 1, 2>>

\* The power is invertible in the field, so that a round loses nothing: the
\* exponent, a prime, does not divide the modulus less one.
SboxInvertible == residue(params.field, params.d) # 1

\* The contracts ask for the width, degree, rounds and diagonal the crate has, with
\* a table that is non-zero in the same places (the constants' values are not
\* modelled), and bn256_modulus is the crate's modulus: bytes and decimals name one number, since both are below 2^256
\* and agree modulo every number up to 210.
CrateOf(t) == IF t = 2 THEN POSEIDON2_BN256_PARAMS_2 ELSE POSEIDON2_BN256_PARAMS_3
Comparable(p) ==
    [p EXCEPT !.field = 0, !.round_constants =
        [r \in DOMAIN p.round_constants |-> p.round_constants[r].nonzero]]
SameNumber(p, q) == \A k \in 2 .. 210 : residue(p, k) = residue(q, k)
ContractHashesAsCrate ==
    params \in {poseidon2_compress, poseidon2_hash2} /\ round = -1 =>
        /\ Comparable(params) = Comparable(CrateOf(params.t))
        /\ SameNumber(params.field, CrateOf(params.t).field)
=============================================================================
