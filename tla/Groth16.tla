------------------------------ MODULE Groth16 -------------------------------
(***************************************************************************)
(* The verifier contract and the encodings that keys and proofs go through *)
(* on their way to it.                                                     *)
(*                                                                         *)
(* A field element is 32 bytes wherever it is written, so bytes are        *)
(* sequences of field elements.  The pairing is the host's: it holds when  *)
(* the points are those a prover made for this key and combination.        *)
(***************************************************************************)
EXTENDS Integers, Sequences, SequencesExt

G1Point(n) == [x |-> n, y |-> n + 1]
G2Point(n) == [x |-> [c0 |-> n, c1 |-> n + 1], y |-> [c0 |-> n + 2, c1 |-> n + 3]]

\* A verifying key for so many public inputs.
VerifyingKey(inputs) ==
    [alpha |-> G1Point(10), beta |-> G2Point(20), gamma |-> G2Point(30),
     delta |-> G2Point(40), ic |-> [i \in 1 .. inputs + 1 |-> G1Point(50 + 2 * i)]]
-----------------------------------------------------------------------------
(* Encodings *)

g1_to_soroban_bytes(p) == <<p.x, p.y>>

\* A bug: the real part first, as in the JSON.
G2RealFirst(p) == <<p.x.c0, p.x.c1, p.y.c0, p.y.c1>>

\* The imaginary part first.
g2_to_soroban_bytes(p) == <<p.x.c1, p.x.c0, p.y.c1, p.y.c0>>

\* The host reads points in the same order.
G1FromBytes(b) == [x |-> b[1], y |-> b[2]]
G2FromBytes(b) == [x |-> [c0 |-> b[2], c1 |-> b[1]], y |-> [c0 |-> b[4], c1 |-> b[3]]]

g1_to_snarkjs(p) == <<p.x, p.y, 1>>
g2_to_snarkjs(p) == <<<<p.x.c0, p.x.c1>>, <<p.y.c0, p.y.c1>>, <<1, 0>>>>

vk_to_snarkjs_json(vk) ==
    [vk_alpha_1 |-> g1_to_snarkjs(vk.alpha), vk_beta_2 |-> g2_to_snarkjs(vk.beta),
     vk_gamma_2 |-> g2_to_snarkjs(vk.gamma), vk_delta_2 |-> g2_to_snarkjs(vk.delta),
     IC |-> [i \in DOMAIN vk.ic |-> g1_to_snarkjs(vk.ic[i])]]

\* The verifier's build script: the JSON to the constants of vk.rs.
g1_bytes(pt) == g1_to_soroban_bytes([x |-> pt[1], y |-> pt[2]])
fq2_from_decimals(c0, c1) == [c0 |-> c0, c1 |-> c1]
g2_bytes(pt) ==
    g2_to_soroban_bytes([x |-> fq2_from_decimals(pt[1][1], pt[1][2]),
                         y |-> fq2_from_decimals(pt[2][1], pt[2][2])])
vk_rs_from_json(json) ==
    [alpha |-> g1_bytes(json.vk_alpha_1), beta |-> g2_bytes(json.vk_beta_2),
     gamma |-> g2_bytes(json.vk_gamma_2), delta |-> g2_bytes(json.vk_delta_2),
     ic |-> [i \in DOMAIN json.IC |-> g1_bytes(json.IC[i])]]

\* The key the contract has.
embedded_vk(vk_rs) ==
    [alpha |-> G1FromBytes(vk_rs.alpha), beta |-> G2FromBytes(vk_rs.beta),
     gamma |-> G2FromBytes(vk_rs.gamma), delta |-> G2FromBytes(vk_rs.delta),
     ic |-> [i \in DOMAIN vk_rs.ic |-> G1FromBytes(vk_rs.ic[i])]]

\* The other files made from the same key: constants, and one run of bytes
\* with the number of IC points before them.
write_vk_rust_const(vk) ==
    [alpha |-> g1_to_soroban_bytes(vk.alpha), beta |-> g2_to_soroban_bytes(vk.beta),
     gamma |-> g2_to_soroban_bytes(vk.gamma), delta |-> g2_to_soroban_bytes(vk.delta),
     ic |-> [i \in DOMAIN vk.ic |-> g1_to_soroban_bytes(vk.ic[i])]]
write_vk_soroban_bin(vk) ==
    g1_to_soroban_bytes(vk.alpha) \o g2_to_soroban_bytes(vk.beta)
      \o g2_to_soroban_bytes(vk.gamma) \o g2_to_soroban_bytes(vk.delta)
      \o <<Len(vk.ic)>> \o FlattenSeq([i \in DOMAIN vk.ic |-> g1_to_soroban_bytes(vk.ic[i])])

\* The bytes by their documented layout.
BinLayout(bytes) ==
    [alpha |-> SubSeq(bytes, 1, 2), beta |-> SubSeq(bytes, 3, 6), gamma |-> SubSeq(bytes, 7, 10),
     delta |-> SubSeq(bytes, 11, 14),
     ic |-> [i \in 1 .. bytes[15] |-> SubSeq(bytes, 14 + 2 * i, 15 + 2 * i)]]

\* The verifier's tests take their key from arkworks.
g1_bytes_from_ark(p) == <<p.x, p.y>>
g2_bytes_from_ark(p) == <<p.x.c1, p.x.c0, p.y.c1, p.y.c0>>
vk_bytes_from_ark(vk) ==
    [alpha |-> g1_bytes_from_ark(vk.alpha), beta |-> g2_bytes_from_ark(vk.beta),
     gamma |-> g2_bytes_from_ark(vk.gamma), delta |-> g2_bytes_from_ark(vk.delta),
     ic |-> [i \in DOMAIN vk.ic |-> g1_bytes_from_ark(vk.ic[i])]]
verification_key_from_bytes(vk_bytes) == embedded_vk(vk_bytes)

\* A proof as the pool takes it: A, B and C, together or one after another.
proof_soroban_parts(proof) ==
    [a |-> g1_to_soroban_bytes(proof.a), b |-> g2_to_soroban_bytes(proof.b),
     c |-> g1_to_soroban_bytes(proof.c)]
proof_bytes(proof) ==
    g1_to_soroban_bytes(proof.a) \o g2_to_soroban_bytes(proof.b) \o g1_to_soroban_bytes(proof.c)

PROOF_SIZE == 8
try_from(bytes) ==
    IF Len(bytes) # PROOF_SIZE THEN "MalformedProof"
    ELSE [a |-> SubSeq(bytes, 1, 2), b |-> SubSeq(bytes, 3, 6), c |-> SubSeq(bytes, 7, 8)]
-----------------------------------------------------------------------------
(* Proving and verifying *)

\* ic[0] and each input times its own point, as a linear combination.
vk_x(vk, inputs) == <<vk.ic[1], [i \in DOMAIN inputs |-> <<vk.ic[i + 1], inputs[i]>>]>>

prove(vk, inputs) ==
    [a |-> G1Point(1), b |-> G2Point(3), c |-> G1Point(7),
     statement |-> <<vk.alpha, vk.beta, vk.gamma, vk.delta, vk_x(vk, inputs)>>]

pairing_check(parts, proved, vk, combination) ==
    /\ G1FromBytes(parts.a) = proved.a /\ G2FromBytes(parts.b) = proved.b
    /\ G1FromBytes(parts.c) = proved.c
    /\ proved.statement = <<vk.alpha, vk.beta, vk.gamma, vk.delta, combination>>

\* The contract; `proved` is what the points stand for.
verify_with_vk(vk, parts, proved, inputs) ==
    IF Len(inputs) + 1 # Len(vk.ic) THEN "MalformedPublicInputs"
    ELSE IF pairing_check(parts, proved, vk, vk_x(vk, inputs)) THEN "Ok" ELSE "InvalidProof"
=============================================================================
