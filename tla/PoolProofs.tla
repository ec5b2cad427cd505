----------------------------- MODULE PoolProofs -----------------------------
(***************************************************************************)
(* The pool's invariants, proved for every value of the constants.  The    *)
(* inductive invariant is TypeOK, SettlementInv, CommitmentsMatchTree and  *)
(* Solvency together: what a settlement spends is in the tree it was       *)
(* proved against, that tree is a prefix of the current one, and so the    *)
(* sum of the live leaves moves by the tokens that moved.                  *)
(***************************************************************************)
EXTENDS Pool, NatLemmas

(* Partial sums, and the balance the circuit states modulo the field *)

\* Partial sums exist: by the least length for which they do not.
LEMMA SumsExist ==
    ASSUME NEW n \in Nat, NEW v, \A i \in 0 .. n - 1 : v[i] \in Int
    PROVE  \E s : /\ s = [i \in 0 .. n |-> IF i = 0 THEN 0 ELSE s[i - 1] + v[i - 1]]
                  /\ \A i \in 0 .. n : s[i] \in Int
<1> DEFINE Good(k) == \E s : /\ s = [i \in 0 .. k |-> IF i = 0 THEN 0 ELSE s[i - 1] + v[i - 1]]
                             /\ \A i \in 0 .. k : s[i] \in Int
           Bad == {k \in 0 .. n : ~ Good(k)}
<1>1. Good(0)
  <2> DEFINE s == [i \in 0 .. 0 |-> 0]
  <2>1. s = [i \in 0 .. 0 |-> IF i = 0 THEN 0 ELSE s[i - 1] + v[i - 1]]
    OBVIOUS
  <2>2. \A i \in 0 .. 0 : s[i] \in Int
    OBVIOUS
  <2>3. QED
    BY <2>1, <2>2
<1>2. ASSUME NEW k \in 1 .. n, Good(k - 1)
      PROVE  Good(k)
  <2>1. PICK s : /\ s = [i \in 0 .. k - 1 |-> IF i = 0 THEN 0 ELSE s[i - 1] + v[i - 1]]
                 /\ \A i \in 0 .. k - 1 : s[i] \in Int
    BY <1>2
  <2> DEFINE t == [i \in 0 .. k |-> IF i = k THEN s[k - 1] + v[k - 1] ELSE s[i]]
  <2>2. \A i \in 0 .. k - 1 : t[i] = s[i]
    OBVIOUS
  <2>3. t[k] = s[k - 1] + v[k - 1]
    OBVIOUS
  <2>4. \A i \in 0 .. k - 1 : s[i] = IF i = 0 THEN 0 ELSE s[i - 1] + v[i - 1]
    BY <2>1
  <2> HIDE DEF t
  <2>5. \A i \in 0 .. k : t[i] = IF i = 0 THEN 0 ELSE t[i - 1] + v[i - 1]
    BY <2>2, <2>3, <2>4
  <2>6. t = [i \in 0 .. k |-> t[i]]
    BY DEF t
  <2>7. t = [i \in 0 .. k |-> IF i = 0 THEN 0 ELSE t[i - 1] + v[i - 1]]
    BY <2>5, <2>6, Zenon
  <2>8. \A i \in 0 .. k : t[i] \in Int
    <3>1. k - 1 \in 0 .. k - 1 /\ k - 1 \in 0 .. n - 1
      OBVIOUS
    <3>2. s[k - 1] \in Int /\ v[k - 1] \in Int
      BY <2>1, <3>1, Zenon
    <3>3. t[k] \in Int
      BY <2>3, <3>2
    <3>4. \A i \in 0 .. k - 1 : t[i] \in Int
      BY <2>1, <2>2
    <3>5. \A i \in 0 .. k : i = k \/ i \in 0 .. k - 1
      OBVIOUS
    <3>6. QED
      BY <3>3, <3>4, <3>5
  <2>9. QED
    BY <2>7, <2>8
<1> HIDE DEF Good
<1>3. Bad = {}
  <2> SUFFICES ASSUME Bad # {} PROVE FALSE
    OBVIOUS
  <2>1. Bad \in SUBSET Nat
    OBVIOUS
  <2>2. PICK k \in Bad : \A j \in Bad : k <= j
    BY <2>1, LeastElement
  <2>3. k \in 0 .. n /\ ~ Good(k)
    OBVIOUS
  <2>4. k # 0
    BY <1>1, <2>3
  <2>5. k - 1 \in 0 .. n /\ ~ (k <= k - 1)
    BY <2>3, <2>4
  <2>6. k - 1 \notin Bad
    BY <2>2, <2>5
  <2>7. Good(k - 1)
    BY <2>5, <2>6
  <2>8. QED
    BY <1>2, <2>3, <2>4, <2>7
<1>4. Good(n)
  BY <1>3
<1>5. QED
  BY <1>4 DEF Good

\* PartialSums satisfies its defining equation.
LEMMA PartialSumsDef ==
    ASSUME NEW n \in Nat, NEW v, \A i \in 0 .. n - 1 : v[i] \in Int
    PROVE  /\ PartialSums(v, n)[0] = 0
           /\ \A i \in 0 .. n - 1 :
                 PartialSums(v, n)[i + 1] = PartialSums(v, n)[i] + v[i]
<1> DEFINE s == PartialSums(v, n)
           E(f) == f = [i \in 0 .. n |-> IF i = 0 THEN 0 ELSE f[i - 1] + v[i - 1]]
<1>1. s = CHOOSE f : E(f)
  BY DEF PartialSums
<1>2. PICK f : E(f) /\ \A i \in 0 .. n : f[i] \in Int
  BY SumsExist
<1>3. E(s)
  BY <1>1, <1>2, Zenon
<1> HIDE DEF s
<1>4. \A i \in 0 .. n : s[i] = IF i = 0 THEN 0 ELSE s[i - 1] + v[i - 1]
  BY <1>3
<1>5. s[0] = 0
  BY <1>4
<1>6. \A i \in 0 .. n - 1 : s[i + 1] = s[i] + v[i]
  BY <1>4
<1>7. QED
  BY <1>5, <1>6 DEF s

\* A function that starts at 0 and steps by the terms is the sums.
LEMMA SumIs ==
    ASSUME NEW n \in Nat, NEW v, NEW d \in [0 .. n -> Int], d[0] = 0,
           \A i \in 0 .. n - 1 : v[i] \in Int /\ d[i + 1] = d[i] + v[i]
    PROVE  PartialSums(v, n)[n] = d[n]
<1> DEFINE s == PartialSums(v, n)
           Bad == {i \in 0 .. n : s[i] # d[i]}
<1>1. s[0] = 0
  BY PartialSumsDef
<1>2. \A i \in 0 .. n - 1 : s[i + 1] = s[i] + v[i]
  BY PartialSumsDef
<1> HIDE DEF s
<1>3. Bad = {}
  <2> SUFFICES ASSUME Bad # {} PROVE FALSE
    OBVIOUS
  <2>1. Bad \in SUBSET Nat
    OBVIOUS
  <2>2. PICK k \in Bad : \A j \in Bad : k <= j
    BY <2>1, LeastElement
  <2>3. k \in 0 .. n /\ s[k] # d[k] /\ k # 0
    BY <1>1
  <2>4. k - 1 \in 0 .. n - 1 /\ k - 1 \in 0 .. n /\ ~ (k <= k - 1) /\ (k - 1) + 1 = k
    BY <2>3
  <2>5. s[k - 1] = d[k - 1]
    BY <2>2, <2>4
  <2>6. s[(k - 1) + 1] = d[(k - 1) + 1]
    BY <1>2, <2>4, <2>5
  <2>7. QED
    BY <2>3, <2>4, <2>6
<1>4. QED
  BY <1>3 DEF s

\* When the terms change by the steps of d, the sums change by d.
LEMMA SumShift ==
    ASSUME NEW n \in Nat, NEW v, NEW w, NEW d \in [0 .. n -> Int],
           \A i \in 0 .. n - 1 : v[i] \in Int /\ w[i] \in Int,
           d[0] = 0,
           \A i \in 0 .. n - 1 : w[i] = v[i] + (d[i + 1] - d[i])
    PROVE  /\ PartialSums(v, n)[n] \in Int
           /\ PartialSums(w, n)[n] = PartialSums(v, n)[n] + d[n]
<1>1. PICK f : /\ f = [i \in 0 .. n |-> IF i = 0 THEN 0 ELSE f[i - 1] + v[i - 1]]
               /\ \A i \in 0 .. n : f[i] \in Int
  BY SumsExist
<1>2. \A i \in 0 .. n : f[i] = IF i = 0 THEN 0 ELSE f[i - 1] + v[i - 1]
  BY <1>1
<1>3. f[0] = 0 /\ \A i \in 0 .. n - 1 : f[i + 1] = f[i] + v[i]
  BY <1>2
<1>4. f \in [0 .. n -> Int]
  <2>1. f = [i \in 0 .. n |-> f[i]]
    BY <1>1
  <2>2. QED
    BY <1>1, <2>1
<1>5. PartialSums(v, n)[n] = f[n]
  BY <1>3, <1>4, SumIs
<1> DEFINE g == [i \in 0 .. n |-> f[i] + d[i]]
<1>6. g \in [0 .. n -> Int] /\ g[0] = 0
  BY <1>3, <1>4
<1>7. ASSUME NEW i \in 0 .. n - 1
      PROVE  g[i + 1] = g[i] + w[i]
  <2>1. /\ f[i + 1] = f[i] + v[i] /\ w[i] = v[i] + (d[i + 1] - d[i])
        /\ f[i] \in Int /\ d[i] \in Int /\ d[i + 1] \in Int /\ v[i] \in Int
    BY <1>3, <1>4
  <2>2. g[i] = f[i] + d[i] /\ g[i + 1] = f[i + 1] + d[i + 1]
    OBVIOUS
  <2> HIDE DEF g
  <2>3. QED
    BY <2>1, <2>2
<1>8. g[n] = f[n] + d[n]
  OBVIOUS
<1> HIDE DEF g
<1>9. PartialSums(w, n)[n] = g[n]
  BY <1>6, <1>7, SumIs
<1>10. QED
  BY <1>4, <1>5, <1>8, <1>9

\* w has the terms of v, but for what i1 and i2 lose and what j1 and j2 gain: the
\* shape of a settlement, which spends two leaves and appends two.
Moved(v, w, n, i1, a1, i2, a2, j1, b1, j2, b2) ==
    /\ a1 \in Int /\ a2 \in Int /\ b1 \in Int /\ b2 \in Int
    /\ i1 \in 0 .. n - 1 /\ i2 \in 0 .. n - 1 /\ j1 \in 0 .. n - 1 /\ j2 \in 0 .. n - 1
    /\ \A i \in 0 .. n - 1 :
          /\ v[i] \in Int /\ w[i] \in Int
          /\ w[i] = v[i] - (IF i = i1 THEN a1 ELSE 0) - (IF i = i2 THEN a2 ELSE 0)
                         + (IF i = j1 THEN b1 ELSE 0) + (IF i = j2 THEN b2 ELSE 0)

\* The sum then changes by the difference of the gains and the losses.
LEMMA SumMove ==
    ASSUME NEW n \in Nat, NEW v, NEW w,
           NEW i1, NEW a1, NEW i2, NEW a2, NEW j1, NEW b1, NEW j2, NEW b2,
           Moved(v, w, n, i1, a1, i2, a2, j1, b1, j2, b2)
    PROVE  /\ PartialSums(v, n)[n] \in Int
           /\ PartialSums(w, n)[n] = PartialSums(v, n)[n] - a1 - a2 + b1 + b2
<1> USE DEF Moved
<1> DEFINE Before(k, i, x) == IF k < i THEN x ELSE 0
           d == [i \in 0 .. n |-> Before(j1, i, b1) + Before(j2, i, b2)
                                   - Before(i1, i, a1) - Before(i2, i, a2)]
<1>1. d \in [0 .. n -> Int] /\ d[0] = 0
  OBVIOUS
<1>2. ASSUME NEW i \in 0 .. n - 1
      PROVE  w[i] = v[i] + (d[i + 1] - d[i])
  <2>1. ASSUME NEW k \in 0 .. n - 1, NEW x \in Int
        PROVE  /\ Before(k, i + 1, x) = Before(k, i, x) + (IF i = k THEN x ELSE 0)
               /\ Before(k, i, x) \in Int
    OBVIOUS
  <2>2. /\ d[i] = Before(j1, i, b1) + Before(j2, i, b2)
                    - Before(i1, i, a1) - Before(i2, i, a2)
        /\ d[i + 1] = Before(j1, i + 1, b1) + Before(j2, i + 1, b2)
                        - Before(i1, i + 1, a1) - Before(i2, i + 1, a2)
    OBVIOUS
  <2> DEFINE At(k, x) == IF i = k THEN x ELSE 0
  <2>3. w[i] = v[i] - At(i1, a1) - At(i2, a2) + At(j1, b1) + At(j2, b2)
    OBVIOUS
  <2>4. /\ Before(j1, i + 1, b1) = Before(j1, i, b1) + At(j1, b1)
        /\ Before(j2, i + 1, b2) = Before(j2, i, b2) + At(j2, b2)
        /\ Before(i1, i + 1, a1) = Before(i1, i, a1) + At(i1, a1)
        /\ Before(i2, i + 1, a2) = Before(i2, i, a2) + At(i2, a2)
    BY <2>1
  <2>5. /\ Before(j1, i, b1) \in Int /\ Before(j2, i, b2) \in Int
        /\ Before(i1, i, a1) \in Int /\ Before(i2, i, a2) \in Int
        /\ At(j1, b1) \in Int /\ At(j2, b2) \in Int
        /\ At(i1, a1) \in Int /\ At(i2, a2) \in Int /\ v[i] \in Int
    OBVIOUS
  <2> HIDE DEF Before, At, d
  <2>6. QED
    BY <2>2, <2>3, <2>4, <2>5
<1>3. d[n] = b1 + b2 - a1 - a2
  OBVIOUS
<1> HIDE DEF d
<1>4. /\ PartialSums(v, n)[n] \in Int
      /\ PartialSums(w, n)[n] = PartialSums(v, n)[n] + d[n]
  BY <1>1, <1>2, SumShift
<1>5. QED
  BY <1>3, <1>4

\* A sum of naturals is at least each of its terms.
LEMMA SumAtLeast ==
    ASSUME NEW n \in Nat, NEW v, \A i \in 0 .. n - 1 : v[i] \in Nat, NEW k \in 0 .. n - 1
    PROVE  PartialSums(v, n)[n] >= v[k]
<1> DEFINE s == PartialSums(v, n)
           Good(i) == s[i] \in Nat /\ (i > k => s[i] >= v[k])
           Bad == {i \in 0 .. n : ~ Good(i)}
<1>1. s[0] = 0 /\ \A i \in 0 .. n - 1 : s[i + 1] = s[i] + v[i]
  BY PartialSumsDef
<1> HIDE DEF s
<1>2. Good(0)
  BY <1>1
<1>3. ASSUME NEW i \in 0 .. n - 1, Good(i)
      PROVE  Good(i + 1)
  <2>1. s[i] \in Nat /\ v[i] \in Nat /\ v[k] \in Nat /\ s[i + 1] = s[i] + v[i]
    BY <1>1, <1>3
  <2>2. CASE i = k
    BY <2>1, <2>2
  <2>3. CASE i # k
    BY <1>3, <2>1, <2>3
  <2>4. QED
    BY <2>2, <2>3
<1> HIDE DEF Good
<1>4. Bad = {}
  <2> SUFFICES ASSUME Bad # {} PROVE FALSE
    OBVIOUS
  <2>1. Bad \in SUBSET Nat
    OBVIOUS
  <2>2. PICK i \in Bad : \A j \in Bad : i <= j
    BY <2>1, LeastElement
  <2>3. i \in 0 .. n /\ ~ Good(i) /\ i # 0
    BY <1>2
  <2>4. i - 1 \in 0 .. n - 1 /\ i - 1 \in 0 .. n /\ ~ (i <= i - 1) /\ (i - 1) + 1 = i
    BY <2>3
  <2>5. Good(i - 1)
    BY <2>2, <2>4
  <2>6. Good((i - 1) + 1)
    BY <1>3, <2>4, <2>5
  <2>7. QED
    BY <2>3, <2>4, <2>6
<1>5. Good(n)
  BY <1>4
<1>6. QED
  BY <1>5 DEF Good, s
-----------------------------------------------------------------------------
\* The balance the circuit states modulo the field is one over the integers:
\* two inputs, two outputs and a public amount below MaxAmount cannot wrap.
LEMMA FieldBalance ==
    ASSUME NEW a1 \in 0 .. MaxAmount - 1, NEW a2 \in 0 .. MaxAmount - 1,
           NEW b1 \in 0 .. MaxAmount - 1, NEW b2 \in 0 .. MaxAmount - 1,
           NEW x \in Int, Abs(x) < MaxAmount,
           (a1 + a2 + calculate_public_amount(x)) % FieldSize = (b1 + b2) % FieldSize
    PROVE  a1 + a2 + x = b1 + b2
<1>1. ASSUME NEW m \in Nat, m < FieldSize
      PROVE  m % FieldSize = m /\ (m + FieldSize) % FieldSize = m
  BY <1>1, FieldAssumption
<1>2. (b1 + b2) % FieldSize = b1 + b2
  BY <1>1, FieldAssumption
<1>3. CASE x >= 0
  <2>1. (a1 + a2 + x) % FieldSize = a1 + a2 + x
    BY <1>1, <1>3, FieldAssumption DEF Abs
  <2>2. QED
    BY <1>2, <1>3, <2>1 DEF calculate_public_amount
<1>4. CASE x < 0 /\ a1 + a2 + x >= 0
  <2>1. ((a1 + a2 + x) + FieldSize) % FieldSize = a1 + a2 + x
    BY <1>1, <1>4, FieldAssumption DEF Abs
  <2>2. (a1 + a2 + x) + FieldSize = a1 + a2 + calculate_public_amount(x)
    BY <1>4, FieldAssumption DEF calculate_public_amount
  <2>3. QED
    BY <1>2, <2>1, <2>2
<1>5. CASE x < 0 /\ a1 + a2 + x < 0
  <2>1. a1 + a2 + FieldSize + x \in Nat /\ a1 + a2 + FieldSize + x < FieldSize
    BY <1>5, FieldAssumption DEF Abs
  <2>2. a1 + a2 + FieldSize + x = a1 + a2 + calculate_public_amount(x)
    BY <1>5, FieldAssumption DEF calculate_public_amount
  <2>3. a1 + a2 + FieldSize + x = b1 + b2
    BY <1>1, <1>2, <2>1, <2>2
  <2>4. QED
    BY <1>5, <2>3, FieldAssumption DEF Abs
<1>6. QED
  BY <1>3, <1>4, <1>5
-----------------------------------------------------------------------------
\* The inductive invariant of the settlement layer.
Inv == TypeOK /\ SettlementInv /\ CommitmentsMatchTree /\ Solvency

-----------------------------------------------------------------------------
(* What a call that returns Ok has passed *)

\* settle answers Ok only past each of its checks.
LEMMA SettleOk ==
    ASSUME NEW p, NEW e, NEW ins, NEW b, SettleResult(p, e, ins, b) = "Ok"
    PROVE  /\ ensure_proof_field_elements(p)
           /\ is_known_root(p.root)
           /\ ensure_nullifiers_unspent(p.input_nullifiers)
           /\ ensure_public_amount(p, e)
           /\ ensure_asp_root(p)
           /\ verify_proof(p)
           /\ ins => ensure_commitments_unused(p)
           /\ ins => ~ is_full
           /\ CanPayOut(b, e)
BY DEF SettleResult

\* What the circuit attests of a proof that settles.
LEMMA CircuitOk ==
    ASSUME NEW p, NEW e, NEW ins, NEW b, SettleResult(p, e, ins, b) = "Ok"
    PROVE  /\ Len(p.input_nullifiers) = 2
           /\ p.input_nullifiers[1].elem # p.input_nullifiers[2].elem
           /\ \A k \in {1, 2} :
                 /\ SpendsFrom(p.root, p.input_nullifiers[k].elem)
                 /\ p.input_nullifiers[k].elem.note.key \in Members[p.asp_membership_root]
           /\ p.output_commitment0.elem.amount < MaxAmount
           /\ p.output_commitment1.elem.amount < MaxAmount
           /\ (p.input_nullifiers[1].elem.note.amount
                 + p.input_nullifiers[2].elem.note.amount + p.public_amount) % FieldSize
                = (p.output_commitment0.elem.amount + p.output_commitment1.elem.amount)
                     % FieldSize
<1> DEFINE i == <<p.input_nullifiers[1].elem, p.input_nullifiers[2].elem>>
           o == <<p.output_commitment0.elem, p.output_commitment1.elem>>
<1>1. verify_proof(p)
  BY SettleOk
<1>2. /\ Len(p.input_nullifiers) = 2
      /\ PolicyTransaction(p.root, i, o, p.public_amount, p.asp_membership_root)
  BY <1>1 DEF verify_proof
<1>3. /\ i[1] = p.input_nullifiers[1].elem /\ i[2] = p.input_nullifiers[2].elem
      /\ o[1] = p.output_commitment0.elem /\ o[2] = p.output_commitment1.elem
  OBVIOUS
<1>4. 1 \in 1 .. 2 /\ 2 \in 1 .. 2
  OBVIOUS
<1> HIDE DEF i, o
<1>5. /\ i[1] # i[2]
      /\ SpendsFrom(p.root, i[1]) /\ SpendsFrom(p.root, i[2])
      /\ i[1].note.key \in Members[p.asp_membership_root]
      /\ i[2].note.key \in Members[p.asp_membership_root]
      /\ o[1].amount < MaxAmount /\ o[2].amount < MaxAmount
      /\ (i[1].note.amount + i[2].note.amount + p.public_amount) % FieldSize
           = (o[1].amount + o[2].amount) % FieldSize
  BY <1>2, <1>4, Zenon DEF PolicyTransaction
<1>6. QED
  BY <1>2, <1>3, <1>5

\* transact answers Ok only for a deposit its sender covers, and past settle.
LEMMA TransactOk ==
    ASSUME NEW p, NEW e, NEW s, TransactResult(p, e, s) = "Ok"
    PROVE  /\ e.ext_amount > 0 => ~ (balance[s] < e.ext_amount)
           /\ SettleResult(p, e, TRUE, PayIn(e, s)) = "Ok"
BY DEF TransactResult

\* exit answers Ok only for a withdrawal from a full tree, and past settle.
LEMMA ExitOk ==
    ASSUME NEW p, NEW e, ExitResult(p, e) = "Ok"
    PROVE  /\ is_full
           /\ ~ (e.ext_amount >= 0)
           /\ SettleResult(p, e, FALSE, balance) = "Ok"
BY DEF ExitResult
-----------------------------------------------------------------------------
(* Token transfers *)

\* The fee is at most the amount it is taken from.
LEMMA FeeBound ==
    ASSUME NEW w \in Nat
    PROVE  calculate_fee_amount(w) \in Nat /\ calculate_fee_amount(w) <= w
<1>1. MAX_FEE_BPS \in Nat /\ MAX_FEE_BPS > 0
  BY DEF MAX_FEE_BPS
<1>2. FeeBps \in Nat /\ FeeBps <= MAX_FEE_BPS
  BY <1>1, ConstantsAssumption
<1>3. w * FeeBps \in Nat /\ w * FeeBps <= w * MAX_FEE_BPS
  BY <1>1, <1>2
<1>4. ASSUME NEW x \in Nat, NEW m \in Nat, m > 0, x <= w * m
      PROVE  x \div m \in Nat /\ x \div m <= w
  BY <1>4
<1>5. QED
  BY <1>1, <1>3, <1>4 DEF calculate_fee_amount

\* A transfer that is covered leaves no negative balance and moves n.
LEMMA TransferNat ==
    ASSUME NEW b \in [Addresses -> Nat], NEW f \in Addresses, NEW t \in Addresses,
           NEW n \in Nat, b[f] >= n
    PROVE  /\ Transfer(b, f, t, n) \in [Addresses -> Nat]
           /\ \A a \in Addresses :
                 Transfer(b, f, t, n)[a] = b[a] - (IF a = f THEN n ELSE 0)
                                                + (IF a = t THEN n ELSE 0)
<1> DEFINE c == [b EXCEPT ![f] = @ - n]
<1>1. c = [a \in Addresses |-> IF a = f THEN b[f] - n ELSE b[a]]
  OBVIOUS
<1>2. \A a \in Addresses : c[a] \in Nat /\ c[a] = b[a] - (IF a = f THEN n ELSE 0)
  BY <1>1
<1>3. Transfer(b, f, t, n) = [c EXCEPT ![t] = @ + n]
  BY DEF Transfer
<1>4. c \in [Addresses -> Nat]
  BY <1>1, <1>2
<1> HIDE DEF c
<1>5. QED
  BY <1>2, <1>3, <1>4

\* Paying out costs the pool what was withdrawn, less what came back to it.
LEMMA PayOutCost ==
    ASSUME NEW b \in [Addresses -> Nat], NEW e \in ExtData, CanPayOut(b, e)
    PROVE  /\ PayOut(b, e) \in [Addresses -> Nat]
           /\ PayOut(b, e)[PoolAddress] >= b[PoolAddress] - Withdrawn(e)
           /\ (PoolAddress # FeeRecipient /\ (e.ext_amount < 0 => e.recipient # PoolAddress))
                => PayOut(b, e)[PoolAddress] = b[PoolAddress] - Withdrawn(e)
<1>1. Withdrawn(e) \in Nat /\ e.recipient \in Addresses /\ e.ext_amount \in Int
  BY DEF Withdrawn, ExtData
<1> DEFINE fee == calculate_fee_amount(Withdrawn(e))
           b1 == Transfer(b, PoolAddress, e.recipient, Paid(e))
<1>2. fee \in Nat /\ fee <= Withdrawn(e)
  BY <1>1, FeeBound
<1>3. Paid(e) \in Nat /\ Paid(e) + fee = Withdrawn(e)
  BY <1>1, <1>2 DEF Paid
<1>4. PoolAddress \in Addresses /\ FeeRecipient \in Addresses
  BY ConstantsAssumption
<1>5. b[PoolAddress] >= Paid(e) /\ b1[PoolAddress] >= fee
  BY DEF CanPayOut
<1>6. PayOut(b, e) = Transfer(b1, PoolAddress, FeeRecipient, fee)
  BY DEF PayOut
<1> HIDE DEF fee
<1>7. /\ b1 \in [Addresses -> Nat]
      /\ b1[PoolAddress] = b[PoolAddress] - Paid(e)
                             + (IF PoolAddress = e.recipient THEN Paid(e) ELSE 0)
  BY <1>1, <1>3, <1>4, <1>5, TransferNat
<1> HIDE DEF b1
<1>8. /\ PayOut(b, e) \in [Addresses -> Nat]
      /\ PayOut(b, e)[PoolAddress] = b1[PoolAddress] - fee
                             + (IF PoolAddress = FeeRecipient THEN fee ELSE 0)
  BY <1>2, <1>4, <1>5, <1>6, <1>7, TransferNat
<1>9. b[PoolAddress] \in Nat
  BY <1>4
<1>10. e.ext_amount >= 0 => Paid(e) = 0 /\ fee = 0
  BY <1>1, <1>2, <1>3 DEF Withdrawn
<1>11. QED
  BY <1>1, <1>2, <1>3, <1>7, <1>8, <1>9, <1>10
-----------------------------------------------------------------------------
(* What a settlement spends *)

In(p, k) == p.input_nullifiers[k]

\* The size of the tree is a number.
LEMMA SizeType == MaxLeaves \in Nat
<1>1. Levels \in 0 .. 32
  BY ConstantsAssumption
<1>2. 2 ^ Levels \in Nat \ {0}
  BY <1>1, PowerOfTwo, Zenon
<1>3. QED
  BY <1>2, Zenon DEF MaxLeaves

\* The current tree maps the filled positions to notes.
LEMMA TreeType ==
    ASSUME TypeOK
    PROVE  /\ MaxLeaves \in Nat /\ nextIndex \in Nat /\ nextIndex <= MaxLeaves
           /\ get_root \in [0 .. nextIndex - 1 -> Notes]
<1>1. MaxLeaves \in Nat
  BY SizeType
<1>2. nextIndex \in Nat /\ nextIndex <= MaxLeaves
  BY <1>1 DEF TypeOK
<1>3. PICK n \in 0 .. MaxLeaves : get_root \in [0 .. n - 1 -> Notes]
  BY DEF TypeOK, get_root, get_last_root
<1>4. DOMAIN get_root = 0 .. nextIndex - 1 /\ DOMAIN get_root = 0 .. n - 1
  BY <1>3 DEF TypeOK
<1>5. QED
  BY <1>1, <1>2, <1>3, <1>4

\* A proof that settles has two canonical nullifiers of different elements.
LEMMA TwoInputs ==
    ASSUME NEW p \in Proofs, NEW e, NEW ins, NEW b,
           SettleResult(p, e, ins, b) = "Ok"
    PROVE  /\ DOMAIN p.input_nullifiers = {1, 2}
           /\ Range(p.input_nullifiers) = {In(p, 1), In(p, 2)}
           /\ \A k \in {1, 2} : /\ In(p, k) \in U256(Nullifiers)
                                /\ In(p, k).wrap = 0
                                /\ In(p, k) \notin nullifiers
           /\ In(p, 1).elem # In(p, 2).elem
<1> DEFINE ns == p.input_nullifiers
<1>1. ns \in Seq(U256(Nullifiers)) /\ Len(ns) = 2
  BY CircuitOk DEF Proofs
<1>2. DOMAIN ns = {1, 2} /\ \A k \in {1, 2} : ns[k] \in U256(Nullifiers)
  BY <1>1
<1>3. Range(ns) = {ns[1], ns[2]}
  BY <1>2 DEF Range
<1>4. \A k \in {1, 2} : ns[k].wrap = 0 /\ ns[k] \notin nullifiers
  BY <1>2, SettleOk DEF ensure_proof_field_elements, ensure_field_element,
                        ensure_nullifiers_unspent, is_spent
<1>5. ns[1].elem # ns[2].elem
  BY CircuitOk
<1>6. QED
  BY <1>2, <1>3, <1>4, <1>5 DEF In

\* Each input worth something is the leaf at its index of the current tree,
\* though it was proved against an older root.
LEMMA InputsHeld ==
    ASSUME TypeOK, SettlementInv, NEW p \in Proofs, NEW e, NEW ins, NEW b,
           SettleResult(p, e, ins, b) = "Ok", NEW k \in {1, 2}
    PROVE  /\ SpendsFrom(get_root, In(p, k).elem)
           /\ In(p, k).elem.note.amount \in 0 .. MaxAmount - 1
<1> DEFINE n == In(p, k).elem
<1>1. n \in Nullifiers /\ n.note.amount \in Nat /\ n.index \in Nat
  BY TwoInputs, FieldAssumption DEF U256, Nullifiers, Notes
<1>2. PICK i \in DOMAIN roots : roots[i] = p.root
  BY SettleOk DEF is_known_root
<1>3. PICK m \in 0 .. nextIndex : p.root = [j \in 0 .. m - 1 |-> get_root[j]]
  BY <1>2 DEF SettlementInv
<1>4. SpendsFrom(p.root, n)
  BY CircuitOk DEF In
<1>5. nextIndex \in Nat /\ DOMAIN get_root = 0 .. nextIndex - 1
  BY TreeType
<1>6. n.note.amount # 0 => n.index \in 0 .. nextIndex - 1 /\ get_root[n.index] = n.note
  BY <1>3, <1>4, <1>5 DEF SpendsFrom
<1>7. SpendsFrom(get_root, n)
  BY <1>5, <1>6 DEF SpendsFrom
<1>8. n.note.amount < MaxAmount
  <2>1. CASE n.note.amount = 0
    BY <2>1, FieldAssumption
  <2>2. CASE n.note.amount # 0
    BY <1>5, <1>6, <2>2 DEF SettlementInv
  <2>3. QED
    BY <2>1, <2>2
<1>9. QED
  BY <1>1, <1>7, <1>8, FieldAssumption

\* The value spent and the tokens moved make up the value of the outputs.
LEMMA Balanced ==
    ASSUME TypeOK, SettlementInv, NEW p \in Proofs, NEW e \in ExtData,
           NEW ins, NEW b, SettleResult(p, e, ins, b) = "Ok"
    PROVE  /\ p.output_commitment0.elem.amount \in 0 .. MaxAmount - 1
           /\ p.output_commitment1.elem.amount \in 0 .. MaxAmount - 1
           /\ In(p, 1).elem.note.amount + In(p, 2).elem.note.amount + e.ext_amount
                = p.output_commitment0.elem.amount + p.output_commitment1.elem.amount
<1>1. /\ In(p, 1).elem.note.amount \in 0 .. MaxAmount - 1
      /\ In(p, 2).elem.note.amount \in 0 .. MaxAmount - 1
  BY InputsHeld
<1>2. /\ p.output_commitment0.elem.amount \in 0 .. MaxAmount - 1
      /\ p.output_commitment1.elem.amount \in 0 .. MaxAmount - 1
  <2>1. /\ p.output_commitment0.elem.amount < MaxAmount
        /\ p.output_commitment1.elem.amount < MaxAmount
    BY CircuitOk
  <2>2. /\ p.output_commitment0.elem.amount \in Nat
        /\ p.output_commitment1.elem.amount \in Nat
    BY FieldAssumption DEF Proofs, U256, Notes
  <2>3. QED
    BY <2>1, <2>2, FieldAssumption
<1>3. e.ext_amount \in Int /\ Abs(e.ext_amount) < MaxAmount
  BY SettleOk DEF ExtData, ensure_public_amount
<1>4. (In(p, 1).elem.note.amount + In(p, 2).elem.note.amount
          + calculate_public_amount(e.ext_amount)) % FieldSize
        = (p.output_commitment0.elem.amount + p.output_commitment1.elem.amount)
             % FieldSize
  <2>1. p.public_amount = calculate_public_amount(e.ext_amount)
    BY SettleOk DEF ensure_public_amount
  <2>2. QED
    BY <2>1, CircuitOk DEF In
<1>5. QED
  BY <1>1, <1>2, <1>3, <1>4, FieldBalance
-----------------------------------------------------------------------------
(* The tree after two leaves are appended *)

\* insert_two_leaves appends to the current tree and replaces one ring slot.
LEMMA Grown ==
    ASSUME TypeOK, NEW c0 \in Notes, NEW c1 \in Notes,
           insert_two_leaves(c0, c1), ~ is_full
    PROVE  /\ nextIndex' = nextIndex + 2 /\ nextIndex + 2 <= MaxLeaves
           /\ get_root' = [j \in 0 .. nextIndex + 1 |->
                              IF j < nextIndex THEN get_root[j]
                              ELSE IF j = nextIndex THEN c0 ELSE c1]
           /\ get_root' \in [0 .. nextIndex' - 1 -> Notes]
           /\ currentRootIndex' \in DOMAIN roots'
           /\ DOMAIN roots' \subseteq 0 .. RootHistorySize - 1
           /\ \A i \in DOMAIN roots' :
                 roots'[i] = get_root' \/ (i \in DOMAIN roots /\ roots'[i] = roots[i])
<1> DEFINE index == (currentRootIndex + 1) % RootHistorySize
           tree == [j \in 0 .. nextIndex + 1 |->
                       IF j < nextIndex THEN get_root[j]
                       ELSE IF j = nextIndex THEN c0 ELSE c1]
<1>1. /\ MaxLeaves \in Nat /\ nextIndex \in Nat
      /\ get_root \in [0 .. nextIndex - 1 -> Notes]
  BY TreeType
<1>2. /\ roots' = [i \in DOMAIN roots \cup {index} |->
                      IF i = index THEN tree ELSE roots[i]]
      /\ currentRootIndex' = index
      /\ nextIndex' = nextIndex + 2
  BY DEF insert_two_leaves, get_root
<1>3. nextIndex + 2 <= MaxLeaves
  BY <1>1 DEF is_full
<1>4. index \in 0 .. RootHistorySize - 1
  <2>1. currentRootIndex \in 0 .. RootHistorySize - 1
    BY Zenon DEF TypeOK
  <2>2. RootHistorySize \in Nat \ {0}
    BY ConstantsAssumption
  <2>3. QED
    BY <2>1, <2>2
<1>5. tree \in [0 .. (nextIndex + 2) - 1 -> Notes]
  BY <1>1
<1> HIDE DEF index, tree
<1>6. get_root' = tree
  BY <1>2 DEF get_root, get_last_root
<1>7. DOMAIN roots' = DOMAIN roots \cup {index}
  BY <1>2
<1>8. \A i \in DOMAIN roots' : roots'[i] = tree \/ (i \in DOMAIN roots /\ roots'[i] = roots[i])
  BY <1>2
<1>9. DOMAIN roots' \subseteq 0 .. RootHistorySize - 1
  BY <1>4, <1>7 DEF TypeOK
<1>10. currentRootIndex' \in DOMAIN roots'
  BY <1>2, <1>7
<1>11. get_root' \in [0 .. nextIndex' - 1 -> Notes]
  BY <1>2, <1>5, <1>6
<1>12. QED
  BY <1>2, <1>3, <1>6, <1>8, <1>9, <1>10, <1>11 DEF tree

\* PayIn leaves natural balances and adds the deposit to the pool's.
LEMMA PayInCost ==
    ASSUME balance \in [Addresses -> Nat], NEW e \in ExtData, NEW s \in Senders,
           e.ext_amount > 0 => ~ (balance[s] < e.ext_amount)
    PROVE  /\ PayIn(e, s) \in [Addresses -> Nat]
           /\ PayIn(e, s)[PoolAddress]
                = balance[PoolAddress] + (IF e.ext_amount > 0 THEN e.ext_amount ELSE 0)
<1>1. /\ e.ext_amount \in Int /\ s \in Addresses /\ s # PoolAddress
      /\ PoolAddress \in Addresses /\ balance[PoolAddress] \in Nat /\ balance[s] \in Nat
  BY ConstantsAssumption DEF ExtData, Senders
<1>2. CASE e.ext_amount > 0
  <2>1. e.ext_amount \in Nat /\ balance[s] >= e.ext_amount
    BY <1>1, <1>2
  <2>2. PayIn(e, s) = Transfer(balance, s, PoolAddress, e.ext_amount)
    BY <1>2 DEF PayIn
  <2>3. QED
    BY <1>1, <1>2, <2>1, <2>2, TransferNat
<1>3. CASE ~ (e.ext_amount > 0)
  BY <1>1, <1>3 DEF PayIn
<1>4. QED
  BY <1>2, <1>3
-----------------------------------------------------------------------------
(* Type correctness *)

\* The token side of transact: the pool's account moves by ext_amount, and by
\* more only when a payment comes back to it.
LEMMA TransactTokens ==
    ASSUME TypeOK, NEW p, NEW e \in ExtData, NEW s \in Senders, transact(p, e, s)
    PROVE  /\ balance' \in [Addresses -> Nat]
           /\ balance'[PoolAddress] >= balance[PoolAddress] + e.ext_amount
           /\ (PoolAddress # FeeRecipient /\ (e.ext_amount < 0 => e.recipient # PoolAddress))
                => balance'[PoolAddress] = balance[PoolAddress] + e.ext_amount
<1> DEFINE b == PayIn(e, s)
<1>1. CanPayOut(b, e) /\ (e.ext_amount > 0 => ~ (balance[s] < e.ext_amount))
  BY TransactOk, SettleOk DEF transact
<1>2. balance' = PayOut(b, e)
  BY DEF transact
<1>3. balance \in [Addresses -> Nat] /\ PoolAddress \in Addresses /\ e.ext_amount \in Int
  BY ConstantsAssumption DEF TypeOK, ExtData
<1>4. /\ b \in [Addresses -> Nat]
      /\ b[PoolAddress] = balance[PoolAddress]
                            + (IF e.ext_amount > 0 THEN e.ext_amount ELSE 0)
  BY <1>1, <1>3, PayInCost
<1> HIDE DEF b
<1>5. /\ PayOut(b, e) \in [Addresses -> Nat]
      /\ PayOut(b, e)[PoolAddress] >= b[PoolAddress] - Withdrawn(e)
      /\ (PoolAddress # FeeRecipient /\ (e.ext_amount < 0 => e.recipient # PoolAddress))
           => PayOut(b, e)[PoolAddress] = b[PoolAddress] - Withdrawn(e)
  BY <1>1, <1>4, PayOutCost
<1>6. b[PoolAddress] - Withdrawn(e) = balance[PoolAddress] + e.ext_amount
  BY <1>3, <1>4 DEF Withdrawn
<1>7. QED
  BY <1>2, <1>5, <1>6

\* The token side of exit.
LEMMA ExitTokens ==
    ASSUME TypeOK, NEW p, NEW e \in ExtData, exit(p, e)
    PROVE  /\ balance' \in [Addresses -> Nat]
           /\ balance'[PoolAddress] >= balance[PoolAddress] + e.ext_amount
<1>1. CanPayOut(balance, e) /\ ~ (e.ext_amount >= 0)
  BY ExitOk, SettleOk DEF exit
<1>2. balance' = PayOut(balance, e)
  BY DEF exit
<1>3. balance \in [Addresses -> Nat] /\ PoolAddress \in Addresses /\ e.ext_amount \in Int
  BY ConstantsAssumption DEF TypeOK, ExtData
<1>4. /\ PayOut(balance, e) \in [Addresses -> Nat]
      /\ PayOut(balance, e)[PoolAddress] >= balance[PoolAddress] - Withdrawn(e)
  BY <1>1, <1>3, PayOutCost
<1>5. balance[PoolAddress] - Withdrawn(e) = balance[PoolAddress] + e.ext_amount
  BY <1>1, <1>3 DEF Withdrawn
<1>6. QED
  BY <1>2, <1>4, <1>5

\* The token's own transfers never lower the pool's account.
LEMMA TokenTransfer ==
    ASSUME TypeOK, NEW s \in Addresses, NEW t \in Addresses, NEW n \in Nat,
           token_transfer(s, t, n)
    PROVE  balance' \in [Addresses -> Nat] /\ balance'[PoolAddress] >= balance[PoolAddress]
<1>1. /\ balance \in [Addresses -> Nat] /\ PoolAddress \in Addresses
      /\ s # PoolAddress /\ balance[s] >= n /\ balance[PoolAddress] \in Nat
      /\ balance' = Transfer(balance, s, t, n)
  BY ConstantsAssumption DEF TypeOK, token_transfer
<1>2. /\ Transfer(balance, s, t, n) \in [Addresses -> Nat]
      /\ Transfer(balance, s, t, n)[PoolAddress]
           = balance[PoolAddress] - (IF PoolAddress = s THEN n ELSE 0)
                                  + (IF PoolAddress = t THEN n ELSE 0)
  BY <1>1, TransferNat
<1>3. QED
  BY <1>1, <1>2

\* The initial state is well typed: an empty tree in the first ring slot.
LEMMA InitTypeOK == Init => TypeOK
<1> SUFFICES ASSUME Init PROVE TypeOK
  OBVIOUS
<1>1. MaxLeaves \in Nat /\ RootHistorySize \in Nat \ {0}
  BY SizeType, ConstantsAssumption
<1>2. /\ roots = [i \in {0} |-> EmptyTree] /\ currentRootIndex = 0 /\ nextIndex = 0
  BY DEF Init, init
<1>3. EmptyTree \in [0 .. 0 - 1 -> Notes] /\ DOMAIN EmptyTree = 0 .. 0 - 1
  BY DEF EmptyTree
<1>4. DOMAIN roots = {0} /\ roots[0] = EmptyTree /\ get_root = EmptyTree
  BY <1>2 DEF get_root, get_last_root
<1>5. \A i \in DOMAIN roots : \E n \in 0 .. MaxLeaves : roots[i] \in [0 .. n - 1 -> Notes]
  <2>1. 0 \in 0 .. MaxLeaves
    BY <1>1
  <2>2. \A i \in DOMAIN roots : roots[i] \in [0 .. 0 - 1 -> Notes]
    BY <1>3, <1>4
  <2>3. QED
    BY <2>1, <2>2, Zenon
<1>6. DOMAIN roots \subseteq 0 .. RootHistorySize - 1
  BY <1>1, <1>4
<1>7. nextIndex \in 0 .. MaxLeaves /\ currentRootIndex \in DOMAIN roots
  BY <1>1, <1>2, <1>4
<1>8. DOMAIN get_root = 0 .. nextIndex - 1
  BY <1>2, <1>3, <1>4
<1>9. QED
  BY <1>5, <1>6, <1>7, <1>8, ConstantsAssumption DEF Init, TypeOK

\* A step that leaves the tree alone keeps what TypeOK says of it.
LEMMA TypeOKRest ==
    ASSUME TypeOK, UNCHANGED treeVars,
           nullifiers' \subseteq U256(Nullifiers), commitments' \subseteq U256(Notes),
           admin' \in Admins, verifier' \in Verifiers, aspMembership' \in Asps,
           balance' \in [Addresses -> Nat], aspRoot' \in [Asps -> AspRoots]
    PROVE  TypeOK'
BY DEF TypeOK, treeVars, get_root, get_last_root

\* Every step keeps the types.
LEMMA NextTypeOK == TypeOK /\ [Next]_vars => TypeOK'
<1> SUFFICES ASSUME TypeOK, [Next]_vars PROVE TypeOK'
  OBVIOUS
<1> USE DEF spendVars, configVars
<1>1. ASSUME NEW p \in Proofs, NEW e \in ExtData, NEW s \in Senders, transact(p, e, s)
      PROVE  TypeOK'
  <2> DEFINE c0 == p.output_commitment0
             c1 == p.output_commitment1
  <2>1. c0 \in U256(Notes) /\ c1 \in U256(Notes) /\ c0.elem \in Notes /\ c1.elem \in Notes
    BY DEF Proofs, U256
  <2>2. SettleResult(p, e, TRUE, PayIn(e, s)) = "Ok"
    BY <1>1, TransactOk DEF transact
  <2>3. insert_two_leaves(c0.elem, c1.elem) /\ ~ is_full
    BY <1>1, <2>2, SettleOk DEF transact
  <2>4. /\ nextIndex' = nextIndex + 2 /\ nextIndex + 2 <= MaxLeaves
        /\ get_root' \in [0 .. nextIndex' - 1 -> Notes]
        /\ currentRootIndex' \in DOMAIN roots'
        /\ DOMAIN roots' \subseteq 0 .. RootHistorySize - 1
        /\ \A i \in DOMAIN roots' :
              roots'[i] = get_root' \/ (i \in DOMAIN roots /\ roots'[i] = roots[i])
    BY <2>1, <2>3, Grown
  <2>5. nextIndex' \in 0 .. MaxLeaves
    BY <2>4, TreeType
  <2>6. \A i \in DOMAIN roots' : \E n \in 0 .. MaxLeaves : roots'[i] \in [0 .. n - 1 -> Notes]
    BY <2>4, <2>5, Zenon DEF TypeOK
  <2>7. DOMAIN get_root' = 0 .. nextIndex' - 1
    BY <2>4
  <2>8. nullifiers' \subseteq U256(Nullifiers)
    BY <1>1, <2>2, TwoInputs DEF transact, spend_nullifiers_once, TypeOK
  <2>9. commitments' \subseteq U256(Notes)
    BY <1>1, <2>1 DEF transact, mark_commitments_inserted, TypeOK
  <2>10. balance' \in [Addresses -> Nat]
    BY <1>1, TransactTokens
  <2>11. UNCHANGED <<admin, verifier, aspMembership, aspRoot>>
    BY <1>1 DEF transact
  <2>12. MaxLeaves' = MaxLeaves
    BY DEF MaxLeaves
  <2>13. QED
    BY <2>4, <2>5, <2>6, <2>7, <2>8, <2>9, <2>10, <2>11, <2>12 DEF TypeOK
<1>2. ASSUME NEW p \in Proofs, NEW e \in ExtData, exit(p, e)
      PROVE  TypeOK'
  <2>1. SettleResult(p, e, FALSE, balance) = "Ok"
    BY <1>2, ExitOk DEF exit
  <2>2. nullifiers' \subseteq U256(Nullifiers)
    BY <1>2, <2>1, TwoInputs DEF exit, spend_nullifiers_once, TypeOK
  <2>3. balance' \in [Addresses -> Nat]
    BY <1>2, ExitTokens
  <2>4. UNCHANGED <<treeVars, commitments, admin, verifier, aspMembership, aspRoot>>
    BY <1>2 DEF exit
  <2>5. QED
    BY <2>2, <2>3, <2>4, TypeOKRest DEF TypeOK
<1>3. ASSUME NEW s \in Senders, register(s)
      PROVE  TypeOK'
  BY <1>3, TypeOKRest DEF register, TypeOK
<1>4. ASSUME NEW a \in Admins, NEW b \in Admins, update_admin(a, b)
      PROVE  TypeOK'
  BY <1>4, TypeOKRest DEF update_admin, TypeOK
<1>5. ASSUME NEW a \in Admins, NEW v \in Verifiers, update_verifier(a, v)
      PROVE  TypeOK'
  BY <1>5, TypeOKRest DEF update_verifier, TypeOK
<1>6. ASSUME NEW a \in Admins, NEW m \in Asps, update_asp_membership(a, m)
      PROVE  TypeOK'
  BY <1>6, TypeOKRest DEF update_asp_membership, TypeOK
<1>7. ASSUME NEW s \in Addresses, NEW t \in Addresses, NEW n \in Nat, token_transfer(s, t, n)
      PROVE  TypeOK'
  BY <1>7, TokenTransfer, TypeOKRest DEF token_transfer, TypeOK
<1>8. ASSUME NEW m \in Asps, NEW r \in AspRoots, asp_publish(m, r)
      PROVE  TypeOK'
  BY <1>8, TypeOKRest DEF asp_publish, TypeOK
<1>9. CASE UNCHANGED vars
  BY <1>9, TypeOKRest DEF vars, TypeOK
<1>10. QED
  BY <1>1, <1>2, <1>3, <1>4, <1>5, <1>6, <1>7, <1>8, <1>9 DEF Next
-----------------------------------------------------------------------------
(* The settlement invariant and the duplicate guard *)

\* A U256 that is a canonical element is determined by it.
LEMMA CanonicalElement ==
    ASSUME NEW S, NEW u \in U256(S), u.wrap = 0
    PROVE  u = Canonical(u.elem)
BY DEF U256, Canonical

\* What transact does to the tree, to the spent set and to the commitments.
LEMMA TransactTree ==
    ASSUME TypeOK, NEW p \in Proofs, NEW e, NEW s, transact(p, e, s)
    PROVE  /\ SettleResult(p, e, TRUE, PayIn(e, s)) = "Ok"
           /\ nextIndex \in Nat /\ nextIndex' = nextIndex + 2 /\ nextIndex + 2 <= MaxLeaves
           /\ get_root' \in [0 .. nextIndex + 1 -> Notes]
           /\ \A j \in 0 .. nextIndex - 1 : get_root'[j] = get_root[j]
           /\ get_root'[nextIndex] = p.output_commitment0.elem
           /\ get_root'[nextIndex + 1] = p.output_commitment1.elem
           /\ \A i \in DOMAIN roots' :
                 roots'[i] = get_root' \/ (i \in DOMAIN roots /\ roots'[i] = roots[i])
           /\ nullifiers' = nullifiers \cup {In(p, 1), In(p, 2)}
           /\ commitments' = commitments \cup {p.output_commitment0, p.output_commitment1}
<1> DEFINE c0 == p.output_commitment0.elem
           c1 == p.output_commitment1.elem
<1>1. c0 \in Notes /\ c1 \in Notes
  BY DEF Proofs, U256
<1>2. SettleResult(p, e, TRUE, PayIn(e, s)) = "Ok"
  BY TransactOk DEF transact
<1>3. insert_two_leaves(c0, c1) /\ ~ is_full
  BY <1>2, SettleOk DEF transact
<1> HIDE DEF c0, c1
<1>4. /\ nextIndex' = nextIndex + 2 /\ nextIndex + 2 <= MaxLeaves
      /\ get_root' = [j \in 0 .. nextIndex + 1 |->
                         IF j < nextIndex THEN get_root[j]
                         ELSE IF j = nextIndex THEN c0 ELSE c1]
      /\ get_root' \in [0 .. nextIndex' - 1 -> Notes]
      /\ \A i \in DOMAIN roots' :
            roots'[i] = get_root' \/ (i \in DOMAIN roots /\ roots'[i] = roots[i])
  BY <1>1, <1>3, Grown
<1>5. nextIndex \in Nat
  BY TreeType
<1>6. get_root' \in [0 .. nextIndex + 1 -> Notes]
  BY <1>4, <1>5
<1>7. /\ \A j \in 0 .. nextIndex - 1 : get_root'[j] = get_root[j]
      /\ get_root'[nextIndex] = c0 /\ get_root'[nextIndex + 1] = c1
  BY <1>4, <1>5
<1>8. nullifiers' = nullifiers \cup {In(p, 1), In(p, 2)}
  BY <1>2, TwoInputs DEF transact, spend_nullifiers_once
<1>9. commitments' = commitments \cup {p.output_commitment0, p.output_commitment1}
  BY DEF transact, mark_commitments_inserted
<1>10. QED
  BY <1>2, <1>4, <1>5, <1>6, <1>7, <1>8, <1>9 DEF c0, c1

\* transact keeps SettlementInv: the old prefixes are prefixes of the new tree.
LEMMA TransactSettlementInv ==
    ASSUME TypeOK, SettlementInv, NEW p \in Proofs, NEW e \in ExtData, NEW s,
           transact(p, e, s)
    PROVE  SettlementInv'
<1>0. SettleResult(p, e, TRUE, PayIn(e, s)) = "Ok"
  BY TransactTree
<1>1. /\ nextIndex \in Nat /\ nextIndex' = nextIndex + 2
      /\ get_root' \in [0 .. nextIndex + 1 -> Notes]
      /\ \A j \in 0 .. nextIndex - 1 : get_root'[j] = get_root[j]
      /\ get_root'[nextIndex] = p.output_commitment0.elem
      /\ get_root'[nextIndex + 1] = p.output_commitment1.elem
      /\ \A i \in DOMAIN roots' :
            roots'[i] = get_root' \/ (i \in DOMAIN roots /\ roots'[i] = roots[i])
      /\ nullifiers' = nullifiers \cup {In(p, 1), In(p, 2)}
  BY TransactTree
<1>2. get_root \in [0 .. nextIndex - 1 -> Notes]
  BY TreeType
<1>3. ASSUME NEW i \in DOMAIN roots'
      PROVE  \E n \in 0 .. nextIndex' : roots'[i] = [j \in 0 .. n - 1 |-> get_root'[j]]
  <2>1. CASE roots'[i] = get_root'
    <3>1. get_root' = [j \in 0 .. nextIndex' - 1 |-> get_root'[j]]
      BY <1>1
    <3>2. nextIndex' \in 0 .. nextIndex'
      BY <1>1
    <3>3. QED
      BY <2>1, <3>1, <3>2, Zenon
  <2>2. CASE i \in DOMAIN roots /\ roots'[i] = roots[i]
    <3>1. PICK n \in 0 .. nextIndex : roots[i] = [j \in 0 .. n - 1 |-> get_root[j]]
      BY <2>2 DEF SettlementInv
    <3>2. n \in 0 .. nextIndex' /\ \A j \in 0 .. n - 1 : get_root'[j] = get_root[j]
      <4>1. nextIndex \in Nat /\ nextIndex' = nextIndex + 2
        BY <1>1, Zenon
      <4>2. n \in 0 .. nextIndex' /\ \A j \in 0 .. n - 1 : j \in 0 .. nextIndex - 1
        BY <4>1
      <4>3. \A j \in 0 .. nextIndex - 1 : get_root'[j] = get_root[j]
        BY <1>1, Zenon
      <4>4. QED
        BY <4>2, <4>3, Zenon
    <3>3. [j \in 0 .. n - 1 |-> get_root[j]] = [j \in 0 .. n - 1 |-> get_root'[j]]
      BY <3>2
    <3>4. QED
      BY <2>2, <3>1, <3>2, <3>3, Zenon
  <2>3. QED
    BY <1>1, <2>1, <2>2
<1>4. ASSUME NEW n, SpendsFrom(get_root, n)
      PROVE  SpendsFrom(get_root', n)
  <2>1. \A j \in DOMAIN get_root : j \in DOMAIN get_root' /\ get_root'[j] = get_root[j]
    BY <1>1, <1>2
  <2>2. QED
    BY <1>4, <2>1, Zenon DEF SpendsFrom
<1>5. ASSUME NEW u \in nullifiers'
      PROVE  ensure_field_element(u) /\ SpendsFrom(get_root', u.elem)
  <2>1. CASE u \in nullifiers
    BY <1>4, <2>1 DEF SettlementInv
  <2>2. CASE u \in {In(p, 1), In(p, 2)}
    <3>1. PICK k \in {1, 2} : u = In(p, k)
      BY <2>2
    <3>2. SpendsFrom(get_root, In(p, k).elem)
      BY <1>0, InputsHeld
    <3>3. In(p, k).wrap = 0
      BY <1>0, TwoInputs
    <3>4. QED
      BY <1>4, <3>1, <3>2, <3>3 DEF ensure_field_element
  <2>3. QED
    BY <1>1, <2>1, <2>2
<1>6. \A i \in DOMAIN get_root' : get_root'[i].amount < MaxAmount
  <2>1. \A i \in 0 .. nextIndex - 1 : get_root[i].amount < MaxAmount
    BY <1>2 DEF SettlementInv
  <2>2. /\ p.output_commitment0.elem.amount \in 0 .. MaxAmount - 1
        /\ p.output_commitment1.elem.amount \in 0 .. MaxAmount - 1
    BY <1>0, Balanced
  <2>3. \A i \in DOMAIN get_root' :
           i \in 0 .. nextIndex - 1 \/ i = nextIndex \/ i = nextIndex + 1
    BY <1>1
  <2>4. /\ get_root'[nextIndex].amount < MaxAmount
        /\ get_root'[nextIndex + 1].amount < MaxAmount
    BY <1>1, <2>2, FieldAssumption
  <2>5. \A i \in 0 .. nextIndex - 1 : get_root'[i].amount < MaxAmount
    BY <1>1, <2>1
  <2>6. QED
    BY <2>3, <2>4, <2>5, Zenon
<1>7. QED
  BY <1>3, <1>5, <1>6 DEF SettlementInv, ensure_field_element, SpendsFrom

\* What exit does to the spent set.
LEMMA ExitSpends ==
    ASSUME NEW p \in Proofs, NEW e, exit(p, e)
    PROVE  /\ SettleResult(p, e, FALSE, balance) = "Ok"
           /\ nullifiers' = nullifiers \cup {In(p, 1), In(p, 2)}
           /\ UNCHANGED <<treeVars, commitments>>
<1>1. SettleResult(p, e, FALSE, balance) = "Ok"
  BY ExitOk DEF exit
<1>2. nullifiers' = nullifiers \cup {In(p, 1), In(p, 2)}
  BY <1>1, TwoInputs DEF exit, spend_nullifiers_once
<1>3. QED
  BY <1>1, <1>2 DEF exit

\* exit keeps SettlementInv: what it spends is in the tree.
LEMMA ExitSettlementInv ==
    ASSUME TypeOK, SettlementInv, NEW p \in Proofs, NEW e, exit(p, e)
    PROVE  SettlementInv'
<1>1. SettleResult(p, e, FALSE, balance) = "Ok"
  BY ExitSpends
<1>2. nullifiers' = nullifiers \cup {In(p, 1), In(p, 2)} /\ UNCHANGED treeVars
  BY ExitSpends
<1>3. \A k \in {1, 2} : ensure_field_element(In(p, k)) /\ SpendsFrom(get_root, In(p, k).elem)
  BY <1>1, InputsHeld, TwoInputs DEF ensure_field_element
<1>4. \A u \in nullifiers' : ensure_field_element(u) /\ SpendsFrom(get_root, u.elem)
  BY <1>2, <1>3 DEF SettlementInv
<1>5. get_root' = get_root /\ roots' = roots /\ nextIndex' = nextIndex
  BY <1>2 DEF treeVars, get_root, get_last_root
<1>6. QED
  BY <1>4, <1>5 DEF SettlementInv, ensure_field_element, SpendsFrom

\* transact keeps the duplicate guard in step with the tree.
LEMMA TransactCommitments ==
    ASSUME TypeOK, CommitmentsMatchTree, NEW p \in Proofs, NEW e, NEW s,
           transact(p, e, s)
    PROVE  CommitmentsMatchTree'
<1> DEFINE c0 == p.output_commitment0
           c1 == p.output_commitment1
<1>1. SettleResult(p, e, TRUE, PayIn(e, s)) = "Ok"
  BY TransactTree
<1>2. /\ nextIndex \in Nat
      /\ get_root' \in [0 .. nextIndex + 1 -> Notes]
      /\ \A j \in 0 .. nextIndex - 1 : get_root'[j] = get_root[j]
      /\ get_root'[nextIndex] = c0.elem /\ get_root'[nextIndex + 1] = c1.elem
      /\ commitments' = commitments \cup {c0, c1}
  BY TransactTree
<1>3. c0 \notin commitments /\ c1 \notin commitments /\ c0 # c1
  BY <1>1, SettleOk DEF ensure_commitments_unused
<1>4. c0 = Canonical(c0.elem) /\ c1 = Canonical(c1.elem)
  <2>1. c0.wrap = 0 /\ c1.wrap = 0
    BY <1>1, SettleOk DEF ensure_proof_field_elements, ensure_field_element
  <2>2. c0 \in U256(Notes) /\ c1 \in U256(Notes)
    BY DEF Proofs
  <2>3. QED
    BY <2>1, <2>2, CanonicalElement
<1> HIDE DEF c0, c1
<1>5. /\ DOMAIN get_root = 0 .. nextIndex - 1
      /\ commitments = {Canonical(get_root[i]) : i \in 0 .. nextIndex - 1}
      /\ \A i, j \in 0 .. nextIndex - 1 : get_root[i] = get_root[j] => i = j
  BY DEF TypeOK, CommitmentsMatchTree, IsInjective
<1>6. DOMAIN get_root' = 0 .. nextIndex + 1
  BY <1>2
<1>7. \A i \in 0 .. nextIndex + 1 :
         i \in 0 .. nextIndex - 1 \/ i = nextIndex \/ i = nextIndex + 1
  BY <1>2
<1>8. /\ 0 .. nextIndex - 1 \subseteq 0 .. nextIndex + 1
      /\ nextIndex \in 0 .. nextIndex + 1 /\ nextIndex + 1 \in 0 .. nextIndex + 1
  BY <1>2
<1>9. \A j \in 0 .. nextIndex - 1 : Canonical(get_root'[j]) = Canonical(get_root[j])
  BY <1>2
<1>10. /\ Canonical(get_root'[nextIndex]) = c0
       /\ Canonical(get_root'[nextIndex + 1]) = c1
  BY <1>2, <1>4
<1>11. commitments' = {Canonical(get_root'[i]) : i \in 0 .. nextIndex + 1}
  <2>1. ASSUME NEW c \in commitments'
        PROVE  \E i \in 0 .. nextIndex + 1 : c = Canonical(get_root'[i])
    BY <1>2, <1>5, <1>8, <1>9, <1>10
  <2>2. ASSUME NEW i \in 0 .. nextIndex + 1
        PROVE  Canonical(get_root'[i]) \in commitments'
    BY <1>2, <1>5, <1>7, <1>9, <1>10
  <2>3. QED
    BY <2>1, <2>2
<1>12. ASSUME NEW i \in 0 .. nextIndex + 1, NEW j \in 0 .. nextIndex + 1,
              get_root'[i] = get_root'[j]
       PROVE  i = j
  <2>1. Canonical(get_root'[i]) = Canonical(get_root'[j])
    BY <1>12
  <2>2. \A k \in 0 .. nextIndex - 1 : Canonical(get_root'[k]) # c0 /\ Canonical(get_root'[k]) # c1
    BY <1>3, <1>5, <1>9
  <2>3. CASE i \in 0 .. nextIndex - 1 /\ j \in 0 .. nextIndex - 1
    BY <1>2, <1>5, <1>12, <2>3
  <2>4. QED
    BY <1>3, <1>7, <1>10, <2>1, <2>2, <2>3
<1>13. QED
  BY <1>6, <1>11, <1>12 DEF CommitmentsMatchTree, IsInjective, Canonical
-----------------------------------------------------------------------------
(* The value the pool owes *)

\* The terms of the sum, as the contract's maps have them.
LEMMA LiveTerm ==
    ASSUME NEW i \in 0 .. MaxLeaves - 1
    PROVE  LiveValues[i] = IF i < nextIndex /\ NullifierOf(i) \notin nullifiers
                           THEN get_root[i].amount ELSE 0
BY DEF LiveValues, is_spent

\* The nullifier of a leaf is an input only if it carries that leaf's note.
LEMMA LeafIsInput ==
    ASSUME NEW p, NEW k, NEW i, NullifierOf(i) = In(p, k)
    PROVE  i = In(p, k).elem.index /\ get_root[i] = In(p, k).elem.note
<1>1. [note |-> get_root[i], index |-> i] = In(p, k).elem
  BY DEF NullifierOf, Canonical
<1>2. QED
  BY <1>1

\* An input worth something is the nullifier of its leaf.
LEMMA InputIsLeaf ==
    ASSUME TypeOK, SettlementInv, NEW p \in Proofs, NEW e, NEW ins, NEW b,
           SettleResult(p, e, ins, b) = "Ok", NEW k \in {1, 2}
    PROVE  /\ In(p, k).elem.index \in 0 .. MaxLeaves - 1
           /\ In(p, k).elem.note.amount # 0 =>
                 /\ In(p, k).elem.index \in 0 .. nextIndex - 1
                 /\ NullifierOf(In(p, k).elem.index) = In(p, k)
<1> DEFINE n == In(p, k).elem
<1>1. In(p, k) \in U256(Nullifiers) /\ In(p, k).wrap = 0
  BY TwoInputs
<1>2. n \in Nullifiers /\ n = [note |-> n.note, index |-> n.index]
  BY <1>1 DEF U256, Nullifiers
<1>3. In(p, k) = Canonical(n)
  BY <1>1, CanonicalElement
<1>4. SpendsFrom(get_root, n)
  BY InputsHeld
<1>5. DOMAIN get_root = 0 .. nextIndex - 1
  BY TreeType
<1>6. n.index \in 0 .. MaxLeaves - 1
  BY <1>2 DEF Nullifiers
<1>7. ASSUME n.note.amount # 0
      PROVE  n.index \in 0 .. nextIndex - 1 /\ NullifierOf(n.index) = In(p, k)
  BY <1>2, <1>3, <1>4, <1>5, <1>7 DEF SpendsFrom, NullifierOf
<1>8. QED
  BY <1>6, <1>7

\* A leaf's live value after the inputs are spent: an input takes exactly the
\* amount of its own leaf.
LEMMA SpendTerm ==
    ASSUME TypeOK, SettlementInv, NEW p \in Proofs, NEW e, NEW ins, NEW b,
           SettleResult(p, e, ins, b) = "Ok", NEW i \in 0 .. MaxLeaves - 1
    PROVE  /\ LiveValues[i] \in Nat
           /\ (IF i < nextIndex /\ NullifierOf(i) \notin nullifiers \cup {In(p, 1), In(p, 2)}
               THEN get_root[i].amount ELSE 0)
              = LiveValues[i]
                  - (IF i = In(p, 1).elem.index THEN In(p, 1).elem.note.amount ELSE 0)
                  - (IF i = In(p, 2).elem.index THEN In(p, 2).elem.note.amount ELSE 0)
<1> DEFINE i1 == In(p, 1).elem.index
           i2 == In(p, 2).elem.index
           a1 == In(p, 1).elem.note.amount
           a2 == In(p, 2).elem.note.amount
           N == NullifierOf(i)
           A == get_root[i].amount
<1>1. LiveValues[i] = IF i < nextIndex /\ N \notin nullifiers THEN A ELSE 0
  BY LiveTerm
<1>2. nextIndex \in Nat /\ (i < nextIndex => A \in Nat)
  BY TreeType, FieldAssumption DEF Notes
<1>3. a1 \in Nat /\ a2 \in Nat
  <2>1. a1 \in 0 .. MaxAmount - 1 /\ a2 \in 0 .. MaxAmount - 1
    BY InputsHeld
  <2> HIDE DEF a1, a2
  <2>2. QED
    BY <2>1, FieldAssumption
<1>4. /\ In(p, 1) \notin nullifiers /\ In(p, 2) \notin nullifiers /\ In(p, 1) # In(p, 2)
  BY TwoInputs
<1>5. /\ i = i1 /\ a1 # 0 => i < nextIndex /\ N = In(p, 1)
      /\ N = In(p, 1) => i = i1 /\ A = a1
  <2>1. a1 # 0 => i1 \in 0 .. nextIndex - 1 /\ NullifierOf(i1) = In(p, 1)
    BY InputIsLeaf
  <2>2. ASSUME N = In(p, 1) PROVE i = i1 /\ A = a1
    <3>1. i = In(p, 1).elem.index /\ get_root[i] = In(p, 1).elem.note
      BY <2>2, LeafIsInput
    <3>2. QED
      BY <3>1, Zenon
  <2>3. nextIndex \in Nat /\ (i = i1 => NullifierOf(i1) = N)
    BY <1>2
  <2> HIDE DEF i1, a1, A, N
  <2>4. QED
    BY <2>1, <2>2, <2>3
<1>6. /\ i = i2 /\ a2 # 0 => i < nextIndex /\ N = In(p, 2)
      /\ N = In(p, 2) => i = i2 /\ A = a2
  <2>1. a2 # 0 => i2 \in 0 .. nextIndex - 1 /\ NullifierOf(i2) = In(p, 2)
    BY InputIsLeaf
  <2>2. ASSUME N = In(p, 2) PROVE i = i2 /\ A = a2
    <3>1. i = In(p, 2).elem.index /\ get_root[i] = In(p, 2).elem.note
      BY <2>2, LeafIsInput
    <3>2. QED
      BY <3>1, Zenon
  <2>3. nextIndex \in Nat /\ (i = i2 => NullifierOf(i2) = N)
    BY <1>2
  <2> HIDE DEF i2, a2, A, N
  <2>4. QED
    BY <2>1, <2>2, <2>3
<1> HIDE DEF i1, i2, a1, a2, N, A
<1>7. LiveValues[i] \in Nat
  BY <1>1, <1>2
<1>8. (IF i < nextIndex /\ N \notin nullifiers \cup {In(p, 1), In(p, 2)} THEN A ELSE 0)
        = LiveValues[i] - (IF i = i1 THEN a1 ELSE 0) - (IF i = i2 THEN a2 ELSE 0)
  <2>1. CASE N = In(p, 1)
    BY <1>1, <1>2, <1>3, <1>4, <1>5, <1>6, <2>1
  <2>2. CASE N = In(p, 2)
    BY <1>1, <1>2, <1>3, <1>4, <1>5, <1>6, <2>2
  <2>3. CASE N # In(p, 1) /\ N # In(p, 2)
    BY <1>1, <1>2, <1>3, <1>5, <1>6, <2>3
  <2>4. QED
    BY <2>1, <2>2, <2>3
<1>9. QED
  BY <1>7, <1>8 DEF i1, i2, a1, a2, N, A

\* transact changes what the pool owes by exactly the tokens it moves.
LEMMA TransactLiveValue ==
    ASSUME TypeOK, SettlementInv, NEW p \in Proofs, NEW e \in ExtData, NEW s,
           transact(p, e, s)
    PROVE  LiveValue \in Int /\ LiveValue' = LiveValue + e.ext_amount
<1> DEFINE i1 == In(p, 1).elem.index
           i2 == In(p, 2).elem.index
           a1 == In(p, 1).elem.note.amount
           a2 == In(p, 2).elem.note.amount
           o1 == p.output_commitment0.elem.amount
           o2 == p.output_commitment1.elem.amount
<1>1. SettleResult(p, e, TRUE, PayIn(e, s)) = "Ok"
  BY TransactTree
<1>2. /\ nextIndex \in Nat /\ nextIndex' = nextIndex + 2 /\ nextIndex + 2 <= MaxLeaves
      /\ \A j \in 0 .. nextIndex - 1 : get_root'[j] = get_root[j]
      /\ get_root'[nextIndex].amount = o1 /\ get_root'[nextIndex + 1].amount = o2
      /\ nullifiers' = nullifiers \cup {In(p, 1), In(p, 2)}
  BY TransactTree
<1>3. MaxLeaves \in Nat /\ DOMAIN get_root = 0 .. nextIndex - 1
  BY TreeType
<1>4. \A u \in nullifiers \cup {In(p, 1), In(p, 2)} : SpendsFrom(get_root, u.elem)
  <2>1. \A k \in {1, 2} : SpendsFrom(get_root, In(p, k).elem)
    BY <1>1, InputsHeld
  <2>2. QED
    BY <2>1 DEF SettlementInv
<1>5. /\ o1 \in Nat /\ o2 \in Nat /\ a1 + a2 + e.ext_amount = o1 + o2
      /\ e.ext_amount \in Int
  <2>1. /\ o1 \in 0 .. MaxAmount - 1 /\ o2 \in 0 .. MaxAmount - 1
        /\ a1 + a2 + e.ext_amount = o1 + o2
    BY <1>1, Balanced
  <2>2. e.ext_amount \in Int
    BY DEF ExtData
  <2> HIDE DEF a1, a2, o1, o2
  <2>3. QED
    BY <2>1, <2>2, FieldAssumption
<1>6. /\ a1 \in Nat /\ a2 \in Nat
      /\ i1 \in 0 .. MaxLeaves - 1 /\ i2 \in 0 .. MaxLeaves - 1
  <2>1. a1 \in 0 .. MaxAmount - 1 /\ a2 \in 0 .. MaxAmount - 1
    BY <1>1, InputsHeld
  <2>2. i1 \in 0 .. MaxLeaves - 1 /\ i2 \in 0 .. MaxLeaves - 1
    BY <1>1, InputIsLeaf
  <2> HIDE DEF i1, i2, a1, a2
  <2>3. a1 \in Nat /\ a2 \in Nat
    BY <2>1, FieldAssumption
  <2>4. QED
    BY <2>2, <2>3
<1>7. (a1 # 0 => i1 \in 0 .. nextIndex - 1) /\ (a2 # 0 => i2 \in 0 .. nextIndex - 1)
  BY <1>1, InputIsLeaf
<1>8. (a1 # 0 => i1 < nextIndex) /\ (a2 # 0 => i2 < nextIndex)
  <2>1. nextIndex \in Nat
    BY <1>2
  <2> HIDE DEF i1, i2, a1, a2
  <2>2. QED
    BY <2>1, <1>7
<1>9. ASSUME NEW i \in 0 .. MaxLeaves - 1
      PROVE  LiveValues'[i] = IF i < nextIndex' /\ NullifierOf(i)' \notin nullifiers'
                              THEN get_root'[i].amount ELSE 0
  BY DEF LiveValues, is_spent, MaxLeaves
<1>10. ASSUME NEW i \in 0 .. MaxLeaves - 1
       PROVE  /\ LiveValues[i] \in Int /\ LiveValues'[i] \in Int
              /\ LiveValues'[i] = LiveValues[i]
                   - (IF i = i1 THEN a1 ELSE 0) - (IF i = i2 THEN a2 ELSE 0)
                   + (IF i = nextIndex THEN o1 ELSE 0)
                   + (IF i = nextIndex + 1 THEN o2 ELSE 0)
  <2>1. /\ LiveValues[i] \in Nat
        /\ (IF i < nextIndex /\ NullifierOf(i) \notin nullifiers \cup {In(p, 1), In(p, 2)}
            THEN get_root[i].amount ELSE 0)
           = LiveValues[i] - (IF i = i1 THEN a1 ELSE 0) - (IF i = i2 THEN a2 ELSE 0)
    BY <1>1, SpendTerm
  <2> HIDE DEF i1, i2, a1, a2, o1, o2
  <2>2. CASE i < nextIndex
    <3>1. i \in 0 .. nextIndex - 1
      <4>1. nextIndex \in Nat
        BY <1>2, Zenon
      <4>2. QED
        BY <2>2, <4>1
    <3>2. get_root'[i] = get_root[i]
      BY <1>2, <3>1
    <3>3. NullifierOf(i)' = NullifierOf(i)
      BY <3>2 DEF NullifierOf, Canonical
    <3>4. LiveValues'[i]
            = IF i < nextIndex /\ NullifierOf(i) \notin nullifiers \cup {In(p, 1), In(p, 2)}
              THEN get_root[i].amount ELSE 0
      <4>1. i < nextIndex' /\ nullifiers' = nullifiers \cup {In(p, 1), In(p, 2)}
        <5>1. /\ nextIndex \in Nat /\ nextIndex' = nextIndex + 2
              /\ nullifiers' = nullifiers \cup {In(p, 1), In(p, 2)}
          BY <1>2, Zenon
        <5>2. i < nextIndex'
          BY <2>2, <5>1
        <5>3. QED
          BY <5>1, <5>2, Zenon
      <4>2. LiveValues'[i] = IF i < nextIndex' /\ NullifierOf(i)' \notin nullifiers'
                             THEN get_root'[i].amount ELSE 0
        BY <1>9
      <4>3. QED
        BY <2>2, <3>2, <3>3, <4>1, <4>2
    <3>5. LiveValues'[i]
            = LiveValues[i] - (IF i = i1 THEN a1 ELSE 0) - (IF i = i2 THEN a2 ELSE 0)
      BY <2>1, <3>4, Zenon
    <3>6. nextIndex \in Nat /\ i # nextIndex /\ i # nextIndex + 1
      <4>1. nextIndex \in Nat
        BY <1>2, Zenon
      <4>2. QED
        BY <2>2, <4>1
    <3>7. LiveValues[i] \in Int /\ a1 \in Int /\ a2 \in Int
      <4>1. LiveValues[i] \in Nat
        BY <2>1, Zenon
      <4>2. QED
        BY <1>6, <4>1
    <3>8. QED
      BY <3>5, <3>6, <3>7
  <2>3. CASE i >= nextIndex
    <3>1. LiveValues[i] = 0
      <4>1. nextIndex \in Nat
        BY <1>2, Zenon
      <4>2. ~ (i < nextIndex)
        BY <2>3, <4>1
      <4>3. QED
        BY <4>2, LiveTerm
    <3>2. (IF i = i1 THEN a1 ELSE 0) = 0 /\ (IF i = i2 THEN a2 ELSE 0) = 0
      BY <1>2, <1>6, <1>8, <2>3
    <3>3. ASSUME NullifierOf(i)' \in nullifiers'
          PROVE  get_root'[i].amount = 0
      <4>1. SpendsFrom(get_root, [note |-> get_root'[i], index |-> i])
        BY <1>2, <1>4, <3>3 DEF NullifierOf, Canonical
      <4>2. i \notin DOMAIN get_root
        BY <1>2, <1>3, <2>3
      <4>3. QED
        BY <4>1, <4>2 DEF SpendsFrom
    <3>4. LiveValues'[i] = IF i < nextIndex' THEN get_root'[i].amount ELSE 0
      BY <1>9, <3>3
    <3>5. i < nextIndex' <=> i = nextIndex \/ i = nextIndex + 1
      BY <1>2, <2>3
    <3>6. LiveValues'[i] = (IF i = nextIndex THEN o1 ELSE 0)
                             + (IF i = nextIndex + 1 THEN o2 ELSE 0)
      <4>1. nextIndex \in Nat /\ o1 \in Nat /\ o2 \in Nat
        BY <1>2, <1>5, Zenon
      <4>2. nextIndex # nextIndex + 1
        BY <4>1
      <4>3. CASE i = nextIndex
        <5>1. LiveValues'[i] = o1
          BY <1>2, <3>4, <3>5, <4>3
        <5>2. QED
          BY <4>1, <4>2, <4>3, <5>1
      <4>4. CASE i = nextIndex + 1
        <5>1. LiveValues'[i] = o2
          BY <1>2, <3>4, <3>5, <4>4
        <5>2. QED
          BY <4>1, <4>2, <4>4, <5>1
      <4>5. CASE i # nextIndex /\ i # nextIndex + 1
        <5>1. LiveValues'[i] = 0
          BY <3>4, <3>5, <4>5, Zenon
        <5>2. QED
          BY <4>5, <5>1
      <4>6. QED
        BY <4>3, <4>4, <4>5, Zenon
    <3>7. QED
      BY <1>5, <3>1, <3>2, <3>6
  <2>4. nextIndex \in Nat
    BY <1>2, Zenon
  <2>5. i < nextIndex \/ i >= nextIndex
    BY <2>4
  <2>6. QED
    BY <2>2, <2>3, <2>5, Zenon
<1>11. nextIndex \in 0 .. MaxLeaves - 1 /\ nextIndex + 1 \in 0 .. MaxLeaves - 1
  BY <1>2, <1>3
<1> HIDE DEF i1, i2, a1, a2, o1, o2
<1>12. /\ PartialSums(LiveValues, MaxLeaves)[MaxLeaves] \in Int
       /\ PartialSums(LiveValues', MaxLeaves)[MaxLeaves]
            = PartialSums(LiveValues, MaxLeaves)[MaxLeaves] - a1 - a2 + o1 + o2
  <2>1. Moved(LiveValues, LiveValues', MaxLeaves,
              i1, a1, i2, a2, nextIndex, o1, nextIndex + 1, o2)
    BY <1>5, <1>6, <1>10, <1>11 DEF Moved
  <2>2. QED
    BY <1>3, <2>1, SumMove
<1>13. LiveValue' = PartialSums(LiveValues', MaxLeaves)[MaxLeaves]
  BY DEF LiveValue, PartialSums, MaxLeaves
<1>14. QED
  BY <1>5, <1>6, <1>12, <1>13 DEF LiveValue

\* exit lowers what the pool owes by the inputs, the forfeited outputs included.
LEMMA ExitLiveValue ==
    ASSUME TypeOK, SettlementInv, NEW p \in Proofs, NEW e \in ExtData, exit(p, e)
    PROVE  LiveValue \in Int /\ LiveValue' \in Int /\ LiveValue' <= LiveValue + e.ext_amount
<1> DEFINE i1 == In(p, 1).elem.index
           i2 == In(p, 2).elem.index
           a1 == In(p, 1).elem.note.amount
           a2 == In(p, 2).elem.note.amount
<1>1. SettleResult(p, e, FALSE, balance) = "Ok"
  BY ExitSpends
<1>2. nullifiers' = nullifiers \cup {In(p, 1), In(p, 2)} /\ UNCHANGED treeVars
  BY ExitSpends
<1>3. MaxLeaves \in Nat
  BY TreeType
<1>4. a1 \in 0 .. MaxAmount - 1 /\ a2 \in 0 .. MaxAmount - 1
  BY <1>1, InputsHeld
<1>5. i1 \in 0 .. MaxLeaves - 1 /\ i2 \in 0 .. MaxLeaves - 1
  BY <1>1, InputIsLeaf
<1>6. e.ext_amount \in Int /\ a1 + a2 + e.ext_amount >= 0
  <2>1. /\ p.output_commitment0.elem.amount \in 0 .. MaxAmount - 1
        /\ p.output_commitment1.elem.amount \in 0 .. MaxAmount - 1
        /\ a1 + a2 + e.ext_amount
             = p.output_commitment0.elem.amount + p.output_commitment1.elem.amount
    BY <1>1, Balanced
  <2>2. e.ext_amount \in Int
    BY DEF ExtData
  <2> HIDE DEF a1, a2
  <2>3. QED
    BY <2>1, <2>2, FieldAssumption
<1>7. ASSUME NEW i \in 0 .. MaxLeaves - 1
      PROVE  /\ LiveValues[i] \in Int /\ LiveValues'[i] \in Int
             /\ LiveValues'[i] = LiveValues[i]
                   - (IF i = i1 THEN a1 ELSE 0) - (IF i = i2 THEN a2 ELSE 0)
  <2>1. /\ LiveValues[i] \in Nat
        /\ (IF i < nextIndex /\ NullifierOf(i) \notin nullifiers \cup {In(p, 1), In(p, 2)}
            THEN get_root[i].amount ELSE 0)
           = LiveValues[i] - (IF i = i1 THEN a1 ELSE 0) - (IF i = i2 THEN a2 ELSE 0)
    BY <1>1, SpendTerm
  <2>2. get_root' = get_root /\ nextIndex' = nextIndex
    BY <1>2 DEF treeVars, get_root, get_last_root
  <2>3. NullifierOf(i)' = NullifierOf(i)
    BY <2>2 DEF NullifierOf, Canonical
  <2>4. LiveValues'[i] = IF i < nextIndex' /\ NullifierOf(i)' \notin nullifiers'
                         THEN get_root'[i].amount ELSE 0
    BY DEF LiveValues, is_spent, MaxLeaves
  <2> HIDE DEF i1, i2, a1, a2
  <2>5. LiveValues'[i]
          = IF i < nextIndex /\ NullifierOf(i) \notin nullifiers \cup {In(p, 1), In(p, 2)}
            THEN get_root[i].amount ELSE 0
    BY <1>2, <2>2, <2>3, <2>4
  <2>6. (IF i = i1 THEN a1 ELSE 0) \in Int /\ (IF i = i2 THEN a2 ELSE 0) \in Int
    BY <1>4
  <2>7. LiveValues'[i]
          = LiveValues[i] - (IF i = i1 THEN a1 ELSE 0) - (IF i = i2 THEN a2 ELSE 0)
    BY <2>1, <2>5, Zenon
  <2>8. LiveValues[i] \in Int
    <3>1. LiveValues[i] \in Nat
      BY <2>1, Zenon
    <3>2. QED
      BY <3>1
  <2>9. QED
    BY <2>6, <2>7, <2>8
<1> HIDE DEF i1, i2, a1, a2
<1>8. Moved(LiveValues, LiveValues', MaxLeaves, i1, a1, i2, a2, i1, 0, i2, 0)
  BY <1>4, <1>5, <1>7 DEF Moved
<1>9. /\ PartialSums(LiveValues, MaxLeaves)[MaxLeaves] \in Int
      /\ PartialSums(LiveValues', MaxLeaves)[MaxLeaves]
           = PartialSums(LiveValues, MaxLeaves)[MaxLeaves] - a1 - a2 + 0 + 0
  BY <1>3, <1>8, SumMove
<1>10. LiveValue' = PartialSums(LiveValues', MaxLeaves)[MaxLeaves]
  BY DEF LiveValue, PartialSums, MaxLeaves
<1>11. QED
  BY <1>4, <1>6, <1>9, <1>10 DEF LiveValue

\* What the pool owes is a number, and depends on the tree and the spent set only.
LEMMA LiveValueType ==
    ASSUME TypeOK
    PROVE  LiveValue \in Int
<1>1. MaxLeaves \in Nat
  BY TreeType
<1>2. \A i \in 0 .. MaxLeaves - 1 : LiveValues[i] \in Int
  BY TreeType, FieldAssumption DEF LiveValues, Notes
<1>3. CASE MaxLeaves = 0
  BY <1>3, <1>1, <1>2, PartialSumsDef DEF LiveValue
<1>4. CASE MaxLeaves # 0
  <2>1. Moved(LiveValues, LiveValues, MaxLeaves, 0, 0, 0, 0, 0, 0, 0, 0)
    BY <1>1, <1>2, <1>4 DEF Moved
  <2>2. QED
    BY <1>1, <2>1, SumMove DEF LiveValue
<1>5. QED
  BY <1>3, <1>4

\* A step that keeps the tree and the spent set keeps the invariant's other parts.
LEMMA OtherSteps ==
    ASSUME SettlementInv, CommitmentsMatchTree, UNCHANGED <<treeVars, spendVars>>
    PROVE  SettlementInv' /\ CommitmentsMatchTree' /\ LiveValue' = LiveValue
<1>1. get_root' = get_root /\ roots' = roots /\ nextIndex' = nextIndex
  BY DEF treeVars, get_root, get_last_root
<1>2. nullifiers' = nullifiers /\ commitments' = commitments
  BY DEF spendVars
<1>3. SettlementInv'
  <2>1. \A u : SpendsFrom(get_root, u.elem)' <=> SpendsFrom(get_root, u.elem)
    BY <1>1, Zenon DEF SpendsFrom
  <2>2. \A u : ensure_field_element(u)' <=> ensure_field_element(u)
    BY Zenon DEF ensure_field_element
  <2>3. QED
    <3>1. (\A i \in DOMAIN roots : \E n \in 0 .. nextIndex :
              roots[i] = [j \in 0 .. n - 1 |-> get_root[j]])'
      <4>1. \A i \in DOMAIN roots : \E n \in 0 .. nextIndex :
              roots[i] = [j \in 0 .. n - 1 |-> get_root[j]]
        BY Zenon DEF SettlementInv
      <4>2. ASSUME NEW i \in DOMAIN roots'
            PROVE  \E n \in 0 .. nextIndex' : roots'[i] = [j \in 0 .. n - 1 |-> get_root'[j]]
        <5>1. PICK n \in 0 .. nextIndex : roots[i] = [j \in 0 .. n - 1 |-> get_root[j]]
          BY <1>1, <4>1, <4>2, Zenon
        <5>2. n \in 0 .. nextIndex' /\ roots'[i] = [j \in 0 .. n - 1 |-> get_root'[j]]
          BY <1>1, <5>1, Zenon
        <5>3. QED
          BY <5>2, Zenon
      <4>3. QED
        BY <4>2, Zenon
    <3>2. (\A u \in nullifiers : ensure_field_element(u) /\ SpendsFrom(get_root, u.elem))'
      BY <1>2, <2>1, <2>2, Zenon DEF SettlementInv
    <3>3. (\A i \in DOMAIN get_root : get_root[i].amount < MaxAmount)'
      BY <1>1, Zenon DEF SettlementInv
    <3>4. QED
      BY <3>1, <3>2, <3>3, Zenon DEF SettlementInv
<1>4. CommitmentsMatchTree'
  BY <1>1, <1>2, Zenon DEF CommitmentsMatchTree, IsInjective, Canonical
<1>5. LiveValues' = LiveValues
  BY <1>1, <1>2 DEF LiveValues, is_spent, NullifierOf, Canonical, MaxLeaves
<1>6. LiveValue' = LiveValue
  BY <1>5 DEF LiveValue, PartialSums, MaxLeaves
<1>7. QED
  BY <1>3, <1>4, <1>6
-----------------------------------------------------------------------------
(* The invariant *)

\* The constructor's state satisfies the invariant: nothing is owed.
LEMMA InitInv == Init => Inv
<1> SUFFICES ASSUME Init PROVE Inv
  OBVIOUS
<1>1. TypeOK
  BY InitTypeOK
<1>2. /\ roots = [i \in {0} |-> EmptyTree] /\ currentRootIndex = 0 /\ nextIndex = 0
      /\ nullifiers = {} /\ commitments = {} /\ balance = InitialBalance
  BY DEF Init, init
<1>3. DOMAIN roots = {0} /\ roots[0] = EmptyTree /\ get_root = EmptyTree
  BY <1>2 DEF get_root, get_last_root
<1>4. DOMAIN get_root = {}
  BY <1>3 DEF EmptyTree
<1>5. SettlementInv
  <2>1. EmptyTree = [j \in 0 .. 0 - 1 |-> get_root[j]]
    BY DEF EmptyTree
  <2>2. 0 \in 0 .. nextIndex
    BY <1>2
  <2>3. \A i \in DOMAIN roots : \E n \in 0 .. nextIndex :
           roots[i] = [j \in 0 .. n - 1 |-> get_root[j]]
    BY <1>3, <2>1, <2>2, Zenon
  <2>4. QED
    BY <1>2, <1>4, <2>3 DEF SettlementInv
<1>6. CommitmentsMatchTree
  BY <1>2, <1>4 DEF CommitmentsMatchTree, IsInjective
<1>7. LiveValue = 0
  <2> DEFINE zero == [i \in 0 .. MaxLeaves |-> 0]
  <2>1. MaxLeaves \in Nat
    BY <1>1, TreeType
  <2>2. \A i \in 0 .. MaxLeaves - 1 : LiveValues[i] = 0
    BY <1>2 DEF LiveValues
  <2>3. /\ zero \in [0 .. MaxLeaves -> Int] /\ zero[0] = 0 /\ zero[MaxLeaves] = 0
        /\ \A i \in 0 .. MaxLeaves - 1 :
              LiveValues[i] \in Int /\ zero[i + 1] = zero[i] + LiveValues[i]
    BY <2>1, <2>2
  <2> HIDE DEF zero
  <2>4. QED
    BY <2>1, <2>3, SumIs DEF LiveValue
<1>8. balance[PoolAddress] \in Nat
  BY <1>2, ConstantsAssumption
<1>9. QED
  BY <1>1, <1>5, <1>6, <1>7, <1>8 DEF Inv, Solvency


\* Every step keeps the invariant, and none eats into the surplus.
LEMMA NextInv == Inv /\ [Next]_vars => Inv' /\ ConservesValue
<1> SUFFICES ASSUME Inv, [Next]_vars PROVE Inv' /\ ConservesValue
  OBVIOUS
<1>1. TypeOK /\ SettlementInv /\ CommitmentsMatchTree /\ Solvency
  BY DEF Inv
<1>2. TypeOK'
  BY <1>1, NextTypeOK
<1>3. balance[PoolAddress] \in Int /\ balance'[PoolAddress] \in Int /\ LiveValue \in Int
  <2>1. balance \in [Addresses -> Nat] /\ PoolAddress \in Addresses
    BY <1>1, ConstantsAssumption, Zenon DEF TypeOK
  <2>2. balance' \in [Addresses -> Nat]
    BY <1>2, Zenon DEF TypeOK
  <2>3. balance[PoolAddress] \in Int /\ balance'[PoolAddress] \in Int
    BY <2>1, <2>2
  <2>4. QED
    BY <1>1, <2>3, LiveValueType
<1>4. ASSUME NEW p \in Proofs, NEW e \in ExtData, NEW s \in Senders, transact(p, e, s)
      PROVE  Inv' /\ ConservesValue
  <2>1. SettlementInv' /\ CommitmentsMatchTree'
    BY <1>1, <1>4, TransactSettlementInv, TransactCommitments
  <2>2. LiveValue' = LiveValue + e.ext_amount /\ e.ext_amount \in Int
    BY <1>1, <1>4, TransactLiveValue DEF ExtData
  <2>3. /\ balance'[PoolAddress] >= balance[PoolAddress] + e.ext_amount
        /\ (PoolAddress # FeeRecipient /\ (e.ext_amount < 0 => e.recipient # PoolAddress))
             => balance'[PoolAddress] = balance[PoolAddress] + e.ext_amount
    BY <1>1, <1>4, TransactTokens
  <2>4. Solvency'
    <3>1. balance[PoolAddress] >= LiveValue
      BY <1>1, Zenon DEF Solvency
    <3>2. balance'[PoolAddress] >= balance[PoolAddress] + e.ext_amount
      BY <2>3, Zenon
    <3>3. balance'[PoolAddress] >= LiveValue'
      BY <1>3, <2>2, <3>1, <3>2
    <3>4. QED
      BY <3>3, Zenon DEF Solvency
  <2>5. emitted'.recipient = IF e.ext_amount < 0 THEN {e.recipient} ELSE {}
    BY <1>4 DEF transact, SettlementEvents
  <2>6. ConservesValue
    BY <1>3, <2>2, <2>3, <2>5 DEF ConservesValue, Surplus
  <2>7. QED
    BY <1>2, <2>1, <2>4, <2>6 DEF Inv
<1>5. ASSUME NEW p \in Proofs, NEW e \in ExtData, exit(p, e)
      PROVE  Inv' /\ ConservesValue
  <2>1. SettlementInv'
    BY <1>1, <1>5, ExitSettlementInv
  <2>2. CommitmentsMatchTree'
    <3>1. UNCHANGED <<treeVars, commitments>>
      BY <1>5, ExitSpends
    <3>2. get_root' = get_root /\ commitments' = commitments
      BY <3>1 DEF treeVars, get_root, get_last_root
    <3>3. QED
      BY <1>1, <3>2 DEF CommitmentsMatchTree, IsInjective, Canonical
  <2>3. LiveValue' \in Int /\ LiveValue' <= LiveValue + e.ext_amount /\ e.ext_amount \in Int
    BY <1>1, <1>5, ExitLiveValue DEF ExtData
  <2>4. balance'[PoolAddress] >= balance[PoolAddress] + e.ext_amount
    BY <1>1, <1>5, ExitTokens
  <2>5. Solvency'
    BY <1>1, <1>3, <2>3, <2>4 DEF Solvency
  <2>6. emitted'.kind = "exit"
    BY <1>5 DEF exit, ExitEvents
  <2>7. ConservesValue
    <3>1. balance'[PoolAddress] - LiveValue' >= balance[PoolAddress] - LiveValue
      BY <1>3, <2>3, <2>4
    <3>2. Surplus' >= Surplus
      BY <3>1, Zenon DEF Surplus
    <3>3. emitted'.kind # "settlement"
      BY <2>6
    <3>4. QED
      BY <3>2, <3>3, Zenon DEF ConservesValue
  <2>8. QED
    BY <1>2, <2>1, <2>2, <2>5, <2>7 DEF Inv
<1>6. ASSUME UNCHANGED <<treeVars, spendVars>>, balance'[PoolAddress] >= balance[PoolAddress],
             emitted'.kind = "settlement" => balance' = balance
      PROVE  Inv' /\ ConservesValue
  <2>1. SettlementInv' /\ CommitmentsMatchTree' /\ LiveValue' = LiveValue
    BY <1>1, <1>6, OtherSteps
  <2>2. Solvency'
    BY <1>1, <1>3, <1>6, <2>1 DEF Solvency
  <2>3. ConservesValue
    BY <1>3, <1>6, <2>1 DEF ConservesValue, Surplus
  <2>4. QED
    BY <1>2, <2>1, <2>2, <2>3 DEF Inv
<1>7. ASSUME NEW s \in Senders, register(s)
      PROVE  Inv' /\ ConservesValue
  BY <1>3, <1>6, <1>7 DEF register
<1>8. ASSUME NEW a \in Admins, NEW b \in Admins, update_admin(a, b)
      PROVE  Inv' /\ ConservesValue
  BY <1>3, <1>6, <1>8 DEF update_admin
<1>9. ASSUME NEW a \in Admins, NEW v \in Verifiers, update_verifier(a, v)
      PROVE  Inv' /\ ConservesValue
  BY <1>3, <1>6, <1>9 DEF update_verifier
<1>10. ASSUME NEW a \in Admins, NEW m \in Asps, update_asp_membership(a, m)
       PROVE  Inv' /\ ConservesValue
  BY <1>3, <1>6, <1>10 DEF update_asp_membership
<1>11. ASSUME NEW s \in Addresses, NEW t \in Addresses, NEW n \in Nat, token_transfer(s, t, n)
       PROVE  Inv' /\ ConservesValue
  <2>1. balance'[PoolAddress] >= balance[PoolAddress]
    BY <1>1, <1>11, TokenTransfer
  <2>2. emitted'.kind = "none" /\ UNCHANGED <<treeVars, spendVars>>
    BY <1>11 DEF token_transfer, NoEvents
  <2>3. QED
    BY <1>6, <2>1, <2>2
<1>12. ASSUME NEW m \in Asps, NEW r \in AspRoots, asp_publish(m, r)
       PROVE  Inv' /\ ConservesValue
  BY <1>3, <1>6, <1>12 DEF asp_publish
<1>13. CASE UNCHANGED vars
  BY <1>3, <1>6, <1>13 DEF vars
<1>14. QED
  BY <1>4, <1>5, <1>7, <1>8, <1>9, <1>10, <1>11, <1>12, <1>13 DEF Next

\* The inductive invariant holds in every reachable state.
LEMMA SpecInv == Spec => []Inv
<1>1. Inv /\ [Next]_vars => Inv'
  BY NextInv
<1>2. QED
  BY <1>1, InitInv, PTL DEF Spec
-----------------------------------------------------------------------------
(* Theorems *)

\* Every reachable state is well typed; in particular the tree never outgrows its
\* capacity, the ring its size, and no token balance goes below zero.
THEOREM TypeCorrect == Spec => []TypeOK
<1>1. Inv => TypeOK
  BY DEF Inv
<1>2. QED
  BY <1>1, SpecInv, PTL

\* The pool's token account covers every unspent note, whatever the field size,
\* fee, tree depth, ring size and the proofs that are submitted.
THEOREM PoolSolvent == Spec => []Solvency
<1>1. Inv => Solvency
  BY DEF Inv
<1>2. QED
  BY <1>1, SpecInv, PTL

\* What settlements rely on: ring roots are prefixes of the tree, spent nullifiers
\* are canonical and of leaves, amounts stay where the field cannot wrap.
THEOREM SettlementsSound == Spec => []SettlementInv
<1>1. Inv => SettlementInv
  BY DEF Inv
<1>2. QED
  BY <1>1, SpecInv, PTL

\* The duplicate guard's map is exactly the set of leaves, each once.
THEOREM DuplicateGuardExact == Spec => []CommitmentsMatchTree
<1>1. Inv => CommitmentsMatchTree
  BY DEF Inv
<1>2. QED
  BY <1>1, SpecInv, PTL

\* No call lowers the pool's surplus, and transact keeps it exactly.
THEOREM ValueIsConserved == Spec => ValueConserved
<1>1. Inv /\ [Next]_vars => [ConservesValue]_vars
  BY NextInv
<1>2. QED
  BY <1>1, SpecInv, PTL DEF Spec, ValueConserved

\* A call other than transact and exit, as its events have it.
Quiet ==
    /\ emitted'.kind \notin Settled
    /\ emitted'.leaves = <<>> /\ emitted'.nullifiers = <<>>
    /\ UNCHANGED <<treeVars, nullifiers>>

\* Every call settles or is quiet.
LEMMA Calls ==
    ASSUME Next
    PROVE  \/ \E p \in Proofs, e \in ExtData, s \in Senders : transact(p, e, s)
           \/ \E p \in Proofs, e \in ExtData : exit(p, e)
           \/ Quiet
<1> USE DEF Quiet, NoEvents, Settled, spendVars
<1>1. ASSUME NEW s \in Senders, register(s) PROVE Quiet
  BY <1>1 DEF register
<1>2. ASSUME NEW a \in Admins, NEW b \in Admins, update_admin(a, b) PROVE Quiet
  BY <1>2 DEF update_admin
<1>3. ASSUME NEW a \in Admins, NEW v \in Verifiers, update_verifier(a, v) PROVE Quiet
  BY <1>3 DEF update_verifier
<1>4. ASSUME NEW a \in Admins, NEW m \in Asps, update_asp_membership(a, m) PROVE Quiet
  BY <1>4 DEF update_asp_membership
<1>5. ASSUME NEW s \in Addresses, NEW t \in Addresses, NEW n \in Nat, token_transfer(s, t, n)
      PROVE  Quiet
  BY <1>5 DEF token_transfer
<1>6. ASSUME NEW m \in Asps, NEW r \in AspRoots, asp_publish(m, r) PROVE Quiet
  BY <1>6 DEF asp_publish
<1> HIDE DEF Quiet
<1>7. QED
  BY <1>1, <1>2, <1>3, <1>4, <1>5, <1>6 DEF Next

\* A settled proof's nullifiers are new as field elements, not only as U256s.
LEMMA NewElements ==
    ASSUME TypeOK, SettlementInv, NEW p \in Proofs, NEW e, NEW ins, NEW b,
           SettleResult(p, e, ins, b) = "Ok"
    PROVE  /\ \A k \in DOMAIN p.input_nullifiers : \A n \in nullifiers :
                 p.input_nullifiers[k].elem # n.elem
           /\ \A j, k \in DOMAIN p.input_nullifiers :
                 j # k => p.input_nullifiers[j].elem # p.input_nullifiers[k].elem
<1>1. /\ DOMAIN p.input_nullifiers = {1, 2}
      /\ In(p, 1).elem # In(p, 2).elem
  BY TwoInputs
<1>2. ASSUME NEW k \in {1, 2}, NEW n \in nullifiers
      PROVE  In(p, k).elem # n.elem
  <2>1. In(p, k) = Canonical(In(p, k).elem) /\ In(p, k) \notin nullifiers
    BY TwoInputs, CanonicalElement
  <2>2. n = Canonical(n.elem)
    BY CanonicalElement DEF TypeOK, SettlementInv, ensure_field_element
  <2>3. QED
    BY <2>1, <2>2
<1>3. QED
  BY <1>1, <1>2 DEF In

\* No field element is spent twice, in one call or in two.
THEOREM NothingSpentTwice == Spec => NoDoubleSpend
<1>1. Inv /\ [Next]_vars => [SpendsOnce]_vars
  <2> SUFFICES ASSUME Inv, Next PROVE SpendsOnce
    OBVIOUS
  <2>1. ASSUME NEW p \in Proofs, NEW e \in ExtData, NEW s \in Senders, transact(p, e, s)
        PROVE  SpendsOnce
    <3>1. SettleResult(p, e, TRUE, PayIn(e, s)) = "Ok"
      BY <2>1, TransactOk DEF transact
    <3>2. emitted'.nullifiers = p.input_nullifiers
      BY <2>1 DEF transact, SettlementEvents
    <3>3. /\ \A k \in DOMAIN p.input_nullifiers : \A n \in nullifiers :
                p.input_nullifiers[k].elem # n.elem
          /\ \A j, k \in DOMAIN p.input_nullifiers :
                j # k => p.input_nullifiers[j].elem # p.input_nullifiers[k].elem
      BY <3>1, NewElements DEF Inv
    <3>4. QED
      BY <3>2, <3>3 DEF SpendsOnce
  <2>2. ASSUME NEW p \in Proofs, NEW e \in ExtData, exit(p, e)
        PROVE  SpendsOnce
    <3>1. SettleResult(p, e, FALSE, balance) = "Ok"
      BY <2>2, ExitOk DEF exit
    <3>2. emitted'.nullifiers = p.input_nullifiers
      BY <2>2 DEF exit, ExitEvents
    <3>3. /\ \A k \in DOMAIN p.input_nullifiers : \A n \in nullifiers :
                p.input_nullifiers[k].elem # n.elem
          /\ \A j, k \in DOMAIN p.input_nullifiers :
                j # k => p.input_nullifiers[j].elem # p.input_nullifiers[k].elem
      BY <3>1, NewElements DEF Inv
    <3>4. QED
      BY <3>2, <3>3 DEF SpendsOnce
  <2>3. Quiet => SpendsOnce
    BY DEF Quiet, SpendsOnce
  <2>4. QED
    BY <2>1, <2>2, <2>3, Calls
<1>2. QED
  BY <1>1, SpecInv, PTL DEF Spec, NoDoubleSpend

\* Every key that spends is enrolled in the live root of the allowlist the pool
\* points at, dummies included.
THEOREM SpendersEnrolled == Spec => OnlyMembersSettle
<1>1. [Next]_vars => [MembersSettle]_vars
  <2> SUFFICES ASSUME Next PROVE MembersSettle
    OBVIOUS
  <2>1. ASSUME NEW p \in Proofs, NEW e, NEW ins, NEW b, SettleResult(p, e, ins, b) = "Ok"
        PROVE  \A k \in DOMAIN p.input_nullifiers :
                  p.input_nullifiers[k].elem.note.key \in Members[get_asp_membership_root]
    <3>1. DOMAIN p.input_nullifiers = {1, 2}
      BY <2>1, TwoInputs
    <3>2. p.asp_membership_root = get_asp_membership_root
      BY <2>1, SettleOk DEF ensure_asp_root
    <3>3. /\ p.input_nullifiers[1].elem.note.key \in Members[p.asp_membership_root]
          /\ p.input_nullifiers[2].elem.note.key \in Members[p.asp_membership_root]
      BY <2>1, CircuitOk
    <3>4. QED
      BY <3>1, <3>2, <3>3
  <2>2. ASSUME NEW p \in Proofs, NEW e \in ExtData, NEW s \in Senders, transact(p, e, s)
        PROVE  MembersSettle
    <3>1. SettleResult(p, e, TRUE, PayIn(e, s)) = "Ok"
      BY <2>2, TransactOk DEF transact
    <3>2. emitted'.nullifiers = p.input_nullifiers
      BY <2>2 DEF transact, SettlementEvents
    <3>3. QED
      BY <2>1, <3>1, <3>2 DEF MembersSettle
  <2>3. ASSUME NEW p \in Proofs, NEW e \in ExtData, exit(p, e)
        PROVE  MembersSettle
    <3>1. SettleResult(p, e, FALSE, balance) = "Ok"
      BY <2>3, ExitOk DEF exit
    <3>2. emitted'.nullifiers = p.input_nullifiers
      BY <2>3 DEF exit, ExitEvents
    <3>3. QED
      BY <2>1, <3>1, <3>2 DEF MembersSettle
  <2>4. Quiet => MembersSettle
    BY DEF Quiet, MembersSettle
  <2>5. QED
    BY <2>2, <2>3, <2>4, Calls
<1>2. QED
  BY <1>1, PTL DEF Spec, OnlyMembersSettle

\* The leaves and nullifiers a follower rebuilds from a call's events are the
\* contract's, exits included.
THEOREM EventsComplete == Spec => EventsRebuildState
<1>1. Inv /\ [Next]_vars => [FollowsEvents]_vars
  <2> SUFFICES ASSUME Inv, Next PROVE FollowsEvents
    OBVIOUS
  <2>0. TypeOK /\ nextIndex \in Nat /\ get_root \in [0 .. nextIndex - 1 -> Notes]
    BY TreeType DEF Inv
  <2>1. ASSUME NEW p \in Proofs, NEW e \in ExtData, NEW s \in Senders, transact(p, e, s)
        PROVE  FollowsEvents
    <3> DEFINE added == emitted'.leaves
    <3>1. /\ added = [i \in nextIndex .. nextIndex + 1 |->
                         IF i = nextIndex THEN p.output_commitment0 ELSE p.output_commitment1]
          /\ emitted'.nullifiers = p.input_nullifiers
      BY <2>1 DEF transact, SettlementEvents
    <3>2. /\ get_root' \in [0 .. nextIndex + 1 -> Notes]
          /\ \A j \in 0 .. nextIndex - 1 : get_root'[j] = get_root[j]
          /\ get_root'[nextIndex] = p.output_commitment0.elem
          /\ get_root'[nextIndex + 1] = p.output_commitment1.elem
      BY <2>0, <2>1, TransactTree
    <3>3. nullifiers' = nullifiers \cup Range(p.input_nullifiers)
      BY <2>1 DEF transact, spend_nullifiers_once
    <3>4. /\ DOMAIN added = {nextIndex, nextIndex + 1}
          /\ added[nextIndex] = p.output_commitment0
          /\ added[nextIndex + 1] = p.output_commitment1
      <4>1. nextIndex \in Nat
        BY <2>0
      <4>2. nextIndex .. nextIndex + 1 = {nextIndex, nextIndex + 1} /\ nextIndex # nextIndex + 1
        BY <4>1
      <4> HIDE DEF added
      <4>3. QED
        BY <3>1, <4>2
    <3> HIDE DEF added
    <3>5. DOMAIN get_root \cup DOMAIN added = 0 .. nextIndex + 1
      BY <2>0, <3>4
    <3>6. \A i \in 0 .. nextIndex + 1 :
             get_root'[i] = IF i \in DOMAIN added THEN added[i].elem ELSE get_root[i]
      <4>1. nextIndex \in Nat
        BY <2>0
      <4>2. ASSUME NEW i \in 0 .. nextIndex + 1
            PROVE  i \in 0 .. nextIndex - 1 \/ i = nextIndex \/ i = nextIndex + 1
        BY <4>1
      <4>3. \A i \in 0 .. nextIndex - 1 : i # nextIndex /\ i # nextIndex + 1
        BY <4>1
      <4>4. QED
        BY <3>2, <3>4, <4>2, <4>3
    <3>7. get_root' = [i \in DOMAIN get_root \cup DOMAIN added |->
                         IF i \in DOMAIN added THEN added[i].elem ELSE get_root[i]]
      BY <3>2, <3>5, <3>6
    <3>8. QED
      BY <3>1, <3>3, <3>7 DEF FollowsEvents, added
  <2>2. ASSUME emitted'.leaves = <<>>, UNCHANGED treeVars,
               nullifiers' = nullifiers \cup Range(emitted'.nullifiers)
        PROVE  FollowsEvents
    <3>1. get_root' = get_root
      BY <2>2 DEF treeVars, get_root, get_last_root
    <3>2. DOMAIN emitted'.leaves = {}
      BY <2>2
    <3>3. QED
      BY <2>0, <2>2, <3>1, <3>2 DEF FollowsEvents
  <2>3. ASSUME NEW p \in Proofs, NEW e \in ExtData, exit(p, e)
        PROVE  FollowsEvents
    BY <2>2, <2>3 DEF exit, ExitEvents, spend_nullifiers_once
  <2>4. ASSUME Quiet
        PROVE  FollowsEvents
    <3>1. Range(emitted'.nullifiers) = {}
      <4>1. emitted'.nullifiers = <<>>
        BY <2>4 DEF Quiet
      <4>2. Range(<<>>) = {}
        BY DEF Range
      <4>3. QED
        BY <4>1, <4>2
    <3>2. QED
      BY <2>2, <2>4, <3>1 DEF Quiet
  <2>5. QED
    BY <2>1, <2>3, <2>4, Calls
<1>2. QED
  BY <1>1, SpecInv, PTL DEF Spec, EventsRebuildState
-----------------------------------------------------------------------------
(* The ring of roots *)

\* The slot written j insertions before the current one, while the ring had it.
Back(j) ==
    IF j <= currentRootIndex THEN currentRootIndex - j
    ELSE currentRootIndex - j + RootHistorySize
Window == {k \in 0 .. RootHistorySize - 1 : 2 * k <= nextIndex}
Prefix(n) == [i \in 0 .. n - 1 |-> get_root[i]]

\* What makes RootWindow inductive: which slot holds which tree, so that the slot
\* an insertion overwrites is the oldest one's.  Leaves come in pairs.
RingInv ==
    /\ nextIndex % 2 = 0
    /\ DOMAIN roots = {Back(j) : j \in Window}
    /\ \A j \in Window : roots[Back(j)] = Prefix(nextIndex - 2 * j)

\* The ring starts with the empty tree.
LEMMA InitRing == Init => RingInv
<1> SUFFICES ASSUME Init PROVE RingInv
  OBVIOUS
<1>1. /\ roots = [i \in {0} |-> EmptyTree] /\ currentRootIndex = 0 /\ nextIndex = 0
  BY DEF Init, init
<1>2. RootHistorySize \in Nat \ {0}
  BY ConstantsAssumption
<1>3. Window = {0}
  BY <1>1, <1>2 DEF Window
<1>4. Back(0) = 0
  BY <1>1 DEF Back
<1>5. DOMAIN roots = {Back(j) : j \in Window}
  BY <1>1, <1>3, <1>4
<1>6. EmptyTree = [i \in 0 .. 0 - 1 |-> get_root[i]]
  BY DEF EmptyTree
<1>7. roots[0] = EmptyTree
  BY <1>1
<1>8. nextIndex - 2 * 0 = 0 /\ nextIndex % 2 = 0
  BY <1>1
<1>9. \A j \in Window : roots[Back(j)] = Prefix(nextIndex - 2 * j)
  BY <1>3, <1>4, <1>6, <1>7, <1>8 DEF Prefix
<1>10. QED
  BY <1>5, <1>8, <1>9 DEF RingInv

\* Two leaves more: every slot is one insertion older, the oldest is overwritten.
LEMMA RingGrows ==
    ASSUME TypeOK, RingInv, NEW c0 \in Notes, NEW c1 \in Notes,
           insert_two_leaves(c0, c1), ~ is_full
    PROVE  RingInv'
<1> DEFINE R == RootHistorySize
           n == nextIndex
           cur == currentRootIndex
           slot == (currentRootIndex + 1) % RootHistorySize
           tree == [j \in 0 .. nextIndex + 1 |->
                       IF j < nextIndex THEN get_root[j]
                       ELSE IF j = nextIndex THEN c0 ELSE c1]
           Newer(m) == [i \in 0 .. m - 1 |-> tree[i]]
<1>1. /\ R \in Nat \ {0} /\ n \in Nat /\ cur \in 0 .. R - 1
      /\ get_root \in [0 .. n - 1 -> Notes]
  <2>1. cur \in 0 .. R - 1
    BY DEF TypeOK
  <2>2. QED
    BY <2>1, TreeType, ConstantsAssumption
<1>2. /\ roots' = [i \in DOMAIN roots \cup {slot} |->
                      IF i = slot THEN tree ELSE roots[i]]
      /\ currentRootIndex' = slot
      /\ nextIndex' = n + 2
  BY DEF insert_two_leaves, get_root
<1>3. get_root' = tree
  BY <1>2 DEF get_root, get_last_root
<1>4. slot = IF cur + 1 = R THEN 0 ELSE cur + 1
  BY <1>1
<1>5. nextIndex' % 2 = 0
  <2>1. n % 2 = 0
    BY DEF RingInv
  <2>2. n \in Nat /\ nextIndex' = n + 2
    BY <1>1, <1>2, Zenon
  <2> HIDE DEF n
  <2>3. QED
    BY <2>1, <2>2
<1>6. ASSUME NEW k \in Int, 0 <= k, 2 * k <= n
      PROVE  Prefix(n - 2 * k) = Newer(n - 2 * k)
  <2>1. \A i \in 0 .. n - 2 * k - 1 : tree[i] = get_root[i]
    <3>1. \A i \in 0 .. n - 2 * k - 1 : i \in 0 .. n + 1 /\ i < n
      BY <1>1, <1>6
    <3>2. QED
      BY <3>1
  <2> HIDE DEF tree
  <2>2. QED
    BY <2>1, Zenon DEF Prefix
<1> HIDE DEF tree
<1>7. /\ currentRootIndex' = slot /\ slot \in 0 .. R - 1
      /\ roots'[slot] = tree /\ DOMAIN roots' = DOMAIN roots \cup {slot}
      /\ \A i \in DOMAIN roots : i # slot => roots'[i] = roots[i]
  <2>1. slot \in 0 .. R - 1
    BY <1>1, <1>4
  <2> HIDE DEF slot
  <2>2. QED
    BY <1>2, <2>1
<1> HIDE DEF slot
<1>8. Back(0)' = slot
  BY <1>1, <1>7 DEF Back
<1>9. ASSUME NEW k \in 0 .. R - 1
      PROVE  /\ k < R - 1 => Back(k + 1)' = Back(k) /\ Back(k) # slot
             /\ k = R - 1 => Back(k) = slot
  <2>1. Back(k) = IF k <= cur THEN cur - k ELSE cur - k + R
    BY Zenon DEF Back
  <2>2. Back(k + 1)' = IF k + 1 <= slot THEN slot - (k + 1) ELSE slot - (k + 1) + R
    BY <1>7, Zenon DEF Back
  <2>3. R \in Nat \ {0} /\ cur \in 0 .. R - 1
    BY <1>1
  <2> HIDE DEF R, cur
  <2>4. QED
    BY <1>4, <2>1, <2>2, <2>3
<1>10. \A k \in Window : Back(k) \in DOMAIN roots
  BY DEF RingInv
<1>11. ASSUME NEW j \in Window'
       PROVE  Back(j)' \in DOMAIN roots' /\ roots'[Back(j)'] = Newer((n + 2) - 2 * j)
  <2>1. j \in 0 .. R - 1 /\ 2 * j <= n + 2
    BY <1>2 DEF Window
  <2>2. CASE j = 0
    <3>1. (n + 2) - 2 * j = n + 2
      BY <1>1, <2>2
    <3>2. tree = Newer(n + 2)
      BY <1>1 DEF tree
    <3> HIDE DEF Newer
    <3>3. QED
      BY <1>7, <1>8, <2>2, <3>1, <3>2
  <2>3. CASE j # 0
    <3> DEFINE k == j - 1
    <3>1. k \in 0 .. R - 1 /\ k < R - 1 /\ 0 <= k /\ 2 * k <= n /\ j = k + 1 /\ k \in Int
      BY <1>1, <2>1, <2>3
    <3>2. (n + 2) - 2 * j = n - 2 * k
      BY <1>1, <3>1
    <3> HIDE DEF k
    <3>3. k \in Window
      BY <3>1 DEF Window
    <3>4. Back(j)' = Back(k) /\ Back(k) # slot
      BY <1>9, <3>1
    <3>5. roots'[Back(k)] = roots[Back(k)] /\ Back(k) \in DOMAIN roots'
      BY <1>7, <1>10, <3>3, <3>4
    <3>6. roots[Back(k)] = Prefix(n - 2 * k)
      BY <3>3 DEF RingInv
    <3>7. Prefix(n - 2 * k) = Newer(n - 2 * k)
      BY <1>6, <3>1
    <3> HIDE DEF Newer
    <3>8. QED
      BY <3>2, <3>4, <3>5, <3>6, <3>7
  <2>4. QED
    BY <2>2, <2>3
<1>12. ASSUME NEW i \in DOMAIN roots'
       PROVE  \E j \in Window' : i = Back(j)'
  <2>1. CASE i = slot
    <3>1. 0 \in Window'
      BY <1>1, <1>2 DEF Window
    <3>2. QED
      BY <1>8, <2>1, <3>1
  <2>2. CASE i # slot
    <3>1. i \in DOMAIN roots
      BY <1>7, <2>2
    <3>2. PICK k \in Window : i = Back(k)
      BY <3>1 DEF RingInv
    <3>3. k \in 0 .. R - 1 /\ 2 * k <= n
      BY DEF Window
    <3>4. k < R - 1
      BY <1>1, <1>9, <2>2, <3>2, <3>3
    <3>5. Back(k + 1)' = i
      BY <1>9, <3>2, <3>3, <3>4
    <3>6. k + 1 \in Window'
      BY <1>1, <1>2, <3>3, <3>4 DEF Window
    <3>7. QED
      BY <3>5, <3>6
  <2>3. QED
    BY <2>1, <2>2
<1>13. DOMAIN roots' = {Back(j)' : j \in Window'}
  BY <1>11, <1>12
<1>14. \A j \in Window' : roots'[Back(j)'] = [i \in 0 .. (nextIndex' - 2 * j) - 1 |-> get_root'[i]]
  BY <1>2, <1>3, <1>11
<1>15. QED
  BY <1>5, <1>13, <1>14 DEF RingInv, Prefix

\* Every step keeps the ring's order.
LEMMA NextRing == TypeOK /\ RingInv /\ [Next]_vars => RingInv'
<1> SUFFICES ASSUME TypeOK, RingInv, [Next]_vars PROVE RingInv'
  OBVIOUS
<1>1. ASSUME UNCHANGED treeVars PROVE RingInv'
  <2>1. /\ roots' = roots /\ nextIndex' = nextIndex /\ currentRootIndex' = currentRootIndex
        /\ get_root' = get_root
    BY <1>1 DEF treeVars, get_root, get_last_root
  <2>2. (\A j : Back(j)' = Back(j)) /\ Window' = Window /\ \A n : Prefix(n)' = Prefix(n)
    BY <2>1, Zenon DEF Window, Back, Prefix
  <2>3. QED
    BY <2>1, <2>2, Zenon DEF RingInv
<1>2. ASSUME NEW p \in Proofs, NEW e \in ExtData, NEW s \in Senders, transact(p, e, s)
      PROVE  RingInv'
  <2>1. p.output_commitment0.elem \in Notes /\ p.output_commitment1.elem \in Notes
    BY DEF Proofs, U256
  <2>2. SettleResult(p, e, TRUE, PayIn(e, s)) = "Ok"
    BY <1>2, TransactOk DEF transact
  <2>3. /\ insert_two_leaves(p.output_commitment0.elem, p.output_commitment1.elem)
        /\ ~ is_full
    BY <1>2, <2>2, SettleOk DEF transact
  <2>4. QED
    BY <2>1, <2>3, RingGrows
<1>3. CASE UNCHANGED vars
  BY <1>1, <1>3 DEF vars
<1>4. ASSUME NEW p \in Proofs, NEW e \in ExtData, exit(p, e)
      PROVE  RingInv'
  BY <1>1, <1>4 DEF exit
<1>5. ASSUME NEW s \in Senders, register(s)
      PROVE  RingInv'
  BY <1>1, <1>5 DEF register
<1>6. ASSUME NEW a, NEW b, update_admin(a, b) \/ update_verifier(a, b) \/ update_asp_membership(a, b)
      PROVE  RingInv'
  BY <1>1, <1>6 DEF update_admin, update_verifier, update_asp_membership
<1>7. ASSUME NEW s, NEW t, NEW m, token_transfer(s, t, m)
      PROVE  RingInv'
  BY <1>1, <1>7 DEF token_transfer
<1>8. ASSUME NEW m, NEW r, asp_publish(m, r)
      PROVE  RingInv'
  BY <1>1, <1>8 DEF asp_publish
<1>9. QED
  BY <1>2, <1>3, <1>4, <1>5, <1>6, <1>7, <1>8 DEF Next

LEMMA SpecRing == Spec => [](Inv /\ RingInv)
<1>1. Init => Inv /\ RingInv
  BY InitInv, InitRing
<1>2. Inv /\ RingInv /\ [Next]_vars => Inv' /\ RingInv'
  BY NextInv, NextRing DEF Inv
<1>3. QED
  BY <1>1, <1>2, PTL DEF Spec

\* The known roots are exactly the last RootHistorySize trees, however often the
\* ring has wrapped.
THEOREM RootsAreTheLatest == Spec => []RootWindow
<1>1. ASSUME RingInv PROVE RootWindow
  <2> DEFINE Older(j) == [i \in 0 .. nextIndex - 2 * j - 1 |-> get_root[i]]
  <2>1. /\ \A i \in DOMAIN roots : \E j \in Window : i = Back(j)
        /\ \A j \in Window : Back(j) \in DOMAIN roots
    BY <1>1 DEF RingInv
  <2>2. \A j \in Window : roots[Back(j)] = Older(j)
    BY <1>1 DEF RingInv, Prefix
  <2> HIDE DEF Older
  <2>3. {roots[i] : i \in DOMAIN roots} = {Older(j) : j \in Window}
    BY <2>1, <2>2
  <2>4. QED
    BY <2>3 DEF RootWindow, Window, Older
<1>2. QED
  BY <1>1, SpecRing, PTL
-----------------------------------------------------------------------------
(* A note can always be taken out *)

\* The pool's account covers any one note that is not spent.
LEMMA NoteIsCovered ==
    ASSUME Inv, NEW i \in DOMAIN get_root, ~ is_spent(NullifierOf(i))
    PROVE  /\ get_root[i].amount \in Nat
           /\ balance[PoolAddress] \in Nat
           /\ balance[PoolAddress] >= get_root[i].amount
<1>1. TypeOK /\ balance[PoolAddress] >= LiveValue
  BY DEF Inv, Solvency
<1>2. /\ MaxLeaves \in Nat /\ nextIndex \in Nat /\ nextIndex <= MaxLeaves
      /\ get_root \in [0 .. nextIndex - 1 -> Notes]
  BY <1>1, TreeType
<1>3. \A j \in 0 .. nextIndex - 1 : get_root[j].amount \in Nat
  BY <1>2, FieldAssumption DEF Notes
<1>4. \A j \in 0 .. MaxLeaves - 1 : LiveValues[j] \in Nat
  BY <1>2, <1>3, LiveTerm
<1>5. i \in 0 .. nextIndex - 1 /\ i \in 0 .. MaxLeaves - 1
  BY <1>2
<1>6. LiveValues[i] = get_root[i].amount
  BY <1>2, <1>5, LiveTerm DEF is_spent
<1>7. LiveValue >= LiveValues[i]
  BY <1>2, <1>4, <1>5, SumAtLeast DEF LiveValue
<1>8. balance[PoolAddress] \in Nat
  <2>1. balance \in [Addresses -> Nat] /\ PoolAddress \in Addresses
    BY <1>1, ConstantsAssumption DEF TypeOK
  <2>2. QED
    BY <2>1
<1>9. LiveValue \in Int
  BY <1>1, LiveValueType
<1>10. get_root[i].amount \in Nat
  BY <1>3, <1>5
<1>11. QED
  BY <1>1, <1>6, <1>7, <1>8, <1>9, <1>10

\* The checks of settle, all passed, make it answer Ok.
LEMMA SettleChecks ==
    ASSUME NEW p, NEW e, NEW ins \in BOOLEAN, NEW b,
           ensure_proof_field_elements(p),
           is_known_root(p.root),
           ensure_nullifiers_unspent(p.input_nullifiers),
           hash_ext_data(e) = p.ext_data_hash,
           ensure_public_amount(p, e),
           ensure_asp_root(p),
           verify_proof(p),
           ins => ensure_commitments_unused(p),
           ~ (Withdrawn(e) > MaxI128),
           ~ (Withdrawn(e) * FeeBps > MaxI128),
           ins => nextIndex % 2 = 0,
           ins => ~ is_full,
           CanPayOut(b, e)
    PROVE  SettleResult(p, e, ins, b) = "Ok"
BY DEF SettleResult

\* A withdrawal of no more than the pool has can be paid out, fee included.
LEMMA CoveredPayOut ==
    ASSUME NEW b \in [Addresses -> Nat], NEW e \in ExtData, e.recipient # PoolAddress,
           b[PoolAddress] >= Withdrawn(e)
    PROVE  CanPayOut(b, e)
<1> DEFINE fee == calculate_fee_amount(Withdrawn(e))
<1>1. Withdrawn(e) \in Nat /\ e.recipient \in Addresses
  BY DEF Withdrawn, ExtData
<1>2. fee \in Nat /\ fee <= Withdrawn(e)
  BY <1>1, FeeBound
<1>3. PoolAddress \in Addresses /\ b[PoolAddress] \in Nat
  BY ConstantsAssumption
<1>4. Paid(e) = Withdrawn(e) - fee
  BY DEF Paid
<1> HIDE DEF fee
<1>5. Paid(e) \in Nat /\ b[PoolAddress] >= Paid(e)
  BY <1>1, <1>2, <1>3, <1>4
<1>6. Transfer(b, PoolAddress, e.recipient, Paid(e))[PoolAddress] = b[PoolAddress] - Paid(e)
  <2> DEFINE paid == Paid(e)
             to == e.recipient
  <2>1. paid \in Nat /\ b[PoolAddress] >= paid /\ to \in Addresses /\ PoolAddress # to
    BY <1>1, <1>3, <1>5, Zenon
  <2> HIDE DEF paid, to
  <2>2. Transfer(b, PoolAddress, to, paid)[PoolAddress]
          = b[PoolAddress] - (IF PoolAddress = PoolAddress THEN paid ELSE 0)
                           + (IF PoolAddress = to THEN paid ELSE 0)
    BY <1>3, <2>1, TransferNat
  <2>3. Transfer(b, PoolAddress, to, paid)[PoolAddress] = b[PoolAddress] - paid
    <3> DEFINE held == b[PoolAddress]
               left == Transfer(b, PoolAddress, to, paid)[PoolAddress]
    <3>1. left = held - paid + 0
      BY <2>1, <2>2, Zenon
    <3>2. held \in Nat /\ paid \in Nat
      BY <1>3, <2>1, Zenon
    <3> HIDE DEF held, left
    <3>3. left = held - paid
      BY <3>1, <3>2
    <3>4. QED
      BY <3>3, Zenon DEF held, left
  <2>4. QED
    BY <2>3, Zenon DEF paid, to
<1>7. b[PoolAddress] - Paid(e) >= fee
  BY <1>1, <1>2, <1>3, <1>4
<1>8. QED
  BY <1>5, <1>6, <1>7 DEF CanPayOut, fee

\* A dummy: a note worth nothing of an enrolled key.
ZeroNote(key, b) == [amount |-> 0, key |-> key, blinding |-> b]

\* Blinding factors that were not used yet: the wallets draw them from the whole
\* field, so there is always another one.
BlindingsLeft ==
    \A key \in Keys : \E b0, b1, b2 \in Blindings :
        /\ b1 # b2
        /\ Canonical([note |-> ZeroNote(key, b0), index |-> 0]) \notin nullifiers
        /\ Canonical(ZeroNote(key, b1)) \notin commitments
        /\ Canonical(ZeroNote(key, b2)) \notin commitments

\* The proof that takes out note i, with a dummy input and dummy outputs.
TakeOut(i, ext, b0, b1, b2) ==
    [root |-> get_root,
     input_nullifiers |->
       <<NullifierOf(i),
         Canonical([note |-> ZeroNote(get_root[i].key, b0), index |-> 0])>>,
     output_commitment0 |-> Canonical(ZeroNote(get_root[i].key, b1)),
     output_commitment1 |-> Canonical(ZeroNote(get_root[i].key, b2)),
     public_amount |-> calculate_public_amount(ext.ext_amount),
     ext_data_hash |-> hash_ext_data(ext),
     asp_membership_root |-> get_asp_membership_root]

\* When it can be made: an unspent note of an enrolled key, worth something whose
\* fee can be computed, and blindings that were not used yet.
Takeable(i, s, ext, b0, b1, b2) ==
    /\ balance[PoolAddress] <= MaxI128
    /\ i \in DOMAIN get_root
    /\ s \in Senders
    /\ ext \in ExtData
    /\ ext = [recipient |-> s, ext_amount |-> -get_root[i].amount]
    /\ get_root[i].amount > 0
    /\ get_root[i].amount * FeeBps <= MaxI128
    /\ ~ is_spent(NullifierOf(i))
    /\ get_root[i].key \in Members[get_asp_membership_root]
    /\ b1 # b2
    /\ Canonical([note |-> ZeroNote(get_root[i].key, b0), index |-> 0]) \notin nullifiers
    /\ Canonical(ZeroNote(get_root[i].key, b1)) \notin commitments
    /\ Canonical(ZeroNote(get_root[i].key, b2)) \notin commitments

\* That proof passes every check of settle.
LEMMA TakeOutSettles ==
    ASSUME Inv, RingInv, NEW i, NEW s, NEW ext, NEW b0, NEW b1, NEW b2,
           Takeable(i, s, ext, b0, b1, b2), NEW ins \in BOOLEAN, ins => ~ is_full
    PROVE  SettleResult(TakeOut(i, ext, b0, b1, b2), ext, ins, balance) = "Ok"
<1> DEFINE p == TakeOut(i, ext, b0, b1, b2)
           key == get_root[i].key
           amount == get_root[i].amount
           n1 == [note |-> get_root[i], index |-> i]
           n2 == [note |-> ZeroNote(key, b0), index |-> 0]
           o1 == ZeroNote(key, b1)
           o2 == ZeroNote(key, b2)
<1>0. /\ balance[PoolAddress] <= MaxI128 /\ i \in DOMAIN get_root /\ ext \in ExtData
      /\ ~ is_spent(NullifierOf(i)) /\ key \in Members[get_asp_membership_root]
      /\ b1 # b2 /\ amount > 0
      /\ Canonical(n2) \notin nullifiers
      /\ Canonical(o1) \notin commitments /\ Canonical(o2) \notin commitments
  BY Zenon DEF Takeable
<1>1. /\ TypeOK /\ SettlementInv
      /\ amount \in Nat /\ balance[PoolAddress] \in Nat /\ balance[PoolAddress] >= amount
  BY <1>0, NoteIsCovered DEF Inv
<1>2. amount < MaxAmount /\ amount > 0
  BY <1>0, <1>1 DEF SettlementInv
<1>3. ext.ext_amount = -amount /\ ext.recipient = s /\ s # PoolAddress /\ s \in Addresses
  <2>1. ext = [recipient |-> s, ext_amount |-> -amount] /\ s \in Senders
    BY Zenon DEF Takeable
  <2> HIDE DEF amount
  <2>2. QED
    BY <2>1 DEF Senders
<1>4. Withdrawn(ext) = amount
  <2>1. ext.ext_amount < 0 /\ -ext.ext_amount = amount
    <3> HIDE DEF amount
    <3>1. amount \in Nat /\ amount > 0 /\ ext.ext_amount = -amount
      BY <1>1, <1>2, <1>3
    <3>2. QED
      BY <3>1
  <2>2. QED
    BY <2>1, Zenon DEF Withdrawn
<1>5. calculate_public_amount(ext.ext_amount) = FieldSize - amount
  <2>1. FieldSize \in Int
    BY FieldAssumption
  <2> HIDE DEF amount
  <2>2. ~ (ext.ext_amount >= 0) /\ FieldSize + ext.ext_amount = FieldSize - amount
    <3>1. amount \in Nat /\ amount > 0 /\ ext.ext_amount = -amount
      BY <1>1, <1>2, <1>3, Zenon
    <3>2. QED
      BY <2>1, <3>1
  <2>3. QED
    BY <2>2, Zenon DEF calculate_public_amount
<1>6. /\ p.root = get_root
      /\ p.input_nullifiers = <<Canonical(n1), Canonical(n2)>>
      /\ p.output_commitment0 = Canonical(o1) /\ p.output_commitment1 = Canonical(o2)
      /\ p.public_amount = FieldSize - amount
      /\ p.ext_data_hash = hash_ext_data(ext)
      /\ p.asp_membership_root = get_asp_membership_root
  BY <1>5 DEF TakeOut, NullifierOf
<1>7. /\ Canonical(n1).wrap = 0 /\ Canonical(n2).wrap = 0
      /\ Canonical(o1).wrap = 0 /\ Canonical(o2).wrap = 0
      /\ Canonical(n1).elem = n1 /\ Canonical(n2).elem = n2
      /\ Canonical(o1).elem = o1 /\ Canonical(o2).elem = o2
  BY DEF Canonical
<1>8. /\ n1.note = get_root[i] /\ n1.index = i /\ n2.note.amount = 0 /\ n2.note.key = key
      /\ o1.amount = 0 /\ o2.amount = 0 /\ o1.blinding = b1 /\ o2.blinding = b2
  BY DEF ZeroNote
<1>9. n1 # n2
  <2>1. n1.note.amount = amount
    BY <1>8, Zenon
  <2> HIDE DEF n1, n2, amount
  <2>2. amount # 0
    BY <1>1, <1>2
  <2>3. QED
    BY <1>8, <2>1, <2>2, Zenon
<1>10. Canonical(n1) \notin nullifiers /\ Canonical(n2) \notin nullifiers
  BY <1>0, Zenon DEF is_spent, NullifierOf
<1> HIDE DEF p, key, amount, n1, n2, o1, o2
<1>11. /\ DOMAIN p.input_nullifiers = {1, 2} /\ Len(p.input_nullifiers) = 2
       /\ p.input_nullifiers[1] = Canonical(n1) /\ p.input_nullifiers[2] = Canonical(n2)
  <2>1. ASSUME NEW x, NEW y
        PROVE  /\ DOMAIN <<x, y>> = {1, 2} /\ Len(<<x, y>>) = 2
               /\ <<x, y>>[1] = x /\ <<x, y>>[2] = y
    OBVIOUS
  <2> DEFINE c1 == Canonical(n1)
             c2 == Canonical(n2)
  <2>2. p.input_nullifiers = <<c1, c2>>
    BY <1>6, Zenon
  <2> HIDE DEF c1, c2
  <2>3. /\ DOMAIN <<c1, c2>> = {1, 2} /\ Len(<<c1, c2>>) = 2
        /\ <<c1, c2>>[1] = c1 /\ <<c1, c2>>[2] = c2
    BY <2>1
  <2>4. QED
    BY <2>2, <2>3, Zenon DEF c1, c2
<1>12. ensure_proof_field_elements(p)
  <2>1. p.public_amount < FieldSize
    <3>1. FieldSize \in Int
      BY FieldAssumption
    <3>2. p.public_amount = FieldSize - amount
      BY <1>6, Zenon
    <3>3. amount \in Nat /\ amount > 0
      BY <1>1, <1>2
    <3>4. QED
      BY <3>1, <3>2, <3>3
  <2>2. QED
    BY <1>6, <1>7, <1>11, <2>1 DEF ensure_proof_field_elements, ensure_field_element
<1>13. is_known_root(p.root)
  BY <1>1, <1>6 DEF is_known_root, get_root, get_last_root, TypeOK
<1>14. ensure_nullifiers_unspent(p.input_nullifiers)
  <2>1. Canonical(n1) # Canonical(n2)
    BY <1>7, <1>9, Zenon
  <2>2. \A j \in {1, 2} : j = 1 \/ j = 2
    BY Zenon
  <2>3. QED
    BY <1>10, <1>11, <2>1, <2>2 DEF ensure_nullifiers_unspent, is_spent
<1>15. ensure_public_amount(p, ext)
  <2>1. amount \in Nat /\ amount > 0 /\ ext.ext_amount = -amount /\ amount < MaxAmount
    BY <1>1, <1>2, <1>3, Zenon
  <2>2. Abs(ext.ext_amount) = amount
    BY <2>1 DEF Abs
  <2>3. QED
    BY <1>5, <1>6, <2>1, <2>2, Zenon DEF ensure_public_amount
<1>16. ensure_asp_root(p)
  BY <1>6 DEF ensure_asp_root
<1>17. verify_proof(p)
  <2> DEFINE is == <<n1, n2>>
             os == <<o1, o2>>
  <2>1. is[1] = n1 /\ is[2] = n2 /\ os[1] = o1 /\ os[2] = o2
    OBVIOUS
  <2>2. /\ <<p.input_nullifiers[1].elem, p.input_nullifiers[2].elem>> = is
        /\ <<p.output_commitment0.elem, p.output_commitment1.elem>> = os
    BY <1>6, <1>7, <1>11
  <2> HIDE DEF is, os
  <2>3. SpendsFrom(get_root, n1) /\ SpendsFrom(get_root, n2)
    <3>1. n2.note.amount = 0 /\ n1.index \in DOMAIN get_root /\ get_root[n1.index] = n1.note
      BY <1>0, <1>8
    <3>2. QED
      BY <3>1, Zenon DEF SpendsFrom
  <2>4. /\ n1.note.key \in Members[get_asp_membership_root]
        /\ n2.note.key \in Members[get_asp_membership_root]
    BY <1>0, <1>8, Zenon DEF key
  <2>5. o1.amount < MaxAmount /\ o2.amount < MaxAmount
    <3>1. 0 < MaxAmount
      BY FieldAssumption
    <3>2. QED
      BY <1>8, <3>1, Zenon
  <2>6. (n1.note.amount + n2.note.amount + (FieldSize - amount)) % FieldSize
          = (o1.amount + o2.amount) % FieldSize
    <3>1. n1.note.amount = amount
      BY <1>8, Zenon DEF amount
    <3>2. amount \in Nat /\ n2.note.amount = 0 /\ o1.amount = 0 /\ o2.amount = 0
      BY <1>1, <1>8, Zenon
    <3>3. FieldSize \in Nat \ {0}
      BY FieldAssumption
    <3>4. n1.note.amount + n2.note.amount + (FieldSize - amount) = FieldSize
      BY <3>1, <3>2, <3>3
    <3>5. o1.amount + o2.amount = 0
      BY <3>2
    <3>6. FieldSize % FieldSize = 0 /\ 0 % FieldSize = 0
      BY <3>3
    <3>7. QED
      BY <3>4, <3>5, <3>6, Zenon
  <2>7. \A k \in 1 .. 2 : k = 1 \/ k = 2
    OBVIOUS
  <2>8. PolicyTransaction(get_root, is, os, FieldSize - amount, get_asp_membership_root)
    BY <1>9, <2>1, <2>3, <2>4, <2>5, <2>6, <2>7, Zenon DEF PolicyTransaction
  <2>9. QED
    BY <1>6, <1>11, <2>2, <2>8 DEF verify_proof
<1>18. ensure_commitments_unused(p)
  <2>1. o1 # o2
    BY <1>0, <1>8, Zenon
  <2>2. Canonical(o1) # Canonical(o2)
    BY <1>7, <2>1, Zenon
  <2>3. Canonical(o1) \notin commitments /\ Canonical(o2) \notin commitments
    BY <1>0, Zenon
  <2>4. QED
    BY <1>6, <2>2, <2>3 DEF ensure_commitments_unused
<1>19. ~ (Withdrawn(ext) > MaxI128) /\ ~ (Withdrawn(ext) * FeeBps > MaxI128)
  <2>1. MaxI128 \in Nat /\ FeeBps \in Nat
    <3>1. MaxI128 \in Nat /\ FeeBps \in 0 .. MAX_FEE_BPS
      BY ConstantsAssumption, Zenon
    <3>2. MAX_FEE_BPS \in Nat
      BY DEF MAX_FEE_BPS
    <3>3. QED
      BY <3>1, <3>2
  <2>2. ~ (amount > MaxI128)
    <3>1. /\ amount \in Nat /\ balance[PoolAddress] \in Nat
          /\ balance[PoolAddress] >= amount /\ balance[PoolAddress] <= MaxI128
      BY <1>0, <1>1, Zenon
    <3>2. QED
      BY <2>1, <3>1
  <2> DEFINE product == amount * FeeBps
  <2>3. product <= MaxI128 /\ product \in Int
    <3>1. amount \in Nat
      BY <1>1, Zenon
    <3>2. product \in Int
      BY <2>1, <3>1
    <3>3. QED
      BY <3>2, Zenon DEF Takeable, amount
  <2> HIDE DEF product
  <2>4. ~ (product > MaxI128)
    BY <2>1, <2>3
  <2>5. QED
    BY <1>4, <2>2, <2>4, Zenon DEF product
<1>20. nextIndex % 2 = 0
  BY DEF RingInv
<1>21. CanPayOut(balance, ext)
  <2>1. balance \in [Addresses -> Nat]
    BY <1>1 DEF TypeOK
  <2>2. QED
    <3>1. ext.recipient # PoolAddress /\ balance[PoolAddress] >= Withdrawn(ext)
      BY <1>1, <1>3, <1>4, Zenon
    <3>2. QED
      BY <1>0, <2>1, <3>1, CoveredPayOut
<1>22. hash_ext_data(ext) = p.ext_data_hash
  BY <1>6
<1>23. SettleResult(p, ext, ins, balance) = "Ok"
  BY <1>12, <1>13, <1>14, <1>15, <1>16, <1>17, <1>18, <1>19, <1>20, <1>21, <1>22, SettleChecks
<1>24. QED
  BY <1>23 DEF p

\* An enrolled holder can always take a note out in full: through transact while
\* the tree has room, through exit once it is full.  It takes blindings that were
\* not used yet, and that the pool's balance is a token amount (an i128).
THEOREM NothingStranded ==
    Spec => [](BlindingsLeft /\ balance[PoolAddress] <= MaxI128 => NoStrandedNote)
<1>1. ASSUME Inv, RingInv, BlindingsLeft, balance[PoolAddress] <= MaxI128
      PROVE  NoStrandedNote
  <2>1. SUFFICES ASSUME NEW i \in DOMAIN get_root, NEW s \in Senders,
                        get_root[i].amount > 0, get_root[i].amount * FeeBps <= MaxI128,
                        ~ is_spent(NullifierOf(i)),
                        get_root[i].key \in Members[get_asp_membership_root]
                 PROVE  LET ext == [recipient |-> s, ext_amount |-> -get_root[i].amount] IN
                        \E b0, b1, b2 \in Blindings :
                            "Ok" = IF is_full THEN ExitResult(TakeOut(i, ext, b0, b1, b2), ext)
                                   ELSE TransactResult(TakeOut(i, ext, b0, b1, b2), ext, s)
    BY DEF NoStrandedNote, TakeOut, ZeroNote
  <2> DEFINE ext == [recipient |-> s, ext_amount |-> -get_root[i].amount]
  <2>2. get_root[i].amount \in Nat
    BY <1>1, <2>1, NoteIsCovered
  <2>3. ext \in ExtData /\ ext.ext_amount = -get_root[i].amount
    <3>1. -get_root[i].amount \in Int
      BY <2>2
    <3>2. s \in Addresses
      BY DEF Senders
    <3>3. QED
      BY <3>1, <3>2, Zenon DEF ExtData
  <2>4. get_root[i].key \in Keys
    BY <1>1, TreeType DEF Inv, Notes
  <2>5. PICK b0, b1, b2 \in Blindings :
          /\ b1 # b2
          /\ Canonical([note |-> ZeroNote(get_root[i].key, b0), index |-> 0]) \notin nullifiers
          /\ Canonical(ZeroNote(get_root[i].key, b1)) \notin commitments
          /\ Canonical(ZeroNote(get_root[i].key, b2)) \notin commitments
    BY <1>1, <2>4 DEF BlindingsLeft
  <2> DEFINE p == TakeOut(i, ext, b0, b1, b2)
  <2>6. ASSUME NEW ins \in BOOLEAN, ins => ~ is_full
        PROVE  SettleResult(p, ext, ins, balance) = "Ok"
    <3>1. Takeable(i, s, ext, b0, b1, b2)
      BY <1>1, <2>1, <2>3, <2>5, Zenon DEF Takeable
    <3> HIDE DEF ext
    <3>2. QED
      BY <1>1, <2>6, <3>1, TakeOutSettles
  <2>7. ~ (ext.ext_amount > 0) /\ ~ (ext.ext_amount >= 0)
    <3> DEFINE amount == get_root[i].amount
    <3>1. amount \in Nat /\ amount > 0 /\ ext.ext_amount = -amount
      BY <2>1, <2>2, <2>3, Zenon
    <3> HIDE DEF amount, ext
    <3>2. QED
      BY <3>1
  <2> HIDE DEF ext, p
  <2>8. CASE is_full
    <3>1. SettleResult(p, ext, FALSE, balance) = "Ok"
      BY <2>6
    <3>2. ExitResult(p, ext) = "Ok"
      BY <2>7, <2>8, <3>1 DEF ExitResult
    <3>3. QED
      BY <2>8, <3>2 DEF ext, p
  <2>9. CASE ~ is_full
    <3>1. SettleResult(p, ext, TRUE, balance) = "Ok"
      BY <2>6, <2>9
    <3>2. PayIn(ext, s) = balance
      BY <2>7 DEF PayIn
    <3>3. TransactResult(p, ext, s) = "Ok"
      BY <2>7, <3>1, <3>2 DEF TransactResult
    <3>4. QED
      BY <2>9, <3>3 DEF ext, p
  <2>10. QED
    BY <2>8, <2>9
<1>2. Inv /\ RingInv => (BlindingsLeft /\ balance[PoolAddress] <= MaxI128 => NoStrandedNote)
  BY <1>1
<1>3. QED
  BY <1>2, SpecRing, PTL
=============================================================================
