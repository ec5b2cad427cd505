---------------------------- MODULE FaucetProofs ----------------------------
(***************************************************************************)
(* What the faucet gives away, for every setting its admin may choose, who *)
(* can change the allowlist it enrols into, and that the allowlist's root, *)
(* verify's replay of its events and the read API's membership paths agree *)
(* for a tree of any depth.                                                *)
(***************************************************************************)
EXTENDS Faucet, MerkleProofs

Least == Smallest(Cooldowns)
Most == Largest(DripAmounts)

\* The budget as of a recipient's last call; at the last ledger number the
\* cooldown saturates and says nothing more.
BudgetAtLastDrip ==
    \A r \in Recipients :
        /\ r \notin DOMAIN lastDrip => grants[r] = 0
        /\ r \in DOMAIN lastDrip =>
              /\ lastDrip[r] \in FirstLedger .. now
              /\ lastDrip[r] < MaxU32 =>
                    grants[r] * Least <= lastDrip[r] - FirstLedger + Least
        /\ minted[r] <= grants[r] * Most

FaucetInv ==
    /\ now \in FirstLedger .. MaxU32
    /\ cooldown \in Cooldowns
    /\ dripAmount \in DripAmounts
    /\ grants \in [Recipients -> Nat]
    /\ minted \in [Recipients -> Int]
    /\ BudgetAtLastDrip

\* The bounds on what the admin can set.
LEMMA Extremes ==
    ASSUME NEW c \in Cooldowns
    PROVE  /\ Least \in Nat /\ Least <= c /\ c \in Nat
           /\ Most \in Int /\ 0 < Most
           /\ \A a \in DripAmounts : a <= Most
           /\ FirstLedger \in Nat /\ MaxU32 \in Nat
<1>1. Cooldowns \in SUBSET Nat /\ Cooldowns # {}
  BY FaucetAssumption
<1>2. \E x \in Cooldowns : \A y \in Cooldowns : x <= y
  BY <1>1, LeastElement
<1>3. Least \in Cooldowns /\ \A y \in Cooldowns : Least <= y
  BY <1>2 DEF Least, Smallest
<1>4. \E x \in DripAmounts : \A y \in DripAmounts : y <= x
  BY FaucetAssumption
<1>5. Most \in DripAmounts /\ \A y \in DripAmounts : y <= Most
  BY <1>4 DEF Most, Largest
<1>6. Most \in Int /\ InitialAmount \in Int /\ InitialAmount <= Most /\ InitialAmount > 0
  BY <1>5, FaucetAssumption
<1>7. QED
  BY <1>1, <1>3, <1>5, <1>6, FaucetAssumption

\* One more grant, in exact arithmetic.
LEMMA OneMore ==
    ASSUME NEW g \in Nat, NEW k \in Int
    PROVE  (g + 1) * k = g * k + k /\ g * k \in Int
  OBVIOUS

\* A call that passes the cooldown keeps to the budget, whichever entry point
\* makes it.
LEMMA DripKeepsBudget ==
    ASSUME FaucetInv, NEW to \in Recipients, drip_with_cooldown(to)
    PROVE  FaucetInv'
<1>1. /\ now \in FirstLedger .. MaxU32 /\ cooldown \in Cooldowns /\ dripAmount \in DripAmounts
      /\ grants \in [Recipients -> Nat] /\ minted \in [Recipients -> Int]
  BY DEF FaucetInv
<1>2. /\ Least \in Nat /\ Least <= cooldown /\ cooldown \in Nat
      /\ Most \in Int /\ 0 < Most /\ dripAmount <= Most /\ dripAmount \in Int
      /\ FirstLedger \in Nat /\ MaxU32 \in Nat
  BY <1>1, Extremes, FaucetAssumption
<1>3. /\ lastDrip' = [r \in DOMAIN lastDrip \cup {to} |-> IF r = to THEN now ELSE lastDrip[r]]
      /\ minted' = [minted EXCEPT ![to] = @ + IF hasToken THEN dripAmount ELSE 0]
      /\ grants' = [grants EXCEPT ![to] = @ + 1]
      /\ now' = now /\ cooldown' = cooldown /\ dripAmount' = dripAmount
  BY DEF drip_with_cooldown, faucetConfig
<1>4. /\ grants' \in [Recipients -> Nat]
      /\ minted' \in [Recipients -> Int]
  BY <1>1, <1>2, <1>3
<1>5. ASSUME NEW r \in Recipients, r # to
      PROVE  /\ r \in DOMAIN lastDrip' <=> r \in DOMAIN lastDrip
             /\ r \in DOMAIN lastDrip => lastDrip'[r] = lastDrip[r]
             /\ grants'[r] = grants[r] /\ minted'[r] = minted[r]
  BY <1>1, <1>3, <1>5
<1>6. /\ to \in DOMAIN lastDrip' /\ lastDrip'[to] = now
      /\ grants'[to] = grants[to] + 1 /\ grants[to] \in Nat /\ minted[to] \in Int
      /\ minted'[to] <= minted[to] + Most
  BY <1>1, <1>2, <1>3
<1>7. minted'[to] <= grants'[to] * Most
  <2>1. minted[to] <= grants[to] * Most
    BY DEF FaucetInv, BudgetAtLastDrip
  <2>2. (grants[to] + 1) * Most = grants[to] * Most + Most /\ grants[to] * Most \in Int
    BY <1>2, <1>6, OneMore
  <2>3. minted'[to] \in Int
    BY <1>4
  <2>4. QED
    BY <1>2, <1>6, <2>1, <2>2, <2>3
<1>8. ASSUME now < MaxU32
      PROVE  grants'[to] * Least <= now - FirstLedger + Least
  <2>1. (grants[to] + 1) * Least = grants[to] * Least + Least /\ grants[to] * Least \in Int
    BY <1>2, <1>6, OneMore
  <2>2. CASE to \notin DOMAIN lastDrip
    <3>1. grants[to] = 0
      BY <2>2 DEF FaucetInv, BudgetAtLastDrip
    <3>2. grants[to] * Least = 0
      BY <1>2, <3>1
    <3>3. QED
      BY <1>1, <1>2, <1>6, <2>1, <3>2
  <2>3. CASE to \in DOMAIN lastDrip
    <3>1. lastDrip[to] \in FirstLedger .. now
      BY <2>3 DEF FaucetInv, BudgetAtLastDrip
    <3>2. now >= saturating_add(lastDrip[to], cooldown)
      BY <2>3 DEF drip_with_cooldown, CooldownElapsed
    <3>3. now >= lastDrip[to] + cooldown
      BY <1>1, <1>2, <1>8, <3>1, <3>2 DEF saturating_add
    <3>4. grants[to] * Least <= lastDrip[to] - FirstLedger + Least
      BY <1>1, <1>2, <1>8, <2>3, <3>1 DEF FaucetInv, BudgetAtLastDrip
    <3>5. QED
      BY <1>1, <1>2, <1>6, <2>1, <3>1, <3>3, <3>4
  <2>4. QED
    BY <2>2, <2>3
<1>9. BudgetAtLastDrip'
  <2> SUFFICES ASSUME NEW r \in Recipients
               PROVE  /\ r \notin DOMAIN lastDrip' => grants'[r] = 0
                      /\ r \in DOMAIN lastDrip' =>
                            /\ lastDrip'[r] \in FirstLedger .. now'
                            /\ lastDrip'[r] < MaxU32 =>
                                  grants'[r] * Least <= lastDrip'[r] - FirstLedger + Least
                      /\ minted'[r] <= grants'[r] * Most
    BY DEF BudgetAtLastDrip
  <2>1. CASE r = to
    <3>1. now \in FirstLedger .. now
      BY <1>1, <1>2
    <3>2. QED
      BY <1>3, <1>6, <1>7, <1>8, <2>1, <3>1
  <2>2. CASE r # to
    <3>1. /\ r \notin DOMAIN lastDrip => grants[r] = 0
          /\ r \in DOMAIN lastDrip =>
                /\ lastDrip[r] \in FirstLedger .. now
                /\ lastDrip[r] < MaxU32 =>
                      grants[r] * Least <= lastDrip[r] - FirstLedger + Least
          /\ minted[r] <= grants[r] * Most
      BY DEF FaucetInv, BudgetAtLastDrip
    <3>2. QED
      BY <1>3, <1>5, <2>2, <3>1
  <2>3. QED
    BY <2>1, <2>2
<1>10. QED
  BY <1>1, <1>3, <1>4, <1>9 DEF FaucetInv

\* Time passes: the budget as of the last call does not depend on it.
LEMMA ClockKeepsBudget ==
    ASSUME FaucetInv, CloseLedger
    PROVE  FaucetInv'
<1>1. /\ now' = now + 1 /\ now < MaxU32
      /\ cooldown' = cooldown /\ dripAmount' = dripAmount
      /\ lastDrip' = lastDrip /\ minted' = minted /\ grants' = grants
  BY DEF CloseLedger, faucetConfig
<1>2. now \in FirstLedger .. MaxU32 /\ FirstLedger \in Nat /\ MaxU32 \in Nat
  BY FaucetAssumption DEF FaucetInv
<1>3. now' \in FirstLedger .. MaxU32
  BY <1>1, <1>2
<1>4. FirstLedger .. now \subseteq FirstLedger .. now'
  BY <1>1, <1>2
<1>5. BudgetAtLastDrip'
  BY <1>1, <1>4 DEF FaucetInv, BudgetAtLastDrip
<1>6. QED
  BY <1>1, <1>3, <1>5 DEF FaucetInv

\* Settings, roles and the allowlist leave the grants alone.
LEMMA RestKeepsBudget ==
    ASSUME FaucetInv,
           UNCHANGED <<lastDrip, minted, now, grants>>,
           cooldown' \in Cooldowns, dripAmount' \in DripAmounts
    PROVE  FaucetInv'
  BY DEF FaucetInv, BudgetAtLastDrip

\* A recipient gets one grant, and one more for each shortest cooldown that has
\* passed, until the last ledger number; and never more tokens than its grants
\* are worth (drip_with_cooldown, set_drip).
THEOREM GrantsWithinBudget == FaucetSpec => []GrantBudget
<1>1. FaucetInit => FaucetInv
  <2> SUFFICES ASSUME FaucetInit PROVE FaucetInv
    OBVIOUS
  <2>1. /\ cooldown \in Cooldowns /\ dripAmount = InitialAmount /\ now = FirstLedger
        /\ DOMAIN lastDrip = {}
        /\ minted = [r \in Recipients |-> 0] /\ grants = [r \in Recipients |-> 0]
    BY DEF FaucetInit
  <2>2. Most \in Int
    BY <2>1, Extremes
  <2>3. 0 * Most = 0
    BY <2>2
  <2>4. BudgetAtLastDrip
    BY <2>1, <2>3 DEF BudgetAtLastDrip
  <2>5. QED
    BY <2>1, <2>4, FaucetAssumption DEF FaucetInv
<1>2. FaucetInv /\ [FaucetNext]_allVars => FaucetInv'
  <2> SUFFICES ASSUME FaucetInv, [FaucetNext]_allVars PROVE FaucetInv'
    OBVIOUS
  <2>1. CASE \E to \in Recipients, leaf \in Leaves : onboard(to, leaf)
    BY <2>1, DripKeepsBudget DEF onboard
  <2>2. CASE \E to \in Recipients : drip(to)
    BY <2>2, DripKeepsBudget DEF drip
  <2>3. CASE \E c \in Accounts, a \in DripAmounts, l \in Cooldowns : set_drip(c, a, l)
    BY <2>3, RestKeepsBudget DEF set_drip
  <2>4. CASE \E c, new \in Accounts : faucet_update_admin(c, new)
    BY <2>4, RestKeepsBudget DEF faucet_update_admin, FaucetInv
  <2>5. CASE CloseLedger
    BY <2>5, ClockKeepsBudget
  <2>6. CASE (\E c \in Accounts : AspCall(c) /\ UNCHANGED faucetVars) \/ UNCHANGED allVars
    <3>1. UNCHANGED <<lastDrip, minted, now, grants>> /\ cooldown' = cooldown
          /\ dripAmount' = dripAmount
      BY <2>6 DEF allVars, faucetVars, faucetConfig
    <3>2. QED
      BY <3>1, RestKeepsBudget DEF FaucetInv
  <2>7. QED
    BY <2>1, <2>2, <2>3, <2>4, <2>5, <2>6 DEF FaucetNext
<1>3. FaucetInv => GrantBudget
  <2> SUFFICES ASSUME FaucetInv, NEW r \in Recipients
               PROVE  /\ now < MaxU32 => grants[r] * Least <= (now - FirstLedger) + Least
                      /\ minted[r] <= grants[r] * Most
    BY DEF GrantBudget, Least, Most
  <2>1. /\ now \in FirstLedger .. MaxU32 /\ cooldown \in Cooldowns /\ grants[r] \in Nat
    BY DEF FaucetInv
  <2>2. Least \in Nat /\ FirstLedger \in Nat /\ MaxU32 \in Nat
    BY <2>1, Extremes
  <2>3. ASSUME now < MaxU32 PROVE grants[r] * Least <= (now - FirstLedger) + Least
    <3>1. CASE r \notin DOMAIN lastDrip
      <4>1. grants[r] = 0
        BY <3>1 DEF FaucetInv, BudgetAtLastDrip
      <4>2. grants[r] * Least = 0
        BY <2>2, <4>1
      <4>3. QED
        BY <2>1, <2>2, <4>2
    <3>2. CASE r \in DOMAIN lastDrip
      <4>1. /\ lastDrip[r] \in FirstLedger .. now
            /\ lastDrip[r] < MaxU32 =>
                  grants[r] * Least <= lastDrip[r] - FirstLedger + Least
        BY <3>2 DEF FaucetInv, BudgetAtLastDrip
      <4>2. grants[r] * Least \in Int
        BY <2>1, <2>2
      <4>3. QED
        BY <2>1, <2>2, <2>3, <4>1, <4>2
    <3>3. QED
      BY <3>1, <3>2
  <2>4. QED
    BY <2>3 DEF FaucetInv, BudgetAtLastDrip
<1>4. QED
  BY <1>1, <1>2, <1>3, PTL DEF FaucetSpec
-----------------------------------------------------------------------------
(* Roles *)

LogIsSequence == \E S : log \in Seq(S)

\* Publishing appends one event.
LEMMA PublishAppends ==
    ASSUME LogIsSequence, NEW kind, NEW leaf, NEW index, NEW r,
           Publish(kind, leaf, index, r)
    PROVE  LogIsSequence' /\ Len(log') = Len(log) + 1
<1> DEFINE e == [kind |-> kind, leaf |-> leaf, index |-> index, root |-> r]
<1>1. PICK S : log \in Seq(S)
  BY DEF LogIsSequence
<1>2. log' = Append(log, e)
  BY DEF Publish
<1> HIDE DEF e
<1>3. log \in Seq(S \cup {e}) /\ e \in S \cup {e}
  BY <1>1
<1>4. log' \in Seq(S \cup {e}) /\ Len(log') = Len(log) + 1
  BY <1>2, <1>3
<1>5. QED
  BY <1>4 DEF LogIsSequence

\* What insert_leaf asks of its caller and of the allowlist.
LEMMA InsertAsks ==
    ASSUME LogIsSequence, NEW caller, NEW leaf, insert_leaf(caller, leaf)
    PROVE  /\ LogIsSequence' /\ Len(log') = Len(log) + 1
           /\ ~ operatorMaintained
           /\ adminInsertOnly => caller = admin
           /\ UNCHANGED <<admin, adminInsertOnly, operatorMaintained>>
<1>1. /\ ~ operatorMaintained
      /\ adminInsertOnly => caller = admin
      /\ UNCHANGED <<admin, adminInsertOnly, operatorMaintained>>
  BY DEF insert_leaf
<1>2. \E r : Publish("added", leaf, nextIndex, r)
  BY Zenon DEF insert_leaf
<1>3. LogIsSequence' /\ Len(log') = Len(log) + 1
  BY <1>2, PublishAppends
<1>4. QED
  BY <1>1, <1>3

\* A call of an account other than the faucet.
LEMMA AccountCall ==
    ASSUME LogIsSequence, NEW caller \in Accounts, AspCall(caller)
    PROVE  /\ LogIsSequence'
           /\ HandoverFinal /\ RoleStaysWithFaucet
<1>1. caller # FaucetAddress
  BY DEF Accounts
<1>2. CASE \E leaf \in Leaves : insert_leaf(caller, leaf)
  BY <1>1, <1>2, InsertAsks DEF HandoverFinal, RoleStaysWithFaucet
<1>3. CASE \E leaf \in Leaves, r \in OperatorRoots : revoke_leaf(caller, leaf, r)
  BY <1>1, <1>3, PublishAppends DEF revoke_leaf, HandoverFinal, RoleStaysWithFaucet
<1>4. CASE \E leaf \in Leaves, i \in PublishedIndices, r \in OperatorRoots :
              publish_leaf(caller, leaf, i, r)
  BY <1>1, <1>4, PublishAppends DEF publish_leaf, HandoverFinal, RoleStaysWithFaucet
<1>5. CASE \E new \in Callers : update_admin(caller, new)
  BY <1>1, <1>5 DEF update_admin, treeVars, LogIsSequence, HandoverFinal, RoleStaysWithFaucet
<1>6. CASE \E only \in BOOLEAN : set_admin_insert_only(caller, only)
  BY <1>1, <1>6 DEF set_admin_insert_only, treeVars, LogIsSequence, HandoverFinal,
     RoleStaysWithFaucet
<1>7. QED
  BY <1>2, <1>3, <1>4, <1>5, <1>6 DEF AspCall

\* A step that leaves the allowlist and the grants as they are.
LEMMA AllowlistUntouched ==
    ASSUME LogIsSequence, UNCHANGED aspVars, UNCHANGED grants \/ hasToken
    PROVE  /\ LogIsSequence'
           /\ HandoverFinal /\ RoleStaysWithFaucet /\ NoGrantWithoutEnrolment
  BY DEF aspVars, treeVars, LogIsSequence, HandoverFinal, RoleStaysWithFaucet,
     NoGrantWithoutEnrolment

\* Nothing undoes a revocation, the allowlist never leaves the faucet once it holds
\* the role, and nothing is granted for an enrolment that did not happen
\* (insert_leaf, revoke_leaf, update_admin, onboard).
THEOREM RolesAreKept == FaucetSpec => RolesKept
<1> DEFINE Kept == HandoverFinal /\ RoleStaysWithFaucet /\ NoGrantWithoutEnrolment
<1>1. FaucetInit => LogIsSequence
  <2>1. <<>> \in Seq({})
    OBVIOUS
  <2>2. QED
    BY <2>1 DEF FaucetInit, AspInit, LogIsSequence
<1>2. ASSUME LogIsSequence, FaucetNext PROVE LogIsSequence' /\ Kept
  <2>1. CASE \E to \in Recipients, leaf \in Leaves : onboard(to, leaf)
    <3>1. PICK leaf \in Leaves : insert_leaf(FaucetAddress, leaf)
      BY <2>1 DEF onboard
    <3>2. QED
      BY <1>2, <3>1, InsertAsks DEF HandoverFinal, RoleStaysWithFaucet, NoGrantWithoutEnrolment
  <2>2. CASE \E to \in Recipients : drip(to)
    BY <1>2, <2>2, AllowlistUntouched DEF drip
  <2>3. CASE \E c \in Accounts, a \in DripAmounts, l \in Cooldowns : set_drip(c, a, l)
    BY <1>2, <2>3, AllowlistUntouched DEF set_drip
  <2>4. CASE \E c, new \in Accounts : faucet_update_admin(c, new)
    BY <1>2, <2>4, AllowlistUntouched DEF faucet_update_admin
  <2>5. CASE CloseLedger
    BY <1>2, <2>5, AllowlistUntouched DEF CloseLedger
  <2>6. CASE \E c \in Accounts : AspCall(c) /\ UNCHANGED faucetVars
    <3>1. grants' = grants
      BY <2>6 DEF faucetVars
    <3>2. QED
      BY <1>2, <2>6, <3>1, AccountCall DEF NoGrantWithoutEnrolment
  <2>7. QED
    BY <1>2, <2>1, <2>2, <2>3, <2>4, <2>5, <2>6 DEF FaucetNext
<1>3. LogIsSequence /\ UNCHANGED allVars => LogIsSequence'
  BY DEF LogIsSequence, allVars, aspVars
<1>4. LogIsSequence /\ [FaucetNext]_allVars => LogIsSequence' /\ [Kept]_allVars
  BY <1>2, <1>3
<1>5. QED
  BY <1>1, <1>4, PTL DEF FaucetSpec, RolesKept
-----------------------------------------------------------------------------
(* The allowlist's root, and what the services make of its events. *)

\* The inductive invariant: the log starts with the enrolments, each with the root it
\* left; the frontier is that of their tree.  Until a revocation there is nothing else
\* in the log and the root is theirs; a revocation follows them directly, and from then
\* on the root is the last one published.
AspInv ==
    /\ LogIsSequence
    /\ nextIndex \in Nat /\ nextIndex <= Capacity /\ nextIndex <= Len(log)
    /\ \A k \in 1 .. nextIndex :
          /\ log[k].kind = "added" /\ log[k].index = k - 1
          /\ log[k].root = ReferenceRoot(First(Enrolled, k))
    /\ Frontier(filledSubtree, Enrolled, nextIndex, 0)
    /\ ~ operatorMaintained => Len(log) = nextIndex /\ aspRoot = ReferenceRoot(Enrolled)
    /\ operatorMaintained =>
          /\ nextIndex < Len(log) /\ log[nextIndex + 1].kind = "revoked"
          /\ aspRoot = log[Len(log)].root

\* Publishing appends the event and keeps the ones before it.
LEMMA Published ==
    ASSUME LogIsSequence, NEW kind, NEW leaf, NEW index, NEW r,
           Publish(kind, leaf, index, r)
    PROVE  /\ LogIsSequence' /\ Len(log) \in Nat /\ Len(log') = Len(log) + 1
           /\ \A k \in 1 .. Len(log) : log'[k] = log[k]
           /\ log'[Len(log) + 1] = [kind |-> kind, leaf |-> leaf, index |-> index, root |-> r]
<1> DEFINE e == [kind |-> kind, leaf |-> leaf, index |-> index, root |-> r]
<1>1. PICK S : log \in Seq(S)
  BY DEF LogIsSequence
<1>2. log' = Append(log, e)
  BY DEF Publish
<1>3. LogIsSequence'
  BY PublishAppends
<1> HIDE DEF e
<1>4. log \in Seq(S \cup {e}) /\ e \in S \cup {e}
  BY <1>1
<1>5. /\ Len(log) \in Nat /\ Len(log') = Len(log) + 1
      /\ \A k \in 1 .. Len(log) : log'[k] = log[k]
      /\ log'[Len(log) + 1] = e
  BY <1>2, <1>4
<1>6. QED
  BY <1>3, <1>5 DEF e

\* The enrolled leaves are a function of their indices.
LEMMA EnrolledIs ==
    ASSUME nextIndex \in Nat
    PROVE  /\ DOMAIN Enrolled = 0 .. nextIndex - 1
           /\ Enrolled = [i \in DOMAIN Enrolled |-> Enrolled[i]]
           /\ Enrolled = First(Enrolled, nextIndex)
           /\ \A i \in 0 .. nextIndex - 1 : Enrolled[i] = log[i + 1].leaf
  BY Zenon DEF Enrolled, First

\* What is before position n does not depend on what is after it.
LEMMA FirstSame ==
    ASSUME NEW n \in Nat, NEW old, NEW new, \A i \in 0 .. n - 1 : new[i] = old[i],
           NEW k \in 0 .. n
    PROVE  First(new, k) = First(old, k)
<1>1. \A i \in 0 .. k - 1 : i \in 0 .. n - 1
  OBVIOUS
<1>2. \A i \in 0 .. k - 1 : new[i] = old[i]
  BY <1>1, Zenon
<1>3. QED
  BY <1>2, Zenon DEF First

LEMMA InitAsp == AspInit => AspInv
<1> SUFFICES ASSUME AspInit PROVE AspInv
  OBVIOUS
<1>0. Capacity \in Nat /\ 0 \in 0 .. Levels
  BY Widths, LevelsAssumption
<1>1. /\ operatorMaintained = FALSE /\ aspRoot = zeroes[Levels] /\ nextIndex = 0
      /\ filledSubtree = zeroes /\ log = <<>>
  BY Zenon DEF AspInit
<1>2. LogIsSequence /\ Len(log) = 0
  <2>1. <<>> \in Seq({}) /\ Len(<<>>) = 0
    OBVIOUS
  <2>2. QED
    BY <1>1, <2>1, Zenon DEF LogIsSequence
<1>3. 0 .. nextIndex - 1 = {} /\ 1 .. nextIndex = {} /\ nextIndex \in Nat
  BY <1>1
<1>4. DOMAIN Enrolled = {}
  BY <1>3, EnrolledIs, Zenon
<1>5. ReferenceRoot(Enrolled) = zeroes[Levels] /\ Frontier(zeroes, Enrolled, 0, 0)
  BY <1>0, <1>4, EmptyTreeRight, Zenon
<1>6. nextIndex <= Capacity /\ nextIndex <= Len(log) /\ Len(log) = nextIndex
  BY <1>0, <1>1, <1>2
<1>7. QED
  BY <1>1, <1>2, <1>3, <1>5, <1>6, Zenon DEF AspInv

\* insert_leaf enrols at the next index and publishes the new tree's root.
LEMMA InsertKeepsAsp ==
    ASSUME AspInv, NEW caller, NEW leaf, insert_leaf(caller, leaf)
    PROVE  AspInv'
<1> DEFINE n == nextIndex
           end == UpdatePath(filledSubtree, 0, leaf, n)
           e == [kind |-> "added", leaf |-> leaf, index |-> n, root |-> end.hash]
<1>0. Capacity \in Nat
  BY Widths, LevelsAssumption
<1>1. /\ LogIsSequence /\ n \in Nat /\ n <= Capacity
      /\ \A k \in 1 .. n :
            /\ log[k].kind = "added" /\ log[k].index = k - 1
            /\ log[k].root = ReferenceRoot(First(Enrolled, k))
      /\ Frontier(filledSubtree, Enrolled, n, 0)
      /\ ~ operatorMaintained => Len(log) = n
  BY Zenon DEF AspInv
<1>2. /\ ~ operatorMaintained /\ n < Capacity
      /\ aspRoot' = end.hash /\ filledSubtree' = end.filled
      /\ Publish("added", leaf, n, end.hash)
      /\ nextIndex' = n + 1 /\ operatorMaintained' = operatorMaintained
  BY Zenon DEF insert_leaf
<1>3. /\ LogIsSequence' /\ Len(log) \in Nat /\ Len(log') = Len(log) + 1
      /\ \A k \in 1 .. Len(log) : log'[k] = log[k]
      /\ log'[Len(log) + 1] = e
  <2> HIDE DEF n, end
  <2>1. QED
    BY <1>1, <1>2, Published
<1>4. Len(log) = n
  BY <1>1, <1>2, Zenon
<1>5. /\ e.kind = "added" /\ e.leaf = leaf /\ e.index = n /\ e.root = end.hash
  <2> HIDE DEF end, n
  <2>1. QED
    OBVIOUS
<1>6. /\ DOMAIN Enrolled = 0 .. n - 1 /\ \A i \in 0 .. n - 1 : Enrolled[i] = log[i + 1].leaf
  BY <1>1, EnrolledIs, Zenon
<1> DEFINE new == [i \in 0 .. n |-> log'[i + 1].leaf]
<1>7. Enrolled' = new
  <2>1. nextIndex' - 1 = n
    BY <1>1, <1>2
  <2>2. QED
    BY <2>1, Zenon DEF Enrolled
<1>8. DOMAIN new = 0 .. n /\ \A i \in 0 .. n : new[i] = log'[i + 1].leaf
  BY Zenon
<1> HIDE DEF new, e
<1>9. new[n] = leaf
  <2>1. n \in 0 .. n
    BY <1>1
  <2>2. QED
    BY <1>3, <1>4, <1>5, <1>8, <2>1, Zenon
<1>10. \A i \in 0 .. n - 1 : new[i] = Enrolled[i]
  <2>1. \A i \in 0 .. n - 1 : i \in 0 .. n /\ i + 1 \in 1 .. n
    BY <1>1
  <2>2. QED
    BY <1>3, <1>4, <1>6, <1>8, <2>1, Zenon
<1>11. n \in 0 .. Capacity - 1
  BY <1>0, <1>1, <1>2
<1>12. end.hash = ReferenceRoot(new) /\ Frontier(end.filled, new, n + 1, 0)
  <2> DEFINE up == UpdatePath(filledSubtree, 0, new[n], n)
  <2> HIDE DEF n
  <2>1. up.hash = ReferenceRoot(new) /\ Frontier(up.filled, new, n + 1, 0)
    BY <1>1, <1>6, <1>8, <1>10, <1>11, PushRight
  <2>2. QED
    BY <1>9, <2>1, Zenon
<1> HIDE DEF end
<1>13. ASSUME NEW k \in 1 .. n + 1
       PROVE  /\ log'[k].kind = "added" /\ log'[k].index = k - 1
              /\ log'[k].root = ReferenceRoot(First(new, k))
  <2>1. CASE k = n + 1
    <3>1. k - 1 = n
      BY <1>1, <2>1
    <3>2. First(new, k) = new
      <4>1. new = [i \in 0 .. n |-> new[i]]
        BY Zenon DEF new
      <4>2. QED
        BY <3>1, <4>1, Zenon DEF First
    <3>3. QED
      BY <1>3, <1>4, <1>5, <1>12, <2>1, <3>1, <3>2, Zenon
  <2>2. CASE k # n + 1
    <3>1. k \in 1 .. n /\ k \in 0 .. n
      BY <1>1, <2>2
    <3>2. First(new, k) = First(Enrolled, k)
      <4> HIDE DEF n
      <4>1. QED
        BY <1>1, <1>10, <3>1, FirstSame
    <3>3. QED
      BY <1>1, <1>3, <1>4, <3>1, <3>2, Zenon
  <2>3. QED
    BY <2>1, <2>2, Zenon
<1>14. nextIndex' \in Nat /\ nextIndex' <= Capacity /\ Len(log') = nextIndex' /\ nextIndex' <= Len(log')
  BY <1>0, <1>1, <1>2, <1>3, <1>4
<1>15. \A k \in 1 .. nextIndex' :
          /\ log'[k].kind = "added" /\ log'[k].index = k - 1
          /\ log'[k].root = ReferenceRoot(First(Enrolled', k))
  BY <1>2, <1>7, <1>13, Zenon
<1>16. Frontier(filledSubtree', Enrolled', nextIndex', 0) /\ aspRoot' = ReferenceRoot(Enrolled')
  BY <1>2, <1>7, <1>12, Zenon
<1>17. ~ operatorMaintained'
  BY <1>2, Zenon
<1>18. QED
  BY <1>3, <1>14, <1>15, <1>16, <1>17, Zenon DEF AspInv

\* The operator's events come after the enrolments, the first of them a revocation.
LEMMA OperatorKeepsAsp ==
    ASSUME AspInv, NEW kind, NEW leaf, NEW index, NEW r,
           Publish(kind, leaf, index, r), aspRoot' = r,
           operatorMaintained' = TRUE, ~ operatorMaintained => kind = "revoked",
           operatorMaintained \in BOOLEAN,
           UNCHANGED <<nextIndex, filledSubtree>>
    PROVE  AspInv'
<1> DEFINE n == nextIndex
           e == [kind |-> kind, leaf |-> leaf, index |-> index, root |-> r]
<1>1. /\ LogIsSequence /\ n \in Nat /\ n <= Capacity /\ n <= Len(log)
      /\ \A k \in 1 .. n :
            /\ log[k].kind = "added" /\ log[k].index = k - 1
            /\ log[k].root = ReferenceRoot(First(Enrolled, k))
      /\ Frontier(filledSubtree, Enrolled, n, 0)
      /\ ~ operatorMaintained => Len(log) = n
      /\ operatorMaintained => n < Len(log) /\ log[n + 1].kind = "revoked"
  BY Zenon DEF AspInv
<1>2. /\ LogIsSequence' /\ Len(log) \in Nat /\ Len(log') = Len(log) + 1
      /\ \A k \in 1 .. Len(log) : log'[k] = log[k]
      /\ log'[Len(log) + 1] = e
  BY <1>1, Published
<1>3. e.kind = kind /\ e.root = r
  OBVIOUS
<1> HIDE DEF e
<1>4. nextIndex' = n /\ filledSubtree' = filledSubtree
  BY Zenon
<1>5. \A k \in 1 .. n : log'[k] = log[k]
  <2>1. \A k \in 1 .. n : k \in 1 .. Len(log)
    BY <1>1, <1>2
  <2>2. QED
    BY <1>2, <2>1, Zenon
<1>6. Enrolled' = Enrolled
  <2>1. \A i \in 0 .. n - 1 : i + 1 \in 1 .. n
    BY <1>1
  <2>2. \A i \in 0 .. n - 1 : log'[i + 1].leaf = log[i + 1].leaf
    BY <1>5, <2>1, Zenon
  <2>3. QED
    BY <1>4, <2>2, Zenon DEF Enrolled
<1>7. nextIndex' < Len(log') /\ nextIndex' <= Len(log')
  BY <1>1, <1>2, <1>4
<1>8. log'[n + 1].kind = "revoked"
  <2>1. CASE operatorMaintained
    <3>1. n + 1 \in 1 .. Len(log)
      BY <1>1, <1>2, <2>1
    <3>2. QED
      BY <1>1, <1>2, <2>1, <3>1, Zenon
  <2>2. CASE ~ operatorMaintained
    BY <1>1, <1>2, <1>3, <2>2, Zenon
  <2>3. QED
    BY <2>1, <2>2, Zenon
<1>9. aspRoot' = log'[Len(log')].root
  BY <1>2, <1>3, Zenon
<1> HIDE DEF n
<1>10. \A k \in 1 .. nextIndex' :
          /\ log'[k].kind = "added" /\ log'[k].index = k - 1
          /\ log'[k].root = ReferenceRoot(First(Enrolled', k))
  BY <1>1, <1>4, <1>5, <1>6, Zenon
<1>11. /\ nextIndex' \in Nat /\ nextIndex' <= Capacity
       /\ Frontier(filledSubtree', Enrolled', nextIndex', 0)
       /\ log'[nextIndex' + 1].kind = "revoked"
  BY <1>1, <1>4, <1>6, <1>8, Zenon
<1>12. QED
  BY <1>2, <1>7, <1>9, <1>10, <1>11, Zenon DEF AspInv

\* A step that leaves the tree and the log alone.
LEMMA RestKeepsAsp ==
    ASSUME AspInv, UNCHANGED <<treeVars, log, operatorMaintained>>
    PROVE  AspInv'
<1>1. /\ aspRoot' = aspRoot /\ nextIndex' = nextIndex /\ filledSubtree' = filledSubtree
      /\ log' = log /\ operatorMaintained' = operatorMaintained
  BY Zenon DEF treeVars
<1>2. Enrolled' = Enrolled
  BY <1>1, Zenon DEF Enrolled
<1>3. LogIsSequence <=> LogIsSequence'
  BY <1>1, Zenon DEF LogIsSequence
<1>4. QED
  BY <1>1, <1>2, <1>3 DEF AspInv

\* Any call of any caller.
LEMMA CallKeepsAsp ==
    ASSUME AspInv, operatorMaintained \in BOOLEAN, NEW caller, AspCall(caller)
    PROVE  AspInv' /\ operatorMaintained' \in BOOLEAN
<1>1. CASE \E leaf \in Leaves : insert_leaf(caller, leaf)
  BY <1>1, InsertKeepsAsp, Zenon DEF insert_leaf
<1>2. ASSUME NEW leaf, NEW r, revoke_leaf(caller, leaf, r)
      PROVE  AspInv' /\ operatorMaintained' \in BOOLEAN
  BY <1>2, OperatorKeepsAsp DEF revoke_leaf
<1>3. ASSUME NEW leaf, NEW i, NEW r, publish_leaf(caller, leaf, i, r)
      PROVE  AspInv' /\ operatorMaintained' \in BOOLEAN
  <2>1. /\ operatorMaintained /\ aspRoot' = r /\ Publish("added", leaf, i, r)
        /\ UNCHANGED <<nextIndex, filledSubtree>> /\ operatorMaintained' = operatorMaintained
    BY <1>3, Zenon DEF publish_leaf
  <2>2. operatorMaintained' = TRUE
    BY <2>1, Zenon
  <2>3. QED
    BY <2>1, <2>2, OperatorKeepsAsp
<1>4. CASE \E new \in Callers : update_admin(caller, new)
  BY <1>4, RestKeepsAsp, Zenon DEF update_admin
<1>5. CASE \E only \in BOOLEAN : set_admin_insert_only(caller, only)
  BY <1>5, RestKeepsAsp, Zenon DEF set_admin_insert_only
<1>6. QED
  BY <1>1, <1>2, <1>3, <1>4, <1>5, Zenon DEF AspCall

LEMMA SpecAsp == FaucetSpec => [](AspInv /\ operatorMaintained \in BOOLEAN)
<1> DEFINE I == AspInv /\ operatorMaintained \in BOOLEAN
<1>1. FaucetInit => I
  BY InitAsp, Zenon DEF FaucetInit, AspInit
<1>2. ASSUME I, UNCHANGED aspVars
      PROVE  I'
  <2>1. UNCHANGED <<treeVars, log, operatorMaintained>>
    BY <1>2, Zenon DEF aspVars
  <2>2. QED
    BY <1>2, <2>1, RestKeepsAsp, Zenon
<1>3. ASSUME I, FaucetNext
      PROVE  I'
  <2>1. CASE \E to \in Recipients, leaf \in Leaves : onboard(to, leaf)
    BY <1>3, <2>1, InsertKeepsAsp, Zenon DEF onboard, insert_leaf
  <2>2. CASE \E to \in Recipients : drip(to)
    BY <1>2, <1>3, <2>2, Zenon DEF drip
  <2>3. CASE \E c \in Accounts, a \in DripAmounts, l \in Cooldowns : set_drip(c, a, l)
    BY <1>2, <1>3, <2>3, Zenon DEF set_drip
  <2>4. CASE \E c, new \in Accounts : faucet_update_admin(c, new)
    BY <1>2, <1>3, <2>4, Zenon DEF faucet_update_admin
  <2>5. CASE CloseLedger
    BY <1>2, <1>3, <2>5, Zenon DEF CloseLedger
  <2>6. CASE \E c \in Accounts : AspCall(c) /\ UNCHANGED faucetVars
    BY <1>3, <2>6, CallKeepsAsp, Zenon
  <2>7. QED
    BY <1>3, <2>1, <2>2, <2>3, <2>4, <2>5, <2>6, Zenon DEF FaucetNext
<1>4. I /\ UNCHANGED allVars => I'
  BY <1>2, Zenon DEF allVars
<1>5. QED
  BY <1>1, <1>3, <1>4, PTL DEF FaucetSpec

\* Until a revocation the root the pool compares spends with commits to exactly the
\* leaves insert_leaf enrolled, in order, for a tree of any depth.
THEOREM RootCommitsToEnrolled == FaucetSpec => []RootIsEnrolledSet
<1>1. AspInv => RootIsEnrolledSet
  BY Zenon DEF AspInv, RootIsEnrolledSet
<1>2. QED
  BY <1>1, SpecAsp, PTL
-----------------------------------------------------------------------------
(* The replay of verify, and the paths of the read API. *)

\* The replay goes through the events one by one.
LEMMA ReplayAllIs ==
    ASSUME NEW events, Len(events) \in Nat
    PROVE  \E after : /\ ReplayAll(events) = after[Len(events)]
                      /\ after[0] = ReplayStart
                      /\ \A k \in 0 .. Len(events) - 1 :
                            after[k + 1] = Replay(after[k], events[k + 1])
<1> DEFINE n == Len(events)
           E(z, k) == z = [j \in 0 .. k |->
                              IF j = 0 THEN ReplayStart ELSE Replay(z[j - 1], events[j])]
           Good == {k \in 0 .. n : \E z : E(z, k)}
           after == CHOOSE z : E(z, n)
<1>1. ReplayAll(events) = after[n]
  BY Zenon DEF ReplayAll
<1>2. n \in Nat
  OBVIOUS
<1> HIDE DEF n
<1>3. 0 \in Good
  <2> DEFINE z == [j \in 0 .. 0 |-> ReplayStart]
  <2>1. E(z, 0)
    OBVIOUS
  <2>2. 0 \in 0 .. n
    BY <1>2
  <2>3. QED
    BY <2>1, <2>2
<1>4. ASSUME NEW k \in 0 .. n - 1, k \in Good
      PROVE  k + 1 \in Good
  <2>1. PICK z : E(z, k)
    BY <1>4
  <2> DEFINE y == [j \in 0 .. k + 1 |->
                     IF j = k + 1 THEN Replay(z[k], events[k + 1]) ELSE z[j]]
  <2>2. \A j \in 0 .. k : y[j] = z[j]
    <3>1. \A j \in 0 .. k : j \in 0 .. k + 1 /\ j # k + 1
      BY <1>2
    <3>2. QED
      BY <3>1, Zenon
  <2>3. y[k + 1] = Replay(z[k], events[k + 1])
    <3>1. k + 1 \in 0 .. k + 1
      BY <1>2
    <3>2. QED
      BY <3>1, Zenon
  <2>4. \A j \in 0 .. k : z[j] = IF j = 0 THEN ReplayStart ELSE Replay(z[j - 1], events[j])
    BY <2>1, Zenon
  <2>5. y = [j \in 0 .. k + 1 |-> y[j]]
    BY Zenon
  <2> HIDE DEF y
  <2>6. ASSUME NEW j \in 0 .. k + 1
        PROVE  y[j] = IF j = 0 THEN ReplayStart ELSE Replay(y[j - 1], events[j])
    <3>1. CASE j = k + 1
      <4>1. j # 0 /\ j - 1 = k /\ k \in 0 .. k
        BY <1>2, <3>1
      <4>2. QED
        BY <2>2, <2>3, <3>1, <4>1, Zenon
    <3>2. CASE j # k + 1
      <4>1. j \in 0 .. k /\ (j # 0 => j - 1 \in 0 .. k)
        BY <1>2, <3>2
      <4>2. QED
        BY <2>2, <2>4, <4>1, Zenon
    <3>3. QED
      BY <3>1, <3>2
  <2>7. E(y, k + 1)
    BY <2>5, <2>6, Zenon
  <2>8. k + 1 \in 0 .. n
    BY <1>2
  <2>9. QED
    BY <2>7, <2>8, Zenon
<1>5. n \in Good
  <2> HIDE DEF Good
  <2>1. \A k \in 0 .. n : k \in Good
    BY <1>2, <1>3, <1>4, UpFrom
  <2>2. QED
    BY <1>2, <2>1
<1>6. E(after, n)
  BY <1>5, Zenon
<1>7. \A j \in 0 .. n : after[j] = IF j = 0 THEN ReplayStart ELSE Replay(after[j - 1], events[j])
  BY <1>6, Zenon
<1> HIDE DEF after
<1>8. after[0] = ReplayStart
  BY <1>2, <1>7
<1>9. ASSUME NEW k \in 0 .. n - 1
      PROVE  after[k + 1] = Replay(after[k], events[k + 1])
  <2>1. k + 1 \in 0 .. n /\ k + 1 # 0 /\ (k + 1) - 1 = k
    BY <1>2
  <2>2. QED
    BY <1>7, <2>1, Zenon
<1>10. QED
  BY <1>1, <1>8, <1>9, Zenon DEF n

Replaying(tree, handed, latest) ==
    [tree |-> tree, matches |-> TRUE, handed |-> handed, latest |-> latest]

\* From a revocation on, the replay only notes the latest root.
LEMMA ReplaySkips ==
    ASSUME NEW tree, NEW handed \in BOOLEAN, NEW latest, NEW event,
           handed \/ event.kind = "revoked"
    PROVE  Replay(Replaying(tree, handed, latest), event) = Replaying(tree, TRUE, event.root)
<1> DEFINE r == Replaying(tree, handed, latest)
<1>1. r.tree = tree /\ r.handed = handed /\ r.matches = TRUE
  BY Zenon DEF Replaying
<1> HIDE DEF r
<1>2. Replay(r, event) = Replaying(r.tree, TRUE, event.root)
  BY <1>1, Zenon DEF Replay, Replaying
<1>3. QED
  BY <1>1, <1>2, Zenon DEF r

\* Before one, it pushes the leaf and compares index and root.
LEMMA ReplayAdds ==
    ASSUME NEW tree, NEW latest, NEW event, event.kind = "added",
           event.index = tree.next_index, event.root = push(tree, event.leaf).root
    PROVE  Replay(Replaying(tree, FALSE, latest), event)
             = Replaying(push(tree, event.leaf), FALSE, event.root)
<1> DEFINE r == Replaying(tree, FALSE, latest)
<1>1. r.tree = tree /\ r.handed = FALSE /\ r.matches = TRUE
  BY Zenon DEF Replaying
<1> HIDE DEF r
<1>2. event.kind # "revoked"
  OBVIOUS
<1>3. event.index = r.tree.next_index /\ event.root = push(r.tree, event.leaf).root
  BY <1>1, Zenon
<1>4. Replay(r, event) = Replaying(push(r.tree, event.leaf), FALSE, event.root)
  BY <1>1, <1>2, <1>3, Zenon DEF Replay, Replaying
<1>5. QED
  BY <1>1, <1>4, Zenon DEF r

\* The enrolments replay to the tree they made.
LEMMA EnrolmentsReplay ==
    ASSUME AspInv, NEW after, after[0] = ReplayStart,
           \A k \in 0 .. Len(log) - 1 : after[k + 1] = Replay(after[k], log[k + 1])
    PROVE  \E tree : /\ after[nextIndex] = Replaying(tree, FALSE, tree.root)
                     /\ Built(tree, Enrolled, nextIndex)
<1> DEFINE n == nextIndex
           At(k) == \E tree : /\ after[k] = Replaying(tree, FALSE, tree.root)
                              /\ Built(tree, Enrolled, k)
           S == {k \in 0 .. n : At(k)}
<1>0. Capacity \in Nat
  BY LevelsAssumption, Widths
<1>1. /\ LogIsSequence /\ n \in Nat /\ n <= Capacity /\ n <= Len(log)
      /\ \A k \in 1 .. n :
            /\ log[k].kind = "added" /\ log[k].index = k - 1
            /\ log[k].root = ReferenceRoot(First(Enrolled, k))
  BY Zenon DEF AspInv
<1>2. Len(log) \in Nat
  BY <1>1 DEF LogIsSequence
<1>3. \A i \in 0 .. n - 1 : Enrolled[i] = log[i + 1].leaf
  BY <1>1, EnrolledIs, Zenon
<1> HIDE DEF n
<1>4. 0 \in S
  <2>1. NewTree.root = zeroes[Levels]
    BY Zenon DEF NewTree
  <2>2. ReplayStart = Replaying(NewTree, FALSE, NewTree.root)
    BY <2>1, Zenon DEF ReplayStart, Replaying
  <2>3. At(0)
    BY <2>2, NewTreeBuilt, Zenon
  <2>4. 0 \in 0 .. n
    BY <1>1
  <2>5. QED
    BY <2>3, <2>4, Zenon
<1>5. ASSUME NEW k \in 0 .. n - 1, k \in S
      PROVE  k + 1 \in S
  <2>1. /\ k \in 0 .. Capacity - 1 /\ k + 1 \in 1 .. n /\ k + 1 \in 0 .. n
        /\ k \in 0 .. Len(log) - 1 /\ (k + 1) - 1 = k
    BY <1>0, <1>1, <1>2
  <2>2. PICK tree : after[k] = Replaying(tree, FALSE, tree.root) /\ Built(tree, Enrolled, k)
    BY <1>5, Zenon
  <2> DEFINE e == log[k + 1]
             new == push(tree, e.leaf)
  <2>3. e.leaf = Enrolled[k]
    BY <1>3, Zenon
  <2>4. Built(new, Enrolled, k + 1)
    <3>1. Built(push(tree, Enrolled[k]), Enrolled, k + 1)
      BY <2>1, <2>2, PushBuilds
    <3>2. QED
      BY <2>3, <3>1, Zenon
  <2>5. e.kind = "added" /\ e.index = k /\ e.root = ReferenceRoot(First(Enrolled, k + 1))
    BY <1>1, <2>1, Zenon
  <2>6. e.index = tree.next_index /\ e.root = new.root
    BY <2>2, <2>4, <2>5, Zenon DEF Built
  <2> HIDE DEF e
  <2>7. Replay(Replaying(tree, FALSE, tree.root), e) = Replaying(new, FALSE, e.root)
    BY <2>5, <2>6, ReplayAdds DEF new
  <2>8. after[k + 1] = Replaying(new, FALSE, new.root)
    BY <2>1, <2>2, <2>6, <2>7, Zenon DEF e
  <2> HIDE DEF new
  <2>9. At(k + 1)
    BY <2>4, <2>8, Zenon
  <2>10. QED
    BY <2>1, <2>9, Zenon
<1> HIDE DEF S
<1>6. \A k \in 0 .. n : k \in S
  BY <1>1, <1>4, <1>5, UpFrom
<1>7. n \in 0 .. n
  BY <1>1
<1>8. At(n)
  BY <1>6, <1>7, Zenon DEF S
<1>9. QED
  BY <1>8, Zenon DEF n

\* The whole log replays without a mismatch: to the contract's tree, or past it.
LEMMA LogReplays ==
    ASSUME AspInv, operatorMaintained \in BOOLEAN
    PROVE  \E tree : /\ ReplayAll(log) = Replaying(tree, operatorMaintained, aspRoot)
                     /\ ~ operatorMaintained =>
                           tree.root = aspRoot /\ tree.next_index = nextIndex
<1> DEFINE n == nextIndex
<1>1. /\ LogIsSequence /\ n \in Nat /\ n <= Len(log)
      /\ ~ operatorMaintained => Len(log) = n /\ aspRoot = ReferenceRoot(Enrolled)
      /\ operatorMaintained => /\ n < Len(log) /\ log[n + 1].kind = "revoked"
                               /\ aspRoot = log[Len(log)].root
  BY Zenon DEF AspInv
<1>2. Len(log) \in Nat
  BY <1>1 DEF LogIsSequence
<1>3. PICK after : /\ ReplayAll(log) = after[Len(log)]
                   /\ after[0] = ReplayStart
                   /\ \A k \in 0 .. Len(log) - 1 : after[k + 1] = Replay(after[k], log[k + 1])
  BY <1>2, ReplayAllIs, Zenon
<1>4. PICK tree : after[n] = Replaying(tree, FALSE, tree.root) /\ Built(tree, Enrolled, n)
  BY <1>3, EnrolmentsReplay
<1>5. CASE ~ operatorMaintained
  <2>1. First(Enrolled, n) = Enrolled
    BY <1>1, EnrolledIs, Zenon
  <2>2. tree.root = aspRoot /\ tree.next_index = n
    BY <1>1, <1>4, <1>5, <2>1, Zenon DEF Built
  <2>3. operatorMaintained = FALSE /\ Len(log) = n
    BY <1>1, <1>5, Zenon
  <2>4. QED
    BY <1>3, <1>4, <2>2, <2>3, Zenon
<1>6. CASE operatorMaintained
  <2> DEFINE At(k) == after[k] = Replaying(tree, TRUE, log[k].root)
             S == {k \in n + 1 .. Len(log) : At(k)}
  <2> HIDE DEF n
  <2>0. n + 1 \in n + 1 .. Len(log) /\ n + 1 \in Nat /\ n \in 0 .. Len(log) - 1
    BY <1>1, <1>2, <1>6
  <2>1. n + 1 \in S
    <3>1. Replay(Replaying(tree, FALSE, tree.root), log[n + 1]) = Replaying(tree, TRUE, log[n + 1].root)
      BY <1>1, <1>6, ReplaySkips
    <3>2. At(n + 1)
      BY <1>3, <1>4, <2>0, <3>1, Zenon
    <3>3. QED
      BY <2>0, <3>2, Zenon
  <2>2. ASSUME NEW k \in n + 1 .. Len(log) - 1, k \in S
        PROVE  k + 1 \in S
    <3>1. k \in 0 .. Len(log) - 1 /\ k + 1 \in n + 1 .. Len(log)
      BY <1>1, <1>2
    <3>2. Replay(Replaying(tree, TRUE, log[k].root), log[k + 1]) = Replaying(tree, TRUE, log[k + 1].root)
      BY ReplaySkips
    <3>3. At(k + 1)
      BY <1>3, <2>2, <3>1, <3>2, Zenon
    <3>4. QED
      BY <3>1, <3>3, Zenon
  <2> HIDE DEF S
  <2>3. \A k \in n + 1 .. Len(log) : k \in S
    BY <1>2, <2>0, <2>1, <2>2, UpFrom
  <2>4. Len(log) \in n + 1 .. Len(log)
    BY <1>2, <2>0
  <2>5. after[Len(log)] = Replaying(tree, TRUE, log[Len(log)].root)
    BY <2>3, <2>4, Zenon DEF S
  <2>6. operatorMaintained = TRUE
    BY <1>6, Zenon
  <2>7. QED
    BY <1>1, <1>3, <2>5, <2>6, Zenon
<1>7. QED
  BY <1>5, <1>6, Zenon

\* verify raises no false alarm on an index that holds every event of the allowlist,
\* before and after revocations.
THEOREM VerifyRaisesNoFalseAlarm == FaucetSpec => []ReplayAgrees
<1>1. AspInv /\ operatorMaintained \in BOOLEAN => ReplayAgrees
  <2> SUFFICES ASSUME AspInv, operatorMaintained \in BOOLEAN PROVE ReplayAgrees
    OBVIOUS
  <2> DEFINE state == [operator_maintained |-> operatorMaintained,
                       root |-> aspRoot, next_index |-> nextIndex]
             end == ReplayAll(log)
  <2>1. PICK tree : /\ end = Replaying(tree, operatorMaintained, aspRoot)
                    /\ ~ operatorMaintained => tree.root = aspRoot /\ tree.next_index = nextIndex
    BY LogReplays
  <2>2. /\ end.matches = TRUE /\ end.handed = operatorMaintained
        /\ end.latest = aspRoot /\ end.tree = tree
    <3> DEFINE r == Replaying(tree, operatorMaintained, aspRoot)
    <3>1. /\ r.matches = TRUE /\ r.handed = operatorMaintained
          /\ r.latest = aspRoot /\ r.tree = tree
      BY Zenon DEF Replaying
    <3> HIDE DEF r, end
    <3>2. end = r
      BY <2>1, Zenon DEF r
    <3>3. QED
      BY <3>1, <3>2, Zenon
  <2>3. /\ state.operator_maintained = operatorMaintained
        /\ state.root = aspRoot /\ state.next_index = nextIndex
    BY Zenon
  <2> HIDE DEF state, end
  <2>4. /\ end.matches /\ end.handed = state.operator_maintained /\ end.latest = state.root
        /\ ~ end.handed => end.tree.root = state.root /\ end.tree.next_index = state.next_index
    BY <2>1, <2>2, <2>3, Zenon
  <2>5. check_allowlist(log, state)
    BY <2>4, Zenon DEF check_allowlist, end
  <2>6. QED
    BY <2>5, Zenon DEF ReplayAgrees, state
<1>2. QED
  BY <1>1, SpecAsp, PTL

\* A membership path of the read API opens the contract's live root with the leaf it was
\* asked for; every enrolled leaf has one until a revocation, and none after it.
THEOREM PathsOpenTheLiveRoot == FaucetSpec => []PathOpensLiveRoot
<1>1. AspInv /\ operatorMaintained \in BOOLEAN => PathOpensLiveRoot
  <2> SUFFICES ASSUME AspInv, operatorMaintained \in BOOLEAN, NEW leaf \in Leaves
               PROVE  LET answer == allowlist_path(log, leaf)
                      IN  /\ answer.status = IF operatorMaintained THEN 409
                                             ELSE IF \E i \in DOMAIN Enrolled : Enrolled[i] = leaf
                                                  THEN 200 ELSE 404
                          /\ answer.status = 200 =>
                                /\ answer.path.leaf = leaf
                                /\ answer.path.root = aspRoot
                                /\ computed_root(leaf, answer.path.siblings, answer.path.index)
                                     = aspRoot
    BY Zenon DEF PathOpensLiveRoot
  <2> DEFINE n == nextIndex
             answer == allowlist_path(log, leaf)
             added == [i \in 0 .. Len(log) - 1 |-> log[i + 1].leaf]
             found == {i \in DOMAIN added : added[i] = leaf}
             replayed == ReplayAll(log)
             last == CHOOSE i \in found : \A j \in found : j <= i
  <2>0. Capacity \in Nat
    BY LevelsAssumption, Widths
  <2>1. /\ LogIsSequence /\ n \in Nat /\ n <= Capacity
        /\ \A k \in 1 .. n : log[k].kind = "added" /\ log[k].index = k - 1
        /\ ~ operatorMaintained => Len(log) = n /\ aspRoot = ReferenceRoot(Enrolled)
        /\ operatorMaintained => n < Len(log) /\ log[n + 1].kind = "revoked"
    BY Zenon DEF AspInv
  <2>2. Len(log) \in Nat /\ DOMAIN log = 1 .. Len(log)
    BY <2>1 DEF LogIsSequence
  <2>3. answer = IF \E k \in DOMAIN log : log[k].kind = "revoked" THEN [status |-> 409]
                 ELSE IF \/ \E i \in DOMAIN added : log[i + 1].index # i
                         \/ replayed.tree.root # replayed.latest THEN [status |-> 500]
                 ELSE IF found = {} THEN [status |-> 404]
                 ELSE [status |-> 200, path |-> path(added, last)]
    BY Zenon DEF allowlist_path
  <2> HIDE DEF answer
  <2>4. CASE operatorMaintained
    <3>1. n + 1 \in DOMAIN log
      BY <2>1, <2>2, <2>4
    <3>2. answer = [status |-> 409]
      <4> HIDE DEF added, found, last, replayed
      <4>1. \E k \in DOMAIN log : log[k].kind = "revoked"
        BY <2>1, <2>4, <3>1, Zenon
      <4>2. QED
        BY <2>3, <4>1, Zenon
    <3>3. answer.status = 409 /\ answer.status # 200
      BY <3>2
    <3>4. QED
      BY <2>4, <3>3, Zenon DEF answer
  <2>5. CASE ~ operatorMaintained
    <3>1. Len(log) = n /\ aspRoot = ReferenceRoot(Enrolled)
      BY <2>1, <2>5, Zenon
    <3>2. added = Enrolled
      BY <3>1, Zenon DEF Enrolled
    <3>3. /\ DOMAIN Enrolled = 0 .. n - 1
          /\ Enrolled = [i \in DOMAIN Enrolled |-> Enrolled[i]]
      BY <2>1, EnrolledIs, Zenon
    <3>4. ~ \E k \in DOMAIN log : log[k].kind = "revoked"
      <4>1. "added" # "revoked"
        OBVIOUS
      <4>2. QED
        BY <2>1, <2>2, <3>1, <4>1, Zenon
    <3>5. ~ \E i \in DOMAIN added : log[i + 1].index # i
      <4>1. ASSUME NEW i \in 0 .. n - 1
            PROVE  i + 1 \in 1 .. n /\ (i + 1) - 1 = i
        BY <2>1
      <4>2. QED
        BY <2>1, <3>2, <3>3, <4>1, Zenon
    <3>6. replayed.tree.root = replayed.latest
      <4>1. PICK tree : /\ replayed = Replaying(tree, operatorMaintained, aspRoot)
                        /\ ~ operatorMaintained => tree.root = aspRoot /\ tree.next_index = nextIndex
        BY LogReplays
      <4> DEFINE r == Replaying(tree, operatorMaintained, aspRoot)
      <4>2. r.latest = aspRoot /\ r.tree = tree
        BY Zenon DEF Replaying
      <4> HIDE DEF r, replayed
      <4>3. replayed = r
        BY <4>1, Zenon DEF r
      <4>4. QED
        BY <2>5, <4>1, <4>2, <4>3, Zenon
    <3> HIDE DEF added, replayed
    <3>7. answer = IF found = {} THEN [status |-> 404]
                   ELSE [status |-> 200, path |-> path(added, last)]
      <4> HIDE DEF found, last
      <4>1. QED
        BY <2>3, <3>4, <3>5, <3>6, Zenon
    <3>8. CASE found = {}
      <4>1. ~ \E i \in DOMAIN Enrolled : Enrolled[i] = leaf
        BY <3>2, <3>8, Zenon
      <4>2. answer.status = 404 /\ answer.status # 200
        <5>1. answer = [status |-> 404]
          BY <3>7, <3>8, Zenon
        <5>2. QED
          BY <5>1
      <4>3. QED
        BY <2>5, <4>1, <4>2, Zenon DEF answer
    <3>9. CASE found # {}
      <4>1. \E i \in DOMAIN Enrolled : Enrolled[i] = leaf
        BY <3>2, <3>9, Zenon
      <4>2. found \in SUBSET (0 .. n - 1)
        BY <3>2, <3>3, Zenon
      <4>3. \E i \in found : \A j \in found : j <= i
        <5> HIDE DEF found
        <5>1. found \in SUBSET Nat /\ \A j \in found : j <= n
          BY <2>1, <4>2
        <5>2. PICK i \in found : \A j \in found : i >= j
          BY <2>1, <3>9, <5>1, GreatestElement
        <5>3. \A j \in found : j <= i
          BY <5>1, <5>2
        <5>4. QED
          BY <5>3
      <4>4. last \in found
        <5> HIDE DEF found
        <5>1. QED
          BY <4>3, Zenon
      <4> HIDE DEF last
      <4>5. last \in DOMAIN Enrolled /\ Enrolled[last] = leaf
        BY <3>2, <4>4, Zenon
      <4> HIDE DEF found
      <4>6. DOMAIN Enrolled \in SUBSET (0 .. Capacity - 1)
        <5>1. 0 .. n - 1 \in SUBSET (0 .. Capacity - 1)
          BY <2>0, <2>1
        <5>2. QED
          BY <3>3, <5>1, Zenon
      <4> DEFINE p == path(Enrolled, last)
      <4>7. /\ p.root = ReferenceRoot(Enrolled) /\ p.leaf = Enrolled[last] /\ p.index = last
            /\ computed_root(Enrolled[last], p.siblings, last) = ReferenceRoot(Enrolled)
        BY <3>3, <4>5, <4>6, PathRight
      <4>8. answer.status = 200 /\ answer.path = p
        <5> HIDE DEF p
        <5>1. answer = [status |-> 200, path |-> p]
          BY <3>2, <3>7, <3>9, Zenon DEF p
        <5>2. QED
          BY <5>1
      <4> HIDE DEF p
      <4>9. /\ answer.path.leaf = leaf /\ answer.path.root = aspRoot
            /\ computed_root(leaf, answer.path.siblings, answer.path.index) = aspRoot
        BY <3>1, <4>5, <4>7, <4>8, Zenon
      <4>10. QED
        BY <2>5, <4>1, <4>8, <4>9, Zenon DEF answer
    <3>10. QED
      BY <3>8, <3>9, Zenon
  <2>6. QED
    BY <2>4, <2>5, Zenon
<1>2. QED
  BY <1>1, SpecAsp, PTL
=============================================================================
