------------------------------- MODULE Faucet -------------------------------
(***************************************************************************)
(* The faucet (contracts/faucet) and the allowlist it enrols into.  The    *)
(* faucet's address authorizes the one call its code makes, insert_leaf;   *)
(* every other address may call the allowlist for itself.                  *)
(***************************************************************************)
EXTENDS AspMembership

CONSTANTS
    FaucetAddress,
    Recipients,
    DripAmounts, Cooldowns,   \* settings the admin chooses from
    InitialAmount,     \* drip amount given to the constructor
    FirstLedger,       \* ledger of deployment
    MaxU32,            \* last ledger sequence number
    MaxGrants          \* bound on the grants of one recipient

ASSUME FaucetAssumption ==
    /\ FaucetAddress \in Callers
    /\ InitialAmount > 0
    /\ InitialAmount \in DripAmounts /\ DripAmounts \subseteq Int
    /\ \E a \in DripAmounts : \A b \in DripAmounts : b <= a
    /\ MaxU32 \in Nat /\ FirstLedger \in 0 .. MaxU32
    /\ Cooldowns \subseteq 0 .. MaxU32
    /\ MaxGrants \in Nat

VARIABLES
    hasToken,        \* whether a token was configured at deployment
    faucetAdmin, dripAmount, cooldown,
    lastDrip,        \* ledger of the last call, for recipients that have one
    minted,          \* tokens minted to each recipient
    now,             \* ledger sequence number
    grants           \* history: enrolments and mints per recipient

faucetConfig == <<hasToken, faucetAdmin, dripAmount, cooldown>>
faucetVars == <<faucetConfig, lastDrip, minted, now, grants>>
allVars == <<aspVars, faucetVars>>

Accounts == Callers \ {FaucetAddress}

saturating_add(a, b) == IF a + b > MaxU32 THEN MaxU32 ELSE a + b

\* A bug: the addition wraps.
WrappingCooldown(to) ==
    to \in DOMAIN lastDrip => now >= (lastDrip[to] + cooldown) % (MaxU32 + 1)

CooldownElapsed(to) ==
    to \in DOMAIN lastDrip => now >= saturating_add(lastDrip[to], cooldown)

\* The mint may fail at the token; then the whole call is undone.
drip_with_cooldown(to) ==
    /\ CooldownElapsed(to)
    /\ grants[to] < MaxGrants
    /\ lastDrip' = [r \in DOMAIN lastDrip \cup {to} |->
                       IF r = to THEN now ELSE lastDrip[r]]
    /\ minted' = [minted EXCEPT ![to] = @ + IF hasToken THEN dripAmount ELSE 0]
    /\ grants' = [grants EXCEPT ![to] = @ + 1]
    /\ UNCHANGED <<faucetConfig, now>>

onboard(to, leaf) ==
    /\ drip_with_cooldown(to)
    /\ insert_leaf(FaucetAddress, leaf)

drip(to) ==
    /\ hasToken
    /\ drip_with_cooldown(to)
    /\ UNCHANGED aspVars

set_drip(caller, amount, ledgers) ==
    /\ amount > 0
    /\ caller = faucetAdmin
    /\ dripAmount' = amount
    /\ cooldown' = ledgers
    /\ UNCHANGED <<aspVars, hasToken, faucetAdmin, lastDrip, minted, now, grants>>

faucet_update_admin(caller, new) ==
    /\ caller = faucetAdmin
    /\ faucetAdmin' = new
    /\ UNCHANGED <<aspVars, hasToken, dripAmount, cooldown, lastDrip, minted, now, grants>>

\* The network closes ledgers.
CloseLedger ==
    /\ now < MaxU32
    /\ now' = now + 1
    /\ UNCHANGED <<aspVars, faucetConfig, lastDrip, minted, grants>>

FaucetInit ==
    /\ AspInit
    /\ hasToken \in BOOLEAN
    /\ faucetAdmin = InitialAdmin
    /\ dripAmount = InitialAmount
    /\ cooldown \in Cooldowns
    /\ lastDrip = [r \in {} |-> 0]
    /\ minted = [r \in Recipients |-> 0]
    /\ now = FirstLedger
    /\ grants = [r \in Recipients |-> 0]

FaucetNext ==
    \/ \E to \in Recipients, leaf \in Leaves : onboard(to, leaf)
    \/ \E to \in Recipients : drip(to)
    \/ \E c \in Accounts, a \in DripAmounts, l \in Cooldowns : set_drip(c, a, l)
    \/ \E c, new \in Accounts : faucet_update_admin(c, new)
    \/ CloseLedger
    \/ \E c \in Accounts : AspCall(c) /\ UNCHANGED faucetVars

FaucetSpec == FaucetInit /\ [][FaucetNext]_allVars
-----------------------------------------------------------------------------
(* Properties *)

Largest(S) == CHOOSE x \in S : \A y \in S : y <= x
Smallest(S) == CHOOSE x \in S : \A y \in S : x <= y

\* Over the faucet's life no recipient gets more than one grant, plus one for
\* each shortest cooldown that has passed, whatever the admin changes and
\* whichever of onboard and drip is called.  Only the last ledger number,
\* where saturating_add gives up, escapes.
GrantBudget ==
    \A r \in Recipients :
        /\ now < MaxU32 =>
              grants[r] * Smallest(Cooldowns)
                <= (now - FirstLedger) + Smallest(Cooldowns)
        /\ minted[r] <= grants[r] * Largest(DripAmounts)

\* Once the allowlist's admin role is the faucet's it stays there, and since
\* the faucet only inserts, members can no longer be revoked and the allowlist
\* is never handed to an operator.
RoleStaysWithFaucet ==
    admin = FaucetAddress =>
        /\ admin' = FaucetAddress
        /\ operatorMaintained' = operatorMaintained
        /\ adminInsertOnly' = adminInsertOnly

\* A faucet that does not hold the role of a closed allowlist enrols nobody
\* and, the call being undone as a whole, grants nothing for an enrolment
\* (lib.rs 113-116, "A failed enrolment reverts the mint with it").
NoGrantWithoutEnrolment ==
    (~ hasToken /\ grants' # grants) =>
        /\ Len(log') = Len(log) + 1
        /\ adminInsertOnly => admin = FaucetAddress
        /\ ~ operatorMaintained

\* What no call of anyone may do to the roles: undo a revocation or go on with
\* the frontier it left stale, take the allowlist from the faucet, or grant for
\* an enrolment that failed.
RolesKept ==
    [][HandoverFinal /\ RoleStaysWithFaucet /\ NoGrantWithoutEnrolment]_allVars
=============================================================================
