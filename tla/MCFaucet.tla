------------------------------ MODULE MCFaucet ------------------------------
(***************************************************************************)
(* The faucet with its allowlist over a short log, or the allowlist alone  *)
(* over a longer one: a behaviour is of one kind.                          *)
(***************************************************************************)
EXTENDS Faucet

CONSTANTS MaxEnrolments   \* bound on the log while the faucet runs

VARIABLE alone

MCInit == alone \in BOOLEAN /\ FaucetInit

MCNext ==
    /\ \/ ~ alone /\ FaucetNext /\ Len(log') <= MaxEnrolments
       \/ alone /\ (\E c \in Accounts : AspCall(c)) /\ UNCHANGED faucetVars
    /\ UNCHANGED alone

MCSpec == MCInit /\ [][MCNext]_<<alone, allVars>>
=============================================================================
