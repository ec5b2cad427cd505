----------------------------- MODULE MCService -----------------------------
(***************************************************************************)
(* What must go on by itself, each in behaviours of its own: one service   *)
(* on a chain that grows, two of them in a rolling deployment, and the     *)
(* readers against sources that fail.                                      *)
(***************************************************************************)
EXTENDS Service

CONSTANTS Newcomer        \* the deployment that replaces the other

VARIABLES
    part,
    pc, reader, start, delays, outcome, readTo, written   \* Sources

sourceVars == <<pc, reader, start, delays, outcome, readTo, written>>
allVars == <<part, vars, sourceVars>>

\* Four attempts reach the cap and go past the width of the shift.
Read == INSTANCE Sources WITH
    MaxPosition <- 3, LedgerSize <- 2, page_size <- 2, MAX_PAGE_SIZE <- 2,
    attempts <- 4, first_delay <- 2, max_delay <- 5, ShiftBits <- 2, MaxDuration <- 5,
    Flaws <- {{}, {"failed"}, {"failed", "foreign"}, {"mislabelled"}},
    checkpoint <- readTo, stored <- written

ASSUME SourcesAssumption == Read!SourcesAssumption

Serving == part \in {"service", "deployment"}
ServiceDo(A) == Serving /\ A /\ UNCHANGED <<part, sourceVars>>
ReadDo(A) == part = "sources" /\ A /\ UNCHANGED <<part, vars>>

MCInit ==
    /\ part \in {"service", "deployment", "sources"}
    /\ Init /\ Read!Init

\* One service sees the chain grow; a deployment does not.
Bounds ==
    /\ part = "service" => proc'[Newcomer].pc = "down"
    /\ part = "deployment" => tip' = 1

MCNext == ServiceDo(Next /\ Bounds) \/ ReadDo(Read!Next)

MCSpec ==
    /\ MCInit /\ [][MCNext]_allVars
    /\ \A i \in Instances : WF_allVars(ServiceDo(Step(i)))
    /\ WF_allVars(ServiceDo(Tick))
    /\ WF_allVars(ReadDo(Read!Step))
-----------------------------------------------------------------------------
\* Whatever a source answers, no stored event lies beyond the cursor its stream
\* resumes from, and a call sleeps and gives up as its retries are configured
\* (sync_to_tip, seed, Retry::delay).
SourcesSound == Read!StoredBehindCheckpoint /\ Read!BacksOff

\* A page moves the cursor, ends the loop or is refused, and a call stops
\* retrying: reading comes to an end.
ReadingEnds == Read!ReadingEnds
=============================================================================
