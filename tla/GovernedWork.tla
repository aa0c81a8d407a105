---------------------------- MODULE GovernedWork ----------------------------
(***************************************************************************)
(* What the governor promises of the calls it governs, whatever happens to *)
(* their callers: bounded work on threads, one answer per call, a refused  *)
(* call that never runs, and no answer about the end of work before the    *)
(* work has ended. ToolGovernor implements it (see GovernorRefinement).    *)
(***************************************************************************)
EXTENDS Naturals, FiniteSets

CONSTANTS
    Calls,
    Capacity,           \* work on threads, in all
    SessionConcurrency, \* and per session
    Refused,            \* the answers to calls that never run
    Unawaited,          \* the answers that do not wait for the work to end
    Said                \* all answers

VARIABLES
    owner,   \* the session of each call
    running, \* the calls whose work is on a thread
    ended,   \* the calls whose work has stopped
    told     \* what each caller was told ("none": nothing yet)

wvars == <<owner, running, ended, told>>

WInit == /\ running = {}
         /\ ended = {}
         /\ told = [c \in Calls |-> "none"]

Begin(c) ==
    /\ c \notin running \union ended
    /\ told[c] = "none"
    /\ running' = running \union {c}
    /\ Cardinality(running') <= Capacity
    /\ Cardinality({d \in running' : owner[d] = owner[c]}) <= SessionConcurrency
    /\ UNCHANGED <<owner, ended, told>>

Stop(c) ==
    /\ c \in running
    /\ running' = running \ {c}
    /\ ended' = ended \union {c}
    /\ UNCHANGED <<owner, told>>

Tell(c, a) ==
    /\ told[c] = "none"
    /\ a \in Refused => c \notin running \union ended
    /\ a \notin Refused \union Unawaited => c \in ended
    /\ told' = [told EXCEPT ![c] = a]
    /\ UNCHANGED <<owner, running, ended>>

WNext == \E c \in Calls : Begin(c) \/ Stop(c) \/ \E a \in Said : Tell(c, a)

WSpec == WInit /\ [][WNext]_wvars
=============================================================================
