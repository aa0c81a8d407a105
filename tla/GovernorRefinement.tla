------------------------- MODULE GovernorRefinement -------------------------
(***************************************************************************)
(* ToolGovernor implements GovernedWork: work is running from the spawn of *)
(* the closure until it has returned and its audit entry is queued, and a  *)
(* caller is told when the call's future is done.                          *)
(***************************************************************************)
EXTENDS MCToolGovernor

Promise == INSTANCE GovernedWork WITH
    Refused <- Refusals,
    Unawaited <- {"deadline_exceeded", "gone"},
    Said <- Answers \ {"none"},
    owner <- session,
    running <- {c \in Calls : OnThread(c)},
    ended <- {c \in Calls : work[c] \notin {"none", "queued", "running", "audit"}},
    told <- [c \in Calls |-> IF pc[c] = "done" THEN answer[c] ELSE "none"]

\* Every behaviour of the governor is one the abstract specification allows.
KeepsPromise == Promise!WSpec
=============================================================================
