---------------------------- MODULE ToolGovernor ----------------------------
(***************************************************************************)
(* The execution governor of the server (crates/p2a-mcp/src/exec.rs):      *)
(* admission, permits, deadline, detachment and the audit entry of every   *)
(* tool call.                                                              *)
(*                                                                         *)
(* A call is driven by two actors that run concurrently:                   *)
(*   - its future (`ToolGovernor::call`, `run_blocking`), an async task    *)
(*     that the client's departure drops at any await; its place is pc[c]; *)
(*   - its work, the closure on tokio's blocking pool, which nothing but   *)
(*     the work itself can stop; its place is work[c].                     *)
(* The permits, the in-flight entry and the active-call count are moved    *)
(* into the closure (`_held`), so they outlive the future.                 *)
(*                                                                         *)
(* Time is the phase of a call's budget: "open", then "past" (the deadline *)
(* was reached), then "overdue" (deadline + DEADLINE_GRACE).               *)
(***************************************************************************)
EXTENDS Naturals, FiniteSets, Sequences, SequencesExt

CONSTANTS
    Calls,              \* the tool calls of the run, each made at most once
    Sessions,           \* the live sessions they are made for
    Capacity,           \* global permits (exec.concurrency, clamped to >= 1)
    SessionConcurrency, \* permits of each session's own semaphore
    MemoryLimited,      \* TRUE: a memory soft limit is set
    HasDeadline,        \* TRUE: calls have a deadline
    Endings             \* how the tools' work may end, of Results below

ASSUME CallsAssumption == IsFiniteSet(Calls)
ASSUME PermitsAssumption == /\ Capacity \in Nat \ {0}
                            /\ SessionConcurrency \in Nat \ {0}
ASSUME SettingsAssumption ==
    /\ MemoryLimited \in BOOLEAN
    /\ HasDeadline \in BOOLEAN
    /\ Endings \subseteq {"ok", "tool_error", "refused", "internal", "panic"}

VARIABLES
    pc,           \* where the call's future is
    work,         \* where the call's blocking closure is
    session,      \* the session the call is made for
    sessionFree,  \* available permits of each session's semaphore
    sessionQueue, \* its waiters, first come first served
    globalFree,   \* available permits of the global semaphore
    globalQueue,  \* its waiters
    inFlight,     \* the in-flight registry
    activeCalls,  \* Session::active_calls
    clock,        \* the phase of the call's budget
    cancelled,    \* the calls whose CancelToken is cancelled
    result,       \* what the work returned
    answer,       \* what the caller was told
    log           \* the audit entries of each call

vars == <<pc, work, session, sessionFree, sessionQueue, globalFree, globalQueue,
          inFlight, activeCalls, clock, cancelled, result, answer, log>>

-----------------------------------------------------------------------------

FutureStates == {"idle", "gate", "waitSession", "waitGlobal", "register", "begin",
                 "spawn", "running", "refused", "done"}
WorkStates == {"none", "queued", "running", "audit", "relSession", "relGlobal",
               "relInFlight", "relActive", "ended"}
Clocks == {"open", "past", "overdue"}

\* What a closure can end with: a successful result, a result with success = false,
\* DeadlineExceeded, a specific refusal (quota, arguments, limit), another error
\* (ToolCallError::Internal), a panic.
Results == {"ok", "tool_error", "deadline_exceeded", "refused", "internal", "panic"}
Refusals == {"memory_pressure", "session_busy", "server_busy"}
Answers == (Results \ {"panic"}) \union Refusals \union {"none", "gone"}
Outcomes == (Results \ {"panic"}) \union Refusals \union {"cancelled"}

\* The future reaches `to` from `from`.
Go(c, from, to) == pc[c] = from /\ pc' = [pc EXCEPT ![c] = to]

\* The work reaches `to` from `from`.
Proceed(c, from, to) == work[c] = from /\ work' = [work EXCEPT ![c] = to]

\* The call's future or closure owns a permit of its session's semaphore,
HoldsSession(c) == \/ pc[c] \in {"waitGlobal", "register", "begin", "spawn"}
                   \/ work[c] \in {"queued", "running", "audit", "relSession"}

\* of the global one,
HoldsGlobal(c) == \/ pc[c] \in {"register", "begin", "spawn"}
                  \/ work[c] \in {"queued", "running", "audit", "relSession", "relGlobal"}

\* and an active-call guard.
HoldsActive(c) == \/ pc[c] = "spawn"
                  \/ work[c] \in WorkStates \ {"none", "ended"}

\* Waiting calls are served in order, by the semaphore's own queue.
First(queue, c) == queue # <<>> /\ Head(queue) = c
\* [mutant] a caller that stops waiting keeps its place.
StayQueued(queue, c) == queue
Leave(queue, c) == RemoveFirst(queue, c)

\* Budget::check fails: cancelled, or at or past the deadline.
Spent(c) == c \in cancelled \/ clock[c] # "open"

-----------------------------------------------------------------------------

Init ==
    /\ pc = [c \in Calls |-> "idle"]
    /\ work = [c \in Calls |-> "none"]
    /\ session \in [Calls -> Sessions]
    /\ sessionFree = [s \in Sessions |-> SessionConcurrency]
    /\ sessionQueue = [s \in Sessions |-> <<>>]
    /\ globalFree = Capacity
    /\ globalQueue = <<>>
    /\ inFlight = {}
    /\ activeCalls = [s \in Sessions |-> 0]
    /\ clock = [c \in Calls |-> "open"]
    /\ cancelled = {}
    /\ result = [c \in Calls |-> "none"]
    /\ answer = [c \in Calls |-> "none"]
    /\ log = [c \in Calls |-> <<>>]

\* A call enters the governor and comes to the memory gate.
Arrive(c) ==
    /\ Go(c, "idle", "gate")
    /\ UNCHANGED <<work, session, sessionFree, sessionQueue, globalFree, globalQueue,
                   inFlight, activeCalls, clock, cancelled, result, answer, log>>

\* A refusal before the work: the answer is fixed, its audit entry is still to queue.
Refuse(c, why) == answer' = [answer EXCEPT ![c] = why]

\* 1. The memory gate refuses the call (what it decides on is MemoryGate's).
RefuseForMemory(c) ==
    /\ MemoryLimited
    /\ Go(c, "gate", "refused")
    /\ Refuse(c, "memory_pressure")
    /\ UNCHANGED <<work, session, sessionFree, sessionQueue, globalFree, globalQueue,
                   inFlight, activeCalls, clock, cancelled, result, log>>

\* 2. It lets the call through to the queue of its session's semaphore,
QueueForSession(c) ==
    /\ Go(c, "gate", "waitSession")
    /\ sessionQueue' = [sessionQueue EXCEPT ![session[c]] = Append(@, c)]
    /\ UNCHANGED <<work, session, sessionFree, globalFree, globalQueue, inFlight,
                   activeCalls, clock, cancelled, result, answer, log>>

CanTakeSession(c) ==
    sessionFree[session[c]] > 0 /\ First(sessionQueue[session[c]], c)

\* [mutant] The session's semaphore is not counted down.
TakeSessionUncounted(c) ==
    /\ CanTakeSession(c)
    /\ Go(c, "waitSession", "waitGlobal")
    /\ sessionQueue' = [sessionQueue EXCEPT ![session[c]] = Tail(@)]
    /\ globalQueue' = Append(globalQueue, c)
    /\ UNCHANGED <<work, session, sessionFree, globalFree, inFlight, activeCalls, clock,
                   cancelled, result, answer, log>>

\* whose permit it takes before it waits for a global one,
TakeSession(c) ==
    /\ CanTakeSession(c)
    /\ Go(c, "waitSession", "waitGlobal")
    /\ sessionFree' = [sessionFree EXCEPT ![session[c]] = @ - 1]
    /\ sessionQueue' = [sessionQueue EXCEPT ![session[c]] = Tail(@)]
    /\ globalQueue' = Append(globalQueue, c)
    /\ UNCHANGED <<work, session, globalFree, inFlight, activeCalls, clock, cancelled,
                   result, answer, log>>

CanTakeGlobal(c) == globalFree > 0 /\ First(globalQueue, c)

TakeGlobal(c) ==
    /\ CanTakeGlobal(c)
    /\ Go(c, "waitGlobal", "register")
    /\ globalFree' = globalFree - 1
    /\ globalQueue' = Tail(globalQueue)
    /\ UNCHANGED <<work, session, sessionFree, sessionQueue, inFlight, activeCalls,
                   clock, cancelled, result, answer, log>>

\* [mutant] A timeout gives back a session permit that was not taken,
TimeOutSessionReleasing(c) ==
    /\ ~CanTakeSession(c)
    /\ Go(c, "waitSession", "refused")
    /\ Refuse(c, "session_busy")
    /\ sessionQueue' = [sessionQueue EXCEPT ![session[c]] = Leave(@, c)]
    /\ sessionFree' = [sessionFree EXCEPT ![session[c]] = @ + 1]
    /\ UNCHANGED <<work, session, globalFree, globalQueue, inFlight, activeCalls, clock,
                   cancelled, result, log>>

\* [mutant] or keeps the one that was.
TimeOutGlobalKeeping(c) ==
    /\ ~CanTakeGlobal(c)
    /\ Go(c, "waitGlobal", "refused")
    /\ Refuse(c, "server_busy")
    /\ globalQueue' = Leave(globalQueue, c)
    /\ UNCHANGED <<work, session, sessionFree, sessionQueue, globalFree, inFlight,
                   activeCalls, clock, cancelled, result, log>>

\* both within the one queue_wait. `timeout_at` polls the semaphore before the timer,
\* so a call a permit is free for takes it. A timeout on the global semaphore drops
\* the session's permit.
TimeOutSession(c) ==
    /\ ~CanTakeSession(c)
    /\ Go(c, "waitSession", "refused")
    /\ Refuse(c, "session_busy")
    /\ sessionQueue' = [sessionQueue EXCEPT ![session[c]] = Leave(@, c)]
    /\ UNCHANGED <<work, session, sessionFree, globalFree, globalQueue, inFlight,
                   activeCalls, clock, cancelled, result, log>>

TimeOutGlobal(c) ==
    /\ ~CanTakeGlobal(c)
    /\ Go(c, "waitGlobal", "refused")
    /\ Refuse(c, "server_busy")
    /\ globalQueue' = Leave(globalQueue, c)
    /\ sessionFree' = [sessionFree EXCEPT ![session[c]] = @ + 1]
    /\ UNCHANGED <<work, session, sessionQueue, globalFree, inFlight, activeCalls,
                   clock, cancelled, result, log>>

\* A refusal's audit entry is queued by the future, which then returns.
LogRefusal(c) ==
    /\ Go(c, "refused", "done")
    /\ log' = [log EXCEPT ![c] = Append(@, answer[c])]
    /\ UNCHANGED <<work, session, sessionFree, sessionQueue, globalFree, globalQueue,
                   inFlight, activeCalls, clock, cancelled, result, answer>>

\* 3. Bookkeeping: the in-flight entry, the session's active-call count, and
\* 4. the closure, which takes over everything held.
Register(c) ==
    /\ Go(c, "register", "begin")
    /\ inFlight' = inFlight \union {c}
    /\ UNCHANGED <<work, session, sessionFree, sessionQueue, globalFree, globalQueue,
                   activeCalls, clock, cancelled, result, answer, log>>

BeginCall(c) ==
    /\ Go(c, "begin", "spawn")
    /\ activeCalls' = [activeCalls EXCEPT ![session[c]] = @ + 1]
    /\ UNCHANGED <<work, session, sessionFree, sessionQueue, globalFree, globalQueue,
                   inFlight, clock, cancelled, result, answer, log>>

SpawnBlocking(c) ==
    /\ Go(c, "spawn", "running")
    /\ Proceed(c, "none", "queued")
    /\ UNCHANGED <<session, sessionFree, sessionQueue, globalFree, globalQueue,
                   inFlight, activeCalls, clock, cancelled, result, answer, log>>

-----------------------------------------------------------------------------
\* The closure on the blocking pool.

WorkStarts(c) ==
    /\ Proceed(c, "queued", "running")
    /\ UNCHANGED <<pc, session, sessionFree, sessionQueue, globalFree, globalQueue,
                   inFlight, activeCalls, clock, cancelled, result, answer, log>>

\* The closure's result: a failed tool result at or past the deadline becomes
\* DeadlineExceeded; everything else is returned as it is.
ClosureResult(c, r) ==
    IF r = "tool_error" /\ clock[c] # "open" THEN "deadline_exceeded" ELSE r

WorkReturns(c) ==
    /\ Proceed(c, "running", "audit")
    /\ \E r \in Endings :
          result' = [result EXCEPT ![c] = ClosureResult(c, r)]
    /\ UNCHANGED <<pc, session, sessionFree, sessionQueue, globalFree, globalQueue,
                   inFlight, activeCalls, clock, cancelled, answer, log>>

\* [mutant] The entry asks for a cancelled budget before the deadline.
AuditCancelledFirst(c) ==
    CASE result[c] = "panic" -> "internal"
      [] result[c] = "tool_error" /\ c \in cancelled -> "cancelled"
      [] OTHER -> result[c]

\* The audit outcome of a call whose work ran.
AuditOutcome(c) ==
    CASE result[c] = "panic" -> "internal"
      [] result[c] = "tool_error" /\ clock[c] # "open" -> "deadline_exceeded"
      [] result[c] = "tool_error" /\ clock[c] = "open" /\ c \in cancelled -> "cancelled"
      [] OTHER -> result[c]

\* [mutant] A panic skips what follows the work.
LogWorkUnlessPanicked(c) ==
    /\ result[c] # "panic"
    /\ Proceed(c, "audit", "relSession")
    /\ log' = [log EXCEPT ![c] = Append(@, AuditOutcome(c))]
    /\ UNCHANGED <<pc, session, sessionFree, sessionQueue, globalFree, globalQueue,
                   inFlight, activeCalls, clock, cancelled, result, answer>>

\* The entry is written where the work ends, whether or not anyone still waits.
LogWork(c) ==
    /\ Proceed(c, "audit", "relSession")
    /\ log' = [log EXCEPT ![c] = Append(@, AuditOutcome(c))]
    /\ UNCHANGED <<pc, session, sessionFree, sessionQueue, globalFree, globalQueue,
                   inFlight, activeCalls, clock, cancelled, result, answer>>

\* `_held` is dropped field by field, also when the work panicked.
ReleaseSession(c) ==
    /\ Proceed(c, "relSession", "relGlobal")
    /\ sessionFree' = [sessionFree EXCEPT ![session[c]] = @ + 1]
    /\ UNCHANGED <<pc, session, sessionQueue, globalFree, globalQueue, inFlight,
                   activeCalls, clock, cancelled, result, answer, log>>

ReleaseGlobal(c) ==
    /\ Proceed(c, "relGlobal", "relInFlight")
    /\ globalFree' = globalFree + 1
    /\ UNCHANGED <<pc, session, sessionFree, sessionQueue, globalQueue, inFlight,
                   activeCalls, clock, cancelled, result, answer, log>>

Deregister(c) ==
    /\ Proceed(c, "relInFlight", "relActive")
    /\ inFlight' = inFlight \ {c}
    /\ UNCHANGED <<pc, session, sessionFree, sessionQueue, globalFree, globalQueue,
                   activeCalls, clock, cancelled, result, answer, log>>

EndCall(c) ==
    /\ Proceed(c, "relActive", "ended")
    /\ activeCalls' = [activeCalls EXCEPT ![session[c]] = @ - 1]
    /\ UNCHANGED <<pc, session, sessionFree, sessionQueue, globalFree, globalQueue,
                   inFlight, clock, cancelled, result, answer, log>>

-----------------------------------------------------------------------------
\* 5. The deadline, and 6. the outcome.

\* The deadline is `started + deadline`, and `started` is read once both permits are
\* held. Once the future is gone and the registry entry removed nobody reads it again.
Timed(c) == /\ HasDeadline
            /\ pc[c] \in {"register", "begin", "spawn", "running"} \/ c \in inFlight

DeadlinePasses(c) ==
    /\ Timed(c) /\ clock[c] = "open"
    /\ clock' = [clock EXCEPT ![c] = "past"]
    /\ UNCHANGED <<pc, work, session, sessionFree, sessionQueue, globalFree, globalQueue,
                   inFlight, activeCalls, cancelled, result, answer, log>>

GracePasses(c) ==
    /\ Timed(c) /\ clock[c] = "past"
    /\ clock' = [clock EXCEPT ![c] = "overdue"]
    /\ UNCHANGED <<pc, work, session, sessionFree, sessionQueue, globalFree, globalQueue,
                   inFlight, activeCalls, cancelled, result, answer, log>>

\* What the future returns for a closure that ended with r: an internal error at or
\* past the deadline is reported as the deadline, a panic as an internal error.
CallOutcome(c, r) ==
    CASE r = "internal" /\ clock[c] # "open" -> "deadline_exceeded"
      [] r = "panic" -> "internal"
      [] OTHER -> r

\* [mutant] The future answers once the result is there, before it is given back.
FinishOnResult(c) ==
    /\ work[c] \in {"relSession", "relGlobal", "relInFlight", "relActive", "ended"}
    /\ Go(c, "running", "done")
    /\ answer' = [answer EXCEPT ![c] = CallOutcome(c, result[c])]
    /\ cancelled' = cancelled \union {c}
    /\ UNCHANGED <<work, session, sessionFree, sessionQueue, globalFree, globalQueue,
                   inFlight, activeCalls, clock, result, log>>

\* The join handle resolves once the closure and everything it held is dropped. The
\* future returns, and its CancelOnDrop guard with it.
Finish(c) ==
    /\ work[c] = "ended"
    /\ Go(c, "running", "done")
    /\ answer' = [answer EXCEPT ![c] = CallOutcome(c, result[c])]
    /\ cancelled' = cancelled \union {c}
    /\ UNCHANGED <<work, session, sessionFree, sessionQueue, globalFree, globalQueue,
                   inFlight, activeCalls, clock, result, log>>

\* [mutants] The detached call's permits are dropped with its future,
GiveUpReleasing(c) ==
    /\ clock[c] = "overdue"
    /\ Go(c, "running", "done")
    /\ answer' = [answer EXCEPT ![c] = "deadline_exceeded"]
    /\ cancelled' = cancelled \union {c}
    /\ globalFree' = globalFree + 1
    /\ sessionFree' = [sessionFree EXCEPT ![session[c]] = @ + 1]
    /\ UNCHANGED <<work, session, sessionQueue, globalQueue, inFlight, activeCalls, clock,
                   result, log>>

\* its in-flight entry is,
GiveUpForgetting(c) ==
    /\ clock[c] = "overdue"
    /\ Go(c, "running", "done")
    /\ answer' = [answer EXCEPT ![c] = "deadline_exceeded"]
    /\ cancelled' = cancelled \union {c}
    /\ inFlight' = inFlight \ {c}
    /\ UNCHANGED <<work, session, sessionFree, sessionQueue, globalFree, globalQueue,
                   activeCalls, clock, result, log>>

\* its budget is not cancelled,
GiveUpUncancelled(c) ==
    /\ clock[c] = "overdue"
    /\ Go(c, "running", "done")
    /\ answer' = [answer EXCEPT ![c] = "deadline_exceeded"]
    /\ UNCHANGED <<work, session, sessionFree, sessionQueue, globalFree, globalQueue,
                   inFlight, activeCalls, clock, cancelled, result, log>>

\* the future writes an audit entry too,
GiveUpLogging(c) ==
    /\ clock[c] = "overdue"
    /\ Go(c, "running", "done")
    /\ answer' = [answer EXCEPT ![c] = "deadline_exceeded"]
    /\ cancelled' = cancelled \union {c}
    /\ log' = [log EXCEPT ![c] = Append(@, "deadline_exceeded")]
    /\ UNCHANGED <<work, session, sessionFree, sessionQueue, globalFree, globalQueue,
                   inFlight, activeCalls, clock, result>>

\* or it waits for the work all the same.
GiveUpJoining(c) ==
    /\ work[c] = "ended"
    /\ clock[c] = "overdue"
    /\ Go(c, "running", "done")
    /\ answer' = [answer EXCEPT ![c] = "deadline_exceeded"]
    /\ cancelled' = cancelled \union {c}
    /\ UNCHANGED <<work, session, sessionFree, sessionQueue, globalFree, globalQueue,
                   inFlight, activeCalls, clock, result, log>>

\* Past deadline + grace the future gives up: it cancels the budget, answers, and
\* leaves the work running, counted as overdue. (`select!` may also take this branch
\* when the work has just ended.)
GiveUp(c) ==
    /\ clock[c] = "overdue"
    /\ Go(c, "running", "done")
    /\ answer' = [answer EXCEPT ![c] = "deadline_exceeded"]
    /\ cancelled' = cancelled \union {c}
    /\ UNCHANGED <<work, session, sessionFree, sessionQueue, globalFree, globalQueue,
                   inFlight, activeCalls, clock, result, log>>

\* The client goes away: the future is dropped at whichever await it is. It leaves the
\* queue it waits in and drops the permit it holds; once the work is spawned the
\* guard cancels the budget, and the work goes on by itself.
ClientGone(c) ==
    /\ pc[c] \in {"gate", "waitSession", "waitGlobal", "running", "refused"}
    /\ pc' = [pc EXCEPT ![c] = "done"]
    /\ answer' = [answer EXCEPT ![c] = "gone"]
    /\ sessionQueue' = IF pc[c] = "waitSession"
                       THEN [sessionQueue EXCEPT ![session[c]] = Leave(@, c)]
                       ELSE sessionQueue
    /\ globalQueue' = IF pc[c] = "waitGlobal" THEN Leave(globalQueue, c) ELSE globalQueue
    /\ sessionFree' = IF pc[c] = "waitGlobal"
                      THEN [sessionFree EXCEPT ![session[c]] = @ + 1]
                      ELSE sessionFree
    /\ cancelled' = IF pc[c] = "running" THEN cancelled \union {c} ELSE cancelled
    /\ UNCHANGED <<work, session, globalFree, inFlight, activeCalls, clock, result, log>>

-----------------------------------------------------------------------------

FutureStep(c) ==
    \/ RefuseForMemory(c) \/ QueueForSession(c) \/ TakeSession(c) \/ TakeGlobal(c)
    \/ TimeOutSession(c) \/ TimeOutGlobal(c) \/ LogRefusal(c)
    \/ Register(c) \/ BeginCall(c) \/ SpawnBlocking(c) \/ Finish(c) \/ GiveUp(c)

\* The steps of the blocking thread around the tool's own work.
ThreadStep(c) ==
    \/ WorkStarts(c) \/ LogWork(c) \/ ReleaseSession(c) \/ ReleaseGlobal(c)
    \/ Deregister(c) \/ EndCall(c)

ClockStep(c) == DeadlinePasses(c) \/ GracePasses(c)

Next == \E c \in Calls : \/ Arrive(c) \/ FutureStep(c) \/ ThreadStep(c) \/ WorkReturns(c)
                         \/ ClockStep(c) \/ ClientGone(c)

\* The runtime polls every future, the pool runs every closure it was given, and time
\* passes. Nothing makes a tool's work return, a client leave or a call arrive.
RuntimeFairness == \A c \in Calls : /\ WF_vars(FutureStep(c))
                                    /\ WF_vars(ThreadStep(c))
                                    /\ WF_vars(ClockStep(c))

Spec == Init /\ [][Next]_vars /\ RuntimeFairness

\* Work that checks its budget (resource::checkpoint) returns once it is spent.
Cooperative == \A c \in Calls : WF_vars(Spent(c) /\ WorkReturns(c))

-----------------------------------------------------------------------------
(* What the governor promises. *)

TypeOK ==
    /\ pc \in [Calls -> FutureStates]
    /\ work \in [Calls -> WorkStates]
    /\ session \in [Calls -> Sessions]
    /\ sessionFree \in [Sessions -> 0..SessionConcurrency]
    /\ sessionQueue \in [Sessions -> Seq(Calls)]
    /\ globalFree \in 0..Capacity
    /\ globalQueue \in Seq(Calls)
    /\ inFlight \subseteq Calls
    /\ activeCalls \in [Sessions -> Nat]
    /\ clock \in [Calls -> Clocks]
    /\ cancelled \subseteq Calls
    /\ result \in [Calls -> Results \union {"none"}]
    /\ answer \in [Calls -> Answers]
    /\ log \in [Calls -> Seq(Outcomes)]

\* No permit is lost or released twice, whichever of a timeout, a departure, a panic, a
\* deadline or a normal end takes a call out of the governor.
PermitsConserved ==
    /\ globalFree + Cardinality({c \in Calls : HoldsGlobal(c)}) = Capacity
    /\ \A s \in Sessions :
          sessionFree[s] + Cardinality({c \in Calls : HoldsSession(c) /\ session[c] = s})
              = SessionConcurrency

\* Work still on a thread, detached or not.
OnThread(c) == work[c] \in {"queued", "running", "audit"}

\* Detached and abandoned work counts: never more of it on threads than permits, in all
\* and per session.
WorkBounded ==
    /\ Cardinality({c \in Calls : OnThread(c)}) <= Capacity
    /\ \A s \in Sessions :
          Cardinality({c \in Calls : OnThread(c) /\ session[c] = s}) <= SessionConcurrency

\* The registry and the active-call counts, which /health, the memory gate and the
\* session cleanup read, cover all work on threads and nothing that has ended.
BooksBalance ==
    /\ \A c \in Calls : OnThread(c) => c \in inFlight
    /\ inFlight \subseteq {c \in Calls : pc[c] \in {"begin", "spawn"} \/ HoldsActive(c)}
    /\ \A s \in Sessions :
          activeCalls[s] = Cardinality({c \in Calls : HoldsActive(c) /\ session[c] = s})

\* The semaphores' queues hold exactly the calls that wait, once each: a caller that
\* timed out or left never stands in front of the others.
QueuesAreWaiters ==
    /\ \A s \in Sessions :
          /\ ToSet(sessionQueue[s]) = {c \in Calls : pc[c] = "waitSession" /\ session[c] = s}
          /\ IsInjective(sessionQueue[s])
    /\ ToSet(globalQueue) = {c \in Calls : pc[c] = "waitGlobal"}
    /\ IsInjective(globalQueue)

\* Work nobody waits for any more has been told to stop.
AbandonedWorkIsCancelled ==
    \A c \in Calls : pc[c] = "done" /\ OnThread(c) => c \in cancelled

\* A caller told how its work ended finds nothing of its call held any more, so its next
\* call is not refused as busy on account of this one.
AnsweredHoldsNothing ==
    \A c \in Calls : pc[c] = "done" /\ answer[c] \notin {"deadline_exceeded", "gone"} =>
        ~HoldsSession(c) /\ ~HoldsGlobal(c) /\ ~HoldsActive(c) /\ c \notin inFlight

\* One audit entry per call: never two, and one whenever work ran to its end or a caller
\* was told of a refusal.
OneAuditEntry ==
    \A c \in Calls :
        /\ Len(log[c]) <= 1
        /\ work[c] = "ended" => Len(log[c]) = 1
        /\ pc[c] = "done" /\ answer[c] \in Refusals => Len(log[c]) = 1

\* The entry and the caller agree: success is audited as success, a refusal before the
\* work as itself and never for work that ran, and only a call whose client left is
\* audited as cancelled.
AuditAgreesWithAnswer ==
    \A c \in Calls : pc[c] = "done" /\ log[c] # <<>> =>
        LET entry == Head(log[c]) IN
        /\ answer[c] = "ok" => entry = "ok"
        /\ entry = "ok" => answer[c] \in {"ok", "deadline_exceeded", "gone"}
        /\ answer[c] \in Refusals <=> entry \in Refusals
        /\ answer[c] \in Refusals => entry = answer[c] /\ work[c] = "none"
        /\ entry = "cancelled" => answer[c] = "gone"

\* Every caller gets an answer, although nothing makes the work stop: the queue wait and
\* the deadline bound its wait.
EveryCallAnswered == \A c \in Calls : pc[c] = "gate" ~> pc[c] = "done"

\* Cooperative work of an abandoned or late call ends and gives everything back.
AbandonedWorkEnds ==
    Cooperative => \A c \in Calls : (pc[c] = "done" /\ OnThread(c)) ~> work[c] = "ended"
=============================================================================
