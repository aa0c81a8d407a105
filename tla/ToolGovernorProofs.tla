------------------------- MODULE ToolGovernorProofs -------------------------
(***************************************************************************)
(* Proofs that the safety properties of ToolGovernor hold, that the audit  *)
(* entry of a call agrees with what its caller was told, and that the      *)
(* governor implements GovernedWork, for any set of calls and sessions and *)
(* any number of permits.                                                  *)
(***************************************************************************)
EXTENDS GovernorRefinement, CollectionTheorems

-----------------------------------------------------------------------------
(* The inductive invariant: types, then what each call's own variables say of *)
(* each other, then the queues, then the counts.                              *)

Typed ==
    /\ pc \in [Calls -> FutureStates]
    /\ work \in [Calls -> WorkStates]
    /\ session \in [Calls -> Sessions]
    /\ sessionFree \in [Sessions -> Nat]
    /\ globalFree \in Nat
    /\ inFlight \subseteq Calls
    /\ activeCalls \in [Sessions -> Int]
    /\ clock \in [Calls -> Clocks]
    /\ cancelled \subseteq Calls
    /\ result \in [Calls -> Results \union {"none"}]
    /\ answer \in [Calls -> Answers]
    /\ log \in [Calls -> Seq(Outcomes)]

\* The work has been audited where it ended, or a refusal by the future.
Audited(c) == \/ work[c] \in {"relSession", "relGlobal", "relInFlight", "relActive", "ended"}
              \/ pc[c] = "done" /\ answer[c] \in Refusals

Registered(c) ==
    \/ pc[c] \in {"begin", "spawn"}
    \/ work[c] \in {"queued", "running", "audit", "relSession", "relGlobal", "relInFlight"}

Consistent(c) ==
    /\ work[c] # "none" => pc[c] \in {"running", "done"}
    /\ pc[c] = "running" => work[c] # "none"
    /\ work[c] \notin {"none", "queued", "running"} => result[c] \in Results
    /\ pc[c] = "refused" => answer[c] \in Refusals
    /\ answer[c] \in Refusals => pc[c] \in {"refused", "done"} /\ work[c] = "none"
    /\ c \in inFlight <=> Registered(c)
    /\ pc[c] = "done" /\ OnThread(c) => c \in cancelled
    /\ pc[c] = "done" /\ answer[c] \notin {"deadline_exceeded", "gone"} =>
          work[c] \in {"none", "ended"}
    /\ Len(log[c]) = IF Audited(c) THEN 1 ELSE 0

SessionWaiters(s) == {c \in Calls : pc[c] = "waitSession" /\ session[c] = s}
GlobalWaiters == {c \in Calls : pc[c] = "waitGlobal"}

Queued ==
    /\ sessionQueue \in [Sessions -> Seq(Calls)]
    /\ \A s \in Sessions : /\ IsQueue(sessionQueue[s], Calls)
                           /\ ToSet(sessionQueue[s]) = SessionWaiters(s)
    /\ IsQueue(globalQueue, Calls)
    /\ ToSet(globalQueue) = GlobalWaiters

SessionHolders(s) == {c \in Calls : HoldsSession(c) /\ session[c] = s}
GlobalHolders == {c \in Calls : HoldsGlobal(c)}
ActiveHolders(s) == {c \in Calls : HoldsActive(c) /\ session[c] = s}

Counted ==
    /\ globalFree + Cardinality(GlobalHolders) = Capacity
    /\ \A s \in Sessions :
          /\ sessionFree[s] + Cardinality(SessionHolders(s)) = SessionConcurrency
          /\ activeCalls[s] = Cardinality(ActiveHolders(s))

IInv == Typed /\ (\A c \in Calls : Consistent(c)) /\ Queued /\ Counted

CallStep(c) == \/ Arrive(c) \/ FutureStep(c) \/ ThreadStep(c) \/ WorkReturns(c)
               \/ ClockStep(c) \/ ClientGone(c)

\* The types are kept, and what a step by one call does to its own variables.
LEMMA TypedStep ==
    ASSUME Typed, \A d \in Calls : Consistent(d), NEW c \in Calls, CallStep(c)
    PROVE  Typed'
<1> USE DEF Typed, FutureStates, WorkStates, Clocks, Go, Proceed
<1>1. CASE Arrive(c)
  BY <1>1 DEF Arrive
<1>2. CASE RefuseForMemory(c)
  BY <1>2 DEF RefuseForMemory, Refuse, Answers, Refusals
<1>3. CASE QueueForSession(c)
  BY <1>3 DEF QueueForSession
<1>4. CASE TakeSession(c)
  BY <1>4 DEF TakeSession, CanTakeSession
<1>5. CASE TakeGlobal(c)
  BY <1>5 DEF TakeGlobal, CanTakeGlobal
<1>6. CASE TimeOutSession(c)
  BY <1>6 DEF TimeOutSession, Refuse, Answers, Refusals
<1>7. CASE TimeOutGlobal(c)
  BY <1>7 DEF TimeOutGlobal, Refuse, Answers, Refusals
<1>8. CASE LogRefusal(c)
  <2>1. answer[c] \in Outcomes /\ log[c] \in Seq(Outcomes)
    BY <1>8 DEF LogRefusal, Consistent, Outcomes
  <2>2. Append(log[c], answer[c]) \in Seq(Outcomes)
    BY <2>1, AppendProperties
  <2> QED BY <1>8, <2>2 DEF LogRefusal
<1>9. CASE Register(c)
  BY <1>9 DEF Register
<1>10. CASE BeginCall(c)
  BY <1>10 DEF BeginCall
<1>11. CASE SpawnBlocking(c)
  BY <1>11 DEF SpawnBlocking
<1>12. CASE Finish(c)
  <2>1. CallOutcome(c, result[c]) \in Answers
    BY <1>12 DEF Finish, CallOutcome, Consistent, Answers, Results
  <2> QED BY <1>12, <2>1 DEF Finish
<1>13. CASE GiveUp(c)
  BY <1>13 DEF GiveUp, Answers, Results
<1>14. CASE WorkStarts(c)
  BY <1>14 DEF WorkStarts
<1>15. CASE LogWork(c)
  <2>1. AuditOutcome(c) \in Outcomes /\ log[c] \in Seq(Outcomes)
    BY <1>15 DEF LogWork, AuditOutcome, Consistent, Outcomes, Results
  <2>2. Append(log[c], AuditOutcome(c)) \in Seq(Outcomes)
    BY <2>1, AppendProperties
  <2> QED BY <1>15, <2>2 DEF LogWork
<1>16. CASE ReleaseSession(c)
  BY <1>16 DEF ReleaseSession
<1>17. CASE ReleaseGlobal(c)
  BY <1>17 DEF ReleaseGlobal
<1>18. CASE Deregister(c)
  BY <1>18 DEF Deregister
<1>19. CASE EndCall(c)
  BY <1>19 DEF EndCall
<1>20. CASE WorkReturns(c)
  <2>1. \A r \in Endings : ClosureResult(c, r) \in Results
    BY SettingsAssumption DEF ClosureResult, Results
  <2> QED BY <1>20, <2>1 DEF WorkReturns
<1>21. CASE DeadlinePasses(c)
  BY <1>21 DEF DeadlinePasses
<1>22. CASE GracePasses(c)
  BY <1>22 DEF GracePasses
<1>23. CASE ClientGone(c)
  BY <1>23 DEF ClientGone, Answers
<1> QED
  BY <1>1, <1>2, <1>3, <1>4, <1>5, <1>6, <1>7, <1>8, <1>9, <1>10, <1>11, <1>12, <1>13,
     <1>14, <1>15, <1>16, <1>17, <1>18, <1>19, <1>20, <1>21, <1>22, <1>23
     DEF CallStep, FutureStep, ThreadStep, ClockStep

\* A step keeps every call's own variables consistent.
LEMMA ConsistentStep ==
    ASSUME Typed, \A e \in Calls : Consistent(e), NEW c \in Calls, CallStep(c), NEW d \in Calls
    PROVE  Consistent(d)'
<1> USE DEF Typed, Consistent, Registered, Audited, OnThread, FutureStates, WorkStates,
            Refusals, Go, Proceed
<1>1. CASE Arrive(c)
  BY <1>1 DEF Arrive
<1>2. CASE RefuseForMemory(c)
  BY <1>2 DEF RefuseForMemory, Refuse
<1>3. CASE QueueForSession(c)
  BY <1>3 DEF QueueForSession
<1>4. CASE TakeSession(c)
  BY <1>4 DEF TakeSession
<1>5. CASE TakeGlobal(c)
  BY <1>5 DEF TakeGlobal
<1>6. CASE TimeOutSession(c)
  BY <1>6 DEF TimeOutSession, Refuse
<1>7. CASE TimeOutGlobal(c)
  BY <1>7 DEF TimeOutGlobal, Refuse
<1>8. CASE LogRefusal(c)
  <2>1. Len(Append(log[c], answer[c])) = Len(log[c]) + 1
    BY <1>8, AppendProperties DEF LogRefusal, Outcomes
  <2>2. log'[d] = IF d = c THEN Append(log[c], answer[c]) ELSE log[d]
    BY <1>8 DEF LogRefusal
  <2>3. Len(log[c]) = 0
    BY <1>8 DEF LogRefusal
  <2>4. Len(log'[d]) = IF d = c THEN 1 ELSE Len(log[d])
    BY <2>1, <2>2, <2>3
  <2> QED BY <1>8, <2>4 DEF LogRefusal
<1>9. CASE Register(c)
  BY <1>9 DEF Register
<1>10. CASE BeginCall(c)
  BY <1>10 DEF BeginCall
<1>11. CASE SpawnBlocking(c)
  BY <1>11 DEF SpawnBlocking
<1>12. CASE Finish(c)
  BY <1>12 DEF Finish, CallOutcome, Results
<1>13. CASE GiveUp(c)
  BY <1>13 DEF GiveUp
<1>14. CASE WorkStarts(c)
  BY <1>14 DEF WorkStarts
<1>15. CASE LogWork(c)
  <2>1. AuditOutcome(c) \in Outcomes
    BY <1>15 DEF LogWork, AuditOutcome, Outcomes, Results
  <2>2. Len(Append(log[c], AuditOutcome(c))) = Len(log[c]) + 1
    BY <2>1, AppendProperties
  <2>3. log'[d] = IF d = c THEN Append(log[c], AuditOutcome(c)) ELSE log[d]
    BY <1>15 DEF LogWork
  <2>4. Len(log[c]) = 0
    BY <1>15 DEF LogWork
  <2>5. Len(log'[d]) = IF d = c THEN 1 ELSE Len(log[d])
    BY <2>2, <2>3, <2>4
  <2> QED BY <1>15, <2>5 DEF LogWork
<1>16. CASE ReleaseSession(c)
  BY <1>16 DEF ReleaseSession
<1>17. CASE ReleaseGlobal(c)
  BY <1>17 DEF ReleaseGlobal
<1>18. CASE Deregister(c)
  BY <1>18 DEF Deregister
<1>19. CASE EndCall(c)
  BY <1>19 DEF EndCall
<1>20. CASE WorkReturns(c)
  <2>1. \A r \in Endings : ClosureResult(c, r) \in Results
    BY SettingsAssumption DEF ClosureResult, Results
  <2> QED BY <1>20, <2>1 DEF WorkReturns
<1>21. CASE DeadlinePasses(c)
  BY <1>21 DEF DeadlinePasses
<1>22. CASE GracePasses(c)
  BY <1>22 DEF GracePasses
<1>23. CASE ClientGone(c)
  BY <1>23 DEF ClientGone
<1> QED
  BY <1>1, <1>2, <1>3, <1>4, <1>5, <1>6, <1>7, <1>8, <1>9, <1>10, <1>11, <1>12, <1>13,
     <1>14, <1>15, <1>16, <1>17, <1>18, <1>19, <1>20, <1>21, <1>22, <1>23
     DEF CallStep, FutureStep, ThreadStep, ClockStep

\* The queues still hold the waiters when at most one session's queue changed, to one
\* of its waiters.
LEMMA QueueReplaced ==
    ASSUME Queued, NEW t \in Sessions, NEW q, IsQueue(q, Calls),
           sessionQueue' = [sessionQueue EXCEPT ![t] = q],
           ToSet(q) = SessionWaiters(t)',
           \A s \in Sessions : s # t => SessionWaiters(s)' = SessionWaiters(s),
           IsQueue(globalQueue', Calls), ToSet(globalQueue') = GlobalWaiters'
    PROVE  Queued'
<1>1. q \in Seq(Calls)
  BY DEF IsQueue
<1>2. sessionQueue' \in [Sessions -> Seq(Calls)]
  BY <1>1 DEF Queued
<1>3. ASSUME NEW s \in Sessions
      PROVE  IsQueue(sessionQueue'[s], Calls) /\ ToSet(sessionQueue'[s]) = SessionWaiters(s)'
  <2>1. CASE s = t
    <3>1. sessionQueue'[s] = q
      BY <2>1 DEF Queued
    <3> QED BY <2>1, <3>1
  <2>2. CASE s # t
    <3>1. sessionQueue'[s] = sessionQueue[s]
      BY <2>2 DEF Queued
    <3>2. IsQueue(sessionQueue[s], Calls) /\ ToSet(sessionQueue[s]) = SessionWaiters(s)
      BY DEF Queued
    <3> QED BY <2>2, <3>1, <3>2
  <2> QED BY <2>1, <2>2
<1> QED BY <1>2, <1>3 DEF Queued

\* Or when only the global one changed.
LEMMA GlobalQueueReplaced ==
    ASSUME Queued, sessionQueue' = sessionQueue,
           \A s \in Sessions : SessionWaiters(s)' = SessionWaiters(s),
           IsQueue(globalQueue', Calls), ToSet(globalQueue') = GlobalWaiters'
    PROVE  Queued'
<1>1. ASSUME NEW s \in Sessions
      PROVE  IsQueue(sessionQueue'[s], Calls) /\ ToSet(sessionQueue'[s]) = SessionWaiters(s)'
  <2>1. IsQueue(sessionQueue[s], Calls) /\ ToSet(sessionQueue[s]) = SessionWaiters(s)
    BY DEF Queued
  <2> QED BY <2>1
<1> QED BY <1>1 DEF Queued

\* A waiter for its session's permit that stops waiting leaves the queue,
LEMMA LeavesSession ==
    ASSUME Typed, Queued, NEW c \in Calls, NEW to \in {"refused", "done"},
           pc[c] = "waitSession", pc' = [pc EXCEPT ![c] = to],
           sessionQueue' = [sessionQueue EXCEPT ![session[c]] = Leave(@, c)],
           UNCHANGED <<globalQueue, session>>
    PROVE  Queued'
<1> DEFINE q == sessionQueue[session[c]]
<1>1. /\ IsQueue(q, Calls) /\ ToSet(q) = SessionWaiters(session[c])
      /\ c \in ToSet(q) /\ session[c] \in Sessions
  BY DEF Queued, SessionWaiters, Typed
<1>2. IsQueue(Leave(q, c), Calls) /\ ToSet(Leave(q, c)) = ToSet(q) \ {c}
  BY <1>1, QueueLeave DEF Leave
<1>3. \A s \in Sessions : SessionWaiters(s)' =
          IF s = session[c] THEN SessionWaiters(s) \ {c} ELSE SessionWaiters(s)
  BY DEF SessionWaiters, Typed
<1>4. GlobalWaiters' = GlobalWaiters /\ IsQueue(globalQueue', Calls)
      /\ ToSet(globalQueue') = GlobalWaiters
  <2>1. GlobalWaiters' = GlobalWaiters
    BY DEF GlobalWaiters, Typed
  <2>2. IsQueue(globalQueue, Calls) /\ ToSet(globalQueue) = GlobalWaiters
    BY DEF Queued
  <2> QED BY <2>1, <2>2
<1>5. sessionQueue' = [sessionQueue EXCEPT ![session[c]] = Leave(q, c)]
  OBVIOUS
<1> HIDE DEF q
<1> QED BY <1>1, <1>2, <1>3, <1>4, <1>5, QueueReplaced

\* and so does one for the global permit.
LEMMA LeavesGlobal ==
    ASSUME Typed, Queued, NEW c \in Calls, NEW to \in {"refused", "done"},
           pc[c] = "waitGlobal", pc' = [pc EXCEPT ![c] = to],
           globalQueue' = Leave(globalQueue, c),
           UNCHANGED <<sessionQueue, session>>
    PROVE  Queued'
<1>1. /\ IsQueue(globalQueue, Calls) /\ ToSet(globalQueue) = GlobalWaiters
      /\ c \in ToSet(globalQueue)
  BY DEF Queued, GlobalWaiters
<1>2. /\ IsQueue(Leave(globalQueue, c), Calls)
      /\ ToSet(Leave(globalQueue, c)) = ToSet(globalQueue) \ {c}
  BY <1>1, QueueLeave DEF Leave
<1>3. GlobalWaiters' = GlobalWaiters \ {c}
  BY DEF GlobalWaiters, Typed
<1>4. \A s \in Sessions : SessionWaiters(s)' = SessionWaiters(s)
  BY DEF SessionWaiters, Typed
<1> QED BY <1>1, <1>2, <1>3, <1>4, GlobalQueueReplaced

\* The queues hold the calls that wait: those that come are appended, those that are served
\* leave at the head, those that time out or go away leave from where they stand.
LEMMA QueuedStep ==
    ASSUME Typed, Queued, NEW c \in Calls, CallStep(c)
    PROVE  Queued'
<1> DEFINE Keeps == /\ UNCHANGED <<sessionQueue, globalQueue, session>>
                    /\ \A d \in Calls : /\ pc'[d] = "waitSession" <=> pc[d] = "waitSession"
                                        /\ pc'[d] = "waitGlobal" <=> pc[d] = "waitGlobal"
<1>1. CASE Keeps
  <2>1. GlobalWaiters' = GlobalWaiters /\ \A s \in Sessions : SessionWaiters(s)' = SessionWaiters(s)
    BY <1>1 DEF GlobalWaiters, SessionWaiters
  <2>2. IsQueue(globalQueue, Calls) /\ ToSet(globalQueue) = GlobalWaiters
    BY DEF Queued
  <2> QED BY <1>1, <2>1, <2>2, GlobalQueueReplaced
<1>2. CASE QueueForSession(c)
  <2> DEFINE q == sessionQueue[session[c]]
  <2>1. /\ IsQueue(q, Calls) /\ ToSet(q) = SessionWaiters(session[c])
        /\ c \notin SessionWaiters(session[c]) /\ session[c] \in Sessions
    BY <1>2 DEF QueueForSession, Go, Queued, SessionWaiters, Typed
  <2>2. IsQueue(Append(q, c), Calls) /\ ToSet(Append(q, c)) = ToSet(q) \union {c}
    BY <2>1, QueueAppend
  <2>3. \A s \in Sessions : SessionWaiters(s)' =
            IF s = session[c] THEN SessionWaiters(s) \union {c} ELSE SessionWaiters(s)
    BY <1>2 DEF QueueForSession, Go, SessionWaiters, Typed
  <2>4. GlobalWaiters' = GlobalWaiters
    BY <1>2 DEF QueueForSession, Go, GlobalWaiters, Typed
  <2>5. globalQueue' = globalQueue /\ sessionQueue' = [sessionQueue EXCEPT ![session[c]] = Append(q, c)]
    BY <1>2 DEF QueueForSession
  <2>6. IsQueue(globalQueue, Calls) /\ ToSet(globalQueue) = GlobalWaiters
    BY DEF Queued
  <2> HIDE DEF q
  <2> QED BY <2>1, <2>2, <2>3, <2>4, <2>5, <2>6, QueueReplaced
<1>3. CASE TakeSession(c)
  <2> DEFINE q == sessionQueue[session[c]]
  <2>1. /\ IsQueue(q, Calls) /\ ToSet(q) = SessionWaiters(session[c])
        /\ q # <<>> /\ Head(q) = c /\ session[c] \in Sessions
    BY <1>3 DEF TakeSession, CanTakeSession, First, Go, Queued, Typed
  <2>2. IsQueue(Tail(q), Calls) /\ ToSet(Tail(q)) = ToSet(q) \ {c}
    BY <2>1, QueueTail
  <2>3. IsQueue(globalQueue, Calls) /\ ToSet(globalQueue) = GlobalWaiters /\ c \notin GlobalWaiters
    BY <1>3 DEF TakeSession, Go, Queued, GlobalWaiters
  <2>4. /\ IsQueue(Append(globalQueue, c), Calls)
        /\ ToSet(Append(globalQueue, c)) = ToSet(globalQueue) \union {c}
    BY <2>3, QueueAppend
  <2>5. \A s \in Sessions : SessionWaiters(s)' =
            IF s = session[c] THEN SessionWaiters(s) \ {c} ELSE SessionWaiters(s)
    BY <1>3 DEF TakeSession, Go, SessionWaiters, Typed
  <2>6. GlobalWaiters' = GlobalWaiters \union {c}
    BY <1>3 DEF TakeSession, Go, GlobalWaiters, Typed
  <2>7. /\ globalQueue' = Append(globalQueue, c)
        /\ sessionQueue' = [sessionQueue EXCEPT ![session[c]] = Tail(q)]
    BY <1>3 DEF TakeSession
  <2> HIDE DEF q
  <2> QED BY <2>1, <2>2, <2>3, <2>4, <2>5, <2>6, <2>7, QueueReplaced
<1>4. CASE TakeGlobal(c)
  <2>1. /\ IsQueue(globalQueue, Calls) /\ ToSet(globalQueue) = GlobalWaiters
        /\ globalQueue # <<>> /\ Head(globalQueue) = c
    BY <1>4 DEF TakeGlobal, CanTakeGlobal, First, Queued
  <2>2. /\ IsQueue(Tail(globalQueue), Calls)
        /\ ToSet(Tail(globalQueue)) = ToSet(globalQueue) \ {c}
    BY <2>1, QueueTail
  <2>3. GlobalWaiters' = GlobalWaiters \ {c}
    BY <1>4 DEF TakeGlobal, Go, GlobalWaiters, Typed
  <2>4. \A s \in Sessions : SessionWaiters(s)' = SessionWaiters(s)
    BY <1>4 DEF TakeGlobal, Go, SessionWaiters, Typed
  <2>5. globalQueue' = Tail(globalQueue) /\ sessionQueue' = sessionQueue
    BY <1>4 DEF TakeGlobal
  <2> QED BY <2>1, <2>2, <2>3, <2>4, <2>5, GlobalQueueReplaced
<1>5. CASE TimeOutSession(c)
  BY <1>5, LeavesSession DEF TimeOutSession, Go
<1>6. CASE TimeOutGlobal(c)
  BY <1>6, LeavesGlobal DEF TimeOutGlobal, Go
<1>7. CASE ClientGone(c)
  <2>1. CASE pc[c] = "waitSession"
    BY <1>7, <2>1, LeavesSession DEF ClientGone
  <2>2. CASE pc[c] = "waitGlobal"
    BY <1>7, <2>2, LeavesGlobal DEF ClientGone
  <2>3. CASE pc[c] \notin {"waitSession", "waitGlobal"}
    BY <1>1, <1>7, <2>3 DEF ClientGone, Typed
  <2> QED BY <2>1, <2>2, <2>3
<1>8. ASSUME \/ Arrive(c) \/ RefuseForMemory(c) \/ LogRefusal(c) \/ Register(c)
             \/ BeginCall(c) \/ SpawnBlocking(c) \/ Finish(c) \/ GiveUp(c)
      PROVE  Keeps
  BY <1>8 DEF Arrive, RefuseForMemory, LogRefusal, Register, BeginCall, SpawnBlocking,
              Finish, GiveUp, Go, Typed
<1>9. ASSUME ThreadStep(c) \/ WorkReturns(c) \/ ClockStep(c)
      PROVE  Keeps
  BY <1>9 DEF ThreadStep, WorkStarts, LogWork, ReleaseSession, ReleaseGlobal, Deregister,
              EndCall, WorkReturns, ClockStep, DeadlinePasses, GracePasses
<1> QED
  BY <1>1, <1>2, <1>3, <1>4, <1>5, <1>6, <1>7, <1>8, <1>9 DEF CallStep, FutureStep

-----------------------------------------------------------------------------
(* The permits. A step moves one call; what it takes or gives back is what that *)
(* call holds more or less of.                                                  *)

Unit(b) == IF b THEN 1 ELSE 0

Moves(c) == /\ session' = session
            /\ \A d \in Calls : d # c => pc'[d] = pc[d] /\ work'[d] = work[d]

\* What the step of c does to the counters is what c holds before it less what c holds after.
Balanced(c) ==
    /\ Moves(c)
    /\ globalFree' = globalFree + Unit(HoldsGlobal(c)) - Unit(HoldsGlobal(c)')
    /\ \A s \in Sessions : s # session[c] =>
          sessionFree'[s] = sessionFree[s] /\ activeCalls'[s] = activeCalls[s]
    /\ sessionFree'[session[c]] =
          sessionFree[session[c]] + Unit(HoldsSession(c)) - Unit(HoldsSession(c)')
    /\ activeCalls'[session[c]] =
          activeCalls[session[c]] - Unit(HoldsActive(c)) + Unit(HoldsActive(c)')

\* The size of a set of calls that c joins or leaves.
LEMMA OneCounted ==
    ASSUME NEW H \in SUBSET Calls, NEW K \in SUBSET Calls, NEW c \in Calls,
           \A d \in Calls : d # c => (d \in H <=> d \in K)
    PROVE  /\ Cardinality(H) \in Nat /\ Cardinality(K) \in Nat
           /\ Cardinality(K) = Cardinality(H) + Unit(c \in K) - Unit(c \in H)
<1>1. IsFiniteSet(H) /\ IsFiniteSet(K)
  BY CallsAssumption, FS_Subset
<1>2. Cardinality(H) \in Nat /\ Cardinality(K) \in Nat
  BY <1>1, FS_CardinalityType
<1>3. CASE c \in K /\ c \notin H
  <2>1. K = H \union {c}
    BY <1>3
  <2>2. Cardinality(K) = Cardinality(H) + 1
    BY <1>1, <1>3, <2>1, FS_AddElement
  <2> QED BY <1>2, <1>3, <2>2 DEF Unit
<1>4. CASE c \notin K /\ c \in H
  <2>1. K = H \ {c}
    BY <1>4
  <2>2. Cardinality(K) = Cardinality(H) - 1
    BY <1>1, <1>4, <2>1, FS_RemoveElement
  <2> QED BY <1>2, <1>4, <2>2 DEF Unit
<1>5. CASE c \in K <=> c \in H
  <2>1. K = H
    BY <1>5
  <2> QED BY <1>2, <1>5, <2>1 DEF Unit
<1> QED BY <1>2, <1>3, <1>4, <1>5

\* A balanced step keeps the counts.
LEMMA BalancedKeepsCounts ==
    ASSUME Typed, Counted, NEW c \in Calls, Balanced(c)
    PROVE  Counted'
<1>1. globalFree' + Cardinality(GlobalHolders') = Capacity
  <2>1. \A d \in Calls : d # c => (d \in GlobalHolders <=> d \in GlobalHolders')
    BY DEF Balanced, Moves, GlobalHolders, HoldsGlobal
  <2>2. /\ (c \in GlobalHolders <=> HoldsGlobal(c)) /\ (c \in GlobalHolders' <=> HoldsGlobal(c)')
        /\ GlobalHolders \in SUBSET Calls /\ GlobalHolders' \in SUBSET Calls
    BY DEF GlobalHolders
  <2>3. /\ Cardinality(GlobalHolders) \in Nat /\ Cardinality(GlobalHolders') \in Nat
        /\ Cardinality(GlobalHolders') =
              Cardinality(GlobalHolders) + Unit(c \in GlobalHolders') - Unit(c \in GlobalHolders)
    BY <2>1, <2>2, OneCounted
  <2>4. globalFree' = globalFree + Unit(c \in GlobalHolders) - Unit(c \in GlobalHolders')
    BY <2>2 DEF Balanced, Unit
  <2>5. globalFree \in Nat /\ globalFree + Cardinality(GlobalHolders) = Capacity
    BY DEF Typed, Counted
  <2> QED BY <2>3, <2>4, <2>5, PermitsAssumption DEF Unit
<1>2. ASSUME NEW s \in Sessions
      PROVE  /\ sessionFree'[s] + Cardinality(SessionHolders(s)') = SessionConcurrency
             /\ activeCalls'[s] = Cardinality(ActiveHolders(s)')
  <2>1. session[c] \in Sessions
    BY DEF Typed
  <2>2. CASE s # session[c]
    <3>1. SessionHolders(s)' = SessionHolders(s) /\ ActiveHolders(s)' = ActiveHolders(s)
      BY <2>2 DEF Balanced, Moves, SessionHolders, HoldsSession, ActiveHolders, HoldsActive
    <3> QED BY <2>2, <3>1 DEF Balanced, Counted
  <2>3. CASE s = session[c]
    <3>1. \A d \in Calls : d # c => /\ d \in SessionHolders(s) <=> d \in SessionHolders(s)'
                                    /\ d \in ActiveHolders(s) <=> d \in ActiveHolders(s)'
      BY DEF Balanced, Moves, SessionHolders, HoldsSession, ActiveHolders, HoldsActive
    <3>2. /\ (c \in SessionHolders(s) <=> HoldsSession(c))
          /\ (c \in SessionHolders(s)' <=> HoldsSession(c)')
          /\ SessionHolders(s) \in SUBSET Calls /\ SessionHolders(s)' \in SUBSET Calls
      BY <2>3 DEF SessionHolders, Balanced, Moves
    <3>3. /\ (c \in ActiveHolders(s) <=> HoldsActive(c))
          /\ (c \in ActiveHolders(s)' <=> HoldsActive(c)')
          /\ ActiveHolders(s) \in SUBSET Calls /\ ActiveHolders(s)' \in SUBSET Calls
      BY <2>3 DEF ActiveHolders, Balanced, Moves
    <3>4. /\ Cardinality(SessionHolders(s)) \in Nat /\ Cardinality(SessionHolders(s)') \in Nat
          /\ Cardinality(SessionHolders(s)') = Cardinality(SessionHolders(s))
                + Unit(c \in SessionHolders(s)') - Unit(c \in SessionHolders(s))
      BY <3>1, <3>2, OneCounted
    <3>5. /\ Cardinality(ActiveHolders(s)) \in Nat /\ Cardinality(ActiveHolders(s)') \in Nat
          /\ Cardinality(ActiveHolders(s)') = Cardinality(ActiveHolders(s))
                + Unit(c \in ActiveHolders(s)') - Unit(c \in ActiveHolders(s))
      BY <3>1, <3>3, OneCounted
    <3>6. /\ sessionFree[s] \in Nat
          /\ sessionFree[s] + Cardinality(SessionHolders(s)) = SessionConcurrency
          /\ activeCalls[s] = Cardinality(ActiveHolders(s))
      BY DEF Typed, Counted
    <3>7. sessionFree'[s] =
              sessionFree[s] + Unit(c \in SessionHolders(s)) - Unit(c \in SessionHolders(s)')
      BY <2>3, <3>2 DEF Balanced, Unit
    <3>8. activeCalls'[s] =
              activeCalls[s] - Unit(c \in ActiveHolders(s)) + Unit(c \in ActiveHolders(s)')
      BY <2>3, <3>3 DEF Balanced, Unit
    <3> QED BY <3>4, <3>5, <3>6, <3>7, <3>8, PermitsAssumption DEF Unit
  <2> QED BY <2>2, <2>3
<1> QED BY <1>1, <1>2 DEF Counted

\* Every step is balanced: a permit or an active-call guard is taken or dropped only by the
\* steps at which the call starts or stops holding it.
LEMMA CallStepBalanced ==
    ASSUME Typed, NEW c \in Calls, Consistent(c), CallStep(c)
    PROVE  Balanced(c)
<1> USE DEF Typed, Balanced, Moves, Unit, HoldsGlobal, HoldsSession, HoldsActive, WorkStates,
            Consistent, Go, Proceed
<1>1. CASE Arrive(c)
  BY <1>1 DEF Arrive
<1>2. CASE RefuseForMemory(c)
  BY <1>2 DEF RefuseForMemory
<1>3. CASE QueueForSession(c)
  BY <1>3 DEF QueueForSession
<1>4. CASE TakeSession(c)
  BY <1>4 DEF TakeSession
<1>5. CASE TakeGlobal(c)
  BY <1>5 DEF TakeGlobal
<1>6. CASE TimeOutSession(c)
  BY <1>6 DEF TimeOutSession
<1>7. CASE TimeOutGlobal(c)
  BY <1>7 DEF TimeOutGlobal
<1>8. CASE LogRefusal(c)
  BY <1>8 DEF LogRefusal
<1>9. CASE Register(c)
  BY <1>9 DEF Register
<1>10. CASE BeginCall(c)
  BY <1>10 DEF BeginCall
<1>11. CASE SpawnBlocking(c)
  BY <1>11 DEF SpawnBlocking
<1>12. CASE Finish(c)
  BY <1>12 DEF Finish
<1>13. CASE GiveUp(c)
  BY <1>13 DEF GiveUp
<1>14. CASE WorkStarts(c)
  BY <1>14 DEF WorkStarts
<1>15. CASE LogWork(c)
  BY <1>15 DEF LogWork
<1>16. CASE ReleaseSession(c)
  BY <1>16 DEF ReleaseSession
<1>17. CASE ReleaseGlobal(c)
  BY <1>17 DEF ReleaseGlobal
<1>18. CASE Deregister(c)
  BY <1>18 DEF Deregister
<1>19. CASE EndCall(c)
  BY <1>19 DEF EndCall
<1>20. CASE WorkReturns(c)
  BY <1>20 DEF WorkReturns
<1>21. CASE DeadlinePasses(c)
  BY <1>21 DEF DeadlinePasses
<1>22. CASE GracePasses(c)
  BY <1>22 DEF GracePasses
<1>23. CASE ClientGone(c)
  BY <1>23 DEF ClientGone
<1> QED
  BY <1>1, <1>2, <1>3, <1>4, <1>5, <1>6, <1>7, <1>8, <1>9, <1>10, <1>11, <1>12, <1>13, <1>14, <1>15, <1>16, <1>17, <1>18, <1>19, <1>20, <1>21, <1>22, <1>23
     DEF CallStep, FutureStep, ThreadStep, ClockStep

-----------------------------------------------------------------------------
(* The invariant is inductive, and what follows from it. *)

\* No call has begun and every permit is free.
LEMMA InitIInv == Init => IInv
<1> SUFFICES ASSUME Init PROVE IInv
  OBVIOUS
<1>1. \A q : q = <<>> => IsQueue(q, Calls) /\ ToSet(q) = {}
  BY EmptySeq DEF IsQueue, IsInjective, ToSet
<1>2. Typed
  BY PermitsAssumption DEF Init, Typed, FutureStates, WorkStates, Clocks, Answers
<1>3. ASSUME NEW c \in Calls PROVE Consistent(c)
  BY DEF Init, Consistent, Registered, Audited, Refusals
<1>4. Queued
  <2>1. GlobalWaiters = {} /\ \A s \in Sessions : SessionWaiters(s) = {}
    BY DEF Init, GlobalWaiters, SessionWaiters
  <2>2. IsQueue(globalQueue, Calls) /\ ToSet(globalQueue) = GlobalWaiters
    BY <1>1, <2>1 DEF Init
  <2>3. ASSUME NEW s \in Sessions
        PROVE  IsQueue(sessionQueue[s], Calls) /\ ToSet(sessionQueue[s]) = SessionWaiters(s)
    <3>1. sessionQueue[s] = <<>>
      BY DEF Init
    <3> QED BY <1>1, <2>1, <3>1
  <2>4. sessionQueue \in [Sessions -> Seq(Calls)]
    BY EmptySeq DEF Init
  <2> QED BY <2>2, <2>3, <2>4 DEF Queued
<1>5. Counted
  <2>1. GlobalHolders = {} /\ \A s \in Sessions : SessionHolders(s) = {} /\ ActiveHolders(s) = {}
    BY DEF Init, GlobalHolders, HoldsGlobal, SessionHolders, HoldsSession, ActiveHolders,
           HoldsActive, WorkStates
  <2>2. Cardinality(GlobalHolders) = 0
        /\ \A s \in Sessions : /\ Cardinality(SessionHolders(s)) = 0
                              /\ Cardinality(ActiveHolders(s)) = 0
    <3>1. Cardinality({}) = 0
      BY FS_EmptySet
    <3> QED BY <2>1, <3>1
  <2>3. /\ globalFree = Capacity
        /\ \A s \in Sessions : sessionFree[s] = SessionConcurrency /\ activeCalls[s] = 0
    BY DEF Init
  <2> QED BY <2>2, <2>3, PermitsAssumption DEF Counted
<1> QED BY <1>2, <1>3, <1>4, <1>5 DEF IInv

\* Each conjunct by its own lemma over the actions.
LEMMA NextIInv == IInv /\ [Next]_vars => IInv'
<1> SUFFICES ASSUME IInv, [Next]_vars PROVE IInv'
  OBVIOUS
<1>1. CASE Next
  <2>1. PICK c \in Calls : CallStep(c)
    BY <1>1 DEF Next, CallStep
  <2>2. Typed'
    BY <2>1, TypedStep DEF IInv
  <2>3. ASSUME NEW d \in Calls PROVE Consistent(d)'
    BY <2>1, ConsistentStep DEF IInv
  <2>4. Queued'
    BY <2>1, QueuedStep DEF IInv
  <2>5. Counted'
    BY <2>1, CallStepBalanced, BalancedKeepsCounts DEF IInv
  <2> QED BY <2>2, <2>3, <2>4, <2>5 DEF IInv
<1>2. CASE UNCHANGED vars
  <2>1. Typed'
    BY <1>2 DEF IInv, Typed, vars
  <2>2. ASSUME NEW d \in Calls PROVE Consistent(d)'
    BY <1>2 DEF IInv, Consistent, Registered, Audited, OnThread, vars
  <2>3. Queued'
    <3>1. GlobalWaiters' = GlobalWaiters /\ \A s \in Sessions : SessionWaiters(s)' = SessionWaiters(s)
      BY <1>2 DEF GlobalWaiters, SessionWaiters, vars
    <3>2. IsQueue(globalQueue, Calls) /\ ToSet(globalQueue) = GlobalWaiters
      BY DEF IInv, Queued
    <3>3. sessionQueue' = sessionQueue /\ globalQueue' = globalQueue
      BY <1>2 DEF vars
    <3> QED BY <3>1, <3>2, <3>3, GlobalQueueReplaced DEF IInv
  <2>4. Counted'
    <3>1. /\ GlobalHolders' = GlobalHolders
          /\ \A s \in Sessions : /\ SessionHolders(s)' = SessionHolders(s)
                                 /\ ActiveHolders(s)' = ActiveHolders(s)
      BY <1>2 DEF GlobalHolders, HoldsGlobal, SessionHolders, HoldsSession, ActiveHolders,
                  HoldsActive, vars
    <3> QED BY <1>2, <3>1 DEF IInv, Counted, vars
  <2> QED BY <2>1, <2>2, <2>3, <2>4 DEF IInv
<1> QED BY <1>1, <1>2

\* The strengthened invariant holds in every behaviour.
THEOREM Invariance == Spec => []IInv
<1> QED BY InitIInv, NextIInv, PTL DEF Spec

\* The sets of holders are finite, so that they can be counted.
LEMMA HoldersFinite ==
    /\ IsFiniteSet(GlobalHolders) /\ Cardinality(GlobalHolders) \in Nat
    /\ \A s \in Sessions :
          /\ IsFiniteSet(SessionHolders(s)) /\ Cardinality(SessionHolders(s)) \in Nat
          /\ IsFiniteSet(ActiveHolders(s)) /\ Cardinality(ActiveHolders(s)) \in Nat
<1>1. /\ GlobalHolders \in SUBSET Calls
      /\ \A s \in Sessions : SessionHolders(s) \in SUBSET Calls /\ ActiveHolders(s) \in SUBSET Calls
  BY DEF GlobalHolders, SessionHolders, ActiveHolders
<1>2. \A H \in SUBSET Calls : IsFiniteSet(H) /\ Cardinality(H) \in Nat
  BY CallsAssumption, FS_Subset, FS_CardinalityType
<1> QED BY <1>1, <1>2

\* Every variable keeps its type: in particular no semaphore ever has more permits than it
\* was made with, and no active-call count goes below zero.
THEOREM TypesHold == Spec => []TypeOK
<1>1. IInv => TypeOK
  <2> SUFFICES ASSUME IInv PROVE TypeOK
    OBVIOUS
  <2>1. globalFree \in 0..Capacity
    BY HoldersFinite, PermitsAssumption DEF IInv, Typed, Counted
  <2>2. \A s \in Sessions : sessionFree[s] \in 0..SessionConcurrency /\ activeCalls[s] \in Nat
    BY HoldersFinite, PermitsAssumption DEF IInv, Typed, Counted
  <2>3. /\ sessionFree \in [Sessions -> 0..SessionConcurrency]
        /\ activeCalls \in [Sessions -> Nat]
    BY <2>2 DEF IInv, Typed
  <2>4. sessionQueue \in [Sessions -> Seq(Calls)] /\ globalQueue \in Seq(Calls)
    BY DEF IInv, Queued, IsQueue
  <2> QED BY <2>1, <2>3, <2>4 DEF IInv, Typed, TypeOK
<1> QED BY <1>1, Invariance, PTL

\* No permit is lost or released twice, whichever way a call leaves the governor.
THEOREM PermitsAreConserved == Spec => []PermitsConserved
<1>1. IInv => PermitsConserved
  BY DEF IInv, Counted, PermitsConserved, GlobalHolders, SessionHolders
<1> QED BY <1>1, Invariance, PTL

\* Work on a thread holds a permit of each kind, so the permits bound it.
LEMMA PermitsBoundWork == IInv => WorkBounded
<1> SUFFICES ASSUME IInv PROVE WorkBounded
  OBVIOUS
<1> DEFINE All == {c \in Calls : OnThread(c)}
           Of(s) == {c \in Calls : OnThread(c) /\ session[c] = s}
<1>1. Cardinality(All) <= Capacity
  <2>1. All \in SUBSET GlobalHolders
    BY DEF GlobalHolders, HoldsGlobal, OnThread
  <2>2. Cardinality(All) <= Cardinality(GlobalHolders) /\ Cardinality(All) \in Nat
    BY <2>1, HoldersFinite, FS_Subset, FS_CardinalityType
  <2> HIDE DEF All
  <2> QED BY <2>2, HoldersFinite, PermitsAssumption DEF IInv, Typed, Counted
<1>2. ASSUME NEW s \in Sessions PROVE Cardinality(Of(s)) <= SessionConcurrency
  <2>1. Of(s) \in SUBSET SessionHolders(s)
    BY DEF SessionHolders, HoldsSession, OnThread
  <2>2. Cardinality(Of(s)) <= Cardinality(SessionHolders(s)) /\ Cardinality(Of(s)) \in Nat
    BY <2>1, HoldersFinite, FS_Subset, FS_CardinalityType
  <2> HIDE DEF Of
  <2> QED BY <2>2, HoldersFinite, PermitsAssumption DEF IInv, Typed, Counted
<1> QED BY <1>1, <1>2 DEF WorkBounded

\* There is never more work on threads than permits, in all and for each session, however
\* many calls were detached or abandoned.
THEOREM WorkIsBounded == Spec => []WorkBounded
<1> QED BY PermitsBoundWork, Invariance, PTL

\* The in-flight registry and the active-call counts are those of the work on threads.
THEOREM BooksAreBalanced == Spec => []BooksBalance
<1>1. IInv => BooksBalance
  <2> SUFFICES ASSUME IInv PROVE BooksBalance
    OBVIOUS
  <2>1. \A c \in Calls : OnThread(c) => c \in inFlight
    BY DEF IInv, Consistent, Registered, OnThread
  <2>2. inFlight \subseteq {c \in Calls : pc[c] \in {"begin", "spawn"} \/ HoldsActive(c)}
    BY DEF IInv, Typed, Consistent, Registered, HoldsActive, WorkStates
  <2>3. \A s \in Sessions :
            activeCalls[s] = Cardinality({c \in Calls : HoldsActive(c) /\ session[c] = s})
    BY DEF IInv, Counted, ActiveHolders
  <2> QED BY <2>1, <2>2, <2>3 DEF BooksBalance
<1> QED BY <1>1, Invariance, PTL

\* The semaphores' queues hold exactly the waiting calls, once each.
THEOREM QueuesAreTheWaiters == Spec => []QueuesAreWaiters
<1>1. IInv => QueuesAreWaiters
  BY DEF IInv, Queued, IsQueue, QueuesAreWaiters, SessionWaiters, GlobalWaiters
<1> QED BY <1>1, Invariance, PTL

\* Work nobody waits for has been told to stop.
THEOREM AbandonedIsCancelled == Spec => []AbandonedWorkIsCancelled
<1>1. IInv => AbandonedWorkIsCancelled
  BY DEF IInv, Consistent, AbandonedWorkIsCancelled
<1> QED BY <1>1, Invariance, PTL

\* A caller told how its work ended has nothing of its call held any more.
THEOREM AnsweredHolds == Spec => []AnsweredHoldsNothing
<1>1. IInv => AnsweredHoldsNothing
  BY DEF IInv, Consistent, Registered, AnsweredHoldsNothing, HoldsSession, HoldsGlobal,
         HoldsActive, WorkStates
<1> QED BY <1>1, Invariance, PTL

\* Every call is audited at most once, and at least once when its work ended or it was refused.
THEOREM AuditedOnce == Spec => []OneAuditEntry
<1>1. IInv => OneAuditEntry
  <2> SUFFICES ASSUME IInv, NEW c \in Calls
               PROVE  /\ Len(log[c]) <= 1
                      /\ Audited(c) => Len(log[c]) = 1
    BY DEF Audited, OneAuditEntry
  <2>1. Len(log[c]) = IF Audited(c) THEN 1 ELSE 0
    BY DEF IInv, Consistent
  <2> QED BY <2>1 DEF Audited
<1> QED BY <1>1, Invariance, PTL

-----------------------------------------------------------------------------
(* What the audit entry says of the answer. *)

\* The work has ended and its entry is written.
Ran(c) == work[c] \in {"relSession", "relGlobal", "relInFlight", "relActive", "ended"}

\* What answer, entry, result and the budget of one call say of each other. A budget is
\* cancelled where the future ends, so that one that was cancelled with its deadline ahead
\* was cancelled by the client, and only then can the entry say so.
Agreed(c) ==
    /\ work[c] \in {"none", "queued", "running"} => result[c] = "none"
    /\ answer[c] = "ok" => result[c] = "ok" /\ work[c] = "ended"
    /\ pc[c] = "done" /\ result[c] = "ok" => answer[c] \in {"ok", "deadline_exceeded", "gone"}
    /\ c \in cancelled =>
          pc[c] = "done" /\ (answer[c] = "gone" \/ clock[c] = "overdue" \/ work[c] = "ended")
    /\ pc[c] = "done" /\ answer[c] \in Refusals => log[c][1] = answer[c]
    /\ Ran(c) => /\ log[c][1] \notin Refusals
                 /\ log[c][1] = "ok" <=> result[c] = "ok"
                 /\ log[c][1] = "cancelled" => pc[c] = "done" /\ answer[c] = "gone"

AInv == IInv /\ \A c \in Calls : Agreed(c)

\* No call has begun.
LEMMA InitAInv == Init => AInv
<1> SUFFICES ASSUME Init PROVE AInv
  OBVIOUS
<1>1. ASSUME NEW c \in Calls PROVE Agreed(c)
  BY DEF Init, Agreed, Ran, Refusals
<1> QED BY <1>1, InitIInv DEF AInv

\* An entry is appended to an empty log, and so is its only one.
LEMMA FirstEntry ==
    ASSUME NEW S, NEW q \in Seq(S), Len(q) = 0, NEW e \in S
    PROVE  Append(q, e)[1] = e
<1>1. q = <<>>
  BY EmptySeq
<1> QED BY <1>1, AppendProperties

\* A step of one call keeps every call's answer, entry, result and budget in agreement.
LEMMA AgreedStep ==
    ASSUME AInv, NEW c \in Calls, CallStep(c), NEW d \in Calls
    PROVE  Agreed(d)'
<1>0. Typed /\ Consistent(d) /\ Consistent(c) /\ Agreed(d) /\ Agreed(c)
  BY DEF AInv, IInv
<1> USE <1>0 DEF Typed, Agreed, Ran, FutureStates, WorkStates, Clocks, Refusals, Go, Proceed
<1>1. CASE Arrive(c)
  BY <1>1 DEF Arrive
<1>2. CASE RefuseForMemory(c)
  BY <1>2 DEF RefuseForMemory, Refuse
<1>3. CASE QueueForSession(c)
  BY <1>3 DEF QueueForSession
<1>4. CASE TakeSession(c)
  BY <1>4 DEF TakeSession
<1>5. CASE TakeGlobal(c)
  BY <1>5 DEF TakeGlobal
<1>6. CASE TimeOutSession(c)
  BY <1>6 DEF TimeOutSession, Refuse
<1>7. CASE TimeOutGlobal(c)
  BY <1>7 DEF TimeOutGlobal, Refuse
<1>8. CASE LogRefusal(c)
  <2>1. Append(log[c], answer[c])[1] = answer[c]
    <3>1. log[c] \in Seq(Outcomes) /\ Len(log[c]) = 0 /\ answer[c] \in Outcomes
      BY <1>8 DEF LogRefusal, Consistent, Audited, Outcomes
    <3> QED BY <3>1, FirstEntry
  <2>2. log'[d] = IF d = c THEN Append(log[c], answer[c]) ELSE log[d]
    BY <1>8 DEF LogRefusal
  <2> QED BY <1>8, <2>1, <2>2 DEF LogRefusal, Consistent
<1>9. CASE Register(c)
  BY <1>9 DEF Register
<1>10. CASE BeginCall(c)
  BY <1>10 DEF BeginCall
<1>11. CASE SpawnBlocking(c)
  BY <1>11 DEF SpawnBlocking
<1>12. CASE Finish(c)
  BY <1>12 DEF Finish, CallOutcome, Consistent, Results
<1>13. CASE GiveUp(c)
  BY <1>13 DEF GiveUp
<1>14. CASE WorkStarts(c)
  BY <1>14 DEF WorkStarts
<1>15. CASE LogWork(c)
  <2>1. Append(log[c], AuditOutcome(c))[1] = AuditOutcome(c)
    <3>1. log[c] \in Seq(Outcomes) /\ Len(log[c]) = 0 /\ AuditOutcome(c) \in Outcomes
      BY <1>15 DEF LogWork, Consistent, Audited, AuditOutcome, Outcomes, Results
    <3> QED BY <3>1, FirstEntry
  <2>2. log'[d] = IF d = c THEN Append(log[c], AuditOutcome(c)) ELSE log[d]
    BY <1>15 DEF LogWork
  <2>3. /\ AuditOutcome(c) \notin Refusals
        /\ AuditOutcome(c) = "ok" <=> result[c] = "ok"
        /\ AuditOutcome(c) = "cancelled" => c \in cancelled /\ clock[c] = "open"
    BY <1>15 DEF LogWork, AuditOutcome, Consistent, Results
  <2>4. AuditOutcome(c) = "cancelled" => pc[c] = "done" /\ answer[c] = "gone"
    BY <1>15, <2>3 DEF LogWork
  <2>5. ~(pc[c] = "done" /\ answer[c] \in Refusals)
    BY <1>15 DEF LogWork, Consistent
  <2> HIDE DEF AuditOutcome
  <2> QED BY <1>15, <2>1, <2>2, <2>3, <2>4, <2>5 DEF LogWork
<1>16. CASE ReleaseSession(c)
  BY <1>16 DEF ReleaseSession
<1>17. CASE ReleaseGlobal(c)
  BY <1>17 DEF ReleaseGlobal
<1>18. CASE Deregister(c)
  BY <1>18 DEF Deregister
<1>19. CASE EndCall(c)
  BY <1>19 DEF EndCall
<1>20. CASE WorkReturns(c)
  BY <1>20 DEF WorkReturns, Consistent
<1>21. CASE DeadlinePasses(c)
  BY <1>21 DEF DeadlinePasses
<1>22. CASE GracePasses(c)
  BY <1>22 DEF GracePasses
<1>23. CASE ClientGone(c)
  BY <1>23 DEF ClientGone, Consistent
<1> QED
  BY <1>1, <1>2, <1>3, <1>4, <1>5, <1>6, <1>7, <1>8, <1>9, <1>10, <1>11, <1>12, <1>13,
     <1>14, <1>15, <1>16, <1>17, <1>18, <1>19, <1>20, <1>21, <1>22, <1>23
     DEF CallStep, FutureStep, ThreadStep, ClockStep

\* One case per action, each over every call.
LEMMA NextAInv == AInv /\ [Next]_vars => AInv'
<1> SUFFICES ASSUME AInv, [Next]_vars PROVE AInv'
  OBVIOUS
<1>1. IInv'
  BY NextIInv DEF AInv
<1>2. ASSUME NEW d \in Calls PROVE Agreed(d)'
  <2>1. ASSUME NEW c \in Calls, CallStep(c) PROVE Agreed(d)'
    BY <2>1, AgreedStep
  <2>2. CASE UNCHANGED vars
    BY <2>2 DEF vars, AInv, Agreed, Ran
  <2> QED BY <2>1, <2>2 DEF Next, CallStep
<1> QED BY <1>1, <1>2 DEF AInv

\* The audit entry and the caller agree: success is audited as success, a refusal as itself,
\* and only a call whose client left is audited as cancelled (ToolGovernor::call,
\* result_outcome).
THEOREM AuditAgrees == Spec => []AuditAgreesWithAnswer
<1>1. AInv => AuditAgreesWithAnswer
  <2> SUFFICES ASSUME AInv, NEW c \in Calls, pc[c] = "done", log[c] # <<>>
               PROVE  LET entry == Head(log[c]) IN
                      /\ answer[c] = "ok" => entry = "ok"
                      /\ entry = "ok" => answer[c] \in {"ok", "deadline_exceeded", "gone"}
                      /\ answer[c] \in Refusals <=> entry \in Refusals
                      /\ answer[c] \in Refusals => entry = answer[c] /\ work[c] = "none"
                      /\ entry = "cancelled" => answer[c] = "gone"
    BY DEF AuditAgreesWithAnswer
  <2>1. Consistent(c) /\ Agreed(c) /\ log[c] \in Seq(Outcomes)
    BY DEF AInv, IInv, Typed
  <2>2. Len(log[c]) # 0 /\ Head(log[c]) = log[c][1]
    BY <2>1, EmptySeq
  <2>3. Ran(c) \/ answer[c] \in Refusals
    BY <2>1, <2>2 DEF Consistent, Audited, Ran
  <2>4. CASE answer[c] \in Refusals
    BY <2>1, <2>2, <2>4 DEF Consistent, Agreed, Refusals
  <2>5. CASE answer[c] \notin Refusals
    BY <2>1, <2>2, <2>3, <2>5 DEF Agreed, Refusals
  <2> QED BY <2>4, <2>5
<1> QED BY InitAInv, NextAInv, <1>1, PTL DEF Spec

-----------------------------------------------------------------------------
(* The refinement of GovernedWork. *)

\* The abstract running, ended and told, as the mapping gives them.
OnThreads == {c \in Calls : OnThread(c)}
Stopped == {c \in Calls : work[c] \notin {"none", "queued", "running", "audit"}}
Heard == [c \in Calls |-> IF pc[c] = "done" THEN answer[c] ELSE "none"]

\* Both modules count alike.
LEMMA SameCount == \A S : Promise!Cardinality(S) = Cardinality(S)
<1> QED BY DEF Promise!Cardinality, Cardinality

\* The spawn of a closure begins its work, within the permits.
LEMMA SpawnBegins ==
    ASSUME IInv, IInv', NEW c \in Calls, SpawnBlocking(c)
    PROVE  Promise!Begin(c)
<1>1. /\ pc[c] = "spawn" /\ work[c] = "none" /\ session' = session /\ answer' = answer
      /\ \A d \in Calls : pc'[d] = IF d = c THEN "running" ELSE pc[d]
      /\ \A d \in Calls : work'[d] = IF d = c THEN "queued" ELSE work[d]
  BY DEF SpawnBlocking, Go, Proceed, IInv, Typed
<1>2. OnThreads' = OnThreads \union {c} /\ Stopped' = Stopped /\ Heard' = Heard
  BY <1>1 DEF OnThreads, Stopped, Heard, OnThread
<1>3. c \notin OnThreads \union Stopped /\ Heard[c] = "none"
  BY <1>1 DEF OnThreads, Stopped, Heard, OnThread
<1>4. /\ Cardinality(OnThreads') <= Capacity
      /\ Cardinality({d \in OnThreads' : session[d] = session[c]}) <= SessionConcurrency
  <2>1. WorkBounded'
    BY PermitsBoundWork, PTL
  <2>2. {d \in Calls : OnThread(d) /\ session[d] = session[c]}'
            = {d \in OnThreads' : session[d] = session[c]}
    BY <1>1 DEF OnThreads
  <2>3. session[c] \in Sessions
    BY DEF IInv, Typed
  <2> QED BY <2>1, <2>2, <2>3, <1>1 DEF WorkBounded, OnThreads
<1> QED BY <1>1, <1>2, <1>3, <1>4, SameCount DEF Promise!Begin, OnThreads, Stopped, Heard

\* The audit entry is the last thing a thread does for a call: its work stops there.
LEMMA LogStops ==
    ASSUME Typed, NEW c \in Calls, LogWork(c)
    PROVE  Promise!Stop(c)
<1>1. /\ work[c] = "audit" /\ session' = session /\ answer' = answer /\ pc' = pc
      /\ \A d \in Calls : work'[d] = IF d = c THEN "relSession" ELSE work[d]
  BY DEF LogWork, Proceed, Typed
<1>2. /\ c \in OnThreads /\ OnThreads' = OnThreads \ {c}
      /\ Stopped' = Stopped \union {c} /\ Heard' = Heard
  BY <1>1 DEF OnThreads, Stopped, Heard, OnThread
<1> QED BY <1>1, <1>2 DEF Promise!Stop, OnThreads, Stopped, Heard

\* A future that ends tells its caller something, and only what is true of the work.
LEMMA DoneTells ==
    ASSUME NEW c \in Calls, pc \in [Calls -> FutureStates], pc[c] # "done",
           pc' = [pc EXCEPT ![c] = "done"], \A d \in Calls \ {c} : answer'[d] = answer[d],
           UNCHANGED <<work, session>>, answer'[c] \in Answers \ {"none"},
           answer'[c] \in Refusals => work[c] = "none",
           answer'[c] \notin Refusals \union {"deadline_exceeded", "gone"} => work[c] = "ended"
    PROVE  Promise!WNext
<1>0. PICK a \in Answers \ {"none"} : a = answer'[c]
  OBVIOUS
<1>1. \A d \in Calls : pc'[d] = IF d = c THEN "done" ELSE pc[d]
  OBVIOUS
<1>2. OnThreads' = OnThreads /\ Stopped' = Stopped
  BY DEF OnThreads, Stopped, OnThread
<1>3. Heard[c] = "none" /\ Heard' = [Heard EXCEPT ![c] = a]
  BY <1>0, <1>1 DEF Heard
<1>4. /\ a \in Refusals => c \notin OnThreads \union Stopped
      /\ a \notin Refusals \union {"deadline_exceeded", "gone"} => c \in Stopped
  BY <1>0 DEF OnThreads, Stopped, OnThread
<1>5. Promise!Tell(c, a)
  BY <1>2, <1>3, <1>4 DEF Promise!Tell, OnThreads, Stopped, Heard
<1> QED BY <1>5 DEF Promise!WNext

\* Every other step changes nothing the abstract specification speaks of.
LEMMA OthersStutter ==
    ASSUME Typed, NEW c \in Calls, UNCHANGED session,
           \A d \in Calls : pc'[d] = "done" <=> pc[d] = "done",
           \A d \in Calls : pc[d] = "done" => answer'[d] = answer[d],
           \A d \in Calls : OnThread(d)' <=> OnThread(d),
           \A d \in Calls : work'[d] = "none" <=> work[d] = "none"
    PROVE  UNCHANGED Promise!wvars
<1>1. OnThreads' = OnThreads
  BY DEF OnThreads
<1>2. Stopped' = Stopped
  BY DEF Stopped, OnThread
<1>3. Heard' = Heard
  BY DEF Heard
<1> QED BY <1>1, <1>2, <1>3 DEF Promise!wvars, OnThreads, Stopped, Heard

\* A step of the governor is a step of the abstract specification, or none.
LEMMA StepKeepsPromise ==
    ASSUME IInv, IInv', NEW c \in Calls, CallStep(c)
    PROVE  Promise!WNext \/ UNCHANGED Promise!wvars
<1>0. Typed /\ Consistent(c)
  BY DEF IInv
<1>1. CASE SpawnBlocking(c)
  BY <1>1, SpawnBegins DEF Promise!WNext
<1>2. CASE LogWork(c)
  BY <1>0, <1>2, LogStops DEF Promise!WNext
<1>3. CASE LogRefusal(c) \/ Finish(c) \/ GiveUp(c) \/ ClientGone(c)
  <2>1. CASE LogRefusal(c)
    <3>1. /\ pc' = [pc EXCEPT ![c] = "done"] /\ pc[c] = "refused"
          /\ UNCHANGED <<work, session, answer>>
      BY <2>1 DEF LogRefusal, Go
    <3>2. answer[c] \in Refusals /\ work[c] = "none"
      BY <1>0, <3>1 DEF Consistent
    <3>3. answer[c] \in Answers \ {"none"}
      BY <3>2 DEF Answers, Refusals
    <3> QED BY <1>0, <3>1, <3>2, <3>3, DoneTells DEF Typed
  <2>2. CASE Finish(c)
    <3>1. /\ pc' = [pc EXCEPT ![c] = "done"] /\ pc[c] = "running" /\ work[c] = "ended"
          /\ UNCHANGED <<work, session>>
          /\ answer' = [answer EXCEPT ![c] = CallOutcome(c, result[c])]
      BY <2>2 DEF Finish, Go
    <3>2. CallOutcome(c, result[c]) \in Results \ {"panic"}
      BY <1>0, <3>1 DEF Consistent, CallOutcome, Results
    <3>3. /\ answer'[c] = CallOutcome(c, result[c])
          /\ \A d \in Calls \ {c} : answer'[d] = answer[d]
      BY <1>0, <3>1 DEF Typed
    <3>4. answer'[c] \in Answers \ {"none"} /\ answer'[c] \notin Refusals
      BY <3>2, <3>3 DEF Answers, Refusals, Results
    <3> QED BY <1>0, <3>1, <3>3, <3>4, DoneTells DEF Typed
  <2>3. CASE GiveUp(c)
    <3>1. /\ pc' = [pc EXCEPT ![c] = "done"] /\ pc[c] = "running"
          /\ UNCHANGED <<work, session>>
          /\ answer' = [answer EXCEPT ![c] = "deadline_exceeded"]
      BY <2>3 DEF GiveUp, Go
    <3>2. /\ answer'[c] = "deadline_exceeded"
          /\ \A d \in Calls \ {c} : answer'[d] = answer[d]
      BY <1>0, <3>1 DEF Typed
    <3>3. "deadline_exceeded" \in Answers \ {"none"} /\ "deadline_exceeded" \notin Refusals
      BY DEF Answers, Refusals, Results
    <3> QED BY <1>0, <3>1, <3>2, <3>3, DoneTells DEF Typed
  <2>4. CASE ClientGone(c)
    <3>1. /\ pc' = [pc EXCEPT ![c] = "done"] /\ pc[c] # "done"
          /\ UNCHANGED <<work, session>>
          /\ answer' = [answer EXCEPT ![c] = "gone"]
      BY <2>4 DEF ClientGone
    <3>2. answer'[c] = "gone" /\ \A d \in Calls \ {c} : answer'[d] = answer[d]
      BY <1>0, <3>1 DEF Typed
    <3>3. "gone" \in Answers \ {"none"} /\ "gone" \notin Refusals
      BY DEF Answers, Refusals
    <3> QED BY <1>0, <3>1, <3>2, <3>3, DoneTells DEF Typed
  <2> QED BY <1>3, <2>1, <2>2, <2>3, <2>4
<1>4. CASE \/ Arrive(c) \/ RefuseForMemory(c) \/ QueueForSession(c) \/ TakeSession(c)
           \/ TakeGlobal(c) \/ TimeOutSession(c) \/ TimeOutGlobal(c) \/ Register(c)
           \/ BeginCall(c)
  <2>1. /\ UNCHANGED <<work, session>> /\ pc[c] # "done"
        /\ \E to \in FutureStates \ {"done"} : pc' = [pc EXCEPT ![c] = to]
        /\ \A d \in Calls \ {c} : answer'[d] = answer[d]
    BY <1>0, <1>4
    DEF Arrive, RefuseForMemory, QueueForSession, TakeSession, TakeGlobal, TimeOutSession,
        TimeOutGlobal, Register, BeginCall, Go, Refuse, Typed, FutureStates
  <2>2. \A d \in Calls : pc'[d] = "done" <=> pc[d] = "done"
    BY <1>0, <2>1 DEF Typed
  <2> QED BY <1>0, <2>1, <2>2, OthersStutter DEF OnThread
<1>5. CASE WorkStarts(c) \/ WorkReturns(c) \/ ReleaseSession(c) \/ ReleaseGlobal(c)
           \/ Deregister(c) \/ EndCall(c)
  <2>1. UNCHANGED <<pc, session, answer>>
    BY <1>5 DEF WorkStarts, WorkReturns, ReleaseSession, ReleaseGlobal, Deregister, EndCall
  <2>2. /\ \A d \in Calls : OnThread(d)' <=> OnThread(d)
        /\ \A d \in Calls : work'[d] = "none" <=> work[d] = "none"
    BY <1>0, <1>5
    DEF WorkStarts, WorkReturns, ReleaseSession, ReleaseGlobal, Deregister, EndCall, Proceed,
        Typed, OnThread
  <2> QED BY <1>0, <2>1, <2>2, OthersStutter
<1>6. CASE ClockStep(c)
  BY <1>0, <1>6, OthersStutter DEF ClockStep, DeadlinePasses, GracePasses, OnThread
<1> QED
  BY <1>1, <1>2, <1>3, <1>4, <1>5, <1>6 DEF CallStep, FutureStep, ThreadStep

\* The governor implements GovernedWork: whatever happens to callers, work on threads is
\* bounded, each call gets one answer, a refused call never runs, and an answer about the end
\* of work comes after it (ToolGovernor::call, run_blocking).
THEOREM GovernorKeepsPromise == Spec => KeepsPromise
<1>1. Init => Promise!WInit
  <2> SUFFICES ASSUME Init PROVE Promise!WInit
    OBVIOUS
  <2>1. OnThreads = {} /\ Stopped = {} /\ Heard = [c \in Calls |-> "none"]
    BY DEF Init, OnThreads, Stopped, Heard, OnThread
  <2> QED BY <2>1 DEF Promise!WInit, OnThreads, Stopped, Heard
<1>2. IInv /\ IInv' /\ [Next]_vars => [Promise!WNext]_(Promise!wvars)
  <2> SUFFICES ASSUME IInv, IInv', [Next]_vars
               PROVE  Promise!WNext \/ UNCHANGED Promise!wvars
    OBVIOUS
  <2>1. ASSUME NEW c \in Calls, CallStep(c) PROVE Promise!WNext \/ UNCHANGED Promise!wvars
    BY <2>1, StepKeepsPromise
  <2>2. CASE UNCHANGED vars
    <3>1. UNCHANGED <<session, OnThreads, Stopped, Heard>>
      BY <2>2 DEF vars, OnThreads, Stopped, Heard, OnThread
    <3> QED BY <3>1 DEF Promise!wvars, OnThreads, Stopped, Heard
  <2> QED BY <2>1, <2>2 DEF Next, CallStep
<1> QED BY <1>1, <1>2, Invariance, PTL DEF Spec, KeepsPromise, Promise!WSpec
=============================================================================
