------------------------ MODULE SessionRegistryProofs ------------------------
(***************************************************************************)
(* Proofs that the table of SessionRegistry keeps its capacity and tells   *)
(* each removal once, for any set of sessions, creators and callers.       *)
(***************************************************************************)
EXTENDS SessionRegistry, FiniteSetTheorems, TLAPS

\* The callers whose call runs on a session.
RunningOn(id) == {c \in Callers : caller[c] = "running" /\ target[c] = id}

-----------------------------------------------------------------------------
(* The inductive invariant, in parts. *)

\* The types of what the table and its scans are made of; active needs Counted for its own.
Typed ==
    /\ table \subseteq born /\ born \subseteq Ids
    /\ idle \in [Ids -> 0..MaxAge]
    /\ writer \in Creators \union {NoId}
    /\ unseen \subseteq Ids /\ victim \in Ids \union {NoId} /\ oldest \in 0..MaxAge
    /\ scan \in {"sleep", "scan", "remove"}
    /\ unscanned \subseteq Ids /\ expired \subseteq Ids
    /\ leaving \subseteq Ids

\* Where callers are, and that those under way work on a session.
CallersTyped ==
    /\ caller \in [Callers -> {"idle", "found", "touch", "expiring", "has", "running"}]
    /\ target \in [Callers -> Ids \union {NoId}]
    /\ \A c \in Callers : caller[c] # "idle" => target[c] \in Ids

\* A session's count is the number of the calls that run on it.
Counted ==
    /\ active \in [Ids -> Nat]
    /\ \A id \in Ids : active[id] = Cardinality(RunningOn(id))

\* While a creator holds the lock nothing leaves the table, so that its candidate is still
\* there when it is evicted; nobody scans without the lock.
Locked ==
    /\ unseen \subseteq table
    /\ victim # NoId => victim \in table
    /\ NoWriter => unseen = {} /\ victim = NoId

Bounded == IsFiniteSet(table) /\ Cardinality(table) <= MaxSessions

\* A session whose removal is still to be sent was created and is out of the table.
Told ==
    /\ leaving \subseteq born \ table
    /\ sent \in [Ids -> Nat]
    /\ RemovalSentOnce

IInv == Typed /\ CallersTyped /\ Counted /\ Locked /\ Bounded /\ Told

-----------------------------------------------------------------------------
(* Every step but a call's begin and end leaves the counts alone. *)

\* A caller that moves without starting or ending a call changes no count.
LEMMA MoveKeepsCounts ==
    ASSUME CallersTyped, Counted, NEW c \in Callers, caller[c] # "running",
           NEW to, to # "running", caller' = [caller EXCEPT ![c] = to],
           \A d \in Callers \ {c} : target'[d] = target[d], UNCHANGED active
    PROVE  Counted'
<1>1. \A d \in Callers : caller'[d] = IF d = c THEN to ELSE caller[d]
  BY DEF CallersTyped
<1>2. ASSUME NEW id \in Ids PROVE RunningOn(id)' = RunningOn(id)
  BY <1>1 DEF RunningOn
<1> QED BY <1>2 DEF Counted

\* A call that begins is one more, on its session alone.
LEMMA BeginCounts ==
    ASSUME CallersTyped, Counted, NEW c \in Callers, BeginCall(c)
    PROVE  Counted'
<1>1. /\ target[c] \in Ids /\ caller[c] # "running"
      /\ \A d \in Callers : caller'[d] = IF d = c THEN "running" ELSE caller[d]
  BY DEF BeginCall, At, CallersTyped
<1>2. /\ active' \in [Ids -> Nat]
      /\ \A id \in Ids : active'[id] = IF id = target[c] THEN active[id] + 1 ELSE active[id]
  BY <1>1 DEF BeginCall, Counted
<1>3. target' = target
  BY DEF BeginCall
<1>4. ASSUME NEW id \in Ids PROVE active'[id] = Cardinality(RunningOn(id)')
  <2>1. CASE id = target[c]
    <3>1. RunningOn(id)' = RunningOn(id) \union {c} /\ c \notin RunningOn(id)
      BY <1>1, <1>3, <2>1 DEF RunningOn
    <3>2. IsFiniteSet(RunningOn(id))
      BY FS_Subset, RegistryAssumption DEF RunningOn
    <3>3. Cardinality(RunningOn(id) \union {c}) = Cardinality(RunningOn(id)) + 1
      BY <3>1, <3>2, FS_AddElement
    <3> QED BY <3>1, <3>3, <1>2, <2>1 DEF Counted
  <2>2. CASE id # target[c]
    <3>1. RunningOn(id)' = RunningOn(id)
      BY <1>1, <1>3, <2>2 DEF RunningOn
    <3> QED BY <3>1, <1>2, <2>2 DEF Counted
  <2> QED BY <2>1, <2>2
<1> QED BY <1>2, <1>4 DEF Counted

\* A call that ends is one less: its session's count was not zero.
LEMMA EndCounts ==
    ASSUME CallersTyped, Counted, NEW c \in Callers, EndCall(c)
    PROVE  Counted'
<1>1. /\ target[c] \in Ids /\ caller[c] = "running"
      /\ \A d \in Callers : /\ caller'[d] = IF d = c THEN "idle" ELSE caller[d]
                            /\ target'[d] = IF d = c THEN NoId ELSE target[d]
  BY DEF EndCall, At, CallersTyped
<1>2. \A id \in Ids : active'[id] = IF id = target[c] THEN active[id] - 1 ELSE active[id]
  BY <1>1 DEF EndCall, Counted
<1>3. ASSUME NEW id \in Ids PROVE active'[id] \in Nat /\ active'[id] = Cardinality(RunningOn(id)')
  <2>1. CASE id = target[c]
    <3>1. RunningOn(id)' = RunningOn(id) \ {c} /\ c \in RunningOn(id)
      BY <1>1, <2>1 DEF RunningOn
    <3>2. IsFiniteSet(RunningOn(id))
      BY FS_Subset, RegistryAssumption DEF RunningOn
    <3>3. /\ Cardinality(RunningOn(id) \ {c}) = Cardinality(RunningOn(id)) - 1
          /\ Cardinality(RunningOn(id) \ {c}) \in Nat
      BY <3>1, <3>2, FS_RemoveElement, FS_CardinalityType
    <3> QED BY <3>1, <3>3, <1>2, <2>1 DEF Counted
  <2>2. CASE id # target[c]
    <3>1. RunningOn(id)' = RunningOn(id)
      BY <1>1, <2>2 DEF RunningOn
    <3> QED BY <3>1, <1>2, <2>2 DEF Counted
  <2> QED BY <2>1, <2>2
<1>4. active' \in [Ids -> Nat]
  BY <1>3 DEF EndCall, Counted
<1> QED BY <1>3, <1>4 DEF Counted

-----------------------------------------------------------------------------
(* Steps that change the table. *)

\* What a step that only takes sessions out of the table, and sends as much, keeps.
LEMMA RemovalKeeps ==
    ASSUME Typed, Bounded, Told, NEW gone, gone \subseteq table, RemoveAndSend(gone),
           UNCHANGED <<born, leaving>>
    PROVE  Bounded' /\ Told' /\ table' \subseteq table
<1>1. table' \subseteq table
  BY DEF RemoveAndSend
<1>2. Bounded'
  <2>1. IsFiniteSet(table') /\ Cardinality(table') <= Cardinality(table)
    BY <1>1, FS_Subset DEF Bounded
  <2> QED BY <2>1, FS_CardinalityType, RegistryAssumption DEF Bounded
<1>3. Told'
  <2>1. /\ leaving' \subseteq born' \ table' /\ sent' \in [Ids -> Nat]
        /\ \A id \in Ids : sent'[id] = IF id \in gone THEN sent[id] + 1 ELSE sent[id]
    BY DEF Told, RemoveAndSend
  <2>2. ASSUME NEW id \in Ids
        PROVE  sent'[id] = IF id \in born' \ (table' \union leaving') THEN 1 ELSE 0
    <3>1. sent[id] = IF id \in born \ (table \union leaving) THEN 1 ELSE 0
      BY DEF Told, RemovalSentOnce
    <3>2. CASE id \in gone
      BY <3>1, <3>2, <2>1 DEF RemoveAndSend, Typed, Told
    <3>3. CASE id \notin gone
      BY <3>1, <3>3, <2>1 DEF RemoveAndSend
    <3> QED BY <3>2, <3>3
  <2> QED BY <2>1, <2>2 DEF Told, RemovalSentOnce
<1> QED BY <1>1, <1>2, <1>3

\* A creation with room, and the eviction that makes room: as many sessions as fit, and the
\* one that was evicted is told of.
LEMMA CreateKeeps ==
    ASSUME Typed, Locked, Bounded, Told, CreateWithRoom
    PROVE  Typed' /\ Locked' /\ Bounded' /\ Told'
<1>1. PICK id \in Ids \ born : born' = born \union {id} /\ table' = table \union {id}
  BY DEF CreateWithRoom, Insert
<1>2. UNCHANGED <<idle, leaving, sent, writer, unseen, victim, oldest, scan, unscanned, expired>>
  BY DEF CreateWithRoom, creating, cleaning
<1>3. Typed' /\ Locked'
  BY <1>1, <1>2 DEF Typed, Locked, NoWriter
<1>4. Bounded'
  <2>1. IsFiniteSet(table') /\ Cardinality(table') = Cardinality(table) + 1
    BY <1>1, FS_AddElement DEF Typed, Bounded
  <2> QED BY <2>1, FS_CardinalityType, RegistryAssumption DEF Bounded, CreateWithRoom
<1>5. Told'
  BY <1>1, <1>2 DEF Told, RemovalSentOnce, Typed
<1> QED BY <1>3, <1>4, <1>5

\* An eviction takes a session that is there, so the one it inserts finds room.
LEMMA EvictKeeps ==
    ASSUME Typed, Locked, Bounded, Told, Evict
    PROVE  Typed' /\ Locked' /\ Bounded' /\ Told'
<1>1. PICK id \in Ids \ born :
          /\ born' = born \union {id} /\ table' = (table \ {victim}) \union {id}
          /\ sent' = [sent EXCEPT ![victim] = @ + 1]
  BY DEF Evict, Insert
<1>2. /\ UNCHANGED <<idle, leaving, unseen, scan, unscanned, expired>>
      /\ writer' = NoId /\ victim' = NoId /\ oldest' = 0 /\ unseen = {}
  BY DEF Evict, ReleaseWriteLock, cleaning
<1>3. victim \in table /\ victim # id
  BY <1>1 DEF Evict, Locked, Typed
<1>4. Typed' /\ Locked'
  BY <1>1, <1>2, RegistryAssumption DEF Typed, Locked, NoWriter
<1>5. Bounded'
  <2>1. /\ IsFiniteSet(table \ {victim})
        /\ Cardinality(table \ {victim}) = Cardinality(table) - 1
    BY <1>3, FS_RemoveElement DEF Bounded
  <2>2. id \notin table \ {victim}
    BY <1>1 DEF Typed
  <2>3. IsFiniteSet(table') /\ Cardinality(table') = Cardinality(table \ {victim}) + 1
    BY <1>1, <2>1, <2>2, FS_AddElement
  <2> QED BY <2>1, <2>3, FS_CardinalityType, RegistryAssumption DEF Bounded
<1>6. Told'
  <2>1. sent' \in [Ids -> Nat] /\ leaving' \subseteq born' \ table'
    BY <1>1, <1>2, <1>3 DEF Told, Typed
  <2>2. ASSUME NEW x \in Ids
        PROVE  sent'[x] = IF x \in born' \ (table' \union leaving') THEN 1 ELSE 0
    <3>1. /\ sent'[x] = IF x = victim THEN sent[x] + 1 ELSE sent[x]
          /\ sent[x] = IF x \in born \ (table \union leaving) THEN 1 ELSE 0
      BY <1>1 DEF Told, RemovalSentOnce
    <3>2. CASE x = victim
      BY <3>1, <3>2, <1>1, <1>2, <1>3 DEF Told, Typed
    <3>3. CASE x # victim
      BY <3>1, <3>3, <1>1, <1>2 DEF Typed
    <3> QED BY <3>2, <3>3
  <2> QED BY <2>1, <2>2 DEF Told, RemovalSentOnce
<1> QED BY <1>4, <1>5, <1>6

-----------------------------------------------------------------------------
(* The invariant holds at first, and every step keeps it. *)

\* The table is empty.
LEMMA InitIInv == Init => IInv
<1> SUFFICES ASSUME Init PROVE IInv
  OBVIOUS
<1>1. Typed /\ CallersTyped
  BY RegistryAssumption DEF Init, Typed, CallersTyped
<1>2. Counted
  <2>1. \A id \in Ids : RunningOn(id) = {}
    BY DEF Init, RunningOn
  <2> QED BY <2>1, FS_EmptySet DEF Init, Counted
<1>3. Locked /\ Bounded /\ Told
  BY FS_EmptySet, RegistryAssumption DEF Init, Locked, Bounded, Told, RemovalSentOnce
<1> QED BY <1>1, <1>2, <1>3 DEF IInv

\* What a creator does.
LEMMA CreatingStep ==
    ASSUME IInv, Creating
    PROVE  IInv'
<1>1. UNCHANGED <<active, caller, target>>
  BY DEF Creating, CreateWithRoom, StartEviction, Consider, Evict, RefuseFull, calling
<1>2. CallersTyped' /\ Counted'
  <2>1. \A id \in Ids : RunningOn(id)' = RunningOn(id)
    BY <1>1 DEF RunningOn
  <2> QED BY <1>1, <2>1 DEF IInv, CallersTyped, Counted
<1>3. CASE CreateWithRoom
  BY <1>2, <1>3, CreateKeeps DEF IInv
<1>4. CASE Evict
  BY <1>2, <1>4, EvictKeeps DEF IInv
<1>5. ASSUME Consider \/ RefuseFull \/ \E w \in Creators : StartEviction(w)
      PROVE  IInv'
  <2>1. UNCHANGED <<table, born, idle, leaving, sent, scan, unscanned, expired>>
    BY <1>5 DEF Consider, RefuseFull, StartEviction, cleaning
  <2>2. Bounded' /\ Told'
    BY <2>1 DEF IInv, Bounded, Told, RemovalSentOnce
  <2>3. CASE Consider
    BY <2>1, <2>2, <2>3, <1>2 DEF IInv, Typed, Locked, Consider, NoWriter
  <2>4. CASE RefuseFull
    BY <2>1, <2>2, <2>4, <1>2, RegistryAssumption
    DEF IInv, Typed, Locked, RefuseFull, ReleaseWriteLock, NoWriter
  <2>5. ASSUME NEW w \in Creators, StartEviction(w) PROVE IInv'
    BY <2>1, <2>2, <2>5, <1>2, RegistryAssumption
    DEF IInv, Typed, Locked, StartEviction, WriteLockFree, NoWriter
  <2> QED BY <1>5, <2>3, <2>4, <2>5
<1> QED BY <1>3, <1>4, <1>5 DEF Creating

\* What a caller does: only an expired session it found leaves the table.
LEMMA CallingStep ==
    ASSUME IInv, NEW c \in Callers, Calling(c)
    PROVE  IInv'
<1>1. UNCHANGED <<born, leaving, creating, cleaning>>
  BY DEF Calling, Lookup, FoundLive, FoundExpired, RemoveExpired, Touch, BeginCall, EndCall
<1>2. Typed' /\ Locked' /\ Bounded' /\ Told'
  <2>1. CASE RemoveExpired(c)
    <3> DEFINE gone == {target[c]} \intersect table
    <3>1. RemoveAndSend(gone) /\ gone \subseteq table /\ UNCHANGED idle /\ NoWriter
      BY <2>1 DEF RemoveExpired, WriteLockFree
    <3> HIDE DEF gone
    <3>2. Bounded' /\ Told' /\ table' \subseteq table
      BY <3>1, <1>1, RemovalKeeps DEF IInv
    <3> QED BY <3>1, <3>2, <1>1 DEF IInv, Typed, Locked, NoWriter, creating, cleaning
  <2>2. CASE ~RemoveExpired(c)
    <3>1. UNCHANGED <<table, sent>> /\ idle' \in [Ids -> 0..MaxAge]
      BY <2>2, RegistryAssumption
      DEF Calling, Lookup, FoundLive, FoundExpired, Touch, BeginCall, EndCall, IInv, Typed
    <3> QED BY <3>1, <1>1
        DEF IInv, Typed, Locked, Bounded, Told, RemovalSentOnce, NoWriter, creating, cleaning
  <2> QED BY <2>1, <2>2
<1>3. CallersTyped'
  <2>1. ASSUME NEW id \in Ids, Lookup(c, id) PROVE CallersTyped'
    BY <2>1 DEF Lookup, At, IInv, CallersTyped
  <2>2. CASE FoundLive(c) \/ FoundExpired(c) \/ Touch(c) \/ BeginCall(c)
    BY <2>2 DEF FoundLive, FoundExpired, Touch, BeginCall, At, IInv, CallersTyped
  <2>3. CASE RemoveExpired(c) \/ EndCall(c)
    BY <2>3 DEF RemoveExpired, EndCall, At, IInv, CallersTyped
  <2> QED BY <2>1, <2>2, <2>3 DEF Calling
<1>4. Counted'
  <2>1. ASSUME NEW id \in Ids, Lookup(c, id) PROVE Counted'
    <3>1. \A d \in Callers \ {c} : target'[d] = target[d]
      BY <2>1 DEF Lookup, IInv, CallersTyped
    <3> QED BY <2>1, <3>1, MoveKeepsCounts DEF Lookup, At, IInv
  <2>2. CASE FoundLive(c) \/ FoundExpired(c) \/ Touch(c)
    BY <2>2, MoveKeepsCounts DEF FoundLive, FoundExpired, Touch, At, IInv
  <2>3. CASE RemoveExpired(c)
    <3>1. \A d \in Callers \ {c} : target'[d] = target[d]
      BY <2>3 DEF RemoveExpired, IInv, CallersTyped
    <3> QED BY <2>3, <3>1, MoveKeepsCounts DEF RemoveExpired, At, IInv
  <2>4. CASE BeginCall(c)
    BY <2>4, BeginCounts DEF IInv
  <2>5. CASE EndCall(c)
    BY <2>5, EndCounts DEF IInv
  <2> QED BY <2>1, <2>2, <2>3, <2>4, <2>5 DEF Calling
<1> QED BY <1>2, <1>3, <1>4 DEF IInv

\* What the cleanup task does.
LEMMA CleanupStep ==
    ASSUME IInv, Cleanup
    PROVE  IInv'
<1>1. UNCHANGED <<born, leaving, idle, active, creating, calling>>
  BY DEF Cleanup, StartScan, ScanOne, EndScan, RemoveScanned
<1>2. CallersTyped' /\ Counted'
  <2>1. \A id \in Ids : RunningOn(id)' = RunningOn(id)
    BY <1>1 DEF RunningOn, calling
  <2> QED BY <1>1, <2>1 DEF IInv, CallersTyped, Counted, calling
<1>3. CASE RemoveScanned
  <2> DEFINE gone == expired \intersect table
  <2>1. RemoveAndSend(gone) /\ gone \subseteq table /\ NoWriter
        /\ scan' = "sleep" /\ expired' = {} /\ UNCHANGED unscanned
    BY <1>3 DEF RemoveScanned
  <2> HIDE DEF gone
  <2>2. Bounded' /\ Told' /\ table' \subseteq table
    BY <2>1, <1>1, RemovalKeeps DEF IInv
  <2>3. Typed' /\ Locked'
    BY <2>1, <2>2, <1>1 DEF IInv, Typed, Locked, NoWriter, creating
  <2> QED BY <2>2, <2>3, <1>2 DEF IInv
<1>4. CASE StartScan \/ ScanOne \/ EndScan
  <2>1. UNCHANGED <<table, sent>>
    BY <1>4 DEF StartScan, ScanOne, EndScan
  <2>2. Typed'
    BY <2>1, <1>1, <1>4 DEF IInv, Typed, StartScan, ScanOne, EndScan, creating
  <2>3. Locked' /\ Bounded' /\ Told'
    BY <2>1, <1>1 DEF IInv, Locked, Bounded, Told, RemovalSentOnce, NoWriter, creating
  <2> QED BY <2>2, <2>3, <1>2 DEF IInv
<1> QED BY <1>3, <1>4 DEF Cleanup

\* A deletion takes its session out under the lock and tells of it afterwards.
LEMMA DeletionStep ==
    ASSUME IInv, NEW id \in Ids, Delete(id) \/ SendDeleted(id)
    PROVE  IInv'
<1>1. UNCHANGED <<born, idle, active, creating, cleaning, calling>>
  BY DEF Delete, SendDeleted
<1>2. CallersTyped' /\ Counted'
  <2>1. \A x \in Ids : RunningOn(x)' = RunningOn(x)
    BY <1>1 DEF RunningOn, calling
  <2> QED BY <1>1, <2>1 DEF IInv, CallersTyped, Counted, calling
<1>3. CASE Delete(id)
  <2>1. /\ id \in table /\ table' = table \ {id} /\ leaving' = leaving \union {id}
        /\ UNCHANGED sent /\ NoWriter
    BY <1>3 DEF Delete, WriteLockFree
  <2>2. Typed' /\ Locked'
    BY <2>1, <1>1 DEF IInv, Typed, Locked, NoWriter, creating, cleaning
  <2>3. Bounded'
    <3>1. IsFiniteSet(table') /\ Cardinality(table') = Cardinality(table) - 1
      BY <2>1, FS_RemoveElement DEF IInv, Bounded
    <3> QED BY <3>1, FS_CardinalityType, RegistryAssumption DEF IInv, Bounded
  <2>4. Told'
    BY <2>1, <1>1 DEF IInv, Told, RemovalSentOnce, Typed
  <2> QED BY <2>2, <2>3, <2>4, <1>2 DEF IInv
<1>4. CASE SendDeleted(id)
  <2>1. /\ id \in leaving /\ leaving' = leaving \ {id} /\ UNCHANGED table
        /\ sent' = [sent EXCEPT ![id] = @ + 1]
    BY <1>4 DEF SendDeleted
  <2>2. Typed' /\ Locked' /\ Bounded'
    BY <2>1, <1>1 DEF IInv, Typed, Locked, Bounded, NoWriter, creating, cleaning
  <2>3. Told'
    BY <2>1, <1>1 DEF IInv, Told, RemovalSentOnce, Typed
  <2> QED BY <2>2, <2>3, <1>2 DEF IInv
<1> QED BY <1>3, <1>4

\* Creators, callers, the cleanup task and deletions each by a lemma; time changes only ages.
LEMMA NextIInv == IInv /\ [Next]_vars => IInv'
<1> SUFFICES ASSUME IInv, [Next]_vars PROVE IInv'
  OBVIOUS
<1>1. CASE Creating
  BY <1>1, CreatingStep
<1>2. ASSUME NEW c \in Callers, Calling(c) PROVE IInv'
  BY <1>2, CallingStep
<1>3. CASE Cleanup
  BY <1>3, CleanupStep
<1>4. ASSUME NEW id \in Ids, Delete(id) \/ SendDeleted(id) PROVE IInv'
  BY <1>4, DeletionStep
<1>5. ASSUME Tick \/ UNCHANGED vars PROVE IInv'
  <2>1. /\ UNCHANGED <<table, born, active, leaving, sent, creating, cleaning, calling>>
        /\ idle' \in [Ids -> 0..MaxAge]
    BY <1>5, RegistryAssumption DEF Tick, vars, creating, cleaning, calling, IInv, Typed
  <2>2. CallersTyped' /\ Counted'
    <3>1. \A id \in Ids : RunningOn(id)' = RunningOn(id)
      BY <2>1 DEF RunningOn, calling
    <3> QED BY <2>1, <3>1 DEF IInv, CallersTyped, Counted, calling
  <2>3. Typed' /\ Locked' /\ Bounded' /\ Told'
    BY <2>1
    DEF IInv, Typed, Locked, Bounded, Told, RemovalSentOnce, NoWriter, creating, cleaning
  <2> QED BY <2>2, <2>3 DEF IInv
<1> QED BY <1>1, <1>2, <1>3, <1>4, <1>5 DEF Next

\* The invariant holds in every reachable state.
THEOREM Invariance == Spec => []IInv
<1> QED BY InitIInv, NextIInv, PTL DEF Spec

-----------------------------------------------------------------------------
(* What the table promises, from the invariant. *)

\* The variables keep their types; no active-call count goes below zero.
THEOREM TypesHold == Spec => []TypeOK
<1>1. IInv => TypeOK
  BY DEF IInv, Typed, CallersTyped, Counted, Told, TypeOK
<1> QED BY Invariance, <1>1, PTL

\* Concurrent creations never overshoot max_sessions, evictions included (create_session,
\* admit).
THEOREM CapacityIsKept == Spec => []CapacityKept
<1>1. IInv => CapacityKept
  BY DEF IInv, Bounded, CapacityKept
<1> QED BY Invariance, <1>1, PTL

\* A session that left the table has its removal sent once, whichever of a delete, an
\* eviction, an expiring lookup and the cleanup took it out (SessionManager::session_removed).
THEOREM RemovalIsSentOnce == Spec => []RemovalSentOnce
<1>1. IInv => RemovalSentOnce
  BY DEF IInv, Told
<1> QED BY Invariance, <1>1, PTL

\* A session's active-call count is the number of calls that run on it: what the cleanup and
\* the eviction look at (ActiveCallGuard).
THEOREM ActiveCallsCounted == Spec => [](\A id \in Ids : active[id] = Cardinality(RunningOn(id)))
<1>1. IInv => \A id \in Ids : active[id] = Cardinality(RunningOn(id))
  BY DEF IInv, Counted
<1> QED BY Invariance, <1>1, PTL
=============================================================================
