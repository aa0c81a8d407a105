--------------------------- MODULE SessionRegistry ---------------------------
(***************************************************************************)
(* The table of live sessions (crates/p2a-mcp/src/session.rs,              *)
(* `SessionManager`): creation with eviction, lookup with expiry, deletion *)
(* and the cleanup task, against callers that look a session up and then   *)
(* run a call on it.                                                       *)
(*                                                                         *)
(* The table is behind a read-write lock; a session's last access and      *)
(* active-call count are not, so they change while a writer or the cleanup *)
(* looks at them. Session ids are fresh UUIDs and never come back here     *)
(* (stored sessions made live again are PersistentSessions').              *)
(***************************************************************************)
EXTENDS Naturals, FiniteSets

CONSTANTS
    Ids,         \* the sessions of the run
    Creators,    \* clients that create sessions
    Callers,     \* clients that look sessions up and run calls
    MaxSessions, \* the capacity of the table
    Ttl,         \* idle time after which a session expires
    EvictIdle,   \* idle time after which it may be evicted (past MaxAge: never)
    MaxAge,      \* bound on the idle time counted
    NoId         \* no session

ASSUME RegistryAssumption ==
    /\ MaxSessions \in Nat \ {0}
    /\ Ttl \in Nat /\ EvictIdle \in Nat
    /\ MaxAge \in Nat /\ MaxAge > Ttl
    /\ NoId \notin Ids \union Creators /\ IsFiniteSet(Callers)

VARIABLES
    table,     \* the live sessions
    born,      \* the sessions ever created
    idle,      \* how long ago each session was last accessed
    active,    \* Session::active_calls
    writer,    \* the creator that holds the table's write lock over several steps
    unseen,    \* what a scan under the lock has still to look at
    victim,    \* the eviction candidate so far
    oldest,    \* how long it was idle when it was looked at
    scan,      \* the cleanup task: "sleep", "scan" (read lock held), "remove"
    unscanned, \* what it has still to look at
    expired,   \* what it found expired
    caller,    \* where each caller is
    target,    \* the session it works on
    leaving,   \* deleted sessions whose removal is still to be sent
    sent       \* how often each session's removal was sent

vars == <<table, born, idle, active, writer, unseen, victim, oldest, scan, unscanned, expired,
          caller, target, leaving, sent>>

creating == <<writer, unseen, victim, oldest>>
cleaning == <<scan, unscanned, expired>>
calling == <<caller, target>>

NoWriter == writer = NoId
WriteLockFree == NoWriter /\ scan # "scan"

IsExpired(id) == idle[id] > Ttl

Init ==
    /\ table = {} /\ born = {}
    /\ idle = [id \in Ids |-> 0]
    /\ active = [id \in Ids |-> 0]
    /\ writer = NoId /\ unseen = {} /\ victim = NoId /\ oldest = 0
    /\ scan = "sleep" /\ unscanned = {} /\ expired = {}
    /\ caller = [c \in Callers |-> "idle"]
    /\ target = [c \in Callers |-> NoId]
    /\ leaving = {}
    /\ sent = [id \in Ids |-> 0]

\* Sessions `gone` leave the table in this step; their removal is sent with it.
RemoveAndSend(gone) ==
    /\ table' = table \ gone
    /\ sent' = [id \in Ids |-> IF id \in gone THEN sent[id] + 1 ELSE sent[id]]

-----------------------------------------------------------------------------
\* create_session and admit: one write lock over the capacity check and the insert.

Insert(id) == id \in Ids \ born /\ born' = born \union {id}

\* [mutant] One session too many fits.
CreateWithoutRoom ==
    /\ WriteLockFree
    /\ Cardinality(table) <= MaxSessions
    /\ \E id \in Ids : Insert(id) /\ table' = table \union {id}
    /\ UNCHANGED <<idle, active, leaving, sent>>
    /\ UNCHANGED <<creating, cleaning, calling>>

CreateWithRoom ==
    /\ WriteLockFree
    /\ Cardinality(table) < MaxSessions
    /\ \E id \in Ids : Insert(id) /\ table' = table \union {id}
    /\ UNCHANGED <<idle, active, leaving, sent>>
    /\ UNCHANGED <<creating, cleaning, calling>>

StartEviction(w) ==
    /\ WriteLockFree
    /\ Cardinality(table) >= MaxSessions
    /\ Ids # born
    /\ writer' = w /\ unseen' = table
    /\ UNCHANGED <<victim, oldest, table, born, idle, active, leaving, sent>>
    /\ UNCHANGED <<cleaning, calling>>

Evictable(id) == active[id] = 0 /\ idle[id] >= EvictIdle

\* The candidate is the session seen so far that was idle longest.
Consider ==
    /\ \E id \in unseen :
          /\ unseen' = unseen \ {id}
          /\ IF Evictable(id) /\ (victim = NoId \/ idle[id] > oldest)
             THEN victim' = id /\ oldest' = idle[id]
             ELSE UNCHANGED <<victim, oldest>>
    /\ UNCHANGED <<table, born, idle, active, writer, leaving, sent>>
    /\ UNCHANGED <<cleaning, calling>>

ReleaseWriteLock == writer' = NoId /\ victim' = NoId /\ oldest' = 0 /\ UNCHANGED unseen

\* The candidate leaves and the new session takes its place,
Evict ==
    /\ writer # NoId /\ unseen = {} /\ victim # NoId
    /\ \E id \in Ids :
          /\ Insert(id)
          /\ table' = (table \ {victim}) \union {id}
          /\ sent' = [sent EXCEPT ![victim] = @ + 1]
    /\ ReleaseWriteLock
    /\ UNCHANGED <<idle, active, leaving>>
    /\ UNCHANGED <<cleaning, calling>>

\* or, with no candidate, the creator is refused (MaxSessionsReached).
RefuseFull ==
    /\ writer # NoId /\ unseen = {} /\ victim = NoId
    /\ ReleaseWriteLock
    /\ UNCHANGED <<table, born, idle, active, leaving, sent>>
    /\ UNCHANGED <<cleaning, calling>>

-----------------------------------------------------------------------------
\* get_session, and the call its caller runs.

At(c, from, to) == caller[c] = from /\ caller' = [caller EXCEPT ![c] = to]

\* The session is cloned out of the table and the read lock dropped.
Lookup(c, id) ==
    /\ NoWriter
    /\ id \in table
    /\ At(c, "idle", "found")
    /\ target' = [target EXCEPT ![c] = id]
    /\ UNCHANGED <<table, born, idle, active, leaving, sent>>
    /\ UNCHANGED <<creating, cleaning>>

SeemsExpired(id) == active[id] = 0 /\ IsExpired(id)

FoundLive(c) ==
    /\ At(c, "found", "touch")
    /\ ~SeemsExpired(target[c])
    /\ UNCHANGED <<table, born, idle, active, target, leaving, sent>>
    /\ UNCHANGED <<creating, cleaning>>

FoundExpired(c) ==
    /\ At(c, "found", "expiring")
    /\ SeemsExpired(target[c])
    /\ UNCHANGED <<table, born, idle, active, target, leaving, sent>>
    /\ UNCHANGED <<creating, cleaning>>

\* [mutant] The removal is sent whether or not the session was still there.
RemoveExpiredBlindly(c) ==
    /\ WriteLockFree
    /\ At(c, "expiring", "idle")
    /\ RemoveAndSend({target[c]})
    /\ target' = [target EXCEPT ![c] = NoId]
    /\ UNCHANGED <<born, idle, active, leaving>>
    /\ UNCHANGED <<creating, cleaning>>

\* The write lock is taken later, and nothing is checked again under it.
RemoveExpired(c) ==
    /\ WriteLockFree
    /\ At(c, "expiring", "idle")
    /\ RemoveAndSend({target[c]} \intersect table)
    /\ target' = [target EXCEPT ![c] = NoId]
    /\ UNCHANGED <<born, idle, active, leaving>>
    /\ UNCHANGED <<creating, cleaning>>

Touch(c) ==
    /\ At(c, "touch", "has")
    /\ idle' = [idle EXCEPT ![target[c]] = 0]
    /\ UNCHANGED <<table, born, active, target, leaving, sent>>
    /\ UNCHANGED <<creating, cleaning>>

\* The governor counts the call once it holds its permits, whatever became of the session.
BeginCall(c) ==
    /\ At(c, "has", "running")
    /\ active' = [active EXCEPT ![target[c]] = @ + 1]
    /\ UNCHANGED <<table, born, idle, target, leaving, sent>>
    /\ UNCHANGED <<creating, cleaning>>

\* [mutants] The call's guard counts down twice,
EndCallTwice(c) ==
    /\ At(c, "running", "idle")
    /\ active' = [active EXCEPT ![target[c]] = @ - 2]
    /\ target' = [target EXCEPT ![c] = NoId]
    /\ UNCHANGED <<table, born, idle, leaving, sent>>
    /\ UNCHANGED <<creating, cleaning>>

\* or leaves the last running call counted.
EndCallLeaking(c) ==
    /\ At(c, "running", "idle")
    /\ active' = [active EXCEPT ![target[c]] = IF @ > 1 THEN @ - 1 ELSE @]
    /\ target' = [target EXCEPT ![c] = NoId]
    /\ UNCHANGED <<table, born, idle, leaving, sent>>
    /\ UNCHANGED <<creating, cleaning>>

\* A call that succeeded touches the session before its count goes down.
EndCall(c) ==
    /\ At(c, "running", "idle")
    /\ active' = [active EXCEPT ![target[c]] = @ - 1]
    /\ \/ idle' = [idle EXCEPT ![target[c]] = 0]
       \/ UNCHANGED idle
    /\ target' = [target EXCEPT ![c] = NoId]
    /\ UNCHANGED <<table, born, leaving, sent>>
    /\ UNCHANGED <<creating, cleaning>>

-----------------------------------------------------------------------------
\* delete_session sends the removal once the lock is dropped.

Delete(id) ==
    /\ WriteLockFree
    /\ id \in table
    /\ table' = table \ {id}
    /\ leaving' = leaving \union {id}
    /\ UNCHANGED <<born, idle, active, sent>>
    /\ UNCHANGED <<creating, cleaning, calling>>

SendDeleted(id) ==
    /\ id \in leaving
    /\ leaving' = leaving \ {id}
    /\ sent' = [sent EXCEPT ![id] = @ + 1]
    /\ UNCHANGED <<table, born, idle, active>>
    /\ UNCHANGED <<creating, cleaning, calling>>

-----------------------------------------------------------------------------
\* cleanup_expired: the expired sessions are listed under the read lock and removed
\* under the write lock, taken afterwards.

StartScan ==
    /\ NoWriter
    /\ scan = "sleep" /\ scan' = "scan"
    /\ unscanned' = table /\ expired' = {}
    /\ UNCHANGED <<table, born, idle, active, leaving, sent>>
    /\ UNCHANGED <<creating, calling>>

ScanOne ==
    /\ scan = "scan"
    /\ \E id \in unscanned :
          /\ unscanned' = unscanned \ {id}
          /\ expired' = IF SeemsExpired(id) THEN expired \union {id} ELSE expired
    /\ UNCHANGED <<table, born, idle, active, scan, leaving, sent>>
    /\ UNCHANGED <<creating, calling>>

EndScan ==
    /\ scan = "scan" /\ unscanned = {}
    /\ scan' = IF expired = {} THEN "sleep" ELSE "remove"
    /\ UNCHANGED <<table, born, idle, active, unscanned, expired, leaving, sent>>
    /\ UNCHANGED <<creating, calling>>

RemoveScanned ==
    /\ NoWriter
    /\ scan = "remove" /\ scan' = "sleep"
    /\ RemoveAndSend(expired \intersect table)
    /\ expired' = {}
    /\ UNCHANGED <<born, idle, active, unscanned, leaving>>
    /\ UNCHANGED <<creating, calling>>

-----------------------------------------------------------------------------

\* Time passes. `admit` reads the clock once, before it looks at the sessions.
Tick ==
    /\ NoWriter
    /\ idle' = [id \in Ids |-> IF id \in born /\ idle[id] < MaxAge THEN idle[id] + 1
                               ELSE idle[id]]
    /\ idle' # idle
    /\ UNCHANGED <<table, born, active, leaving, sent>>
    /\ UNCHANGED <<creating, cleaning, calling>>

Creating == \/ CreateWithRoom \/ Consider \/ Evict \/ RefuseFull
            \/ \E w \in Creators : StartEviction(w)

Calling(c) ==
    \/ \E id \in Ids : Lookup(c, id)
    \/ FoundLive(c) \/ FoundExpired(c) \/ RemoveExpired(c) \/ Touch(c)
    \/ BeginCall(c) \/ EndCall(c)

Cleanup == StartScan \/ ScanOne \/ EndScan \/ RemoveScanned

Next == \/ Creating \/ Cleanup \/ Tick
        \/ \E c \in Callers : Calling(c)
        \/ \E id \in Ids : Delete(id) \/ SendDeleted(id)

\* The cleanup task wakes up for ever, lock holders go on, deletions finish, time passes.
\* No client has to do anything. tokio's lock is first come first served: nobody waiting
\* for it is overtaken for ever.
Fairness ==
    /\ SF_vars(StartScan) /\ WF_vars(ScanOne) /\ WF_vars(EndScan) /\ SF_vars(RemoveScanned)
    /\ WF_vars(Consider \/ Evict \/ RefuseFull)
    /\ \A id \in Ids : WF_vars(SendDeleted(id))
    /\ SF_vars(Tick)

Spec == Init /\ [][Next]_vars /\ Fairness

-----------------------------------------------------------------------------
(* What the table promises. *)

TypeOK ==
    /\ table \subseteq born /\ born \subseteq Ids
    /\ idle \in [Ids -> 0..MaxAge]
    /\ active \in [Ids -> Nat]
    /\ writer \in Creators \union {NoId}
    /\ unseen \subseteq Ids /\ victim \in Ids \union {NoId} /\ oldest \in 0..MaxAge
    /\ scan \in {"sleep", "scan", "remove"}
    /\ unscanned \subseteq Ids /\ expired \subseteq Ids
    /\ caller \in [Callers -> {"idle", "found", "touch", "expiring", "has", "running"}]
    /\ target \in [Callers -> Ids \union {NoId}]
    /\ leaving \subseteq Ids
    /\ sent \in [Ids -> Nat]

\* Concurrent creations never overshoot the capacity.
CapacityKept == Cardinality(table) <= MaxSessions

\* Each session that left the table has its removal sent once, after it left, however
\* many of a delete, an eviction, a lookup and the cleanup race for it.
RemovalSentOnce ==
    \A id \in Ids : sent[id] = IF id \in born \ (table \union leaving) THEN 1 ELSE 0

\* A session nobody uses leaves the table in the end, unless it is used again or a caller's
\* call still runs on it: no count of calls that ended keeps it.
IdleSessionLeaves ==
    \A id \in Ids :
        id \in table ~> \/ id \notin table
                        \/ idle[id] = 0
                        \/ \E c \in Callers : caller[c] = "running" /\ target[c] = id

\* "A session with a running call is never evicted or expired by the cleanup task."
RunningSessionStays ==
    [][\A id \in Ids :
          (Evict \/ RemoveScanned) /\ id \in table /\ id \notin table' => active[id] = 0]_vars
=============================================================================
