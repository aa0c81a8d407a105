------------------------------ MODULE MemoryGate ------------------------------
(***************************************************************************)
(* The memory gate in front of tool calls and the watchdog behind it       *)
(* (crates/p2a-mcp/src/exec.rs, `MemoryGate`, `ToolGovernor::health` and   *)
(* `StuckWatchdog`; transport/http.rs, `spawn_health_readers`).            *)
(*                                                                         *)
(* A call is refused while the process memory is above the soft limit.     *)
(* Memory whose data is gone may stay with the process until a hand-back   *)
(* returns it; hand-backs are made by calls at the gate and by whoever     *)
(* reads the governor's health. Memory is counted in a few units, time in  *)
(* ticks of the health poll. Every call has a deadline, and one past it    *)
(* keeps its permit (detached work); the semaphores and the answer to the  *)
(* caller are ToolGovernor's.                                              *)
(***************************************************************************)
EXTENDS Naturals, FiniteSets

CONSTANTS
    Calls,      \* callers, each making any number of calls in turn
    Capacity,   \* permits of the governor
    Limit,      \* the memory soft limit, in units
    MaxMemory,  \* bound on the process memory
    Interval,   \* least number of ticks between two hand-backs
    StuckExit,  \* ticks of unhealth after which the watchdog exits the process
    Watched,    \* TRUE: the poll is the watchdog's; FALSE: a plain poll
    MaxJobs,    \* bound on hand-backs under way at once (time waits for them)
    Readers,    \* those who read the health: "poll", the server's own, and GET /health
    NoReading   \* a health reader that is not reading

ASSUME GateAssumption ==
    /\ Capacity \in Nat \ {0} /\ Limit \in Nat /\ MaxMemory \in Nat /\ MaxJobs \in Nat \ {0}
    /\ Interval \in Nat \ {0} /\ StuckExit \in Nat
    /\ Watched \in BOOLEAN /\ "poll" \in Readers

VARIABLES
    call,     \* where each caller's call is
    live,     \* memory with data in it
    kept,     \* memory the allocator keeps after its data was freed
    rested,   \* ticks since the last hand-back was claimed, capped at Interval
    stuck,    \* ReleaseState::stuck
    jobs,     \* the hand-backs under way
    reading,  \* what each health reader has read before it decides
    doubtful, \* ticks since the watchdog's unhealthy_since (healthy: StuckExit + 1)
    exited,   \* the watchdog has exited the process
    polled,   \* the poll has read the health since the last tick
    fitting,  \* calm ticks in a row, see Calm
    trouble   \* ticks since enough of them followed each other, see Recovered

vars == <<call, live, kept, rested, stuck, jobs, reading, doubtful, exited, polled, fitting, trouble>>

memory == <<live, kept>>
gate == <<rested, stuck, jobs>>
watch == <<reading, doubtful, exited, polled>>
ghosts == <<fitting, trouble>>

Rss == live + kept
Running == {c \in Calls : call[c] = "running"}
Overdue == {c \in Calls : call[c] = "overdue"}
Idle == Running = {}   \* running_and_overdue: no call within its deadline
Saturated == Cardinality(Overdue) >= Capacity
Healthy == StuckExit + 1

Init ==
    /\ call = [c \in Calls |-> "out"]
    /\ live = 0 /\ kept = 0
    /\ rested = Interval /\ stuck = FALSE /\ jobs = {}
    /\ reading = [r \in Readers |-> NoReading]
    /\ doubtful = Healthy /\ exited = FALSE /\ polled = FALSE /\ fitting = 0 /\ trouble = 0

-----------------------------------------------------------------------------
\* Hand-backs: claimed under the lock, run on the blocking pool.

Due == rested = Interval

\* claim_release, and the job handed to the pool; `by` may wait for it. (Two jobs that have the
\* same claimant, step and findings count as one.)
HandBack(by, idle) ==
    /\ rested' = 0
    /\ jobs' = jobs \union {[by |-> by, idle |-> idle, over |-> FALSE, step |-> "release"]}

Step(j, to) == jobs' = (jobs \ {j}) \union {to}

\* Every free page goes back to the operating system,
Release(j) ==
    /\ j.step = "release"
    /\ kept' = 0
    /\ Step(j, [j EXCEPT !.step = "reread"])
    /\ UNCHANGED <<call, live, rested, stuck>> /\ UNCHANGED ghosts /\ UNCHANGED watch

\* the memory is read again,
Reread(j) ==
    /\ j.step = "reread"
    /\ Step(j, [j EXCEPT !.step = "record", !.over = Rss > Limit])
    /\ UNCHANGED <<call, rested, stuck>> /\ UNCHANGED ghosts /\ UNCHANGED <<memory, watch>>

\* and the outcome recorded. The caller that waits for it is let through or refused.
Answered(j) ==
    IF j.by \in Calls /\ call[j.by] = "waiting"
    THEN [call EXCEPT ![j.by] = IF j.over THEN "out" ELSE "admitted"]
    ELSE call

Record(j) ==
    /\ j.step = "record"
    /\ stuck' = (j.idle /\ j.over)
    /\ jobs' = jobs \ {j}
    /\ call' = Answered(j)
    /\ UNCHANGED rested /\ UNCHANGED ghosts /\ UNCHANGED <<memory, watch>>

-----------------------------------------------------------------------------
\* A call at the gate (MemoryGate::refusal), and in the permits.

At(c, from, to) == call[c] = from /\ call' = [call EXCEPT ![c] = to]

AskUnderLimit(c) ==
    /\ Rss <= Limit
    /\ At(c, "out", "clearing")
    /\ UNCHANGED <<gate, ghosts>> /\ UNCHANGED <<memory, watch>>

\* The memory may have grown since it was read.
ClearOnEntry(c) ==
    /\ At(c, "clearing", "admitted")
    /\ stuck' = FALSE
    /\ UNCHANGED <<rested, jobs>> /\ UNCHANGED ghosts /\ UNCHANGED <<memory, watch>>

AskOverLimit(c) ==
    /\ Rss > Limit
    /\ At(c, "out", "claiming")
    /\ UNCHANGED <<gate, ghosts>> /\ UNCHANGED <<memory, watch>>

\* A hand-back that is not due refuses the call at once.
RefuseEarly(c) ==
    /\ ~Due
    /\ At(c, "claiming", "out")
    /\ UNCHANGED <<gate, ghosts>> /\ UNCHANGED <<memory, watch>>

Claim(c) ==
    /\ Due
    /\ At(c, "claiming", "waiting")
    /\ HandBack(c, Idle)
    /\ UNCHANGED stuck /\ UNCHANGED ghosts /\ UNCHANGED <<memory, watch>>

\* The client may leave while it waits: for the job, which goes on, or for a permit.
Leave(c) ==
    /\ \/ At(c, "waiting", "out")
       \/ At(c, "admitted", "out")
    /\ UNCHANGED <<gate, ghosts>> /\ UNCHANGED <<memory, watch>>

\* [mutant] Work past its deadline holds no permit.
StartBesideOverdue(c) ==
    /\ Cardinality(Running) < Capacity
    /\ At(c, "admitted", "running")
    /\ UNCHANGED <<gate, ghosts>> /\ UNCHANGED <<memory, watch>>

Start(c) ==
    /\ Cardinality(Running \union Overdue) < Capacity
    /\ At(c, "admitted", "running")
    /\ UNCHANGED <<gate, ghosts>> /\ UNCHANGED <<memory, watch>>

DeadlinePasses(c) ==
    /\ At(c, "running", "overdue")
    /\ fitting' = IF Saturated' THEN 0 ELSE fitting
    /\ UNCHANGED trouble /\ UNCHANGED <<gate, memory, watch>>

End(c) ==
    /\ \/ At(c, "running", "out")
       \/ At(c, "overdue", "out")
    /\ UNCHANGED <<gate, ghosts>> /\ UNCHANGED <<memory, watch>>

-----------------------------------------------------------------------------
\* Data comes with work on a thread, in kept memory or in new, and goes with calls,
\* sessions and datasets; the allocator keeps the memory or returns it by itself.

Allocate ==
    /\ Running \union Overdue # {}
    /\ live' = live + 1
    /\ \/ kept > 0 /\ kept' = kept - 1
       \/ Rss < MaxMemory /\ UNCHANGED kept
    /\ fitting' = IF Rss' > Limit THEN 0 ELSE fitting
    /\ UNCHANGED <<call, trouble>> /\ UNCHANGED <<gate, watch>>

Drop ==
    /\ live > 0 /\ live' = live - 1
    /\ kept' \in {kept, kept + 1}
    /\ UNCHANGED call /\ UNCHANGED ghosts /\ UNCHANGED <<gate, watch>>

-----------------------------------------------------------------------------
\* Reading the health: the counts and the memory first, then MemoryGate::stuck.

Read(r) ==
    /\ reading[r] = NoReading
    /\ reading' = [reading EXCEPT ![r] = [over |-> Rss > Limit, idle |-> Idle, full |-> Saturated]]
    /\ UNCHANGED <<call, doubtful, exited, polled>> /\ UNCHANGED ghosts /\ UNCHANGED <<memory, gate>>

\* [mutant] Each unhealthy observation starts the watchdog's clock again.
ObserveAfresh(healthy) ==
    /\ doubtful' = IF healthy THEN Healthy ELSE 0
    /\ exited' = (Watched /\ ~healthy /\ doubtful' >= StuckExit)

\* [mutant] A healthy observation does not stop it.
ObserveUnforgiving(healthy) ==
    /\ doubtful' = IF doubtful = Healthy /\ ~healthy THEN 0 ELSE doubtful
    /\ exited' = (Watched /\ ~healthy /\ doubtful' >= StuckExit)

\* StuckWatchdog::observe.
Observe(healthy) ==
    /\ doubtful' = IF healthy THEN Healthy ELSE IF doubtful = Healthy THEN 0 ELSE doubtful
    /\ exited' = (Watched /\ ~healthy /\ doubtful' >= StuckExit)

\* A reader's answer ends its reading; only the poll's is seen by the watchdog.
Report(r, healthy) ==
    /\ reading' = [reading EXCEPT ![r] = NoReading]
    /\ IF r = "poll" THEN Observe(healthy) /\ polled' = TRUE
                     ELSE UNCHANGED <<doubtful, exited, polled>>

Hopeful(r) == ~reading[r].over \/ ~reading[r].idle

\* Under the limit, or with work running that may free memory, the gate is not stuck.
ClearOnRead(r) ==
    /\ reading[r] # NoReading /\ Hopeful(r)
    /\ stuck' = FALSE
    /\ Report(r, ~reading[r].full)
    /\ UNCHANGED <<call, rested, jobs>> /\ UNCHANGED ghosts /\ UNCHANGED memory

\* [mutant] Reading the health starts no hand-back.
HandBackOnReadSkipped(r) ==
    /\ reading[r] # NoReading /\ ~Hopeful(r)
    /\ Due
    /\ Report(r, ~reading[r].full /\ ~stuck)
    /\ UNCHANGED <<call, stuck, rested, jobs>> /\ UNCHANGED ghosts /\ UNCHANGED memory

\* Above it, a due hand-back starts, and what the last one recorded is reported.
HandBackOnRead(r) ==
    /\ reading[r] # NoReading /\ ~Hopeful(r)
    /\ Due /\ HandBack(r, TRUE)
    /\ Report(r, ~reading[r].full /\ ~stuck)
    /\ UNCHANGED <<call, stuck>> /\ UNCHANGED ghosts /\ UNCHANGED memory

ReportOnRead(r) ==
    /\ reading[r] # NoReading /\ ~Hopeful(r)
    /\ ~Due
    /\ Report(r, ~reading[r].full /\ ~stuck)
    /\ UNCHANGED <<call, stuck, rested, jobs>> /\ UNCHANGED ghosts /\ UNCHANGED memory

-----------------------------------------------------------------------------

\* At the end of a tick whose poll was on time and whose hand-backs were made, the data fits
\* and a permit is left: nothing the watchdog is there for. (`fitting` starts again in
\* between when data is added above the limit or the last permit is lost to overdue work.)
Calm == polled /\ jobs = {} /\ reading["poll"] = NoReading /\ live <= Limit /\ ~Saturated

\* So long that a hand-back was due and its outcome read.
Recovered == fitting = Interval + 2

Tick ==
    /\ Cardinality(jobs) < MaxJobs
    /\ rested' = IF rested < Interval THEN rested + 1 ELSE rested
    /\ doubtful' = IF doubtful < StuckExit THEN doubtful + 1 ELSE doubtful
    /\ fitting' = IF ~Calm THEN 0 ELSE IF Recovered THEN fitting ELSE fitting + 1
    /\ trouble' = IF Recovered' THEN 0 ELSE IF trouble < StuckExit THEN trouble + 1 ELSE trouble
    /\ polled' = FALSE
    /\ UNCHANGED <<call, stuck, jobs, reading, exited>> /\ UNCHANGED memory

HandingBack == \E j \in jobs : Release(j) \/ Reread(j) \/ Record(j)

Calling(c) ==
    \/ AskUnderLimit(c) \/ ClearOnEntry(c) \/ AskOverLimit(c) \/ RefuseEarly(c) \/ Claim(c)
    \/ Leave(c) \/ Start(c) \/ DeadlinePasses(c) \/ End(c)

Deciding(r) == ClearOnRead(r) \/ HandBackOnRead(r) \/ ReportOnRead(r)

Next ==
    /\ ~exited
    /\ \/ HandingBack \/ Allocate \/ Drop \/ Tick
       \/ \E c \in Calls : Calling(c)
       \/ \E r \in Readers : Read(r) \/ Deciding(r)

\* The poll wakes for ever, the pool runs what it is given, time passes, and deadlines with
\* it. No caller comes or goes and no work ends because it should.
Fairness ==
    /\ WF_vars(~exited /\ Read("poll")) /\ WF_vars(~exited /\ Tick)
    /\ WF_vars(~exited /\ \E r \in Readers : Deciding(r)) /\ WF_vars(~exited /\ HandingBack)
    /\ \A c \in Calls : WF_vars(~exited /\ DeadlinePasses(c))

Spec == Init /\ [][Next]_vars /\ Fairness

-----------------------------------------------------------------------------
(* What the gate and the watchdog promise. *)

Jobs == [by : Calls \union Readers, idle : BOOLEAN, over : BOOLEAN,
         step : {"release", "reread", "record"}]

TypeOK ==
    /\ call \in [Calls -> {"out", "clearing", "claiming", "waiting", "admitted",
                           "running", "overdue"}]
    /\ Cardinality(Running \union Overdue) <= Capacity
    /\ live \in 0..MaxMemory /\ kept \in 0..MaxMemory /\ Rss <= MaxMemory
    /\ rested \in 0..Interval /\ stuck \in BOOLEAN
    /\ jobs \subseteq Jobs /\ Cardinality(jobs) <= MaxJobs
    /\ reading \in [Readers -> {NoReading} \union [over : BOOLEAN, idle : BOOLEAN, full : BOOLEAN]]
    /\ doubtful \in 0..Healthy /\ exited \in BOOLEAN /\ polled \in BOOLEAN
    /\ fitting \in 0..Interval + 2 /\ trouble \in 0..StuckExit

\* The watchdog exits a server only after a trouble as long as it waits: not one whose data
\* has fitted under the limit, with a permit to spare, for a hand-back's interval since. A
\* stuck flag that is out of date, or set by a hand-back that came late, is put right before.
ExitTakesLastingTrouble == exited => trouble >= StuckExit

\* A process above the limit only with memory whose data is gone gets under it again, also
\* when nobody calls, unless new data takes the place of the old.
MemoryComesBack ==
    Rss > Limit /\ live <= Limit ~> Rss <= Limit \/ live > Limit \/ exited

\* A server that stays above the limit with data nobody can free, or whose permits stay with
\* work past its deadline, is exited in the end.
WedgedServerExits ==
    Watched => /\ <>[](live > Limit) => <>exited
               /\ <>[]Saturated => <>exited
=============================================================================
