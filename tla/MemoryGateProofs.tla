--------------------------- MODULE MemoryGateProofs ---------------------------
(***************************************************************************)
(* Proofs about MemoryGate: types and bounds, and that the watchdog exits  *)
(* a server only after a trouble as long as it waits, for every limit,     *)
(* interval, exit time and number of callers, readers and permits.         *)
(*                                                                         *)
(* The invariant follows one stretch of calm ticks: what a hand-back of    *)
(* the stretch finds, when the stuck flag may still be set, and by when    *)
(* the watchdog has seen it cleared.                                       *)
(***************************************************************************)
EXTENDS MemoryGate, TLAPS, FiniteSetTheorems

-----------------------------------------------------------------------------
(* The invariant. *)

Working == Running \union Overdue
Readings == {NoReading} \union [over : BOOLEAN, idle : BOOLEAN, full : BOOLEAN]

Typed ==
    /\ call \in [Calls -> {"out", "clearing", "claiming", "waiting", "admitted", "running", "overdue"}]
    /\ live \in Nat /\ kept \in Nat /\ Rss <= MaxMemory
    /\ rested \in 0..Interval /\ stuck \in BOOLEAN
    /\ jobs \subseteq Jobs
    /\ reading \in [Readers -> Readings]
    /\ doubtful \in 0..Healthy /\ exited \in BOOLEAN /\ polled \in BOOLEAN
    /\ fitting \in 0..Interval + 2 /\ trouble \in 0..StuckExit

\* Work past its deadline keeps its permit.
Permits == IsFiniteSet(Working) /\ Cardinality(Working) <= Capacity

\* One hand-back a tick at most, and none when the next may come before one is over.
HandBacks ==
    /\ IsFiniteSet(jobs) /\ Cardinality(jobs) <= MaxJobs
    /\ rested > 0 => Cardinality(jobs) < MaxJobs

\* While the data fits, every hand-back began since, and finds that it does.
Fits ==
    fitting > 0 =>
        /\ live <= Limit /\ ~Saturated
        /\ reading["poll"] # NoReading => ~reading["poll"].full
        /\ \A j \in jobs : ~j.over /\ (j.step # "release" => Rss <= Limit)

\* A stuck flag from before goes with the first hand-back that is due, or with the poll's answer.
Clears ==
    fitting > 0 /\ stuck =>
        /\ fitting <= Interval
        /\ jobs = {} => (rested >= fitting /\ (polled => rested < Interval))

\* From then on the watchdog hears that all is well.
Forgives ==
    /\ fitting > Interval /\ polled => doubtful = Healthy
    /\ fitting = Interval + 2 => doubtful = Healthy

\* The watchdog's clock never runs ahead of the trouble.
Clock ==
    /\ doubtful # Healthy => doubtful <= trouble
    /\ exited => trouble >= StuckExit

GateInv == Typed /\ Permits /\ HandBacks /\ Fits /\ Clears /\ Forgives /\ Clock

-----------------------------------------------------------------------------
(* Types. *)

\* A job that goes on to its next step is a job.
LEMMA StepTyped ==
    ASSUME Typed, NEW j \in jobs
    PROVE  /\ j \in Jobs /\ j.over \in BOOLEAN /\ j.idle \in BOOLEAN
           /\ [j EXCEPT !.step = "reread"] \in Jobs
           /\ \A b \in BOOLEAN : [j EXCEPT !.step = "record", !.over = b] \in Jobs
BY DEF Typed, Jobs

\* So is one that is handed to the pool.
LEMMA HandBackTyped ==
    ASSUME Typed, NEW by \in Calls \union Readers, NEW idle \in BOOLEAN, HandBack(by, idle)
    PROVE  rested' \in 0..Interval /\ jobs' \subseteq Jobs
<1>1. [by |-> by, idle |-> idle, over |-> FALSE, step |-> "release"] \in Jobs
  BY DEF Jobs
<1>2. rested' = 0 /\ jobs' = jobs \union {[by |-> by, idle |-> idle, over |-> FALSE, step |-> "release"]}
  BY DEF HandBack
<1>3. jobs' \subseteq Jobs
  BY <1>1, <1>2 DEF Typed
<1>4. rested' \in 0..Interval
  BY <1>2, GateAssumption
<1> QED BY <1>3, <1>4

\* What a reader's answer leaves has its type.
LEMMA ReportTyped ==
    ASSUME Typed, NEW r \in Readers, NEW healthy \in BOOLEAN, Report(r, healthy)
    PROVE  /\ reading' \in [Readers -> Readings]
           /\ doubtful' \in 0..Healthy /\ exited' \in BOOLEAN /\ polled' \in BOOLEAN
<1>1. reading' \in [Readers -> Readings]
  BY DEF Typed, Report, Readings
<1>2. CASE r = "poll"
  <2>1. Observe(healthy) /\ polled' = TRUE
    BY <1>2 DEF Report
  <2>2. doubtful' \in 0..Healthy
    BY <2>1, GateAssumption DEF Observe, Typed, Healthy
  <2>3. exited' \in BOOLEAN
    BY <2>1 DEF Observe
  <2> QED BY <1>1, <2>1, <2>2, <2>3
<1>3. CASE r # "poll"
  BY <1>1, <1>3 DEF Report, Typed
<1> QED BY <1>2, <1>3

\* Every step keeps the types.
LEMMA NextTyped ==
    ASSUME Typed, Next
    PROVE  Typed'
<1> USE DEF vars, memory, gate, watch, ghosts
<1>1. ASSUME NEW j \in jobs, Release(j) PROVE Typed'
  <2>1. jobs' \subseteq Jobs
    BY <1>1, StepTyped DEF Release, Step, Typed
  <2>2. kept' \in Nat /\ live' = live /\ Rss' <= MaxMemory
    BY <1>1, GateAssumption DEF Release, Typed, Rss
  <2> QED BY <1>1, <2>1, <2>2 DEF Release, Typed
<1>2. ASSUME NEW j \in jobs, Reread(j) PROVE Typed'
  <2>1. (Rss > Limit) \in BOOLEAN
    OBVIOUS
  <2>2. [j EXCEPT !.step = "record", !.over = Rss > Limit] \in Jobs
    BY <2>1, StepTyped
  <2>3. jobs' \subseteq Jobs
    BY <1>2, <2>2 DEF Reread, Step, Typed
  <2> QED BY <1>2, <2>3 DEF Reread, Typed, Rss
<1>3. ASSUME NEW j \in jobs, Record(j) PROVE Typed'
  <2>1. stuck' \in BOOLEAN
    BY <1>3 DEF Record
  <2>2. call' \in [Calls -> {"out", "clearing", "claiming", "waiting", "admitted", "running", "overdue"}]
    BY <1>3 DEF Record, Answered, Typed
  <2> QED BY <1>3, <2>1, <2>2 DEF Record, Typed, Rss
<1>4. CASE Allocate
  BY <1>4, GateAssumption DEF Allocate, Typed, Rss
<1>5. CASE Drop
  <2>1. live' \in Nat /\ kept' \in Nat /\ Rss' <= MaxMemory
    <3>1. live \in Nat /\ kept \in Nat /\ live > 0 /\ live' = live - 1 /\ live + kept <= MaxMemory /\ MaxMemory \in Nat
      BY <1>5, GateAssumption DEF Drop, Typed, Rss
    <3>2. CASE kept' = kept
      BY <3>1, <3>2 DEF Rss
    <3>3. CASE kept' = kept + 1
      BY <3>1, <3>3 DEF Rss
    <3> QED BY <1>5, <3>2, <3>3 DEF Drop
  <2> QED BY <1>5, <2>1 DEF Drop, Typed
<1>6. CASE Tick
  <2>1. rested' \in 0..Interval
    BY <1>6, GateAssumption DEF Tick, Typed
  <2>2. doubtful' \in 0..Healthy
    BY <1>6, GateAssumption DEF Tick, Typed, Healthy
  <2>3. fitting' \in 0..Interval + 2
    BY <1>6, GateAssumption DEF Tick, Typed, Recovered
  <2>4. trouble' \in 0..StuckExit
    BY <1>6, GateAssumption DEF Tick, Typed
  <2>5. polled' \in BOOLEAN /\ Rss' = Rss
    BY <1>6 DEF Tick, Rss
  <2> QED BY <1>6, <2>1, <2>2, <2>3, <2>4, <2>5 DEF Tick, Typed
<1>7. ASSUME NEW c \in Calls, Calling(c) PROVE Typed'
  <2>1. CASE Claim(c)
    <3>1. HandBack(c, Idle) /\ Idle \in BOOLEAN
      BY <2>1 DEF Claim, Idle
    <3>2. rested' \in 0..Interval /\ jobs' \subseteq Jobs
      BY <3>1, HandBackTyped
    <3> QED BY <2>1, <3>2 DEF Claim, At, Typed, Rss
  <2>2. CASE ~Claim(c)
    <3>1. call' \in [Calls -> {"out", "clearing", "claiming", "waiting", "admitted", "running", "overdue"}]
      BY <1>7 DEF Calling, AskUnderLimit, ClearOnEntry, AskOverLimit, RefuseEarly, Claim, Leave, Start,
         DeadlinePasses, End, At, Typed
    <3>2. /\ UNCHANGED <<memory, watch, trouble, rested, jobs>>
          /\ stuck' \in {stuck, FALSE} /\ fitting' \in {fitting, 0}
      BY <1>7, <2>2 DEF Calling, AskUnderLimit, ClearOnEntry, AskOverLimit, RefuseEarly, Leave, Start,
         DeadlinePasses, End
    <3>3. fitting' \in 0..Interval + 2 /\ stuck' \in BOOLEAN /\ Rss' = Rss
      <4>1. fitting' \in 0..Interval + 2
        BY <3>2, GateAssumption DEF Typed
      <4>2. stuck' \in BOOLEAN /\ Rss' = Rss
        BY <3>2 DEF Typed, Rss
      <4> QED BY <4>1, <4>2
    <3> QED BY <3>1, <3>2, <3>3 DEF Typed
  <2> QED BY <2>1, <2>2
<1>8. ASSUME NEW r \in Readers, Read(r) PROVE Typed'
  <2>1. [over |-> Rss > Limit, idle |-> Idle, full |-> Saturated] \in Readings
    <3>1. (Rss > Limit) \in BOOLEAN /\ Idle \in BOOLEAN /\ Saturated \in BOOLEAN
      BY DEF Idle, Saturated
    <3> QED BY <3>1 DEF Readings
  <2> QED BY <1>8, <2>1 DEF Read, Typed, Rss
<1>9. ASSUME NEW r \in Readers, Deciding(r) PROVE Typed'
  <2>1. CASE ClearOnRead(r)
    <3>1. (~reading[r].full) \in BOOLEAN
      OBVIOUS
    <3>2. /\ reading' \in [Readers -> Readings]
          /\ doubtful' \in 0..Healthy /\ exited' \in BOOLEAN /\ polled' \in BOOLEAN
      BY <2>1, <3>1, ReportTyped DEF ClearOnRead
    <3> QED BY <2>1, <3>2 DEF ClearOnRead, Typed, Rss
  <2>2. CASE HandBackOnRead(r)
    <3>1. (~reading[r].full /\ ~stuck) \in BOOLEAN
      OBVIOUS
    <3>2. /\ reading' \in [Readers -> Readings]
          /\ doubtful' \in 0..Healthy /\ exited' \in BOOLEAN /\ polled' \in BOOLEAN
      BY <2>2, <3>1, ReportTyped DEF HandBackOnRead
    <3>3. rested' \in 0..Interval /\ jobs' \subseteq Jobs
      BY <2>2, HandBackTyped DEF HandBackOnRead
    <3> QED BY <2>2, <3>2, <3>3 DEF HandBackOnRead, Typed, Rss
  <2>3. CASE ReportOnRead(r)
    <3>1. (~reading[r].full /\ ~stuck) \in BOOLEAN
      OBVIOUS
    <3>2. /\ reading' \in [Readers -> Readings]
          /\ doubtful' \in 0..Healthy /\ exited' \in BOOLEAN /\ polled' \in BOOLEAN
      BY <2>3, <3>1, ReportTyped DEF ReportOnRead
    <3> QED BY <2>3, <3>2 DEF ReportOnRead, Typed, Rss
  <2> QED BY <1>9, <2>1, <2>2, <2>3 DEF Deciding
<1> QED BY <1>1, <1>2, <1>3, <1>4, <1>5, <1>6, <1>7, <1>8, <1>9 DEF Next, HandingBack

-----------------------------------------------------------------------------
(* Permits and hand-backs. *)

\* The calls that work, and those past their deadline, change only where a call starts, ends or
\* passes it.
LEMMA CallsKept ==
    ASSUME Typed, Next
    PROVE  /\ Working' = Working /\ Overdue' = Overdue
           \/ \E c \in Calls : \/ /\ Start(c) /\ Working' = Working \union {c} /\ c \notin Working /\ Overdue' = Overdue
                               \/ DeadlinePasses(c) /\ Working' = Working
                               \/ End(c) /\ Working' = Working \ {c} /\ Overdue' \subseteq Overdue
<1> USE DEF vars, memory, gate, watch, ghosts
<1>1. call' = call => Working' = Working /\ Overdue' = Overdue
  BY DEF Working, Running, Overdue
<1>2. ASSUME NEW j \in jobs, Record(j) PROVE Working' = Working /\ Overdue' = Overdue
  <2>1. \A c \in Calls : /\ call'[c] = "running" <=> call[c] = "running"
                         /\ call'[c] = "overdue" <=> call[c] = "overdue"
    BY <1>2 DEF Record, Answered, Typed
  <2> QED BY <2>1 DEF Working, Running, Overdue
<1>3. ASSUME NEW c \in Calls, Calling(c)
      PROVE  \/ Working' = Working /\ Overdue' = Overdue
             \/ /\ Start(c) /\ Working' = Working \union {c} /\ c \notin Working /\ Overdue' = Overdue
             \/ DeadlinePasses(c) /\ Working' = Working
             \/ End(c) /\ Working' = Working \ {c} /\ Overdue' \subseteq Overdue
  <2>1. CASE Start(c)
    BY <2>1 DEF Start, At, Typed, Working, Running, Overdue
  <2>2. CASE DeadlinePasses(c)
    BY <2>2 DEF DeadlinePasses, At, Typed, Working, Running, Overdue
  <2>3. CASE End(c)
    BY <2>3 DEF End, At, Typed, Working, Running, Overdue
  <2>4. CASE ~(Start(c) \/ DeadlinePasses(c) \/ End(c))
    <3>1. /\ call[c] \notin {"running", "overdue"} /\ call'[c] \notin {"running", "overdue"}
          /\ \A d \in Calls \ {c} : call'[d] = call[d]
      BY <1>3, <2>4 DEF Calling, AskUnderLimit, ClearOnEntry, AskOverLimit, RefuseEarly, Claim, Leave, At, Typed
    <3> QED BY <3>1 DEF Working, Running, Overdue
  <2> QED BY <2>1, <2>2, <2>3, <2>4
<1>4. CASE call' = call
  BY <1>1, <1>4
<1>5. CASE \E j \in jobs : Record(j)
  BY <1>2, <1>5
<1>6. CASE \E c \in Calls : Calling(c)
  BY <1>3, <1>6
<1>7. call' = call \/ (\E j \in jobs : Record(j)) \/ (\E c \in Calls : Calling(c))
  BY DEF Next, HandingBack, Release, Reread, Allocate, Drop, Tick, Read, Deciding, ClearOnRead, HandBackOnRead, ReportOnRead
<1> QED BY <1>4, <1>5, <1>6, <1>7

\* No more calls work than there are permits.
LEMMA NextPermits ==
    ASSUME Typed, Permits, Next
    PROVE  Permits'
<1>1. CASE Working' = Working
  BY <1>1 DEF Permits
<1>2. ASSUME NEW c \in Calls, Start(c), Working' = Working \union {c}, c \notin Working PROVE Permits'
  <2>1. IsFiniteSet(Working \union {c}) /\ Cardinality(Working \union {c}) = Cardinality(Working) + 1
    BY <1>2, FS_AddElement DEF Permits
  <2>2. Cardinality(Working) \in Nat /\ Cardinality(Working) < Capacity
    BY <1>2, FS_CardinalityType DEF Start, Permits, Working
  <2> QED BY <1>2, <2>1, <2>2, GateAssumption DEF Permits
<1>3. ASSUME NEW c \in Calls, Working' = Working \ {c} PROVE Permits'
  <2>1. IsFiniteSet(Working \ {c}) /\ Cardinality(Working \ {c}) <= Cardinality(Working)
    BY FS_Subset DEF Permits
  <2>2. Cardinality(Working) \in Nat /\ Cardinality(Working \ {c}) \in Nat
    BY <2>1, FS_CardinalityType DEF Permits
  <2> QED BY <1>3, <2>1, <2>2, GateAssumption DEF Permits
<1> QED BY <1>1, <1>2, <1>3, CallsKept

\* A step of a hand-back leaves as many or fewer.
LEMMA FewerJobs ==
    ASSUME HandBacks, rested' = rested,
           NEW j \in jobs, jobs' = jobs \ {j} \/ \E to : jobs' = (jobs \ {j}) \union {to}
    PROVE  HandBacks'
<1> DEFINE r == jobs \ {j}
<1>1. IsFiniteSet(r) /\ Cardinality(r) = Cardinality(jobs) - 1 /\ Cardinality(jobs) \in Nat /\ Cardinality(r) \in Nat
  BY FS_RemoveElement, FS_CardinalityType DEF HandBacks
<1> HIDE DEF r
<1>2. CASE jobs' = r
  BY <1>1, <1>2, GateAssumption DEF HandBacks
<1>3. ASSUME NEW to, jobs' = r \union {to} PROVE HandBacks'
  <2>1. IsFiniteSet(r \union {to}) /\ Cardinality(r \union {to}) \in {Cardinality(r), Cardinality(r) + 1}
    BY <1>1, FS_AddElement
  <2>2. Cardinality(r \union {to}) <= Cardinality(jobs) /\ Cardinality(r \union {to}) \in Nat
    BY <1>1, <2>1
  <2> QED BY <1>1, <1>3, <2>1, <2>2, GateAssumption DEF HandBacks
<1> QED BY <1>2, <1>3 DEF r

\* One that is claimed is the first since the last tick.
LEMMA OneMoreJob ==
    ASSUME HandBacks, Due, NEW by, NEW idle, HandBack(by, idle)
    PROVE  HandBacks'
<1> DEFINE new == [by |-> by, idle |-> idle, over |-> FALSE, step |-> "release"]
<1>1. rested' = 0 /\ jobs' = jobs \union {new}
  BY DEF HandBack
<1> HIDE DEF new
<1>2. Cardinality(jobs) \in Nat /\ Cardinality(jobs) < MaxJobs
  BY GateAssumption, FS_CardinalityType DEF Due, HandBacks
<1>3. IsFiniteSet(jobs \union {new}) /\ Cardinality(jobs \union {new}) \in {Cardinality(jobs), Cardinality(jobs) + 1}
  BY FS_AddElement DEF HandBacks
<1> QED BY <1>1, <1>2, <1>3, GateAssumption DEF HandBacks

\* Hand-backs stay within their bound.
LEMMA NextHandBacks ==
    ASSUME HandBacks, Next
    PROVE  HandBacks'
<1> USE DEF vars, memory, gate, watch, ghosts
<1>1. CASE rested' = rested /\ jobs' = jobs
  BY <1>1 DEF HandBacks
<1>2. ASSUME NEW j \in jobs, Release(j) \/ Reread(j) \/ Record(j) PROVE HandBacks'
  <2>1. rested' = rested /\ (jobs' = jobs \ {j} \/ \E to : jobs' = (jobs \ {j}) \union {to})
    BY <1>2 DEF Release, Reread, Record, Step
  <2> QED BY <2>1, FewerJobs
<1>3. CASE Tick
  BY <1>3, FS_CardinalityType DEF Tick, HandBacks
<1>4. CASE \E c \in Calls : Claim(c)
  BY <1>4, OneMoreJob DEF Claim
<1>5. CASE \E r \in Readers : HandBackOnRead(r)
  BY <1>5, OneMoreJob DEF HandBackOnRead
<1>6. \/ rested' = rested /\ jobs' = jobs
      \/ Tick \/ (\E j \in jobs : Release(j) \/ Reread(j) \/ Record(j))
      \/ (\E c \in Calls : Claim(c)) \/ (\E r \in Readers : HandBackOnRead(r))
  BY DEF Next, HandingBack, Allocate, Drop, Read, Deciding, ClearOnRead, ReportOnRead,
     Calling, AskUnderLimit, ClearOnEntry, AskOverLimit, RefuseEarly, Leave, Start, DeadlinePasses, End
<1> QED BY <1>1, <1>2, <1>3, <1>4, <1>5, <1>6

-----------------------------------------------------------------------------
(* A stretch of calm ticks. *)

\* Between two ticks the stretch goes on or ends.
LEMMA StretchKept ==
    ASSUME Typed, Next, ~Tick
    PROVE  fitting' \in {fitting, 0} /\ trouble' = trouble
BY DEF Next, HandingBack, Release, Reread, Record, Allocate, Drop, Read, Deciding, ClearOnRead, HandBackOnRead,
   ReportOnRead, Calling, AskUnderLimit, ClearOnEntry, AskOverLimit, RefuseEarly, Claim, Leave, Start,
   DeadlinePasses, End, ghosts

\* What a reader decides: it reports trouble only where it read that no permit was left or finds the
\* gate stuck, and it sets no stuck flag.
LEMMA Decides ==
    ASSUME NEW r \in Readers, Deciding(r)
    PROVE  /\ \E healthy \in BOOLEAN : Report(r, healthy) /\ (~healthy => reading[r].full \/ stuck)
           /\ reading[r] # NoReading /\ call' = call /\ live' = live /\ kept' = kept
           /\ fitting' = fitting /\ trouble' = trouble
           /\ \/ stuck' = FALSE /\ rested' = rested /\ jobs' = jobs
              \/ stuck' = stuck /\ Due /\ HandBack(r, TRUE)
              \/ stuck' = stuck /\ ~Due /\ rested' = rested /\ jobs' = jobs
<1> USE DEF memory, ghosts
<1>1. CASE ClearOnRead(r)
  <2>1. Report(r, ~reading[r].full) /\ (~reading[r].full) \in BOOLEAN
    BY <1>1 DEF ClearOnRead
  <2>2. \E healthy \in BOOLEAN : Report(r, healthy) /\ (~healthy => reading[r].full \/ stuck)
    BY <2>1
  <2> QED BY <1>1, <2>2 DEF ClearOnRead
<1>2. CASE HandBackOnRead(r)
  <2>1. Report(r, ~reading[r].full /\ ~stuck) /\ (~reading[r].full /\ ~stuck) \in BOOLEAN
    BY <1>2 DEF HandBackOnRead
  <2>2. \E healthy \in BOOLEAN : Report(r, healthy) /\ (~healthy => reading[r].full \/ stuck)
    BY <2>1
  <2> QED BY <1>2, <2>2 DEF HandBackOnRead
<1>3. CASE ReportOnRead(r)
  <2>1. Report(r, ~reading[r].full /\ ~stuck) /\ (~reading[r].full /\ ~stuck) \in BOOLEAN
    BY <1>3 DEF ReportOnRead
  <2>2. \E healthy \in BOOLEAN : Report(r, healthy) /\ (~healthy => reading[r].full \/ stuck)
    BY <2>1
  <2> QED BY <1>3, <2>2 DEF ReportOnRead
<1> QED BY <1>1, <1>2, <1>3 DEF Deciding

\* As long as the stretch lasts a permit is left.
LEMMA PermitLeft ==
    ASSUME Typed, Permits, Next, ~Saturated, ~Tick, fitting' > 0
    PROVE  ~Saturated'
<1>1. IsFiniteSet(Overdue) /\ Cardinality(Overdue) \in Nat
  BY FS_Subset, FS_CardinalityType DEF Permits, Working
<1>2. CASE Overdue' \subseteq Overdue
  <2>1. Cardinality(Overdue') <= Cardinality(Overdue) /\ Cardinality(Overdue') \in Nat
    BY <1>1, <1>2, FS_Subset, FS_CardinalityType
  <2> QED BY <1>1, <2>1, GateAssumption DEF Saturated
<1>3. CASE \E c \in Calls : DeadlinePasses(c)
  BY <1>3 DEF DeadlinePasses
<1> QED BY <1>2, <1>3, CallsKept

\* The data still fits, and the hand-backs of the stretch find so.
LEMMA NextFits ==
    ASSUME Typed, Permits, Fits, Next
    PROVE  Fits'
<1> USE DEF vars, memory, gate, watch, ghosts
<1> SUFFICES ASSUME fitting' > 0
             PROVE  /\ live' <= Limit /\ ~Saturated'
                    /\ reading'["poll"] # NoReading => ~reading'["poll"].full
                    /\ \A j \in jobs' : ~j.over /\ (j.step # "release" => Rss' <= Limit)
  BY DEF Fits
<1>1. CASE Tick
  <2>1. Calm /\ live' = live /\ Overdue' = Overdue /\ reading' = reading /\ jobs' = jobs
    BY <1>1 DEF Tick, Overdue
  <2> QED BY <2>1 DEF Calm, Saturated
<1>2. CASE ~Tick
  <2>1. fitting' = fitting /\ fitting > 0
    BY <1>2, StretchKept
  <2>2. /\ live <= Limit /\ ~Saturated
        /\ reading["poll"] # NoReading => ~reading["poll"].full
        /\ \A j \in jobs : ~j.over /\ (j.step # "release" => Rss <= Limit)
    BY <2>1 DEF Fits
  <2>3. ~Saturated'
    BY <1>2, <2>2, PermitLeft
  <2>4. ASSUME NEW j \in jobs, Release(j)
        PROVE  live' <= Limit /\ reading' = reading
               /\ \A i \in jobs' : ~i.over /\ (i.step # "release" => Rss' <= Limit)
    <3>1. live' = live /\ kept' = 0 /\ Rss' = live /\ reading' = reading
      BY <2>4 DEF Release, Rss, Typed
    <3>2. \A i \in jobs' : ~i.over
      BY <2>2, <2>4, StepTyped DEF Release, Step, Jobs
    <3> QED BY <2>2, <3>1, <3>2
  <2>5. ASSUME NEW j \in jobs, Reread(j)
        PROVE  live' <= Limit /\ reading' = reading
               /\ \A i \in jobs' : ~i.over /\ (i.step # "release" => Rss' <= Limit)
    <3>1. live' = live /\ Rss' = Rss /\ reading' = reading /\ Rss <= Limit
      BY <2>2, <2>5 DEF Reread, Rss
    <3>2. ~(Rss > Limit)
      BY <3>1, GateAssumption DEF Typed, Rss
    <3>3. j \in Jobs /\ jobs' = (jobs \ {j}) \union {[j EXCEPT !.step = "record", !.over = Rss > Limit]}
      BY <2>5, StepTyped DEF Reread, Step
    <3>4. \A i \in jobs' : ~i.over
      BY <2>2, <3>2, <3>3 DEF Jobs
    <3> QED BY <2>2, <3>1, <3>4
  <2>6. ASSUME NEW j \in jobs, Record(j)
        PROVE  live' <= Limit /\ reading' = reading
               /\ \A i \in jobs' : ~i.over /\ (i.step # "release" => Rss' <= Limit)
    BY <2>2, <2>6 DEF Record, Rss
  <2>7. ASSUME Allocate
        PROVE  live' <= Limit /\ reading' = reading
               /\ \A i \in jobs' : ~i.over /\ (i.step # "release" => Rss' <= Limit)
    <3>1. ~(Rss' > Limit)
      BY <2>7 DEF Allocate
    <3>2. live' \in Nat /\ kept' \in Nat /\ jobs' = jobs /\ reading' = reading
      BY <2>7 DEF Allocate, Typed
    <3>3. live' <= Limit /\ Rss' <= Limit
      <4>1. Rss' = live' + kept' /\ Limit \in Nat
        BY GateAssumption DEF Rss
      <4>2. \A n, k, l \in Nat : ~(n + k > l) => n <= l /\ n + k <= l
        OBVIOUS
      <4> QED BY <3>1, <3>2, <4>1, <4>2
    <3> QED BY <2>2, <3>2, <3>3
  <2>8. ASSUME Drop
        PROVE  live' <= Limit /\ reading' = reading
               /\ \A i \in jobs' : ~i.over /\ (i.step # "release" => Rss' <= Limit)
    <3>1. live \in Nat /\ kept \in Nat /\ live > 0 /\ live' = live - 1 /\ jobs' = jobs /\ reading' = reading
      BY <2>8 DEF Drop, Typed
    <3>2. live' <= Limit
      BY <2>2, <3>1, GateAssumption
    <3>3. Rss' <= Rss /\ Rss \in Nat /\ Rss' \in Nat
      <4>1. CASE kept' = kept
        BY <3>1, <4>1 DEF Rss
      <4>2. CASE kept' = kept + 1
        BY <3>1, <4>2 DEF Rss
      <4> QED BY <2>8, <4>1, <4>2 DEF Drop
    <3>4. \A i \in jobs' : ~i.over /\ (i.step # "release" => Rss' <= Limit)
      BY <2>2, <3>1, <3>3, GateAssumption
    <3> QED BY <3>1, <3>2, <3>4
  <2>9. ASSUME NEW c \in Calls, Calling(c)
        PROVE  live' <= Limit /\ reading' = reading
               /\ \A i \in jobs' : ~i.over /\ (i.step # "release" => Rss' <= Limit)
    <3>1. live' = live /\ Rss' = Rss /\ reading' = reading
      BY <2>9 DEF Calling, AskUnderLimit, ClearOnEntry, AskOverLimit, RefuseEarly, Claim, Leave, Start,
         DeadlinePasses, End, Rss
    <3>2. jobs' = jobs \/ HandBack(c, Idle)
      BY <2>9 DEF Calling, AskUnderLimit, ClearOnEntry, AskOverLimit, RefuseEarly, Claim, Leave, Start,
         DeadlinePasses, End
    <3> QED BY <2>2, <3>1, <3>2 DEF HandBack
  <2>10. ASSUME NEW r \in Readers, Read(r)
         PROVE  /\ live' <= Limit /\ (reading'["poll"] # NoReading => ~reading'["poll"].full)
                /\ \A i \in jobs' : ~i.over /\ (i.step # "release" => Rss' <= Limit)
    <3>1. live' = live /\ Rss' = Rss /\ jobs' = jobs
      BY <2>10 DEF Read, Rss
    <3>2. reading'["poll"] # NoReading => ~reading'["poll"].full
      BY <2>2, <2>10, GateAssumption DEF Read, Typed
    <3> QED BY <2>2, <3>1, <3>2
  <2>11. ASSUME NEW r \in Readers, Deciding(r)
         PROVE  /\ live' <= Limit /\ (reading'["poll"] # NoReading => ~reading'["poll"].full)
                /\ \A i \in jobs' : ~i.over /\ (i.step # "release" => Rss' <= Limit)
    <3>1. live' = live /\ Rss' = Rss /\ (jobs' = jobs \/ HandBack(r, TRUE))
      BY <2>11, Decides DEF Rss
    <3>2. reading'["poll"] # NoReading => ~reading'["poll"].full
      <4>1. reading' = [reading EXCEPT ![r] = NoReading]
        BY <2>11, Decides DEF Report
      <4> QED BY <2>2, <4>1, GateAssumption DEF Typed
    <3> QED BY <2>2, <3>1, <3>2 DEF HandBack
  <2> QED BY <1>2, <2>2, <2>3, <2>4, <2>5, <2>6, <2>7, <2>8, <2>9, <2>10, <2>11 DEF Next, HandingBack
<1> QED BY <1>1, <1>2

\* The stuck flag goes in time.
LEMMA NextClears ==
    ASSUME Typed, Fits, Clears, Next
    PROVE  Clears'
<1> USE DEF vars, memory, gate, watch, ghosts
<1> SUFFICES ASSUME fitting' > 0, stuck'
             PROVE  /\ fitting' <= Interval
                    /\ jobs' = {} => (rested' >= fitting' /\ (polled' => rested' < Interval))
  BY DEF Clears
<1>1. CASE Tick
  <2>1. /\ Calm /\ polled /\ jobs = {} /\ jobs' = jobs /\ stuck /\ polled' = FALSE
        /\ rested' = IF rested < Interval THEN rested + 1 ELSE rested
        /\ fitting' = IF Recovered THEN fitting ELSE fitting + 1
    BY <1>1 DEF Tick, Calm
  <2>2. rested \in 0..Interval /\ fitting \in 0..Interval + 2 /\ Interval \in Nat \ {0}
    BY GateAssumption DEF Typed
  <2>3. CASE fitting = 0
    BY <2>1, <2>2, <2>3 DEF Recovered
  <2>4. CASE fitting > 0
    <3>1. fitting <= Interval /\ rested >= fitting /\ rested < Interval
      BY <2>1, <2>4 DEF Clears
    <3> QED BY <2>1, <2>2, <3>1 DEF Recovered
  <2> QED BY <2>2, <2>3, <2>4
<1>2. CASE ~Tick
  <2>1. fitting' = fitting /\ fitting > 0
    BY <1>2, StretchKept
  <2>2. stuck => /\ fitting <= Interval
                 /\ jobs = {} => (rested >= fitting /\ (polled => rested < Interval))
    BY <2>1 DEF Clears
  <2>3. ASSUME NEW j \in jobs, Release(j) \/ Reread(j) PROVE stuck /\ jobs' # {}
    BY <2>3 DEF Release, Reread, Step
  <2>4. ASSUME NEW j \in jobs, Record(j) PROVE FALSE
    <3>1. ~j.over
      BY <2>1 DEF Fits
    <3> QED BY <2>4, <3>1 DEF Record
  <2>5. ASSUME Allocate \/ Drop PROVE stuck /\ polled' = polled /\ rested' = rested /\ jobs' = jobs
    BY <2>5 DEF Allocate, Drop
  <2>6. ASSUME NEW c \in Calls, Calling(c)
        PROVE  stuck /\ polled' = polled /\ ((rested' = rested /\ jobs' = jobs) \/ jobs' # {})
    BY <2>6 DEF Calling, AskUnderLimit, ClearOnEntry, AskOverLimit, RefuseEarly, Claim, Leave, Start,
       DeadlinePasses, End, HandBack
  <2>7. ASSUME NEW r \in Readers, Read(r)
        PROVE  stuck /\ polled' = polled /\ rested' = rested /\ jobs' = jobs
    BY <2>7 DEF Read
  <2>8. ASSUME NEW r \in Readers, Deciding(r)
        PROVE  stuck /\ (jobs' # {} \/ (rested' = rested /\ jobs' = jobs /\ rested < Interval))
    <3>1. stuck' = stuck /\ ((Due /\ HandBack(r, TRUE)) \/ (~Due /\ rested' = rested /\ jobs' = jobs))
      BY <2>8, Decides
    <3>2. CASE HandBack(r, TRUE)
      BY <3>1, <3>2 DEF HandBack
    <3>3. CASE ~Due /\ rested' = rested /\ jobs' = jobs
      BY <3>1, <3>3, GateAssumption DEF Due, Typed
    <3> QED BY <3>1, <3>2, <3>3
  <2> QED BY <1>2, <2>1, <2>2, <2>3, <2>4, <2>5, <2>6, <2>7, <2>8 DEF Next, HandingBack
<1> QED BY <1>1, <1>2

-----------------------------------------------------------------------------
(* The watchdog. *)

\* Where the poll reports trouble in a stretch, it is at its start.
LEMMA TroubleIsEarly ==
    ASSUME Typed, Fits, Clears, Next, ~Tick
    PROVE  \/ doubtful' = doubtful /\ polled' = polled /\ exited' = exited
           \/ \E healthy \in BOOLEAN : Observe(healthy) /\ (fitting > Interval => healthy)
<1> USE DEF vars, memory, gate, watch, ghosts
<1>1. ASSUME NEW r \in Readers, Deciding(r)
      PROVE  \/ doubtful' = doubtful /\ polled' = polled /\ exited' = exited
             \/ \E healthy \in BOOLEAN : Observe(healthy) /\ (fitting > Interval => healthy)
  <2>1. PICK healthy \in BOOLEAN : Report(r, healthy) /\ (~healthy => reading[r].full \/ stuck)
    BY <1>1, Decides
  <2>2. CASE r # "poll"
    BY <2>1, <2>2 DEF Report
  <2>3. CASE r = "poll"
    <3>1. Observe(healthy)
      BY <2>1, <2>3 DEF Report
    <3>2. ASSUME fitting > Interval PROVE healthy
      <4>1. fitting > 0 /\ ~(fitting <= Interval)
        BY <3>2, GateAssumption DEF Typed
      <4>2. ~reading[r].full
        BY <1>1, <2>3, <4>1, Decides DEF Fits
      <4>3. ~stuck
        BY <4>1 DEF Clears
      <4> QED BY <2>1, <4>2, <4>3
    <3> QED BY <3>1, <3>2
  <2> QED BY <2>2, <2>3
<1>2. CASE ~\E r \in Readers : Deciding(r)
  BY <1>2 DEF Next, HandingBack, Release, Reread, Record, Allocate, Drop, Read, Calling, AskUnderLimit, ClearOnEntry,
     AskOverLimit, RefuseEarly, Claim, Leave, Start, DeadlinePasses, End
<1> QED BY <1>1, <1>2

\* So the watchdog has forgiven when the stretch has been long enough.
LEMMA NextForgives ==
    ASSUME Typed, Fits, Clears, Forgives, Next
    PROVE  Forgives'
<1>1. CASE Tick
  <2>1. polled' = FALSE
    BY <1>1 DEF Tick
  <2>2. ASSUME fitting' = Interval + 2 PROVE doubtful' = Healthy
    <3>1. Interval \in Nat \ {0} /\ fitting \in 0..Interval + 2
      BY GateAssumption DEF Typed
    <3>2. Calm /\ fitting > Interval
      BY <1>1, <2>2, <3>1 DEF Tick, Recovered
    <3>3. doubtful = Healthy
      BY <3>2 DEF Calm, Forgives
    <3> QED BY <1>1, <3>3, GateAssumption DEF Tick, Healthy
  <2> QED BY <2>1, <2>2 DEF Forgives
<1>2. CASE ~Tick
  <2>1. fitting' \in {fitting, 0} /\ Interval \in Nat \ {0}
    BY <1>2, StretchKept, GateAssumption
  <2>2. CASE doubtful' = doubtful /\ polled' = polled
    BY <2>1, <2>2 DEF Forgives, Healthy
  <2>3. ASSUME NEW healthy \in BOOLEAN, Observe(healthy), fitting > Interval => healthy
        PROVE  Forgives'
    <3>1. fitting > Interval => doubtful' = Healthy
      BY <2>3 DEF Observe
    <3>2. fitting \in Nat
      BY DEF Typed
    <3> QED BY <2>1, <3>1, <3>2 DEF Forgives, Healthy
  <2> QED BY <1>2, <2>2, <2>3, TroubleIsEarly
<1> QED BY <1>1, <1>2

\* And its clock is never ahead of the trouble.
LEMMA NextClock ==
    ASSUME Typed, Fits, Clears, Forgives, Clock, Next
    PROVE  Clock'
<1>0. /\ ~exited /\ StuckExit \in Nat /\ Healthy = StuckExit + 1
      /\ doubtful \in 0..Healthy /\ trouble \in 0..StuckExit
  BY GateAssumption DEF Next, Typed, Healthy
<1>1. CASE Tick
  <2>1. exited' = exited
    BY <1>1 DEF Tick, watch
  <2>2. doubtful' # Healthy => doubtful' <= trouble'
    <3>1. CASE Recovered'
      <4>1. doubtful' = Healthy
        BY <3>1, NextForgives DEF Forgives, Recovered, Healthy
      <4> QED BY <4>1
    <3>2. CASE ~Recovered'
      BY <1>0, <1>1, <3>2 DEF Tick, Clock
    <3> QED BY <3>1, <3>2
  <2> QED BY <1>0, <2>1, <2>2 DEF Clock, Healthy
<1>2. CASE ~Tick
  <2>1. trouble' = trouble
    BY <1>2, StretchKept
  <2>2. CASE doubtful' = doubtful /\ polled' = polled /\ exited' = exited
    BY <1>0, <2>1, <2>2 DEF Clock, Healthy
  <2>3. ASSUME NEW healthy \in BOOLEAN, Observe(healthy)
        PROVE  Clock'
    <3>1. doubtful' # Healthy => doubtful' <= trouble
      BY <1>0, <2>3 DEF Observe, Clock
    <3>2. exited' => trouble >= StuckExit
      <4> SUFFICES ASSUME exited' PROVE trouble >= StuckExit
        OBVIOUS
      <4>1. ~healthy /\ doubtful' >= StuckExit
        BY <2>3 DEF Observe
      <4>2. doubtful' = IF doubtful = Healthy THEN 0 ELSE doubtful
        BY <2>3, <4>1 DEF Observe
      <4> QED BY <1>0, <3>1, <4>1, <4>2
    <3> QED BY <2>1, <3>1, <3>2 DEF Clock, Healthy
  <2> QED BY <1>2, <2>2, <2>3, TroubleIsEarly
<1> QED BY <1>1, <1>2

-----------------------------------------------------------------------------
(* The theorems. *)

\* A server that has just started satisfies the invariant.
LEMMA InitGateInv == Init => GateInv
<1> SUFFICES ASSUME Init PROVE GateInv
  OBVIOUS
<1>1. Typed
  <2>1. live \in Nat /\ kept \in Nat /\ Rss <= MaxMemory
    BY GateAssumption DEF Init, Rss
  <2>2. rested \in 0..Interval /\ doubtful \in 0..Healthy /\ fitting \in 0..Interval + 2 /\ trouble \in 0..StuckExit
    BY GateAssumption DEF Init, Healthy
  <2>3. reading \in [Readers -> Readings] /\ jobs \subseteq Jobs
    BY DEF Init, Readings
  <2> QED BY <2>1, <2>2, <2>3 DEF Init, Typed
<1>2. Working = {} /\ Overdue = {}
  BY DEF Init, Working, Running, Overdue
<1>3. Permits
  BY <1>2, FS_EmptySet, GateAssumption DEF Permits
<1>4. HandBacks
  BY FS_EmptySet, GateAssumption DEF Init, HandBacks
<1>5. Fits /\ Clears /\ Forgives /\ Clock
  BY GateAssumption DEF Init, Fits, Clears, Forgives, Clock
<1> QED BY <1>1, <1>3, <1>4, <1>5 DEF GateInv

\* Every step keeps it.
LEMMA NextGateInv == GateInv /\ [Next]_vars => GateInv'
<1> SUFFICES ASSUME GateInv, [Next]_vars PROVE GateInv'
  OBVIOUS
<1>1. CASE UNCHANGED vars
  <2>1. /\ call' = call /\ live' = live /\ kept' = kept /\ rested' = rested /\ stuck' = stuck /\ jobs' = jobs
        /\ reading' = reading /\ doubtful' = doubtful /\ exited' = exited /\ polled' = polled
        /\ fitting' = fitting /\ trouble' = trouble
    BY <1>1 DEF vars
  <2>2. Typed'
    BY <2>1 DEF GateInv, Typed, Rss
  <2>3. Permits' /\ HandBacks'
    BY <2>1 DEF GateInv, Permits, Working, Running, Overdue, HandBacks
  <2>4. Fits' /\ Clears' /\ Forgives' /\ Clock'
    BY <2>1 DEF GateInv, Fits, Saturated, Overdue, Rss, Clears, Forgives, Clock, Healthy
  <2> QED BY <2>2, <2>3, <2>4 DEF GateInv
<1>2. CASE Next
  BY <1>2, NextTyped, NextPermits, NextHandBacks, NextFits, NextClears, NextForgives, NextClock DEF GateInv
<1> QED BY <1>1, <1>2

\* The invariant holds in every reachable state, for every value of the constants.
THEOREM GateInductive == Spec => []GateInv
BY InitGateInv, NextGateInv, PTL DEF Spec

\* Types and bounds: work past its deadline keeps its permit, so that no more calls work than there
\* are permits, and no more hand-backs are under way than MaxJobs.
THEOREM GateTypeCorrect == Spec => []TypeOK
<1>1. GateInv => TypeOK
  <2> SUFFICES ASSUME GateInv PROVE TypeOK
    OBVIOUS
  <2>1. Typed /\ Permits /\ HandBacks
    BY DEF GateInv
  <2>2. live \in 0..MaxMemory /\ kept \in 0..MaxMemory /\ Rss <= MaxMemory
    BY <2>1, GateAssumption DEF Typed, Rss
  <2> QED BY <2>1, <2>2 DEF TypeOK, Typed, Permits, Working, HandBacks, Readings
<1> QED BY <1>1, GateInductive, PTL

\* The watchdog exits a server only after a trouble that lasted as long as it waits: a stuck flag out
\* of date, left by a hand-back that came late, or read by a reader that was slow, never makes it.
THEOREM WatchdogExitsInTrouble == Spec => []ExitTakesLastingTrouble
<1>1. GateInv => ExitTakesLastingTrouble
  BY DEF GateInv, Clock, ExitTakesLastingTrouble
<1> QED BY <1>1, GateInductive, PTL
=============================================================================
