# A verification project for prompt2analytics

prompt2analytics is an analytics toolkit in Rust. Its library (`crates/p2a-core`) is sequential
numerical code. What can go wrong in ways a test hardly reaches is its server
(`crates/p2a-mcp`): many clients call 270 tools over HTTP, WebSocket and LLM chats, on
sessions that are created, evicted and expire, under limits on concurrency, time and memory.
This project models that part in TLA+, checks it with TLC and proves some of it with TLAPS.
Paths below are relative to `crates/p2a-mcp/src/` unless they start with `crates/`.

## The system

| Part | State it keeps | Operations | Talks to |
|---|---|---|---|
| **Execution governor** (`exec.rs`) | global semaphore, each session's semaphore, in-flight registry, call budgets | `call`, `run_blocking`, `health` | session (active calls), memory gate, quotas, audit log; called by every transport |
| **Session-data quotas** (`exec.rs` `Quotas`, `session.rs` `DatasetAdmission`) | each session's cached charge, the server-wide reservation | `enforce`, `check_charge`, `refresh_data_bytes`, `restore_state` | reads all sessions' charges; runs inside a governed call |
| **Dataset reload** (`persistent_session.rs`, `transport/conversation.rs`) | none of its own | `reload_sources`, `load_reload_source`, `insert_reloaded_dataset` | governor, quotas, store |
| **Session table** (`session.rs` `SessionManager`) | live sessions, last access, active calls | `create_session`, `adopt`, `get_session`, `delete_session`, `cleanup_expired` | tells removal subscribers; removes session directories |
| **Memory gate, stuck watchdog** (`exec.rs`) | last hand-back, stuck flag; how long unhealthy | `refusal`, `stuck`, `observe` | governor's registry, `/health` |
| **Persistent session manager** (`persistent_session.rs`) | rows of sessions beside the table | `register_session`, `get_session`, removal listener, `sweep` | session table (broadcast), store |
| **Store** (`db/*.rs`) | conversations, messages, byte counters, turns, orphan memory | create, append, delete, clear, orphan sweeps | SurrealDB |
| **Streamed chat** (`transport/llm_routes.rs`) | the session it runs for, the rows of its answer and tool calls | `run_chat_stream`, `admit_tool_call`, `stop_unfinished_chat` | session table, governor, store, LLM |
| **WebSocket connection** (`transport/websocket.rs`) | bounded queue of waiting frames | `read_while_handling`, `handle_client_message` | governor |
| **Audit log writer** (`audit.rs`) | bounded channel, buffered file, rotation | `log`, `flush`, `rotate`, `reopen` | governor |
| LLM providers and retry, path jail, tool registry and handlers, request limits | none shared | | |
| `p2a-core`: cleaning sessions, budgets, analytics; CLI, desktop and web clients | per object | | |

Interactions. A transport finds its session in the table, asks the governor to run a call, and the
governor runs it on a thread of tokio's blocking pool: the call's *future* (dropped when the client
leaves) and its *work* (which nothing but the work itself stops) are two actors. The work snapshots
the session, runs the tool, checks the quotas, queues the audit entry and then gives back what it
held. The table's cleanup and eviction read the active-call counts the governor keeps; the memory
gate and `/health` read its registry. Removals from the table are broadcast to the persistent
manager, which deletes rows.

What is hard, by part, and the properties that make it right:

- **Governor.** Permits change hands from a future to a detached closure; a timeout, a departure,
  a panic, the deadline or a normal end may take a call out at any point. Right means: no permit lost
  or doubled, detached work still counted, queues without ghosts, one audit entry per call, every
  caller answered.
- **Quotas.** The checks read a cached charge and a total that is added up without a lock, while other
  sessions' calls change both. Right means: caches are current when a later call relies on them,
  sessions at rest keep the quotas, an undone call leaves nothing, reservations balance.
- **Table.** The count and age a removal depends on are not under the table's lock. Right means:
  capacity kept, each removal told once, idle sessions leave, running sessions stay.
- **Persistent manager, store.** Rows and live sessions drift apart over lags, restarts and
  dropped requests. Right means: rows of a live session survive, rows of a gone one do not, counters
  equal what is stored.
- **Memory gate.** Hand-backs run in the background, their outcome is recorded late, and nobody may
  call to start the next one. Right means: memory that can come back does, a wedged server exits, one
  that recovered does not.
- **Transports.** A chat and its client part at any step, the last write goes on in its own task, ids
  pass to other sessions; a connection reads while it handles, into bounded queues. Right means:
  no half-written answer without an end, no tool on another session, answers in order, no message lost.
- **Audit writer.** A file is rotated rename by rename, and may be removed by others between any two
  steps. Right means: entries stay in order, only the oldest go, none waits for the next one.

`PROJECT.json` lists these hazards at the lines where they bite, with the properties that cover them.

## The plan

Order: the governor (every call passes it), the quotas (what a call checks where it ends), the
session table, then the parts around them: the memory gate, the persistent manager, the store,
chats, connections, the audit log. All have a module and a run. What is left:

1. `ReloadPlan`: which rows a reload reads, in which order, and what a second reload of the same
   session does meanwhile; today `DataQuotas` has its checks and inserts only.
2. In `StoreTurns`: dataset metadata, and the counter that is forgotten when a session is deleted.

Abstract specification: `GovernedWork`. The persistent manager's promise (a stored session goes only
by deletion or expiry, and a live one gets a row) is stated as properties instead, since the code
itself allows the exceptions `excuse` names.

## The modules

**ToolGovernor** (`exec.rs`). Per call: `pc`, the place of the future in `ToolGovernor::call` and
`run_blocking` (memory gate, the two waits, registration, the running closure, the refusal's audit
entry), and `work`, the place of the closure. Steps between two awaits or two atomic operations are
one action. The two semaphores are a count and a queue each (tokio serves them first come first
served; a dropped acquire leaves the queue). `_held`, the tuple the closure owns, is released field by
field: session permit, global permit, in-flight entry, active call. Time is each call's phase: budget
open, deadline past, deadline plus `DEADLINE_GRACE` past. `ClientGone` drops the future at any of its
awaits. Tool results are a free choice over `Endings`.

**GovernedWork**, **GovernorRefinement**. What a governor promises: bounded work on threads, one answer
per call, refused calls never run, answers about the end of work come after it. `GovernorRefinement`
gives the mapping; `KeepsPromise` is the abstract specification under it.

**DataQuotas** (`exec.rs`, `session.rs`, `persistent_session.rs`). A session's state is its charge in
bytes; `cached` is `Session::data_bytes`. A caller makes governed calls in turn, or reloads datasets.
`total_data_bytes` is a sum over sessions read one at a time. The admission guard, the reservation,
the check where a call ends, the undo and its second charge, and the release of the permit are
steps of their own. `excused` records that a call that never reached its check (a panic, a late
failure) kept what it had grown, which the code accepts: the quota then refuses the next growth. The
three maps an undo restores (datasets, spatial weights, cleaning sessions) are one number, so that an undo that
left out one of them would not show.

**SessionRegistry** (`session.rs`). The table under its read-write lock; `idle` and `active` of each
session outside it. A full table's scan by a creator and the cleanup's scan look at one session per
step. Callers look a session up, find it expired or touch it, and run calls; ids never come back
(`adopt` is in `PersistentSessions`).

**MemoryGate** (`exec.rs`, `transport/http.rs`). Memory is data (`live`) and what the allocator keeps
after data went (`kept`). A call reads it, clears the stuck flag or claims a hand-back or is refused; a
hand-back is a job of three steps (release, read again, record), and the read may be old when it is
recorded. Health readers (the server's poll, `GET /health`) read, decide and report in steps; the poll
feeds the watchdog. Saturation (all permits with work past its deadline) is sampled at polls, as in
the code. The ghosts `trouble` and `fitting` count the ticks the property speaks of: data that is
added above the limit again starts `fitting` anew. Every call is assumed to have a deadline.

**PersistentSessions** (`persistent_session.rs`, `db/sessions.rs`, `transport/routes_sessions.rs`). The
table is reduced to ages; rows, the broadcast with its lag, `delete_session` as each of its callers runs
it, and the sweep's four passes are steps, each of which may fail, and all of which a restart ends.
`adopt` is one step. A session's conversations stand for all that is stored under it. `excuse` says why
the row of a session that left may stay until its TTL: nobody was told (`missed`: a lag, a failed
delete, a restart) or a request wrote it too late (`late`).

**StoreTurns** (`db/*.rs`). Callers queue for the session's or a conversation's turn; a dropped caller
leaves the queue, one with the turn runs to its end (`run_to_end`). The byte counter is seeded, counted
up before a write and down after a delete, apart from the rows; each statement may fail. A message's
tool calls are reduced to the bytes of their texts, which a call may replace any part of.

**ChatTask** (`transport/llm_routes.rs`, `db/tool_calls.rs`). The chat's future, the write that outlives
it, the turn it waits for, `stop_unfinished_chat`, other clients' clears and deletes, and sessions that
take over the id. What the chat tells its client goes through a bounded channel: it waits for a slot to
tell of a tool call, of its status or of the end (`send`), and drops a piece of text that finds none
(`try_send`). The client may leave at any time, or stay and not read.

**WsConnection** (`transport/websocket.rs`). The loop handles one message while it reads on; `waiting` is
bounded in messages and bytes; the channel to the writer hands out its slots in order, also to a handler
that is not polled while a refusal is sent.

**AuditWriter** (`audit.rs`). Queue, writer thread, `BufWriter`, and the files as sequences of entries
under their numbers; every look at and every change of the file system is a step that may fail, with removals
by others in between.

**MCServices**. Four of these parts share no state: the table (extended), a chat, a connection and the
audit log (instances). `part` chooses which of them a behaviour is about, so that one run checks each
alone, with its own fairness, at its own bounds.

**ToolGovernorProofs**, **DataQuotasProofs**, **SessionRegistryProofs**, **MemoryGateProofs**,
**PersistentSessionsProofs**, **StoreTurnsProofs**, **ServicesProofs** (chat, connection and audit log, in
the specification `MCServices` puts them in), and **CollectionTheorems**, what they share about sums,
queues and sequences. See "What is proved". `MC*` modules hold TLC's symmetry sets and
the callers' sessions.

Definitions marked `[mutant]` are the same action with a plausible bug; each property is
shown to fail with one of them in place of the real action.

## The runs

| Run | Question | Bounds and why they are enough |
|---|---|---|
| `governor_safety` | Are permits, counts and queues right whatever takes a call out, and is `GovernedWork` implemented? | 3 calls in up to 3 sessions, 2 global permits and 1 per session: calls of one session wait for its permit with a global one free, calls of three sessions wait for the global one with their own taken, and detached work holds either. Only "ok" endings: the permits do not depend on how work ends. |
| `governor_outcomes` | Is there one audit entry per call that agrees with the answer, is every caller answered, and does abandoned work end? | 2 calls, 1 permit of each kind, every ending. Entries and answers are per call; the second call makes waits and refusals possible. |
| `quotas` | Do quotas, caches, undo and reservations hold for tool calls, and beside a reload? | 3 callers, two in one session, the third calls or reloads; session quota 2, total 3, files of 2, sessions up to 3 bytes: two sessions within their quotas can pass the total, a call can pass its own, and two files decoding do not fit together. Work may also not finish. |
| `memory` | Does memory come back, does a wedged server exit, and no other? | 2 callers, 1 permit, limit 1 of 2 units, one tick between hand-backs, exit after 2, one hand-back at once (time waits for it), the poll as reader: refusals beside running calls, late records, saturation by the one permit. |
| `persistence` | Do rows and live sessions agree in the end? | 1 id, 1 conversation, 1 request, a channel of 1, one fault: every race is over the rows of one id, which is used by several sessions in turn; the second removal already lags. |
| `store` | Do budget and caps hold, and does every call end? | 2 callers, 3 conversation ids for a cap of 2, 2 messages for a cap of 1, texts of 1 byte (stored, cut to nothing, or refused), new titles of 1 and later ones of 1 or 2 with a budget of 3, one fault: a longer title, a second conversation or a tool call's result competes for the byte another call is counting. The run is the longest (about 800,000 states). |
| `services` | Table: capacity, one notice per removal, idle sessions leave. Chat: rows closed, tools on its own session only, an end unless the client stays and does not read. Connection: order and completeness of answers. Log: order, loss only of the oldest, nothing left in the buffer. | Table: 2 ids, capacity 1, 2 creators, 2 callers, ages to 2, TTL 1. Chat: 2 tool calls, 2 sessions of one id, 2 erasures, 1 fault, a channel of 1 event (full with any event that is not read). Connection: 3 messages, 2 waiting of 2 bytes, a channel of 2. Log: 5 entries, files of 2, one rotated file kept, one flush, one removal, one failed look, write or creation, one failed rename. |
| `quotas_reload_total` | Do two reloads keep the total? | **Violated**, see the findings. |
| `registry_running` | "A session with a running call is never evicted or expired by the cleanup task"? | **Violated.** |
| `persistence_late` | "That second delete also catches a row written in between"? | **Violated.** |
| `chat_placeholder` | "The stored message and tool calls are closed as stopped"? | **Violated.** |
| `audit_rotation` | "Rotated files kept as `<path>.1` (newest) to `<path>.<keep>`"? | **Violated.** |

Each call of `ToolGovernor` is made once, because a call's variables are its own; callers of
`DataQuotas`, `MemoryGate` and `StoreTurns` call for ever. All models may stop (every call made, all ids
used, a client that sends nothing more), so the runs do not check for deadlock; what must go on is
stated as liveness. A connection's channel of one slot would stop for good (the slot is handed to
the handler, which is not polled while a refusal waits for one); the code has 32, and 2 is the smallest
that works. Bounds by name: `MaxHeld` (a session's bytes), `MaxAge` (idle time counted, above the TTL),
`MaxMemory`, `MaxJobs`, `MaxFaults` (failed statements and restarts), `MaxSessions`, `MaxErases` and
`EventBound` of a chat (the slots of its channel, 100 in the code), `MaxMessages` of a connection, `MaxEntries`, `MaxFlushes`, `MaxRemovals`, `MaxErrors` and
`MaxFailures` of the log. Symmetry is used in runs without liveness only. `PersistentSessions!TypeOK` is
proved and is not among its run's properties.

Fairness. `ToolGovernor`: weak fairness for each call's future (the runtime polls it), for the thread's
steps around the tool's work, and for the clock; none for the tool's work itself, arrivals and
departures. `EveryCallAnswered` needs the deadline: without one a call may wait for ever, as in the code.
`AbandonedWorkEnds` assumes in addition that work that checks its budget returns once it is spent
(`Cooperative`), which is what `resource::checkpoint` is for. `SessionRegistry`: weak fairness for a scan
under way, strong fairness for taking a lock (tokio's lock is fair) and for time; none for clients.
`MemoryGate`: the poll wakes, the pool runs its jobs, time and with it deadlines pass; nothing of callers
or of the end of work. `PersistentSessions`: the sweep's timer and steps, the listener, time; none of
requests. `StoreTurns`: a call that has its turn is run to its end and the store answers. `ChatTask`: the
provider answers or times out, governed calls end, the store answers; nothing of the client. The sends a
chat awaits have no timeout, so that a client that stays connected and does not read keeps the chat, and
with it its session's slot, for as long as it likes. `ChatEnds` promises an end in every other case:
its second disjunct is the chat waiting for ever for a full channel. `WsConnection`: the loop, the
writer and the client's reading; none for its sending. `AuditWriter`: the thread.

## What the checks found

- Two dataset reloads in different sessions may together pass the total quota
  (`quotas_reload_total`). `insert_reloaded_dataset` reads the others' charge, then inserts, then
  refreshes its own; a tool call stores its own charge first and adds up after, which is why
  `ToolCallsWithinQuotas` holds in `quotas`. A reservation covers parquet files only.
- `begin_call`'s comment promises that a running session is never evicted or cleaned up
  (`registry_running`). The look at the count and the removal are not one step, and a caller that
  already has the session needs no lock to begin. The call finishes on a session that is out of the
  table; nothing it then stores can be reached.
- A registration reads that a session has no row and writes one later, without looking whether the
  session is still live (`persistence_late`). If the session left and its rows were deleted in between,
  the row comes back and the session can be adopted until its TTL. `DepartedRowGoes`, the passing
  property, excepts exactly this.
- A client that leaves while the placeholder of its answer is being written leaves an empty message
  nobody closes (`chat_placeholder`): the write goes on, but its id never reaches `run_chat_task`.
- A rename that fails in the middle of a rotation loses the newest rotated file
  (`audit_rotation`): the rotation goes on, and the next rename replaces the file.

Everything else that was stated holds.

## What is proved

`ToolGovernorProofs` proves, for any finite set of calls, any sessions, any positive number of permits
and any settings, the following of `Spec`: `TypeOK`, `PermitsConserved`, `WorkBounded`, `BooksBalance`,
`QueuesAreWaiters`, `AbandonedWorkIsCancelled`, `AnsweredHoldsNothing` and `OneAuditEntry`. The
assumptions are those of `ToolGovernor`: `CallsAssumption` (finitely many calls),
`PermitsAssumption` (at least one permit of each kind; the code clamps both) and `SettingsAssumption`
(types of the settings).

None of these is inductive. The invariant `IInv` has four parts:

- `Typed`: types, without the upper bounds of the free permits, which follow from the counts.
- `Consistent(c)`: what the variables of one call say of each other: the closure exists only under
  a running or finished future, the registry entry exactly between registration and its removal, one
  audit entry exactly after the step that writes it, a finished future over work on a thread only
  with a cancelled budget.
- `Queued`: each queue holds its waiters once each. Needed since a permit goes to the head of a queue,
  and leaving one must remove exactly the leaver; lemmas `QueueAppend`, `QueueTail`, `QueueLeave` say so
  of the sequences.
- `Counted`: free permits and holders add up, active calls equal their holders. Lemma
  `CallStepBalanced` shows that each step changes a counter by what its call holds more or less
  afterwards; `BalancedKeepsCounts` turns that into cardinalities, once for all actions.

`InitIInv` and `NextIInv` give `Spec => []IInv`; each theorem is a consequence of `IInv`.

`ToolGovernorProofs` also proves, from the same assumptions, `AuditAgreesWithAnswer` and that
`ToolGovernor` implements `GovernedWork` (`GovernorKeepsPromise`).

- The audit agreement needs one more part, `Agreed(c)`, beside `IInv`: a budget is cancelled only where
  the call's future ends, so that one which is cancelled before its deadline was cancelled by the client's
  departure, and an entry that says "cancelled" belongs to a call whose caller has gone. The race of the
  deadline, the departure and the end of the work is decided there.
- The refinement is proved action by action: a step of one call is the step of `GovernedWork` that its
  part of the mapping changes by, or none. The two steps that need the invariant are `SpawnBegins` (work
  begins under a permit, so the promise's bound on running work follows from `PermitsBoundWork`, the
  lemma behind `WorkBounded`) and `DoneTells` (a caller is told a result only of work that ended).

`DataQuotasProofs` proves every invariant of the run `quotas` of `DataQuotas`, for any finite sets of callers and sessions, any
quotas and file sizes (`QuotasAssumption`), in two layers.

- `CacheIsCurrent` and `UndoneLeavesNothing` follow from `IInv`: no two calls of a session are under way
  (`Alone`) and, for each call, what its step says of its session (`Own(k)`): where the charge has been
  computed since the state last changed it is the state's, where the state is the snapshot's it still is
  at the end of an undone call. `Frame(k)` states that a step leaves other sessions alone, and `Kept(k)`
  what each step guarantees; `NextIInv` combines the two for all calls.
- `ReservationsBalance`, `DecodingFits`, `ToolCallsWithinQuotas` and `TypeOK` follow from `QuotaInv`, which adds
  three parts about sums. `Reservations`: of any set of files being checked that together with those
  admitted pass the total, one has read a reservation so high that it will be refused. `Quotas` says the same
  of the charges: take any set of calls that are adding up the total, suppose just these keep what they
  did and the others are undone (`IfKept`); then the charges fit the total, or one of these calls, the last
  to have started, has seen in what it has summed so far, and will see in what it has yet to read, as much
  as they come to (`Fits`). It is quantified over all sets of calls since any of them may be
  undone in the end. `Totals` carries the sums' types and what a call under way charges its session.
  It holds while no reload has run and no call was excused, as the property does.

`CollectionTheorems` holds lemmas only, facts about sums, queues and sequences on which the results
above and below rest; they say nothing of the system by themselves. It proves, for every finite set, what
sums need: the community modules' fold over a set is the
cardinality of a set of pairs (`SumIsCount`), whatever order the fold takes, so that the rules about
sums (an index more, an index less, one value changed, two disjoint sets, two functions) follow from those about
cardinalities. That is how induction over data is avoided: were the two to differ, there would be
a smallest subset on which they do. In the same way it proves what a flattened sequence of files holds
(`FlattenElements`), that it is increasing where its files are and follow each other
(`FlattenIncreasing`), and how long it is where all are full (`FlattenLength`): a failure would have a
least place (`LeastNatural`).

`StoreTurnsProofs` proves `TypeOK`, `BudgetKept` and `CapsKept` of `StoreTurns`, for any finite sets of callers,
conversations and messages, any sizes, limit and caps, any number of failed statements, dropped callers and
restarts (`StoreAssumption`). Its invariant `StoreInv` has five parts:

- `Typed` with `Sound`: what a call's record holds at each step; `Turns`: a turn's queue holds its holder and
  those waiting, once each, and who is past its wait is at the head of it. So two calls of a conversation
  are never both past their wait (`OneHolder`).
- `Rows`: ids that are to be written are no other call's, and what a call found in its turn is still there.
- `Budget`: the counter covers the rows and all that was counted and is not yet written or not yet released
  (`Owed`), and passes the limit by no more than what is to be released and what failed calls left counted.
  Before anybody has seeded the counter, what a call has read for the seed together with the
  conversations it has yet to read covers the rows (`Unseeded`): rows can only go while somebody
  seeds, which is why the seed errs on the safe side only.
- `Caps`: a call that was let in has room for its row (`HasRoom`), because only the holder of the turn adds to
  what it counted; the count beside the rows is right, or a call is about to write it (`Recounted`).

`MemoryGateProofs` proves `TypeOK` and `ExitTakesLastingTrouble` of `MemoryGate`, for every limit, interval, exit
time and number of callers, readers and permits (`GateAssumption`). `GateInv` follows one stretch of calm
ticks: `Fits` (each hand-back and the poll's reading that began in it find that the data fits),
`Clears` (a stuck flag from before goes with the first hand-back that is due, and one is due at the latest when
the interval is over), `Forgives` (the poll that comes after that tells the watchdog that all is well) and
`Clock` (the watchdog's clock never runs ahead of the trouble). `HandBacks` and `Permits` bound the
jobs and the work, overdue work included.

`PersistentSessionsProofs` proves `DepartedRowGoes` and `TypeOK` of `PersistentSessions`, for any ids, conversations,
clients, times, faults and channel capacity (`PersistenceAssumption`). `DepartedRowGoes` itself is not inductive:
it counts a client's own delete as attending to the row, and a client may leave in the middle of it. The
invariant counts only what goes on without clients (`LookedAfter`): the queue, the listener's delete, the
sweep's list of rows it wrote and those it is to delete again, as long as their delete is not over. The second
part (`SweepDeletesListed`) says that the sweep's delete is of a session on its list, so that it has
none under way when it turns to the rows it wrote.

`SessionRegistryProofs` proves, for any sessions, any creators and finitely many callers
(`RegistryAssumption`), `TypeOK`, `CapacityKept`, `RemovalSentOnce` and that a session's
active-call count is the number of calls running on it. `Locked` is the part that makes it inductive:
nothing leaves the table while a creator holds the write lock, so that the victim it chose is still
there when it is evicted and the eviction makes the room the insertion needs. `Counted` carries
the counts, `Told` that a removal still to be sent is of a session that is out of the table.

`ServicesProofs` proves, of `ServicesSpec`, every invariant of the run `services`: `TypesOK`,
`ChatRowsAreClosed`, `GoneSessionRunsNoTool`, `AnswersInOrder`, `LogIsSound`, `CapacityKept` and
`RemovalSentOnce`. They hold for any tools, sessions, messages, sizes and bounds, any number of entries and
kept files, and any failures and removals (`ServicesAssumption`, which is `ChatAssumption`,
`ConnectionAssumption`, `AuditAssumption` and `RegistryAssumption`). The invariant of each part is
proved of that part's steps and is untouched by the others'.

- Chat (`ChatInv`). The two halves of the promise depend on each other. `ChatTurns`: the chat's write and the
  stop's are queued for the turn once each, and a write under way has it. `ChatRows`: rows have an owner, and
  once the message is marked as stopped no write can follow (`ChatClosing`), so that the running calls
  that are left are those the stop has yet to close. `OwnTools`: a tool runs only for the session the chat
  began in, whoever has its id now.
- Connection (`WsInv`). A message keeps its place from the socket through the queue to the handler (`WsLine`); one
  that is refused is answered with its refusal and is not also handled (`WsRefused`); what is due and what is
  given to the writer come after all that was sent (`WsDue`, `WsSaid`). So the messages that are handled are
  answered in their order, and none that was answered at once has another answer.
- Audit log (`AuditInv`). `AuditQueue`: numbers of requests follow what the thread has received. `AuditHandle`:
  the file the thread has open is the newest or one that was removed under it. `AuditOrder`: files and
  buffer together are in order, and what is stored and what is lost are exactly the entries handled.
  `AuditOldest`: the name a rotation moves to is free, and, as long as no rename fails, what is dropped is older
  than all that is stored. `AuditRotation`: while nothing fails nor is removed, the numbered files are full and
  have no gap but the one the rotation has just made. `AuditRemoved` and `AuditFlushed` account for
  files others remove and for what a flush promises.

Only model-checked: liveness (fairness and ENABLED are out of TLAPS's reach). Every invariant the passing
runs check is proved. The properties of the five runs that find a violation are false, and there is
nothing to prove of them.

## What is not modelled, and why

In the modelled parts. Governor and quotas: labels shared between sessions (their bytes are counted
once in the total, which changes what is charged but not when); `charge_fits`, which checks without
reserving; a disabled audit log; a join error at the runtime's shutdown; closed semaphores (the
code never closes one); a panic of the charge itself after an unfinished call, which the code logs and
leaves the cache as it was. Persistent manager: settings and dataset rows (they go with the
conversations), a restart of a store that is in memory only, the plan of a reload. Store:
dataset metadata, and the counter forgotten with its session (a write of the session that has counted
and not stored is then missing from the next seed); a counter seeded while a delete commits may stay too high, which `BudgetKept` allows. Chat: building the
context, the number of rounds, the route that does not stream. Audit log: others creating a file at the
path, an entry that cannot be serialised (it is logged and reaches no file), writes that are cut short, draining at shutdown.

Not modelled at all: routing, parsing and status codes; LLM wire formats and the retry loop (one
sequential loop); the path jail; tool handlers and request limits; cleaning sessions and the analytics
of `p2a-core` (sequential or numerical code over real data, which makes up most of the
repository's lines and which TLC cannot evaluate); the clients.
