-------------------------- MODULE PersistentSessions --------------------------
(***************************************************************************)
(* The stored rows of sessions beside the table of live sessions           *)
(* (crates/p2a-mcp/src/persistent_session.rs, `PersistentSessionManager`): *)
(* requests that register, adopt and delete sessions, the listener that    *)
(* deletes the rows of a session that left the table, the sweep that       *)
(* brings both in line, and restarts, which only the rows survive.         *)
(*                                                                         *)
(* Every store call is a step of its own and may fail. A request is        *)
(* dropped at any of its steps when its client leaves. A session's         *)
(* conversations stand for everything stored under it but its own row.     *)
(* How the table works inside is SessionRegistry's.                        *)
(***************************************************************************)
EXTENDS Naturals, Sequences, SequencesExt, FiniteSets

CONSTANTS
    Ids,         \* session ids
    Convs,       \* conversations, each created at most once
    Clients,     \* requests under way at once
    Ttl,         \* idle time after which a session expires
    EvictIdle,   \* idle time after which it may be evicted
    MaxAge,      \* bound on the ages counted
    Channel,     \* capacity of the removal channel
    MaxFaults,   \* bound on failed store calls and restarts together
    None         \* no row, no session

ASSUME PersistenceAssumption ==
    /\ Ttl \in Nat /\ EvictIdle \in Nat /\ MaxAge \in Nat /\ MaxAge > Ttl
    /\ Channel \in Nat \ {0} /\ MaxFaults \in Nat
    /\ None \notin Nat /\ Clients \intersect {"listener", "sweep"} = {}

VARIABLES
    live,     \* the table: the age of each live session's last access, or None
    born,     \* the ids created so far
    row,      \* the store: the age of last_accessed in each session's row, or None
    conv,     \* the session each stored conversation belongs to, "unused" or "gone"
    queue,    \* removals the listener has not received
    lagged,   \* it missed some
    client,   \* where each request is, and the session it is about
    del,      \* DbConnection::delete_session, as each of its callers runs it
    sweep,    \* the sweep that holds sweep_lock
    faults,   \* failed store calls and restarts so far
    excuse    \* why a session that left may keep its row until the TTL

vars == <<live, born, row, conv, queue, lagged, client, del, sweep,
          faults, excuse>>

store == <<row, conv>>
table == <<live, born>>
channel == <<queue, lagged>>

Deleters == Clients \union {"listener", "sweep"}
NotDeleting == [step |-> "none", id |-> None, convs |-> {}]
Out == [step |-> "out", id |-> None]
NoSweep == [step |-> "none", snap |-> [id \in Ids |-> None], todo |-> {}, made |-> {},
            seen |-> {}, old |-> {}, failed |-> FALSE, by |-> "none"]

IsLive(id) == live[id] # None
Stored(id) == row[id] # None
LiveIds == {id \in Ids : IsLive(id)}
StoredIds == {id \in Ids : Stored(id)}
PastTtl(age) == age > Ttl
ConvsOf(id) == {v \in Convs : conv[v] = id}

Init ==
    /\ live = [id \in Ids |-> None] /\ born = {}
    /\ row = [id \in Ids |-> None]
    /\ conv = [v \in Convs |-> "unused"]
    /\ queue = <<>> /\ lagged = FALSE
    /\ client = [c \in Clients |-> Out]
    /\ del = [a \in Deleters |-> NotDeleting]
    /\ sweep = NoSweep
    /\ faults = 0
    /\ excuse = [id \in Ids |-> "none"]

-----------------------------------------------------------------------------
\* The table: a session leaves and its removal is sent on the bounded channel, where the
\* oldest gives way. (The sender and the table are one step here, see SessionRegistry.)

Removed(id) ==
    /\ live' = [live EXCEPT ![id] = None]
    /\ IF Len(queue) < Channel
       THEN /\ queue' = Append(queue, id)
            /\ excuse' = [excuse EXCEPT ![id] = "none"]
            /\ UNCHANGED lagged
       ELSE /\ queue' = Append(Tail(queue), id)
            /\ lagged' = TRUE
            /\ excuse' = [excuse EXCEPT ![Head(queue)] = "missed", ![id] = "none"]

\* Expired (looked up or cleaned up) or evicted.
Depart(id) ==
    /\ IsLive(id)
    /\ PastTtl(live[id]) \/ live[id] >= EvictIdle
    /\ Removed(id)
    /\ UNCHANGED <<born, del, sweep>> /\ UNCHANGED <<store, client, faults>>

-----------------------------------------------------------------------------
\* DbConnection::delete_session: the session's conversations are listed, then deleted,
\* then its row goes.

StartDelete(a, id) == del' = [del EXCEPT ![a] = [step |-> "list", id |-> id, convs |-> {}]]

ListConvs(a) ==
    /\ del[a].step = "list"
    /\ del' = [del EXCEPT ![a].step = "convs", ![a].convs = ConvsOf(del[a].id)]
    /\ UNCHANGED <<sweep, excuse>>
    /\ UNCHANGED <<table, store, channel, client, faults>>

DeleteConvs(a) ==
    /\ del[a].step = "convs"
    /\ conv' = [v \in Convs |-> IF v \in del[a].convs THEN "gone" ELSE conv[v]]
    /\ del' = [del EXCEPT ![a].step = "row"]
    /\ UNCHANGED <<row, sweep, excuse>>
    /\ UNCHANGED <<table, channel, client, faults>>

DeleteRow(a) ==
    /\ del[a].step = "row"
    /\ row' = [row EXCEPT ![del[a].id] = None]
    /\ excuse' = [excuse EXCEPT ![del[a].id] = "none"]
    /\ del' = [del EXCEPT ![a].step = "done"]
    /\ UNCHANGED <<conv, sweep>> /\ UNCHANGED <<table, channel, client, faults>>

Fault == faults < MaxFaults /\ faults' = faults + 1

FailDelete(a) ==
    /\ del[a].step \in {"list", "convs", "row"}
    /\ Fault
    /\ del' = [del EXCEPT ![a].step = "failed"]
    /\ excuse' = [excuse EXCEPT ![del[a].id] = "missed"]
    /\ UNCHANGED sweep /\ UNCHANGED <<table, store, channel, client>>

Deleting(a) == ListConvs(a) \/ DeleteConvs(a) \/ DeleteRow(a)

EndDelete(a) == del' = [del EXCEPT ![a] = NotDeleting]

-----------------------------------------------------------------------------
\* Requests.

Ask(c, step, id) == client[c] = Out /\ client' = [client EXCEPT ![c] = [step |-> step, id |-> id]]
Go(c, from, to) == client[c].step = from /\ client' = [client EXCEPT ![c].step = to]
Leave(c, from) == client[c].step = from /\ client' = [client EXCEPT ![c] = Out]
S(c) == client[c].id

\* POST /api/sessions: a fresh id, live first and then registered.
Create(c, id) ==
    /\ id \notin born /\ born' = born \union {id}
    /\ live' = [live EXCEPT ![id] = 0]
    /\ Ask(c, "register", id)
    /\ UNCHANGED <<del, sweep, excuse>> /\ UNCHANGED <<store, channel, faults>>

\* get_session of a live session touches it,
FindLive(c, id) ==
    /\ IsLive(id) /\ ~PastTtl(live[id])
    /\ live' = [live EXCEPT ![id] = 0]
    /\ Ask(c, "conversation", id)
    /\ UNCHANGED <<born, del, sweep, excuse>> /\ UNCHANGED <<store, channel, faults>>

\* one that is only stored is looked up,
FindStored(c, id) ==
    /\ ~IsLive(id) /\ Stored(id) /\ ~PastTtl(row[id])
    /\ Ask(c, "adopt", id)
    /\ UNCHANGED <<del, sweep, excuse>> /\ UNCHANGED <<table, store, channel, faults>>

\* and made live again, unless somebody else has done that.
Adopt(c) ==
    /\ Go(c, "adopt", "conversation")
    /\ live' = [live EXCEPT ![S(c)] = IF IsLive(S(c)) THEN @ ELSE 0]
    /\ UNCHANGED <<born, del, sweep, excuse>>
    /\ UNCHANGED <<store, channel, faults>>

\* register_session, also the first thing create_conversation does: a row that is there is
\* left alone.
FindRow(c) ==
    /\ Leave(c, "register") \/ Go(c, "conversation", "insert")
    /\ Stored(S(c))
    /\ UNCHANGED <<del, sweep, excuse>> /\ UNCHANGED <<table, store, channel, faults>>

FindNoRow(c) ==
    /\ Go(c, "register", "upsert") \/ Go(c, "conversation", "upsertFirst")
    /\ ~Stored(S(c))
    /\ UNCHANGED <<del, sweep, excuse>> /\ UNCHANGED <<table, store, channel, faults>>

\* Nothing checks that the session is still live.
UpsertRow(c) ==
    /\ Leave(c, "upsert") \/ Go(c, "upsertFirst", "insert")
    /\ row' = [row EXCEPT ![S(c)] = 0]
    /\ excuse' = [excuse EXCEPT ![S(c)] = IF IsLive(S(c)) THEN @ ELSE "late"]
    /\ UNCHANGED <<conv, del, sweep>> /\ UNCHANGED <<table, channel, faults>>

InsertConv(c) ==
    /\ Go(c, "insert", "activate")
    /\ \E v \in Convs : conv[v] = "unused" /\ conv' = [conv EXCEPT ![v] = S(c)]
    /\ UNCHANGED <<row, del, sweep, excuse>>
    /\ UNCHANGED <<table, channel, faults>>

\* set_active_conversation updates a row, it never writes one.
Activate(c) ==
    /\ Leave(c, "activate")
    /\ row' = [row EXCEPT ![S(c)] = IF @ = None THEN None ELSE 0]
    /\ UNCHANGED <<conv, del, sweep, excuse>>
    /\ UNCHANGED <<table, channel, faults>>

\* DELETE /api/sessions/{id}: the rows go first, then the live session.
AskDelete(c, id) ==
    /\ id \in born
    /\ Ask(c, "delete", id)
    /\ StartDelete(c, id)
    /\ UNCHANGED <<sweep, excuse>> /\ UNCHANGED <<table, store, channel, faults>>

RemoveLive(c) ==
    /\ del[c].step = "done" /\ EndDelete(c)
    /\ Leave(c, "delete")
    /\ IF IsLive(S(c)) THEN Removed(S(c)) ELSE UNCHANGED <<live, queue, lagged, excuse>>
    /\ UNCHANGED <<born, sweep>> /\ UNCHANGED <<store, faults>>

\* A store error, a full table or a client that leaves ends the request where it is.
Abandon(c) ==
    /\ client[c] # Out /\ client' = [client EXCEPT ![c] = Out]
    /\ EndDelete(c)
    /\ UNCHANGED <<sweep, excuse>>
    /\ UNCHANGED <<table, store, channel, faults>>

-----------------------------------------------------------------------------
\* The sweep.

Sweeping(from, to) == sweep.step = from /\ sweep' = to

\* background_sweep, run by the timer or, after a lag, by the listener: skipped while one runs.
NewSweep(by) ==
    /\ sweep.step = "none"
    /\ sweep' = [NoSweep EXCEPT !.step = "flush", !.snap = live, !.todo = LiveIds, !.by = by]

TimerSweeps ==
    /\ NewSweep("timer")
    /\ UNCHANGED <<del, excuse>>
    /\ UNCHANGED <<table, store, channel, client, faults>>

sweepOnly == <<del, excuse, table, channel, client, faults>>

\* What follows the flush, unless it failed.
AfterFlush(failed) == IF failed THEN NoSweep ELSE [NoSweep EXCEPT !.step = "expire", !.by = sweep.by]

\* flush_last_accessed: rows that exist take the age of the snapshot,
Flush(id) ==
    /\ id \in sweep.todo
    /\ Sweeping("flush", [sweep EXCEPT !.todo = @ \ {id},
                                       !.made = IF Stored(id) THEN @ ELSE @ \union {id}])
    /\ row' = [row EXCEPT ![id] = IF @ = None THEN None ELSE sweep.snap[id]]
    /\ UNCHANGED conv /\ UNCHANGED sweepOnly

\* [mutant] Sessions without a row are left without.
EndFlushOnly ==
    /\ sweep.todo = {}
    /\ Sweeping("flush", AfterFlush(FALSE))
    /\ UNCHANGED store /\ UNCHANGED sweepOnly

\* those missing are written for sessions that are live still,
EndFlush ==
    /\ sweep.todo = {}
    /\ Sweeping("flush", IF sweep.made = {} THEN AfterFlush(FALSE)
                         ELSE [sweep EXCEPT !.step = "write", !.made = {},
                                            !.todo = sweep.made \intersect LiveIds])
    /\ UNCHANGED store /\ UNCHANGED sweepOnly

WriteMissing(id) ==
    /\ id \in sweep.todo
    /\ Sweeping("write", [sweep EXCEPT !.todo = @ \ {id}, !.made = @ \union {id}])
    /\ row' = [row EXCEPT ![id] = sweep.snap[id]]
    /\ UNCHANGED conv /\ UNCHANGED sweepOnly

FailWrite ==
    /\ sweep.todo # {}
    /\ Fault
    /\ Sweeping("write", [sweep EXCEPT !.todo = {}, !.failed = TRUE])
    /\ UNCHANGED <<del, excuse>>
    /\ UNCHANGED <<table, store, channel, client>>

\* [mutant] Who left while the rows were written is not looked at.
EndWriteUnchecked ==
    /\ sweep.todo = {}
    /\ Sweeping("write", AfterFlush(sweep.failed))
    /\ UNCHANGED store /\ UNCHANGED sweepOnly

\* and the rows written for sessions that have left meanwhile are deleted again,
\* also when a write failed (delete_rows_unless_live).
EndWrite ==
    /\ sweep.todo = {}
    /\ Sweeping("write", IF sweep.made = {} THEN AfterFlush(sweep.failed)
                         ELSE [sweep EXCEPT !.step = "depart", !.made = {}, !.snap = NoSweep.snap,
                                         !.todo = sweep.made \ LiveIds])
    /\ UNCHANGED store /\ UNCHANGED sweepOnly

\* The sweep's deletes, of those rows and of expired ones, one after the other.
SweepDeletes(id) ==
    /\ sweep.step \in {"depart", "delete"} /\ id \in sweep.todo
    /\ del["sweep"] = NotDeleting
    /\ StartDelete("sweep", id)
    /\ UNCHANGED <<sweep, excuse>>
    /\ UNCHANGED <<table, store, channel, client, faults>>

\* A failed delete of an expired session ends the sweep, of a departed one only at the end.
SweepDeleted ==
    /\ del["sweep"].step \in {"done", "failed"} /\ EndDelete("sweep")
    /\ LET failed == del["sweep"].step = "failed"
       IN  sweep' = IF failed /\ sweep.step = "delete" THEN NoSweep
                    ELSE [sweep EXCEPT !.todo = @ \ {del["sweep"].id}, !.failed = @ \/ failed]
    /\ UNCHANGED <<excuse>>
    /\ UNCHANGED <<table, store, channel, client, faults>>

EndDepart ==
    /\ sweep.todo = {}
    /\ Sweeping("depart", AfterFlush(sweep.failed))
    /\ UNCHANGED store /\ UNCHANGED sweepOnly

\* Rows past the TTL: the live ids are read before the rows,
ReadLive ==
    /\ Sweeping("expire", [sweep EXCEPT !.step = "expired", !.seen = LiveIds])
    /\ UNCHANGED store /\ UNCHANGED sweepOnly

ReadExpired ==
    /\ Sweeping("expired", [sweep EXCEPT !.step = "delete", !.seen = {},
                               !.todo = {id \in StoredIds : PastTtl(row[id])} \ sweep.seen])
    /\ UNCHANGED store /\ UNCHANGED sweepOnly

\* then come the conversations of sessions without a row: the rows are read first.
ReadRows ==
    /\ sweep.todo = {}
    /\ Sweeping("delete", [sweep EXCEPT !.step = "orphans", !.seen = StoredIds,
                                        !.old = {v \in Convs : conv[v] \in Ids}])
    /\ UNCHANGED store /\ UNCHANGED sweepOnly

\* [mutant] The rows of orphaned conversations are left.
KeepOrphans ==
    /\ Sweeping("orphans", NoSweep)
    /\ UNCHANGED store /\ UNCHANGED sweepOnly

\* Conversations younger than that reading are kept.
DeleteOrphans ==
    /\ Sweeping("orphans", NoSweep)
    /\ conv' = [v \in Convs |-> IF v \in sweep.old /\ conv[v] \notin sweep.seen THEN "gone"
                               ELSE conv[v]]
    /\ UNCHANGED row /\ UNCHANGED sweepOnly

-----------------------------------------------------------------------------
\* The removal listener: busy with a delete, or with a sweep of its own.

Listening == del["listener"] = NotDeleting /\ sweep.by # "listener"

Receive ==
    /\ Listening /\ ~lagged /\ queue # <<>>
    /\ queue' = Tail(queue)
    /\ StartDelete("listener", Head(queue))
    /\ UNCHANGED <<lagged, sweep, excuse>> /\ UNCHANGED <<table, store, client, faults>>

ListenerDeleted ==
    /\ del["listener"].step \in {"done", "failed"} /\ EndDelete("listener")
    /\ UNCHANGED <<sweep, excuse>> /\ UNCHANGED <<table, store, channel, client, faults>>

Lagged ==
    /\ Listening /\ lagged /\ lagged' = FALSE
    /\ \/ NewSweep("listener")
       \/ sweep.step # "none" /\ UNCHANGED sweep
    /\ UNCHANGED <<queue, del, excuse>> /\ UNCHANGED <<table, store, client, faults>>

-----------------------------------------------------------------------------

\* Only the rows survive a restart, which leaves the stored sessions to be adopted.
Restart ==
    /\ Fault
    /\ live' = [id \in Ids |-> None]
    /\ queue' = <<>> /\ lagged' = FALSE
    /\ client' = [c \in Clients |-> Out]
    /\ del' = [a \in Deleters |-> NotDeleting]
    /\ sweep' = NoSweep
    /\ excuse' = [id \in Ids |-> IF Stored(id) THEN "missed" ELSE "none"]
    /\ UNCHANGED born /\ UNCHANGED store

Older(age) == IF age = None \/ age = MaxAge THEN age ELSE age + 1

\* Time passes, for the times a sweep remembers as well.
Tick ==
    /\ live' = [id \in Ids |-> Older(live[id])]
    /\ row' = [id \in Ids |-> Older(row[id])]
    /\ sweep' = [sweep EXCEPT !.snap = [id \in Ids |-> Older(@[id])]]
    /\ UNCHANGED <<born, conv, del, excuse>> /\ UNCHANGED <<channel, client, faults>>

Requesting(c) ==
    \/ \E id \in Ids : Create(c, id) \/ FindLive(c, id) \/ FindStored(c, id) \/ AskDelete(c, id)
    \/ Adopt(c) \/ FindRow(c) \/ FindNoRow(c) \/ UpsertRow(c) \/ InsertConv(c) \/ Activate(c)
    \/ RemoveLive(c) \/ Abandon(c)

SweepStep ==
    \/ \E id \in Ids : Flush(id) \/ WriteMissing(id) \/ SweepDeletes(id)
    \/ EndFlush \/ EndWrite \/ SweepDeleted \/ EndDepart \/ ReadLive \/ ReadExpired
    \/ ReadRows \/ DeleteOrphans \/ Deleting("sweep")

Listener == Receive \/ ListenerDeleted \/ Lagged \/ Deleting("listener")

Next ==
    \/ \E id \in Ids : Depart(id)
    \/ \E a \in Deleters : Deleting(a) \/ FailDelete(a)
    \/ \E c \in Clients : Requesting(c)
    \/ TimerSweeps \/ SweepStep \/ FailWrite
    \/ Listener \/ Restart \/ Tick

\* The background tasks run for ever and time passes. Nothing is asked of clients.
Fairness == WF_vars(TimerSweeps) /\ WF_vars(SweepStep) /\ WF_vars(Listener) /\ WF_vars(Tick)

Spec == Init /\ [][Next]_vars /\ Fairness

-----------------------------------------------------------------------------
(* What the store promises. *)

Ages == 0..MaxAge \union {None}
Procedures == [step : {"none", "list", "convs", "row", "done", "failed"},
               id : Ids \union {None}, convs : SUBSET Convs]
RequestSteps == {"out", "register", "conversation", "upsert", "upsertFirst", "adopt", "insert",
                 "activate", "delete"}

TypeOK ==
    /\ live \in [Ids -> Ages] /\ row \in [Ids -> Ages] /\ born \subseteq Ids
    /\ conv \in [Convs -> Ids \union {"unused", "gone"}]
    /\ queue \in Seq(Ids) /\ Len(queue) <= Channel /\ lagged \in BOOLEAN
    /\ client \in [Clients -> [step : RequestSteps, id : Ids \union {None}]]
    /\ del \in [Deleters -> Procedures]
    /\ \A c \in Clients : client[c].step # "delete" => del[c] = NotDeleting
    /\ sweep.step \in {"none", "flush", "write", "depart", "expire", "expired", "delete", "orphans"}
    /\ sweep.snap \in [Ids -> Ages] /\ sweep.todo \subseteq Ids
    /\ faults \in 0..MaxFaults
    /\ excuse \in [Ids -> {"none", "missed", "late"}]

\* Somebody is about to delete the row of a session that left the table.
Attended(id) ==
    \/ id \in ToSet(queue)
    \/ \E a \in Deleters : del[a].id = id /\ del[a].step \in {"list", "convs", "row"}
    \/ sweep.step = "write" /\ id \in sweep.made
    \/ sweep.step = "depart" /\ id \in sweep.todo

\* A session that left the table keeps no row to be adopted by, and the sweep writes it none,
\* unless the listener missed its removal, a delete failed, the server was restarted, or
\* a request that had found it live registered it too late.
DepartedRowGoes ==
    \A id \in Ids : ~IsLive(id) /\ Stored(id) => Attended(id) \/ excuse[id] # "none"

\* "that second delete also catches a row written in between": only a lag, a failed delete
\* or a restart leaves the row of a session that left.
NoRowComesBack ==
    \A id \in Ids : ~IsLive(id) /\ Stored(id) => Attended(id) \/ excuse[id] = "missed"

\* Whatever is stored of a session that is not live goes in the end, its conversations when
\* they have no row included, unless the session is adopted.
DepartedSessionIsForgotten ==
    \A id \in Ids :
        ~IsLive(id) /\ (Stored(id) \/ ConvsOf(id) # {})
            ~> IsLive(id) \/ ~(Stored(id) \/ ConvsOf(id) # {})

\* A live session gets a row, also when its registration failed, so that it can be adopted
\* after a restart and its conversations are no orphans.
LiveSessionGetsRow == \A id \in Ids : IsLive(id) ~> Stored(id) \/ ~IsLive(id)
=============================================================================
