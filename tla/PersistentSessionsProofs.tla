----------------------- MODULE PersistentSessionsProofs -----------------------
(***************************************************************************)
(* Proofs that a session that left the table of PersistentSessions keeps   *)
(* no row to be adopted by unless one of the named things happened, for    *)
(* any set of sessions, conversations and clients.                         *)
(***************************************************************************)
EXTENDS PersistentSessions, SequenceTheorems, CollectionTheorems, TLAPS

-----------------------------------------------------------------------------
(* The inductive invariant, in parts. *)

\* The tables.
TablesTyped ==
    /\ live \in [Ids -> Ages] /\ row \in [Ids -> Ages] /\ born \subseteq Ids
    /\ conv \in [Convs -> Ids \union {"unused", "gone"}]

\* The removal channel keeps its capacity.
ChannelTyped == queue \in Seq(Ids) /\ Len(queue) <= Channel /\ lagged \in BOOLEAN

\* Requests under way are about a session, and only deleting ones delete.
RequestsTyped ==
    /\ client \in [Clients -> [step : RequestSteps, id : Ids \union {None}]]
    /\ \A c \in Clients : client[c].step # "out" => client[c].id \in Ids
    /\ del \in [Deleters -> Procedures]
    /\ \A c \in Clients : client[c].step # "delete" => del[c] = NotDeleting

SweepSteps == {"none", "flush", "write", "depart", "expire", "expired", "delete", "orphans"}

SweepTyped ==
    sweep \in [step : SweepSteps, snap : [Ids -> Ages], todo : SUBSET Ids, made : SUBSET Ids,
               seen : SUBSET Ids, old : SUBSET Convs, failed : BOOLEAN,
               by : {"none", "timer", "listener"}]

NotesTyped == faults \in 0..MaxFaults /\ excuse \in [Ids -> {"none", "missed", "late"}]

Typed == TablesTyped /\ ChannelTyped /\ RequestsTyped /\ SweepTyped /\ NotesTyped

Background == {"listener", "sweep"}
DeleteAhead(a, id) == del[a].id = id /\ del[a].step \in {"list", "convs", "row"}
DeleteBehind(a, id) == del[a].id = id /\ del[a].step \in {"done", "failed"}

\* What of Attended does not go with a client: a delete of its own that a client abandons
\* must not have been the only one. A session whose delete the sweep has behind it no longer
\* counts as left to do.
LookedAfter(id) ==
    \/ id \in ToSet(queue)
    \/ \E a \in Background : DeleteAhead(a, id)
    \/ sweep.step = "write" /\ id \in sweep.made
    \/ sweep.step = "depart" /\ id \in sweep.todo /\ ~DeleteBehind("sweep", id)

Kept(id) == ~IsLive(id) /\ Stored(id) => LookedAfter(id) \/ excuse[id] # "none"

DeparturesKept == \A id \in Ids : Kept(id)

\* The sweep's delete is of a session it has on its list.
SweepDeletesListed ==
    del["sweep"].step # "none" =>
        sweep.step \in {"depart", "delete"} /\ del["sweep"].id \in sweep.todo

SessionsInv == Typed /\ SweepDeletesListed /\ DeparturesKept

-----------------------------------------------------------------------------
(* Types: the pieces steps are made of. *)

\* Time keeps ages in range.
LEMMA AgesTyped ==
    /\ 0 \in Ages /\ None \in Ages /\ 0 # None
    /\ \A age \in Ages : Older(age) \in Ages /\ (Older(age) = None <=> age = None)
BY PersistenceAssumption DEF Ages, Older

\* A session that leaves joins the queue, from which at most the head is lost.
LEMMA RemovedKeepsTypes ==
    ASSUME Typed, NEW id \in Ids, Removed(id)
    PROVE  /\ live' \in [Ids -> Ages] /\ ChannelTyped'
           /\ excuse' \in [Ids -> {"none", "missed", "late"}]
<1>1. live' \in [Ids -> Ages]
  BY AgesTyped DEF Typed, TablesTyped, Removed
<1>2. CASE Len(queue) < Channel
  <2>1. Append(queue, id) \in Seq(Ids) /\ Len(Append(queue, id)) = Len(queue) + 1
    BY AppendElements DEF Typed, ChannelTyped
  <2>2. Len(queue) \in Nat
    BY LenProperties DEF Typed, ChannelTyped
  <2>3. ChannelTyped'
    BY <2>1, <2>2, <1>2, PersistenceAssumption DEF Typed, ChannelTyped, Removed
  <2>4. excuse' \in [Ids -> {"none", "missed", "late"}]
    BY <1>2 DEF Typed, NotesTyped, Removed
  <2> QED BY <1>1, <2>3, <2>4
<1>3. CASE ~(Len(queue) < Channel)
  <2>1. queue # <<>> /\ Len(queue) \in Nat
    <3>1. Len(queue) \in Nat /\ (queue = <<>> => Len(queue) = 0)
      BY LenProperties DEF Typed, ChannelTyped
    <3> QED BY <3>1, <1>3, PersistenceAssumption
  <2>2. Tail(queue) \in Seq(Ids) /\ Len(Tail(queue)) = Len(queue) - 1 /\ Head(queue) \in Ids
    BY <2>1, TailElements DEF Typed, ChannelTyped
  <2>3. /\ Append(Tail(queue), id) \in Seq(Ids)
        /\ Len(Append(Tail(queue), id)) = Len(Tail(queue)) + 1
    BY <2>2, AppendElements
  <2>4. ChannelTyped'
    BY <2>1, <2>2, <2>3, <1>3, PersistenceAssumption DEF Typed, ChannelTyped, Removed
  <2>5. excuse' \in [Ids -> {"none", "missed", "late"}]
    BY <1>3 DEF Typed, NotesTyped, Removed
  <2> QED BY <1>1, <2>4, <2>5
<1> QED BY <1>2, <1>3

\* A request moves on.
LEMMA GoKeepsTypes ==
    ASSUME RequestsTyped, NEW c \in Clients, NEW from, NEW to \in RequestSteps \ {"out"},
           from \notin {"out", "delete"}, Go(c, from, to), UNCHANGED del
    PROVE  RequestsTyped'
BY DEF RequestsTyped, Go

\* A request other than a delete ends.
LEMMA LeaveKeepsTypes ==
    ASSUME RequestsTyped, NEW c \in Clients, NEW from, from # "delete", Leave(c, from),
           UNCHANGED del
    PROVE  RequestsTyped'
BY DEF RequestsTyped, Leave, Out, RequestSteps

\* A request begins.
LEMMA AskKeepsTypes ==
    ASSUME RequestsTyped, NEW c \in Clients, NEW step \in RequestSteps \ {"out", "delete"},
           NEW id \in Ids, Ask(c, step, id), UNCHANGED del
    PROVE  RequestsTyped'
BY DEF RequestsTyped, Ask, Out

\* A delete moves on: it is the listener's, the sweep's or that of a client that deletes.
LEMMA DelKeepsTypes ==
    ASSUME RequestsTyped, NEW a \in Deleters, NEW p \in Procedures,
           a \in Clients => client[a].step = "delete",
           del' = [del EXCEPT ![a] = p], UNCHANGED client
    PROVE  RequestsTyped'
BY DEF RequestsTyped

\* The states of a delete.
LEMMA ProceduresTyped ==
    /\ NotDeleting \in Procedures
    /\ \A id \in Ids : [step |-> "list", id |-> id, convs |-> {}] \in Procedures
BY DEF Procedures, NotDeleting

\* A client's delete is under way only while its request is one.
LEMMA DeleterAsks ==
    ASSUME RequestsTyped, NEW a \in Deleters, del[a].step # "none"
    PROVE  a \in Clients => client[a].step = "delete"
BY DEF RequestsTyped, NotDeleting

\* Each step of a delete.
LEMMA DeletingKeepsTypes ==
    ASSUME RequestsTyped, NEW a \in Deleters, Deleting(a) \/ FailDelete(a)
    PROVE  RequestsTyped'
<1>1. del[a] \in Procedures /\ client' = client /\ del \in [Deleters -> Procedures]
  BY DEF RequestsTyped, Deleting, ListConvs, DeleteConvs, DeleteRow, FailDelete
<1>2. a \in Clients => client[a].step = "delete"
  BY DeleterAsks DEF Deleting, ListConvs, DeleteConvs, DeleteRow, FailDelete
<1>3. PICK p \in Procedures : del' = [del EXCEPT ![a] = p]
  <2>1. CASE ListConvs(a)
    <3>1. [del[a] EXCEPT !.step = "convs", !.convs = ConvsOf(del[a].id)] \in Procedures
      BY <1>1 DEF Procedures, ConvsOf
    <3> QED BY <3>1, <2>1, <1>1 DEF ListConvs
  <2>2. CASE DeleteConvs(a)
    <3>1. [del[a] EXCEPT !.step = "row"] \in Procedures
      BY <1>1 DEF Procedures
    <3> QED BY <3>1, <2>2, <1>1 DEF DeleteConvs
  <2>3. CASE DeleteRow(a)
    <3>1. [del[a] EXCEPT !.step = "done"] \in Procedures
      BY <1>1 DEF Procedures
    <3> QED BY <3>1, <2>3, <1>1 DEF DeleteRow
  <2>4. CASE FailDelete(a)
    <3>1. [del[a] EXCEPT !.step = "failed"] \in Procedures
      BY <1>1 DEF Procedures
    <3> QED BY <3>1, <2>4, <1>1 DEF FailDelete
  <2> QED BY <2>1, <2>2, <2>3, <2>4 DEF Deleting
<1> QED BY <1>1, <1>2, <1>3, DelKeepsTypes

-----------------------------------------------------------------------------
(* Types: one step per action, one below it per part that the action disturbs. *)

\* The steps of a delete keep the types.
LEMMA DeletesKeepTypes ==
    ASSUME Typed, NEW a \in Deleters, Deleting(a) \/ FailDelete(a)
    PROVE  Typed'
<1>1. RequestsTyped'
  BY DeletingKeepsTypes DEF Typed
<1>2. CASE ListConvs(a)
  BY <1>1, <1>2 DEF ListConvs, table, store, channel, Typed, TablesTyped, ChannelTyped, SweepTyped,
     NotesTyped
<1>3. CASE DeleteConvs(a)
  <2>1. TablesTyped'
    BY <1>3 DEF DeleteConvs, table, Typed, TablesTyped
  <2> QED BY <2>1, <1>1, <1>3 DEF DeleteConvs, channel, Typed, ChannelTyped, SweepTyped, NotesTyped
<1>4. CASE DeleteRow(a)
  <2>1. TablesTyped' /\ NotesTyped'
    BY <1>4, AgesTyped DEF DeleteRow, table, Typed, TablesTyped, NotesTyped
  <2> QED BY <2>1, <1>1, <1>4 DEF DeleteRow, channel, Typed, ChannelTyped, SweepTyped
<1>5. CASE FailDelete(a)
  <2>1. NotesTyped'
    <3>1. faults' \in 0..MaxFaults
      BY <1>5, PersistenceAssumption DEF FailDelete, Fault, Typed, NotesTyped
    <3>2. excuse' \in [Ids -> {"none", "missed", "late"}]
      BY <1>5 DEF FailDelete, Typed, NotesTyped
    <3> QED BY <3>1, <3>2 DEF NotesTyped
  <2> QED BY <2>1, <1>1, <1>5 DEF FailDelete, table, store, channel, Typed, TablesTyped,
             ChannelTyped, SweepTyped
<1> QED BY <1>2, <1>3, <1>4, <1>5 DEF Deleting

\* A request that is not a delete and is under way is about a session.
LEMMA RequestAbout ==
    ASSUME RequestsTyped, NEW c \in Clients, client[c].step # "out"
    PROVE  S(c) \in Ids
BY DEF RequestsTyped, S

\* The steps of a request keep the types.
LEMMA RequestsKeepTypes ==
    ASSUME Typed, NEW c \in Clients, Requesting(c)
    PROVE  Typed'
<1> USE DEF Typed
<1>1. ASSUME NEW id \in Ids, Create(c, id) PROVE Typed'
  <2>1. RequestsTyped'
    BY <1>1, AskKeepsTypes DEF Create, RequestSteps
  <2>2. TablesTyped'
    BY <1>1, AgesTyped DEF Create, store, TablesTyped
  <2> QED BY <2>1, <2>2, <1>1 DEF Create, channel, ChannelTyped, SweepTyped, NotesTyped
<1>2. ASSUME NEW id \in Ids, FindLive(c, id) PROVE Typed'
  <2>1. RequestsTyped'
    BY <1>2, AskKeepsTypes DEF FindLive, RequestSteps
  <2>2. TablesTyped'
    BY <1>2, AgesTyped DEF FindLive, store, TablesTyped
  <2> QED BY <2>1, <2>2, <1>2 DEF FindLive, channel, ChannelTyped, SweepTyped, NotesTyped
<1>3. ASSUME NEW id \in Ids, FindStored(c, id) PROVE Typed'
  <2>1. RequestsTyped'
    BY <1>3, AskKeepsTypes DEF FindStored, RequestSteps
  <2> QED BY <2>1, <1>3 DEF FindStored, table, store, channel, TablesTyped, ChannelTyped, SweepTyped,
             NotesTyped
<1>4. ASSUME NEW id \in Ids, AskDelete(c, id) PROVE Typed'
  <2>1. RequestsTyped'
    <3>1. client' = [client EXCEPT ![c] = [step |-> "delete", id |-> id]]
      BY <1>4 DEF AskDelete, Ask
    <3>2. del' = [del EXCEPT ![c] = [step |-> "list", id |-> id, convs |-> {}]]
      BY <1>4 DEF AskDelete, StartDelete
    <3>3. [step |-> "list", id |-> id, convs |-> {}] \in Procedures
      BY ProceduresTyped
    <3> QED BY <3>1, <3>2, <3>3 DEF RequestsTyped, RequestSteps, Deleters
  <2> QED BY <2>1, <1>4 DEF AskDelete, table, store, channel, TablesTyped, ChannelTyped, SweepTyped,
             NotesTyped
<1>5. CASE Adopt(c)
  <2>1. RequestsTyped'
    BY <1>5, GoKeepsTypes DEF Adopt, RequestSteps
  <2>2. TablesTyped'
    BY <1>5, AgesTyped DEF Adopt, store, TablesTyped
  <2> QED BY <2>1, <2>2, <1>5 DEF Adopt, channel, ChannelTyped, SweepTyped, NotesTyped
<1>6. CASE FindRow(c)
  <2>1. RequestsTyped'
    BY <1>6, GoKeepsTypes, LeaveKeepsTypes DEF FindRow, RequestSteps
  <2> QED BY <2>1, <1>6 DEF FindRow, table, store, channel, TablesTyped, ChannelTyped, SweepTyped,
             NotesTyped
<1>7. CASE FindNoRow(c)
  <2>1. RequestsTyped'
    BY <1>7, GoKeepsTypes DEF FindNoRow, RequestSteps
  <2> QED BY <2>1, <1>7 DEF FindNoRow, table, store, channel, TablesTyped, ChannelTyped, SweepTyped,
             NotesTyped
<1>8. CASE UpsertRow(c)
  <2>1. RequestsTyped'
    BY <1>8, GoKeepsTypes, LeaveKeepsTypes DEF UpsertRow, RequestSteps
  <2>2. TablesTyped'
    BY <1>8, AgesTyped DEF UpsertRow, table, TablesTyped
  <2>3. NotesTyped'
    BY <1>8 DEF UpsertRow, NotesTyped
  <2> QED BY <2>1, <2>2, <2>3, <1>8 DEF UpsertRow, channel, ChannelTyped, SweepTyped
<1>9. CASE InsertConv(c)
  <2>1. RequestsTyped'
    BY <1>9, GoKeepsTypes DEF InsertConv, RequestSteps
  <2>2. S(c) \in Ids
    BY <1>9, RequestAbout DEF InsertConv, Go
  <2>3. TablesTyped'
    BY <1>9, <2>2 DEF InsertConv, table, TablesTyped
  <2> QED BY <2>1, <2>3, <1>9 DEF InsertConv, channel, ChannelTyped, SweepTyped, NotesTyped
<1>10. CASE Activate(c)
  <2>1. RequestsTyped'
    BY <1>10, LeaveKeepsTypes DEF Activate
  <2>2. TablesTyped'
    BY <1>10, AgesTyped DEF Activate, table, TablesTyped
  <2> QED BY <2>1, <2>2, <1>10 DEF Activate, channel, ChannelTyped, SweepTyped, NotesTyped
<1>11. CASE RemoveLive(c)
  <2>1. RequestsTyped'
    <3>1. client' = [client EXCEPT ![c] = Out] /\ del' = [del EXCEPT ![c] = NotDeleting]
      BY <1>11 DEF RemoveLive, Leave, EndDelete
    <3> QED BY <3>1, ProceduresTyped DEF RequestsTyped, Out, RequestSteps, Deleters
  <2>2. live' \in [Ids -> Ages] /\ ChannelTyped' /\ excuse' \in [Ids -> {"none", "missed", "late"}]
    <3>1. CASE IsLive(S(c))
      <4>1. S(c) \in Ids
        BY <1>11, RequestAbout DEF RemoveLive, Leave
      <4> QED BY <3>1, <4>1, <1>11, RemovedKeepsTypes DEF RemoveLive
    <3>2. CASE ~IsLive(S(c))
      BY <3>2, <1>11 DEF RemoveLive, TablesTyped, ChannelTyped, NotesTyped
    <3> QED BY <3>1, <3>2
  <2> QED BY <2>1, <2>2, <1>11 DEF RemoveLive, store, TablesTyped, SweepTyped, NotesTyped
<1>12. CASE Abandon(c)
  <2>1. RequestsTyped'
    <3>1. client' = [client EXCEPT ![c] = Out] /\ del' = [del EXCEPT ![c] = NotDeleting]
      BY <1>12 DEF Abandon, EndDelete
    <3> QED BY <3>1, ProceduresTyped DEF RequestsTyped, Out, RequestSteps, Deleters
  <2> QED BY <2>1, <1>12 DEF Abandon, table, store, channel, TablesTyped, ChannelTyped, SweepTyped,
             NotesTyped
<1> QED BY <1>1, <1>2, <1>3, <1>4, <1>5, <1>6, <1>7, <1>8, <1>9, <1>10, <1>11, <1>12 DEF Requesting

\* What a sweep writes, keeps and starts over with.
LEMMA SweepPieces ==
    ASSUME Typed
    PROVE  /\ NoSweep \in [step : SweepSteps, snap : [Ids -> Ages], todo : SUBSET Ids,
                           made : SUBSET Ids, seen : SUBSET Ids, old : SUBSET Convs,
                           failed : BOOLEAN, by : {"none", "timer", "listener"}]
           /\ LiveIds \subseteq Ids /\ StoredIds \subseteq Ids
           /\ sweep.snap \in [Ids -> Ages]
BY AgesTyped DEF NoSweep, SweepSteps, LiveIds, StoredIds, Typed, SweepTyped

\* A new sweep takes the table's snapshot, along.
LEMMA NewSweepTyped ==
    ASSUME Typed, NEW by \in {"timer", "listener"}, NewSweep(by)
    PROVE  SweepTyped'
BY SweepPieces DEF NewSweep, SweepTyped, SweepSteps, NoSweep, Typed, TablesTyped

\* What follows the flush.
LEMMA AfterFlushTyped ==
    ASSUME Typed, NEW failed, sweep' = AfterFlush(failed)
    PROVE  SweepTyped'
BY SweepPieces DEF AfterFlush, SweepTyped, SweepSteps, NoSweep, Typed

\* The tables, with a row that takes an age of the snapshot.
LEMMA RowFromSnapshot ==
    ASSUME Typed, NEW id \in Ids, NEW keep \in BOOLEAN,
           row' = [row EXCEPT ![id] = IF keep /\ @ = None THEN None ELSE sweep.snap[id]],
           UNCHANGED <<live, born, conv>>
    PROVE  TablesTyped'
BY AgesTyped, SweepPieces DEF Typed, TablesTyped

\* The steps of the sweep keep the types.
LEMMA SweepKeepsTypes ==
    ASSUME Typed, SweepStep \/ FailWrite \/ TimerSweeps
    PROVE  Typed'
<1> USE DEF Typed
<1> DEFINE Others == UNCHANGED <<del, excuse, live, born, queue, lagged, client, faults>>
<1>1. ASSUME Others, TablesTyped', SweepTyped' PROVE Typed'
  BY <1>1 DEF ChannelTyped, RequestsTyped, NotesTyped
<1>2. ASSUME Others, UNCHANGED <<row, conv>>, SweepTyped' PROVE Typed'
  BY <1>1, <1>2 DEF TablesTyped
<1>3. ASSUME NEW id \in Ids, Flush(id) PROVE Typed'
  <2>1. SweepTyped'
    BY <1>3 DEF Flush, Sweeping, SweepTyped
  <2>2. Others
    BY <1>3 DEF Flush, sweepOnly, table, channel
  <2>3. TablesTyped'
    BY <1>3, <2>2, RowFromSnapshot DEF Flush
  <2> HIDE DEF Others
  <2> QED BY <2>1, <2>2, <2>3, <1>1
<1>4. ASSUME NEW id \in Ids, WriteMissing(id) PROVE Typed'
  <2>1. SweepTyped'
    BY <1>4 DEF WriteMissing, Sweeping, SweepTyped
  <2>2. Others
    BY <1>4 DEF WriteMissing, sweepOnly, table, channel
  <2>3. TablesTyped'
    BY <1>4, <2>2, RowFromSnapshot DEF WriteMissing
  <2> HIDE DEF Others
  <2> QED BY <2>1, <2>2, <2>3, <1>1
<1>5. ASSUME NEW id \in Ids, SweepDeletes(id) PROVE Typed'
  <2>1. del' = [del EXCEPT !["sweep"] = [step |-> "list", id |-> id, convs |-> {}]]
    BY <1>5 DEF SweepDeletes, StartDelete
  <2>2. client' = client /\ "sweep" \in Deleters /\ "sweep" \notin Clients
    BY <1>5, PersistenceAssumption DEF SweepDeletes, Deleters
  <2>3. [step |-> "list", id |-> id, convs |-> {}] \in Procedures
    BY ProceduresTyped
  <2>4. RequestsTyped'
    BY <2>1, <2>2, <2>3, DelKeepsTypes
  <2> QED BY <2>4, <1>5 DEF SweepDeletes, table, store, channel, TablesTyped, ChannelTyped,
             SweepTyped, NotesTyped
<1>6. CASE SweepDeleted
  <2>1. client' = client /\ "sweep" \in Deleters /\ "sweep" \notin Clients
    BY <1>6, PersistenceAssumption DEF SweepDeleted, Deleters
  <2>2. RequestsTyped'
    BY <1>6, <2>1, ProceduresTyped, DelKeepsTypes DEF SweepDeleted, EndDelete
  <2>3. SweepTyped'
    <3>1. PICK failed \in BOOLEAN :
              sweep' = IF failed /\ sweep.step = "delete" THEN NoSweep
                       ELSE [sweep EXCEPT !.todo = @ \ {del["sweep"].id}, !.failed = @ \/ failed]
      BY <1>6 DEF SweepDeleted
    <3>2. CASE failed /\ sweep.step = "delete"
      BY <3>1, <3>2, SweepPieces DEF SweepTyped
    <3>3. CASE ~(failed /\ sweep.step = "delete")
      BY <3>1, <3>3 DEF SweepTyped
    <3> QED BY <3>2, <3>3
  <2> QED BY <2>2, <2>3, <1>6 DEF SweepDeleted, table, store, channel, TablesTyped, ChannelTyped,
             NotesTyped
<1>7. CASE EndFlush
  <2>1. SweepTyped'
    <3>1. CASE sweep.made = {}
      BY <3>1, <1>7, AfterFlushTyped DEF EndFlush, Sweeping
    <3>2. CASE sweep.made # {}
      BY <3>2, <1>7 DEF EndFlush, Sweeping, SweepTyped, SweepSteps
    <3> QED BY <3>1, <3>2
  <2> QED BY <2>1, <1>2, <1>7 DEF EndFlush, sweepOnly, table, channel, store
<1>8. CASE EndWrite
  <2>1. SweepTyped'
    <3>1. CASE sweep.made = {}
      BY <3>1, <1>8, AfterFlushTyped DEF EndWrite, Sweeping
    <3>2. CASE sweep.made # {}
      BY <3>2, <1>8, AgesTyped DEF EndWrite, Sweeping, SweepTyped, SweepSteps, NoSweep
    <3> QED BY <3>1, <3>2
  <2> QED BY <2>1, <1>2, <1>8 DEF EndWrite, sweepOnly, table, channel, store
<1>9. CASE EndDepart
  BY <1>9, <1>2, AfterFlushTyped DEF EndDepart, Sweeping, sweepOnly, table, channel, store
<1>10. CASE ReadLive
  <2>1. SweepTyped'
    BY <1>10, SweepPieces DEF ReadLive, Sweeping, SweepTyped, SweepSteps
  <2> QED BY <2>1, <1>10, <1>2 DEF ReadLive, sweepOnly, table, channel, store
<1>11. CASE ReadExpired
  <2>1. SweepTyped'
    BY <1>11, SweepPieces DEF ReadExpired, Sweeping, SweepTyped, SweepSteps
  <2> QED BY <2>1, <1>11, <1>2 DEF ReadExpired, sweepOnly, table, channel, store
<1>12. CASE ReadRows
  <2>1. SweepTyped'
    BY <1>12, SweepPieces DEF ReadRows, Sweeping, SweepTyped, SweepSteps
  <2> QED BY <2>1, <1>12, <1>2 DEF ReadRows, sweepOnly, table, channel, store
<1>13. CASE DeleteOrphans
  <2>1. SweepTyped'
    BY <1>13, SweepPieces DEF DeleteOrphans, Sweeping, SweepTyped
  <2>2. Others /\ TablesTyped'
    BY <1>13 DEF DeleteOrphans, sweepOnly, table, channel, TablesTyped
  <2> HIDE DEF Others
  <2> QED BY <2>1, <2>2, <1>1
<1>14. CASE Deleting("sweep")
  BY <1>14, DeletesKeepTypes DEF Deleters
<1>15. CASE FailWrite
  <2>1. SweepTyped'
    BY <1>15 DEF FailWrite, Sweeping, SweepTyped
  <2>2. NotesTyped'
    BY <1>15, PersistenceAssumption DEF FailWrite, Fault, NotesTyped
  <2> QED BY <2>1, <2>2, <1>15 DEF FailWrite, table, store, channel, TablesTyped, ChannelTyped,
             RequestsTyped
<1>16. CASE TimerSweeps
  <2>1. SweepTyped'
    BY <1>16, NewSweepTyped DEF TimerSweeps
  <2> QED BY <2>1, <1>16, <1>2 DEF TimerSweeps, table, channel, store
<1> QED BY <1>3, <1>4, <1>5, <1>6, <1>7, <1>8, <1>9, <1>10, <1>11, <1>12, <1>13, <1>14, <1>15, <1>16
        DEF SweepStep

\* The steps of the removal listener keep the types.
LEMMA ListenerKeepsTypes ==
    ASSUME Typed, Listener
    PROVE  Typed'
<1> USE DEF Typed
<1>1. "listener" \in Deleters /\ "listener" \notin Clients
  BY PersistenceAssumption DEF Deleters
<1>2. CASE Receive
  <2>1. queue \in Seq(Ids) /\ queue # <<>>
    BY <1>2 DEF Receive, ChannelTyped
  <2>2. Tail(queue) \in Seq(Ids) /\ Len(Tail(queue)) = Len(queue) - 1 /\ Head(queue) \in Ids
    BY <2>1, TailElements
  <2>3. ChannelTyped'
    BY <2>2, <2>1, <1>2, LenProperties, PersistenceAssumption DEF Receive, ChannelTyped
  <2>4. RequestsTyped'
    <3>1. del' = [del EXCEPT !["listener"] = [step |-> "list", id |-> Head(queue), convs |-> {}]]
      BY <1>2 DEF Receive, StartDelete
    <3>2. [step |-> "list", id |-> Head(queue), convs |-> {}] \in Procedures
      BY <2>2, ProceduresTyped
    <3>3. client' = client
      BY <1>2 DEF Receive
    <3> QED BY <3>1, <3>2, <3>3, <1>1, DelKeepsTypes
  <2> QED BY <2>3, <2>4, <1>2 DEF Receive, table, store, TablesTyped, SweepTyped, NotesTyped
<1>3. CASE ListenerDeleted
  <2>1. RequestsTyped'
    BY <1>3, <1>1, ProceduresTyped, DelKeepsTypes DEF ListenerDeleted, EndDelete
  <2> QED BY <2>1, <1>3 DEF ListenerDeleted, table, store, channel, TablesTyped, ChannelTyped,
             SweepTyped, NotesTyped
<1>4. CASE Lagged
  <2>1. SweepTyped'
    BY <1>4, NewSweepTyped DEF Lagged, SweepTyped
  <2> QED BY <2>1, <1>4 DEF Lagged, table, store, ChannelTyped, TablesTyped, RequestsTyped, NotesTyped
<1>5. CASE Deleting("listener")
  BY <1>5, <1>1, DeletesKeepTypes
<1> QED BY <1>2, <1>3, <1>4, <1>5 DEF Listener

\* A restart keeps the types.
LEMMA RestartKeepsTypes ==
    ASSUME Typed, Restart
    PROVE  Typed'
<1> USE DEF Typed
<1>1. TablesTyped'
  BY AgesTyped DEF Restart, store, TablesTyped
<1>2. ChannelTyped'
  <2>1. <<>> \in Seq(Ids) /\ Len(<<>>) = 0
    BY EmptySeq
  <2>2. queue' = <<>> /\ lagged' = FALSE
    BY DEF Restart
  <2>3. 0 <= Channel
    BY PersistenceAssumption
  <2> QED BY <2>1, <2>2, <2>3 DEF ChannelTyped
<1>3. RequestsTyped'
  BY ProceduresTyped DEF Restart, RequestsTyped, Out, RequestSteps, Deleters
<1>4. SweepTyped'
  BY SweepPieces DEF Restart, SweepTyped
<1>5. NotesTyped'
  BY PersistenceAssumption DEF Restart, Fault, NotesTyped
<1> QED BY <1>1, <1>2, <1>3, <1>4, <1>5

\* The types are kept by every step.
LEMMA TypesNext ==
    ASSUME Typed, [Next]_vars
    PROVE  Typed'
<1>1. ASSUME NEW id \in Ids, Depart(id) PROVE Typed'
  <2>1. live' \in [Ids -> Ages] /\ ChannelTyped' /\ excuse' \in [Ids -> {"none", "missed", "late"}]
    BY <1>1, RemovedKeepsTypes DEF Depart
  <2> QED BY <2>1, <1>1 DEF Depart, store, Typed, TablesTyped, RequestsTyped, SweepTyped, NotesTyped
<1>2. CASE Tick
  <2>1. TablesTyped'
    BY <1>2, AgesTyped DEF Tick, Typed, TablesTyped
  <2>2. SweepTyped'
    BY <1>2, AgesTyped, SweepPieces DEF Tick, Typed, SweepTyped
  <2> QED BY <2>1, <2>2, <1>2 DEF Tick, channel, Typed, ChannelTyped, RequestsTyped, NotesTyped
<1>3. CASE UNCHANGED vars
  BY <1>3 DEF vars, Typed, TablesTyped, ChannelTyped, RequestsTyped, SweepTyped, NotesTyped
<1> QED BY <1>1, <1>2, <1>3, DeletesKeepTypes, RequestsKeepTypes, SweepKeepsTypes, ListenerKeepsTypes,
        RestartKeepsTypes DEF Next

-----------------------------------------------------------------------------
(* The departed session's row. *)

\* A step that brings back neither departed session nor row, and keeps what looks after it,
\* keeps the promise.
LEMMA StillKept ==
    ASSUME NEW id \in Ids, Kept(id),
           IsLive(id) => IsLive(id)', Stored(id)' => Stored(id),
           LookedAfter(id) => LookedAfter(id)', UNCHANGED excuse
    PROVE  Kept(id)'
BY DEF Kept

\* What looks after a session does not change with the rest of the state.
LEMMA LookedAfterSame ==
    ASSUME NEW id, UNCHANGED <<queue, sweep>>, \A a \in Background : del'[a] = del[a]
    PROVE  LookedAfter(id)' <=> LookedAfter(id)
BY DEF LookedAfter, DeleteAhead, DeleteBehind, Background

\* A client's deletes are its own.
LEMMA ClientDeletes ==
    ASSUME RequestsTyped, NEW c \in Clients, NEW p, del' = [del EXCEPT ![c] = p]
    PROVE  \A a \in Background : del'[a] = del[a]
BY PersistenceAssumption DEF RequestsTyped, Background, Deleters

\* A removal joins those in the queue, of which at most the head is lost.
LEMMA RemovedQueue ==
    ASSUME Typed, NEW id \in Ids, Removed(id)
    PROVE  /\ id \in ToSet(queue')
           /\ \A i \in ToSet(queue) : i \in ToSet(queue') \/ (~(Len(queue) < Channel) /\ i = Head(queue))
<1>1. queue \in Seq(Ids)
  BY DEF Typed, ChannelTyped
<1>4. \A q \in Seq(Ids) : ToSet(Append(q, id)) = ToSet(q) \union {id}
  <2>1. \A q \in Seq(Ids), c \in Ids : ToSet(Append(q, c)) = ToSet(q) \union {c}
    BY AppendElements
  <2> QED BY <2>1
<1>2. CASE Len(queue) < Channel
  <2>1. ToSet(Append(queue, id)) = ToSet(queue) \union {id}
    BY <1>1, <1>4, Zenon
  <2>2. queue' = Append(queue, id)
    BY <1>2 DEF Removed
  <2> QED BY <2>1, <2>2
<1>3. CASE ~(Len(queue) < Channel)
  <2>1. queue # <<>>
    <3>1. Len(queue) \in Nat /\ (queue = <<>> => Len(queue) = 0)
      BY <1>1, LenProperties
    <3> QED BY <3>1, <1>3, PersistenceAssumption
  <2>2. Tail(queue) \in Seq(Ids) /\ ToSet(queue) = ToSet(Tail(queue)) \union {Head(queue)}
    BY <2>1, <1>1, TailElements, Zenon
  <2>3. ToSet(Append(Tail(queue), id)) = ToSet(Tail(queue)) \union {id}
    BY <2>2, <1>4, Zenon
  <2>4. queue' = Append(Tail(queue), id)
    BY <1>3 DEF Removed
  <2> QED BY <2>2, <2>3, <2>4, <1>3
<1> QED BY <1>2, <1>3

\* A removal is queued, and one it displaces is noted.
LEMMA RemovedKept ==
    ASSUME Typed, DeparturesKept, NEW id \in Ids, Removed(id), UNCHANGED <<row, sweep>>,
           \A a \in Background : del'[a] = del[a]
    PROVE  DeparturesKept'
<1>1. ASSUME NEW i \in Ids PROVE Kept(i)'
  <2>1. live'[i] = (IF i = id THEN None ELSE live[i]) /\ row'[i] = row[i]
    BY DEF Removed, Typed, TablesTyped
  <2>2. CASE i = id
    BY <2>2, RemovedQueue DEF Kept, LookedAfter
  <2>3. CASE i # id
    <3>1. Kept(i)
      BY DEF DeparturesKept
    <3>2. excuse'[i] = IF ~(Len(queue) < Channel) /\ i = Head(queue) THEN "missed" ELSE excuse[i]
      BY <2>3 DEF Removed, Typed, NotesTyped
    <3>3. LookedAfter(i) => LookedAfter(i)' \/ excuse'[i] = "missed"
      BY <3>2, RemovedQueue DEF LookedAfter, DeleteAhead, DeleteBehind, Background
    <3> QED BY <3>1, <3>2, <3>3, <2>1, <2>3 DEF Kept, IsLive, Stored
  <2> QED BY <2>2, <2>3
<1> QED BY <1>1 DEF DeparturesKept

\* A delete's steps lead to its row's end, or to the note that it failed.
LEMMA DeletesKept ==
    ASSUME Typed, DeparturesKept, NEW a \in Deleters, Deleting(a) \/ FailDelete(a)
    PROVE  DeparturesKept'
<1>1. del \in [Deleters -> Procedures] /\ Background \subseteq Deleters
  BY DEF Typed, RequestsTyped, Background, Deleters
<1>2. ASSUME NEW i \in Ids PROVE Kept(i)'
  <2>1. Kept(i)
    BY DEF DeparturesKept
  <2>2. ASSUME NEW b \in Deleters, b # a PROVE del'[b] = del[b]
    BY <2>2, <1>1 DEF Deleting, ListConvs, DeleteConvs, DeleteRow, FailDelete
  <2>3. UNCHANGED <<queue, sweep, live>>
    BY DEF Deleting, ListConvs, DeleteConvs, DeleteRow, FailDelete, channel, table
  <2>4. CASE ListConvs(a) \/ DeleteConvs(a)
    <3>1. /\ del[a].step \in {"list", "convs"} /\ del'[a].step \in {"convs", "row"}
          /\ del'[a].id = del[a].id
      BY <2>4, <1>1 DEF ListConvs, DeleteConvs, Procedures
    <3>2. UNCHANGED <<row, excuse>>
      BY <2>4 DEF ListConvs, DeleteConvs, store
    <3>3. \A b \in Background : DeleteAhead(b, i) => DeleteAhead(b, i)'
      BY <3>1, <2>2, <1>1 DEF DeleteAhead
    <3>4. DeleteBehind("sweep", i)' => DeleteBehind("sweep", i)
      BY <3>1, <2>2 DEF DeleteBehind, Deleters
    <3>5. LookedAfter(i) => LookedAfter(i)'
      BY <3>3, <3>4, <2>3 DEF LookedAfter
    <3> QED BY <3>5, <3>2, <2>3, <2>1 DEF Kept, IsLive, Stored
  <2>5. CASE (DeleteRow(a) \/ FailDelete(a)) /\ del[a].id # i
    <3>1. del'[a].id = del[a].id
      BY <2>5, <1>1 DEF DeleteRow, FailDelete, Procedures
    <3>2. row'[i] = row[i] /\ excuse'[i] = excuse[i]
      BY <2>5 DEF DeleteRow, FailDelete, store, Typed, TablesTyped, NotesTyped
    <3>3. \A b \in Background : DeleteAhead(b, i) => DeleteAhead(b, i)'
      BY <3>1, <2>2, <2>5, <1>1 DEF DeleteAhead
    <3>4. DeleteBehind("sweep", i)' => DeleteBehind("sweep", i)
      BY <3>1, <2>2, <2>5 DEF DeleteBehind, Deleters
    <3>5. LookedAfter(i) => LookedAfter(i)'
      BY <3>3, <3>4, <2>3 DEF LookedAfter
    <3> QED BY <3>5, <3>2, <2>3, <2>1 DEF Kept, IsLive, Stored
  <2>6. CASE DeleteRow(a) /\ del[a].id = i
    BY <2>6 DEF DeleteRow, Kept, Stored, Typed, TablesTyped
  <2>7. CASE FailDelete(a) /\ del[a].id = i
    BY <2>7 DEF FailDelete, Kept, Typed, NotesTyped
  <2> QED BY <2>4, <2>5, <2>6, <2>7 DEF Deleting
<1> QED BY <1>2 DEF DeparturesKept

\* What a client asks and drops puts no row back unnoticed.
LEMMA RequestsKept ==
    ASSUME Typed, DeparturesKept, NEW c \in Clients, Requesting(c)
    PROVE  DeparturesKept'
<1>1. \A i \in Ids : Kept(i)
  BY DEF DeparturesKept
<1>2. ASSUME UNCHANGED <<queue, sweep, excuse>>, \A a \in Background : del'[a] = del[a],
             \A i \in Ids : (IsLive(i) => IsLive(i)') /\ (Stored(i)' => Stored(i))
      PROVE  DeparturesKept'
  <2>1. ASSUME NEW i \in Ids PROVE Kept(i)'
    BY <1>1, <1>2, LookedAfterSame, StillKept
  <2> QED BY <2>1 DEF DeparturesKept
<1>3. ASSUME NEW id \in Ids, Create(c, id) \/ FindLive(c, id) PROVE DeparturesKept'
  <2>1. UNCHANGED <<queue, sweep, excuse, row, del>>
    BY <1>3 DEF Create, FindLive, store, channel
  <2>2. \A i \in Ids : IsLive(i) => IsLive(i)'
    BY <1>3, AgesTyped DEF Create, FindLive, IsLive, Typed, TablesTyped
  <2> QED BY <2>1, <2>2, <1>2 DEF Stored
<1>4. ASSUME NEW id \in Ids, FindStored(c, id) PROVE DeparturesKept'
  BY <1>4, <1>2 DEF FindStored, table, store, channel, Stored, IsLive
<1>5. ASSUME NEW id \in Ids, AskDelete(c, id) PROVE DeparturesKept'
  <2>1. \A a \in Background : del'[a] = del[a]
    BY <1>5, ClientDeletes DEF AskDelete, StartDelete, Typed
  <2> QED BY <1>5, <2>1, <1>2 DEF AskDelete, table, store, channel, Stored, IsLive
<1>6. CASE Adopt(c)
  <2>1. UNCHANGED <<queue, sweep, excuse, row, del>>
    BY <1>6 DEF Adopt, store, channel
  <2>2. \A i \in Ids : IsLive(i) => IsLive(i)'
    BY <1>6, AgesTyped DEF Adopt, IsLive, Typed, TablesTyped
  <2> QED BY <2>1, <2>2, <1>2 DEF Stored
<1>7. CASE FindRow(c) \/ FindNoRow(c)
  BY <1>7, <1>2 DEF FindRow, FindNoRow, table, store, channel, Stored, IsLive
<1>8. CASE UpsertRow(c)
  <2>1. UNCHANGED <<queue, sweep, live, del>>
    BY <1>8 DEF UpsertRow, table, channel
  <2>2. ASSUME NEW i \in Ids PROVE Kept(i)'
    <3>1. CASE i = S(c)
      <4>1. excuse'[i] = IF IsLive(i) THEN excuse[i] ELSE "late"
        BY <3>1, <1>8 DEF UpsertRow, Typed, NotesTyped
      <4> QED BY <4>1, <2>1 DEF Kept, IsLive
    <3>2. CASE i # S(c)
      <4>1. row'[i] = row[i] /\ excuse'[i] = excuse[i]
        BY <3>2, <1>8 DEF UpsertRow, Typed, TablesTyped, NotesTyped
      <4>2. LookedAfter(i)' <=> LookedAfter(i)
        BY <2>1, LookedAfterSame
      <4> QED BY <4>1, <4>2, <2>1, <1>1 DEF Kept, Stored, IsLive
    <3> QED BY <3>1, <3>2
  <2> QED BY <2>2 DEF DeparturesKept
<1>9. CASE InsertConv(c)
  BY <1>9, <1>2 DEF InsertConv, table, channel, Stored, IsLive
<1>10. CASE Activate(c)
  <2>1. UNCHANGED <<queue, sweep, excuse, live, del>>
    BY <1>10 DEF Activate, table, channel
  <2>2. \A i \in Ids : Stored(i)' => Stored(i)
    BY <1>10 DEF Activate, Stored, Typed, TablesTyped
  <2> QED BY <2>1, <2>2, <1>2 DEF IsLive
<1>11. CASE RemoveLive(c)
  <2>1. \A a \in Background : del'[a] = del[a]
    BY <1>11, ClientDeletes DEF RemoveLive, EndDelete, Typed
  <2>2. UNCHANGED <<row, sweep>>
    BY <1>11 DEF RemoveLive, store
  <2>3. CASE IsLive(S(c))
    <3>1. S(c) \in Ids
      BY <1>11, RequestAbout DEF RemoveLive, Leave, Typed
    <3> QED BY <3>1, <2>1, <2>2, <2>3, <1>11, RemovedKept DEF RemoveLive
  <2>4. CASE ~IsLive(S(c))
    <3>1. UNCHANGED <<live, queue, excuse>>
      BY <2>4, <1>11 DEF RemoveLive
    <3> QED BY <3>1, <2>1, <2>2, <1>2 DEF Stored, IsLive
  <2> QED BY <2>3, <2>4
<1>12. CASE Abandon(c)
  <2>1. \A a \in Background : del'[a] = del[a]
    BY <1>12, ClientDeletes DEF Abandon, EndDelete, Typed
  <2> QED BY <1>12, <2>1, <1>2 DEF Abandon, table, store, channel, Stored, IsLive
<1> QED BY <1>3, <1>4, <1>5, <1>6, <1>7, <1>8, <1>9, <1>10, <1>11, <1>12 DEF Requesting

\* A step of the sweep that starts or ends no delete of its own.
LEMMA SweepMoves ==
    ASSUME Typed, DeparturesKept, UNCHANGED <<queue, del, live, excuse>>,
           \A i \in Ids : Stored(i)' => Stored(i),
           \A i \in Ids : /\ sweep.step = "write" /\ i \in sweep.made /\ ~IsLive(i) => LookedAfter(i)'
                          /\ sweep.step = "depart" /\ i \in sweep.todo /\ ~DeleteBehind("sweep", i)
                                => LookedAfter(i)'
    PROVE  DeparturesKept'
<1>1. ASSUME NEW i \in Ids PROVE Kept(i)'
  <2>1. Kept(i)
    BY DEF DeparturesKept
  <2>2. IsLive(i)' <=> IsLive(i)
    BY DEF IsLive
  <2>3. ~IsLive(i) /\ LookedAfter(i) => LookedAfter(i)'
    BY DEF LookedAfter, DeleteAhead
  <2> QED BY <2>1, <2>2, <2>3 DEF Kept
<1> QED BY <1>1 DEF DeparturesKept

\* The sweep leaves no row it wrote for a session that left meanwhile: it goes from the list of
\* rows written to that of rows to delete, and from there only when its delete is over.
LEMMA SweepKept ==
    ASSUME Typed, SweepDeletesListed, DeparturesKept, SweepStep \/ FailWrite \/ TimerSweeps
    PROVE  DeparturesKept'
<1> DEFINE Others == UNCHANGED <<queue, del, live, excuse>>
<1>1. \A i \in Ids : Kept(i)
  BY DEF DeparturesKept
<1>2. row' = row => \A i \in Ids : Stored(i)' => Stored(i)
  BY DEF Stored
<1>3. ASSUME Others, UNCHANGED row, sweep.step \notin {"write", "depart"} \/ sweep.todo = {},
             sweep.step # "write"
      PROVE  DeparturesKept'
  BY <1>2, <1>3, SweepMoves
<1>4. ASSUME NEW id \in Ids, Flush(id) PROVE DeparturesKept'
  <2>1. Others /\ sweep.step = "flush"
    BY <1>4 DEF Flush, Sweeping, sweepOnly, table, channel
  <2>2. \A i \in Ids : Stored(i)' => Stored(i)
    BY <1>4 DEF Flush, Stored, Typed, TablesTyped
  <2> QED BY <2>1, <2>2, SweepMoves
<1>5. ASSUME NEW id \in Ids, WriteMissing(id) PROVE DeparturesKept'
  <2>1. Others
    BY <1>5 DEF WriteMissing, sweepOnly, table, channel
  <2>2. /\ sweep.step = "write" /\ sweep'.step = "write"
        /\ sweep'.made = sweep.made \union {id}
    BY <1>5 DEF WriteMissing, Sweeping, Typed, SweepTyped
  <2>3. ASSUME NEW i \in Ids PROVE Kept(i)'
    <3>1. CASE i = id
      BY <3>1, <2>2 DEF Kept, LookedAfter
    <3>2. CASE i # id
      <4>1. row'[i] = row[i]
        BY <3>2, <1>5 DEF WriteMissing, Typed, TablesTyped
      <4>2. LookedAfter(i) => LookedAfter(i)'
        BY <2>1, <2>2 DEF LookedAfter, DeleteAhead
      <4> QED BY <4>1, <4>2, <2>1, <1>1 DEF Kept, IsLive, Stored
    <3> QED BY <3>1, <3>2
  <2> QED BY <2>3 DEF DeparturesKept
<1>6. ASSUME NEW id \in Ids, SweepDeletes(id) PROVE DeparturesKept'
  <2>1. UNCHANGED <<queue, sweep, live, row, excuse>>
    BY <1>6 DEF SweepDeletes, table, store, channel
  <2>2. del["sweep"] = NotDeleting /\ \A a \in Deleters \ {"sweep"} : del'[a] = del[a]
    BY <1>6 DEF SweepDeletes, StartDelete, Typed, RequestsTyped
  <2>3. del'["sweep"].step = "list"
    BY <1>6 DEF SweepDeletes, StartDelete, Typed, RequestsTyped, Deleters
  <2>4. ASSUME NEW i \in Ids PROVE LookedAfter(i) => LookedAfter(i)'
    <3>1. \A a \in Background : DeleteAhead(a, i) => DeleteAhead(a, i)'
      BY <2>2 DEF DeleteAhead, NotDeleting, Background, Deleters
    <3>2. ~DeleteBehind("sweep", i)'
      BY <2>3 DEF DeleteBehind
    <3> QED BY <3>1, <3>2, <2>1 DEF LookedAfter
  <2>5. ASSUME NEW i \in Ids PROVE Kept(i)'
    BY <2>1, <2>4, <1>1 DEF Kept, IsLive, Stored
  <2> QED BY <2>5 DEF DeparturesKept
<1>7. CASE SweepDeleted
  <2>1. UNCHANGED <<queue, live, row, excuse>> /\ del["sweep"].step \in {"done", "failed"}
    BY <1>7 DEF SweepDeleted, table, store, channel
  <2>2. /\ del'["sweep"].step = "none"
        /\ \A a \in Deleters \ {"sweep"} : del'[a] = del[a]
    BY <1>7 DEF SweepDeleted, EndDelete, NotDeleting, Typed, RequestsTyped, Deleters
  <2>3. sweep.step # "delete" => /\ sweep'.step = sweep.step /\ sweep'.made = sweep.made
                                 /\ sweep'.todo = sweep.todo \ {del["sweep"].id}
    BY <1>7 DEF SweepDeleted, Typed, SweepTyped
  <2>4. ASSUME NEW i \in Ids PROVE LookedAfter(i) => LookedAfter(i)'
    <3>1. \A a \in Background : DeleteAhead(a, i) => DeleteAhead(a, i)'
      BY <2>1, <2>2 DEF DeleteAhead, Background, Deleters
    <3>2. ~DeleteBehind("sweep", i) => i # del["sweep"].id
      BY <2>1 DEF DeleteBehind
    <3>3. ~DeleteBehind("sweep", i)'
      BY <2>2 DEF DeleteBehind
    <3> QED BY <3>1, <3>2, <3>3, <2>1, <2>3 DEF LookedAfter
  <2>5. ASSUME NEW i \in Ids PROVE Kept(i)'
    BY <2>1, <2>4, <1>1 DEF Kept, IsLive, Stored
  <2> QED BY <2>5 DEF DeparturesKept
<1>8. CASE EndFlush
  BY <1>8, <1>3 DEF EndFlush, Sweeping, sweepOnly, table, channel, store
<1>9. CASE EndWrite
  <2>1. Others /\ UNCHANGED row /\ sweep.step = "write"
    BY <1>9 DEF EndWrite, Sweeping, sweepOnly, table, channel, store
  <2>2. ASSUME NEW i \in Ids, i \in sweep.made, ~IsLive(i) PROVE LookedAfter(i)'
    <3>1. sweep'.step = "depart" /\ sweep'.todo = sweep.made \ LiveIds
      BY <2>2, <1>9 DEF EndWrite, Sweeping, Typed, SweepTyped
    <3>2. i \in sweep'.todo
      BY <3>1, <2>2 DEF LiveIds
    <3>3. del["sweep"].step = "none"
      BY <2>1 DEF SweepDeletesListed
    <3>4. ~DeleteBehind("sweep", i)'
      BY <3>3, <2>1 DEF DeleteBehind
    <3> QED BY <3>1, <3>2, <3>4 DEF LookedAfter
  <2> QED BY <2>1, <2>2, <1>2, SweepMoves
<1>10. CASE EndDepart
  BY <1>10, <1>3 DEF EndDepart, Sweeping, sweepOnly, table, channel, store
<1>11. CASE ReadLive \/ ReadExpired \/ ReadRows
  BY <1>11, <1>3 DEF ReadLive, ReadExpired, ReadRows, Sweeping, sweepOnly, table, channel, store
<1>12. CASE DeleteOrphans
  BY <1>12, <1>3 DEF DeleteOrphans, Sweeping, sweepOnly, table, channel
<1>13. CASE Deleting("sweep")
  BY <1>13, DeletesKept DEF Deleters
<1>14. CASE FailWrite
  <2>1. Others /\ UNCHANGED row /\ sweep.step = "write"
    BY <1>14 DEF FailWrite, Sweeping, table, channel, store
  <2>2. sweep'.step = "write" /\ sweep'.made = sweep.made
    BY <1>14 DEF FailWrite, Sweeping, Typed, SweepTyped
  <2> QED BY <2>1, <2>2, <1>2, SweepMoves DEF LookedAfter
<1>15. CASE TimerSweeps
  BY <1>15, <1>3 DEF TimerSweeps, NewSweep, table, channel, store
<1> QED BY <1>4, <1>5, <1>6, <1>7, <1>8, <1>9, <1>10, <1>11, <1>12, <1>13, <1>14, <1>15 DEF SweepStep

\* The listener takes a removal up before it is out of the queue.
LEMMA ListenerKept ==
    ASSUME Typed, DeparturesKept, Listener
    PROVE  DeparturesKept'
<1>1. \A i \in Ids : Kept(i)
  BY DEF DeparturesKept
<1>2. CASE Receive
  <2>1. UNCHANGED <<sweep, live, row, excuse>> /\ del["listener"] = NotDeleting
    BY <1>2 DEF Receive, Listening, table, store
  <2>2. /\ del'["listener"].step = "list" /\ del'["listener"].id = Head(queue)
        /\ del'["sweep"] = del["sweep"]
    BY <1>2 DEF Receive, StartDelete, Typed, RequestsTyped, Deleters
  <2>3. ToSet(queue) = ToSet(queue') \union {Head(queue)}
    <3>1. queue \in Seq(Ids) /\ queue # <<>> /\ queue' = Tail(queue)
      BY <1>2 DEF Receive, Typed, ChannelTyped
    <3>2. ToSet(queue) = ToSet(Tail(queue)) \union {Head(queue)}
      BY <3>1, TailElements, Zenon
    <3> QED BY <3>1, <3>2
  <2>4. ASSUME NEW i \in Ids PROVE LookedAfter(i) => LookedAfter(i)'
    <3>1. i \in ToSet(queue) => i \in ToSet(queue') \/ DeleteAhead("listener", i)'
      BY <2>2, <2>3 DEF DeleteAhead
    <3>2. \A a \in Background : DeleteAhead(a, i) => DeleteAhead(a, i)'
      BY <2>1, <2>2 DEF DeleteAhead, NotDeleting, Background
    <3>3. DeleteBehind("sweep", i)' <=> DeleteBehind("sweep", i)
      BY <2>2 DEF DeleteBehind
    <3> QED BY <3>1, <3>2, <3>3, <2>1 DEF LookedAfter, Background
  <2>5. ASSUME NEW i \in Ids PROVE Kept(i)'
    BY <2>1, <2>4, <1>1 DEF Kept, IsLive, Stored
  <2> QED BY <2>5 DEF DeparturesKept
<1>3. CASE ListenerDeleted
  <2>1. UNCHANGED <<queue, sweep, live, row, excuse>> /\ del["listener"].step \in {"done", "failed"}
    BY <1>3 DEF ListenerDeleted, table, store, channel
  <2>2. del'["sweep"] = del["sweep"]
    BY <1>3 DEF ListenerDeleted, EndDelete, Typed, RequestsTyped, Deleters
  <2>3. ASSUME NEW i \in Ids PROVE LookedAfter(i) => LookedAfter(i)'
    BY <2>1, <2>2 DEF LookedAfter, DeleteAhead, DeleteBehind, Background
  <2>4. ASSUME NEW i \in Ids PROVE Kept(i)'
    BY <2>1, <2>3, <1>1 DEF Kept, IsLive, Stored
  <2> QED BY <2>4 DEF DeparturesKept
<1>4. CASE Lagged
  <2>1. UNCHANGED <<queue, del, live, row, excuse>>
    BY <1>4 DEF Lagged, table, store
  <2>2. sweep' = sweep \/ sweep.step = "none"
    BY <1>4 DEF Lagged, NewSweep
  <2>3. ASSUME NEW i \in Ids PROVE LookedAfter(i) => LookedAfter(i)'
    BY <2>1, <2>2 DEF LookedAfter, DeleteAhead, DeleteBehind
  <2>4. ASSUME NEW i \in Ids PROVE Kept(i)'
    BY <2>1, <2>3, <1>1 DEF Kept, IsLive, Stored
  <2> QED BY <2>4 DEF DeparturesKept
<1>5. CASE Deleting("listener")
  BY <1>5, DeletesKept DEF Deleters
<1> QED BY <1>2, <1>3, <1>4, <1>5 DEF Listener

-----------------------------------------------------------------------------
(* The sweep's own deletes. *)

\* Only the sweep starts its deletes, from its list, and ends them before it goes on.
LEMMA ListedNext ==
    ASSUME Typed, SweepDeletesListed, Next
    PROVE  SweepDeletesListed'
<1>1. del \in [Deleters -> Procedures] /\ "sweep" \in Deleters /\ "sweep" \notin Clients
  BY PersistenceAssumption DEF Typed, RequestsTyped, Deleters
<1>2. ASSUME UNCHANGED sweep, del'["sweep"] = del["sweep"] PROVE SweepDeletesListed'
  BY <1>2 DEF SweepDeletesListed
<1>3. ASSUME NEW a \in Deleters, Deleting(a) \/ FailDelete(a) PROVE SweepDeletesListed'
  <2>1. UNCHANGED sweep /\ (a # "sweep" => del'["sweep"] = del["sweep"])
    BY <1>3, <1>1 DEF Deleting, ListConvs, DeleteConvs, DeleteRow, FailDelete
  <2>2. CASE a = "sweep"
    <3>1. del["sweep"].step # "none" /\ del'["sweep"].id = del["sweep"].id
      BY <2>2, <1>3, <1>1 DEF Deleting, ListConvs, DeleteConvs, DeleteRow, FailDelete, Procedures
    <3> QED BY <3>1, <2>1 DEF SweepDeletesListed
  <2> QED BY <2>1, <2>2, <1>2
<1>4. ASSUME NEW c \in Clients, Requesting(c) PROVE SweepDeletesListed'
  <2>1. UNCHANGED sweep
    BY <1>4 DEF Requesting, Create, FindLive, FindStored, AskDelete, Adopt, FindRow, FindNoRow,
       UpsertRow, InsertConv, Activate, RemoveLive, Abandon
  <2>2. del'["sweep"] = del["sweep"]
    <3>1. del' = del \/ (\E p : del' = [del EXCEPT ![c] = p])
      BY <1>4 DEF Requesting, Create, FindLive, FindStored, AskDelete, Adopt, FindRow, FindNoRow,
         UpsertRow, InsertConv, Activate, RemoveLive, Abandon, StartDelete, EndDelete
    <3> QED BY <3>1, <1>1
  <2> QED BY <2>1, <2>2, <1>2
<1>5. ASSUME UNCHANGED del, sweep.step \notin {"depart", "delete"} \/ sweep.todo = {}
      PROVE  SweepDeletesListed'
  BY <1>5 DEF SweepDeletesListed
<1>6. ASSUME NEW id \in Ids, Flush(id) \/ WriteMissing(id) PROVE SweepDeletesListed'
  BY <1>6, <1>5 DEF Flush, WriteMissing, Sweeping, sweepOnly
<1>7. ASSUME NEW id \in Ids, SweepDeletes(id) PROVE SweepDeletesListed'
  BY <1>7, <1>1 DEF SweepDeletes, StartDelete, SweepDeletesListed
<1>8. CASE SweepDeleted
  BY <1>8, <1>1 DEF SweepDeleted, EndDelete, NotDeleting, SweepDeletesListed
<1>9. CASE EndFlush \/ EndWrite \/ EndDepart \/ ReadLive \/ ReadExpired \/ ReadRows \/ DeleteOrphans
  BY <1>9, <1>5 DEF EndFlush, EndWrite, EndDepart, ReadLive, ReadExpired, ReadRows, DeleteOrphans,
     Sweeping, sweepOnly
<1>10. CASE FailWrite \/ TimerSweeps
  BY <1>10, <1>5 DEF FailWrite, TimerSweeps, NewSweep, Sweeping
<1>11. CASE Receive \/ ListenerDeleted
  BY <1>11, <1>1, <1>2 DEF Receive, ListenerDeleted, StartDelete, EndDelete
<1>12. CASE Lagged
  BY <1>12, <1>2, <1>5 DEF Lagged, NewSweep
<1>13. CASE Restart
  BY <1>13, <1>1 DEF Restart, NotDeleting, SweepDeletesListed
<1>14. CASE Tick
  BY <1>14 DEF Tick, Typed, SweepTyped, SweepDeletesListed
<1>15. ASSUME NEW id \in Ids, Depart(id) PROVE SweepDeletesListed'
  BY <1>15, <1>2 DEF Depart
<1>16. Deleting("sweep") \/ Deleting("listener") => SweepDeletesListed'
  BY <1>3 DEF Deleters
<1> QED BY <1>3, <1>4, <1>6, <1>7, <1>8, <1>9, <1>10, <1>11, <1>12, <1>13, <1>14, <1>15, <1>16
        DEF Next, SweepStep, Listener

-----------------------------------------------------------------------------
(* The theorems. *)

\* At first there are no sessions and no rows.
LEMMA InitSessionsInv == Init => SessionsInv
<1> SUFFICES ASSUME Init PROVE SessionsInv
  OBVIOUS
<1>1. TablesTyped
  BY AgesTyped DEF Init, TablesTyped
<1>2. ChannelTyped
  <2>1. <<>> \in Seq(Ids) /\ Len(<<>>) = 0
    BY EmptySeq
  <2>2. queue = <<>> /\ lagged = FALSE
    BY DEF Init
  <2>3. 0 <= Channel
    BY PersistenceAssumption
  <2> QED BY <2>1, <2>2, <2>3 DEF ChannelTyped
<1>3. RequestsTyped
  BY ProceduresTyped DEF Init, RequestsTyped, Out, RequestSteps, Deleters
<1>4. SweepTyped
  BY AgesTyped DEF Init, SweepTyped, SweepSteps, NoSweep
<1>5. NotesTyped
  BY PersistenceAssumption DEF Init, NotesTyped
<1>6. SweepDeletesListed
  BY DEF Init, SweepDeletesListed, NotDeleting, Deleters
<1>7. DeparturesKept
  BY DEF Init, DeparturesKept, Kept, Stored
<1> QED BY <1>1, <1>2, <1>3, <1>4, <1>5, <1>6, <1>7 DEF SessionsInv, Typed

\* No step breaks the invariant.
LEMMA NextSessionsInv == SessionsInv /\ [Next]_vars => SessionsInv'
<1> SUFFICES ASSUME SessionsInv, [Next]_vars PROVE SessionsInv'
  OBVIOUS
<1> USE DEF SessionsInv
<1>1. Typed'
  BY TypesNext
<1>2. SweepDeletesListed'
  <2>1. CASE UNCHANGED vars
    BY <2>1 DEF vars, SweepDeletesListed
  <2> QED BY <2>1, ListedNext
<1>3. DeparturesKept'
  <2>1. ASSUME NEW id \in Ids, Depart(id) PROVE DeparturesKept'
    BY <2>1, RemovedKept DEF Depart, store
  <2>2. CASE Restart
    BY <2>2 DEF Restart, store, DeparturesKept, Kept, Stored
  <2>3. CASE Tick
    <3>1. UNCHANGED <<queue, del, excuse>>
      BY <2>3 DEF Tick, channel
    <3>2. \A i \in Ids : (IsLive(i)' <=> IsLive(i)) /\ (Stored(i)' <=> Stored(i))
      BY <2>3, AgesTyped DEF Tick, IsLive, Stored, Typed, TablesTyped
    <3>3. sweep'.step = sweep.step /\ sweep'.made = sweep.made /\ sweep'.todo = sweep.todo
      BY <2>3 DEF Tick, Typed, SweepTyped
    <3>4. ASSUME NEW i \in Ids PROVE Kept(i)'
      <4>1. LookedAfter(i)' <=> LookedAfter(i)
        BY <3>1, <3>3 DEF LookedAfter, DeleteAhead, DeleteBehind
      <4> QED BY <4>1, <3>1, <3>2 DEF DeparturesKept, Kept
    <3> QED BY <3>4 DEF DeparturesKept
  <2>4. CASE UNCHANGED vars
    BY <2>4 DEF vars, DeparturesKept, Kept, LookedAfter, DeleteAhead, DeleteBehind, IsLive, Stored
  <2> QED BY <2>1, <2>2, <2>3, <2>4, DeletesKept, RequestsKept, SweepKept, ListenerKept DEF Next
<1> QED BY <1>1, <1>2, <1>3

\* The invariant holds in every reachable state.
THEOREM SessionsInductive == Spec => []SessionsInv
<1>1. Init => SessionsInv
  BY InitSessionsInv
<1>2. SessionsInv /\ [Next]_vars => SessionsInv'
  BY NextSessionsInv
<1> QED BY <1>1, <1>2, PTL DEF Spec

\* Tables, channel, requests, deletes and the sweep keep their types (PersistentSessionManager),
\* the removal channel keeps its capacity, and only deleting requests delete.
THEOREM SessionsTypeCorrect == Spec => []TypeOK
<1>1. SessionsInv => TypeOK
  BY DEF SessionsInv, Typed, TablesTyped, ChannelTyped, RequestsTyped, SweepTyped, SweepSteps,
     NotesTyped, TypeOK
<1> QED BY <1>1, SessionsInductive, PTL

\* A session that left the table keeps a row only while something is about to delete it, or
\* for one of the reasons the excuse names (start_background_tasks, sweep_in_turn,
\* register_session).
THEOREM DepartedRowsGo == Spec => []DepartedRowGoes
<1>1. SessionsInv => DepartedRowGoes
  <2> SUFFICES ASSUME SessionsInv, NEW id \in Ids, ~IsLive(id), Stored(id)
               PROVE  Attended(id) \/ excuse[id] # "none"
    BY DEF DepartedRowGoes
  <2>1. LookedAfter(id) \/ excuse[id] # "none"
    BY DEF SessionsInv, DeparturesKept, Kept
  <2> QED BY <2>1 DEF LookedAfter, Attended, DeleteAhead, Background, Deleters
<1> QED BY <1>1, SessionsInductive, PTL
=============================================================================
