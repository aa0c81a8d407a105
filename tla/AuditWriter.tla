------------------------------- MODULE AuditWriter -------------------------------
(***************************************************************************)
(* The audit log (crates/p2a-mcp/src/audit.rs): callers hand entries to    *)
(* one writer thread through a bounded queue; the thread buffers them,     *)
(* writes them out when the queue runs empty, rotates the file into        *)
(* numbered ones and opens a new file when somebody removed or moved the   *)
(* one at the path. Every look at and change of the file system is a step, *)
(* between any two of which the file may be removed, and may fail.         *)
(*                                                                         *)
(* Entries are numbered in queue order and have one size. File 0 is the    *)
(* one at the path, file k is <path>.k.                                    *)
(***************************************************************************)
EXTENDS Naturals, Sequences, SequencesExt, FiniteSets

CONSTANTS
    MaxEntries,   \* entries logged
    QueueBound,   \* QUEUE_CAPACITY
    BufferBound,  \* entries the BufWriter holds
    MaxSize,      \* RotationPolicy::max_bytes, in entries
    Keep,         \* RotationPolicy::keep
    MaxFlushes,   \* bound on flush requests
    MaxRemovals,  \* bound on removals by somebody else
    MaxErrors,    \* bound on failed looks, writes and creations
    MaxFailures,  \* bound on failed renames and removals
    None,         \* no file
    Away          \* no file the log knows by name

\* What the constants must be; MCServices assumes it.
AuditAssumption ==
    /\ MaxEntries \in Nat /\ QueueBound \in Nat \ {0} /\ BufferBound \in Nat \ {0}
    /\ MaxSize \in Nat \ {0} /\ Keep \in Nat
    /\ MaxFlushes \in Nat /\ MaxRemovals \in Nat /\ MaxErrors \in Nat /\ MaxFailures \in Nat
    /\ None \notin Seq(1..MaxEntries) /\ Away \notin 0..Keep

VARIABLES
    logged,    \* entries queued so far
    asked,     \* flushes queued so far
    queue,     \* what the writer has not received
    at,        \* where the writer is
    msg,       \* what it is handling
    shift,     \* the numbered file a rotation moves next
    file,      \* the contents of each file, or None
    handle,    \* the file the writer has open: a number, or Away
    buffer,    \* what it has not written out to it
    size,      \* its count of what the file holds
    replied,   \* the last entry queued before a flush that was answered
    away,      \* entries in a file when it was removed or moved away
    late,      \* entries written to such a file afterwards
    raced,     \* one went between the writer's look and its write
    dropped,   \* entries in the file a rotation removed
    failed,    \* entries lost to a failed write
    removals, errors, failures

vars == <<logged, asked, queue, at, msg, shift, file, handle, buffer, size, replied,
          away, late, raced, dropped, failed, removals, errors, failures>>
requests == <<logged, asked, queue>>
disk == <<file, handle, late, dropped>>
removed == <<away, raced>>
troubles == <<removals, errors, failures>>

Entry(n) == [kind |-> "entry", n |-> n]
Flush(n) == [kind |-> "flush", n |-> n]

Init ==
    /\ logged = 0 /\ asked = 0 /\ queue = <<>>
    /\ at = "idle" /\ msg = None /\ shift = 0
    /\ file = [k \in 0..Keep |-> IF k = 0 THEN <<>> ELSE None]
    /\ handle = 0 /\ buffer = <<>> /\ size = 0
    /\ replied = 0 /\ away = {} /\ late = {} /\ raced = FALSE /\ dropped = {} /\ failed = {}
    /\ removals = 0 /\ errors = 0 /\ failures = 0

-----------------------------------------------------------------------------
\* Callers wait while the queue is full.

Log ==
    /\ logged < MaxEntries /\ Len(queue) < QueueBound
    /\ logged' = logged + 1
    /\ queue' = Append(queue, Entry(logged + 1))
    /\ UNCHANGED <<asked, at, msg, shift, disk, removed, buffer, size, replied, failed, troubles>>

AskFlush ==
    /\ asked < MaxFlushes /\ Len(queue) < QueueBound
    /\ asked' = asked + 1
    /\ queue' = Append(queue, Flush(logged))
    /\ UNCHANGED <<logged, at, msg, shift, disk, removed, buffer, size, replied, failed, troubles>>

\* Somebody removes the file at the path, or moves it away.
FileGoes ==
    /\ removals < MaxRemovals /\ file[0] # None
    /\ removals' = removals + 1
    /\ file' = [file EXCEPT ![0] = None]
    /\ away' = away \union ToSet(file[0])
    /\ handle' = IF handle = 0 THEN Away ELSE handle
    /\ raced' = (raced \/ at \in {"write", "flushOut", "flushRotated"})
    /\ UNCHANGED <<requests, at, msg, shift, buffer, size, replied, late, dropped, failed,
                   errors, failures>>

-----------------------------------------------------------------------------
\* The file system, as the writer's calls use it.

\* The handle's file gets what the buffer holds.
Written ==
    /\ IF handle = Away
         THEN late' = late \union ToSet(buffer) /\ UNCHANGED file
         ELSE file' = [file EXCEPT ![handle] = @ \o buffer] /\ UNCHANGED late
    /\ UNCHANGED <<handle, dropped>>

Contents(k) == IF file[k] = None THEN {} ELSE ToSet(file[k])

\* File k takes the name of file k + 1, whose contents go; the last one is only removed.
Renamed(k) ==
    /\ file' = [i \in 0..Keep |-> CASE i = k -> None
                                    [] i = k + 1 -> file[k]
                                    [] OTHER -> file[i]]
    /\ dropped' = dropped \union (IF k = Keep THEN Contents(k) ELSE Contents(k + 1))
    /\ handle' = CASE handle = k /\ k < Keep -> k + 1
                   [] handle = k + 1 \/ (handle = k /\ k = Keep) -> Away
                   [] OTHER -> handle
    /\ UNCHANGED late

Goes(step) ==
    /\ at' = step
    /\ UNCHANGED <<requests, msg, replied, removed>>

\* A failed look, write or creation is counted, and what follows goes on as it would.
Errs == errors < MaxErrors /\ errors' = errors + 1 /\ UNCHANGED <<removals, failures>>

-----------------------------------------------------------------------------
\* Writer::run and handle

Receive ==
    /\ at \in {"idle", "next"} /\ queue # <<>>
    /\ msg' = Head(queue) /\ queue' = Tail(queue)
    /\ at' = IF Head(queue).kind = "entry" THEN "look" ELSE "flush"
    /\ UNCHANGED <<logged, asked, shift, disk, removed, buffer, size, replied, failed, troubles>>

\* [mutant] What is buffered waits for the next message.
RunsEmptyUnflushed ==
    /\ at = "next" /\ queue = <<>>
    /\ Goes("idle")
    /\ UNCHANGED <<shift, disk, buffer, size, failed, troubles>>

\* The queue has run empty.
RunsEmpty ==
    /\ at = "next" /\ queue = <<>>
    /\ Goes("flush")
    /\ UNCHANGED <<shift, disk, buffer, size, failed, troubles>>

-----------------------------------------------------------------------------
\* write_entry

Full == size > 0 /\ size + 1 > MaxSize

\* reopen_if_removed
Look ==
    /\ at = "look"
    /\ Goes(CASE file[0] = None -> "reopen"
              [] file[0] # None /\ Full -> "rotate"
              [] OTHER -> "write")
    /\ UNCHANGED <<shift, disk, buffer, size, failed, troubles>>

\* lstat fails, which is not "not found": the file counts as there. A rotation counts the
\* error and goes no further.
LookFails ==
    /\ at \in {"look", "flush", "rotate"} /\ Errs
    /\ at = "flush" => buffer # <<>>
    /\ Goes(CASE at = "look" /\ Full -> "rotate"
              [] at = "flush" -> "flushOut"
              [] OTHER -> "write")
    /\ size' = IF at = "rotate" THEN 0 ELSE size
    /\ UNCHANGED <<shift, disk, buffer, failed>>

\* reopen: after it the size is looked at, unless a rotation or a flush asked for it.
AfterReopen(n) ==
    CASE at = "reopenToFlush" -> "flushOut"
      [] at = "reopenRotated" -> "write"
      [] OTHER -> IF n > 0 /\ n + 1 > MaxSize THEN "rotate" ELSE "write"

Reopening == at \in {"reopen", "reopenRotated", "reopenToFlush"}

\* [mutant] What the old file's buffer held goes to the old file as it is dropped.
ReopenDroppingOld ==
    /\ Reopening /\ file[0] = None
    /\ file' = [k \in 0..Keep |-> CASE k = 0 -> <<>>
                                    [] k = handle /\ k # 0 -> file[k] \o buffer
                                    [] OTHER -> file[k]]
    /\ late' = IF handle = Away THEN late \union ToSet(buffer) ELSE late
    /\ handle' = 0 /\ size' = 0 /\ buffer' = <<>>
    /\ Goes(AfterReopen(0))
    /\ UNCHANGED <<shift, dropped, failed, troubles>>

\* The new file takes what the old one's buffer held.
Reopen ==
    /\ Reopening /\ file[0] = None
    /\ file' = [file EXCEPT ![0] = <<>>] /\ handle' = 0
    /\ size' = Len(buffer)
    /\ Goes(AfterReopen(Len(buffer)))
    /\ UNCHANGED <<shift, late, dropped, buffer, failed, troubles>>

\* It cannot be created.
ReopenFails ==
    /\ Reopening /\ Errs
    /\ size' = 0
    /\ Goes(AfterReopen(0))
    /\ UNCHANGED <<shift, disk, buffer, failed>>

\* rotate looks again, and writes the buffer out first.
Rotate ==
    /\ at = "rotate"
    /\ Goes(IF file[0] = None THEN "reopenRotated" ELSE "flushRotated")
    /\ UNCHANGED <<shift, disk, buffer, size, failed, troubles>>

FlushRotated ==
    /\ at = "flushRotated"
    /\ \/ Written /\ buffer' = <<>> /\ UNCHANGED troubles
       \/ buffer # <<>> /\ Errs /\ UNCHANGED <<disk, buffer>>
    /\ Goes("shift") /\ shift' = Keep
    /\ UNCHANGED <<size, failed>>

\* The last numbered file is removed, the others move up, and the file at the path last.
Shift ==
    /\ at = "shift" /\ file[shift] # None
    /\ Renamed(shift)
    /\ IF shift = 0
         THEN Goes("reopenRotated") /\ UNCHANGED shift
         ELSE Goes("shift") /\ shift' = shift - 1
    /\ UNCHANGED <<buffer, size, failed, troubles>>

\* Not found is no failure: on to the next one, and for the path itself to a new file.
NothingToShift ==
    /\ at = "shift" /\ file[shift] = None
    /\ IF shift = 0
         THEN Goes("reopenRotated") /\ UNCHANGED shift
         ELSE Goes("shift") /\ shift' = shift - 1
    /\ UNCHANGED <<disk, buffer, size, failed, troubles>>

\* A failure at a numbered file is counted and the rotation goes on; at the path it ends.
ShiftFails ==
    /\ at = "shift" /\ file[shift] # None /\ failures < MaxFailures
    /\ failures' = failures + 1
    /\ IF shift = 0
         THEN Goes("write") /\ size' = 0 /\ UNCHANGED shift
         ELSE Goes("shift") /\ shift' = shift - 1 /\ UNCHANGED size
    /\ UNCHANGED <<disk, buffer, failed, removals, errors>>

\* write_all: a full buffer is written out first.
Buffered == Len(buffer) < BufferBound

Write ==
    /\ at = "write"
    /\ IF Buffered
         THEN buffer' = Append(buffer, msg.n) /\ UNCHANGED disk
         ELSE buffer' = <<msg.n>> /\ Written
    /\ size' = size + 1
    /\ Goes("next")
    /\ UNCHANGED <<shift, failed, troubles>>

\* Writing the full buffer out fails: the entry is lost.
WriteFails ==
    /\ at = "write" /\ ~Buffered
    /\ Errs
    /\ failed' = failed \union {msg.n}
    /\ Goes("next")
    /\ UNCHANGED <<shift, disk, buffer, size>>

-----------------------------------------------------------------------------
\* flush: the file is looked at when there is something to write.

LookToFlush ==
    /\ at = "flush"
    /\ Goes(IF buffer # <<>> /\ file[0] = None THEN "reopenToFlush" ELSE "flushOut")
    /\ UNCHANGED <<shift, disk, buffer, size, failed, troubles>>

\* A Flush message is answered and the next message tried; otherwise the writer waits for one.
FlushOut ==
    /\ at = "flushOut"
    /\ \/ Written /\ buffer' = <<>> /\ UNCHANGED troubles
       \/ buffer # <<>> /\ Errs /\ UNCHANGED <<disk, buffer>>
    /\ IF msg.kind = "flush"
         THEN at' = "next" /\ replied' = msg.n
         ELSE at' = "idle" /\ UNCHANGED replied
    /\ msg' = [msg EXCEPT !.kind = "entry"]
    /\ UNCHANGED <<requests, shift, size, failed, removed>>

Writes ==
    \/ Receive \/ RunsEmpty \/ Look \/ LookFails \/ Reopen \/ ReopenFails \/ Rotate \/ FlushRotated
    \/ Shift \/ NothingToShift \/ ShiftFails \/ Write \/ WriteFails \/ LookToFlush \/ FlushOut

Next == Log \/ AskFlush \/ FileGoes \/ Writes

\* The writer thread runs.
Fairness == WF_vars(Writes)

Spec == Init /\ [][Next]_vars /\ Fairness

-----------------------------------------------------------------------------
(* What the log promises. *)

Places == {"idle", "next", "look", "reopen", "reopenRotated", "reopenToFlush", "rotate",
           "flushRotated", "shift", "write", "flush", "flushOut"}
Entries == 1..MaxEntries

TypeOK ==
    /\ logged \in 0..MaxEntries /\ asked \in 0..MaxFlushes
    /\ Len(queue) <= QueueBound
    /\ at \in Places /\ shift \in 0..Keep
    /\ file \in [0..Keep -> Seq(Entries) \union {None}]
    /\ handle \in 0..Keep \union {Away}
    /\ buffer \in Seq(Entries) /\ Len(buffer) <= BufferBound /\ size \in Nat
    /\ away \subseteq Entries /\ late \subseteq Entries /\ dropped \subseteq Entries /\ failed \subseteq Entries
    /\ replied \in 0..MaxEntries

\* The numbered files, oldest first, the file at the path and the buffer.
Text(k) == IF file[k] = None THEN <<>> ELSE file[k]
Kept == FlattenSeq([i \in 1..(Keep + 1) |-> Text(Keep + 1 - i)]) \o buffer

\* The entries the writer is done with are 1..Handled.
InHand == {i \in DOMAIN queue : queue[i].kind = "entry"}
Handling == at \in {"look", "reopen", "reopenRotated", "rotate", "flushRotated", "shift", "write"}
Handled == logged - Cardinality(InHand) - (IF Handling THEN 1 ELSE 0)

\* Read from the oldest file to the newest, entries come in the order they were logged, each
\* once, whatever failed and whoever removed the file between two steps of a rotation; and
\* one the writer has handled is there unless its file went or its write failed.
LogKeepsItsOrder ==
    /\ \A i, j \in DOMAIN Kept : i < j => Kept[i] < Kept[j]
    /\ 1..Handled \subseteq ToSet(Kept) \union away \union late \union dropped \union failed

\* "Rotated files kept as <path>.1 to <path>.<keep>"; when a rename fails, "writing continues
\* in the file at hand": entries go only from the last of them.
RotatedFilesAreKept ==
    removals = 0 /\ errors = 0 /\ dropped # {} => Len(Kept) >= Keep * MaxSize

\* The same as long as no rename failed, and what goes is older than all that stays.
OldestGoFirst ==
    /\ failures = 0 => RotatedFilesAreKept
    /\ \A n \in dropped, i \in DOMAIN Kept : failures = 0 => n < Kept[i]

\* A removed file gets nothing more, not even what was buffered for it when it went, unless
\* it went between a look and a write.
RemovedFileGetsNothing == errors = 0 /\ ~raced => late = {}

\* A flush that was answered leaves no earlier entry in the buffer, unless a write failed.
FlushedIsInAFile == errors = 0 => \A i \in DOMAIN buffer : buffer[i] > replied

LogIsSound == LogKeepsItsOrder /\ OldestGoFirst /\ RemovedFileGetsNothing /\ FlushedIsInAFile

\* The writer catches up again and again: every entry reaches a file without another one
\* being logged, unless a write failed. (The entries are bounded.)
EveryEntryWritten == []<>((Handled = logged /\ buffer = <<>>) \/ errors > 0)
=============================================================================
