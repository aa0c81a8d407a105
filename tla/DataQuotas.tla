----------------------------- MODULE DataQuotas -----------------------------
(***************************************************************************)
(* The session-data quotas: the check a governed call makes where its work *)
(* ends (exec.rs, `ToolGovernor::call` and `Quotas::enforce`), the check a *)
(* file load makes before it decodes (session.rs, `check_charge`), the     *)
(* cached charges both read, and the dataset reload                        *)
(* (persistent_session.rs, `insert_reloaded_dataset`).                     *)
(*                                                                         *)
(* A session's state (datasets, cleaning sessions, spatial weights) is     *)
(* reduced to its charge in bytes, and calls of different sessions run     *)
(* side by side. Mappings of labels shared between sessions are left out:  *)
(* every byte is charged to one session.                                   *)
(***************************************************************************)
EXTENDS Naturals, FiniteSets, Functions

CONSTANTS
    Calls,       \* the callers of governed calls, each making any number in turn
    Sessions,    \* the live sessions
    SessionOf,   \* the session each caller calls
    PerSession,  \* the quota of one session
    Total,       \* the quota of all sessions together
    MaxHeld,     \* bound on a session's charge, quota or not
    FileSizes,   \* the sizes of the files they load
    MayNotFinish,\* TRUE: work may panic, or fail past its deadline
    ReloadSets   \* the sets of callers that may reload datasets instead of calling tools

ASSUME QuotasAssumption ==
    /\ IsFiniteSet(Calls) /\ IsFiniteSet(Sessions)
    /\ Total \in Nat /\ MaxHeld \in Nat /\ PerSession \in 0..MaxHeld
    /\ FileSizes \subseteq 1..MaxHeld
    /\ SessionOf \in [Calls -> Sessions]
    /\ MayNotFinish \in BOOLEAN /\ ReloadSets \subseteq SUBSET Calls

VARIABLES
    reloads,   \* the callers that reload, chosen at the start
    step,      \* where each caller's call is
    held,      \* the charge of the session's state as it is
    cached,    \* Session::data_bytes, its charge when it was last computed
    busy,      \* the sessions whose (one) execution permit is taken
    snapshot,  \* the charge of the state a call's snapshot holds
    changed,   \* the call changed the state since its snapshot
    adding,    \* the bytes of the dataset the call is loading
    rest,      \* the session's charge without a dataset it would replace
    reserved,  \* SessionManager::reserved_data_bytes
    mine,      \* what each call's DatasetAdmission holds of it
    before,    \* what others had reserved when the call reserved
    unread,    \* the sessions `total_data_bytes` has not added yet
    sum,       \* and the sum so far
    outcome,   \* how the caller's last call ended
    excused    \* a call that did not reach its check kept what it had grown

vars == <<reloads, step, held, cached, busy, snapshot, changed, adding, rest, reserved,
          mine, before, unread, sum, outcome, excused>>

bookkeeping == <<busy, snapshot, outcome>>
reservations == <<reserved, mine, before>>
loading == <<adding, rest>>
totalling == <<unread, sum>>

Steps == {"idle", "tool", "admit", "enforce", "total", "restore", "restored", "checked",
          "unfinished", "refresh", "load", "reloadAdmit", "others", "insert", "inserted",
          "dropFile", "fileDone", "release"}

S(k) == SessionOf[k]
Go(k, from, to) == step[k] = from /\ step' = [step EXCEPT ![k] = to]

Init ==
    /\ reloads \in ReloadSets
    /\ step = [k \in Calls |-> "idle"]
    /\ held = [s \in Sessions |-> 0]
    /\ cached = [s \in Sessions |-> 0]
    /\ busy = {}
    /\ snapshot = [k \in Calls |-> 0]
    /\ changed = [k \in Calls |-> FALSE]
    /\ adding = [k \in Calls |-> 0]
    /\ rest = [k \in Calls |-> 0]
    /\ reserved = 0
    /\ mine = [k \in Calls |-> 0]
    /\ before = [k \in Calls |-> 0]
    /\ unread = [k \in Calls |-> {}]
    /\ sum = [k \in Calls |-> 0]
    /\ outcome = [k \in Calls |-> "none"]
    /\ excused = FALSE

-----------------------------------------------------------------------------
\* total_data_bytes: the sessions are listed, then each one's cached charge is added,
\* with no lock across the sum.

StartTotal(k) == /\ unread' = [unread EXCEPT ![k] = Sessions]
                 /\ sum' = [sum EXCEPT ![k] = 0]

AddToTotal(k) ==
    /\ \E s \in unread[k] : /\ unread' = [unread EXCEPT ![k] = @ \ {s}]
                            /\ sum' = [sum EXCEPT ![k] = @ + cached[s]]
    /\ UNCHANGED <<step, held, cached, changed, excused>>
    /\ UNCHANGED <<bookkeeping, reservations, loading>>

Totalled(k) == unread[k] = {}

\* What is compared is read once; then the check's own variables are gone.
ForgetCheck(k) == /\ before' = [before EXCEPT ![k] = 0]
                  /\ sum' = [sum EXCEPT ![k] = 0]
                  /\ UNCHANGED unread

\* The other sessions' charge: the total less this session's own.
Others(k) == IF sum[k] > cached[S(k)] THEN sum[k] - cached[S(k)] ELSE 0

-----------------------------------------------------------------------------
\* A governed tool call: its snapshot, its tool, and the check where it ends.

\* The session's permit is held until the work ends.
StartCall(k) ==
    /\ k \notin reloads
    /\ S(k) \notin busy
    /\ Go(k, "idle", "tool")
    /\ busy' = busy \union {S(k)}
    /\ snapshot' = [snapshot EXCEPT ![k] = held[S(k)]]
    /\ UNCHANGED <<held, cached, changed, outcome, excused>>
    /\ UNCHANGED <<reservations, totalling, loading>>

\* The tool changes the session's state; nothing is charged yet.
ToolChanges(k) ==
    /\ step[k] = "tool"
    /\ \E n \in 0..MaxHeld : held' = [held EXCEPT ![S(k)] = n]
    /\ changed' = [changed EXCEPT ![k] = TRUE]
    /\ UNCHANGED <<step, cached, excused>>
    /\ UNCHANGED <<bookkeeping, reservations, totalling, loading>>

\* A file is admitted before it is decoded: refused when the session would pass its
\* quota; otherwise its bytes are reserved first and the total is added up after.
Reserve(k, n) ==
    /\ reserved' = reserved + n
    /\ mine' = [mine EXCEPT ![k] = @ + n]
    /\ before' = [before EXCEPT ![k] = reserved]
    /\ StartTotal(k)

Load(k, n, r) == /\ adding' = [adding EXCEPT ![k] = n]
                 /\ rest' = [rest EXCEPT ![k] = r]

AdmitFile(k, from, to) ==
    \E n \in FileSizes, r \in 0..held[S(k)] :
        /\ Go(k, from, to)
        /\ r + n <= PerSession
        /\ Load(k, n, r)
        /\ Reserve(k, n)
        /\ UNCHANGED <<held, cached, changed, excused>>
        /\ UNCHANGED bookkeeping

FileTooLarge(k, from, to) ==
    /\ \E n \in FileSizes : held[S(k)] + n > PerSession
    /\ Go(k, from, to)
    /\ UNCHANGED <<held, cached, changed, excused>>
    /\ UNCHANGED <<bookkeeping, reservations, totalling, loading>>

\* [mutant] Files that others are decoding are not counted.
FitsTotalAlone(k) == Others(k) + rest[k] + adding[k] <= Total

FitsTotal(k) == Others(k) + rest[k] + adding[k] + before[k] <= Total

FileAdmitted(k) ==
    /\ Totalled(k) /\ FitsTotal(k)
    /\ Go(k, "admit", "tool")
    /\ ForgetCheck(k)
    /\ Load(k, 0, 0)
    /\ UNCHANGED <<held, cached, changed, reserved, mine, excused>>
    /\ UNCHANGED bookkeeping

\* [mutant] The guard of a refused file's bytes releases them again.
FileRefusedTwice(k, from, to) ==
    /\ Totalled(k) /\ ~FitsTotal(k)
    /\ Go(k, from, to)
    /\ reserved' = reserved - adding[k]
    /\ ForgetCheck(k)
    /\ Load(k, 0, 0)
    /\ UNCHANGED <<held, cached, changed, mine, excused>>
    /\ UNCHANGED bookkeeping

FileRefused(k, from, to) ==
    /\ Totalled(k) /\ ~FitsTotal(k)
    /\ Go(k, from, to)
    /\ reserved' = reserved - adding[k]
    /\ mine' = [mine EXCEPT ![k] = @ - adding[k]]
    /\ ForgetCheck(k)
    /\ Load(k, 0, 0)
    /\ UNCHANGED <<held, cached, changed, excused>>
    /\ UNCHANGED bookkeeping

\* [mutant] The admission guard forgets what it reserved.
DropGuardLeaking(k, from, to) ==
    /\ Go(k, from, to)
    /\ mine' = [mine EXCEPT ![k] = 0]
    /\ ForgetCheck(k)
    /\ Load(k, 0, 0)
    /\ UNCHANGED <<held, cached, changed, reserved, excused>>
    /\ UNCHANGED bookkeeping

\* The admission guard releases what the call reserved: after the quota check of a call
\* that reached it, before the refresh of one that did not, after each file of a reload.
DropGuard(k, from, to) ==
    /\ Go(k, from, to)
    /\ reserved' = reserved - mine[k]
    /\ mine' = [mine EXCEPT ![k] = 0]
    /\ ForgetCheck(k)
    /\ Load(k, 0, 0)
    /\ UNCHANGED <<held, cached, changed, excused>>
    /\ UNCHANGED bookkeeping

\* The tool returns, with a result or an error, and the call comes to its check.
ToolReturns(k) ==
    /\ Go(k, "tool", "enforce")
    /\ UNCHANGED <<held, cached, changed, excused>>
    /\ UNCHANGED <<bookkeeping, reservations, totalling, loading>>

\* It panics, or its result fails past the deadline: no check is made.
ToolDoesNotFinish(k) ==
    /\ MayNotFinish
    /\ Go(k, "tool", "unfinished")
    /\ UNCHANGED <<held, cached, changed, excused>>
    /\ UNCHANGED <<bookkeeping, reservations, totalling, loading>>

\* [mutant] A call that did not finish is not charged.
RefreshAfterCallSkipped(k) ==
    /\ Go(k, "refresh", "release")
    /\ excused' = (excused \/ held[S(k)] > snapshot[k])
    /\ outcome' = [outcome EXCEPT ![k] = "unfinished"]
    /\ UNCHANGED <<held, cached, busy, snapshot, changed>>
    /\ UNCHANGED <<reservations, totalling, loading>>

\* refresh_after_call: what such a call left is charged all the same.
RefreshAfterCall(k) ==
    /\ Go(k, "refresh", "release")
    /\ cached' = [cached EXCEPT ![S(k)] = held[S(k)]]
    /\ excused' = (excused \/ held[S(k)] > snapshot[k])
    /\ outcome' = [outcome EXCEPT ![k] = "unfinished"]
    /\ UNCHANGED <<held, busy, snapshot, changed>>
    /\ UNCHANGED <<reservations, totalling, loading>>

Keep(k) == outcome' = [outcome EXCEPT ![k] = "kept"]

\* Quotas::enforce. A call that left the state as it found it is passed uncharged,
EnforceUnchanged(k) ==
    /\ ~changed[k]
    /\ Go(k, "enforce", "checked")
    /\ Keep(k)
    /\ UNCHANGED <<held, cached, busy, snapshot, changed, excused>>
    /\ UNCHANGED <<reservations, totalling, loading>>

\* [mutant] The charge is compared with the others' before it is stored.
EnforceChargeLate(k) ==
    /\ changed[k]
    /\ LET after == held[S(k)]
           verdict == IF after <= snapshot[k] THEN "checked"
                      ELSE IF after > PerSession THEN "restore" ELSE "total"
       IN /\ Go(k, "enforce", verdict)
          /\ cached' = IF verdict = "total" THEN cached ELSE [cached EXCEPT ![S(k)] = after]
          /\ IF verdict = "checked" THEN Keep(k) ELSE UNCHANGED outcome
          /\ unread' = [unread EXCEPT ![k] = IF verdict = "total" THEN Sessions \ {S(k)} ELSE @]
          /\ sum' = [sum EXCEPT ![k] = IF verdict = "total" THEN after ELSE @]
    /\ UNCHANGED <<held, busy, snapshot, changed, excused>>
    /\ UNCHANGED <<reservations, loading>>

\* any other is charged, which stores the charge before anything is compared. It is kept
\* when it did not grow the state, refused when the session passes its quota,
\* and else the total is added up.
EnforceCharge(k) ==
    /\ changed[k]
    /\ LET after == held[S(k)]
           verdict == IF after <= snapshot[k] THEN "checked"
                      ELSE IF after > PerSession THEN "restore" ELSE "total"
       IN /\ Go(k, "enforce", verdict)
          /\ cached' = [cached EXCEPT ![S(k)] = after]
          /\ IF verdict = "checked" THEN Keep(k) ELSE UNCHANGED outcome
          /\ IF verdict = "total" THEN StartTotal(k) ELSE UNCHANGED totalling
    /\ UNCHANGED <<held, busy, snapshot, changed, excused>>
    /\ UNCHANGED <<reservations, loading>>

EnforceTotal(k) ==
    /\ Totalled(k)
    /\ \/ sum[k] <= Total /\ Go(k, "total", "checked") /\ Keep(k)
       \/ sum[k] > Total /\ Go(k, "total", "restore") /\ UNCHANGED outcome
    /\ ForgetCheck(k)
    /\ UNCHANGED <<held, cached, busy, snapshot, changed, reserved, mine, excused>>
    /\ UNCHANGED loading

\* restore_state: the snapshot is put back, then the charge computed again.
RestoreState(k) ==
    /\ Go(k, "restore", "restored")
    /\ held' = [held EXCEPT ![S(k)] = snapshot[k]]
    /\ UNCHANGED <<cached, changed, excused>>
    /\ UNCHANGED <<bookkeeping, reservations, totalling, loading>>

RefreshRestored(k) ==
    /\ Go(k, "restored", "checked")
    /\ cached' = [cached EXCEPT ![S(k)] = held[S(k)]]
    /\ outcome' = [outcome EXCEPT ![k] = "undone"]
    /\ UNCHANGED <<held, busy, snapshot, changed, excused>>
    /\ UNCHANGED <<reservations, totalling, loading>>

\* The permit is dropped once the work has ended, and the call's own variables are gone.
Release(k) ==
    /\ Go(k, "release", "idle")
    /\ busy' = busy \ {S(k)}
    /\ snapshot' = [snapshot EXCEPT ![k] = 0]
    /\ changed' = [changed EXCEPT ![k] = FALSE]
    /\ outcome' = [outcome EXCEPT ![k] = "none"]
    /\ UNCHANGED <<held, cached, excused>>
    /\ UNCHANGED <<reservations, totalling, loading>>

-----------------------------------------------------------------------------
\* A dataset reload: its files one at a time, under one permit; `snapshot` is what the
\* session held before the current file.

StartReload(k) ==
    /\ k \in reloads
    /\ S(k) \notin busy
    /\ Go(k, "idle", "load")
    /\ busy' = busy \union {S(k)}
    /\ snapshot' = [snapshot EXCEPT ![k] = held[S(k)]]
    /\ UNCHANGED <<held, cached, changed, outcome, excused>>
    /\ UNCHANGED <<reservations, totalling, loading>>

\* A file that is not parquet is decoded without a check before it.
LoadUnchecked(k) ==
    /\ Go(k, "load", "others")
    /\ \E n \in FileSizes, r \in 0..held[S(k)] : Load(k, n, r)
    /\ StartTotal(k)
    /\ UNCHANGED <<held, cached, changed, excused>>
    /\ UNCHANGED <<bookkeeping, reservations>>

\* A parquet file's reservation is held while insert_reloaded_dataset reads the total.
LoadAdmitted(k) ==
    /\ Totalled(k) /\ FitsTotal(k)
    /\ Go(k, "reloadAdmit", "others")
    /\ StartTotal(k)
    /\ before' = [before EXCEPT ![k] = 0]
    /\ UNCHANGED <<held, cached, changed, reserved, mine, excused>>
    /\ UNCHANGED <<bookkeeping, loading>>

\* It cannot be decoded, or the budget is spent by then: nothing is inserted.
LoadFails(k) ==
    /\ Totalled(k) /\ FitsTotal(k)
    /\ Go(k, "reloadAdmit", "dropFile")
    /\ UNCHANGED <<held, cached, changed, excused>>
    /\ UNCHANGED <<bookkeeping, reservations, totalling, loading>>

\* insert_reloaded_dataset: the others' charge is read, and only then the session's
\* dataset lock taken, the sizes compared and the dataset inserted,
ReadOthers(k) ==
    /\ Totalled(k)
    /\ Go(k, "others", "insert")
    /\ sum' = [sum EXCEPT ![k] = Others(k)]
    /\ UNCHANGED <<held, cached, changed, unread, excused>>
    /\ UNCHANGED <<bookkeeping, reservations, loading>>

\* [mutant] The dataset is inserted before the sizes are compared.
InsertReloadedAnyway(k) ==
    LET after == rest[k] + adding[k]
        fits == after <= PerSession /\ sum[k] + after <= Total
    IN /\ Go(k, "insert", IF fits THEN "inserted" ELSE "dropFile")
       /\ held' = [held EXCEPT ![S(k)] = after]
       /\ outcome' = IF fits THEN outcome ELSE [outcome EXCEPT ![k] = "undone"]
       /\ UNCHANGED <<cached, busy, snapshot, changed, excused>>
       /\ UNCHANGED <<reservations, totalling, loading>>

InsertReloaded(k) ==
    LET after == rest[k] + adding[k]
        fits == after <= PerSession /\ sum[k] + after <= Total
    IN /\ IF fits
          THEN /\ Go(k, "insert", "inserted")
               /\ held' = [held EXCEPT ![S(k)] = after]
               /\ UNCHANGED outcome
          ELSE /\ Go(k, "insert", "dropFile")
               /\ outcome' = [outcome EXCEPT ![k] = "undone"]
               /\ UNCHANGED held
       /\ UNCHANGED <<cached, busy, snapshot, changed, excused>>
       /\ UNCHANGED <<reservations, totalling, loading>>

\* and only then charged.
RefreshInserted(k) ==
    /\ Go(k, "inserted", "dropFile")
    /\ cached' = [cached EXCEPT ![S(k)] = held[S(k)]]
    /\ Keep(k)
    /\ UNCHANGED <<held, busy, snapshot, changed, excused>>
    /\ UNCHANGED <<reservations, totalling, loading>>

\* The guard is dropped with the file, and the next one is loaded.
NextFile(k) ==
    /\ Go(k, "fileDone", "load")
    /\ snapshot' = [snapshot EXCEPT ![k] = held[S(k)]]
    /\ outcome' = [outcome EXCEPT ![k] = "none"]
    /\ UNCHANGED <<held, cached, busy, changed, excused>>
    /\ UNCHANGED <<reservations, totalling, loading>>

\* All files are done, or the budget is spent.
EndReload(k) ==
    /\ Go(k, "load", "release")
    /\ UNCHANGED <<held, cached, changed, excused>>
    /\ UNCHANGED <<bookkeeping, reservations, totalling, loading>>

-----------------------------------------------------------------------------

ToolCall(k) ==
    \/ StartCall(k) \/ ToolChanges(k) \/ ToolReturns(k) \/ ToolDoesNotFinish(k)
    \/ AdmitFile(k, "tool", "admit") \/ FileTooLarge(k, "tool", "enforce")
    \/ FileAdmitted(k) \/ FileRefused(k, "admit", "enforce")
    \/ DropGuard(k, "unfinished", "refresh") \/ RefreshAfterCall(k)
    \/ EnforceUnchanged(k) \/ EnforceCharge(k) \/ EnforceTotal(k)
    \/ RestoreState(k) \/ RefreshRestored(k) \/ DropGuard(k, "checked", "release")

Reload(k) ==
    \/ StartReload(k) \/ LoadUnchecked(k) \/ LoadAdmitted(k) \/ LoadFails(k)
    \/ AdmitFile(k, "load", "reloadAdmit") \/ FileRefused(k, "reloadAdmit", "dropFile")
    \/ ReadOthers(k) \/ InsertReloaded(k) \/ RefreshInserted(k)
    \/ DropGuard(k, "dropFile", "fileDone") \/ NextFile(k) \/ EndReload(k)

Next == /\ \E k \in Calls : ToolCall(k) \/ Reload(k) \/ AddToTotal(k) \/ Release(k)
        /\ UNCHANGED reloads

Spec == Init /\ [][Next]_vars

-----------------------------------------------------------------------------
(* What the quotas promise. *)

Outcomes == {"none", "kept", "undone", "unfinished"}

TypeOK ==
    /\ reloads \subseteq Calls
    /\ step \in [Calls -> Steps]
    /\ held \in [Sessions -> 0..MaxHeld]
    /\ cached \in [Sessions -> 0..MaxHeld]
    /\ busy \subseteq Sessions
    /\ snapshot \in [Calls -> 0..MaxHeld]
    /\ changed \in [Calls -> BOOLEAN]
    /\ adding \in [Calls -> 0..MaxHeld]
    /\ rest \in [Calls -> 0..MaxHeld]
    /\ reserved \in Nat
    /\ mine \in [Calls -> Nat]
    /\ before \in [Calls -> Nat]
    /\ unread \in [Calls -> SUBSET Sessions]
    /\ sum \in [Calls -> Nat]
    /\ outcome \in [Calls -> Outcomes]
    /\ excused \in BOOLEAN

\* A session no call runs in is charged for exactly what it holds, also after a call that
\* panicked or was undone: a later call that changes nothing is passed on that charge.
CacheIsCurrent == \A s \in Sessions \ busy : cached[s] = held[s]

\* Sessions at rest keep the quotas, each its own and all of them the total, however the
\* checks of calls that end together interleave, unless a call that did not reach its
\* check kept what it had grown.
WithinQuotas ==
    ~excused => /\ \A s \in Sessions \ busy : held[s] <= PerSession
                /\ SumFunctionOnSet(held, Sessions \ busy) <= Total

\* Tool calls alone keep the quotas (a reload may not: see the run quotas_reload_total).
ToolCallsWithinQuotas == reloads = {} => WithinQuotas

\* A refused call leaves the session's state as the call found it.
UndoneLeavesNothing ==
    \A k \in Calls : step[k] \in {"checked", "release", "fileDone"} /\ outcome[k] = "undone" =>
        held[S(k)] = snapshot[k] /\ cached[S(k)] = held[S(k)]

\* What is reserved is what running calls hold of it: nothing leaks when a call ends.
ReservationsBalance == reserved = SumFunctionOnSet(mine, Calls)

\* A call's admitted reservations: without the file still being decided.
Admitted(k) == IF step[k] \in {"admit", "reloadAdmit"} THEN mine[k] - adding[k] ELSE mine[k]

\* Files decoded at once in different sessions do not together pass the total.
DecodingFits == SumFunction([k \in Calls |-> Admitted(k)]) <= Total
=============================================================================
