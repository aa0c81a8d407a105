-------------------------- MODULE DataQuotasProofs --------------------------
(***************************************************************************)
(* Proofs about DataQuotas for any callers, sessions, quotas and files:    *)
(* the cached charges are current where a later call relies on them, an    *)
(* undone call leaves nothing, files decoded at once fit the total, what   *)
(* is reserved is what running calls hold, and tool calls alone keep the   *)
(* quotas.                                                                 *)
(***************************************************************************)
EXTENDS DataQuotas, CollectionTheorems

-----------------------------------------------------------------------------
(* The inductive invariant: a session is its running call's alone, and what *)
(* that call says of it depends on how far the call has come.               *)

Typed ==
    /\ step \in [Calls -> Steps]
    /\ held \in [Sessions -> Nat] /\ cached \in [Sessions -> Nat]
    /\ busy \subseteq Sessions
    /\ snapshot \in [Calls -> Nat]
    /\ changed \in [Calls -> BOOLEAN]
    /\ adding \in [Calls -> Nat] /\ rest \in [Calls -> Nat]
    /\ outcome \in [Calls -> Outcomes]

\* One permit per session: no two calls of it are under way.
Alone == \A j, k \in Calls : j # k /\ S(j) = S(k) => step[j] = "idle" \/ step[k] = "idle"

\* Where the session's charge has been computed since its state last changed,
Charged == {"total", "checked", "release", "load", "reloadAdmit", "others", "insert", "dropFile", "fileDone"}
\* its state is what the snapshot holds,
AsFound == {"restored", "load", "reloadAdmit", "others", "insert"}
\* and the outcome is known.
Decided == {"checked", "release", "dropFile", "fileDone"}

Own(k) ==
    /\ step[k] = "idle" => ~changed[k]
    /\ step[k] # "idle" => S(k) \in busy
    /\ step[k] \in {"tool", "admit", "enforce"} /\ ~changed[k] => cached[S(k)] = held[S(k)]
    /\ step[k] \in Charged => cached[S(k)] = held[S(k)]
    /\ step[k] \in AsFound => held[S(k)] = snapshot[k]
    /\ step[k] \in Decided /\ outcome[k] = "undone" => held[S(k)] = snapshot[k]

IInv == Typed /\ Alone /\ CacheIsCurrent /\ \A k \in Calls : Own(k)

\* A step of one caller changes its own variables and its own session, which no other
\* call is using.
Frame(k) ==
    /\ \A j \in Calls \ {k} : /\ step'[j] = step[j] /\ changed'[j] = changed[j]
                              /\ snapshot'[j] = snapshot[j] /\ outcome'[j] = outcome[j]
    /\ \A s \in Sessions \ {S(k)} : /\ held'[s] = held[s] /\ cached'[s] = cached[s]
                                    /\ s \in busy' <=> s \in busy
    /\ step[k] = "idle" => \/ step'[k] # "idle" /\ S(k) \notin busy
                           \/ step'[k] = "idle" /\ UNCHANGED <<held, cached, busy>>
    /\ S(k) \in busy \ busy' => step'[k] = "idle"

CallStep(k) == ToolCall(k) \/ Reload(k) \/ AddToTotal(k) \/ Release(k)

-----------------------------------------------------------------------------
(* What one caller's step does. *)

Kept(k) == Typed' /\ Frame(k) /\ Own(k)' /\ (S(k) \notin busy' => cached'[S(k)] = held'[S(k)])

\* Each step of a tool call keeps its call's part, and the others' alone.
LEMMA ToolStep ==
    ASSUME IInv, NEW k \in Calls, ToolCall(k)
    PROVE  Kept(k)
<1>0. S(k) \in Sessions
  BY QuotasAssumption DEF S
<1> USE <1>0 DEF Kept, IInv, Typed, Steps, Outcomes, Frame, Own, Charged, AsFound, Decided, CacheIsCurrent,
                 Go, bookkeeping, reservations, loading, totalling
<1>1. CASE StartCall(k)
  BY <1>1 DEF StartCall
<1>2. CASE ToolChanges(k)
  <2>1. 0..MaxHeld \subseteq Nat
    BY QuotasAssumption
  <2> QED BY <2>1, <1>2 DEF ToolChanges
<1>3. CASE ToolReturns(k) \/ ToolDoesNotFinish(k)
  BY <1>3 DEF ToolReturns, ToolDoesNotFinish
<1>4. CASE AdmitFile(k, "tool", "admit")
  <2>1. \A n \in FileSizes, r \in 0..held[S(k)] : n \in Nat /\ r \in Nat
    BY QuotasAssumption
  <2>2. PICK n \in FileSizes, r \in 0..held[S(k)] :
            Go(k, "tool", "admit") /\ Load(k, n, r) /\ UNCHANGED <<held, cached, changed, busy, snapshot, outcome>>
    BY <1>4 DEF AdmitFile
  <2>3. step[k] = "tool" /\ step' = [step EXCEPT ![k] = "admit"]
    BY <2>2
  <2>4. adding' \in [Calls -> Nat] /\ rest' \in [Calls -> Nat]
    BY <2>1, <2>2 DEF Load
  <2>5. Own(k)' /\ Frame(k)
    BY <2>2, <2>3
  <2> QED BY <2>2, <2>3, <2>4, <2>5
<1>5. CASE FileTooLarge(k, "tool", "enforce")
  BY <1>5 DEF FileTooLarge
<1>6. CASE FileAdmitted(k)
  BY <1>6 DEF FileAdmitted, Load
<1>7. CASE FileRefused(k, "admit", "enforce")
  BY <1>7 DEF FileRefused, Load
<1>8. CASE DropGuard(k, "unfinished", "refresh") \/ DropGuard(k, "checked", "release")
  BY <1>8 DEF DropGuard, Load
<1>9. CASE RefreshAfterCall(k)
  BY <1>9 DEF RefreshAfterCall
<1>10. CASE EnforceUnchanged(k)
  BY <1>10 DEF EnforceUnchanged, Keep
<1>11. CASE EnforceCharge(k)
  BY <1>11 DEF EnforceCharge, Keep
<1>12. CASE EnforceTotal(k)
  <2>1. UNCHANGED <<held, cached, busy, snapshot, changed, adding, rest>>
    BY <1>12 DEF EnforceTotal
  <2>2. (Go(k, "total", "checked") /\ Keep(k)) \/ (Go(k, "total", "restore") /\ UNCHANGED outcome)
    BY <1>12 DEF EnforceTotal
  <2>3. CASE Go(k, "total", "checked") /\ Keep(k)
    BY <2>1, <2>3 DEF Keep
  <2>4. CASE Go(k, "total", "restore") /\ UNCHANGED outcome
    BY <2>1, <2>4
  <2> QED BY <2>2, <2>3, <2>4
<1>13. CASE RestoreState(k)
  BY <1>13 DEF RestoreState
<1>14. CASE RefreshRestored(k)
  BY <1>14 DEF RefreshRestored
<1> QED
  BY <1>1, <1>2, <1>3, <1>4, <1>5, <1>6, <1>7, <1>8, <1>9, <1>10, <1>11, <1>12, <1>13, <1>14
     DEF ToolCall

\* So does each step of a reload, of a sum under way and of a permit given back.
LEMMA ReloadStep ==
    ASSUME IInv, NEW k \in Calls, Reload(k) \/ AddToTotal(k) \/ Release(k)
    PROVE  Kept(k)
<1>0. S(k) \in Sessions
  BY QuotasAssumption DEF S
<1> USE <1>0 DEF Kept, IInv, Typed, Steps, Outcomes, Frame, Own, Charged, AsFound, Decided, CacheIsCurrent,
                 Go, bookkeeping, reservations, loading, totalling
<1>1. CASE StartReload(k)
  BY <1>1 DEF StartReload
<1>2. CASE LoadUnchecked(k) \/ AdmitFile(k, "load", "reloadAdmit")
  <2>1. \A n \in FileSizes, r \in 0..held[S(k)] : n \in Nat /\ r \in Nat
    BY QuotasAssumption
  <2> QED BY <2>1, <1>2 DEF LoadUnchecked, AdmitFile, Load
<1>3. CASE LoadAdmitted(k) \/ LoadFails(k)
  BY <1>3 DEF LoadAdmitted, LoadFails
<1>4. CASE FileRefused(k, "reloadAdmit", "dropFile")
  BY <1>4 DEF FileRefused, Load
<1>5. CASE ReadOthers(k)
  BY <1>5 DEF ReadOthers
<1>6. CASE InsertReloaded(k)
  BY <1>6 DEF InsertReloaded
<1>7. CASE RefreshInserted(k)
  BY <1>7 DEF RefreshInserted, Keep
<1>8. CASE DropGuard(k, "dropFile", "fileDone")
  BY <1>8 DEF DropGuard, Load
<1>9. CASE NextFile(k)
  BY <1>9 DEF NextFile
<1>10. CASE EndReload(k)
  BY <1>10 DEF EndReload
<1>11. CASE AddToTotal(k)
  BY <1>11 DEF AddToTotal
<1>12. CASE Release(k)
  BY <1>12 DEF Release
<1> QED
  BY <1>1, <1>2, <1>3, <1>4, <1>5, <1>6, <1>7, <1>8, <1>9, <1>10, <1>11, <1>12 DEF Reload

\* Each step of a call, tool call or reload, keeps its call's part, and the others' alone.
LEMMA StepKept ==
    ASSUME IInv, NEW k \in Calls, CallStep(k)
    PROVE  Kept(k)
BY ToolStep, ReloadStep DEF CallStep

\* A call that is under way is left alone by every other, with its session.
LEMMA OthersUntouched ==
    ASSUME IInv, NEW k \in Calls, CallStep(k), NEW j \in Calls \ {k}
    PROVE  /\ step'[j] = step[j] /\ snapshot'[j] = snapshot[j]
           /\ \/ step[j] = "idle"
              \/ held'[S(j)] = held[S(j)] /\ cached'[S(j)] = cached[S(j)]
<1>1. Kept(k)
  BY StepKept
<1>2. S(j) \in Sessions
  BY QuotasAssumption DEF S
<1>3. step'[j] = step[j] /\ snapshot'[j] = snapshot[j]
  BY <1>1 DEF Kept, Frame
<1>4. CASE S(j) # S(k)
  BY <1>1, <1>2, <1>3, <1>4 DEF Kept, Frame
<1>5. CASE S(j) = S(k) /\ step[j] # "idle"
  <2>1. S(k) \in busy /\ step[k] = "idle"
    BY <1>5 DEF IInv, Own, Alone
  <2>2. UNCHANGED <<held, cached>>
    BY <1>1, <2>1 DEF Kept, Frame
  <2> QED BY <1>3, <2>2
<1> QED BY <1>3, <1>4, <1>5

-----------------------------------------------------------------------------
(* The invariant. *)

\* No call is under way and no session holds anything.
LEMMA InitIInv ==
    ASSUME Init
    PROVE  IInv
BY QuotasAssumption DEF Init, IInv, Typed, Alone, CacheIsCurrent, Own, Charged, AsFound, Decided,
                        Steps, Outcomes, S

\* The other calls of the stepping call's session are idle, those of other sessions untouched.
LEMMA NextIInv ==
    ASSUME IInv, [Next]_vars
    PROVE  IInv'
<1>1. CASE UNCHANGED vars
  BY <1>1 DEF vars, IInv, Typed, Alone, CacheIsCurrent, Own, S
<1>2. CASE Next
  <2>1. PICK k \in Calls : CallStep(k)
    BY <1>2 DEF Next, CallStep
  <2>2. Kept(k)
    <3>1. CASE ToolCall(k)
      BY <3>1, ToolStep
    <3>2. CASE Reload(k) \/ AddToTotal(k) \/ Release(k)
      BY <3>2, ReloadStep
    <3> QED BY <2>1, <3>1, <3>2 DEF CallStep
  <2>3. \A j \in Calls : S(j) \in Sessions
    BY QuotasAssumption DEF S
  <2>4. Typed'
    BY <2>2 DEF Kept
  <2>5. \A j \in Calls \ {k} : S(j) = S(k) =>
            step[j] = "idle" \/ (step'[k] = "idle" /\ UNCHANGED <<held, cached, busy>>)
    <3> SUFFICES ASSUME NEW j \in Calls \ {k}, S(j) = S(k), step[j] # "idle"
                 PROVE  step'[k] = "idle" /\ UNCHANGED <<held, cached, busy>>
      OBVIOUS
    <3>1. S(k) \in busy
      BY DEF IInv, Own
    <3>2. step[k] = "idle"
      BY DEF IInv, Alone
    <3> QED BY <2>2, <3>1, <3>2 DEF Kept, Frame
  <2>6. \A j \in Calls : Own(j)'
    <3>1. Own(k)'
      BY <2>2 DEF Kept
    <3>2. ASSUME NEW j \in Calls \ {k}
          PROVE  Own(j)'
      <4>1. CASE S(j) = S(k)
        BY <2>2, <2>5, <4>1 DEF Kept, Frame, IInv, Own, Charged, AsFound, Decided
      <4>2. CASE S(j) # S(k)
        BY <2>2, <2>3, <4>2 DEF Kept, Frame, IInv, Own, S
      <4> QED BY <4>1, <4>2
    <3> QED BY <3>1, <3>2
  <2>7. Alone'
    BY <2>2, <2>5 DEF Alone, Kept, Frame, IInv, S
  <2>8. CacheIsCurrent'
    BY <2>2 DEF CacheIsCurrent, Kept, Frame, IInv
  <2> QED BY <2>4, <2>6, <2>7, <2>8 DEF IInv
<1> QED BY <1>1, <1>2

\* The cached charges, the snapshots and the steps of the calls agree in every behaviour.
THEOREM Inductive == Spec => []IInv
BY InitIInv, NextIInv, PTL DEF Spec

\* A session no call runs in is charged for exactly what it holds: Own(k) carries the
\* charge through every call, Alone makes that call the only one (exec.rs, `refresh` and
\* `enforce`; persistent_session.rs, `insert_reloaded_dataset`).
THEOREM RestingChargeIsCurrent == Spec => []CacheIsCurrent
<1>1. IInv => CacheIsCurrent
  BY DEF IInv
<1> QED BY <1>1, Inductive, PTL

\* A refused call, or a refused file of a reload, leaves the session as it was and charged
\* for that (exec.rs, `restore_state`).
THEOREM RefusedLeavesNothing == Spec => []UndoneLeavesNothing
<1>1. IInv => UndoneLeavesNothing
  BY DEF IInv, Own, UndoneLeavesNothing, Charged, Decided
<1> QED BY <1>1, Inductive, PTL
-----------------------------------------------------------------------------
(* The reservations: the last of some files to have been reserved saw all   *)
(* that were reserved and admitted before it.                               *)

Deciding == {k \in Calls : step[k] \in {"admit", "reloadAdmit"}}
AdmittedOf == [k \in Calls |-> Admitted(k)]
AdmittedBytes == SumFunctionOnSet(AdmittedOf, Calls)

\* The files of these calls and all that are admitted, together.
Decoding(Q) == AdmittedBytes + SumFunctionOnSet(adding, Q)

Reservations ==
    /\ mine \in [Calls -> Nat] /\ before \in [Calls -> Nat]
    /\ \A k \in Deciding : adding[k] <= mine[k]
    /\ ReservationsBalance
    /\ \A Q \in SUBSET Deciding :
        Decoding(Q) <= Total \/ \E j \in Q : Decoding(Q) <= before[j] + adding[j]

-----------------------------------------------------------------------------
(* The quotas: what a session will be charged if its call is undone, and the *)
(* last of some calls to have started its sum saw what the others stored.    *)

Undecided == {"tool", "admit", "unfinished", "refresh", "enforce", "total", "restore", "restored"}
ReloadSteps == {"load", "reloadAdmit", "others", "insert", "inserted", "dropFile", "fileDone"}

Running(s) == {k \in Calls : S(k) = s /\ step[k] \in Undecided}
Settled == [s \in Sessions |->
              IF Running(s) = {} THEN held[s] ELSE snapshot[CHOOSE k \in Running(s) : TRUE]]

\* The calls that add up the total, and the charges if these of them are kept.
Comparing == {k \in Calls : step[k] = "total"}
IfKept(Q) == [s \in Sessions |-> IF \E k \in Q : S(k) = s THEN held[s] ELSE Settled[s]]

\* What a session was charged for before its call, it is charged for until the check.
Charges(k) ==
    /\ step[k] \in {"tool", "admit", "enforce", "unfinished", "refresh"} => cached[S(k)] = snapshot[k]
    /\ step[k] \in {"total", "restore", "restored"} => snapshot[k] <= cached[S(k)]
    /\ step[k] \in ReloadSteps => k \in reloads

Totals ==
    /\ unread \in [Calls -> SUBSET Sessions] /\ sum \in [Calls -> Nat]
    /\ \A k \in Calls : Charges(k)
    /\ \A s \in busy : \E k \in Calls : S(k) = s /\ step[k] # "idle"

\* The charges then fit the total, or what the last of these calls has summed so far.
Fits(Q) ==
    \/ SumFunctionOnSet(IfKept(Q), Sessions) <= Total
    \/ \E j \in Q : SumFunctionOnSet(IfKept(Q), Sessions \ unread[j]) <= sum[j]

QuotasKept ==
    /\ \A s \in Sessions : Settled[s] <= PerSession
    /\ \A k \in Comparing : held[S(k)] <= PerSession
    /\ \A Q \in SUBSET Comparing : Fits(Q)

Quotas == reloads = {} /\ ~excused => QuotasKept

\* No charge passes the bound on what a session holds.
Held == 0..MaxHeld
Bounded ==
    /\ held \in [Sessions -> Held] /\ cached \in [Sessions -> Held]
    /\ snapshot \in [Calls -> Held] /\ adding \in [Calls -> Held] /\ rest \in [Calls -> Held]
    /\ reloads \subseteq Calls /\ excused \in BOOLEAN

\* All of it.
QuotaInv == IInv /\ Totals /\ Reservations /\ Quotas /\ Bounded
-----------------------------------------------------------------------------
(* The sums and the charges of running calls. *)

\* Every sum is of natural numbers over the sessions, and its call's own.
LEMMA SumsTyped ==
    ASSUME IInv, Totals, NEW k \in Calls, CallStep(k)
    PROVE  /\ unread' \in [Calls -> SUBSET Sessions] /\ sum' \in [Calls -> Nat]
           /\ \A j \in Calls \ {k} : unread'[j] = unread[j] /\ sum'[j] = sum[j]
<1>0. /\ cached \in [Sessions -> Nat] /\ cached[S(k)] \in Nat
      /\ unread \in [Calls -> SUBSET Sessions] /\ sum \in [Calls -> Nat]
  BY QuotasAssumption DEF S, IInv, Typed, Totals
<1>1. CASE UNCHANGED totalling \/ StartTotal(k) \/ ForgetCheck(k)
  BY <1>0, <1>1 DEF totalling, StartTotal, ForgetCheck
<1>2. CASE ReadOthers(k)
  BY <1>0, <1>2 DEF ReadOthers, Others
<1>3. CASE AddToTotal(k)
  <2>1. PICK s \in unread[k] : /\ unread' = [unread EXCEPT ![k] = @ \ {s}]
                               /\ sum' = [sum EXCEPT ![k] = @ + cached[s]]
    BY <1>3 DEF AddToTotal
  <2>2. cached[s] \in Nat
    BY <1>0
  <2> QED BY <1>0, <2>1, <2>2
<1>4. CASE \E from, to \in Steps : AdmitFile(k, from, to)
  <2>1. StartTotal(k)
    BY <1>4 DEF AdmitFile, Reserve
  <2> QED BY <1>1, <2>1
<1>5. CASE ToolCall(k)
  <2>1. UNCHANGED totalling \/ StartTotal(k) \/ ForgetCheck(k) \/ AdmitFile(k, "tool", "admit")
    BY <1>5 DEF ToolCall, StartCall, ToolChanges, ToolReturns, ToolDoesNotFinish, FileTooLarge,
          FileAdmitted, FileRefused, DropGuard, RefreshAfterCall, EnforceUnchanged, EnforceCharge,
          EnforceTotal, RestoreState, RefreshRestored
  <2> QED BY <1>1, <1>4, <2>1 DEF Steps
<1>6. CASE Reload(k)
  <2>1. \/ UNCHANGED totalling \/ StartTotal(k) \/ ForgetCheck(k) \/ ReadOthers(k)
        \/ AdmitFile(k, "load", "reloadAdmit")
    BY <1>6 DEF Reload, StartReload, LoadUnchecked, LoadAdmitted, LoadFails, FileRefused,
          InsertReloaded, RefreshInserted, DropGuard, NextFile, EndReload
  <2> QED BY <1>1, <1>2, <1>4, <2>1 DEF Steps
<1>7. CASE Release(k)
  BY <1>1, <1>7 DEF Release
<1> QED BY <1>3, <1>5, <1>6, <1>7 DEF CallStep

\* Each step keeps its call's charge in line with its snapshot.
LEMMA ChargesStep ==
    ASSUME IInv, Totals, NEW k \in Calls, CallStep(k), UNCHANGED reloads
    PROVE  Charges(k)'
<1>0. /\ S(k) \in Sessions /\ held \in [Sessions -> Nat] /\ cached \in [Sessions -> Nat]
      /\ step \in [Calls -> Steps] /\ snapshot \in [Calls -> Nat]
      /\ Charges(k)
  BY QuotasAssumption DEF S, IInv, Typed, Totals
<1> USE <1>0 DEF Charges, ReloadSteps, Go, bookkeeping, reservations, loading, totalling
<1>1. CASE StartCall(k)
  <2>1. cached[S(k)] = held[S(k)]
    BY <1>1 DEF StartCall, IInv, CacheIsCurrent
  <2> QED BY <1>1, <2>1 DEF StartCall
<1>2. CASE \/ ToolChanges(k) \/ ToolReturns(k) \/ ToolDoesNotFinish(k)
           \/ AdmitFile(k, "tool", "admit") \/ FileTooLarge(k, "tool", "enforce")
  BY <1>2 DEF ToolChanges, ToolReturns, ToolDoesNotFinish, AdmitFile, FileTooLarge
<1>3. CASE \/ FileAdmitted(k) \/ FileRefused(k, "admit", "enforce")
           \/ DropGuard(k, "unfinished", "refresh") \/ DropGuard(k, "checked", "release")
  BY <1>3 DEF FileAdmitted, FileRefused, DropGuard
<1>4. CASE RefreshAfterCall(k) \/ EnforceUnchanged(k) \/ RestoreState(k) \/ RefreshRestored(k)
  BY <1>4 DEF RefreshAfterCall, EnforceUnchanged, RestoreState, RefreshRestored
<1>5. CASE EnforceCharge(k)
  BY <1>5 DEF EnforceCharge
<1>6. CASE EnforceTotal(k)
  <2>1. /\ Go(k, "total", "checked") \/ Go(k, "total", "restore")
        /\ UNCHANGED <<cached, snapshot>>
    BY <1>6 DEF EnforceTotal
  <2> QED BY <2>1
<1>7. CASE StartReload(k) \/ LoadUnchecked(k) \/ LoadAdmitted(k) \/ LoadFails(k)
  BY <1>7 DEF StartReload, LoadUnchecked, LoadAdmitted, LoadFails
<1>8. CASE AdmitFile(k, "load", "reloadAdmit") \/ FileRefused(k, "reloadAdmit", "dropFile")
  BY <1>8 DEF AdmitFile, FileRefused
<1>9. CASE ReadOthers(k) \/ InsertReloaded(k) \/ RefreshInserted(k)
  BY <1>9 DEF ReadOthers, InsertReloaded, RefreshInserted
<1>10. CASE DropGuard(k, "dropFile", "fileDone") \/ NextFile(k) \/ EndReload(k)
  BY <1>10 DEF DropGuard, NextFile, EndReload
<1>11. CASE AddToTotal(k) \/ Release(k)
  BY <1>11 DEF AddToTotal, Release
<1> QED
  BY <1>1, <1>2, <1>3, <1>4, <1>5, <1>6, <1>7, <1>8, <1>9, <1>10, <1>11 DEF CallStep, ToolCall, Reload

\* A permit is held by a call that is under way.
LEMMA BusyStep ==
    ASSUME IInv, Totals, NEW k \in Calls, CallStep(k), NEW s \in busy'
    PROVE  \E j \in Calls : S(j) = s /\ step'[j] # "idle"
<1>0. Kept(k) /\ S(k) \in Sessions /\ step \in [Calls -> Steps] /\ busy' \subseteq Sessions
  BY StepKept, QuotasAssumption DEF S, IInv, Typed, Kept
<1>1. CASE s = S(k) /\ step'[k] # "idle"
  BY <1>1
<1>2. CASE s = S(k) /\ step'[k] = "idle"
  <2>1. step[k] = "idle"
    <3>1. ~Release(k)
      BY <1>2 DEF Release
    <3> QED BY <1>0, <1>2, <3>1 DEF CallStep, ToolCall, Reload, Go, StartCall, ToolChanges, ToolReturns,
         ToolDoesNotFinish, AdmitFile, FileTooLarge, FileAdmitted, FileRefused, DropGuard, RefreshAfterCall,
         EnforceUnchanged, EnforceCharge, EnforceTotal, RestoreState, RefreshRestored,
         StartReload, LoadUnchecked, LoadAdmitted, LoadFails, ReadOthers, InsertReloaded,
         RefreshInserted, NextFile, EndReload, AddToTotal
  <2>2. s \in busy
    BY <1>0, <1>2, <2>1 DEF Kept, Frame
  <2>3. PICK j \in Calls : S(j) = s /\ step[j] # "idle"
    BY <2>2 DEF Totals
  <2>4. j # k
    BY <2>1, <2>3
  <2> QED BY <2>3, <2>4, OthersUntouched
<1>3. CASE s # S(k)
  <2>1. s \in busy
    BY <1>0, <1>3 DEF Kept, Frame
  <2>2. PICK j \in Calls : S(j) = s /\ step[j] # "idle"
    BY <2>1 DEF Totals
  <2> QED BY <1>3, <2>2, OthersUntouched
<1> QED BY <1>1, <1>2, <1>3

\* Only its own steps move a call's charge.
LEMMA TotalsStep ==
    ASSUME IInv, Totals, [Next]_vars
    PROVE  Totals'
<1>1. CASE UNCHANGED vars
  BY <1>1 DEF vars, Totals, Charges, S
<1>2. CASE Next
  <2>1. PICK k \in Calls : CallStep(k)
    BY <1>2 DEF Next, CallStep
  <2>2. UNCHANGED reloads
    BY <1>2 DEF Next
  <2>3. ASSUME NEW j \in Calls \ {k}
        PROVE  Charges(j)'
    <3>1. Charges(j)
      BY DEF Totals
    <3> QED BY <2>1, <2>2, <3>1, OthersUntouched DEF Charges, ReloadSteps, S
  <2>4. \A s \in busy' : \E j \in Calls : S(j) = s /\ step'[j] # "idle"
    BY <2>1, BusyStep
  <2> QED BY <2>1, <2>2, <2>3, <2>4, SumsTyped, ChargesStep DEF Totals, S
<1> QED BY <1>1, <1>2

-----------------------------------------------------------------------------
(* What is reserved. *)

\* What a caller's step does to what is reserved: it asks for a file, has it admitted, has it
\* refused, gives everything back, or leaves it alone.
Asks(k) ==
    /\ k \notin Deciding /\ k \in Deciding'
    /\ adding'[k] \in Nat /\ before'[k] = reserved
    /\ reserved' = reserved + adding'[k] /\ mine'[k] = mine[k] + adding'[k]
IsAdmitted(k) ==
    /\ k \in Deciding /\ k \notin Deciding'
    /\ reserved' = reserved /\ mine'[k] = mine[k] /\ before[k] + adding[k] <= Total
IsRefused(k) ==
    /\ k \in Deciding /\ k \notin Deciding'
    /\ reserved' = reserved - adding[k] /\ mine'[k] = mine[k] - adding[k]
GivesBack(k) ==
    /\ k \notin Deciding /\ k \notin Deciding'
    /\ reserved' = reserved - mine[k] /\ mine'[k] = 0
LeavesReserved(k) ==
    /\ k \in Deciding <=> k \in Deciding'
    /\ reserved' = reserved /\ mine'[k] = mine[k]
    /\ k \in Deciding => before'[k] = before[k] /\ adding'[k] = adding[k]

OthersReserved(k) ==
    /\ mine' \in [Calls -> Nat] /\ before' \in [Calls -> Nat]
    /\ \A j \in Calls \ {k} : /\ mine'[j] = mine[j] /\ before'[j] = before[j]
                              /\ adding'[j] = adding[j] /\ step'[j] = step[j]

ReservationStep(k) ==
    /\ OthersReserved(k)
    /\ Asks(k) \/ IsAdmitted(k) \/ IsRefused(k) \/ GivesBack(k) \/ LeavesReserved(k)

\* Every action is one of these.
LEMMA ReservationSteps ==
    ASSUME IInv, Totals, Reservations, NEW k \in Calls, CallStep(k)
    PROVE  ReservationStep(k)
<1>1. /\ step \in [Calls -> Steps] /\ adding \in [Calls -> Nat] /\ rest \in [Calls -> Nat]
      /\ mine \in [Calls -> Nat] /\ before \in [Calls -> Nat]
      /\ k \in Deciding => adding[k] <= mine[k]
  BY DEF IInv, Typed, Reservations
<1>2. reserved \in Nat
  BY <1>1, SumType, QuotasAssumption DEF Reservations, ReservationsBalance, Summable
<1> USE <1>1, <1>2 DEF ReservationStep, OthersReserved, Deciding, Go, reservations, bookkeeping, loading,
        totalling
<1>3. CASE \/ StartCall(k) \/ ToolChanges(k) \/ ToolReturns(k) \/ ToolDoesNotFinish(k)
           \/ FileTooLarge(k, "tool", "enforce") \/ RefreshAfterCall(k)
           \/ EnforceUnchanged(k) \/ RestoreState(k) \/ RefreshRestored(k)
  <2> LeavesReserved(k) /\ OthersReserved(k)
    BY <1>3 DEF LeavesReserved, StartCall, ToolChanges, ToolReturns, ToolDoesNotFinish, FileTooLarge,
                RefreshAfterCall, EnforceUnchanged, RestoreState, RefreshRestored
  <2> QED OBVIOUS
<1>4. CASE EnforceCharge(k)
  BY <1>4 DEF LeavesReserved, EnforceCharge
<1>5. CASE EnforceTotal(k)
  <2>1. /\ UNCHANGED <<reserved, mine, adding>> /\ before' = [before EXCEPT ![k] = 0]
        /\ Go(k, "total", "checked") \/ Go(k, "total", "restore")
    BY <1>5 DEF EnforceTotal, ForgetCheck
  <2> QED BY <2>1 DEF LeavesReserved
<1>6. CASE \/ StartReload(k) \/ ReadOthers(k) \/ InsertReloaded(k) \/ RefreshInserted(k)
           \/ NextFile(k) \/ EndReload(k) \/ AddToTotal(k) \/ Release(k)
  <2>1. UNCHANGED <<reserved, mine, before, adding>>
    BY <1>6 DEF StartReload, ReadOthers, InsertReloaded, RefreshInserted, NextFile, EndReload, AddToTotal,
                Release
  <2>2. /\ \A j \in Calls \ {k} : step'[j] = step[j]
        /\ k \in Deciding <=> k \in Deciding'
    BY <1>6 DEF StartReload, ReadOthers, InsertReloaded, RefreshInserted, NextFile, EndReload, AddToTotal,
                Release
  <2> QED BY <2>1, <2>2 DEF LeavesReserved
<1>7. CASE LoadUnchecked(k)
  <2>1. UNCHANGED <<reserved, mine, before>> /\ Go(k, "load", "others")
    BY <1>7 DEF LoadUnchecked
  <2>2. PICK n \in FileSizes, r \in 0..held[S(k)] : Load(k, n, r)
    BY <1>7 DEF LoadUnchecked
  <2> QED BY <2>1, <2>2 DEF LeavesReserved, Load
<1>8. CASE AdmitFile(k, "tool", "admit") \/ AdmitFile(k, "load", "reloadAdmit")
  <2>1. PICK from \in {"tool", "load"}, to \in {"admit", "reloadAdmit"} : AdmitFile(k, from, to)
    BY <1>8
  <2>2. PICK n \in FileSizes, r \in 0..held[S(k)] : Go(k, from, to) /\ Load(k, n, r) /\ Reserve(k, n)
    BY <2>1 DEF AdmitFile
  <2>3. n \in Nat
    BY QuotasAssumption
  <2>4. Asks(k)
    BY <2>2, <2>3 DEF Asks, Load, Reserve
  <2>5. OthersReserved(k)
    BY <2>2, <2>3 DEF Load, Reserve
  <2> QED BY <2>4, <2>5
<1>9. CASE FileAdmitted(k) \/ LoadAdmitted(k) \/ LoadFails(k)
  <2>1. before[k] + adding[k] <= Total
    <3>1. Others(k) \in Nat
      BY QuotasAssumption DEF Others, S, IInv, Typed, Totals
    <3> QED BY <1>9, <3>1, QuotasAssumption DEF FileAdmitted, LoadAdmitted, LoadFails, FitsTotal
  <2>2. IsAdmitted(k)
    BY <1>9, <2>1 DEF IsAdmitted, FileAdmitted, LoadAdmitted, LoadFails
  <2>3. OthersReserved(k)
    BY <1>9 DEF FileAdmitted, LoadAdmitted, LoadFails, ForgetCheck, Load
  <2> QED BY <2>2, <2>3
<1>10. CASE FileRefused(k, "admit", "enforce") \/ FileRefused(k, "reloadAdmit", "dropFile")
  <2>1. IsRefused(k)
    BY <1>10 DEF IsRefused, FileRefused
  <2>2. OthersReserved(k)
    BY <1>10 DEF FileRefused, ForgetCheck, Load
  <2> QED BY <2>1, <2>2
<1>11. CASE \/ DropGuard(k, "unfinished", "refresh") \/ DropGuard(k, "checked", "release")
            \/ DropGuard(k, "dropFile", "fileDone")
  <2>1. GivesBack(k)
    BY <1>11 DEF GivesBack, DropGuard
  <2>2. OthersReserved(k)
    BY <1>11 DEF DropGuard, ForgetCheck, Load
  <2> QED BY <2>1, <2>2
<1> QED BY <1>3, <1>4, <1>5, <1>6, <1>7, <1>8, <1>9, <1>10, <1>11 DEF CallStep, ToolCall, Reload

\* The reservations are those of the admitted files and of the ones being decided.
LEMMA ReservedIs ==
    ASSUME IInv, Reservations
    PROVE  /\ Summable(mine, Calls) /\ Summable(AdmittedOf, Calls) /\ reserved \in Nat
           /\ \A Q \in SUBSET Deciding : Summable(adding, Q) /\ Decoding(Q) \in Nat /\ Decoding(Q) <= reserved
<1>1. /\ adding \in [Calls -> Nat] /\ mine \in [Calls -> Nat] /\ IsFiniteSet(Calls)
      /\ \A k \in Deciding : adding[k] <= mine[k]
  BY QuotasAssumption DEF IInv, Typed, Reservations
<1>2. Summable(mine, Calls) /\ Summable(AdmittedOf, Calls)
  BY <1>1 DEF Summable, AdmittedOf, Admitted, Deciding
<1>3. reserved = SumFunctionOnSet(mine, Calls) /\ reserved \in Nat
  BY <1>2, SumType DEF Reservations, ReservationsBalance
<1> DEFINE g == [j \in Calls |-> IF j \in Deciding THEN adding[j] ELSE 0]
           h == [j \in Calls |-> AdmittedOf[j] + g[j]]
<1>4. Summable(g, Calls) /\ SumFunctionOnSet(g, Calls) = SumFunctionOnSet(adding, Deciding)
  BY <1>1, SumWhere DEF Deciding
<1>5. h = mine
  BY <1>1 DEF AdmittedOf, Admitted, Deciding
<1> HIDE DEF g
<1>6. SumFunctionOnSet(h, Calls) = AdmittedBytes + SumFunctionOnSet(adding, Deciding)
  BY <1>2, <1>4, SumPlus DEF AdmittedBytes
<1> HIDE DEF h
<1>7. Summable(adding, Deciding)
  BY <1>1, FS_Subset DEF Summable, Deciding
<1>8. ASSUME NEW Q \in SUBSET Deciding
      PROVE  Summable(adding, Q) /\ Decoding(Q) \in Nat /\ Decoding(Q) <= reserved
  <2>1. Summable(adding, Q) /\ SumFunctionOnSet(adding, Q) <= SumFunctionOnSet(adding, Deciding)
    <3>1. \A x \in Q : adding[x] \in Nat /\ adding[x] <= adding[x]
      BY <1>7 DEF Summable
    <3> QED BY <1>7, <3>1, SumLess
  <2>2. /\ SumFunctionOnSet(adding, Q) \in Nat /\ SumFunctionOnSet(adding, Deciding) \in Nat
        /\ AdmittedBytes \in Nat
    BY <1>2, <1>7, <2>1, SumType DEF AdmittedBytes
  <2> QED BY <1>3, <1>5, <1>6, <2>1, <2>2 DEF Decoding
<1> QED BY <1>2, <1>3, <1>8

\* Where a step admits nothing, the files decoded at once do not become more.
LEMMA NothingAdmitted ==
    ASSUME IInv, IInv', Reservations, NEW k \in Calls, OthersReserved(k),
           IsRefused(k) \/ GivesBack(k) \/ LeavesReserved(k), NEW Q \in SUBSET Deciding'
    PROVE  /\ Q \in SUBSET Deciding /\ Decoding(Q)' <= Decoding(Q) /\ Decoding(Q)' \in Nat
           /\ \A j \in Q : before'[j] = before[j] /\ adding'[j] = adding[j]
<1>1. /\ \A j \in Q : j \in Deciding /\ before'[j] = before[j] /\ adding'[j] = adding[j]
  BY DEF OthersReserved, Deciding, IsRefused, GivesBack, LeavesReserved
<1>2. /\ mine \in [Calls -> Nat] /\ adding \in [Calls -> Nat]
      /\ mine' \in [Calls -> Nat] /\ adding' \in [Calls -> Nat]
      /\ k \in Deciding => adding[k] <= mine[k]
  BY DEF IInv, Typed, Reservations, OthersReserved
<1>3. \A j \in Calls : AdmittedOf'[j] \in Nat /\ AdmittedOf'[j] <= AdmittedOf[j]
  <2>1. \A j \in Calls \ {k} : AdmittedOf'[j] = AdmittedOf[j]
    BY DEF OthersReserved, AdmittedOf, Admitted, Deciding
  <2>2. AdmittedOf[k] \in Nat /\ AdmittedOf'[k] \in Nat /\ AdmittedOf'[k] <= AdmittedOf[k]
    <3>1. /\ AdmittedOf[k] = IF k \in Deciding THEN mine[k] - adding[k] ELSE mine[k]
          /\ AdmittedOf'[k] = IF k \in Deciding' THEN mine'[k] - adding'[k] ELSE mine'[k]
      BY DEF AdmittedOf, Admitted, Deciding
    <3>2. mine[k] \in Nat /\ adding[k] \in Nat
      BY <1>2
    <3>3. CASE IsRefused(k) \/ GivesBack(k)
      BY <1>2, <3>1, <3>2, <3>3 DEF IsRefused, GivesBack
    <3>4. CASE LeavesReserved(k)
      BY <1>2, <3>1, <3>2, <3>4 DEF LeavesReserved
    <3> QED BY <3>3, <3>4
  <2>3. \A j \in Calls : AdmittedOf[j] \in Nat
    BY ReservedIs DEF Summable
  <2> QED BY <2>1, <2>2, <2>3
<1>4. Summable(AdmittedOf', Calls) /\ AdmittedBytes' <= AdmittedBytes
  BY <1>3, ReservedIs, SumLess DEF AdmittedBytes
<1>5. SumFunctionOnSet(adding', Q) = SumFunctionOnSet(adding, Q) /\ Summable(adding, Q)
  BY <1>1, ReservedIs, SumSame
<1>6. AdmittedBytes \in Nat /\ AdmittedBytes' \in Nat /\ SumFunctionOnSet(adding, Q) \in Nat
  BY <1>4, <1>5, ReservedIs, SumType DEF AdmittedBytes
<1> QED BY <1>1, <1>4, <1>5, <1>6 DEF Decoding

\* A file that is admitted was checked against all that the files admitted since can add.
LEMMA ReservationsStep ==
    ASSUME IInv, IInv', Reservations, NEW k \in Calls, ReservationStep(k)
    PROVE  Reservations'
<1>0. OthersReserved(k)
  BY DEF ReservationStep
<1>1. /\ mine \in [Calls -> Nat] /\ adding \in [Calls -> Nat] /\ before \in [Calls -> Nat]
      /\ mine' \in [Calls -> Nat] /\ adding' \in [Calls -> Nat] /\ before' \in [Calls -> Nat]
      /\ \A j \in Deciding : adding[j] <= mine[j]
      /\ reserved \in Nat /\ Summable(mine, Calls)
      /\ Total \in Nat
  BY <1>0, ReservedIs, QuotasAssumption DEF IInv, Typed, Reservations, OthersReserved
<1>2. reserved' + mine[k] = reserved + mine'[k]
  BY <1>1 DEF ReservationStep, Asks, IsAdmitted, IsRefused, GivesBack, LeavesReserved
<1>3. ReservationsBalance'
  <2>1. /\ Summable(mine', Calls)
        /\ SumFunctionOnSet(mine', Calls) + mine[k] = SumFunctionOnSet(mine, Calls) + mine'[k]
    BY <1>0, <1>1, SumChange DEF OthersReserved
  <2>2. SumFunctionOnSet(mine', Calls) \in Nat /\ SumFunctionOnSet(mine, Calls) = reserved
    BY <1>1, <2>1, SumType DEF Reservations, ReservationsBalance
  <2>3. reserved' \in Int
    BY <1>1 DEF ReservationStep, Asks, IsAdmitted, IsRefused, GivesBack, LeavesReserved
  <2> QED BY <1>1, <1>2, <2>1, <2>2, <2>3 DEF ReservationsBalance
<1>4. \A j \in Deciding' : adding'[j] <= mine'[j]
  <2>1. \A j \in Deciding' \ {k} : j \in Deciding /\ adding'[j] = adding[j] /\ mine'[j] = mine[j]
    BY <1>0 DEF OthersReserved, Deciding
  <2>2. k \in Deciding' => adding'[k] <= mine'[k]
    BY <1>1 DEF ReservationStep, Asks, IsAdmitted, IsRefused, GivesBack, LeavesReserved
  <2> QED BY <1>1, <2>1, <2>2
<1>5. ASSUME NEW Q \in SUBSET Deciding'
      PROVE  Decoding(Q)' <= Total \/ \E j \in Q : Decoding(Q)' <= before'[j] + adding'[j]
  <2>1. CASE IsRefused(k) \/ GivesBack(k) \/ LeavesReserved(k)
    <3>1. /\ Q \in SUBSET Deciding /\ Decoding(Q)' <= Decoding(Q) /\ Decoding(Q)' \in Nat
          /\ \A j \in Q : before'[j] = before[j] /\ adding'[j] = adding[j]
      BY <1>0, <2>1, NothingAdmitted
    <3>2. Decoding(Q) \in Nat
      BY <3>1, ReservedIs
    <3>3. Decoding(Q) <= Total \/ \E j \in Q : Decoding(Q) <= before[j] + adding[j]
      BY <3>1 DEF Reservations
    <3>4. \A j \in Q : j \in Calls
      BY DEF Deciding
    <3> QED BY <1>1, <3>1, <3>2, <3>3, <3>4
  <2>2. CASE IsAdmitted(k)
    <3> DEFINE R == Q \union {k}
    <3>1. k \notin Q /\ R \in SUBSET Deciding /\ Q \in SUBSET Deciding
      BY <1>0, <2>2 DEF IsAdmitted, OthersReserved, Deciding
    <3>2. \A j \in Q : j \in Calls /\ before'[j] = before[j] /\ adding'[j] = adding[j]
      BY <1>0, <3>1 DEF OthersReserved, Deciding
    <3>3. Summable(adding, Q) /\ SumFunctionOnSet(adding', Q) = SumFunctionOnSet(adding, Q)
      BY <3>1, <3>2, ReservedIs, SumSame
    <3>4. SumFunctionOnSet(adding, R) = SumFunctionOnSet(adding, Q) + adding[k]
      BY <1>1, <3>1, <3>3, SumAdd
    <3>5. AdmittedBytes' = AdmittedBytes + adding[k] /\ AdmittedBytes \in Nat
      <4>1. AdmittedOf'[k] = AdmittedOf[k] + adding[k] /\ AdmittedOf[k] \in Nat /\ AdmittedOf'[k] \in Nat
        BY <1>1, <2>2 DEF AdmittedOf, Admitted, Deciding, IsAdmitted
      <4>2. \A j \in Calls \ {k} : AdmittedOf'[j] = AdmittedOf[j]
        BY <1>0 DEF OthersReserved, AdmittedOf, Admitted, Deciding
      <4>3. /\ Summable(AdmittedOf', Calls) /\ Summable(AdmittedOf, Calls)
            /\ AdmittedBytes' + AdmittedOf[k] = AdmittedBytes + AdmittedOf'[k]
        BY <4>1, <4>2, ReservedIs, SumChange DEF AdmittedBytes
      <4>4. AdmittedBytes' \in Nat /\ AdmittedBytes \in Nat
        BY <4>3, SumType DEF AdmittedBytes
      <4> QED BY <1>1, <4>1, <4>3, <4>4
    <3>6. SumFunctionOnSet(adding, Q) \in Nat
      BY <3>3, SumType
    <3>7. Decoding(Q)' = Decoding(R) /\ Decoding(R) \in Nat
      <4>1. adding[k] \in Nat
        BY <1>1
      <4> QED BY <3>3, <3>4, <3>5, <3>6, <4>1 DEF Decoding
    <3>8. Decoding(R) <= Total \/ \E j \in R : Decoding(R) <= before[j] + adding[j]
      BY <3>1 DEF Reservations
    <3>9. CASE Decoding(R) <= before[k] + adding[k]
      BY <1>1, <2>2, <3>7, <3>9 DEF IsAdmitted
    <3>10. CASE Decoding(R) <= Total \/ \E j \in Q : Decoding(R) <= before[j] + adding[j]
      BY <3>2, <3>7, <3>10
    <3> QED BY <3>8, <3>9, <3>10
  <2>3. CASE Asks(k)
    <3> DEFINE R == Q \ {k}
    <3>1. R \in SUBSET Deciding
      BY <1>0 DEF OthersReserved, Deciding
    <3>2. \A j \in R : j \in Calls /\ before'[j] = before[j] /\ adding'[j] = adding[j]
      BY <1>0, <3>1 DEF OthersReserved, Deciding
    <3>3. Summable(adding, R) /\ Summable(adding', R)
          /\ SumFunctionOnSet(adding', R) = SumFunctionOnSet(adding, R)
      BY <3>1, <3>2, ReservedIs, SumSame
    <3>4. AdmittedBytes' = AdmittedBytes /\ AdmittedBytes \in Nat
      <4>1. \A j \in Calls : AdmittedOf'[j] = AdmittedOf[j]
        BY <1>0, <1>1, <2>3 DEF OthersReserved, AdmittedOf, Admitted, Deciding, Asks
      <4>2. Summable(AdmittedOf, Calls)
        BY ReservedIs
      <4> QED BY <4>1, <4>2, SumSame, SumType DEF AdmittedBytes
    <3>5. Decoding(R) \in Nat /\ Decoding(R) <= reserved
      BY <3>1, ReservedIs
    <3>6. CASE k \in Q
      <4>1. Summable(adding', Q)
        <5>1. IsFiniteSet(R \union {k}) /\ Q = R \union {k}
          BY <3>3, <3>6, FS_AddElement DEF Summable
        <5> QED BY <1>1, <5>1 DEF Summable, Deciding
      <4>2. SumFunctionOnSet(adding', Q) = SumFunctionOnSet(adding', R) + adding'[k]
        BY <3>6, <4>1, SumRemove
      <4>3. Decoding(Q)' = Decoding(R) + adding'[k]
        <5>1. SumFunctionOnSet(adding, R) \in Nat /\ adding'[k] \in Nat
          BY <1>1, <3>3, SumType
        <5> QED BY <3>3, <3>4, <4>2, <5>1 DEF Decoding
      <4>4. adding'[k] \in Nat /\ before'[k] = reserved
        BY <2>3 DEF Asks
      <4> HIDE DEF R
      <4> QED BY <1>1, <3>5, <3>6, <4>3, <4>4
    <3>7. CASE k \notin Q
      <4>1. R = Q
        BY <3>7
      <4>2. Decoding(Q)' = Decoding(Q)
        BY <3>3, <3>4, <4>1 DEF Decoding
      <4>3. Decoding(Q) <= Total \/ \E j \in Q : Decoding(Q) <= before[j] + adding[j]
        BY <3>1, <4>1 DEF Reservations
      <4> QED BY <3>2, <4>1, <4>2, <4>3
    <3> QED BY <3>6, <3>7
  <2> QED BY <2>1, <2>2, <2>3 DEF ReservationStep
<1> QED BY <1>1, <1>3, <1>4, <1>5 DEF Reservations

-----------------------------------------------------------------------------
(* What tool calls keep. *)

\* What a caller's step does to the charges in force: it starts to add up the total with its
\* growth stored, adds one session, is kept on what it summed, or leaves them or less of them.
StartsSum(k) ==
    /\ k \notin Comparing /\ k \in Comparing'
    /\ unread'[k] = Sessions /\ sum'[k] = 0
    /\ held'[S(k)] <= PerSession /\ Settled'[S(k)] = Settled[S(k)]
AddsUp(k) ==
    /\ k \in Comparing /\ k \in Comparing'
    /\ \E s \in unread[k] : unread'[k] = unread[k] \ {s} /\ sum'[k] = sum[k] + cached[s]
    /\ held' = held /\ Settled'[S(k)] = Settled[S(k)]
IsKept(k) ==
    /\ k \in Comparing /\ k \notin Comparing'
    /\ unread[k] = {} /\ sum[k] <= Total
    /\ Settled'[S(k)] = held[S(k)]
NoMore(k) ==
    /\ k \notin Comparing'
    /\ Settled'[S(k)] <= Settled[S(k)]

OthersCharged(k) ==
    /\ \A j \in Calls \ {k} : unread'[j] = unread[j] /\ sum'[j] = sum[j] /\ step'[j] = step[j]
    /\ \A j \in Comparing \ {k} : held'[S(j)] = held[S(j)]
    /\ \A s \in Sessions \ {S(k)} : Settled'[s] = Settled[s]

\* A session's charge in force is decided by the one call that may be under way in it.
LEMMA SettledOwn ==
    ASSUME NEW k \in Calls, \A j \in Calls \ {k} : S(j) = S(k) => step[j] = "idle"
    PROVE  Settled[S(k)] = IF step[k] \in Undecided THEN snapshot[k] ELSE held[S(k)]
<1>1. Running(S(k)) = IF step[k] \in Undecided THEN {k} ELSE {}
  BY DEF Running, Undecided
<1>2. S(k) \in Sessions
  BY QuotasAssumption DEF S
<1> QED BY <1>1, <1>2 DEF Settled

\* After a step, its session settles on what was found when the call is undecided, else on
\* what is held.
LEMMA SettledOwnNext ==
    ASSUME NEW k \in Calls, \A j \in Calls \ {k} : S(j) = S(k) => step'[j] = "idle"
    PROVE  Settled'[S(k)] = IF step'[k] \in Undecided THEN snapshot'[k] ELSE held'[S(k)]
<1>1. Running(S(k))' = IF step'[k] \in Undecided THEN {k} ELSE {}
  BY DEF Running, Undecided
<1>2. S(k) \in Sessions
  BY QuotasAssumption DEF S
<1> QED BY <1>1, <1>2 DEF Settled

\* What a session settles on is a size.
LEMMA SettledTyped ==
    ASSUME IInv
    PROVE  Settled \in [Sessions -> Nat]
<1>1. \A s \in Sessions : Running(s) # {} => (CHOOSE k \in Running(s) : TRUE) \in Calls
  BY DEF Running
<1> QED BY <1>1 DEF Settled, IInv, Typed

\* The charges in force in other sessions are not this call's.
LEMMA SettledOthers ==
    ASSUME IInv, Totals, NEW k \in Calls, CallStep(k)
    PROVE  OthersCharged(k)
<1>1. \A j \in Calls \ {k} : unread'[j] = unread[j] /\ sum'[j] = sum[j] /\ step'[j] = step[j]
  BY SumsTyped, OthersUntouched
<1>2. \A j \in Comparing \ {k} : held'[S(j)] = held[S(j)]
  BY OthersUntouched DEF Comparing
<1>3. ASSUME NEW s \in Sessions \ {S(k)}
      PROVE  Settled'[s] = Settled[s]
  <2>1. Running(s)' = Running(s) /\ \A j \in Running(s) : snapshot'[j] = snapshot[j]
    BY OthersUntouched DEF Running, S
  <2>2. held'[s] = held[s]
    BY StepKept DEF Kept, Frame
  <2>3. Running(s) # {} => (CHOOSE j \in Running(s) : TRUE) \in Running(s)
    OBVIOUS
  <2> QED BY <2>1, <2>2, <2>3 DEF Settled
<1> QED BY <1>1, <1>2, <1>3 DEF OthersCharged

\* Where only tools are called and no call was excused, every action is one of these.
LEMMA QuotaSteps ==
    ASSUME IInv, IInv', Totals, reloads = {}, ~excused', NEW k \in Calls, CallStep(k)
    PROVE  StartsSum(k) \/ AddsUp(k) \/ IsKept(k) \/ NoMore(k)
<1>0. /\ S(k) \in Sessions /\ held \in [Sessions -> Nat] /\ cached \in [Sessions -> Nat]
      /\ step \in [Calls -> Steps] /\ snapshot \in [Calls -> Nat] /\ Settled[S(k)] \in Nat
      /\ unread \in [Calls -> SUBSET Sessions] /\ sum \in [Calls -> Nat]
      /\ Charges(k) /\ Own(k)
  BY QuotasAssumption, SettledTyped DEF S, IInv, Typed, Totals
<1>1. CASE AddToTotal(k)
  <2>1. /\ UNCHANGED <<step, held, snapshot>>
        /\ \E s \in unread[k] : unread'[k] = unread[k] \ {s} /\ sum'[k] = sum[k] + cached[s]
    BY <1>0, <1>1 DEF AddToTotal, bookkeeping
  <2>2. Settled' = Settled
    BY <2>1 DEF Settled, Running, S
  <2> QED BY <1>0, <2>1, <2>2 DEF AddsUp, NoMore, Comparing
<1>2. CASE ~AddToTotal(k)
  <2>1. \A j \in Calls \ {k} : S(j) = S(k) => step[j] = "idle" /\ step'[j] = "idle"
    <3>1. step[k] # "idle" \/ S(k) \notin busy
      BY <1>0, <1>2 DEF CallStep, ToolCall, Reload, Go, StartCall, ToolChanges, ToolReturns, ToolDoesNotFinish,
         AdmitFile, FileTooLarge, FileAdmitted, FileRefused, DropGuard, RefreshAfterCall,
         EnforceUnchanged, EnforceCharge, EnforceTotal, RestoreState, RefreshRestored,
         StartReload, LoadUnchecked, LoadAdmitted, LoadFails, ReadOthers, InsertReloaded,
         RefreshInserted, NextFile, EndReload, Release
    <3> QED BY <3>1, OthersUntouched DEF IInv, Alone, Own
  <2>2. Settled[S(k)] = IF step[k] \in Undecided THEN snapshot[k] ELSE held[S(k)]
    BY <2>1, SettledOwn
  <2>3. Settled'[S(k)] = IF step'[k] \in Undecided THEN snapshot'[k] ELSE held'[S(k)]
    BY <2>1, SettledOwnNext
  <2> USE <1>0 DEF Undecided, Comparing, NoMore, Go, bookkeeping, reservations, loading, totalling
  <2>4. CASE StartCall(k)
    BY <2>2, <2>3, <2>4 DEF StartCall
  <2>5. CASE \/ ToolChanges(k) \/ ToolReturns(k) \/ ToolDoesNotFinish(k)
             \/ AdmitFile(k, "tool", "admit") \/ FileTooLarge(k, "tool", "enforce")
    BY <2>2, <2>3, <2>5 DEF ToolChanges, ToolReturns, ToolDoesNotFinish, AdmitFile, FileTooLarge
  <2>6. CASE FileAdmitted(k) \/ FileRefused(k, "admit", "enforce") \/ DropGuard(k, "unfinished", "refresh")
             \/ DropGuard(k, "checked", "release")
    BY <2>2, <2>3, <2>6 DEF FileAdmitted, FileRefused, DropGuard
  <2>7. CASE RefreshAfterCall(k)
    <3>1. ~(held[S(k)] > snapshot[k])
      BY <2>7, Zenon DEF RefreshAfterCall
    <3> QED BY <2>2, <2>3, <2>7, <3>1 DEF RefreshAfterCall
  <2>8. CASE EnforceUnchanged(k)
    BY <2>2, <2>3, <2>8 DEF EnforceUnchanged, Charges, Own
  <2>9. CASE EnforceCharge(k)
    <3> DEFINE after == held[S(k)]
    <3>1. /\ step[k] = "enforce" /\ UNCHANGED <<held, snapshot>>
          /\ step' = [step EXCEPT ![k] = IF after <= snapshot[k] THEN "checked"
                                         ELSE IF after > PerSession THEN "restore" ELSE "total"]
          /\ step'[k] = "total" => StartTotal(k)
      BY <2>9 DEF EnforceCharge
    <3>2. after \in Nat /\ PerSession \in Nat /\ snapshot[k] \in Nat
      BY QuotasAssumption
    <3>3. CASE step'[k] = "total"
      BY <2>2, <2>3, <3>1, <3>2, <3>3 DEF StartTotal, StartsSum
    <3>4. CASE step'[k] # "total"
      BY <2>2, <2>3, <3>1, <3>2, <3>4
    <3> QED BY <3>3, <3>4
  <2>10. CASE EnforceTotal(k)
    <3>1. /\ unread[k] = {} /\ UNCHANGED <<held, snapshot>>
          /\ \/ sum[k] <= Total /\ Go(k, "total", "checked")
             \/ Go(k, "total", "restore")
      BY <2>10 DEF EnforceTotal, Totalled
    <3>2. CASE sum[k] <= Total /\ Go(k, "total", "checked")
      BY <2>2, <2>3, <3>1, <3>2 DEF IsKept
    <3>3. CASE Go(k, "total", "restore")
      BY <2>2, <2>3, <3>1, <3>3
    <3> QED BY <3>1, <3>2, <3>3
  <2>11. CASE RestoreState(k)
    BY <2>2, <2>3, <2>11 DEF RestoreState
  <2>12. CASE RefreshRestored(k)
    BY <2>2, <2>3, <2>12 DEF RefreshRestored, Own, AsFound
  <2>13. CASE Release(k)
    BY <2>2, <2>3, <2>13 DEF Release
  <2>14. ~Reload(k)
    BY DEF Charges, ReloadSteps, Reload, StartReload, LoadUnchecked, LoadAdmitted, LoadFails, AdmitFile,
       FileRefused, ReadOthers, InsertReloaded, RefreshInserted, DropGuard, NextFile, EndReload
  <2> QED BY <1>2, <2>4, <2>5, <2>6, <2>7, <2>8, <2>9, <2>10, <2>11, <2>12, <2>13, <2>14
          DEF CallStep, ToolCall
<1> QED BY <1>1, <1>2

\* The charges, if some of the comparing calls are kept, are natural numbers.
LEMMA IfKeptTyped ==
    ASSUME IInv, NEW Q
    PROVE  /\ IfKept(Q) \in [Sessions -> Nat]
           /\ \A T \in SUBSET Sessions : Summable(IfKept(Q), T) /\ SumFunctionOnSet(IfKept(Q), T) \in Nat
<1>1. IfKept(Q) \in [Sessions -> Nat]
  BY SettledTyped DEF IfKept, IInv, Typed
<1>2. \A T \in SUBSET Sessions : Summable(IfKept(Q), T)
  BY <1>1, FS_Subset, QuotasAssumption DEF Summable
<1> QED BY <1>1, <1>2, SumType

\* So are the charges in the next state, which can be added up.
LEMMA IfKeptTypedNext ==
    ASSUME IInv', NEW Q
    PROVE  /\ IfKept(Q)' \in [Sessions -> Nat]
           /\ \A T \in SUBSET Sessions : Summable(IfKept(Q)', T) /\ SumFunctionOnSet(IfKept(Q)', T) \in Nat
<1>0. Settled' \in [Sessions -> Nat]
  <2>1. \A s \in Sessions : Running(s)' # {} => (CHOOSE k \in Running(s)' : TRUE) \in Calls
    BY DEF Running
  <2> QED BY <2>1 DEF Settled, IInv, Typed
<1>1. IfKept(Q)' \in [Sessions -> Nat]
  BY <1>0 DEF IfKept, IInv, Typed
<1>2. \A T \in SUBSET Sessions : Summable(IfKept(Q)', T)
  BY <1>1, FS_Subset, QuotasAssumption DEF Summable
<1> QED BY <1>1, <1>2, SumType

\* Where the charges grow nowhere and the sums of these calls are as they were, they still fit.
LEMMA FitsStays ==
    ASSUME IInv, IInv', Totals, NEW Q, NEW R, Fits(Q), R \subseteq Calls,
           \A s \in Sessions : IfKept(R)'[s] <= IfKept(Q)[s],
           \A j \in Q : \/ j \in R /\ unread'[j] = unread[j] /\ sum'[j] = sum[j]
                        \/ j \in Calls /\ unread[j] = {} /\ sum[j] <= Total
    PROVE  Fits(R)'
<1>1. \A T \in SUBSET Sessions :
        /\ SumFunctionOnSet(IfKept(R)', T) <= SumFunctionOnSet(IfKept(Q), T)
        /\ SumFunctionOnSet(IfKept(R)', T) \in Nat /\ SumFunctionOnSet(IfKept(Q), T) \in Nat
  <2> SUFFICES ASSUME NEW T \in SUBSET Sessions
               PROVE  /\ SumFunctionOnSet(IfKept(R)', T) <= SumFunctionOnSet(IfKept(Q), T)
                      /\ SumFunctionOnSet(IfKept(R)', T) \in Nat /\ SumFunctionOnSet(IfKept(Q), T) \in Nat
    OBVIOUS
  <2>1. Summable(IfKept(Q), T)
    BY IfKeptTyped
  <2>2. \A s \in T : IfKept(R)'[s] \in Nat /\ IfKept(R)'[s] <= IfKept(Q)[s]
    BY IfKeptTypedNext
  <2>3. SumFunctionOnSet(IfKept(R)', T) <= SumFunctionOnSet(IfKept(Q), T)
    BY <2>1, <2>2, SumLess
  <2> QED BY <2>3, IfKeptTyped, IfKeptTypedNext
<1>2. Total \in Nat /\ sum \in [Calls -> Nat] /\ unread \in [Calls -> SUBSET Sessions]
  BY QuotasAssumption DEF Totals
<1>3. CASE SumFunctionOnSet(IfKept(Q), Sessions) <= Total
  BY <1>1, <1>2, <1>3 DEF Fits
<1>4. CASE \E j \in Q : SumFunctionOnSet(IfKept(Q), Sessions \ unread[j]) <= sum[j]
  <2>1. PICK j \in Q : SumFunctionOnSet(IfKept(Q), Sessions \ unread[j]) <= sum[j]
    BY <1>4
  <2>2. j \in Calls /\ sum[j] \in Nat
    BY <1>2
  <2>3. CASE j \in R /\ unread'[j] = unread[j] /\ sum'[j] = sum[j]
    <3>1. SumFunctionOnSet(IfKept(R)', Sessions \ unread[j]) <= sum[j]
      BY <1>1, <2>1, <2>2
    <3> QED BY <2>3, <3>1 DEF Fits
  <2>4. CASE unread[j] = {} /\ sum[j] <= Total
    <3>1. Sessions \ unread[j] = Sessions
      BY <2>4
    <3>2. SumFunctionOnSet(IfKept(R)', Sessions) <= Total
      BY <1>1, <1>2, <2>1, <2>2, <2>4, <3>1
    <3> QED BY <3>2 DEF Fits
  <2> QED BY <2>3, <2>4
<1> QED BY <1>3, <1>4 DEF Fits

\* What a session is charged is no less than what it will be charged if some calls are kept.
LEMMA ChargedEnough ==
    ASSUME IInv, Totals, reloads = {}, NEW Q \in SUBSET Comparing, NEW s \in Sessions
    PROVE  IfKept(Q)[s] <= cached[s]
<1>0. held[s] \in Nat /\ cached[s] \in Nat /\ snapshot \in [Calls -> Nat] /\ step \in [Calls -> Steps]
  BY DEF IInv, Typed
<1>1. CASE \E j \in Q : S(j) = s
  <2>1. PICK j \in Q : S(j) = s
    BY <1>1
  <2>2. held[s] = cached[s]
    BY <2>1 DEF Comparing, IInv, Own, Charged
  <2> QED BY <1>0, <1>1, <2>2 DEF IfKept
<1>2. CASE ~\E j \in Q : S(j) = s
  <2>1. IfKept(Q)[s] = Settled[s]
    BY <1>2 DEF IfKept
  <2>2. CASE Running(s) # {}
    <3>1. PICK k \in Running(s) : Settled[s] = snapshot[k]
      BY <2>2 DEF Settled
    <3>2. snapshot[k] <= cached[s]
      BY <1>0, <3>1 DEF Totals, Charges, Running, Undecided
    <3> QED BY <2>1, <3>1, <3>2
  <2>3. CASE Running(s) = {}
    <3>1. held[s] = cached[s]
      <4>1. CASE s \in busy
        <5>1. PICK k \in Calls : S(k) = s /\ step[k] # "idle"
          BY <4>1 DEF Totals
        <5>2. step[k] \in {"checked", "release"}
          BY <1>0, <2>3, <5>1 DEF Running, Undecided, Totals, Charges, ReloadSteps, Steps
        <5> QED BY <5>1, <5>2 DEF IInv, Own, Charged
      <4>2. CASE s \notin busy
        BY <4>2 DEF IInv, CacheIsCurrent
      <4> QED BY <4>1, <4>2
    <3> QED BY <1>0, <2>1, <2>3, <3>1 DEF Settled
  <2> QED BY <2>2, <2>3
<1> QED BY <1>1, <1>2

\* The charges in force keep the quotas, whichever of the comparing calls are kept.
LEMMA QuotasStep ==
    ASSUME IInv, IInv', Totals, QuotasKept, reloads = {}, ~excused',
           NEW k \in Calls, CallStep(k)
    PROVE  QuotasKept'
<1>0. OthersCharged(k) /\ S(k) \in Sessions /\ Settled \in [Sessions -> Nat]
  BY SettledOthers, SettledTyped, QuotasAssumption DEF S
<1>1. StartsSum(k) \/ AddsUp(k) \/ IsKept(k) \/ NoMore(k)
  BY QuotaSteps
<1>2. \A j \in Comparing' \ {k} : /\ j \in Comparing /\ held'[S(j)] = held[S(j)]
                                 /\ unread'[j] = unread[j] /\ sum'[j] = sum[j]
  BY <1>0 DEF OthersCharged, Comparing
<1>3. \A s \in Sessions \ {S(k)} : Settled'[s] = Settled[s]
  BY <1>0 DEF OthersCharged
<1>4. \A j \in Comparing' \cup Comparing : j \in Calls /\ S(j) \in Sessions
  BY QuotasAssumption DEF Comparing, S
<1>5. PerSession \in Nat /\ held[S(k)] \in Nat /\ held'[S(k)] \in Nat /\ Settled'[S(k)] \in Nat
  <2>1. IfKept({})'[S(k)] = Settled'[S(k)]
    BY <1>0 DEF IfKept
  <2>2. Settled'[S(k)] \in Nat
    BY <1>0, <2>1, IfKeptTypedNext
  <2> QED BY <1>0, <2>2, QuotasAssumption DEF IInv, Typed
<1>6. \A s \in Sessions : Settled'[s] <= PerSession
  <2>1. Settled[S(k)] \in Nat /\ Settled[S(k)] <= PerSession /\ k \in Comparing => held[S(k)] <= PerSession
    BY <1>0 DEF QuotasKept
  <2>2. Settled'[S(k)] <= PerSession
    BY <1>1, <1>5, <2>1, <1>0 DEF StartsSum, AddsUp, IsKept, NoMore, QuotasKept
  <2> QED BY <1>3, <2>2 DEF QuotasKept
<1>7. \A j \in Comparing' : held'[S(j)] <= PerSession
  BY <1>1, <1>2 DEF StartsSum, AddsUp, IsKept, NoMore, QuotasKept
<1>8. ASSUME NEW Q \in SUBSET Comparing'
      PROVE  Fits(Q)'
  <2>1. CASE k \notin Q /\ ~IsKept(k)
    <3>1. Q \in SUBSET Comparing /\ Fits(Q)
      BY <1>2, <2>1 DEF QuotasKept
    <3>2. Settled'[S(k)] <= Settled[S(k)]
      BY <1>0, <1>1, <2>1 DEF StartsSum, AddsUp, NoMore
    <3>3. \A s \in Sessions : IfKept(Q)'[s] <= IfKept(Q)[s]
      <4> SUFFICES ASSUME NEW s \in Sessions PROVE IfKept(Q)'[s] <= IfKept(Q)[s]
        OBVIOUS
      <4>1. CASE \E j \in Q : S(j) = s
        <5>1. IfKept(Q)'[s] = held'[s] /\ IfKept(Q)[s] = held[s]
          BY <4>1 DEF IfKept, S
        <5>2. held'[s] = held[s] /\ held[s] \in Nat
          BY <1>2, <2>1, <4>1 DEF IInv, Typed
        <5> QED BY <5>1, <5>2
      <4>2. CASE ~\E j \in Q : S(j) = s
        <5>1. IfKept(Q)'[s] = Settled'[s] /\ IfKept(Q)[s] = Settled[s]
          BY <4>2 DEF IfKept, S
        <5> QED BY <1>0, <1>3, <3>2, <5>1
      <4> QED BY <4>1, <4>2
    <3>4. \A j \in Q : j \in Q /\ unread'[j] = unread[j] /\ sum'[j] = sum[j]
      BY <1>2, <2>1
    <3> QED BY <1>4, <3>1, <3>3, <3>4, FitsStays
  <2>2. CASE IsKept(k)
    <3> DEFINE R == Q \union {k}
    <3>1. k \notin Q /\ R \in SUBSET Comparing /\ Fits(R)
      BY <1>2, <2>2 DEF QuotasKept, IsKept
    <3>2. \A s \in Sessions : IfKept(Q)'[s] <= IfKept(R)[s]
      <4> SUFFICES ASSUME NEW s \in Sessions PROVE IfKept(Q)'[s] <= IfKept(R)[s]
        OBVIOUS
      <4>0. held[s] \in Nat /\ Settled[s] \in Nat
        BY <1>0 DEF IInv, Typed
      <4>1. CASE \E j \in Q : S(j) = s
        <5>1. IfKept(Q)'[s] = held'[s] /\ IfKept(R)[s] = held[s]
          BY <4>1 DEF IfKept, S
        <5>2. held'[s] = held[s]
          BY <1>2, <3>1, <4>1
        <5> QED BY <4>0, <5>1, <5>2
      <4>2. CASE s = S(k) /\ ~\E j \in Q : S(j) = s
        <5>1. IfKept(Q)'[s] = Settled'[s] /\ IfKept(R)[s] = held[s]
          BY <4>2 DEF IfKept, S
        <5> QED BY <2>2, <4>0, <4>2, <5>1 DEF IsKept
      <4>3. CASE s # S(k) /\ ~\E j \in Q : S(j) = s
        <5>1. IfKept(Q)'[s] = Settled'[s] /\ IfKept(R)[s] = Settled[s]
          BY <4>3 DEF IfKept, S
        <5> QED BY <1>3, <4>0, <4>3, <5>1
      <4> QED BY <4>1, <4>2, <4>3
    <3>3. \A j \in R : \/ j \in Q /\ unread'[j] = unread[j] /\ sum'[j] = sum[j]
                       \/ j \in Calls /\ unread[j] = {} /\ sum[j] <= Total
      BY <1>2, <2>2, <3>1 DEF IsKept
    <3> HIDE DEF R
    <3> QED BY <1>4, <3>1, <3>2, <3>3, FitsStays
  <2>3. CASE k \in Q /\ StartsSum(k)
    <3>1. Sessions \ unread'[k] = {} /\ sum'[k] = 0
      BY <2>3 DEF StartsSum
    <3>2. SumFunctionOnSet(IfKept(Q)', Sessions \ unread'[k]) = 0
      BY <3>1, SumEmpty
    <3>3. SumFunctionOnSet(IfKept(Q)', Sessions \ unread'[k]) <= sum'[k]
      BY <3>1, <3>2
    <3> QED BY <2>3, <3>3 DEF Fits
  <2>4. CASE k \in Q /\ AddsUp(k)
    <3>1. Q \in SUBSET Comparing /\ Fits(Q)
      BY <1>2, <2>4 DEF QuotasKept, AddsUp
    <3>2. IfKept(Q)' = IfKept(Q)
      <4>1. \A s \in Sessions : Settled'[s] = Settled[s]
        BY <1>3, <2>4 DEF AddsUp
      <4>2. held' = held
        BY <2>4 DEF AddsUp
      <4> QED BY <4>1, <4>2 DEF IfKept, S
    <3>3. CASE \/ SumFunctionOnSet(IfKept(Q), Sessions) <= Total
               \/ \E j \in Q \ {k} : SumFunctionOnSet(IfKept(Q), Sessions \ unread[j]) <= sum[j]
      BY <1>2, <3>2, <3>3 DEF Fits
    <3>4. CASE SumFunctionOnSet(IfKept(Q), Sessions \ unread[k]) <= sum[k]
      <4>1. PICK s \in unread[k] : unread'[k] = unread[k] \ {s} /\ sum'[k] = sum[k] + cached[s]
        BY <2>4 DEF AddsUp
      <4>2. s \in Sessions /\ unread[k] \in SUBSET Sessions /\ sum[k] \in Nat /\ cached[s] \in Nat
        BY <4>1 DEF Totals, IInv, Typed
      <4> DEFINE T == Sessions \ unread[k]
      <4>3. T \in SUBSET Sessions /\ s \notin T /\ Sessions \ unread'[k] = T \union {s}
        BY <4>1, <4>2
      <4>4. Summable(IfKept(Q), T) /\ IfKept(Q)[s] \in Nat /\ SumFunctionOnSet(IfKept(Q), T) \in Nat
        BY <4>2, <4>3, IfKeptTyped
      <4>5. SumFunctionOnSet(IfKept(Q), T \union {s}) = SumFunctionOnSet(IfKept(Q), T) + IfKept(Q)[s]
        BY <4>3, <4>4, SumAdd
      <4>6. IfKept(Q)[s] <= cached[s]
        BY <3>1, <4>2, ChargedEnough
      <4>7. SumFunctionOnSet(IfKept(Q), Sessions \ unread'[k]) <= sum'[k]
        BY <3>4, <4>1, <4>2, <4>3, <4>4, <4>5, <4>6
      <4> QED BY <2>4, <3>2, <4>7 DEF Fits
    <3> QED BY <3>1, <3>3, <3>4 DEF Fits
  <2>5. k \in Q => ~IsKept(k) /\ ~NoMore(k)
    BY DEF IsKept, NoMore
  <2> QED BY <1>1, <2>1, <2>2, <2>3, <2>4, <2>5
<1> QED BY <1>6, <1>7, <1>8 DEF QuotasKept

-----------------------------------------------------------------------------
(* The invariant in full, and what it shows. *)

\* Only what a quota admits, a tool leaves within the bound, or was held before is ever held.
LEMMA BoundedStep ==
    ASSUME IInv, Bounded, NEW k \in Calls, CallStep(k), UNCHANGED reloads
    PROVE  Bounded'
<1>0. /\ S(k) \in Sessions /\ 0 \in Held /\ Held \subseteq Nat /\ FileSizes \subseteq Held
      /\ PerSession \in Held
      /\ \A n \in Held : 0..n \subseteq Held
  BY QuotasAssumption DEF S, Held
<1> USE <1>0 DEF Bounded, Go, bookkeeping, reservations, loading, totalling
<1>1. CASE StartCall(k) \/ ToolReturns(k) \/ ToolDoesNotFinish(k) \/ FileTooLarge(k, "tool", "enforce")
  BY <1>1 DEF StartCall, ToolReturns, ToolDoesNotFinish, FileTooLarge
<1>2. CASE ToolChanges(k)
  BY <1>2 DEF ToolChanges, Held
<1>3. CASE AdmitFile(k, "tool", "admit") \/ AdmitFile(k, "load", "reloadAdmit") \/ LoadUnchecked(k)
  <2>1. PICK n \in FileSizes, r \in 0..held[S(k)] : Load(k, n, r)
    BY <1>3 DEF AdmitFile, LoadUnchecked
  <2>2. n \in Held /\ r \in Held
    OBVIOUS
  <2>3. UNCHANGED <<held, cached, snapshot, excused>>
    BY <1>3 DEF AdmitFile, LoadUnchecked
  <2> QED BY <2>1, <2>2, <2>3 DEF Load
<1>4. CASE \/ FileAdmitted(k) \/ FileRefused(k, "admit", "enforce") \/ FileRefused(k, "reloadAdmit", "dropFile")
           \/ DropGuard(k, "unfinished", "refresh") \/ DropGuard(k, "checked", "release")
           \/ DropGuard(k, "dropFile", "fileDone")
  <2>1. Load(k, 0, 0) /\ UNCHANGED <<held, cached, snapshot, excused>>
    BY <1>4 DEF FileAdmitted, FileRefused, DropGuard
  <2> QED BY <2>1 DEF Load
<1>5. CASE RefreshAfterCall(k)
  <2>1. excused' \in BOOLEAN
    BY <1>5, Zenon DEF RefreshAfterCall
  <2> QED BY <1>5, <2>1 DEF RefreshAfterCall
<1>6. CASE EnforceUnchanged(k) \/ EnforceCharge(k) \/ EnforceTotal(k)
  <2>1. /\ UNCHANGED <<held, snapshot, adding, rest, excused>>
        /\ UNCHANGED cached \/ cached' = [cached EXCEPT ![S(k)] = held[S(k)]]
    BY <1>6 DEF EnforceUnchanged, EnforceCharge, EnforceTotal
  <2> QED BY <2>1
<1>7. CASE RestoreState(k) \/ RefreshRestored(k) \/ Release(k)
  BY <1>7 DEF RestoreState, RefreshRestored, Release
<1>8. CASE StartReload(k) \/ LoadAdmitted(k) \/ LoadFails(k) \/ ReadOthers(k)
  BY <1>8 DEF StartReload, LoadAdmitted, LoadFails, ReadOthers
<1>9. CASE InsertReloaded(k)
  <2>1. \/ UNCHANGED held
        \/ /\ rest[k] + adding[k] <= PerSession
           /\ held' = [held EXCEPT ![S(k)] = rest[k] + adding[k]]
    BY <1>9 DEF InsertReloaded
  <2>2. UNCHANGED <<cached, snapshot, adding, rest, excused>>
    BY <1>9 DEF InsertReloaded
  <2>3. rest[k] + adding[k] <= PerSession => rest[k] + adding[k] \in Held
    BY QuotasAssumption DEF Held
  <2> QED BY <2>1, <2>2, <2>3
<1>10. CASE RefreshInserted(k) \/ NextFile(k) \/ EndReload(k) \/ AddToTotal(k)
  BY <1>10 DEF RefreshInserted, NextFile, EndReload, AddToTotal
<1> QED BY <1>1, <1>2, <1>3, <1>4, <1>5, <1>6, <1>7, <1>8, <1>9, <1>10 DEF CallStep, ToolCall, Reload

\* At first nothing is held, charged or reserved.
LEMMA InitQuotaInv ==
    ASSUME Init
    PROVE  QuotaInv
<1>1. IInv
  BY InitIInv
<1>2. Totals
  BY <1>1 DEF Init, Totals, Charges, ReloadSteps
<1>3. Deciding = {} /\ Comparing = {}
  BY DEF Init, Deciding, Comparing
<1>4. \A x \in Calls : mine[x] = 0 /\ AdmittedOf[x] = 0
  BY DEF Init, AdmittedOf, Admitted
<1>5. \A s \in Sessions : IfKept({})[s] = 0
  BY DEF Init, IfKept, Settled, Running, Undecided
<1>6. /\ SumFunctionOnSet(mine, Calls) = 0 /\ AdmittedBytes = 0
      /\ SumFunctionOnSet(IfKept({}), Sessions) = 0
  <2>1. Summable(mine, Calls) /\ Summable(AdmittedOf, Calls) /\ Summable(IfKept({}), Sessions)
    BY <1>4, <1>5, QuotasAssumption DEF Summable
  <2> QED BY <1>4, <1>5, <2>1, SumZero DEF AdmittedBytes
<1>7. Reservations
  <2>1. SumFunctionOnSet(adding, {}) = 0
    BY SumEmpty
  <2>2. \A Q \in SUBSET Deciding : Decoding(Q) <= Total
    <3> SUFFICES Decoding({}) <= Total
      BY <1>3
    <3> QED BY <1>6, <2>1, QuotasAssumption DEF Decoding
  <2> QED BY <1>3, <1>6, <2>2 DEF Reservations, ReservationsBalance, Init
<1>8. Quotas
  <2>1. \A Q \in SUBSET Comparing : Fits(Q)
    BY <1>3, <1>6, QuotasAssumption DEF Fits
  <2>2. \A s \in Sessions : Settled[s] <= PerSession
    BY QuotasAssumption DEF Init, Settled, Running, Undecided
  <2> QED BY <1>3, <2>1, <2>2 DEF Quotas, QuotasKept
<1>9. Bounded
  <2>1. 0 \in Held
    BY QuotasAssumption DEF Held
  <2>2. reloads \subseteq Calls
    BY QuotasAssumption, Zenon DEF Init
  <2>3. excused \in BOOLEAN
    BY Zenon DEF Init
  <2> QED BY <2>1, <2>2, <2>3 DEF Init, Bounded
<1> QED BY <1>1, <1>2, <1>7, <1>8, <1>9 DEF QuotaInv

\* No step breaks the invariant: one step below per part.
LEMMA NextQuotaInv ==
    ASSUME QuotaInv, [Next]_vars
    PROVE  QuotaInv'
<1>0. IInv /\ Totals /\ Reservations /\ Quotas /\ Bounded
  BY DEF QuotaInv
<1>1. IInv' /\ Totals'
  BY <1>0, NextIInv, TotalsStep
<1>2. CASE UNCHANGED vars
  <2>1. Reservations'
    BY <1>0, <1>2 DEF vars, Reservations, ReservationsBalance, Deciding, Decoding, AdmittedBytes,
                      AdmittedOf, Admitted
  <2>2. Quotas'
    <3>1. Settled' = Settled /\ Comparing' = Comparing
      BY <1>2 DEF vars, Settled, Running, Comparing, S
    <3>2. ASSUME NEW Q PROVE IfKept(Q)' = IfKept(Q)
      BY <1>2, <3>1 DEF vars, IfKept, S
    <3>3. ASSUME NEW Q, Fits(Q) PROVE Fits(Q)'
      BY <1>2, <3>2, <3>3 DEF vars, Fits
    <3> QED BY <1>0, <1>2, <3>1, <3>3 DEF vars, Quotas, QuotasKept, S
  <2>3. Bounded'
    BY <1>0, <1>2 DEF vars, Bounded
  <2> QED BY <1>1, <2>1, <2>2, <2>3 DEF QuotaInv
<1>3. CASE Next
  <2>1. PICK k \in Calls : CallStep(k)
    BY <1>3 DEF Next, CallStep
  <2>2. UNCHANGED reloads
    BY <1>3 DEF Next
  <2>3. Reservations'
    BY <1>0, <1>1, <2>1, ReservationSteps, ReservationsStep
  <2>4. excused => excused'
    <3>1. CASE RefreshAfterCall(k)
      BY <3>1, Zenon DEF RefreshAfterCall
    <3>2. CASE ~RefreshAfterCall(k)
      <4>1. excused' = excused
        BY <2>1, <3>2 DEF CallStep, ToolCall, Reload, StartCall, ToolChanges, ToolReturns,
           ToolDoesNotFinish, AdmitFile, FileTooLarge, FileAdmitted, FileRefused, DropGuard,
           EnforceUnchanged, EnforceCharge, EnforceTotal, RestoreState, RefreshRestored,
           StartReload, LoadUnchecked, LoadAdmitted, LoadFails, ReadOthers, InsertReloaded,
           RefreshInserted, NextFile, EndReload, AddToTotal, Release
      <4> QED BY <4>1
    <3> QED BY <3>1, <3>2
  <2>5. Quotas'
    BY <1>0, <1>1, <2>1, <2>2, <2>4, QuotasStep DEF Quotas
  <2> QED BY <1>0, <1>1, <2>1, <2>2, <2>3, <2>5, BoundedStep DEF QuotaInv
<1> QED BY <1>2, <1>3

\* The charges, the sums under way and the reservations agree in every behaviour.
THEOREM QuotasInductive == Spec => []QuotaInv
BY InitQuotaInv, NextQuotaInv, PTL DEF Spec

\* Charges, sums and reservations are natural numbers and no charge passes its bound.
THEOREM QuotasTypeCorrect == Spec => []TypeOK
<1>1. QuotaInv => TypeOK
  <2> SUFFICES ASSUME QuotaInv PROVE TypeOK
    OBVIOUS
  <2>1. reserved \in Nat
    BY ReservedIs DEF QuotaInv
  <2> QED BY <2>1 DEF QuotaInv, IInv, Typed, Totals, Reservations, Bounded, Held, TypeOK
<1> QED BY <1>1, QuotasInductive, PTL

\* What is reserved is what the calls under way hold of it: refused, finished, panicked or
\* expired, a call gives back exactly what it reserved (session.rs, `DatasetAdmission`).
THEOREM NothingReservedLeaks == Spec => []ReservationsBalance
<1>1. QuotaInv => ReservationsBalance
  BY DEF QuotaInv, Reservations
<1> QED BY <1>1, QuotasInductive, PTL

\* However the checks of files that are loaded at once interleave, those admitted do not
\* together pass the total: the last of any of them to have reserved saw all the others
\* (session.rs, `check_charge`).
THEOREM AdmittedFilesFit == Spec => []DecodingFits
<1>1. QuotaInv => DecodingFits
  <2> SUFFICES ASSUME QuotaInv PROVE DecodingFits
    OBVIOUS
  <2>1. Decoding({}) <= Total
    BY DEF QuotaInv, Reservations
  <2>2. SumFunctionOnSet(adding, {}) = 0
    BY SumEmpty
  <2>3. AdmittedBytes \in Nat
    BY ReservedIs, SumType DEF QuotaInv, AdmittedBytes
  <2>4. AdmittedBytes <= Total
    BY <2>1, <2>2, <2>3 DEF Decoding
  <2>5. SumFunction([k \in Calls |-> Admitted(k)]) = AdmittedBytes
    BY DEF SumFunction, AdmittedBytes, AdmittedOf
  <2> QED BY <2>4, <2>5 DEF DecodingFits
<1> QED BY <1>1, QuotasInductive, PTL

\* Tool calls alone keep the session quota and the total, whichever end together: each stores
\* its charge before it adds up the others', so the last to start sees all (exec.rs,
\* `Quotas::enforce`).
THEOREM ToolCallsKeepQuotas == Spec => []ToolCallsWithinQuotas
<1>1. QuotaInv => ToolCallsWithinQuotas
  <2> SUFFICES ASSUME QuotaInv, reloads = {}, ~excused
               PROVE  /\ \A s \in Sessions \ busy : held[s] <= PerSession
                      /\ SumFunctionOnSet(held, Sessions \ busy) <= Total
    BY DEF ToolCallsWithinQuotas, WithinQuotas
  <2>0. IInv /\ Totals /\ QuotasKept
    BY DEF QuotaInv, Quotas
  <2>1. \A s \in Sessions \ busy : IfKept({})[s] = held[s] /\ Settled[s] = held[s] /\ held[s] \in Nat
    <3>1. \A s \in Sessions \ busy : Running(s) = {}
      BY <2>0 DEF IInv, Own, Running, Undecided
    <3> QED BY <2>0, <3>1 DEF IfKept, Settled, IInv, Typed
  <2>2. SumFunctionOnSet(IfKept({}), Sessions) <= Total
    <3>1. Fits({})
      BY <2>0 DEF QuotasKept
    <3> QED BY <3>1 DEF Fits
  <2>3. SumFunctionOnSet(held, Sessions \ busy) <= SumFunctionOnSet(IfKept({}), Sessions)
    <3>1. Summable(IfKept({}), Sessions) /\ Sessions \ busy \subseteq Sessions
      BY <2>0, IfKeptTyped
    <3>2. \A s \in Sessions \ busy : held[s] \in Nat /\ held[s] <= IfKept({})[s]
      BY <2>1
    <3> QED BY <3>1, <3>2, SumLess
  <2>4. /\ SumFunctionOnSet(IfKept({}), Sessions) \in Nat
        /\ SumFunctionOnSet(held, Sessions \ busy) \in Nat
    <3>1. Summable(held, Sessions \ busy)
      BY <2>1, FS_Difference, QuotasAssumption DEF Summable
    <3> QED BY <2>0, <3>1, IfKeptTyped, SumType
  <2> QED BY <2>0, <2>1, <2>2, <2>3, <2>4, QuotasAssumption DEF QuotasKept
<1> QED BY <1>1, QuotasInductive, PTL
=============================================================================
