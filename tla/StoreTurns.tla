------------------------------- MODULE StoreTurns -------------------------------
(***************************************************************************)
(* The stored conversations of one session (crates/p2a-mcp/src/db/):       *)
(* calls that create, rename, delete and clear conversations, add and      *)
(* rewrite messages and store the texts of their tool calls take turns     *)
(* (`StoreTurn`), count what they store in a counter in memory             *)
(* (`session_db_bytes`), and keep a count beside the rows.                 *)
(*                                                                         *)
(* A caller that is dropped leaves the queue of its turn; once it has the  *)
(* turn, a task of its own runs the call to its end (`run_to_end`). Every  *)
(* statement sent to the store is a step and may fail. Identifiers may be  *)
(* used again once nothing refers to them, so that they stand for fresh    *)
(* ones.                                                                   *)
(***************************************************************************)
EXTENDS Naturals, Sequences, SequencesExt, FiniteSets, Functions

CONSTANTS
    Callers,      \* calls under way at once
    Convs,        \* conversation ids
    Msgs,         \* message ids
    Sizes,        \* bytes of the contents clients send
    TitleBytes,   \* bytes of a new conversation's title
    TitleSizes,   \* and of the titles it is renamed to
    Limit,        \* session_db_bytes
    MaxConvs,     \* conversations_per_session
    MaxMessages,  \* messages_per_conversation
    MaxFaults,    \* bound on failed statements and restarts together
    None          \* no row, no value

ASSUME StoreAssumption ==
    /\ IsFiniteSet(Callers) /\ IsFiniteSet(Convs) /\ IsFiniteSet(Msgs)
    /\ Sizes \subseteq Nat /\ TitleBytes \in Nat /\ TitleSizes \subseteq Nat
    /\ Limit \in Nat /\ MaxConvs \in Nat /\ MaxMessages \in Nat /\ MaxFaults \in Nat
    /\ None \notin Nat \union Convs \union Msgs
    /\ None \notin [conv : Convs, bytes : Nat, tools : Nat]

VARIABLES
    title,    \* the store: the bytes of each conversation's title, or None
    message,  \* each message's conversation and bytes, and those of its tool calls, or None
    shown,    \* each conversation's message_count
    used,     \* the session's byte counter, or None before it is seeded
    turn,     \* the calls that hold or await each turn, the holder first
    call,     \* what each call does, and what it read
    faults    \* failed statements and restarts so far

vars == <<title, message, shown, used, turn, call, faults>>
rows == <<title, message, shown>>

SessionTurn == "session"
Keys == Convs \union {SessionTurn}
Idle == [op |-> "none", at |-> "idle", conv |-> None, msg |-> None, bytes |-> 0,
         freed |-> 0, unread |-> {}, seed |-> None]

Init ==
    /\ title = [v \in Convs |-> None]
    /\ message = [m \in Msgs |-> None]
    /\ shown = [v \in Convs |-> 0]
    /\ used = None
    /\ turn = [k \in Keys |-> <<>>]
    /\ call = [c \in Callers |-> Idle]
    /\ faults = 0

-----------------------------------------------------------------------------
\* The rows.

Conversations == {v \in Convs : title[v] # None}
MessagesOf(v) == {m \in Msgs : message[m] # None /\ message[m].conv = v}
TitleSize == [v \in Convs |-> IF title[v] = None THEN 0 ELSE title[v]]
TextSize == [m \in Msgs |-> IF message[m] = None THEN 0 ELSE message[m].bytes + message[m].tools]
TitlesBytes == SumFunctionOnSet(TitleSize, Convs)
TextBytes(v) == SumFunctionOnSet(TextSize, MessagesOf(v))
StoredBytes == TitlesBytes + SumFunctionOnSet(TextSize, Msgs)

\* Ids no row and no call has, as good as new.
FreshConvs == {v \in Convs : title[v] = None /\ MessagesOf(v) = {}
                                /\ \A c \in Callers : call[c].conv # v}
FreshMsgs == {m \in Msgs : message[m] = None /\ \A c \in Callers : call[c].msg # m}

Less(n, k) == IF k > n THEN 0 ELSE n - k
Least(n, k) == IF n < k THEN n ELSE k

-----------------------------------------------------------------------------
\* Turns.

Key(c) == IF call[c].op = "create" THEN SessionTurn ELSE call[c].conv
HasTurn(c) == turn[Key(c)] # <<>> /\ Head(turn[Key(c)]) = c
At(c, step) == call[c].at = step
To(c, step) == call' = [call EXCEPT ![c].at = step]

\* The call is over: the next one's turn starts.
End(c) ==
    /\ call' = [call EXCEPT ![c] = Idle]
    /\ turn' = [turn EXCEPT ![Key(c)] = RemoveFirst(@, c)]

Ask(c, op, v, m, n, key) ==
    /\ At(c, "idle")
    /\ call' = [call EXCEPT ![c] = [Idle EXCEPT !.op = op, !.at = "turn", !.conv = v,
                                                !.msg = m, !.bytes = n]]
    /\ turn' = [turn EXCEPT ![key] = Append(@, c)]
    /\ UNCHANGED <<rows, used, faults>>

\* A call names a conversation that is there when it asks; a call for one that is not ends
\* as one does that waited while it was deleted.
AskCreate(c) == \E v \in FreshConvs : Ask(c, "create", v, None, TitleBytes, SessionTurn)
AskAdd(c) == \E v \in Conversations, m \in FreshMsgs, n \in Sizes : Ask(c, "add", v, m, n, v)
AskErase(c) == \E v \in Conversations, op \in {"clear", "delete"} : Ask(c, op, v, None, 0, v)

\* update_message_content learns the conversation before the turn it waits for.
AskUpdate(c) ==
    \E m \in Msgs, n \in Sizes :
        /\ message[m] # None
        /\ Ask(c, "update", message[m].conv, m, n, message[m].conv)

AskTitle(c) == \E v \in Conversations, n \in TitleSizes : Ask(c, "title", v, None, n, v)

\* A tool call is stored, and given its result, for a message that was stored.
AskTool(c) ==
    \E m \in Msgs, n \in Sizes :
        /\ message[m] # None
        /\ Ask(c, "tool", message[m].conv, m, n, message[m].conv)

\* [mutant] A caller dropped while it waits stays queued.
LeaveQueued(c) ==
    /\ At(c, "turn")
    /\ call' = [call EXCEPT ![c] = Idle]
    /\ UNCHANGED <<rows, used, turn, faults>>

\* [mutant] The turn of a call that runs ends with its caller as well.
LeaveRunning(c) ==
    /\ ~At(c, "idle")
    /\ turn' = [turn EXCEPT ![Key(c)] = RemoveFirst(@, c)]
    /\ call' = IF At(c, "turn") THEN [call EXCEPT ![c] = Idle] ELSE call
    /\ UNCHANGED <<rows, used, faults>>

\* A caller dropped while it waits leaves the queue.
Leave(c) ==
    /\ At(c, "turn")
    /\ End(c)
    /\ UNCHANGED <<rows, used, faults>>

Starts(c, op) == At(c, "turn") /\ call[c].op = op /\ HasTurn(c)

-----------------------------------------------------------------------------
\* The byte counter: seeded from the rows, read one conversation at a time without a lock,
\* unless another call has seeded it in the meantime.

Counting(c) == At(c, "reserve") \/ At(c, "fit")

SeedTitles(c) ==
    /\ Counting(c) /\ used = None /\ call[c].seed = None
    /\ call' = [call EXCEPT ![c].seed = TitlesBytes, ![c].unread = Conversations]
    /\ UNCHANGED <<rows, used, turn, faults>>

SeedTexts(c) ==
    /\ Counting(c)
    /\ \E v \in call[c].unread :
        call' = [call EXCEPT ![c].seed = @ + TextBytes(v), ![c].unread = @ \ {v}]
    /\ UNCHANGED <<rows, used, turn, faults>>

CounterReady(c) ==
    /\ call[c].unread = {}
    /\ used # None \/ call[c].seed # None
Counter(c) == IF used = None THEN call[c].seed ELSE used

\* reserve_session_bytes: checked and counted under one lock, or refused.
Reserve(c) ==
    /\ At(c, "reserve") /\ CounterReady(c)
    /\ IF Counter(c) + call[c].bytes > Limit
         THEN used' = Counter(c) /\ End(c)
         ELSE /\ used' = Counter(c) + call[c].bytes
              /\ To(c, "write") /\ UNCHANGED turn
    /\ UNCHANGED <<rows, faults>>

\* fit_session_texts: cut to the room left and to what it replaces, never refused.
Fit(c) ==
    /\ At(c, "fit") /\ CounterReady(c)
    /\ LET n == Least(call[c].bytes, Less(Limit, Counter(c)) + call[c].freed) IN
         /\ used' = Counter(c) + n
         /\ call' = [call EXCEPT ![c].at = "rewrite", ![c].bytes = n]
    /\ UNCHANGED <<rows, turn, faults>>

Released(c) == IF used = None THEN None ELSE Less(used, call[c].freed)

-----------------------------------------------------------------------------
\* create_conversation

CountConversations(c) ==
    /\ Starts(c, "create")
    /\ IF Cardinality(Conversations) >= MaxConvs
         THEN End(c)
         ELSE To(c, "reserve") /\ UNCHANGED turn
    /\ UNCHANGED <<rows, used, faults>>

WriteConversation(c) ==
    /\ At(c, "write") /\ call[c].op = "create"
    /\ title' = [title EXCEPT ![call[c].conv] = call[c].bytes]
    /\ shown' = [shown EXCEPT ![call[c].conv] = 0]
    /\ End(c)
    /\ UNCHANGED <<message, used, faults>>

-----------------------------------------------------------------------------
\* store_message: admit_message, the row, update_conversation_after_message

FindConversation(c) ==
    /\ Starts(c, "add")
    /\ IF call[c].conv \in Conversations
         THEN To(c, "count") /\ UNCHANGED turn
         ELSE End(c)
    /\ UNCHANGED <<rows, used, faults>>

CountMessages(c) ==
    /\ At(c, "count")
    /\ LET v == call[c].conv
           n == Cardinality(MessagesOf(v)) IN
         IF n >= MaxMessages
           THEN shown' = [shown EXCEPT ![v] = n] /\ End(c)
           ELSE To(c, "reserve") /\ UNCHANGED <<shown, turn>>
    /\ UNCHANGED <<title, message, used, faults>>

WriteMessage(c) ==
    /\ At(c, "write") /\ call[c].op = "add"
    /\ message' = [message EXCEPT ![call[c].msg] =
                     [conv |-> call[c].conv, bytes |-> call[c].bytes, tools |-> 0]]
    /\ To(c, "recount")
    /\ UNCHANGED <<title, shown, used, turn, faults>>

\* What a rewrite replaced is released, then the rows are counted and the count written.
Recount(c) ==
    /\ At(c, "recount")
    /\ used' = Released(c)
    /\ call' = [call EXCEPT ![c].at = "show", ![c].freed = 0,
                            ![c].bytes = Cardinality(MessagesOf(call[c].conv))]
    /\ UNCHANGED <<rows, turn, faults>>

ShowCount(c) ==
    /\ At(c, "show")
    /\ shown' = [shown EXCEPT ![call[c].conv] =
                   IF call[c].conv \in Conversations THEN call[c].bytes ELSE @]
    /\ End(c)
    /\ UNCHANGED <<title, message, used, faults>>

-----------------------------------------------------------------------------
\* update_message_content

FindMessage(c) ==
    /\ Starts(c, "update")
    /\ LET m == call[c].msg IN
         IF message[m] # None /\ call[c].conv \in Conversations
           THEN /\ call' = [call EXCEPT ![c].at = "fit", ![c].freed = message[m].bytes]
                /\ UNCHANGED turn
           ELSE End(c)
    /\ UNCHANGED <<rows, used, faults>>

Rewrite(c) ==
    /\ At(c, "rewrite") /\ call[c].op = "update"
    /\ LET m == call[c].msg IN
         IF message[m] # None
           THEN /\ message' = [message EXCEPT ![m].bytes = call[c].bytes]
                /\ To(c, "recount") /\ UNCHANGED turn
           ELSE End(c) /\ UNCHANGED message
    /\ UNCHANGED <<title, shown, used, faults>>

-----------------------------------------------------------------------------
\* update_conversation_title: what a longer title adds is counted before it is written, what
\* a shorter one frees is released after.

FindTitle(c) ==
    /\ Starts(c, "title")
    /\ LET v == call[c].conv IN
         IF v \in Conversations
           THEN /\ call' = [call EXCEPT ![c].at = "reserve",
                                        ![c].bytes = Less(@, title[v]),
                                        ![c].freed = Less(title[v], call[c].bytes)]
                /\ UNCHANGED turn
           ELSE End(c)
    /\ UNCHANGED <<rows, used, faults>>

WriteTitle(c) ==
    /\ At(c, "write") /\ call[c].op = "title"
    /\ LET v == call[c].conv IN
         IF v \in Conversations
           THEN /\ title' = [title EXCEPT ![v] = @ + call[c].bytes - call[c].freed]
                /\ To(c, "release") /\ UNCHANGED turn
           ELSE End(c) /\ UNCHANGED title
    /\ UNCHANGED <<message, shown, used, faults>>

-----------------------------------------------------------------------------
\* create_tool_call, update_tool_call and change_tool_call_status: the texts, cut to fit, are
\* new or replace those of a stored tool call of the message (any part of what it stores).

FindTool(c) ==
    /\ Starts(c, "tool")
    /\ LET m == call[c].msg IN
         IF message[m] # None /\ call[c].conv \in Conversations
           THEN /\ \E n \in 0..message[m].tools :
                       call' = [call EXCEPT ![c].at = "fit", ![c].freed = n]
                /\ UNCHANGED turn
           ELSE End(c)
    /\ UNCHANGED <<rows, used, faults>>

WriteTool(c) ==
    /\ At(c, "rewrite") /\ call[c].op = "tool"
    /\ LET m == call[c].msg IN
         IF message[m] # None
           THEN /\ message' = [message EXCEPT ![m].tools = @ + call[c].bytes - call[c].freed]
                /\ To(c, "release") /\ UNCHANGED turn
           ELSE End(c) /\ UNCHANGED message
    /\ UNCHANGED <<title, shown, used, faults>>

-----------------------------------------------------------------------------
\* delete_conversation and clear_messages: what one transaction removes is released if the
\* counter was seeded before it.

\* [mutant] Released whether or not the counter was seeded.
FindOwnerAnyway(c) ==
    /\ Starts(c, "clear") \/ Starts(c, "delete")
    /\ To(c, "erase")
    /\ UNCHANGED <<rows, used, turn, faults>>

\* (`freed` is None when nothing is to be released.)
FindOwner(c) ==
    /\ Starts(c, "clear") \/ Starts(c, "delete")
    /\ call' = [call EXCEPT ![c].at = "erase", ![c].freed =
                  IF call[c].conv \in Conversations /\ used # None THEN 0 ELSE None]
    /\ UNCHANGED <<rows, used, turn, faults>>

Erase(c) ==
    /\ At(c, "erase")
    /\ LET v == call[c].conv
           whole == call[c].op = "delete"
           n == TextBytes(v) + IF whole /\ v \in Conversations THEN title[v] ELSE 0 IN
         /\ message' = [m \in Msgs |-> IF m \in MessagesOf(v) THEN None ELSE message[m]]
         /\ title' = [title EXCEPT ![v] = IF whole THEN None ELSE @]
         /\ shown' = [shown EXCEPT ![v] = 0]
         /\ call' = [call EXCEPT ![c].at = "release",
                                 ![c].freed = IF @ = None THEN 0 ELSE n]
    /\ UNCHANGED <<used, turn, faults>>

Release(c) ==
    /\ At(c, "release")
    /\ used' = Released(c)
    /\ End(c)
    /\ UNCHANGED <<rows, faults>>

-----------------------------------------------------------------------------
\* A statement fails, or memory pressure refuses an add that has its turn: the call returns
\* with what it counted still counted. A seeded counter and `Release` send no statement.
Asking(c) ==
    /\ call[c].at \notin {"idle", "release"} /\ HasTurn(c)
    /\ Counting(c) => ~CounterReady(c)

\* [mutant] An early return that keeps the turn.
FailKeepingTurn(c) ==
    /\ Asking(c)
    /\ faults < MaxFaults
    /\ faults' = faults + 1
    /\ used' = IF At(c, "recount") THEN Released(c) ELSE used
    /\ call' = [call EXCEPT ![c] = Idle]
    /\ UNCHANGED <<rows, turn>>

Fail(c) ==
    /\ Asking(c)
    /\ faults < MaxFaults
    /\ faults' = faults + 1
    /\ used' = IF At(c, "recount") THEN Released(c) ELSE used
    /\ End(c)
    /\ UNCHANGED rows

\* Only the rows survive a restart.
Restart ==
    /\ faults < MaxFaults
    /\ faults' = faults + 1
    /\ used' = None
    /\ turn' = [k \in Keys |-> <<>>]
    /\ call' = [c \in Callers |-> Idle]
    /\ UNCHANGED rows

Run(c) ==
    \/ SeedTitles(c) \/ SeedTexts(c) \/ Reserve(c) \/ Fit(c)
    \/ CountConversations(c) \/ WriteConversation(c)
    \/ FindConversation(c) \/ CountMessages(c) \/ WriteMessage(c) \/ Recount(c) \/ ShowCount(c)
    \/ FindMessage(c) \/ Rewrite(c)
    \/ FindTitle(c) \/ WriteTitle(c) \/ FindTool(c) \/ WriteTool(c)
    \/ FindOwner(c) \/ Erase(c) \/ Release(c)

Next ==
    \/ \E c \in Callers :
        \/ AskCreate(c) \/ AskAdd(c) \/ AskErase(c) \/ AskUpdate(c) \/ AskTitle(c) \/ AskTool(c)
        \/ Leave(c) \/ Run(c) \/ Fail(c)
    \/ Restart

\* The runtime polls every task and the store answers, whatever callers do.
Fairness == \A c \in Callers : WF_vars(Run(c))

Spec == Init /\ [][Next]_vars /\ Fairness

-----------------------------------------------------------------------------
(* What the store promises. *)

Bytes == 0..(Limit + Cardinality(Callers) * Limit + MaxFaults * Limit)
Steps == {"idle", "turn", "reserve", "fit", "write", "rewrite", "count", "recount", "show",
          "erase", "release"}

\* Types, and the turns: a call that changes rows holds its turn alone, a call that is over or
\* was dropped while it waited is in no queue.
TypeOK ==
    /\ title \in [Convs -> {TitleBytes, None} \union TitleSizes]
    /\ message \in [Msgs -> [conv : Convs, bytes : 0..Limit, tools : 0..Limit] \union {None}]
    /\ shown \in [Convs -> 0..Cardinality(Msgs)]
    /\ used \in Bytes \union {None}
    /\ faults \in 0..MaxFaults
    /\ \A c \in Callers :
        /\ call[c].op \in {"none", "create", "add", "update", "title", "tool", "clear", "delete"}
        /\ call[c].at \in Steps
        /\ call[c].conv \in Convs \union {None} /\ call[c].msg \in Msgs \union {None}
        /\ call[c].unread \subseteq Convs /\ call[c].seed \in Nat \union {None}
        /\ call[c].at \notin {"idle", "turn"} => HasTurn(c)
        /\ \A k \in Keys :
            c \in ToSet(turn[k]) <=> ~At(c, "idle") /\ k = Key(c)
    /\ \A k \in Keys : IsInjective(turn[k])

\* What a call has counted and not yet written.
Promised(c) ==
    CASE At(c, "write") -> call[c].bytes
      [] At(c, "rewrite") -> call[c].bytes
      [] OTHER -> 0

\* A session never stores more than session_db_bytes, although what is counted and what is
\* stored change at different times, calls are dropped, statements fail, and the counter is
\* seeded while others write: it never counts less than the rows and the writes under way.
BudgetKept ==
    /\ StoredBytes <= Limit
    /\ used # None => used >= StoredBytes + SumFunctionOnSet([c \in Callers |-> Promised(c)], Callers)

\* Calls cannot pass conversations_per_session or messages_per_conversation together, no
\* message outlives its conversation, and where nothing failed the message_count of a
\* conversation whose turn is free is the number of its rows.
CapsKept ==
    /\ Cardinality(Conversations) <= MaxConvs
    /\ \A v \in Convs : Cardinality(MessagesOf(v)) <= MaxMessages
    /\ \A v \in Convs \ Conversations : MessagesOf(v) = {}
    /\ faults = 0 =>
        \A v \in Conversations : turn[v] = <<>> => shown[v] = Cardinality(MessagesOf(v))

\* Every call gets its turn and ends: no call, dropped or failed, keeps a turn.
EveryCallEnds == \A c \in Callers : ~At(c, "idle") ~> At(c, "idle")
=============================================================================
