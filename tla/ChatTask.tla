-------------------------------- MODULE ChatTask --------------------------------
(***************************************************************************)
(* A streamed chat (crates/p2a-mcp/src/transport/llm_routes.rs): the task  *)
(* that runs it for as long as its client listens, the session its tool    *)
(* calls look up again, the rows it keeps of its answer and of its tool    *)
(* calls, and what closes them when the client goes first                  *)
(* (`run_chat_task`, `stop_unfinished_chat`). What it tells its client     *)
(* goes through a bounded channel, for which it waits when it is full; a   *)
(* client that stays and does not read keeps it waiting.                   *)
(*                                                                         *)
(* Writes wait for the conversation's turn in their caller and make their  *)
(* changes in a task of their own (StoreTurns has what happens inside a    *)
(* turn; here it is one step). A dropped chat's waiting write is dropped   *)
(* with it, a write under way is not.                                      *)
(***************************************************************************)
EXTENDS Naturals, Sequences, SequencesExt, FiniteSets

CONSTANTS
    Tools,        \* tool calls the model may ask for, each once
    MaxSessions,  \* bound on the sessions that hold the id one after another
    MaxErases,    \* bound on other clients' clears and deletes
    MaxFaults,    \* bound on failed statements
    EventBound,   \* slots of the channel to the client
    None

\* The chat's writes.
Ops == {"placeholder", "create", "finish", "answer"}

\* What the constants must be; MCServices assumes it.
ChatAssumption ==
    /\ MaxSessions \in Nat \ {0} /\ MaxErases \in Nat /\ MaxFaults \in Nat
    /\ EventBound \in Nat \ {0}
    /\ None \notin Tools \union Ops \union {"empty", "running", "ended", "stopped"}
    /\ None \notin [op : Ops, tool : Tools \union {None}]

VARIABLES
    session,      \* the session in the table under the chat's id, 0 when there is none
    born,         \* sessions that have held the id so far
    conversation, \* whether the chat's conversation is stored
    message,      \* the stored assistant message
    tool,         \* the stored tool calls
    turn,         \* who holds and awaits the conversation's turn
    chat,         \* where the chat is
    task,         \* the chat's write that holds the turn, its caller gone or not
    placeholder,  \* whether the task knows the id of the message
    listening,    \* whether the client listens
    events,       \* what it was sent and has not read
    gone,         \* whether a tool call found the session gone
    stop,         \* where stop_unfinished_chat is
    erases,       \* clears and deletes so far
    faults        \* failed statements so far

vars == <<session, born, conversation, message, tool, turn, chat, task, placeholder,
          listening, events, gone, stop, erases, faults>>
client == <<listening, events>>
rows == <<conversation, message, tool>>
sessions == <<session, born>>
counts == <<erases, faults>>

Init ==
    /\ session = 1 /\ born = 1
    /\ conversation = TRUE /\ message = None /\ tool = [x \in Tools |-> None]
    /\ turn = <<>>
    /\ chat = [at |-> "start", then |-> None, op |-> None, tool |-> None, own |-> 0, on |-> 0,
               left |-> Tools]
    /\ task = None /\ placeholder = FALSE /\ listening = TRUE /\ events = 0 /\ gone = FALSE
    /\ stop = [at |-> "idle", todo |-> {}, tool |-> None]
    /\ erases = 0 /\ faults = 0

At(step) == chat.at = step
Over == [chat EXCEPT !.at = "over", !.then = None, !.op = None, !.tool = None]

-----------------------------------------------------------------------------
\* The session table and other clients.

SessionLeaves ==
    /\ session # 0 /\ session' = 0
    /\ UNCHANGED <<born, rows, turn, chat, task, placeholder, client, gone, stop, counts>>

\* A stored session is adopted: another one under the same id.
SessionAdopted ==
    /\ session = 0 /\ born < MaxSessions
    /\ born' = born + 1 /\ session' = born + 1
    /\ UNCHANGED <<rows, turn, chat, task, placeholder, client, gone, stop, counts>>

AskErase ==
    /\ erases < MaxErases /\ "other" \notin ToSet(turn)
    /\ erases' = erases + 1
    /\ turn' = Append(turn, "other")
    /\ UNCHANGED <<sessions, rows, chat, task, placeholder, client, gone, stop, faults>>

\* Tool calls, messages and, in a delete, the conversation go in one transaction.
Erase ==
    /\ turn # <<>> /\ Head(turn) = "other"
    /\ conversation' \in {conversation, FALSE}
    /\ message' = None /\ tool' = [x \in Tools |-> None]
    /\ turn' = Tail(turn)
    /\ UNCHANGED <<sessions, chat, task, placeholder, client, gone, stop, counts>>

-----------------------------------------------------------------------------
\* run_chat_stream

Continue(next) ==
    /\ chat' = next
    /\ UNCHANGED <<sessions, rows, turn, task, placeholder, client, gone, stop, counts>>

\* The chat is to tell its client something before it goes on.
Telling(next) == [next EXCEPT !.at = "send", !.then = next.at]

\* An event takes a slot of the channel while somebody listens.
Sent == events' = IF listening THEN events + 1 ELSE events

\* A send waits for a slot. When nobody listens it fails at once, and the chat goes on.
Send ==
    /\ At("send") /\ (events < EventBound \/ ~listening)
    /\ Sent
    /\ chat' = [chat EXCEPT !.at = chat.then, !.then = None]
    /\ UNCHANGED <<sessions, rows, turn, task, placeholder, listening, gone, stop, counts>>

\* The client is told that the chat starts, the session looked up, the conversation's owner
\* checked.
Start ==
    /\ At("start") /\ Sent
    /\ chat' = IF session = 0 \/ ~conversation
                 THEN Telling(Over)
                 ELSE [chat EXCEPT !.at = "ask", !.op = "placeholder", !.own = session]
    /\ UNCHANGED <<sessions, rows, turn, task, placeholder, listening, gone, stop, counts>>

\* The provider asks for a tool, or answers, or fails. The answer is stored in the placeholder.
ModelAsksTool ==
    /\ At("model")
    /\ \E x \in chat.left :
        Continue([chat EXCEPT !.at = "admit", !.tool = x, !.left = @ \ {x}])

ModelAnswers ==
    /\ At("model")
    /\ Continue(IF placeholder THEN [chat EXCEPT !.at = "ask", !.op = "answer"] ELSE Telling(Over))

\* A piece of its text is passed on when there is a slot for it; else it is dropped.
ModelStreams ==
    /\ At("model") /\ listening /\ events < EventBound
    /\ events' = events + 1
    /\ UNCHANGED <<sessions, rows, turn, chat, task, placeholder, listening, gone, stop, counts>>

\* ChatSession::live: the session under the id must be the chat's own.
LiveUnderItsId == session # 0

Live == session = chat.own

\* admit_tool_call. A refused call yields, and the chat's driver ends the chat there: nothing is
\* stored.
Admit ==
    /\ At("admit") /\ Live
    /\ Continue(Telling([chat EXCEPT !.at = IF placeholder THEN "ask" ELSE "call", !.op = "create",
                                     !.on = session]))

\* The model is sent the tool's result.
Returned == [chat EXCEPT !.at = "model", !.op = None, !.tool = None, !.on = 0]

\* refuse_unless_callable: a tool the assistant may not call.
NotCallable == At("admit") /\ Live /\ Continue(Returned)

Refuse ==
    /\ At("admit") /\ ~Live
    /\ gone' = TRUE
    /\ chat' = [chat EXCEPT !.at = "refused"]
    /\ UNCHANGED <<sessions, rows, turn, task, placeholder, client, stop, counts>>

EndGone == At("refused") /\ Continue(Telling(Over))

\* The governed call ends. The client is told, and its row, if there is one, gets its result.
\* (`op` tells whether create_tool_call stored one.)
CallEnds ==
    /\ At("call")
    /\ Continue(Telling([chat EXCEPT !.at = IF placeholder /\ chat.op = "finish" THEN "ask"
                                                                              ELSE "result"]))

\* A result's images are sent to the client.
Return ==
    /\ At("result")
    /\ \E images \in BOOLEAN : Continue(IF images THEN Telling(Returned) ELSE Returned)

-----------------------------------------------------------------------------
\* The chat's writes: the row they are about is read first, then they wait for their turn.

Found(op) ==
    CASE op = "answer" -> message # None
      [] op = "finish" -> tool[chat.tool] # None
      [] OTHER -> TRUE

\* What follows a write that succeeded or failed.
After(op, ok) ==
    CASE op = "placeholder" -> Telling([chat EXCEPT !.at = "model", !.op = None])
      [] op = "create" -> [chat EXCEPT !.at = "call", !.op = IF ok THEN "finish" ELSE None]
      [] op = "finish" -> [chat EXCEPT !.at = "result", !.op = None]
      [] op = "answer" -> Telling(Over)

AskTurn ==
    /\ At("ask")
    /\ IF Found(chat.op)
         THEN /\ chat' = [chat EXCEPT !.at = "wait"]
              /\ turn' = Append(turn, "chat")
         ELSE chat' = After(chat.op, FALSE) /\ UNCHANGED turn
    /\ UNCHANGED <<sessions, rows, task, placeholder, client, gone, stop, counts>>

TakeTurn ==
    /\ At("wait") /\ Head(turn) = "chat"
    /\ chat' = [chat EXCEPT !.at = "write"]
    /\ task' = [op |-> chat.op, tool |-> chat.tool]
    /\ UNCHANGED <<sessions, rows, turn, placeholder, client, gone, stop, counts>>

\* The conversation and message a new row belongs to must be there, and so must the row that
\* is rewritten.
CanWrite ==
    CASE task.op = "placeholder" -> conversation
      [] task.op = "create" -> conversation /\ message # None
      [] task.op = "finish" -> tool[task.tool] # None
      [] task.op = "answer" -> message # None

\* The task is done, and so is the caller's wait, if it is still there.
EndTask(ok) ==
    /\ task' = None /\ turn' = Tail(turn)
    /\ chat' = IF At("write") THEN After(task.op, ok) ELSE chat
    /\ placeholder' = (placeholder \/ (At("write") /\ ok /\ task.op = "placeholder"))
    /\ UNCHANGED <<sessions, client, gone, stop, erases>>

Write ==
    /\ task # None
    /\ IF CanWrite
         THEN /\ message' = CASE task.op = "placeholder" -> "empty"
                              [] task.op = "answer" -> "answer"
                              [] OTHER -> message
              /\ tool' = CASE task.op = "create" -> [tool EXCEPT ![task.tool] = "running"]
                           [] task.op = "finish" -> [tool EXCEPT ![task.tool] = "ended"]
                           [] OTHER -> tool
         ELSE UNCHANGED <<message, tool>>
    /\ EndTask(CanWrite)
    /\ UNCHANGED <<conversation, faults>>

FailWrite ==
    /\ task # None /\ faults < MaxFaults
    /\ faults' = faults + 1
    /\ EndTask(FALSE)
    /\ UNCHANGED rows

-----------------------------------------------------------------------------
\* The client goes first, and with it the channel.

ClientReads ==
    /\ listening /\ events > 0
    /\ events' = events - 1
    /\ UNCHANGED <<sessions, rows, turn, chat, task, placeholder, listening, gone, stop, counts>>

ClientLeaves ==
    /\ listening /\ ~At("over")
    /\ listening' = FALSE /\ events' = 0
    /\ UNCHANGED <<sessions, rows, turn, chat, task, placeholder, gone, stop, counts>>

\* [mutant] The chat's place in the queue is left behind.
DropQueued ==
    /\ ~listening /\ ~At("over")
    /\ chat' = Over
    /\ stop' = [stop EXCEPT !.at = IF placeholder THEN "find" ELSE "over"]
    /\ UNCHANGED <<sessions, rows, turn, task, placeholder, client, gone, counts>>

\* The chat is dropped where it waits, and what it left is closed. Steps that are ready come
\* first (the select is biased), and its last one ends it as if the client were there.
Drop ==
    /\ ~listening /\ ~At("over")
    /\ chat' = Over
    /\ turn' = IF At("wait") THEN RemoveFirst(turn, "chat") ELSE turn
    /\ stop' = [stop EXCEPT !.at = IF placeholder THEN "find" ELSE "over"]
    /\ UNCHANGED <<sessions, rows, task, placeholder, client, gone, counts>>

Stopping(next) ==
    /\ stop' = next
    /\ UNCHANGED <<sessions, rows, turn, chat, task, placeholder, client, gone, counts>>

\* [mutant] The message is marked without waiting for the turn.
StopFindsMessageAtOnce ==
    /\ stop.at = "find"
    /\ message' = IF message # None THEN "stopped" ELSE None
    /\ stop' = [stop EXCEPT !.at = "list"]
    /\ UNCHANGED <<sessions, conversation, tool, turn, chat, task, placeholder, client, gone,
                   counts>>

\* update_message_content, which waits for the turn unless there is no such message.
StopFindsMessage ==
    /\ stop.at = "find"
    /\ IF message # None
         THEN stop' = [stop EXCEPT !.at = "mark"] /\ turn' = Append(turn, "stop")
         ELSE stop' = [stop EXCEPT !.at = "list"] /\ UNCHANGED turn
    /\ UNCHANGED <<sessions, rows, chat, task, placeholder, client, gone, counts>>

StopMarks ==
    /\ stop.at = "mark" /\ Head(turn) = "stop"
    /\ message' = IF message # None THEN "stopped" ELSE None
    /\ turn' = Tail(turn)
    /\ stop' = [stop EXCEPT !.at = "list"]
    /\ UNCHANGED <<sessions, conversation, tool, chat, task, placeholder, client, gone,
                   counts>>

StopLists ==
    /\ stop.at = "list"
    /\ Stopping([stop EXCEPT !.at = "next", !.todo = {x \in Tools : tool[x] = "running"}])

\* fail_tool_call of each call still running, in its own turn unless its row is gone.
StopAsks ==
    /\ stop.at = "next"
    /\ \E x \in stop.todo :
        /\ stop' = [at |-> IF tool[x] = None THEN "next" ELSE "fail", todo |-> stop.todo \ {x},
                    tool |-> IF tool[x] = None THEN None ELSE x]
        /\ turn' = IF tool[x] = None THEN turn ELSE Append(turn, "stop")
    /\ UNCHANGED <<sessions, rows, chat, task, placeholder, client, gone, counts>>

StopFails ==
    /\ stop.at = "fail" /\ Head(turn) = "stop"
    /\ tool' = [tool EXCEPT ![stop.tool] = IF @ = None THEN None ELSE "stopped"]
    /\ turn' = Tail(turn)
    /\ stop' = [stop EXCEPT !.at = "next", !.tool = None]
    /\ UNCHANGED <<sessions, conversation, message, chat, task, placeholder, client, gone,
                   counts>>

StopEnds == stop.at = "next" /\ stop.todo = {} /\ Stopping([stop EXCEPT !.at = "over"])

\* A failed statement: its lookup makes the stop go on, its list makes it end.
StopErrs ==
    /\ stop.at \in {"find", "mark", "list", "fail"} /\ faults < MaxFaults
    /\ stop.at \in {"mark", "fail"} => Head(turn) = "stop"
    /\ faults' = faults + 1
    /\ turn' = IF stop.at \in {"mark", "fail"} THEN Tail(turn) ELSE turn
    /\ stop' = [stop EXCEPT !.at = CASE @ \in {"find", "mark"} -> "list"
                                     [] @ = "list" -> "over"
                                     [] @ = "fail" -> "next",
                            !.tool = None]
    /\ UNCHANGED <<sessions, rows, chat, task, placeholder, client, gone, erases>>

-----------------------------------------------------------------------------
Chatting ==
    \/ Start \/ Send \/ ModelAnswers \/ Admit \/ NotCallable \/ Refuse \/ EndGone
    \/ CallEnds \/ Return \/ AskTurn \/ TakeTurn

Stops ==
    \/ StopFindsMessage \/ StopMarks \/ StopLists \/ StopAsks \/ StopFails \/ StopEnds

\* Whose turn it is decides which.
TurnEnds == Write \/ Erase

Next ==
    \/ SessionLeaves \/ SessionAdopted \/ AskErase
    \/ Chatting \/ ModelAsksTool \/ ModelStreams \/ TurnEnds \/ FailWrite
    \/ ClientReads \/ ClientLeaves \/ Drop \/ Stops \/ StopErrs

\* The provider answers or times out, governed calls end, the store answers, tasks are polled.
\* Nothing is assumed of the client: it may leave, or stay and read nothing.
Fairness == WF_vars(Chatting) /\ WF_vars(TurnEnds) /\ WF_vars(Drop) /\ WF_vars(Stops)

Spec == Init /\ [][Next]_vars /\ Fairness

-----------------------------------------------------------------------------
(* What a chat promises. *)

TypeOK ==
    /\ session \in 0..MaxSessions /\ born \in 1..MaxSessions
    /\ conversation \in BOOLEAN /\ message \in {None, "empty", "answer", "stopped"}
    /\ tool \in [Tools -> {None, "running", "ended", "stopped"}]
    /\ turn \in Seq({"chat", "other", "stop"}) /\ IsInjective(turn)
    /\ chat.at \in {"start", "send", "ask", "wait", "write", "model", "admit", "refused", "call",
                   "result", "over"}
    /\ chat.then \in {None, "ask", "call", "result", "model", "over"}
    /\ events \in 0..EventBound
    /\ chat.op \in Ops \union {None}
    /\ chat.tool \in Tools \union {None} /\ chat.left \subseteq Tools
    /\ chat.own \in 0..MaxSessions /\ chat.on \in 0..MaxSessions
    /\ At("write") => task # None
    /\ task # None => turn # <<>> /\ Head(turn) = "chat"
    /\ "chat" \in ToSet(turn) <=> At("wait") \/ task # None
    /\ stop.at \in {"idle", "find", "mark", "list", "next", "fail", "over"}
    /\ stop.todo \subseteq Tools
    /\ stop.at # "idle" => At("over") /\ ~listening

\* "Every write of the dropped chat lands before this cleanup or not at all": when the client
\* left first and the store failed nothing, the message whose id is known is marked stopped or
\* gone, and no tool call is left running, now or later.
StoppedChatIsClosed ==
    stop.at = "over" /\ placeholder /\ faults = 0 =>
        /\ message \in {None, "stopped"}
        /\ \A x \in Tools : tool[x] # "running"

\* Nothing is stored that no conversation owns, although clears and deletes come between any
\* two writes of a chat: a clear that ran first took the message.
RowsHaveOwners ==
    /\ message # None => conversation
    /\ \A x \in Tools : tool[x] # None => message # None

\* Tool calls run on the chat's own session, never on one that took over its id, and once one
\* found the session gone the model is sent nothing more and no tool runs.
GoneSessionRunsNoTool ==
    /\ chat.on \in {0, chat.own}
    /\ gone => chat.at \in {"refused", "over"} \/ (At("send") /\ chat.then = "over")

\* "The stored message and tool calls are closed as stopped" whenever the client leaves first.
StoppedMessageIsMarked ==
    stop.at = "over" /\ task = None /\ faults = 0 => message \in {None, "stopped"}

\* The chat's task, and with it the session's chat slot, comes to an end, unless the client
\* stays and from some point on does not read: then the chat waits for the full channel.
Ended == At("over") /\ stop.at \in {"idle", "over"} /\ task = None
Stalled == At("send") /\ listening /\ events = EventBound
ChatEnds == <>Ended \/ <>[]Stalled
=============================================================================
