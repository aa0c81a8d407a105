------------------------------ MODULE WsConnection ------------------------------
(***************************************************************************)
(* One WebSocket connection (crates/p2a-mcp/src/transport/websocket.rs):   *)
(* a loop that handles one message at a time and reads on meanwhile, so    *)
(* that a client that leaves stops what runs for it; the bounded queue of  *)
(* what it reads (`Waiting`); and the bounded channel to the writer task.  *)
(*                                                                         *)
(* Messages are numbered in the order the client sends them. A send on a   *)
(* full channel waits for a slot; slots are handed out first come, first   *)
(* served, also to a handler nobody polls while a refusal is being sent.   *)
(***************************************************************************)
EXTENDS Naturals, Sequences, SequencesExt, FiniteSets

CONSTANTS
    MaxMessages,  \* messages the client sends
    Sizes,        \* bytes of a message
    MaxWaiting,   \* MAX_WAITING_MESSAGES
    MaxBytes,     \* what they may take in total
    Capacity,     \* of the channel to the writer
    None

\* What the constants must be; MCServices assumes it.
ConnectionAssumption ==
    /\ MaxMessages \in Nat /\ Sizes \subseteq Nat \ {0}
    /\ MaxWaiting \in Nat /\ MaxBytes \in Nat /\ Capacity \in Nat \ {0}

VARIABLES
    client,     \* "open", "closed" (its close frame was sent) or "lost"
    sent,       \* messages the client has sent
    socket,     \* frames the server has not read
    waiting,    \* messages read while another one was handled
    handling,   \* the message being handled: its next answers, and where it is
    refusing,   \* the answer to a message read meanwhile, while it is sent
    slot,       \* who was handed a slot of the channel and has not used it
    pending,    \* who waits for one, in order
    channel,    \* answers the writer has not sent
    got,        \* answers the client has received
    loop,       \* whether the connection's loop runs
    session,    \* the session table holds the connection's session
    auth        \* the connection is authenticated

vars == <<client, sent, socket, waiting, handling, refusing, slot, pending, channel, got,
          loop, session, auth>>
outside == <<client, sent, session>>
queues == <<slot, pending, channel, got>>

Kinds == {"ping", "auth", "tool", "bad"}
Answer(n, what) == [n |-> n, what |-> what]

Init ==
    /\ client = "open" /\ sent = 0 /\ socket = <<>> /\ waiting = <<>>
    /\ handling = None /\ refusing = None
    /\ slot = {} /\ pending = <<>> /\ channel = <<>> /\ got = <<>>
    /\ loop = "running" /\ session = TRUE /\ auth = FALSE

-----------------------------------------------------------------------------
\* The client and the session table.

Send ==
    /\ client = "open" /\ sent < MaxMessages
    /\ sent' = sent + 1
    /\ \E kind \in Kinds, size \in Sizes :
        socket' = Append(socket, [n |-> sent + 1, kind |-> kind, size |-> size])
    /\ UNCHANGED <<client, session, waiting, handling, refusing, queues, loop, auth>>

Leave ==
    /\ client = "open"
    /\ client' \in {"closed", "lost"}
    /\ UNCHANGED <<sent, session, socket, waiting, handling, refusing, queues, loop, auth>>

SessionLeaves ==
    /\ session /\ session' = FALSE
    /\ UNCHANGED <<client, sent, socket, waiting, handling, refusing, queues, loop, auth>>

-----------------------------------------------------------------------------
\* The channel. (`slot` and `pending` hold "handler" and "reader".)

HandOut ==
    /\ pending # <<>>
    /\ Len(channel) + Cardinality(slot) < Capacity
    /\ slot' = slot \union {Head(pending)}
    /\ pending' = Tail(pending)
    /\ UNCHANGED <<outside, socket, waiting, handling, refusing, channel, got, loop, auth>>

WriterSends ==
    /\ channel # <<>> /\ client # "lost"
    /\ got' = Append(got, Head(channel))
    /\ channel' = Tail(channel)
    /\ UNCHANGED <<outside, socket, waiting, handling, refusing, slot, pending, loop, auth>>

-----------------------------------------------------------------------------
\* The loop: the message that has waited longest, or the next frame.

Handle(m) ==
    /\ handling' = [n |-> m.n, kind |-> m.kind, at |-> "start", answers |-> <<>>]
    /\ UNCHANGED <<outside, refusing, queues, loop, auth>>

PopWaiting ==
    /\ loop = "running" /\ handling = None /\ waiting # <<>>
    /\ waiting' = Tail(waiting) /\ UNCHANGED socket
    /\ Handle(Head(waiting))

ReadNext ==
    /\ loop = "running" /\ handling = None /\ waiting = <<>> /\ socket # <<>>
    /\ socket' = Tail(socket) /\ UNCHANGED waiting
    /\ Handle(Head(socket))

\* The handler runs while nothing read meanwhile is being answered.
Polled(at) == handling # None /\ refusing = None /\ handling.at = at

Answers(answers, authenticated) ==
    /\ handling' = [handling EXCEPT !.at = "send", !.answers = answers]
    /\ pending' = Append(pending, "handler")
    /\ auth' = authenticated
    /\ UNCHANGED <<outside, socket, waiting, refusing, slot, channel, got, loop>>

\* handle_text, handle_client_message: the session is looked up for every call.
Answered ==
    /\ Polled("start") /\ (handling.kind = "tool" => ~auth \/ ~session)
    /\ CASE handling.kind = "ping" -> Answers(<<"pong">>, auth)
         [] handling.kind = "auth" -> Answers(<<"auth">>, auth \/ session)
         [] handling.kind = "tool" -> Answers(<<"error">>, FALSE)
         [] handling.kind = "bad" -> Answers(<<"error">>, auth)

Call ==
    /\ Polled("start") /\ handling.kind = "tool" /\ auth /\ session
    /\ handling' = [handling EXCEPT !.at = "call"]
    /\ UNCHANGED <<outside, socket, waiting, refusing, queues, loop, auth>>

CallEnds ==
    /\ Polled("call")
    /\ \E answers \in {<<"result", "done">>, <<"error">>} : Answers(answers, auth)

HandlerSends ==
    /\ Polled("send") /\ "handler" \in slot
    /\ channel' = Append(channel, Answer(handling.n, Head(handling.answers)))
    /\ slot' = slot \ {"handler"}
    /\ IF Len(handling.answers) = 1
         THEN handling' = None /\ UNCHANGED pending
         ELSE /\ handling' = [handling EXCEPT !.answers = Tail(@)]
              /\ pending' = Append(pending, "handler")
    /\ UNCHANGED <<outside, socket, waiting, refusing, got, loop, auth>>

-----------------------------------------------------------------------------
\* read_while_handling, Waiting::admit

Bytes(q) == FoldSeq(LAMBDA m, n : m.size + n, 0, q)
Fits(m) == Len(waiting) < MaxWaiting /\ Bytes(waiting) + m.size <= MaxBytes

CanRead ==
    /\ loop = "running" /\ handling # None /\ refusing = None
    /\ socket # <<>>

Reading ==
    /\ CanRead
    /\ socket' = Tail(socket)
    /\ UNCHANGED <<outside, handling, slot, channel, got, loop, auth>>

\* [mutant] One that fits is taken in front.
AdmitFirst ==
    /\ Reading /\ Head(socket).kind # "ping" /\ Fits(Head(socket))
    /\ waiting' = <<Head(socket)>> \o waiting
    /\ UNCHANGED <<refusing, pending>>

Admit ==
    /\ Reading /\ Head(socket).kind # "ping" /\ Fits(Head(socket))
    /\ waiting' = Append(waiting, Head(socket))
    /\ UNCHANGED <<refusing, pending>>

\* [mutant] One that does not fit is dropped.
AnswerPingsAtOnce ==
    /\ Reading /\ (Head(socket).kind = "ping" \/ ~Fits(Head(socket)))
    /\ IF Head(socket).kind = "ping"
         THEN refusing' = Answer(Head(socket).n, "pong") /\ pending' = Append(pending, "reader")
         ELSE UNCHANGED <<refusing, pending>>
    /\ UNCHANGED waiting

\* A ping is answered at once, and so is a message that does not fit.
AnswerAtOnce ==
    /\ Reading /\ (Head(socket).kind = "ping" \/ ~Fits(Head(socket)))
    /\ refusing' = Answer(Head(socket).n, IF Head(socket).kind = "ping" THEN "pong" ELSE "busy")
    /\ pending' = Append(pending, "reader")
    /\ UNCHANGED waiting

ReaderSends ==
    /\ refusing # None /\ "reader" \in slot
    /\ channel' = Append(channel, refusing)
    /\ slot' = slot \ {"reader"} /\ refusing' = None
    /\ UNCHANGED <<outside, socket, waiting, handling, pending, got, loop, auth>>

\* The client is gone: its close frame was read, reading fails, or the writer's send failed.
\* What runs for it is dropped. A refusal under way fails only with the writer.
End ==
    /\ loop = "running"
    /\ \/ client = "lost"
       \/ client = "closed" /\ socket = <<>> /\ refusing = None
            /\ (handling = None => waiting = <<>>)
    /\ loop' = "ended"
    /\ handling' = None /\ refusing' = None /\ waiting' = <<>> /\ socket' = <<>>
    /\ slot' = {} /\ pending' = <<>>
    /\ UNCHANGED <<outside, channel, got, auth>>

\* The writer sends what is left for CLOSE_GRACE.
Close ==
    /\ loop = "ended" /\ channel # <<>>
    /\ channel' = <<>>
    /\ UNCHANGED <<outside, socket, waiting, handling, refusing, slot, pending, got, loop, auth>>

Serves ==
    \/ PopWaiting \/ ReadNext \/ Answered \/ Call \/ CallEnds \/ HandlerSends

Reads == Admit \/ AnswerAtOnce \/ ReaderSends

Next ==
    \/ Send \/ Leave \/ SessionLeaves
    \/ HandOut \/ WriterSends \/ Serves \/ Reads \/ End \/ Close

\* Governed calls end, the runtime polls the connection's tasks, and the client reads what it
\* is sent.
Fairness ==
    /\ WF_vars(Serves) /\ WF_vars(Reads) /\ WF_vars(HandOut) /\ WF_vars(WriterSends)
    /\ WF_vars(End)

Spec == Init /\ [][Next]_vars /\ Fairness

-----------------------------------------------------------------------------
(* What a connection promises. *)

Messages == [n : 1..MaxMessages, kind : Kinds, size : Sizes]
Texts == {"pong", "auth", "result", "done", "error", "busy"}

TypeOK ==
    /\ client \in {"open", "closed", "lost"} /\ sent \in 0..MaxMessages
    /\ socket \in Seq(Messages) /\ waiting \in Seq(Messages)
    /\ Len(waiting) <= MaxWaiting /\ Bytes(waiting) <= MaxBytes
    /\ handling # None => handling.at \in {"start", "call", "send"}
    /\ refusing \in [n : 1..MaxMessages, what : Texts] \union {None}
    /\ slot \subseteq {"handler", "reader"} /\ pending \in Seq({"handler", "reader"})
    /\ Len(channel) + Cardinality(slot) <= Capacity
    /\ loop \in {"running", "ended"} /\ session \in BOOLEAN /\ auth \in BOOLEAN

Sent == got \o channel
IsFinal(a) == a.what # "result"
AtOnce(a) == a.what \in {"pong", "busy"}

\* The answers to the messages that were handled come in the messages' order, a message
\* has one final answer, and one that was refused as busy has no other.
AnswersInOrder ==
    \A i, j \in 1..Len(Sent) :
        i < j =>
            /\ Sent[i].n = Sent[j].n => Sent[i].what = "result" /\ Sent[j].what = "done"
            /\ ~AtOnce(Sent[i]) /\ ~AtOnce(Sent[j]) => Sent[i].n <= Sent[j].n

\* The connection catches up with its client again and again, and leaves one that left: no
\* message is lost between the socket, the queue and the handler, and a full channel never
\* stops the loop for good. (A client sends a bounded number of messages, so each is answered.)
EveryMessageAnswered ==
    []<>(IF client = "open"
           THEN \A n \in 1..sent : \E i \in DOMAIN got : got[i].n = n /\ IsFinal(got[i])
           ELSE loop = "ended")
=============================================================================
