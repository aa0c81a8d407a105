--------------------------- MODULE ServicesProofs ---------------------------
(***************************************************************************)
(* Proofs that a streamed chat, a WebSocket connection and the audit log's *)
(* writer keep what they promise, for any tools, messages, entries and     *)
(* bounds. Each is a part of the server that shares no state with the      *)
(* others, so that its invariant is proved of its own steps and holds in   *)
(* every behaviour of MCServices.                                          *)
(***************************************************************************)
EXTENDS MCServices, SessionRegistryProofs, CollectionTheorems

-----------------------------------------------------------------------------
(* The chat's inductive invariant, in parts. *)

ChatSteps == {"start", "send", "ask", "wait", "write", "model", "admit", "refused", "call", "result",
              "over"}
ToldSteps == {"ask", "call", "result", "model", "over"}
ChatRecords == [at : ChatSteps, then : ToldSteps \union {None}, op : Chat!Ops \union {None},
                tool : Tools \union {None}, own : 0..ChatSessions, on : 0..ChatSessions,
                left : SUBSET Tools]
ChatWrites == [op : Chat!Ops, tool : Tools \union {None}]
StopRecords == [at : {"idle", "find", "mark", "list", "next", "fail", "over"},
                todo : SUBSET Tools, tool : Tools \union {None}]
Turns == {"chat", "other", "stop"}

\* Where a chat is, or goes once its client is told.
Onward(c) == IF c.at = "send" THEN c.then ELSE c.at

ChatTyped ==
    /\ cSession \in 0..ChatSessions /\ cBorn \in 1..ChatSessions
    /\ cConversation \in BOOLEAN /\ cMessage \in {None, "empty", "answer", "stopped"}
    /\ cTool \in [Tools -> {None, "running", "ended", "stopped"}]
    /\ cChat \in ChatRecords /\ cTask \in ChatWrites \union {None} /\ cStop \in StopRecords
    /\ cPlaceholder \in BOOLEAN /\ cFaults \in Nat /\ cEvents \in 0..EventBound
    /\ cChat.at = "start" => cEvents = 0
    /\ cChat.at = "send" => cChat.then \in ToldSteps
    /\ Onward(cChat) \in {"ask", "wait", "write"} => cChat.op \in Chat!Ops

\* The chat and its stop wait for the turn once each, and a write under way has it.
ChatTurns ==
    /\ IsQueue(cTurn, Turns)
    /\ "chat" \in ToSet(cTurn) <=> cChat.at = "wait" \/ cTask # None
    /\ cTask # None => cTurn # <<>> /\ Head(cTurn) = "chat" /\ cChat.at \in {"write", "over"}
    /\ cChat.at = "write" => cTask # None
    /\ "stop" \in ToSet(cTurn) <=> cStop.at \in {"mark", "fail"}

\* The stop begins where the chat is over, and cleans up only for a chat that knows its message;
\* such a chat does not write a placeholder again.
ChatStopped ==
    /\ cStop.at # "idle" => cChat.at = "over" /\ ~cListening
    /\ cStop.at \notin {"idle", "over"} => cPlaceholder
    /\ cChat.at = "start" \/ cChat.op = "placeholder" => ~cPlaceholder
    /\ cTask # None /\ cTask.op = "placeholder" => ~cPlaceholder

\* Tools run on the chat's own session.
OwnTools ==
    /\ cChat.on \in {0, cChat.own}
    /\ cChat.at = "start" => cChat.on = 0
    /\ cGone => Onward(cChat) \in {"refused", "over"}

\* Rows have owners. Once the message is marked no write of the chat can follow, and none that
\* was under way can store anything when the message is gone; the calls that were running are
\* those that are still to be closed.
ChatClosing ==
    /\ cStop.at \in {"list", "next", "fail", "over"} =>
          cMessage \in {None, "stopped"} /\ (cTask = None \/ cMessage = None)
    /\ cStop.at \in {"next", "fail"} =>
          \A x \in Tools : cTool[x] = "running" =>
              x \in cStop.todo \/ (cStop.at = "fail" /\ x = cStop.tool)
    /\ cStop.at = "over" => \A x \in Tools : cTool[x] # "running"

ChatRows == Chat!RowsHaveOwners /\ (cPlaceholder /\ cFaults = 0 => ChatClosing)

ChatInv == ChatTyped /\ ChatTurns /\ ChatStopped /\ OwnTools /\ ChatRows

-----------------------------------------------------------------------------
(* A step of a chat keeps each part. *)

\* There may be sessions.
LEMMA SomeSessions == 0 \in 0..ChatSessions
BY ServicesAssumption DEF Chat!ChatAssumption

\* No write is none of the writes.
LEMMA NoOp == None # "placeholder" /\ None # "create" /\ None # "finish" /\ None # "answer"
BY ServicesAssumption DEF Chat!ChatAssumption, Chat!Ops

\* A chat that is over.
LEMMA OverTyped ==
    ASSUME cChat \in ChatRecords
    PROVE  /\ Chat!Over \in ChatRecords /\ Chat!Over.at = "over" /\ Chat!Over.op = None
           /\ Chat!Over.own = cChat.own /\ Chat!Over.on = cChat.on
BY DEF Chat!Over, ChatRecords, ChatSteps

\* A chat that tells its client something first.
LEMMA TellingTyped ==
    ASSUME NEW c \in ChatRecords, c.at \in ToldSteps
    PROVE  /\ Chat!Telling(c) \in ChatRecords
           /\ Chat!Telling(c).at = "send" /\ Chat!Telling(c).then = c.at
           /\ Onward(Chat!Telling(c)) = c.at
           /\ Chat!Telling(c).op = c.op /\ Chat!Telling(c).own = c.own /\ Chat!Telling(c).on = c.on
BY DEF Chat!Telling, Onward, ChatRecords, ChatSteps, ToldSteps

\* One that tells its client that it is over.
LEMMA TellingOver ==
    ASSUME cChat \in ChatRecords
    PROVE  /\ Chat!Telling(Chat!Over) \in ChatRecords
           /\ Chat!Telling(Chat!Over).at = "send" /\ Chat!Telling(Chat!Over).then = "over"
           /\ Chat!Telling(Chat!Over).op = None
           /\ Chat!Telling(Chat!Over).own = cChat.own /\ Chat!Telling(Chat!Over).on = cChat.on
BY OverTyped, TellingTyped DEF ToldSteps

\* One that has its tool's result.
LEMMA ReturnedTyped ==
    ASSUME cChat \in ChatRecords
    PROVE  /\ Chat!Returned \in ChatRecords /\ Chat!Returned.at = "model"
           /\ Chat!Returned.op = None
           /\ Chat!Returned.own = cChat.own /\ Chat!Returned.on = 0
BY SomeSessions DEF Chat!Returned, ChatRecords, ChatSteps

\* Where a chat goes on after a write.
LEMMA AfterTyped ==
    ASSUME cChat \in ChatRecords, NEW op \in Chat!Ops, NEW ok
    PROVE  /\ Chat!After(op, ok) \in ChatRecords
           /\ Chat!After(op, ok).at \in {"send", "call", "result"}
           /\ Chat!After(op, ok).at = "send" => Chat!After(op, ok).then \in {"model", "over"}
           /\ Chat!After(op, ok).op \in {None, "finish"}
           /\ Chat!After(op, ok).own = cChat.own
           /\ Chat!After(op, ok).on \in {0, cChat.on}
<1>1. CASE op = "placeholder"
  <2> DEFINE c == [cChat EXCEPT !.at = "model", !.op = None]
  <2>1. /\ c \in ChatRecords /\ c.at = "model" /\ c.op = None /\ c.own = cChat.own
        /\ c.on = cChat.on
    BY DEF ChatRecords, ChatSteps
  <2>2. Chat!After(op, ok) = Chat!Telling(c)
    BY <1>1 DEF Chat!After
  <2> QED BY <2>1, <2>2, TellingTyped DEF ToldSteps
<1>2. CASE op = "create"
  BY <1>2 DEF Chat!After, ChatRecords, ChatSteps, Chat!Ops
<1>3. CASE op = "finish"
  BY <1>3 DEF Chat!After, ChatRecords, ChatSteps, Chat!Ops
<1>4. CASE op = "answer"
  BY <1>4, TellingOver DEF Chat!After
<1> QED BY <1>1, <1>2, <1>3, <1>4 DEF Chat!Ops

\* A write that ends, stored or not, gives the turn back and lets the chat go on.
LEMMA EndTaskMoves ==
    ASSUME ChatTyped, NEW ok, cTask # None, Chat!EndTask(ok)
    PROVE  /\ cChat' \in ChatRecords /\ cTask' = None /\ cTurn' = Tail(cTurn)
           /\ cChat.at # "write" => cChat' = cChat /\ cPlaceholder' = cPlaceholder
           /\ cChat.at = "write" => cChat'.at \in {"send", "call", "result"}
           /\ cChat.at = "write" => Onward(cChat') \in {"call", "result", "model", "over"}
           /\ cChat.at = "write" => cChat'.op \in {None, "finish"}
           /\ cChat'.own = cChat.own /\ cChat'.on \in {0, cChat.on}
           /\ cPlaceholder' \in BOOLEAN
           /\ cPlaceholder' => cPlaceholder \/ cChat.at = "write"
           /\ UNCHANGED <<cSession, cBorn, cListening, cEvents, cGone, cStop>>
<1>1. cTask.op \in Chat!Ops
  BY DEF ChatTyped, ChatWrites
<1>2. CASE cChat.at = "write"
  BY <1>1, <1>2, AfterTyped DEF ChatTyped, Chat!EndTask, Chat!At, Chat!sessions, Chat!client, Onward
<1>3. CASE cChat.at # "write"
  BY <1>3 DEF ChatTyped, Chat!EndTask, Chat!At, Chat!sessions, Chat!client
<1> QED BY <1>2, <1>3

\* The steps of the chat itself, but for its writes.
ChatMoves ==
    Chat!Start \/ Chat!Send \/ Chat!ModelAsksTool \/ Chat!ModelAnswers \/ Chat!ModelStreams
    \/ Chat!Admit \/ Chat!NotCallable \/ Chat!Refuse \/ Chat!EndGone \/ Chat!CallEnds
    \/ Chat!Return \/ Chat!AskTurn

\* The channel has a slot.
LEMMA SomeSlot == EventBound \in Nat \ {0}
BY ServicesAssumption DEF Chat!ChatAssumption

\* What they do to the chat's record.
LEMMA RecordMoves ==
    ASSUME ChatTyped, ChatMoves
    PROVE  /\ cChat' \in ChatRecords /\ cChat.at \notin {"wait", "write", "over"}
           /\ cChat'.at # "write" /\ cChat'.at # "start"
           /\ cChat'.at = "send" => cChat'.then \in ToldSteps
           /\ Onward(cChat') \in {"ask", "wait", "write"} => cChat'.op \in Chat!Ops
           /\ cChat'.op = "placeholder" => cChat.op = "placeholder" \/ cChat.at = "start"
           /\ cEvents' \in 0..EventBound
           /\ UNCHANGED <<cSession, cBorn, cConversation, cMessage, cTool, cTask, cPlaceholder,
                          cListening, cStop, cErases, cFaults>>
           /\ Chat!AskTurn \/ (cTurn' = cTurn /\ cChat'.at # "wait")
<1> USE DEF Chat!At, Chat!sessions, Chat!rows, Chat!counts, Chat!client
<1>0. /\ cChat \in ChatRecords /\ cEvents \in 0..EventBound /\ cChat.at \in ChatSteps
      /\ cChat.at = "start" => cEvents = 0
      /\ cChat.at = "send" => cChat.then \in ToldSteps
      /\ cChat.at = "send" /\ cChat.then = "ask" => cChat.op \in Chat!Ops
      /\ cChat.at = "ask" => cChat.op \in Chat!Ops
  BY DEF ChatTyped, ChatRecords, Onward
<1>1. CASE Chat!Start
  <2>0. cEvents' \in 0..EventBound
    BY <1>0, <1>1, SomeSlot DEF Chat!Start, Chat!Sent
  <2>1. CASE cSession = 0 \/ ~cConversation
    <3>1. cChat' = Chat!Telling(Chat!Over)
      BY <1>1, <2>1 DEF Chat!Start
    <3> QED BY <1>0, <1>1, <2>0, <3>1, TellingOver, NoOp DEF Chat!Start, Onward, ToldSteps
  <2>2. CASE ~(cSession = 0 \/ ~cConversation)
    <3>1. cChat' = [cChat EXCEPT !.at = "ask", !.op = "placeholder", !.own = cSession]
          /\ cChat.at = "start"
      BY <1>1, <2>2 DEF Chat!Start
    <3>2. cChat' \in ChatRecords /\ cChat'.at = "ask" /\ cChat'.op = "placeholder"
      BY <1>0, <3>1 DEF ChatTyped, ChatRecords, ChatSteps, Chat!Ops
    <3> QED BY <1>1, <2>0, <3>1, <3>2 DEF Chat!Start, Chat!Ops
  <2> QED BY <2>1, <2>2
<1>2. CASE Chat!Send
  <2>1. /\ cChat.at = "send" /\ cChat' = [cChat EXCEPT !.at = cChat.then, !.then = None]
        /\ cEvents' \in 0..EventBound
    BY <1>0, <1>2, SomeSlot DEF Chat!Send, Chat!Sent
  <2>2. /\ cChat' \in ChatRecords /\ cChat'.at = cChat.then /\ cChat.then \in ToldSteps
        /\ cChat'.op = cChat.op
    BY <1>0, <2>1 DEF ChatRecords, ChatSteps, ToldSteps
  <2>3. Onward(cChat') = cChat.then
    BY <2>2 DEF Onward, ToldSteps
  <2> QED BY <1>0, <1>2, <2>1, <2>2, <2>3 DEF Chat!Send, ToldSteps
<1>3. CASE Chat!ModelAsksTool
  <2>0. cChat.at = "model"
        /\ \E x \in cChat.left :
              Chat!Continue([cChat EXCEPT !.at = "admit", !.tool = x, !.left = @ \ {x}])
    BY <1>3, Zenon DEF Chat!ModelAsksTool
  <2> PICK x \in cChat.left :
          Chat!Continue([cChat EXCEPT !.at = "admit", !.tool = x, !.left = @ \ {x}])
    BY <2>0, Zenon
  <2>1. /\ cChat' = [cChat EXCEPT !.at = "admit", !.tool = x, !.left = @ \ {x}]
        /\ UNCHANGED <<cSession, cBorn, cConversation, cMessage, cTool, cTurn, cTask, cPlaceholder,
                       cListening, cEvents, cGone, cStop, cErases, cFaults>>
    BY DEF Chat!Continue
  <2>2. cChat.left \subseteq Tools /\ x \in Tools
    BY <1>0, <2>1 DEF ChatRecords
  <2>3. cChat' \in ChatRecords /\ cChat'.at = "admit" /\ cChat'.op = cChat.op
    BY <1>0, <2>1, <2>2 DEF ChatRecords, ChatSteps
  <2>4. Onward(cChat') = "admit"
    BY <2>3 DEF Onward
  <2> QED BY <1>0, <2>0, <2>1, <2>3, <2>4
<1>4. CASE Chat!ModelAnswers
  <2>1. CASE cPlaceholder
    BY <1>0, <1>4, <2>1 DEF Chat!ModelAnswers, Chat!Continue, ChatRecords, ChatSteps, Chat!Ops, Onward
  <2>2. CASE ~cPlaceholder
    <3>1. cChat' = Chat!Telling(Chat!Over)
      BY <1>4, <2>2 DEF Chat!ModelAnswers, Chat!Continue
    <3> QED BY <1>0, <1>4, <3>1, TellingOver, NoOp
            DEF Chat!ModelAnswers, Chat!Continue, Onward, ToldSteps
  <2> QED BY <2>1, <2>2
<1>5. CASE Chat!ModelStreams
  BY <1>0, <1>5, SomeSlot DEF Chat!ModelStreams, Onward
<1>6. CASE Chat!Admit
  <2> DEFINE c == [cChat EXCEPT !.at = IF cPlaceholder THEN "ask" ELSE "call", !.op = "create",
                               !.on = cSession]
  <2>1. c \in ChatRecords /\ c.at \in ToldSteps /\ c.op = "create"
    BY <1>0 DEF ChatTyped, ChatRecords, ChatSteps, ToldSteps, Chat!Ops
  <2>2. cChat' = Chat!Telling(c) /\ cChat.at = "admit"
    BY <1>6 DEF Chat!Admit, Chat!Continue
  <2>3. cChat' \in ChatRecords /\ cChat'.at = "send" /\ cChat'.then \in ToldSteps /\ cChat'.op = "create"
    BY <2>1, <2>2, TellingTyped
  <2> QED BY <1>0, <1>6, <2>2, <2>3 DEF Chat!Admit, Chat!Continue, Chat!Ops
<1>7. CASE Chat!NotCallable
  BY <1>0, <1>7, ReturnedTyped, NoOp DEF Chat!NotCallable, Chat!Continue, Onward
<1>8. CASE Chat!Refuse
  BY <1>0, <1>8 DEF Chat!Refuse, ChatRecords, ChatSteps, Chat!Ops, Onward
<1>9. CASE Chat!EndGone
  <2>1. cChat' = Chat!Telling(Chat!Over)
    BY <1>9 DEF Chat!EndGone, Chat!Continue
  <2> QED BY <1>0, <1>9, <2>1, TellingOver, NoOp DEF Chat!EndGone, Chat!Continue, Onward, ToldSteps
<1>10. CASE Chat!CallEnds
  <2> DEFINE c == [cChat EXCEPT !.at = IF cPlaceholder /\ cChat.op = "finish" THEN "ask"
                                                                         ELSE "result"]
  <2>1. /\ c \in ChatRecords /\ c.at \in ToldSteps /\ c.op = cChat.op
        /\ c.at = "ask" => c.op = "finish"
    BY <1>0 DEF ChatRecords, ChatSteps, ToldSteps
  <2>2. cChat' = Chat!Telling(c) /\ cChat.at = "call"
    BY <1>10 DEF Chat!CallEnds, Chat!Continue
  <2>3. /\ cChat' \in ChatRecords /\ cChat'.at = "send" /\ cChat'.then \in ToldSteps
        /\ cChat'.then = c.at /\ cChat'.op = cChat.op
    BY <2>1, <2>2, TellingTyped
  <2>4. Onward(cChat') \in {"ask", "wait", "write"} => cChat'.op \in Chat!Ops
    BY <2>1, <2>3 DEF Onward, ToldSteps, Chat!Ops
  <2> HIDE DEF c
  <2> QED BY <1>0, <1>10, <2>2, <2>3, <2>4 DEF Chat!CallEnds, Chat!Continue
<1>11. CASE Chat!Return
  <2>1. cChat.at = "result" /\ cChat' \in {Chat!Telling(Chat!Returned), Chat!Returned}
    BY <1>11 DEF Chat!Return, Chat!Continue
  <2>2. /\ cChat' \in ChatRecords /\ cChat'.op = None /\ Onward(cChat') = "model"
        /\ cChat'.at \in {"send", "model"} /\ (cChat'.at = "send" => cChat'.then \in ToldSteps)
    BY <1>0, <2>1, ReturnedTyped, TellingTyped DEF ToldSteps, Onward
  <2> QED BY <1>0, <1>11, <2>1, <2>2, NoOp DEF Chat!Return, Chat!Continue
<1>12. CASE Chat!AskTurn
  <2>1. CASE Chat!Found(cChat.op)
    BY <1>0, <1>12, <2>1 DEF Chat!AskTurn, ChatRecords, ChatSteps, Chat!Ops, Onward
  <2>2. CASE ~Chat!Found(cChat.op)
    <3>1. cChat.op \in Chat!Ops /\ cChat' = Chat!After(cChat.op, FALSE)
      BY <1>0, <1>12, <2>2 DEF Chat!AskTurn
    <3>2. /\ cChat'.at \in {"send", "call", "result"} /\ cChat'.op \in {None, "finish"}
          /\ cChat' \in ChatRecords /\ (cChat'.at = "send" => cChat'.then \in {"model", "over"})
      BY <1>0, <3>1, AfterTyped
    <3> QED BY <1>0, <1>12, <3>2, NoOp DEF Chat!AskTurn, Onward, ToldSteps
  <2> QED BY <2>1, <2>2
<1> QED BY <1>1, <1>2, <1>3, <1>4, <1>5, <1>6, <1>7, <1>8, <1>9, <1>10, <1>11, <1>12 DEF ChatMoves

\* The steps of the chat's stop.
StopMoves ==
    Chat!StopFindsMessage \/ Chat!StopMarks \/ Chat!StopLists \/ Chat!StopAsks \/ Chat!StopFails
    \/ Chat!StopEnds \/ Chat!StopErrs

\* What they do to the stop's record.
LEMMA StopRecordMoves ==
    ASSUME ChatTyped, StopMoves
    PROVE  /\ cStop' \in StopRecords /\ cStop.at \notin {"idle", "over"} /\ cStop'.at # "idle"
           /\ UNCHANGED <<cSession, cBorn, cConversation, cChat, cTask, cPlaceholder, cListening, cEvents, cGone>>
           /\ cMessage' \in {cMessage, "stopped", None} /\ cFaults' \in Nat /\ cFaults' >= cFaults
           /\ cTool' \in [Tools -> {None, "running", "ended", "stopped"}]
<1> USE DEF ChatTyped, StopRecords, Chat!sessions, Chat!rows, Chat!counts, Chat!client
<1>1. CASE Chat!StopFindsMessage
  BY <1>1 DEF Chat!StopFindsMessage
<1>2. CASE Chat!StopMarks
  BY <1>2 DEF Chat!StopMarks
<1>3. CASE Chat!StopLists
  <2> DEFINE todo == {x \in Tools : cTool[x] = "running"}
  <2> HIDE DEF todo
  <2>2. cStop.at = "list" /\ cStop' = [cStop EXCEPT !.at = "next", !.todo = todo]
        /\ cFaults' = cFaults /\ cMessage' = cMessage /\ cTool' = cTool
        /\ UNCHANGED <<cSession, cBorn, cConversation, cChat, cTask, cPlaceholder, cListening, cEvents, cGone>>
    BY <1>3 DEF Chat!StopLists, Chat!Stopping, todo
  <2>3. todo \in SUBSET Tools
    BY DEF todo
  <2>4. cStop' \in StopRecords /\ cStop'.at = "next"
    BY <2>2, <2>3
  <2> HIDE DEF StopRecords
  <2> QED BY <2>2, <2>4
<1>4. CASE Chat!StopAsks
  BY <1>4 DEF Chat!StopAsks
<1>5. CASE Chat!StopFails
  <2>1. cTool' = [cTool EXCEPT ![cStop.tool] = IF @ = None THEN None ELSE "stopped"]
    BY <1>5 DEF Chat!StopFails
  <2>2. cTool' \in [Tools -> {None, "running", "ended", "stopped"}]
    BY <2>1
  <2>3. cStop.at = "fail" /\ cStop' = [cStop EXCEPT !.at = "next", !.tool = None]
        /\ cFaults' = cFaults /\ cMessage' = cMessage
        /\ UNCHANGED <<cSession, cBorn, cConversation, cChat, cTask, cPlaceholder, cListening, cEvents, cGone>>
    BY <1>5 DEF Chat!StopFails
  <2>4. cStop' \in StopRecords /\ cStop'.at = "next"
    BY <2>3
  <2> HIDE DEF StopRecords
  <2> QED BY <2>2, <2>3, <2>4
<1>6. CASE Chat!StopEnds
  BY <1>6 DEF Chat!StopEnds, Chat!Stopping
<1>7. CASE Chat!StopErrs
  <2>1. cStop.at = "find" \/ cStop.at = "mark" \/ cStop.at = "list" \/ cStop.at = "fail"
    BY <1>7 DEF Chat!StopErrs
  <2>2. cStop'.at \in {"list", "over", "next"} /\ cStop' \in StopRecords
    BY <1>7, <2>1 DEF Chat!StopErrs
  <2>3. cFaults' = cFaults + 1 /\ cMessage' = cMessage /\ cTool' = cTool
        /\ UNCHANGED <<cSession, cBorn, cConversation, cChat, cTask, cPlaceholder, cListening, cEvents, cGone>>
    BY <1>7 DEF Chat!StopErrs
  <2> QED BY <2>1, <2>2, <2>3
<1> QED BY <1>1, <1>2, <1>3, <1>4, <1>5, <1>6, <1>7 DEF StopMoves

\* A step is one of others, of the chat, of its write, of its stop, or its end as its client left.
LEMMA ChatCases ==
    Chat!Next =>
        \/ Chat!SessionLeaves \/ Chat!SessionAdopted \/ Chat!AskErase \/ Chat!Erase
        \/ Chat!ClientReads \/ Chat!ClientLeaves
        \/ ChatMoves \/ Chat!TakeTurn \/ Chat!Write \/ Chat!FailWrite
        \/ Chat!Drop \/ StopMoves
BY DEF Chat!Next, Chat!Chatting, Chat!Stops, Chat!TurnEnds, ChatMoves, StopMoves

\* Types are kept.
LEMMA ChatTypedStep ==
    ASSUME ChatTyped, ChatTurns, Chat!Next
    PROVE  ChatTyped'
<1> USE DEF ChatTyped, Chat!sessions, Chat!rows, Chat!counts, Chat!client
<1>1. CASE Chat!SessionLeaves
  BY <1>1, SomeSessions DEF Chat!SessionLeaves
<1>2. CASE Chat!SessionAdopted
  <2>1. ChatSessions \in Nat \ {0}
    BY ServicesAssumption DEF Chat!ChatAssumption
  <2>2. cBorn' \in 1..ChatSessions /\ cSession' \in 0..ChatSessions
    BY <1>2, <2>1 DEF Chat!SessionAdopted
  <2> QED BY <1>2, <2>2 DEF Chat!SessionAdopted
<1>3. CASE Chat!AskErase
  BY <1>3 DEF Chat!AskErase
<1>4. CASE Chat!Erase
  BY <1>4 DEF Chat!Erase
<1>5. CASE ChatMoves
  BY <1>5, RecordMoves
<1>6. CASE Chat!TakeTurn
  <2>1. /\ cChat' \in ChatRecords /\ cChat'.op = cChat.op /\ cChat.op \in Chat!Ops
        /\ cChat'.at = "write"
    BY <1>6 DEF Chat!TakeTurn, Chat!At, ChatRecords, ChatSteps, Onward
  <2>2. cTask' \in ChatWrites
    BY <1>6, <2>1 DEF Chat!TakeTurn, ChatRecords, ChatWrites
  <2> QED BY <1>6, <2>1, <2>2 DEF Chat!TakeTurn
<1>7. CASE Chat!Write \/ Chat!FailWrite
  <2>1. cTask # None /\ \E ok : Chat!EndTask(ok)
    BY <1>7 DEF Chat!Write, Chat!FailWrite
  <2>2. /\ cChat' \in ChatRecords /\ cTask' = None /\ cPlaceholder' \in BOOLEAN
        /\ UNCHANGED <<cSession, cBorn, cStop, cEvents>>
        /\ \/ cChat' = cChat
           \/ /\ Onward(cChat') \notin {"ask", "wait", "write"} /\ cChat'.at # "start"
              /\ cChat'.at = "send" => cChat'.then \in ToldSteps
    BY <2>1, EndTaskMoves DEF Onward, ToldSteps
  <2>3. cMessage' \in {None, "empty", "answer", "stopped"}
    BY <1>7 DEF Chat!Write, Chat!FailWrite
  <2>4. cTool' \in [Tools -> {None, "running", "ended", "stopped"}]
    BY <1>7 DEF Chat!Write, Chat!FailWrite
  <2>5. cConversation' = cConversation /\ cFaults' \in {cFaults, cFaults + 1}
    BY <1>7 DEF Chat!Write, Chat!FailWrite
  <2> QED BY <2>2, <2>3, <2>4, <2>5
<1>8. CASE Chat!Drop
  <2>1. cChat' \in ChatRecords /\ cChat'.at = "over"
    BY <1>8, OverTyped DEF Chat!Drop
  <2>2. cStop' \in StopRecords
    BY <1>8 DEF Chat!Drop, StopRecords
  <2> QED BY <1>8, <2>1, <2>2 DEF Chat!Drop, Onward
<1>9. CASE Chat!ClientReads \/ Chat!ClientLeaves
  <2>1. cEvents' \in 0..EventBound /\ (cEvents = 0 => cEvents' = 0)
    BY <1>9, SomeSlot DEF Chat!ClientReads, Chat!ClientLeaves
  <2> QED BY <1>9, <2>1 DEF Chat!ClientReads, Chat!ClientLeaves
<1>10. CASE StopMoves
  BY <1>10, StopRecordMoves
<1> QED BY <1>1, <1>2, <1>3, <1>4, <1>5, <1>6, <1>7, <1>8, <1>9, <1>10, ChatCases

\* Tools are admitted on the session the chat began with, and none once it is gone.
LEMMA OwnToolsStep ==
    ASSUME ChatTyped, OwnTools, Chat!Next
    PROVE  OwnTools'
<1>0. /\ cChat \in ChatRecords /\ cChat.on \in {0, cChat.own}
      /\ cChat.at = "start" => cChat.on = 0
      /\ cGone => Onward(cChat) \in {"refused", "over"}
      /\ cChat.at = "send" => cChat.then \in ToldSteps
      /\ Onward(cChat) \in {"ask", "wait", "write"} => cChat.op \in Chat!Ops
  BY DEF ChatTyped, OwnTools
<1>1. CASE Chat!SessionLeaves \/ Chat!SessionAdopted \/ Chat!AskErase \/ Chat!Erase \/ StopMoves
           \/ Chat!ClientReads \/ Chat!ClientLeaves
  <2>1. UNCHANGED <<cChat, cGone>>
    BY <1>1, StopRecordMoves
    DEF Chat!SessionLeaves, Chat!SessionAdopted, Chat!AskErase, Chat!Erase, Chat!ClientReads,
        Chat!ClientLeaves
  <2> QED BY <2>1, <1>0 DEF OwnTools
<1>2. CASE ChatMoves
  <2>0. cChat'.at # "start"
    BY <1>2, RecordMoves
  <2>1. CASE Chat!Start
    <3>1. cChat.at = "start" /\ ~cGone /\ cGone' = cGone /\ cChat.on = 0
      BY <1>0, <2>1 DEF Chat!Start, Chat!At, Onward
    <3>2. cChat' \in {Chat!Telling(Chat!Over),
                      [cChat EXCEPT !.at = "ask", !.op = "placeholder", !.own = cSession]}
      BY <2>1 DEF Chat!Start
    <3>3. cChat'.on = 0
      BY <1>0, <3>1, <3>2, TellingOver DEF ChatRecords
    <3> QED BY <2>0, <3>1, <3>3 DEF OwnTools
  <2>2. CASE Chat!Send
    <3>1. /\ cChat.at = "send" /\ cChat' = [cChat EXCEPT !.at = cChat.then, !.then = None]
          /\ cGone' = cGone
      BY <2>2 DEF Chat!Send, Chat!At
    <3>2. cChat'.at = cChat.then /\ cChat'.on = cChat.on /\ cChat'.own = cChat.own
      BY <1>0, <3>1 DEF ChatRecords
    <3>3. Onward(cChat) = cChat.then /\ Onward(cChat') = cChat.then
      BY <1>0, <3>1, <3>2 DEF Onward, ToldSteps
    <3> QED BY <1>0, <2>0, <3>1, <3>2, <3>3 DEF OwnTools
  <2>3. CASE Chat!ModelAsksTool
    BY <1>0, <2>3 DEF Chat!ModelAsksTool, Chat!Continue, Chat!At, ChatRecords, Onward, OwnTools
  <2>4. CASE Chat!ModelAnswers
    <3>1. cChat.at = "model" /\ cGone' = cGone /\ ~cGone
      BY <1>0, <2>4 DEF Chat!ModelAnswers, Chat!Continue, Chat!At, Onward
    <3>2. cChat'.on = cChat.on /\ cChat'.own = cChat.own
      BY <1>0, <2>4, TellingOver DEF Chat!ModelAnswers, Chat!Continue, ChatRecords
    <3> QED BY <1>0, <2>0, <3>1, <3>2 DEF OwnTools
  <2>5. CASE Chat!ModelStreams
    BY <1>0, <2>5 DEF Chat!ModelStreams, OwnTools
  <2>6. CASE Chat!Admit
    <3> DEFINE c == [cChat EXCEPT !.at = IF cPlaceholder THEN "ask" ELSE "call", !.op = "create",
                                 !.on = cSession]
    <3>1. c \in ChatRecords /\ c.at \in ToldSteps /\ c.on = cSession /\ c.own = cChat.own
      BY <1>0 DEF ChatTyped, ChatRecords, ChatSteps, ToldSteps, Chat!Ops
    <3>2. cChat' = Chat!Telling(c) /\ cSession = cChat.own /\ cChat.at = "admit" /\ cGone' = cGone
      BY <2>6 DEF Chat!Admit, Chat!Live, Chat!Continue, Chat!At
    <3> HIDE DEF c
    <3>3. cChat'.on = c.on /\ cChat'.own = c.own
      BY <3>1, <3>2, TellingTyped
    <3>4. Onward(cChat) = "admit"
      BY <3>2 DEF Onward
    <3>5. cChat'.on = cChat'.own /\ ~cGone
      BY <1>0, <3>1, <3>2, <3>3, <3>4
    <3> QED BY <2>0, <3>2, <3>5 DEF OwnTools
  <2>7. CASE Chat!NotCallable
    BY <1>0, <2>7, ReturnedTyped DEF Chat!NotCallable, Chat!Continue, Chat!At, Onward, OwnTools
  <2>8. CASE Chat!Refuse
    BY <1>0, <2>8 DEF Chat!Refuse, Chat!At, ChatRecords, Onward, OwnTools
  <2>9. CASE Chat!EndGone
    BY <1>0, <2>9, TellingOver DEF Chat!EndGone, Chat!Continue, Chat!At, Onward, OwnTools
  <2>10. CASE Chat!CallEnds
    <3> DEFINE c == [cChat EXCEPT !.at = IF cPlaceholder /\ cChat.op = "finish" THEN "ask"
                                                                           ELSE "result"]
    <3>1. c \in ChatRecords /\ c.at \in ToldSteps /\ c.on = cChat.on /\ c.own = cChat.own
      BY <1>0 DEF ChatRecords, ChatSteps, ToldSteps
    <3>2. cChat' = Chat!Telling(c) /\ cChat.at = "call" /\ cGone' = cGone
      BY <2>10 DEF Chat!CallEnds, Chat!Continue, Chat!At
    <3>3. cChat'.on = cChat.on /\ cChat'.own = cChat.own /\ ~cGone
      BY <1>0, <3>1, <3>2, TellingTyped DEF Onward
    <3> QED BY <1>0, <2>0, <3>2, <3>3 DEF OwnTools
  <2>11. CASE Chat!Return
    <3>1. /\ cChat.at = "result" /\ cChat' \in {Chat!Telling(Chat!Returned), Chat!Returned}
          /\ cGone' = cGone
      BY <2>11 DEF Chat!Return, Chat!Continue, Chat!At
    <3>2. cChat'.on = 0 /\ ~cGone
      BY <1>0, <3>1, ReturnedTyped, TellingTyped DEF ToldSteps, Onward
    <3> QED BY <2>0, <3>1, <3>2 DEF OwnTools
  <2>12. CASE Chat!AskTurn
    <3>1. cChat' = [cChat EXCEPT !.at = "wait"] \/ cChat' = Chat!After(cChat.op, FALSE)
      BY <2>12 DEF Chat!AskTurn
    <3>2. cChat.op \in Chat!Ops /\ cChat.at = "ask" /\ cGone' = cGone /\ ~cGone
      BY <1>0, <2>12 DEF Chat!AskTurn, Chat!At, Onward
    <3>3. CASE cChat' = [cChat EXCEPT !.at = "wait"]
      BY <1>0, <3>2, <3>3 DEF ChatRecords, OwnTools
    <3>4. CASE cChat' = Chat!After(cChat.op, FALSE)
      BY <1>0, <2>0, <3>2, <3>4, AfterTyped DEF OwnTools
    <3> QED BY <3>1, <3>3, <3>4
  <2> QED BY <1>2, <2>1, <2>2, <2>3, <2>4, <2>5, <2>6, <2>7, <2>8, <2>9, <2>10, <2>11, <2>12
          DEF ChatMoves
<1>3. CASE Chat!TakeTurn
  BY <1>0, <1>3 DEF Chat!TakeTurn, Chat!At, ChatRecords, Onward, OwnTools
<1>4. CASE Chat!Write \/ Chat!FailWrite
  <2>1. cTask # None /\ \E ok : Chat!EndTask(ok)
    BY <1>4 DEF Chat!Write, Chat!FailWrite
  <2>2. /\ cChat' = cChat \/ (cChat.at = "write" /\ cChat'.at # "start")
        /\ cChat'.own = cChat.own /\ cChat'.on \in {0, cChat.on} /\ cGone' = cGone
    BY <2>1, EndTaskMoves
  <2>3. cChat.at = "write" => ~cGone
    BY <1>0 DEF Onward
  <2> QED BY <1>0, <2>2, <2>3 DEF OwnTools
<1>5. CASE Chat!Drop
  BY <1>0, <1>5, OverTyped DEF Chat!Drop, Onward, OwnTools
<1> QED BY <1>1, <1>2, <1>3, <1>4, <1>5, ChatCases

\* The chat's module and this one speak of the same sequences.
LEMMA SameTurns ==
    /\ \A q : Chat!ToSet(q) = ToSet(q) /\ (Chat!IsInjective(q) <=> IsInjective(q))
    /\ \A q, c : Chat!RemoveFirst(q, c) = RemoveFirst(q, c)
<1>1. \A q : Chat!ToSet(q) = ToSet(q) /\ (Chat!IsInjective(q) <=> IsInjective(q))
  BY DEF Chat!ToSet, ToSet, Chat!IsInjective, IsInjective
<1>2. \A S : Chat!Min(S) = Min(S)
  BY DEF Chat!Min, Min
<1>3. \A q, c : Chat!RemoveFirst(q, c) = RemoveFirst(q, c)
  BY <1>2 DEF Chat!RemoveFirst, RemoveFirst, Chat!RemoveAt, RemoveAt, Chat!SelectInSeq, SelectInSeq
<1> QED BY <1>1, <1>3

\* Somebody queues for the turn,
LEMMA TurnAsked ==
    ASSUME IsQueue(cTurn, Turns), NEW c \in Turns, c \notin ToSet(cTurn), cTurn' = Append(cTurn, c)
    PROVE  /\ IsQueue(cTurn', Turns) /\ ToSet(cTurn') = ToSet(cTurn) \union {c}
           /\ cTurn # <<>> => cTurn' # <<>> /\ Head(cTurn') = Head(cTurn)
BY QueueAppend

\* gives it back,
LEMMA TurnPassed ==
    ASSUME IsQueue(cTurn, Turns), cTurn # <<>>, cTurn' = Tail(cTurn)
    PROVE  IsQueue(cTurn', Turns) /\ ToSet(cTurn') = ToSet(cTurn) \ {Head(cTurn)}
BY QueueTail

\* or leaves the queue.
LEMMA TurnLeft ==
    ASSUME IsQueue(cTurn, Turns), NEW c \in ToSet(cTurn), cTurn' = Chat!RemoveFirst(cTurn, c)
    PROVE  IsQueue(cTurn', Turns) /\ ToSet(cTurn') = ToSet(cTurn) \ {c}
BY QueueLeave, SameTurns

\* Who is in the queue finds it so.
LEMMA TurnWaits ==
    ASSUME IsQueue(cTurn, Turns), NEW c \in ToSet(cTurn)
    PROVE  cTurn # <<>> /\ Head(cTurn) \in ToSet(cTurn)
<1>1. cTurn # <<>>
  BY DEF ToSet, IsQueue
<1> QED BY <1>1, TailElements DEF IsQueue

\* The queue holds who waits.
LEMMA ChatTurnsStep ==
    ASSUME ChatTyped, ChatTurns, ChatStopped, Chat!Next
    PROVE  ChatTurns'
<1> USE DEF ChatTurns
<1>1. CASE Chat!SessionLeaves \/ Chat!SessionAdopted \/ Chat!ClientReads \/ Chat!ClientLeaves
  <2>1. UNCHANGED <<cTurn, cChat, cTask, cStop>>
    BY <1>1 DEF Chat!SessionLeaves, Chat!SessionAdopted, Chat!ClientReads, Chat!ClientLeaves
  <2> QED BY <2>1
<1>2. CASE Chat!AskErase
  <2>1. cTurn' = Append(cTurn, "other") /\ "other" \notin ToSet(cTurn)
        /\ UNCHANGED <<cChat, cTask, cStop>>
    BY <1>2, SameTurns DEF Chat!AskErase
  <2> QED BY <2>1, TurnAsked DEF Turns
<1>3. CASE Chat!Erase
  <2>1. cTurn' = Tail(cTurn) /\ cTurn # <<>> /\ Head(cTurn) = "other"
        /\ UNCHANGED <<cChat, cTask, cStop>>
    BY <1>3 DEF Chat!Erase
  <2> QED BY <2>1, TurnPassed
<1>4. CASE ChatMoves
  <2>1. CASE Chat!AskTurn /\ cChat'.at = "wait"
    <3>1. cTurn' = Append(cTurn, "chat") /\ cTask' = cTask /\ cStop' = cStop
          /\ cChat.at = "ask"
      <4>1. CASE Chat!Found(cChat.op)
        BY <2>1, <4>1 DEF Chat!AskTurn, Chat!At
      <4>2. CASE ~Chat!Found(cChat.op)
        <5>1. cChat.at = "ask" /\ cChat' = Chat!After(cChat.op, FALSE)
          BY <2>1, <4>2 DEF Chat!AskTurn, Chat!At
        <5>2. cChat.op \in Chat!Ops /\ cChat \in ChatRecords
          BY <5>1 DEF ChatTyped, Onward
        <5>3. cChat'.at \in {"send", "call", "result"}
          BY <5>1, <5>2, AfterTyped
        <5> QED BY <2>1, <5>3
      <4> QED BY <4>1, <4>2
    <3>2. "chat" \notin ToSet(cTurn) /\ cTask = None
      BY <3>1
    <3> QED BY <2>1, <3>1, <3>2, TurnAsked DEF Turns
  <2>2. CASE cChat'.at # "wait"
    <3>1. cTurn' = cTurn /\ cTask' = cTask /\ cStop' = cStop
      <4>1. CASE Chat!AskTurn
        BY <2>2, <4>1 DEF Chat!AskTurn, ChatTyped, ChatRecords
      <4> QED BY <1>4, <4>1, RecordMoves
    <3>2. cChat.at \notin {"wait", "write", "over"} /\ cChat'.at # "write"
      BY <1>4, RecordMoves
    <3> QED BY <2>2, <3>1, <3>2
  <2> QED BY <1>4, <2>1, <2>2, RecordMoves
<1>5. CASE Chat!TakeTurn
  <2>1. cChat'.at = "write" /\ cChat.at = "wait" /\ cTask' # None
    <3>1. cChat.op \in Chat!Ops /\ cChat.tool \in Tools \union {None}
      BY <1>5 DEF Chat!TakeTurn, Chat!At, ChatTyped, ChatRecords, Onward
    <3>2. cTask' # None
      BY <1>5, <3>1, ServicesAssumption DEF Chat!TakeTurn, Chat!ChatAssumption
    <3> QED BY <1>5, <3>2 DEF Chat!TakeTurn, Chat!At, ChatTyped, ChatRecords
  <2>2. cTurn' = cTurn /\ cStop' = cStop /\ Head(cTurn) = "chat"
    BY <1>5 DEF Chat!TakeTurn
  <2> QED BY <2>1, <2>2, TurnWaits
<1>6. CASE Chat!Write \/ Chat!FailWrite
  <2>1. cTask # None /\ \E ok : Chat!EndTask(ok)
    BY <1>6 DEF Chat!Write, Chat!FailWrite
  <2>2. /\ cTask' = None /\ cTurn' = Tail(cTurn) /\ cStop' = cStop
        /\ cChat'.at \notin {"wait", "write"}
    BY <2>1, EndTaskMoves
  <2> QED BY <2>1, <2>2, TurnPassed
<1>7. CASE Chat!Drop
  <2>1. /\ cChat'.at = "over" /\ cTask' = cTask /\ cStop.at = "idle"
        /\ cStop'.at \in {"find", "over"}
    BY <1>7, OverTyped DEF Chat!Drop, Chat!At, ChatTyped, ChatStopped, StopRecords
  <2>2. CASE cChat.at = "wait"
    <3>1. cTurn' = Chat!RemoveFirst(cTurn, "chat") /\ "chat" \in ToSet(cTurn) /\ cTask = None
      BY <1>7, <2>2 DEF Chat!Drop, Chat!At
    <3> QED BY <2>1, <3>1, TurnLeft
  <2>3. CASE cChat.at # "wait"
    BY <1>7, <2>1, <2>3 DEF Chat!Drop, Chat!At
  <2> QED BY <2>2, <2>3
<1>8. CASE StopMoves
  <2>1. UNCHANGED <<cChat, cTask>>
    BY <1>8, StopRecordMoves
  <2>2. CASE Chat!StopFindsMessage \/ Chat!StopAsks
    <3>1. \/ cTurn' = cTurn /\ cStop'.at \in {"list", "next"}
          \/ cTurn' = Append(cTurn, "stop") /\ cStop'.at \in {"mark", "fail"}
      BY <2>2 DEF Chat!StopFindsMessage, Chat!StopAsks, ChatTyped, StopRecords
    <3>2. cStop.at \notin {"mark", "fail"}
      BY <2>2 DEF Chat!StopFindsMessage, Chat!StopAsks
    <3> QED BY <2>1, <3>1, <3>2, TurnAsked DEF Turns
  <2>3. CASE Chat!StopMarks \/ Chat!StopFails \/ (Chat!StopErrs /\ cStop.at \in {"mark", "fail"})
    <3>1. cStop.at \in {"mark", "fail"} /\ Head(cTurn) = "stop" /\ cTurn' = Tail(cTurn)
      BY <2>3 DEF Chat!StopMarks, Chat!StopFails, Chat!StopErrs
    <3>2. cStop'.at \in {"list", "next"}
      BY <2>3, <3>1 DEF Chat!StopMarks, Chat!StopFails, Chat!StopErrs, ChatTyped, StopRecords
    <3> QED BY <2>1, <3>1, <3>2, TurnPassed, TurnWaits
  <2>4. CASE Chat!StopLists \/ Chat!StopEnds \/ (Chat!StopErrs /\ cStop.at \notin {"mark", "fail"})
    <3>1. cTurn' = cTurn /\ cStop.at \notin {"mark", "fail"}
      BY <2>4 DEF Chat!StopLists, Chat!StopEnds, Chat!StopErrs, Chat!Stopping
    <3>2. cStop'.at \notin {"mark", "fail"}
      <4>1. CASE Chat!StopLists \/ Chat!StopEnds
        BY <4>1 DEF Chat!StopLists, Chat!StopEnds, Chat!Stopping, ChatTyped, StopRecords
      <4>2. CASE Chat!StopErrs
        <5>1. cStop.at \in {"find", "list"}
          BY <3>1, <4>2 DEF Chat!StopErrs
        <5> QED BY <4>2, <5>1 DEF Chat!StopErrs, ChatTyped, StopRecords
      <4> QED BY <2>4, <4>1, <4>2
    <3> QED BY <2>1, <3>1, <3>2
  <2> QED BY <1>8, <2>2, <2>3, <2>4 DEF StopMoves
<1> QED BY <1>1, <1>2, <1>3, <1>4, <1>5, <1>6, <1>7, <1>8, ChatCases

\* The stop is of a chat that is over and knows its message.
LEMMA ChatStoppedStep ==
    ASSUME ChatTyped, ChatTurns, ChatStopped, Chat!Next
    PROVE  ChatStopped'
<1> USE DEF ChatStopped
<1>1. CASE Chat!SessionLeaves \/ Chat!SessionAdopted \/ Chat!AskErase \/ Chat!Erase
  <2>1. UNCHANGED <<cChat, cTask, cPlaceholder, cListening, cStop>>
    BY <1>1 DEF Chat!SessionLeaves, Chat!SessionAdopted, Chat!AskErase, Chat!Erase, Chat!client
  <2> QED BY <2>1
<1>2. CASE ChatMoves
  BY <1>2, RecordMoves, NoOp
<1>3. CASE Chat!TakeTurn
  BY <1>3 DEF Chat!TakeTurn, Chat!At, ChatTyped, ChatRecords, Chat!client
<1>4. CASE Chat!Write \/ Chat!FailWrite
  <2>1. cTask # None /\ \E ok : Chat!EndTask(ok)
    BY <1>4 DEF Chat!Write, Chat!FailWrite
  <2>2. cTask' = None /\ UNCHANGED <<cStop, cListening>>
    BY <2>1, EndTaskMoves
  <2>3. CASE cChat.at = "write"
    BY <2>1, <2>2, <2>3, EndTaskMoves, NoOp
  <2>4. CASE cChat.at # "write"
    BY <2>1, <2>2, <2>4, EndTaskMoves
  <2> QED BY <2>3, <2>4
<1>5. CASE Chat!Drop
  BY <1>5, OverTyped, NoOp DEF Chat!Drop, Chat!At, ChatTyped, StopRecords, Chat!client
<1>6. CASE Chat!ClientReads \/ Chat!ClientLeaves
  BY <1>6 DEF Chat!ClientReads, Chat!ClientLeaves, Chat!At
<1>7. CASE StopMoves
  BY <1>7, StopRecordMoves
<1> QED BY <1>1, <1>2, <1>3, <1>4, <1>5, <1>6, <1>7, ChatCases

\* A row that is stored is something.
LEMMA SomeRow == None \notin {"empty", "answer", "running", "ended", "stopped"}
BY ServicesAssumption DEF Chat!ChatAssumption, Chat!Ops

\* What is stored belongs to something that is.
LEMMA OwnersStep ==
    ASSUME ChatTyped, Chat!RowsHaveOwners, Chat!Next
    PROVE  Chat!RowsHaveOwners'
<1> USE DEF Chat!RowsHaveOwners
<1>1. CASE Chat!SessionLeaves \/ Chat!SessionAdopted \/ Chat!AskErase \/ ChatMoves
           \/ Chat!TakeTurn \/ Chat!FailWrite \/ Chat!ClientReads \/ Chat!ClientLeaves \/ Chat!Drop
  <2>1. UNCHANGED <<cConversation, cMessage, cTool>>
    BY <1>1, RecordMoves
    DEF Chat!SessionLeaves, Chat!SessionAdopted, Chat!AskErase, Chat!TakeTurn, Chat!FailWrite,
        Chat!ClientReads, Chat!ClientLeaves, Chat!Drop, Chat!rows
  <2> QED BY <2>1
<1>2. CASE Chat!Erase
  BY <1>2 DEF Chat!Erase
<1>3. CASE Chat!Write
  <2>1. CASE ~Chat!CanWrite
    BY <1>3, <2>1 DEF Chat!Write
  <2>2. CASE Chat!CanWrite
    <3>1. cTask.op \in Chat!Ops
      BY <1>3 DEF Chat!Write, ChatTyped, ChatWrites
    <3>2. CASE cTask.op \in {"placeholder", "answer"}
      BY <1>3, <2>2, <3>2, SomeRow DEF Chat!Write, Chat!CanWrite
    <3>3. CASE cTask.op = "create"
      BY <1>3, <2>2, <3>3, SomeRow DEF Chat!Write, Chat!CanWrite
    <3>4. CASE cTask.op = "finish"
      <4>1. cTool' = [cTool EXCEPT ![cTask.tool] = "ended"] /\ cTool[cTask.tool] # None
            /\ UNCHANGED <<cConversation, cMessage>>
        BY <1>3, <2>2, <3>4 DEF Chat!Write, Chat!CanWrite
      <4>2. ASSUME NEW x \in Tools, cTool'[x] # None PROVE cTool[x] # None
        BY <4>1, <4>2 DEF ChatTyped
      <4> QED BY <4>1, <4>2
    <3> QED BY <3>1, <3>2, <3>3, <3>4 DEF Chat!Ops
  <2> QED BY <2>1, <2>2
<1>4. CASE StopMoves
  <2>1. cConversation' = cConversation /\ (cMessage' # None <=> cMessage # None)
    BY <1>4, SomeRow
    DEF StopMoves, Chat!StopFindsMessage, Chat!StopMarks, Chat!StopLists, Chat!StopAsks,
        Chat!StopFails, Chat!StopEnds, Chat!StopErrs, Chat!Stopping, Chat!rows
  <2>2. ASSUME NEW x \in Tools, cTool'[x] # None PROVE cTool[x] # None
    <3>1. CASE Chat!StopFails
      BY <2>2, <3>1 DEF Chat!StopFails, ChatTyped
    <3>2. CASE ~Chat!StopFails
      BY <1>4, <2>2, <3>2
      DEF StopMoves, Chat!StopFindsMessage, Chat!StopMarks, Chat!StopLists, Chat!StopAsks,
          Chat!StopEnds, Chat!StopErrs, Chat!Stopping, Chat!rows
    <3> QED BY <3>1, <3>2
  <2> QED BY <2>1, <2>2
<1> QED BY <1>1, <1>2, <1>3, <1>4, ChatCases

\* Nothing is running that the stop does not know of.
LEMMA ChatClosingStep ==
    ASSUME ChatTyped, ChatTurns, ChatStopped, Chat!RowsHaveOwners, Chat!Next,
           cPlaceholder /\ cFaults = 0 => ChatClosing,
           cPlaceholder', cFaults' = 0
    PROVE  ChatClosing'
<1> USE DEF ChatClosing
<1>1. CASE Chat!SessionLeaves \/ Chat!SessionAdopted \/ Chat!AskErase \/ ChatMoves \/ Chat!TakeTurn
           \/ Chat!ClientReads \/ Chat!ClientLeaves \/ Chat!Drop
           \/ ((Chat!FailWrite \/ Chat!Write) /\ cStop.at = "idle")
  <2>1. CASE cStop'.at \in {"idle", "find"}
    BY <2>1
  <2>2. CASE cStop'.at \notin {"idle", "find"}
    <3>1. UNCHANGED <<cMessage, cTool, cStop, cTask, cPlaceholder, cFaults>>
      BY <1>1, <2>2, RecordMoves, EndTaskMoves
      DEF Chat!SessionLeaves, Chat!SessionAdopted, Chat!AskErase, Chat!rows, Chat!counts, Chat!TakeTurn,
          Chat!ClientReads, Chat!ClientLeaves, Chat!Drop, Chat!FailWrite, Chat!Write, Chat!At,
          ChatStopped, ChatTyped, StopRecords
    <3> QED BY <3>1
  <2> QED BY <2>1, <2>2
<1>2. CASE Chat!Erase
  <2>1. /\ cMessage' = None /\ cTool' = [x \in Tools |-> None]
        /\ UNCHANGED <<cStop, cTask, cPlaceholder, cFaults>>
    BY <1>2 DEF Chat!Erase, Chat!counts
  <2> QED BY <2>1, SomeRow
<1>3. CASE (Chat!Write \/ Chat!FailWrite) /\ cStop.at # "idle"
  <2>1. cTask # None /\ \E ok : Chat!EndTask(ok)
    BY <1>3 DEF Chat!Write, Chat!FailWrite
  <2>2. /\ cTask' = None /\ UNCHANGED <<cStop, cPlaceholder>> /\ cChat.at = "over"
    BY <1>3, <2>1, EndTaskMoves DEF ChatStopped
  <2>3. cFaults' = cFaults /\ Chat!Write /\ ChatClosing
    <3> HIDE DEF ChatClosing
    <3>1. ~Chat!FailWrite
      <4>1. Chat!FailWrite => cFaults' = cFaults + 1
        BY DEF Chat!FailWrite
      <4>2. cFaults \in Nat
        BY DEF ChatTyped
      <4> QED BY <4>1, <4>2
    <3>2. Chat!Write /\ cFaults' = cFaults
      BY <1>3, <3>1 DEF Chat!Write
    <3> QED BY <2>2, <3>2
  <2>4. cTask.op # "placeholder" /\ cTask.op \in Chat!Ops
    BY <2>1, <2>2 DEF ChatStopped, ChatTyped, ChatWrites
  <2>5. CASE cStop.at \in {"list", "next", "fail", "over"}
    <3>1. cMessage = None /\ \A x \in Tools : cTool[x] = None
      BY <2>1, <2>3, <2>5 DEF Chat!RowsHaveOwners
    <3>2. cMessage' = None
      BY <2>3, <2>4, <3>1 DEF Chat!Write, Chat!CanWrite, Chat!Ops
    <3>3. \A x \in Tools : cTool'[x] # "running"
      <4>1. CASE cTask.op \in {"answer", "create"}
        BY <2>3, <3>1, <4>1, SomeRow DEF Chat!Write, Chat!CanWrite
      <4>2. CASE cTask.op = "finish"
        BY <2>3, <3>1, <4>2, SomeRow DEF Chat!Write, Chat!CanWrite, ChatTyped
      <4> QED BY <2>4, <4>1, <4>2 DEF Chat!Ops
    <3> QED BY <2>2, <3>2, <3>3
  <2>6. CASE cStop.at \notin {"list", "next", "fail", "over"}
    BY <2>2, <2>6
  <2> QED BY <2>5, <2>6
<1>4. CASE StopMoves
  <2>0. ChatClosing
    <3> HIDE DEF ChatClosing
    <3>1. cPlaceholder' = cPlaceholder /\ cFaults' >= cFaults
      BY <1>4, StopRecordMoves
    <3>2. cFaults = 0
      BY <3>1 DEF ChatTyped
    <3> QED BY <3>1, <3>2
  <2>1. CASE Chat!StopFindsMessage
    <3>1. CASE cMessage # None
      BY <2>1, <3>1 DEF Chat!StopFindsMessage, ChatTyped, StopRecords
    <3>2. CASE cMessage = None
      BY <2>1, <3>2 DEF Chat!StopFindsMessage, ChatTyped, StopRecords, Chat!rows
    <3> QED BY <3>1, <3>2
  <2>2. CASE Chat!StopMarks
    <3>1. cStop'.at = "list" /\ cMessage' \in {None, "stopped"} /\ cTask' = cTask
      BY <2>2 DEF Chat!StopMarks, ChatTyped, StopRecords
    <3>2. cTask = None
      BY <2>2 DEF Chat!StopMarks, ChatTurns
    <3> QED BY <3>1, <3>2
  <2>3. CASE Chat!StopLists
    BY <2>0, <2>3 DEF Chat!StopLists, Chat!Stopping, Chat!rows, ChatTyped, StopRecords
  <2>4. CASE Chat!StopAsks
    BY <2>0, <2>4, SomeRow DEF Chat!StopAsks, Chat!rows, ChatTyped, StopRecords
  <2>5. CASE Chat!StopFails
    BY <2>0, <2>5, SomeRow DEF Chat!StopFails, ChatTyped, StopRecords
  <2>6. CASE Chat!StopEnds
    BY <2>0, <2>6 DEF Chat!StopEnds, Chat!Stopping, Chat!rows, ChatTyped, StopRecords
  <2>7. CASE Chat!StopErrs
    BY <2>0, <2>7 DEF Chat!StopErrs, ChatTyped
  <2> QED BY <1>4, <2>1, <2>2, <2>3, <2>4, <2>5, <2>6, <2>7 DEF StopMoves
<1> HIDE DEF ChatClosing
<1> QED BY <1>1, <1>2, <1>3, <1>4, ChatCases

\* A chat begins.
LEMMA InitChatInv == Chat!Init => ChatInv
<1> SUFFICES ASSUME Chat!Init PROVE ChatInv
  OBVIOUS
<1> USE DEF Chat!Init
<1>0. ChatSessions \in Nat \ {0}
  BY ServicesAssumption DEF Chat!ChatAssumption
<1>1. ChatTyped
  <2>1. cChat \in ChatRecords /\ cStop \in StopRecords
    BY <1>0 DEF ChatRecords, ChatSteps, StopRecords
  <2>2. cTool \in [Tools -> {None, "running", "ended", "stopped"}]
    OBVIOUS
  <2>3. 1 \in 0..ChatSessions /\ 1 \in 1..ChatSessions /\ cChat.at = "start"
        /\ cEvents = 0 /\ 0 \in 0..EventBound
    BY <1>0, SomeSlot
  <2> QED BY <2>1, <2>2, <2>3 DEF ChatTyped, Onward
<1>2. ChatTurns
  <2>1. IsQueue(cTurn, Turns) /\ ToSet(cTurn) = {}
    BY DEF IsQueue, IsInjective, ToSet
  <2> QED BY <2>1 DEF ChatTurns
<1>3. ChatStopped /\ OwnTools
  BY NoOp DEF ChatStopped, OwnTools
<1>4. ChatRows
  BY DEF ChatRows, Chat!RowsHaveOwners, ChatClosing
<1> QED BY <1>1, <1>2, <1>3, <1>4 DEF ChatInv

\* Each of its steps keeps the invariant.
LEMMA NextChatInv == ChatInv /\ Chat!Next => ChatInv'
<1> SUFFICES ASSUME ChatInv, Chat!Next PROVE ChatInv'
  OBVIOUS
<1> USE DEF ChatInv
<1>1. ChatTyped' /\ ChatTurns' /\ ChatStopped' /\ OwnTools'
  BY ChatTypedStep, ChatTurnsStep, ChatStoppedStep, OwnToolsStep
<1>2. Chat!RowsHaveOwners'
  BY OwnersStep DEF ChatRows
<1>3. ASSUME cPlaceholder', cFaults' = 0 PROVE ChatClosing'
  BY <1>3, ChatClosingStep DEF ChatRows
<1> QED BY <1>1, <1>2, <1>3 DEF ChatRows

\* And so does a step of another part.
LEMMA SameChatInv == ChatInv /\ UNCHANGED chatVars => ChatInv'
<1> SUFFICES ASSUME ChatInv, UNCHANGED chatVars PROVE ChatInv'
  OBVIOUS
<1> USE DEF ChatInv, chatVars
<1>1. ChatTyped' /\ OwnTools' /\ ChatStopped'
  BY DEF ChatTyped, OwnTools, ChatStopped
<1>2. ChatTurns'
  BY DEF ChatTurns
<1>3. ChatRows'
  BY DEF ChatRows, Chat!RowsHaveOwners, ChatClosing
<1> QED BY <1>1, <1>2, <1>3

\* The chat, the write under way and the stop stay consistent with the turn and the stored rows.
THEOREM ChatInvariance == ServicesSpec => []ChatInv
<1>1. ServicesInit => ChatInv
  BY InitChatInv DEF ServicesInit
<1>2. ChatInv /\ [ServicesNext]_allVars => ChatInv'
  BY NextChatInv, SameChatInv DEF ServicesNext, allVars
<1> QED BY <1>1, <1>2, PTL DEF ServicesSpec

\* However often the session is removed and its id taken over while a chat runs, no tool of the
\* chat runs on a session that is not the chat's own (ChatSession::live).
THEOREM ToolsRunOnOwnSession == ServicesSpec => []GoneSessionRunsNoTool
<1>1. ChatInv => GoneSessionRunsNoTool
  <2> SUFFICES ASSUME ChatInv PROVE GoneSessionRunsNoTool
    OBVIOUS
  <2>1. cChat.on \in {0, cChat.own} /\ (cGone => Onward(cChat) \in {"refused", "over"})
    BY DEF ChatInv, OwnTools
  <2>2. CASE cChat.at = "send"
    <3>1. cGone => cChat.then \in {"refused", "over"}
      BY <2>1, <2>2 DEF Onward
    <3>2. cChat.then # "refused"
      BY <2>2 DEF ChatInv, ChatTyped, ToldSteps
    <3> QED BY <2>1, <2>2, <3>1, <3>2 DEF GoneSessionRunsNoTool, Chat!GoneSessionRunsNoTool, Chat!At
  <2>3. CASE cChat.at # "send"
    <3>1. cGone => cChat.at \in {"refused", "over"}
      BY <2>1, <2>3 DEF Onward
    <3> QED BY <2>1, <3>1 DEF GoneSessionRunsNoTool, Chat!GoneSessionRunsNoTool, Chat!At
  <2> QED BY <2>2, <2>3
<1> QED BY <1>1, ChatInvariance, PTL

\* Whatever is deleted while writes wait for the turn: a stored message belongs to a stored
\* conversation and a stored tool call to a stored message; and unless the store failed, once the
\* stop of a chat whose message is known is over, that message is closed or gone and no tool call
\* is left running, whatever write was under way (run_chat_task).
THEOREM RowsAreClosed == ServicesSpec => []ChatRowsAreClosed
<1>1. ChatInv => ChatRowsAreClosed
  BY DEF ChatInv, ChatRows, ChatClosing, ChatRowsAreClosed, Chat!StoppedChatIsClosed
<1> QED BY <1>1, ChatInvariance, PTL

\* The chat's types follow, and that a write under way has the turn.
LEMMA ChatTypes == ChatInv => Chat!TypeOK
<1> SUFFICES ASSUME ChatInv PROVE Chat!TypeOK
  OBVIOUS
<1>1. /\ cSession \in 0..ChatSessions /\ cBorn \in 1..ChatSessions
      /\ cConversation \in BOOLEAN /\ cMessage \in {None, "empty", "answer", "stopped"}
      /\ cTool \in [Tools -> {None, "running", "ended", "stopped"}]
  BY DEF ChatInv, ChatTyped
<1>2. cTurn \in Seq({"chat", "other", "stop"}) /\ Chat!IsInjective(cTurn)
  BY SameTurns DEF ChatInv, ChatTurns, IsQueue, Turns
<1>3. /\ cChat.at \in {"start", "send", "ask", "wait", "write", "model", "admit", "refused", "call",
                      "result", "over"}
      /\ cChat.then \in {None, "ask", "call", "result", "model", "over"}
      /\ cEvents \in 0..EventBound
      /\ cChat.op \in Chat!Ops \union {None}
      /\ cChat.tool \in Tools \union {None} /\ cChat.left \subseteq Tools
      /\ cChat.own \in 0..ChatSessions /\ cChat.on \in 0..ChatSessions
  BY DEF ChatInv, ChatTyped, ChatRecords, ChatSteps, ToldSteps
<1>4. /\ Chat!At("write") => cTask # None
      /\ cTask # None => cTurn # <<>> /\ Head(cTurn) = "chat"
      /\ "chat" \in Chat!ToSet(cTurn) <=> Chat!At("wait") \/ cTask # None
  BY SameTurns DEF ChatInv, ChatTurns, Chat!At
<1>5. /\ cStop.at \in {"idle", "find", "mark", "list", "next", "fail", "over"}
      /\ cStop.todo \subseteq Tools
      /\ cStop.at # "idle" => Chat!At("over") /\ ~cListening
  BY DEF ChatInv, ChatTyped, StopRecords, ChatStopped, Chat!At
<1> QED BY <1>1, <1>2, <1>3, <1>4, <1>5 DEF Chat!TypeOK

-----------------------------------------------------------------------------
(* The connection's inductive invariant, in parts. *)

WsAnswer == [n : 1..MaxMessages, what : Ws!Texts]
WsHandled == [n : 1..MaxMessages, kind : Ws!Kinds, at : {"start", "call", "send"},
              answers : Seq(Ws!Texts)]
Ends == {"handler", "reader"}

WsTyped ==
    /\ wClient \in {"open", "closed", "lost"} /\ wSent \in 0..MaxMessages
    /\ wSocket \in Seq(Ws!Messages) /\ wWaiting \in Seq(Ws!Messages)
    /\ wHandling \in WsHandled \union {None} /\ wRefusing \in WsAnswer \union {None}
    /\ wSlot \subseteq Ends /\ wPending \in Seq(Ends)
    /\ wChannel \in Seq(WsAnswer) /\ wGot \in Seq(WsAnswer)
    /\ wLoop \in {"running", "ended"} /\ wSession \in BOOLEAN /\ wAuth \in BOOLEAN

\* What is read, and what is handed to the writer, is bounded.
WsBounded ==
    /\ Len(wWaiting) <= MaxWaiting /\ Ws!Bytes(wWaiting) <= MaxBytes
    /\ Len(wChannel) + Cardinality(wSlot) <= Capacity

\* The numbers of a sequence of messages rise.
Rising(q) == \A i, j \in 1..Len(q) : i < j => q[i].n < q[j].n

\* The message that is handled comes before those waiting, and these before those not read.
WsLine ==
    /\ Rising(wWaiting) /\ Rising(wSocket)
    /\ \A m \in ToSet(wWaiting), k \in ToSet(wSocket) : m.n < k.n
    /\ \A m \in ToSet(wWaiting) \union ToSet(wSocket) : m.n <= wSent
    /\ wHandling # None =>
          /\ wHandling.n <= wSent
          /\ \A m \in ToSet(wWaiting) \union ToSet(wSocket) : wHandling.n < m.n

\* A message that is answered at once is neither handled nor waiting.
WsRefused ==
    wRefusing # None =>
        /\ wHandling # None /\ wRefusing.n # wHandling.n
        /\ wRefusing.n <= wSent /\ Ws!AtOnce(wRefusing)
        /\ \A m \in ToSet(wWaiting) : wRefusing.n # m.n
        /\ \A m \in ToSet(wSocket) : wRefusing.n < m.n

\* The answers a handler has still to send.
WsDue ==
    wHandling # None /\ wHandling.at = "send" =>
        wHandling.answers \in {<<"pong">>, <<"auth">>, <<"error">>, <<"result", "done">>, <<"done">>}

\* An answer that was sent is to a message before those that are not handled, or at once; the
\* message that is handled has no answer but the first of its two.
Past(a) ==
    /\ a.n <= wSent
    /\ \A m \in ToSet(wSocket) : a.n < m.n
    /\ \A m \in ToSet(wWaiting) : a.n # m.n /\ (~Ws!AtOnce(a) => a.n < m.n)
    /\ wRefusing # None => a.n # wRefusing.n
    /\ wHandling # None =>
          /\ ~Ws!AtOnce(a) => a.n <= wHandling.n
          /\ a.n = wHandling.n =>
                a.what = "result" /\ wHandling.at = "send" /\ wHandling.answers = <<"done">>

WsSaid == (\A a \in ToSet(Ws!Sent) : Past(a)) /\ Ws!AnswersInOrder

WsInv == WsTyped /\ WsBounded /\ WsLine /\ WsRefused /\ WsDue /\ WsSaid


-----------------------------------------------------------------------------
(* Sequences of messages. *)

\* What the constants of the connection are.
LEMMA WsConstants ==
    /\ MaxMessages \in Nat /\ Sizes \subseteq Nat /\ MaxWaiting \in Nat /\ MaxBytes \in Nat
    /\ Capacity \in Nat \ {0}
BY ServicesAssumption DEF Ws!ConnectionAssumption

\* The bytes of a queue, as the model adds them up, are the sum of its messages' sizes.
Weights(q) == [i \in DOMAIN q |-> q[i].size]

\* The bytes that wait are the sum of the sizes of the queue's messages.
LEMMA BytesAreASum ==
    ASSUME NEW q
    PROVE  Ws!Bytes(q) = SumFunctionOnSet(Weights(q), DOMAIN q)
<1> DEFINE f == Weights(q)
           S == DOMAIN q
           One(s) == CHOOSE x \in s : TRUE
           Folds(g) == g = [s \in SUBSET S |-> IF s = {} THEN 0 ELSE f[One(s)] + g[s \ {One(s)}]]
           Adds(g) == g = [s \in SUBSET S |->
                              IF s = {} THEN 0 ELSE q[One(s)].size + g[s \ {One(s)}]]
<1>1. SumFunctionOnSet(f, S) = (CHOOSE g : Folds(g))[S]
  BY DEF SumFunctionOnSet, FoldFunctionOnSet, MapThenFoldSet
<1>2. Ws!Bytes(q) = (CHOOSE g : Adds(g))[S]
  BY DEF Ws!Bytes, Ws!FoldSeq, Ws!FoldFunction, Ws!FoldFunctionOnSet, Ws!MapThenFoldSet,
         FoldSeq, FoldFunction, FoldFunctionOnSet, MapThenFoldSet
<1>3. ASSUME NEW g PROVE Folds(g) <=> Adds(g)
  <2>1. \A s \in SUBSET S : s # {} => f[One(s)] = q[One(s)].size
    BY DEF Weights
  <2> HIDE DEF f
  <2> QED BY <2>1
<1> HIDE DEF f
<1>4. (CHOOSE g : Folds(g)) = (CHOOSE g : Adds(g))
  <2> HIDE DEF Folds, Adds
  <2> QED BY <1>3
<1> QED BY <1>1, <1>2, <1>4 DEF f

\* The sizes of a queue's messages can be added.
LEMMA WeightsSum ==
    ASSUME NEW q \in Seq(Ws!Messages)
    PROVE  /\ DOMAIN q = 1..Len(q) /\ Len(q) \in Nat
           /\ Summable(Weights(q), 1..Len(q))
           /\ \A i \in 1..Len(q) : Weights(q)[i] = q[i].size /\ q[i].size \in Nat
<1>1. DOMAIN q = 1..Len(q) /\ Len(q) \in Nat /\ IsFiniteSet(1..Len(q))
  BY LenProperties, FS_Interval
<1>2. \A i \in 1..Len(q) : Weights(q)[i] = q[i].size /\ q[i].size \in Nat
  <2> TAKE i \in 1..Len(q)
  <2>1. q[i] \in Ws!Messages
    BY ElementOfSeq
  <2> QED BY <2>1, <1>1, WsConstants DEF Ws!Messages, Weights
<1> QED BY <1>1, <1>2 DEF Summable

\* An empty queue takes no bytes.
LEMMA BytesEmpty == Ws!Bytes(<<>>) = 0
<1>1. DOMAIN <<>> = {}
  OBVIOUS
<1> QED BY <1>1, BytesAreASum, SumEmpty

\* A message that is queued adds its size.
LEMMA BytesAppend ==
    ASSUME NEW q \in Seq(Ws!Messages), NEW m \in Ws!Messages
    PROVE  Ws!Bytes(Append(q, m)) = Ws!Bytes(q) + m.size
<1> DEFINE r == Append(q, m)
           n == Len(q)
<1>1. /\ r \in Seq(Ws!Messages) /\ Len(r) = n + 1
      /\ \A i \in 1..n : r[i] = q[i]
      /\ r[n + 1] = m
  BY AppendProperties
<1>2. /\ n \in Nat /\ DOMAIN q = 1..n /\ Summable(Weights(q), 1..n)
      /\ \A i \in 1..n : Weights(q)[i] = q[i].size
  BY WeightsSum
<1>3. /\ DOMAIN r = 1..(n + 1) /\ \A i \in 1..(n + 1) : Weights(r)[i] = r[i].size
      /\ \A i \in 1..(n + 1) : r[i].size \in Nat
  BY <1>1, WeightsSum
<1> HIDE DEF r, n
<1>4. /\ 1..(n + 1) = (1..n) \union {n + 1} /\ n + 1 \notin 1..n
      /\ Weights(r)[n + 1] = m.size /\ Weights(r)[n + 1] \in Nat
  BY <1>1, <1>2, <1>3
<1>5. \A i \in 1..n : Weights(r)[i] = Weights(q)[i]
  BY <1>1, <1>2, <1>3
<1>6. /\ Summable(Weights(r), 1..n)
      /\ SumFunctionOnSet(Weights(r), 1..n) = SumFunctionOnSet(Weights(q), 1..n)
  BY <1>2, <1>5, SumSame
<1>7. SumFunctionOnSet(Weights(r), 1..(n + 1)) = SumFunctionOnSet(Weights(r), 1..n) + m.size
  <2> DEFINE f == Weights(r)
             S == 1..n
             k == n + 1
  <2>1. Summable(f, S) /\ k \notin S /\ f[k] \in Nat
    BY <1>4, <1>6
  <2> HIDE DEF f, S, k
  <2>2. SumFunctionOnSet(f, S \union {k}) = SumFunctionOnSet(f, S) + f[k]
    BY <2>1, SumAdd
  <2> QED BY <2>2, <1>4 DEF f, S, k
<1> QED BY <1>2, <1>3, <1>6, <1>7, BytesAreASum DEF r

\* The messages behind the first take no more than all.
LEMMA BytesTail ==
    ASSUME NEW q \in Seq(Ws!Messages), q # <<>>
    PROVE  Ws!Bytes(Tail(q)) <= Ws!Bytes(q)
<1> DEFINE r == Tail(q)
           n == Len(r)
<1>1. r \in Seq(Ws!Messages) /\ n = Len(q) - 1 /\ \A i \in 1..n : r[i] = q[i + 1]
  BY HeadTailProperties
<1>2. /\ Len(q) \in Nat /\ DOMAIN q = 1..Len(q) /\ Summable(Weights(q), 1..Len(q))
      /\ \A i \in 1..Len(q) : Weights(q)[i] = q[i].size /\ q[i].size \in Nat
  BY WeightsSum
<1>3. /\ n \in Nat /\ DOMAIN r = 1..n /\ \A i \in 1..n : Weights(r)[i] = r[i].size
  BY <1>1, WeightsSum
<1> HIDE DEF r, n
<1>4. \A i \in 1..n : Weights(q)[i + 1] \in Nat /\ Weights(r)[i] = Weights(q)[i + 1]
  <2> TAKE i \in 1..n
  <2>1. i + 1 \in 1..Len(q)
    BY <1>1, <1>2, <1>3
  <2> QED BY <2>1, <1>1, <1>2, <1>3
<1>5. /\ Summable(Weights(q), 2..(n + 1))
      /\ SumFunctionOnSet(Weights(q), 2..(n + 1)) = SumFunctionOnSet(Weights(r), 1..n)
  BY <1>3, <1>4, SumShift
<1>6. 2..(n + 1) \subseteq 1..Len(q) /\ \A i \in 2..(n + 1) : Weights(q)[i] \in Nat
  BY <1>1, <1>2, <1>3
<1>7. SumFunctionOnSet(Weights(q), 2..(n + 1)) <= SumFunctionOnSet(Weights(q), 1..Len(q))
  <2>1. \A i \in 2..(n + 1) : Weights(q)[i] \in Nat /\ Weights(q)[i] <= Weights(q)[i]
    BY <1>6
  <2> QED BY <1>2, <1>6, <2>1, SumLess
<1> QED BY <1>2, <1>3, <1>5, <1>7, BytesAreASum DEF r

\* A message that arrives last has the highest number.
LEMMA RisingAppend ==
    ASSUME NEW S, NEW q \in Seq(S), NEW m \in S, Rising(q), \A k \in ToSet(q) : k.n < m.n
    PROVE  Rising(Append(q, m))
<1> DEFINE r == Append(q, m)
<1>1. /\ Len(r) = Len(q) + 1 /\ r[Len(q) + 1] = m
      /\ \A i \in 1..Len(q) : r[i] = q[i]
  BY AppendProperties
<1>2. Len(q) \in Nat /\ \A i \in 1..Len(q) : q[i] \in ToSet(q)
  BY LenProperties DEF ToSet
<1> HIDE DEF r
<1>3. ASSUME NEW i \in 1..Len(r), NEW j \in 1..Len(r), i < j PROVE r[i].n < r[j].n
  <2>1. i \in 1..Len(q)
    BY <1>1, <1>2, <1>3
  <2>2. CASE j \in 1..Len(q)
    BY <1>1, <1>3, <2>1, <2>2 DEF Rising
  <2>3. CASE j = Len(q) + 1
    BY <1>1, <1>2, <2>1, <2>3
  <2> QED BY <1>1, <1>2, <2>2, <2>3
<1> QED BY <1>3 DEF Rising, r

\* The messages behind the first come after it.
LEMMA RisingTail ==
    ASSUME NEW S, NEW q \in Seq(S), q # <<>>, Rising(q)
    PROVE  Rising(Tail(q)) /\ \A k \in ToSet(Tail(q)) : Head(q).n < k.n
<1> DEFINE r == Tail(q)
<1>1. r \in Seq(S) /\ Len(r) = Len(q) - 1 /\ \A i \in 1..Len(r) : r[i] = q[i + 1]
  BY HeadTailProperties
<1>2. Len(q) \in Nat \ {0} /\ Head(q) = q[1]
  BY EmptySeq
<1>3. DOMAIN r = 1..Len(r)
  BY <1>1, LenProperties
<1> HIDE DEF r
<1>4. \A i \in 1..Len(r) : i + 1 \in 1..Len(q) /\ 1 < i + 1
  BY <1>1, <1>2
<1>5. ASSUME NEW i \in 1..Len(r), NEW j \in 1..Len(r), i < j PROVE r[i].n < r[j].n
  <2>1. i + 1 < j + 1
    BY <1>1, <1>2, <1>5
  <2> QED BY <2>1, <1>1, <1>4 DEF Rising
<1>6. ASSUME NEW i \in 1..Len(r) PROVE Head(q).n < r[i].n
  BY <1>1, <1>2, <1>4 DEF Rising
<1> QED BY <1>3, <1>5, <1>6 DEF Rising, ToSet, r

\* Answer `a` may come before `b`: they are to one message only as a result and its end, and
\* those of handled messages come in the messages' order.
Before(a, b) ==
    /\ a.n = b.n => a.what = "result" /\ b.what = "done"
    /\ ~Ws!AtOnce(a) /\ ~Ws!AtOnce(b) => a.n <= b.n

InOrder(q) == \A i, j \in 1..Len(q) : i < j => Before(q[i], q[j])

\* The model's property says this of what was sent.
LEMMA SentInOrder == Ws!AnswersInOrder <=> InOrder(Ws!Sent)
BY DEF Ws!AnswersInOrder, InOrder, Before

\* An answer that may come after each that was sent keeps the order.
LEMMA InOrderAppend ==
    ASSUME NEW S, NEW q \in Seq(S), NEW b \in S, InOrder(q), \A a \in ToSet(q) : Before(a, b)
    PROVE  InOrder(Append(q, b))
<1> DEFINE r == Append(q, b)
<1>1. /\ Len(r) = Len(q) + 1 /\ r[Len(q) + 1] = b
      /\ \A i \in 1..Len(q) : r[i] = q[i]
  BY AppendProperties
<1>2. Len(q) \in Nat /\ \A i \in 1..Len(q) : q[i] \in ToSet(q)
  BY LenProperties DEF ToSet
<1> HIDE DEF r
<1>3. ASSUME NEW i \in 1..Len(r), NEW j \in 1..Len(r), i < j PROVE Before(r[i], r[j])
  <2>1. i \in 1..Len(q)
    BY <1>1, <1>2, <1>3
  <2>2. CASE j \in 1..Len(q)
    BY <1>1, <1>3, <2>1, <2>2 DEF InOrder
  <2>3. CASE j = Len(q) + 1
    BY <1>1, <1>2, <2>1, <2>3
  <2> QED BY <1>1, <1>2, <2>2, <2>3
<1> QED BY <1>3 DEF InOrder, r

\* What the client received is a beginning of what was sent.
LEMMA ReceivedInOrder ==
    ASSUME NEW S, NEW p \in Seq(S), NEW q \in Seq(S)
    PROVE  /\ p \o q \in Seq(S) /\ ToSet(p) \subseteq ToSet(p \o q)
           /\ InOrder(p \o q) => InOrder(p)
<1>1. /\ p \o q \in Seq(S) /\ Len(p \o q) = Len(p) + Len(q)
      /\ \A i \in 1..Len(p) + Len(q) : (p \o q)[i] = IF i <= Len(p) THEN p[i] ELSE q[i - Len(p)]
  BY ConcatProperties
<1>2. /\ Len(p) \in Nat /\ Len(q) \in Nat /\ DOMAIN p = 1..Len(p)
      /\ DOMAIN (p \o q) = 1..Len(p \o q)
  BY <1>1, LenProperties
<1>3. \A i \in 1..Len(p) : i \in 1..Len(p \o q) /\ (p \o q)[i] = p[i]
  BY <1>1, <1>2
<1> QED BY <1>1, <1>2, <1>3 DEF ToSet, InOrder

\* An answer given to the writer is sent last.
LEMMA SentAppend ==
    ASSUME NEW S, NEW p \in Seq(S), NEW q \in Seq(S), NEW b \in S
    PROVE  p \o Append(q, b) = Append(p \o q, b)
<1>1. <<b>> \in Seq(S) /\ p \o q \in Seq(S)
  BY ConcatProperties
<1>2. Append(q, b) = q \o <<b>> /\ Append(p \o q, b) = (p \o q) \o <<b>>
  BY <1>1, AppendIsConcat
<1>3. (p \o q) \o <<b>> = p \o (q \o <<b>>)
  BY <1>1, ConcatAssociative
<1> QED BY <1>2, <1>3

\* An answer the writer sends was sent already.
LEMMA SentMoves ==
    ASSUME NEW S, NEW p \in Seq(S), NEW q \in Seq(S), q # <<>>
    PROVE  Append(p, Head(q)) \o Tail(q) = p \o q
<1>1. Head(q) \in S /\ Tail(q) \in Seq(S) /\ <<Head(q)>> \in Seq(S)
  BY HeadTailProperties
<1>2. Append(p, Head(q)) = p \o <<Head(q)>>
  BY <1>1, AppendIsConcat
<1>3. (p \o <<Head(q)>>) \o Tail(q) = p \o (<<Head(q)>> \o Tail(q))
  BY <1>1, ConcatAssociative
<1>4. <<Head(q)>> \o Tail(q) = q
  <2> DEFINE h == <<Head(q)>>
             r == h \o Tail(q)
  <2>1. Len(h) = 1 /\ h[1] = Head(q) /\ Head(q) = q[1] /\ Len(q) \in Nat \ {0}
    BY EmptySeq
  <2>2. Len(Tail(q)) = Len(q) - 1 /\ \A i \in 1..Len(Tail(q)) : Tail(q)[i] = q[i + 1]
    BY HeadTailProperties
  <2>3. /\ r \in Seq(S) /\ Len(r) = Len(h) + Len(Tail(q))
        /\ \A i \in 1..Len(h) + Len(Tail(q)) :
               r[i] = IF i <= Len(h) THEN h[i] ELSE Tail(q)[i - Len(h)]
    BY <1>1, ConcatProperties
  <2> HIDE DEF h, r
  <2>4. Len(r) = Len(q)
    BY <2>1, <2>2, <2>3
  <2>5. ASSUME NEW i \in 1..Len(q) PROVE r[i] = q[i]
    <3>1. CASE i = 1
      BY <3>1, <2>1, <2>2, <2>3
    <3>2. CASE i # 1
      <4>1. i - 1 \in 1..Len(Tail(q)) /\ (i - 1) + 1 = i
        BY <3>2, <2>1, <2>2
      <4>2. r[i] = Tail(q)[i - 1]
        BY <3>2, <2>1, <2>2, <2>3
      <4> QED BY <4>1, <4>2, <2>2
    <3> QED BY <3>1, <3>2
  <2>6. r = q
    BY <2>3, <2>4, <2>5, SeqEqual
  <2> QED BY <2>6 DEF r, h
<1> QED BY <1>2, <1>3, <1>4

-----------------------------------------------------------------------------
(* A step of a connection keeps each part. *)

\* The steps of a connection.
LEMMA WsCases ==
    ASSUME Ws!Next
    PROVE  \/ Ws!Send \/ Ws!Leave \/ Ws!SessionLeaves \/ Ws!HandOut \/ Ws!WriterSends
           \/ Ws!PopWaiting \/ Ws!ReadNext \/ Ws!Answered \/ Ws!Call \/ Ws!CallEnds
           \/ Ws!HandlerSends \/ Ws!Admit \/ Ws!AnswerAtOnce \/ Ws!ReaderSends
           \/ Ws!End \/ Ws!Close
BY DEF Ws!Next, Ws!Serves, Ws!Reads

\* The answers a handler may have to send.
Due == {<<"pong">>, <<"auth">>, <<"error">>, <<"result", "done">>, <<"done">>}

\* A handler that has its answers waits for a slot of the channel to send the first.
LEMMA AnswersMoves ==
    ASSUME WsTyped, wHandling # None, NEW answers \in Due, NEW ok \in BOOLEAN,
           Ws!Answers(answers, ok)
    PROVE  /\ wHandling' \in WsHandled /\ wHandling'.n = wHandling.n
           /\ wHandling'.at = "send" /\ wHandling'.answers = answers
           /\ wPending' = Append(wPending, "handler") /\ wAuth' \in BOOLEAN
           /\ UNCHANGED <<wClient, wSent, wSession, wSocket, wWaiting, wRefusing, wSlot,
                          wChannel, wGot, wLoop>>
<1>1. wHandling' = [wHandling EXCEPT !.at = "send", !.answers = answers]
  BY DEF Ws!Answers
<1>2. wHandling \in WsHandled
  BY DEF WsTyped
<1>3. answers \in Seq(Ws!Texts)
  <2>1. \A a, b \in Ws!Texts : <<a>> \in Seq(Ws!Texts) /\ <<a, b>> \in Seq(Ws!Texts)
    OBVIOUS
  <2>2. {"pong", "auth", "error", "result", "done"} \subseteq Ws!Texts
    BY DEF Ws!Texts
  <2> QED BY <2>1, <2>2 DEF Due
<1>4. wHandling' \in WsHandled /\ wHandling'.n = wHandling.n
  BY <1>1, <1>2, <1>3 DEF WsHandled
<1>5. wHandling'.at = "send" /\ wHandling'.answers = answers
  BY <1>1, <1>2 DEF WsHandled
<1> QED BY <1>4, <1>5 DEF Ws!Answers, Ws!outside

\* The steps in which the handler works.
HandlerWorks == Ws!Answered \/ Ws!Call \/ Ws!CallEnds

\* It has sent nothing before, and has answers to send afterwards or runs a call.
LEMMA HandlerMoves ==
    ASSUME WsTyped, HandlerWorks
    PROVE  /\ wHandling # None /\ wRefusing = None /\ wHandling.at # "send"
           /\ wHandling' \in WsHandled /\ wHandling'.n = wHandling.n
           /\ wHandling'.at = "send" => wHandling'.answers \in Due
           /\ wPending' \in {wPending, Append(wPending, "handler")} /\ wAuth' \in BOOLEAN
           /\ UNCHANGED <<wClient, wSent, wSession, wSocket, wWaiting, wRefusing, wSlot,
                          wChannel, wGot, wLoop>>
<1>1. CASE Ws!Answered
  <2>1. PICK answers \in Due, ok \in BOOLEAN : Ws!Answers(answers, ok)
    <3>1. wHandling.kind \in Ws!Kinds
      BY <1>1 DEF Ws!Answered, Ws!Polled, WsTyped, WsHandled
    <3>2. wHandling.kind \in {"ping", "auth", "tool", "bad"}
      BY <3>1 DEF Ws!Kinds
    <3>3. wAuth \in BOOLEAN /\ (wAuth \/ wSession) \in BOOLEAN
      BY DEF WsTyped
    <3>4. CASE wHandling.kind = "ping"
      BY <1>1, <3>3, <3>4 DEF Ws!Answered, Due
    <3>5. CASE wHandling.kind = "auth"
      BY <1>1, <3>3, <3>5 DEF Ws!Answered, Due
    <3>6. CASE wHandling.kind = "tool"
      BY <1>1, <3>6 DEF Ws!Answered, Due
    <3>7. CASE wHandling.kind = "bad"
      BY <1>1, <3>3, <3>7 DEF Ws!Answered, Due
    <3> QED BY <3>2, <3>4, <3>5, <3>6, <3>7
  <2>2. wHandling # None /\ wRefusing = None /\ wHandling.at = "start"
    BY <1>1 DEF Ws!Answered, Ws!Polled
  <2> QED BY <2>1, <2>2, AnswersMoves
<1>2. CASE Ws!CallEnds
  <2>1. PICK answers \in Due : Ws!Answers(answers, wAuth)
    BY <1>2 DEF Ws!CallEnds, Due
  <2>2. wHandling # None /\ wRefusing = None /\ wHandling.at = "call" /\ wAuth \in BOOLEAN
    BY <1>2 DEF Ws!CallEnds, Ws!Polled, WsTyped
  <2> QED BY <2>1, <2>2, AnswersMoves
<1>3. CASE Ws!Call
  <2>1. /\ wHandling # None /\ wRefusing = None /\ wHandling.at = "start"
        /\ wHandling' = [wHandling EXCEPT !.at = "call"]
    BY <1>3 DEF Ws!Call, Ws!Polled
  <2>2. wHandling' \in WsHandled /\ wHandling'.n = wHandling.n /\ wHandling'.at = "call"
    BY <2>1 DEF WsTyped, WsHandled
  <2> QED BY <1>3, <2>1, <2>2 DEF Ws!Call, Ws!outside, Ws!queues, WsTyped
<1> QED BY <1>1, <1>2, <1>3 DEF HandlerWorks

\* What a handler has to send is one answer, or a result and its end.
LEMMA DueAnswers ==
    ASSUME NEW answers \in Due
    PROVE  /\ Head(answers) \in Ws!Texts
           /\ Len(answers) = 1 \/ answers = <<"result", "done">>
           /\ answers = <<"done">> => Head(answers) = "done"
BY DEF Due, Ws!Texts

\* A handler that sends gives the writer its first answer; one that goes on sent the result,
\* and only its end is left.
LEMMA HandlerSendsMoves ==
    ASSUME WsTyped, WsDue, Ws!HandlerSends
    PROVE  LET b == Ws!Answer(wHandling.n, Head(wHandling.answers)) IN
           /\ wHandling # None /\ wRefusing = None /\ wHandling.at = "send"
           /\ b \in WsAnswer /\ wChannel' = Append(wChannel, b)
           /\ wHandling.answers = <<"done">> => b.what = "done"
           /\ "handler" \in wSlot /\ wSlot' = wSlot \ {"handler"}
           /\ wHandling' \in WsHandled \union {None}
           /\ wHandling' # None =>
                 /\ wHandling'.n = wHandling.n /\ wHandling'.at = "send"
                 /\ wHandling'.answers = <<"done">> /\ b.what = "result"
                 /\ wHandling.answers # <<"done">>
           /\ wPending' \in {wPending, Append(wPending, "handler")}
           /\ UNCHANGED <<wClient, wSent, wSession, wSocket, wWaiting, wRefusing, wGot, wLoop,
                          wAuth>>
<1> DEFINE answers == wHandling.answers
           b == Ws!Answer(wHandling.n, Head(answers))
<1>1. /\ wHandling # None /\ wRefusing = None /\ wHandling.at = "send"
      /\ wHandling \in WsHandled
  BY DEF Ws!HandlerSends, Ws!Polled, WsTyped
<1>2. answers \in Due
  BY <1>1 DEF WsDue, Due
<1>3. /\ Head(answers) \in Ws!Texts
      /\ Len(answers) = 1 \/ answers = <<"result", "done">>
      /\ answers = <<"done">> => Head(answers) = "done"
  BY <1>2, DueAnswers
<1>4. b \in WsAnswer /\ b.what = Head(answers)
  BY <1>1, <1>3 DEF WsHandled, WsAnswer, Ws!Answer
<1>5. /\ wChannel' = Append(wChannel, b) /\ "handler" \in wSlot /\ wSlot' = wSlot \ {"handler"}
      /\ UNCHANGED <<wClient, wSent, wSession, wSocket, wWaiting, wRefusing, wGot, wLoop, wAuth>>
  BY DEF Ws!HandlerSends, Ws!outside
<1>6. CASE Len(answers) = 1
  <2>1. wHandling' = None /\ wPending' = wPending
    BY <1>6 DEF Ws!HandlerSends
  <2> QED BY <1>1, <1>3, <1>4, <1>5, <2>1
<1>7. CASE Len(answers) # 1
  <2>1. answers = <<"result", "done">>
    BY <1>3, <1>7
  <2>2. Head(answers) = "result" /\ Tail(answers) = <<"done">> /\ answers # <<"done">>
    BY <2>1
  <2>3. /\ wHandling' = [wHandling EXCEPT !.answers = Tail(answers)]
        /\ wPending' = Append(wPending, "handler")
    BY <1>7 DEF Ws!HandlerSends
  <2>4. wHandling' \in WsHandled
    <3>1. <<"done">> \in Seq(Ws!Texts)
      BY DEF Ws!Texts
    <3> QED BY <1>1, <2>2, <2>3, <3>1 DEF WsHandled
  <2>5. wHandling'.n = wHandling.n /\ wHandling'.at = "send" /\ wHandling'.answers = <<"done">>
    BY <1>1, <2>2, <2>3 DEF WsHandled
  <2> QED BY <1>1, <1>3, <1>4, <1>5, <2>2, <2>3, <2>4, <2>5
<1> QED BY <1>6, <1>7

\* A message that is read is one of the client's.
LEMMA ReadMoves ==
    ASSUME WsTyped, wSocket # <<>>
    PROVE  Head(wSocket) \in Ws!Messages /\ Tail(wSocket) \in Seq(Ws!Messages)
BY HeadTailProperties DEF WsTyped

\* The record of a message that starts to be handled.
LEMMA HandleMoves ==
    ASSUME NEW m \in Ws!Messages, Ws!Handle(m)
    PROVE  /\ wHandling' \in WsHandled /\ wHandling'.n = m.n /\ wHandling'.at = "start"
           /\ UNCHANGED <<wClient, wSent, wSession, wRefusing, wSlot, wPending, wChannel, wGot,
                          wLoop, wAuth>>
<1>1. wHandling' = [n |-> m.n, kind |-> m.kind, at |-> "start", answers |-> <<>>]
  BY DEF Ws!Handle
<1>2. <<>> \in Seq(Ws!Texts)
  BY EmptySeq
<1>3. wHandling' \in WsHandled
  BY <1>1, <1>2 DEF Ws!Messages, WsHandled
<1> QED BY <1>1, <1>3 DEF Ws!Handle, Ws!outside, Ws!queues

\* The steps that handle the next message.
HandleNext == Ws!PopWaiting \/ Ws!ReadNext

\* They take it from the queue, or from the socket if none waits.
LEMMA HandleNextMoves ==
    ASSUME WsTyped, HandleNext
    PROVE  \E m \in Ws!Messages :
           /\ wHandling = None /\ wHandling' \in WsHandled
           /\ wHandling'.n = m.n /\ wHandling'.at = "start"
           /\ \/ /\ wWaiting # <<>> /\ m = Head(wWaiting) /\ wWaiting' = Tail(wWaiting)
                 /\ wSocket' = wSocket
              \/ /\ wWaiting = <<>> /\ wSocket # <<>> /\ m = Head(wSocket)
                 /\ wSocket' = Tail(wSocket) /\ wWaiting' = wWaiting
           /\ UNCHANGED <<wClient, wSent, wSession, wRefusing, wSlot, wPending, wChannel, wGot,
                          wLoop, wAuth>>
<1>1. CASE Ws!PopWaiting
  <2>1. Head(wWaiting) \in Ws!Messages
    BY <1>1, HeadTailProperties DEF Ws!PopWaiting, WsTyped
  <2> QED BY <1>1, <2>1, HandleMoves DEF Ws!PopWaiting
<1>2. CASE Ws!ReadNext
  <2>1. Head(wSocket) \in Ws!Messages
    BY <1>2, ReadMoves DEF Ws!ReadNext
  <2> QED BY <1>2, <2>1, HandleMoves DEF Ws!ReadNext
<1> QED BY <1>1, <1>2 DEF HandleNext

\* Types are kept.
LEMMA WsTypedStep == WsTyped /\ WsDue /\ Ws!Next => WsTyped'
<1> SUFFICES ASSUME WsTyped, WsDue, Ws!Next PROVE WsTyped'
  OBVIOUS
<1>0. MaxMessages \in Nat
  BY WsConstants
<1>1. /\ wPending \in Seq(Ends) /\ wChannel \in Seq(WsAnswer) /\ wGot \in Seq(WsAnswer)
      /\ wSocket \in Seq(Ws!Messages) /\ wWaiting \in Seq(Ws!Messages)
      /\ \A e \in Ends : Append(wPending, e) \in Seq(Ends)
  BY AppendProperties DEF WsTyped
<1>a. "handler" \in Ends /\ "reader" \in Ends
  BY DEF Ends
<1>2. CASE Ws!Send
  <2>1. PICK kind \in Ws!Kinds, size \in Sizes :
            wSocket' = Append(wSocket, [n |-> wSent + 1, kind |-> kind, size |-> size])
    BY <1>2 DEF Ws!Send
  <2>2. wSent' = wSent + 1 /\ wSent' \in 0..MaxMessages /\ wSent + 1 \in 1..MaxMessages
    BY <1>0, <1>2 DEF Ws!Send, WsTyped
  <2>3. [n |-> wSent + 1, kind |-> kind, size |-> size] \in Ws!Messages
    BY <2>2 DEF Ws!Messages
  <2>4. wSocket' \in Seq(Ws!Messages)
    BY <1>1, <2>1, <2>3, AppendProperties
  <2> QED BY <1>2, <2>2, <2>4 DEF Ws!Send, Ws!queues, WsTyped
<1>3. CASE Ws!Leave
  BY <1>3 DEF Ws!Leave, Ws!queues, WsTyped
<1>4. CASE Ws!SessionLeaves
  BY <1>4 DEF Ws!SessionLeaves, Ws!queues, WsTyped
<1>5. CASE Ws!HandOut
  <2>1. Head(wPending) \in Ends /\ Tail(wPending) \in Seq(Ends)
    BY <1>1, <1>5, HeadTailProperties DEF Ws!HandOut
  <2> QED BY <1>5, <2>1 DEF Ws!HandOut, Ws!outside, WsTyped
<1>6. CASE Ws!WriterSends
  <2>1. Head(wChannel) \in WsAnswer /\ Tail(wChannel) \in Seq(WsAnswer)
    BY <1>1, <1>6, HeadTailProperties DEF Ws!WriterSends
  <2>2. Append(wGot, Head(wChannel)) \in Seq(WsAnswer)
    BY <1>1, <2>1, AppendProperties
  <2> QED BY <1>6, <2>1, <2>2 DEF Ws!WriterSends, Ws!outside, WsTyped
<1>7. CASE HandleNext
  <2>1. wWaiting' \in Seq(Ws!Messages) /\ wSocket' \in Seq(Ws!Messages)
    BY <1>1, <1>7, HandleNextMoves, HeadTailProperties
  <2> QED BY <1>7, <2>1, HandleNextMoves DEF WsTyped
<1>8. CASE HandlerWorks
  BY <1>1, <1>a, <1>8, HandlerMoves DEF WsTyped
<1>9. CASE Ws!HandlerSends
  <2>1. PICK b \in WsAnswer : wChannel' = Append(wChannel, b)
    BY <1>9, HandlerSendsMoves
  <2>2. wChannel' \in Seq(WsAnswer)
    BY <1>1, <2>1, AppendProperties
  <2> QED BY <1>1, <1>a, <1>9, <2>2, HandlerSendsMoves DEF WsTyped
<1>10. CASE Ws!Admit
  <2>1. wSocket # <<>>
    BY <1>10 DEF Ws!Admit, Ws!Reading, Ws!CanRead
  <2>2. Append(wWaiting, Head(wSocket)) \in Seq(Ws!Messages)
    BY <1>1, <2>1, ReadMoves, AppendProperties
  <2> QED BY <1>10, <2>1, <2>2, ReadMoves DEF Ws!Admit, Ws!Reading, Ws!outside, WsTyped
<1>11. CASE Ws!AnswerAtOnce
  <2>1. wSocket # <<>>
    BY <1>11 DEF Ws!AnswerAtOnce, Ws!Reading, Ws!CanRead
  <2>2. wRefusing' \in WsAnswer
    <3>1. wRefusing' = Ws!Answer(Head(wSocket).n,
                                 IF Head(wSocket).kind = "ping" THEN "pong" ELSE "busy")
      BY <1>11 DEF Ws!AnswerAtOnce
    <3>2. Head(wSocket).n \in 1..MaxMessages
      BY <2>1, ReadMoves DEF Ws!Messages
    <3> QED BY <3>1, <3>2 DEF Ws!Answer, WsAnswer, Ws!Texts
  <2> QED BY <1>1, <1>a, <1>11, <2>1, <2>2, ReadMoves
          DEF Ws!AnswerAtOnce, Ws!Reading, Ws!outside, WsTyped
<1>12. CASE Ws!ReaderSends
  <2>1. Append(wChannel, wRefusing) \in Seq(WsAnswer)
    BY <1>1, <1>12, AppendProperties DEF Ws!ReaderSends, WsTyped
  <2> QED BY <1>12, <2>1 DEF Ws!ReaderSends, Ws!outside, WsTyped
<1>13. CASE Ws!End
  BY <1>13, EmptySeq DEF Ws!End, Ws!outside, WsTyped
<1>14. CASE Ws!Close
  BY <1>14, EmptySeq DEF Ws!Close, Ws!outside, WsTyped
<1> QED BY <1>2, <1>3, <1>4, <1>5, <1>6, <1>7, <1>8, <1>9, <1>10, <1>11, <1>12, <1>13, <1>14,
           WsCases DEF HandleNext, HandlerWorks

\* The model's cardinality is the library's.
LEMMA SameCount == ASSUME NEW S PROVE Ws!Cardinality(S) = Cardinality(S)
BY DEF Ws!Cardinality, Cardinality

\* The slots that are handed out are finitely many.
LEMMA SlotsFinite ==
    ASSUME NEW s \in SUBSET Ends
    PROVE  IsFiniteSet(s) /\ Cardinality(s) \in Nat
<1>1. IsFiniteSet(Ends)
  <2>1. IsFiniteSet({"handler"})
    BY FS_Singleton
  <2>2. IsFiniteSet({"handler"} \union {"reader"})
    BY <2>1, FS_AddElement
  <2>3. Ends = {"handler"} \union {"reader"}
    BY DEF Ends
  <2> QED BY <2>2, <2>3
<1> QED BY <1>1, FS_Subset, FS_CardinalityType

\* Bounds are kept: an answer is written to a slot that was handed out, and a slot only handed
\* out where one is free.
LEMMA WsBoundedStep == WsTyped /\ WsDue /\ WsBounded /\ Ws!Next => WsBounded'
<1> SUFFICES ASSUME WsTyped, WsDue, WsBounded, Ws!Next PROVE WsBounded'
  OBVIOUS
<1>1. /\ wWaiting \in Seq(Ws!Messages) /\ wSocket \in Seq(Ws!Messages)
      /\ wChannel \in Seq(WsAnswer) /\ wSlot \in SUBSET Ends
      /\ Len(wWaiting) \in Nat /\ Len(wChannel) \in Nat
      /\ IsFiniteSet(wSlot) /\ Cardinality(wSlot) \in Nat
      /\ Capacity \in Nat /\ MaxWaiting \in Nat /\ MaxBytes \in Nat
  BY WsConstants, SlotsFinite, LenProperties DEF WsTyped
<1>2. /\ Len(wWaiting) <= MaxWaiting /\ Ws!Bytes(wWaiting) <= MaxBytes
      /\ Len(wChannel) + Cardinality(wSlot) <= Capacity
  BY DEF WsBounded
<1>3. Ws!Bytes(wWaiting) \in Nat
  BY <1>1, WeightsSum, SumType, BytesAreASum
<1> DEFINE Same == /\ Len(wWaiting') <= MaxWaiting
                   /\ Ws!Bytes(wWaiting') <= MaxBytes
           Room == Len(wChannel') + Cardinality(wSlot') <= Capacity
<1>4. CASE Ws!Send \/ Ws!Leave \/ Ws!SessionLeaves
  BY <1>2, <1>4 DEF Ws!Send, Ws!Leave, Ws!SessionLeaves, Ws!queues, WsBounded
<1>5. CASE Ws!HandOut
  <2>1. Len(wChannel) + Cardinality(wSlot) < Capacity
    BY <1>5, SameCount DEF Ws!HandOut
  <2>2. Cardinality(wSlot \union {Head(wPending)}) <= Cardinality(wSlot) + 1
    <3>1. \A x : \/ Cardinality(wSlot \union {x}) = Cardinality(wSlot)
                \/ Cardinality(wSlot \union {x}) = Cardinality(wSlot) + 1
      BY <1>1, FS_AddElement
    <3> DEFINE k == Cardinality(wSlot \union {Head(wPending)})
    <3>2. k = Cardinality(wSlot) \/ k = Cardinality(wSlot) + 1
      BY <3>1, Zenon
    <3> HIDE DEF k
    <3>3. k <= Cardinality(wSlot) + 1
      BY <1>1, <3>2
    <3> QED BY <3>3 DEF k
  <2>3. Cardinality(wSlot \union {Head(wPending)}) \in Nat
    BY <1>1, FS_AddElement, FS_CardinalityType
  <2>4. Room
    BY <1>1, <1>5, <2>1, <2>2, <2>3 DEF Ws!HandOut
  <2>5. wWaiting' = wWaiting
    BY <1>5 DEF Ws!HandOut
  <2> QED BY <1>2, <2>4, <2>5 DEF WsBounded
<1>6. CASE Ws!WriterSends
  <2>1. Len(Tail(wChannel)) = Len(wChannel) - 1
    BY <1>1, <1>6, HeadTailProperties DEF Ws!WriterSends
  <2>2. Room
    BY <1>1, <1>2, <1>6, <2>1 DEF Ws!WriterSends
  <2>3. wWaiting' = wWaiting
    BY <1>6 DEF Ws!WriterSends
  <2> QED BY <1>2, <2>2, <2>3 DEF WsBounded
<1>7. CASE HandleNext
  <2>1. wChannel' = wChannel /\ wSlot' = wSlot
    BY <1>7, HandleNextMoves
  <2>2. wWaiting' = wWaiting \/ (wWaiting # <<>> /\ wWaiting' = Tail(wWaiting))
    BY <1>7, HandleNextMoves
  <2>3. Same
    <3>1. CASE wWaiting' = wWaiting
      BY <1>2, <3>1
    <3>2. CASE wWaiting # <<>> /\ wWaiting' = Tail(wWaiting)
      <4>1. Len(wWaiting') = Len(wWaiting) - 1
        BY <1>1, <3>2, HeadTailProperties
      <4>2. Ws!Bytes(wWaiting') <= Ws!Bytes(wWaiting)
        BY <1>1, <3>2, BytesTail
      <4>3. Ws!Bytes(wWaiting') \in Nat
        BY <1>1, <3>2, HeadTailProperties, WeightsSum, SumType, BytesAreASum
      <4> QED BY <1>1, <1>2, <1>3, <4>1, <4>2, <4>3
    <3> QED BY <2>2, <3>1, <3>2
  <2> QED BY <1>2, <2>1, <2>3 DEF WsBounded
<1>8. CASE HandlerWorks
  BY <1>2, <1>8, HandlerMoves DEF WsBounded
<1>9. CASE Ws!HandlerSends
  <2>1. PICK b \in WsAnswer : wChannel' = Append(wChannel, b)
    BY <1>9, HandlerSendsMoves
  <2>2. wWaiting' = wWaiting /\ "handler" \in wSlot /\ wSlot' = wSlot \ {"handler"}
    BY <1>9, HandlerSendsMoves
  <2>3. Len(wChannel') = Len(wChannel) + 1
    BY <1>1, <2>1, AppendProperties
  <2>4. Cardinality(wSlot') = Cardinality(wSlot) - 1
    BY <1>1, <2>2, FS_RemoveElement
  <2> QED BY <1>1, <1>2, <2>2, <2>3, <2>4 DEF WsBounded
<1>10. CASE Ws!Admit
  <2>1. /\ wWaiting' = Append(wWaiting, Head(wSocket)) /\ wSocket # <<>>
        /\ wChannel' = wChannel /\ wSlot' = wSlot
        /\ Len(wWaiting) < MaxWaiting /\ Ws!Bytes(wWaiting) + Head(wSocket).size <= MaxBytes
    BY <1>10 DEF Ws!Admit, Ws!Reading, Ws!CanRead, Ws!Fits
  <2>2. Len(wWaiting') = Len(wWaiting) + 1
    BY <1>1, <2>1, ReadMoves, AppendProperties
  <2>3. Ws!Bytes(wWaiting') = Ws!Bytes(wWaiting) + Head(wSocket).size
    BY <1>1, <2>1, ReadMoves, BytesAppend
  <2>4. Same
    BY <1>1, <2>1, <2>2, <2>3
  <2> QED BY <1>2, <2>1, <2>4 DEF WsBounded
<1>11. CASE Ws!AnswerAtOnce
  BY <1>2, <1>11 DEF Ws!AnswerAtOnce, Ws!Reading, WsBounded
<1>12. CASE Ws!ReaderSends
  <2>1. /\ wRefusing \in WsAnswer /\ wChannel' = Append(wChannel, wRefusing)
        /\ wWaiting' = wWaiting /\ "reader" \in wSlot /\ wSlot' = wSlot \ {"reader"}
    BY <1>12 DEF Ws!ReaderSends, WsTyped
  <2>2. Len(wChannel') = Len(wChannel) + 1
    BY <1>1, <2>1, AppendProperties
  <2>3. Cardinality(wSlot') = Cardinality(wSlot) - 1
    BY <1>1, <2>1, FS_RemoveElement
  <2> QED BY <1>1, <1>2, <2>1, <2>2, <2>3 DEF WsBounded
<1>13. CASE Ws!End
  <2>1. wWaiting' = <<>> /\ wSlot' = {} /\ wChannel' = wChannel
    BY <1>13 DEF Ws!End
  <2>2. Len(wWaiting') = 0 /\ Ws!Bytes(wWaiting') = 0 /\ Cardinality(wSlot') = 0
    BY <2>1, BytesEmpty, FS_EmptySet, EmptySeq
  <2> QED BY <1>1, <1>2, <2>1, <2>2 DEF WsBounded
<1>14. CASE Ws!Close
  <2>1. wChannel' = <<>> /\ wWaiting' = wWaiting /\ wSlot' = wSlot
    BY <1>14 DEF Ws!Close
  <2>2. Len(wChannel') = 0
    BY <2>1
  <2> QED BY <1>1, <1>2, <2>1, <2>2 DEF WsBounded
<1> QED BY <1>4, <1>5, <1>6, <1>7, <1>8, <1>9, <1>10, <1>11, <1>12, <1>13, <1>14,
           WsCases DEF HandleNext, HandlerWorks

\* The numbers of messages and answers can be compared.
LEMMA WsNumbers ==
    ASSUME WsTyped
    PROVE  /\ \A m \in ToSet(wWaiting) \union ToSet(wSocket) : m \in Ws!Messages /\ m.n \in Nat
           /\ \A m \in Ws!Messages : m.n \in Nat
           /\ \A a \in WsAnswer : a.n \in Nat
           /\ \A h \in WsHandled : h.n \in Nat
           /\ wSent \in Nat
<1>1. 1..MaxMessages \subseteq Nat /\ 0..MaxMessages \subseteq Nat
  BY WsConstants
<1>2. /\ \A m \in Ws!Messages : m.n \in Nat
      /\ \A a \in WsAnswer : a.n \in Nat
      /\ \A h \in WsHandled : h.n \in Nat
  BY <1>1 DEF Ws!Messages, WsAnswer, WsHandled
<1>3. ToSet(wWaiting) \subseteq Ws!Messages /\ ToSet(wSocket) \subseteq Ws!Messages
  BY LenProperties, ElementOfSeq DEF WsTyped, ToSet
<1> QED BY <1>1, <1>2, <1>3 DEF WsTyped

\* The messages keep their order from the socket through the queue to the handler.
LEMMA WsLineStep == WsTyped /\ WsDue /\ WsLine /\ Ws!Next => WsLine'
<1> SUFFICES ASSUME WsTyped, WsDue, WsLine, Ws!Next PROVE WsLine'
  OBVIOUS
<1>1. /\ wWaiting \in Seq(Ws!Messages) /\ wSocket \in Seq(Ws!Messages)
      /\ wHandling # None => wHandling.n \in Nat
  BY WsNumbers DEF WsTyped
<1>2. CASE Ws!Send
  <2>1. PICK kind \in Ws!Kinds, size \in Sizes :
            wSocket' = Append(wSocket, [n |-> wSent + 1, kind |-> kind, size |-> size])
    BY <1>2 DEF Ws!Send
  <2> DEFINE m == [n |-> wSent + 1, kind |-> kind, size |-> size]
  <2>2. wSent' = wSent + 1 /\ wWaiting' = wWaiting /\ wHandling' = wHandling
    BY <1>2 DEF Ws!Send
  <2>3. m \in Ws!Messages /\ m.n = wSent + 1
    <3>1. wSent + 1 \in 1..MaxMessages
      BY <1>2, WsConstants DEF Ws!Send, WsTyped
    <3> QED BY <3>1 DEF Ws!Messages
  <2> HIDE DEF m
  <2>4. ToSet(wSocket') = ToSet(wSocket) \union {m}
    BY <1>1, <2>1, <2>3, AppendElements DEF m
  <2>5. \A k \in ToSet(wWaiting) \union ToSet(wSocket) : k.n < m.n /\ k.n <= wSent'
    BY <2>2, <2>3, WsNumbers DEF WsLine
  <2>6. Rising(wSocket')
    BY <1>1, <2>1, <2>3, <2>5, RisingAppend DEF m, WsLine
  <2>7. \A k \in ToSet(wWaiting'), l \in ToSet(wSocket') : k.n < l.n
    BY <2>2, <2>4, <2>5 DEF WsLine
  <2>8. \A k \in ToSet(wWaiting') \union ToSet(wSocket') : k.n <= wSent'
    BY <2>2, <2>3, <2>4, <2>5, WsNumbers
  <2>9. wHandling' # None =>
            /\ wHandling'.n <= wSent'
            /\ \A k \in ToSet(wWaiting') \union ToSet(wSocket') : wHandling'.n < k.n
    BY <1>1, <2>2, <2>3, <2>4, WsNumbers DEF WsLine
  <2> QED BY <2>2, <2>6, <2>7, <2>8, <2>9 DEF WsLine
<1>3. CASE Ws!Leave \/ Ws!SessionLeaves \/ Ws!HandOut \/ Ws!WriterSends \/ Ws!ReaderSends
           \/ Ws!Close
  <2>1. UNCHANGED <<wSent, wSocket, wWaiting, wHandling>>
    BY <1>3 DEF Ws!Leave, Ws!SessionLeaves, Ws!HandOut, Ws!WriterSends, Ws!ReaderSends, Ws!Close,
                Ws!outside
  <2> QED BY <2>1 DEF WsLine
<1>4. CASE HandleNext
  <2>1. PICK m \in Ws!Messages :
            /\ wHandling = None /\ wHandling'.n = m.n /\ wSent' = wSent
            /\ \/ /\ wWaiting # <<>> /\ m = Head(wWaiting) /\ wWaiting' = Tail(wWaiting)
                  /\ wSocket' = wSocket
               \/ /\ wWaiting = <<>> /\ wSocket # <<>> /\ m = Head(wSocket)
                  /\ wSocket' = Tail(wSocket) /\ wWaiting' = wWaiting
    BY <1>4, HandleNextMoves
  <2>2. CASE /\ wWaiting # <<>> /\ m = Head(wWaiting) /\ wWaiting' = Tail(wWaiting)
             /\ wSocket' = wSocket
    <3>1. /\ Rising(wWaiting') /\ \A k \in ToSet(wWaiting') : m.n < k.n
          /\ ToSet(wWaiting) = ToSet(wWaiting') \union {m}
      BY <1>1, <2>2, RisingTail, TailElements DEF WsLine
    <3> QED BY <2>1, <2>2, <3>1 DEF WsLine
  <2>3. CASE /\ wWaiting = <<>> /\ wSocket # <<>> /\ m = Head(wSocket)
             /\ wSocket' = Tail(wSocket) /\ wWaiting' = wWaiting
    <3>1. /\ Rising(wSocket') /\ \A k \in ToSet(wSocket') : m.n < k.n
          /\ ToSet(wSocket) = ToSet(wSocket') \union {m}
      BY <1>1, <2>3, RisingTail, TailElements DEF WsLine
    <3>2. ToSet(wWaiting') = {}
      BY <2>3 DEF ToSet
    <3> QED BY <2>1, <2>3, <3>1, <3>2 DEF WsLine
  <2> QED BY <2>1, <2>2, <2>3
<1>5. CASE HandlerWorks
  <2>1. UNCHANGED <<wSent, wSocket, wWaiting>> /\ wHandling # None /\ wHandling'.n = wHandling.n
    BY <1>5, HandlerMoves
  <2> QED BY <2>1 DEF WsLine
<1>6. CASE Ws!HandlerSends
  <2>1. /\ UNCHANGED <<wSent, wSocket, wWaiting>> /\ wHandling # None
        /\ wHandling' # None => wHandling'.n = wHandling.n
    BY <1>6, HandlerSendsMoves
  <2> QED BY <2>1 DEF WsLine
<1>7. CASE Ws!Admit \/ Ws!AnswerAtOnce
  <2>1. /\ wHandling # None /\ wHandling' = wHandling /\ wSent' = wSent
        /\ wSocket # <<>> /\ wSocket' = Tail(wSocket)
        /\ wWaiting' = wWaiting \/ wWaiting' = Append(wWaiting, Head(wSocket))
    BY <1>7 DEF Ws!Admit, Ws!AnswerAtOnce, Ws!Reading, Ws!CanRead, Ws!outside
  <2> DEFINE m == Head(wSocket)
  <2>2. /\ m \in Ws!Messages /\ Rising(wSocket') /\ \A k \in ToSet(wSocket') : m.n < k.n
        /\ ToSet(wSocket) = ToSet(wSocket') \union {m}
    BY <1>1, <2>1, RisingTail, TailElements DEF WsLine
  <2> HIDE DEF m
  <2>3. CASE wWaiting' = wWaiting
    BY <2>1, <2>2, <2>3 DEF WsLine
  <2>4. CASE wWaiting' = Append(wWaiting, m)
    <3>1. ToSet(wWaiting') = ToSet(wWaiting) \union {m}
      BY <1>1, <2>2, <2>4, AppendElements
    <3>2. \A k \in ToSet(wWaiting) : k.n < m.n
      BY <2>2 DEF WsLine
    <3>3. Rising(wWaiting')
      BY <1>1, <2>2, <2>4, <3>2, RisingAppend DEF WsLine
    <3> QED BY <2>1, <2>2, <3>1, <3>2, <3>3 DEF WsLine
  <2> QED BY <2>1, <2>3, <2>4 DEF m
<1>8. CASE Ws!End
  <2>1. wHandling' = None /\ wWaiting' = <<>> /\ wSocket' = <<>>
    BY <1>8 DEF Ws!End
  <2>2. ToSet(<<>>) = {} /\ Rising(<<>>)
    BY DEF ToSet, Rising
  <2> QED BY <2>1, <2>2 DEF WsLine
<1> QED BY <1>2, <1>3, <1>4, <1>5, <1>6, <1>7, <1>8, WsCases DEF HandleNext, HandlerWorks

\* A message is answered at once only while another one is handled, and is then in no queue.
LEMMA WsRefusedStep == WsTyped /\ WsDue /\ WsLine /\ WsRefused /\ Ws!Next => WsRefused'
<1> SUFFICES ASSUME WsTyped, WsDue, WsLine, WsRefused, Ws!Next, wRefusing' # None
             PROVE  /\ wHandling' # None /\ wRefusing'.n # wHandling'.n
                    /\ wRefusing'.n <= wSent' /\ Ws!AtOnce(wRefusing')
                    /\ \A m \in ToSet(wWaiting') : wRefusing'.n # m.n
                    /\ \A m \in ToSet(wSocket') : wRefusing'.n < m.n
  BY DEF WsRefused, Ws!AtOnce
<1>1. wWaiting \in Seq(Ws!Messages) /\ wSocket \in Seq(Ws!Messages)
  BY DEF WsTyped
<1>2. CASE Ws!Send
  <2>1. PICK kind \in Ws!Kinds, size \in Sizes :
            wSocket' = Append(wSocket, [n |-> wSent + 1, kind |-> kind, size |-> size])
    BY <1>2 DEF Ws!Send
  <2> DEFINE m == [n |-> wSent + 1, kind |-> kind, size |-> size]
  <2>2. /\ wSent' = wSent + 1 /\ wWaiting' = wWaiting /\ wHandling' = wHandling
        /\ wRefusing' = wRefusing
    BY <1>2 DEF Ws!Send
  <2>3. m \in Ws!Messages /\ m.n = wSent + 1
    <3>1. wSent + 1 \in 1..MaxMessages
      BY <1>2, WsConstants DEF Ws!Send, WsTyped
    <3> QED BY <3>1 DEF Ws!Messages
  <2> HIDE DEF m
  <2>4. ToSet(wSocket') = ToSet(wSocket) \union {m}
    BY <1>1, <2>1, <2>3, AppendElements DEF m
  <2>5. wRefusing.n \in Nat /\ wRefusing.n <= wSent /\ wSent \in Nat
    BY <2>2, WsNumbers DEF WsRefused, WsTyped
  <2>6. wRefusing.n <= wSent + 1 /\ wRefusing.n < m.n
    BY <2>3, <2>5
  <2> QED BY <2>2, <2>4, <2>6 DEF WsRefused
<1>3. CASE Ws!Leave \/ Ws!SessionLeaves \/ Ws!HandOut \/ Ws!WriterSends \/ Ws!Close
  <2>1. UNCHANGED <<wSent, wSocket, wWaiting, wHandling, wRefusing>>
    BY <1>3 DEF Ws!Leave, Ws!SessionLeaves, Ws!HandOut, Ws!WriterSends, Ws!Close, Ws!outside
  <2> QED BY <2>1 DEF WsRefused
<1>4. CASE HandleNext
  <2>1. wHandling = None /\ wRefusing' = wRefusing
    BY <1>4, HandleNextMoves
  <2> QED BY <2>1 DEF WsRefused
<1>5. CASE HandlerWorks
  <2>1. wRefusing = None /\ wRefusing' = wRefusing
    BY <1>5, HandlerMoves
  <2> QED BY <2>1
<1>6. CASE Ws!HandlerSends
  <2>1. wRefusing = None /\ wRefusing' = wRefusing
    BY <1>6, HandlerSendsMoves
  <2> QED BY <2>1
<1>7. CASE Ws!Admit
  <2>1. wRefusing = None /\ wRefusing' = wRefusing
    BY <1>7 DEF Ws!Admit, Ws!Reading, Ws!CanRead
  <2> QED BY <2>1
<1>8. CASE Ws!AnswerAtOnce
  <2>1. /\ wHandling # None /\ wHandling' = wHandling /\ wSent' = wSent
        /\ wSocket # <<>> /\ wSocket' = Tail(wSocket) /\ wWaiting' = wWaiting
        /\ wRefusing' = Ws!Answer(Head(wSocket).n,
                                  IF Head(wSocket).kind = "ping" THEN "pong" ELSE "busy")
    BY <1>8 DEF Ws!AnswerAtOnce, Ws!Reading, Ws!CanRead, Ws!outside
  <2> DEFINE m == Head(wSocket)
  <2>2. /\ m \in Ws!Messages /\ \A k \in ToSet(wSocket') : m.n < k.n
        /\ ToSet(wSocket) = ToSet(wSocket') \union {m}
    BY <1>1, <2>1, RisingTail, TailElements DEF WsLine
  <2>3. wRefusing'.n = m.n /\ Ws!AtOnce(wRefusing')
    BY <2>1 DEF Ws!Answer, Ws!AtOnce
  <2> HIDE DEF m
  <2>4. wHandling.n < m.n /\ m.n <= wSent /\ \A k \in ToSet(wWaiting) : k.n < m.n
    BY <2>1, <2>2 DEF WsLine
  <2>5. m.n \in Nat /\ wHandling.n \in Nat /\ \A k \in ToSet(wWaiting) : k.n \in Nat
    BY <2>1, <2>2, WsNumbers DEF WsTyped
  <2> QED BY <2>1, <2>2, <2>3, <2>4, <2>5
<1>9. CASE Ws!ReaderSends \/ Ws!End
  BY <1>9 DEF Ws!ReaderSends, Ws!End
<1> QED BY <1>2, <1>3, <1>4, <1>5, <1>6, <1>7, <1>8, <1>9, WsCases DEF HandleNext, HandlerWorks

\* A handler has answers of those kinds to send.
LEMMA WsDueStep == WsTyped /\ WsDue /\ Ws!Next => WsDue'
<1> SUFFICES ASSUME WsTyped, WsDue, Ws!Next, wHandling' # None, wHandling'.at = "send"
             PROVE  wHandling'.answers \in Due
  BY DEF WsDue, Due
<1>1. CASE HandlerWorks
  BY <1>1, HandlerMoves
<1>2. CASE Ws!HandlerSends
  BY <1>2, HandlerSendsMoves DEF Due
<1>3. CASE HandleNext
  BY <1>3, HandleNextMoves
<1>4. CASE ~(HandlerWorks \/ Ws!HandlerSends \/ HandleNext \/ Ws!End)
  <2>1. wHandling' = wHandling
    BY <1>4, WsCases DEF HandlerWorks, HandleNext, Ws!Send, Ws!Leave, Ws!SessionLeaves,
        Ws!HandOut, Ws!WriterSends, Ws!ReaderSends, Ws!Close, Ws!Admit, Ws!AnswerAtOnce,
        Ws!Reading, Ws!outside
  <2> QED BY <2>1 DEF WsDue, Due
<1>5. CASE Ws!End
  BY <1>5 DEF Ws!End
<1> QED BY <1>1, <1>2, <1>3, <1>4, <1>5

\* The answers that were sent, and what the steps of the connection do to them.
LEMMA SentTyped ==
    ASSUME WsTyped
    PROVE  /\ Ws!Sent \in Seq(WsAnswer) /\ \A a \in ToSet(Ws!Sent) : a \in WsAnswer /\ a.n \in Nat
           /\ ToSet(wGot) \subseteq ToSet(Ws!Sent) /\ (InOrder(Ws!Sent) => InOrder(wGot))
<1>1. Ws!Sent \in Seq(WsAnswer)
  BY ConcatProperties DEF WsTyped, Ws!Sent
<1>2. \A a \in ToSet(Ws!Sent) : a \in WsAnswer
  BY <1>1, LenProperties, ElementOfSeq DEF ToSet
<1>3. ToSet(wGot) \subseteq ToSet(Ws!Sent) /\ (InOrder(Ws!Sent) => InOrder(wGot))
  BY ReceivedInOrder DEF WsTyped, Ws!Sent
<1> QED BY <1>1, <1>2, <1>3, WsNumbers

\* An answer the writer is given comes after those that were sent.
LEMMA GivenAnswer ==
    ASSUME WsTyped, NEW b \in WsAnswer, wChannel' = Append(wChannel, b), wGot' = wGot
    PROVE  /\ Ws!Sent' = Append(Ws!Sent, b)
           /\ ToSet(Ws!Sent') = ToSet(Ws!Sent) \union {b}
<1>1. wGot \in Seq(WsAnswer) /\ wChannel \in Seq(WsAnswer) /\ Ws!Sent \in Seq(WsAnswer)
  BY SentTyped DEF WsTyped
<1>2. wGot \o Append(wChannel, b) = Append(wGot \o wChannel, b)
  BY <1>1, SentAppend
<1>3. Ws!Sent' = Append(Ws!Sent, b)
  BY <1>2 DEF Ws!Sent
<1> QED BY <1>1, <1>3, AppendElements

\* The answers are sent in the messages' order, and none follows that does not belong there.
LEMMA WsSaidStep == WsInv /\ Ws!Next => WsSaid'
<1> SUFFICES ASSUME WsInv, Ws!Next
             PROVE  (\A a \in ToSet(Ws!Sent') : Past(a)') /\ InOrder(Ws!Sent')
  <2>1. InOrder(Ws!Sent') <=> Ws!AnswersInOrder'
    BY DEF InOrder, Before, Ws!AnswersInOrder
  <2> QED BY <2>1 DEF WsSaid
<1> USE DEF WsInv
<1>0. /\ \A a \in ToSet(Ws!Sent) : Past(a) /\ a \in WsAnswer /\ a.n \in Nat
      /\ InOrder(Ws!Sent) /\ Ws!Sent \in Seq(WsAnswer)
  BY SentInOrder, SentTyped DEF WsSaid
<1>1. wWaiting \in Seq(Ws!Messages) /\ wSocket \in Seq(Ws!Messages)
  BY DEF WsTyped
<1>2. CASE Ws!Send
  <2>1. PICK kind \in Ws!Kinds, size \in Sizes :
            wSocket' = Append(wSocket, [n |-> wSent + 1, kind |-> kind, size |-> size])
    BY <1>2 DEF Ws!Send
  <2> DEFINE m == [n |-> wSent + 1, kind |-> kind, size |-> size]
  <2>2. /\ wSent' = wSent + 1 /\ wWaiting' = wWaiting /\ wHandling' = wHandling
        /\ wRefusing' = wRefusing /\ Ws!Sent' = Ws!Sent
    BY <1>2 DEF Ws!Send, Ws!queues, Ws!Sent
  <2>3. m \in Ws!Messages /\ m.n = wSent + 1
    <3>1. wSent + 1 \in 1..MaxMessages
      BY <1>2, WsConstants DEF Ws!Send, WsTyped
    <3> QED BY <3>1 DEF Ws!Messages
  <2> HIDE DEF m
  <2>4. ToSet(wSocket') = ToSet(wSocket) \union {m}
    BY <1>1, <2>1, <2>3, AppendElements DEF m
  <2>5. ASSUME NEW a \in ToSet(Ws!Sent) PROVE Past(a)'
    <3>1. a.n <= wSent /\ a.n \in Nat /\ wSent \in Nat
      BY <1>0, WsNumbers DEF Past
    <3>2. a.n <= wSent + 1 /\ a.n < m.n
      BY <2>3, <3>1
    <3>3. Past(a)
      BY <1>0
    <3> QED BY <2>2, <2>4, <3>2, <3>3 DEF Past
  <2> QED BY <1>0, <2>2, <2>5
<1>3. CASE Ws!Leave \/ Ws!SessionLeaves \/ Ws!HandOut
  <2>1. UNCHANGED <<wSent, wSocket, wWaiting, wHandling, wRefusing>> /\ Ws!Sent' = Ws!Sent
    BY <1>3 DEF Ws!Leave, Ws!SessionLeaves, Ws!HandOut, Ws!outside, Ws!queues, Ws!Sent
  <2> QED BY <1>0, <2>1 DEF Past
<1>4. CASE Ws!WriterSends
  <2>1. UNCHANGED <<wSent, wSocket, wWaiting, wHandling, wRefusing>>
    BY <1>4 DEF Ws!WriterSends, Ws!outside
  <2>2. Append(wGot, Head(wChannel)) \o Tail(wChannel) = wGot \o wChannel
    BY <1>4, SentMoves DEF Ws!WriterSends, WsTyped
  <2>3. Ws!Sent' = Ws!Sent
    BY <1>4, <2>2 DEF Ws!WriterSends, Ws!Sent
  <2> QED BY <1>0, <2>1, <2>3 DEF Past
<1>5. CASE HandleNext
  <2>1. PICK m \in Ws!Messages :
            /\ wHandling = None /\ wHandling'.n = m.n /\ wSent' = wSent /\ wRefusing' = wRefusing
            /\ wHandling' \in WsHandled
            /\ \/ /\ wWaiting # <<>> /\ m = Head(wWaiting) /\ wWaiting' = Tail(wWaiting)
                  /\ wSocket' = wSocket
               \/ /\ wWaiting = <<>> /\ wSocket # <<>> /\ m = Head(wSocket)
                  /\ wSocket' = Tail(wSocket) /\ wWaiting' = wWaiting
    BY <1>5, HandleNextMoves
  <2>2. Ws!Sent' = Ws!Sent
    BY <1>5, HandleNextMoves DEF Ws!Sent
  <2>3. /\ ToSet(wWaiting') \subseteq ToSet(wWaiting) /\ ToSet(wSocket') \subseteq ToSet(wSocket)
        /\ m \in ToSet(wWaiting) \/ m \in ToSet(wSocket)
    BY <1>1, <2>1, TailElements
  <2>4. ASSUME NEW a \in ToSet(Ws!Sent) PROVE Past(a)'
    <3>1. Past(a) /\ a.n \in Nat /\ m.n \in Nat
      BY <1>0, WsNumbers
    <3>2. a.n # m.n /\ (~Ws!AtOnce(a) => a.n <= m.n)
      BY <2>3, <3>1 DEF Past
    <3> QED BY <2>1, <2>3, <3>1, <3>2 DEF Past
  <2> QED BY <1>0, <2>2, <2>4
<1>6. CASE HandlerWorks
  <2>1. /\ UNCHANGED <<wSent, wSocket, wWaiting, wRefusing>> /\ Ws!Sent' = Ws!Sent
        /\ wHandling # None /\ wHandling.at # "send" /\ wHandling'.n = wHandling.n
    BY <1>6, HandlerMoves DEF Ws!Sent
  <2> QED BY <1>0, <2>1 DEF Past
<1>7. CASE Ws!HandlerSends
  <2>1. PICK b \in WsAnswer :
        /\ wHandling # None /\ wRefusing = None /\ wHandling.at = "send"
        /\ b = Ws!Answer(wHandling.n, Head(wHandling.answers))
        /\ wChannel' = Append(wChannel, b)
        /\ wHandling.answers = <<"done">> => b.what = "done"
        /\ wHandling' # None =>
              /\ wHandling'.n = wHandling.n /\ wHandling'.at = "send"
              /\ wHandling'.answers = <<"done">> /\ b.what = "result"
              /\ wHandling.answers # <<"done">>
        /\ UNCHANGED <<wSent, wSocket, wWaiting, wRefusing, wGot>>
    BY <1>7, HandlerSendsMoves
  <2>2. b.n = wHandling.n
    BY <2>1 DEF Ws!Answer
  <2>3. Ws!Sent' = Append(Ws!Sent, b) /\ ToSet(Ws!Sent') = ToSet(Ws!Sent) \union {b}
    BY <2>1, GivenAnswer
  <2>4. \A a \in ToSet(Ws!Sent) : Before(a, b)
    BY <1>0, <2>1, <2>2 DEF Past, Before
  <2>5. InOrder(Ws!Sent')
    BY <1>0, <2>1, <2>3, <2>4, InOrderAppend
  <2>6. ASSUME NEW a \in ToSet(Ws!Sent) PROVE Past(a)'
    <3>1. Past(a)
      BY <1>0
    <3> QED BY <2>1, <3>1 DEF Past
  <2>7. Past(b)'
    <3>1. wHandling.n \in Nat /\ wHandling.n <= wSent
      BY <2>1, WsNumbers DEF WsLine, WsTyped
    <3>2. \A m \in ToSet(wWaiting) \union ToSet(wSocket) : b.n < m.n /\ b.n # m.n
      BY <2>1, <2>2, <3>1, WsNumbers DEF WsLine
    <3> QED BY <2>1, <2>2, <3>1, <3>2 DEF Past
  <2> QED BY <2>3, <2>5, <2>6, <2>7
<1>8. CASE Ws!Admit \/ Ws!AnswerAtOnce
  <2> DEFINE m == Head(wSocket)
  <2>1. /\ wHandling # None /\ wHandling' = wHandling /\ wSent' = wSent
        /\ wSocket # <<>> /\ wSocket' = Tail(wSocket)
        /\ wWaiting' = wWaiting \/ wWaiting' = Append(wWaiting, m)
        /\ wRefusing = None /\ (wRefusing' # None => wRefusing'.n = m.n)
        /\ Ws!Sent' = Ws!Sent
    BY <1>8 DEF Ws!Admit, Ws!AnswerAtOnce, Ws!Reading, Ws!CanRead, Ws!outside, Ws!Answer, Ws!Sent
  <2>2. m \in Ws!Messages /\ ToSet(wSocket) = ToSet(wSocket') \union {m}
    BY <1>1, <2>1, TailElements
  <2> HIDE DEF m
  <2>3. ToSet(wWaiting') \subseteq ToSet(wWaiting) \union {m}
    <3>1. ToSet(Append(wWaiting, m)) = ToSet(wWaiting) \union {m}
      BY <1>1, <2>2, AppendElements
    <3> QED BY <2>1, <3>1
  <2>4. ASSUME NEW a \in ToSet(Ws!Sent) PROVE Past(a)'
    <3>1. Past(a) /\ a.n < m.n /\ a.n \in Nat /\ m.n \in Nat
      BY <1>0, <2>2, WsNumbers DEF Past
    <3>2. a.n # m.n
      BY <3>1
    <3> QED BY <2>1, <2>2, <2>3, <3>1, <3>2 DEF Past
  <2> QED BY <1>0, <2>1, <2>4
<1>9. CASE Ws!ReaderSends
  <2>1. PICK b \in WsAnswer :
        /\ wRefusing # None /\ b = wRefusing /\ wChannel' = Append(wChannel, b)
        /\ wRefusing' = None /\ wHandling # None
        /\ UNCHANGED <<wSent, wSocket, wWaiting, wHandling, wGot>>
    BY <1>9 DEF Ws!ReaderSends, Ws!outside, WsTyped, WsRefused
  <2>2. /\ b.n # wHandling.n /\ b.n <= wSent /\ Ws!AtOnce(b)
        /\ \A m \in ToSet(wWaiting) : b.n # m.n
        /\ \A m \in ToSet(wSocket) : b.n < m.n
    BY <2>1 DEF WsRefused
  <2>3. Ws!Sent' = Append(Ws!Sent, b) /\ ToSet(Ws!Sent') = ToSet(Ws!Sent) \union {b}
    BY <2>1, GivenAnswer
  <2>4. \A a \in ToSet(Ws!Sent) : Before(a, b)
    BY <1>0, <2>1, <2>2 DEF Past, Before
  <2>5. InOrder(Ws!Sent')
    BY <1>0, <2>1, <2>3, <2>4, InOrderAppend
  <2>6. \A a \in ToSet(Ws!Sent) : Past(a)'
    BY <1>0, <2>1 DEF Past
  <2>7. Past(b)'
    BY <2>1, <2>2 DEF Past
  <2> QED BY <2>3, <2>5, <2>6, <2>7
<1>10. CASE Ws!End
  <2>1. /\ wHandling' = None /\ wRefusing' = None /\ wWaiting' = <<>> /\ wSocket' = <<>>
        /\ wSent' = wSent /\ Ws!Sent' = Ws!Sent
    BY <1>10 DEF Ws!End, Ws!outside, Ws!Sent
  <2>2. ToSet(<<>>) = {}
    BY DEF ToSet
  <2> QED BY <1>0, <2>1, <2>2 DEF Past
<1>11. CASE Ws!Close
  <2>1. UNCHANGED <<wSent, wSocket, wWaiting, wHandling, wRefusing>> /\ Ws!Sent' = wGot
    <3>1. wGot \o <<>> = wGot
      BY ConcatEmptySeq DEF WsTyped
    <3> QED BY <1>11, <3>1 DEF Ws!Close, Ws!outside, Ws!Sent
  <2>2. ToSet(wGot) \subseteq ToSet(Ws!Sent) /\ InOrder(wGot)
    BY <1>0, SentTyped
  <2> QED BY <1>0, <2>1, <2>2 DEF Past
<1> QED BY <1>2, <1>3, <1>4, <1>5, <1>6, <1>7, <1>8, <1>9, <1>10, <1>11, WsCases
        DEF HandleNext, HandlerWorks

\* A connection begins.
LEMMA InitWsInv == Ws!Init => WsInv
<1> SUFFICES ASSUME Ws!Init PROVE WsInv
  OBVIOUS
<1> USE DEF Ws!Init
<1>1. /\ \A S : <<>> \in Seq(S) /\ Len(<<>>) = 0
      /\ Ws!Bytes(<<>>) = 0 /\ Cardinality({}) = 0 /\ ToSet(<<>>) = {} /\ Rising(<<>>)
  BY EmptySeq, BytesEmpty, FS_EmptySet DEF ToSet, Rising
<1>2. WsTyped
  <2>1. 0 \in 0..MaxMessages
    BY WsConstants
  <2> QED BY <1>1, <2>1 DEF WsTyped
<1>a. WsBounded
  BY <1>1, WsConstants DEF WsBounded
<1>3. WsLine /\ WsRefused /\ WsDue
  BY <1>1 DEF WsLine, WsRefused, WsDue
<1>4. WsSaid
  <2>1. Ws!Sent = <<>>
    BY DEF Ws!Sent
  <2> QED BY <1>1, <2>1 DEF WsSaid, Ws!AnswersInOrder
<1> QED BY <1>2, <1>a, <1>3, <1>4 DEF WsInv

\* Each of its steps keeps the invariant.
LEMMA NextWsInv == WsInv /\ Ws!Next => WsInv'
<1> SUFFICES ASSUME WsInv, Ws!Next PROVE WsInv'
  OBVIOUS
<1>1. WsTyped /\ WsBounded /\ WsLine /\ WsRefused /\ WsDue
  BY DEF WsInv
<1>2. WsSaid'
  BY WsSaidStep
<1>3. WsTyped' /\ WsBounded' /\ WsLine' /\ WsRefused' /\ WsDue'
  BY <1>1, WsTypedStep, WsBoundedStep, WsLineStep, WsRefusedStep, WsDueStep
<1> QED BY <1>2, <1>3 DEF WsInv

\* And so does a step of another part.
LEMMA SameWsInv == WsInv /\ UNCHANGED wsVars => WsInv'
<1> SUFFICES ASSUME WsInv, UNCHANGED wsVars PROVE WsInv'
  OBVIOUS
<1> USE DEF WsInv, wsVars
<1>1. WsTyped' /\ WsBounded' /\ WsLine' /\ WsRefused' /\ WsDue'
  BY DEF WsTyped, WsBounded, WsLine, WsRefused, WsDue, Ws!AtOnce
<1>2. WsSaid'
  BY DEF WsSaid, Past, Ws!AnswersInOrder, Ws!Sent, Ws!AtOnce
<1> QED BY <1>1, <1>2

\* The connection's queues, its handler and what it sent stay consistent.
THEOREM WsInvariance == ServicesSpec => []WsInv
<1>1. ServicesInit => WsInv
  BY InitWsInv DEF ServicesInit
<1>2. WsInv /\ [ServicesNext]_allVars => WsInv'
  BY NextWsInv, SameWsInv DEF ServicesNext, allVars
<1> QED BY <1>1, <1>2, PTL DEF ServicesSpec

\* Whatever the client sends and wherever it leaves, the answers to the messages that were
\* handled are sent in the messages' order, each message has one final answer, and one that
\* was refused as busy has no other (read_while_handling, Waiting::admit).
THEOREM MessagesAnsweredInOrder == ServicesSpec => []AnswersInOrder
<1>1. WsInv => AnswersInOrder
  BY DEF WsInv, WsSaid, AnswersInOrder
<1> QED BY <1>1, WsInvariance, PTL

\* The connection's types and bounds follow.
LEMMA WsTypes == WsInv => Ws!TypeOK
<1> SUFFICES ASSUME WsInv PROVE Ws!TypeOK
  OBVIOUS
<1>1. Len(wChannel) + Ws!Cardinality(wSlot) <= Capacity
  BY SameCount DEF WsInv, WsBounded
<1> QED BY <1>1 DEF WsInv, WsTyped, WsBounded, WsHandled, WsAnswer, Ends, Ws!TypeOK

-----------------------------------------------------------------------------
(* The audit log's inductive invariant, in parts. *)

Requests == [kind : {"entry"}, n : Audit!Entries] \union [kind : {"flush"}, n : 0..MaxEntries]
Work == [kind : {"entry", "flush"}, n : 0..MaxEntries]

AuditTyped ==
    /\ aLogged \in 0..MaxEntries /\ aAsked \in 0..MaxFlushes /\ aQueue \in Seq(Requests)
    /\ aAt \in Audit!Places /\ aMsg \in Work \union {None} /\ aShift \in 0..Keep
    /\ aFile \in [0..Keep -> Seq(Audit!Entries) \union {None}]
    /\ aHandle \in 0..Keep \union {Away}
    /\ aBuffer \in Seq(Audit!Entries) /\ aSize \in Nat /\ aReplied \in 0..MaxEntries
    /\ aAway \subseteq Audit!Entries /\ aLate \subseteq Audit!Entries
    /\ aDropped \subseteq Audit!Entries /\ aFailed \subseteq Audit!Entries /\ aRaced \in BOOLEAN
    /\ aRemovals \in Nat /\ aErrors \in Nat /\ aFailures \in Nat

AuditBounded == Len(aQueue) <= QueueBound /\ Len(aBuffer) <= BufferBound

\* The entries the writer has received.
Received == aLogged - Cardinality(Audit!InHand)
One(m) == IF m.kind = "entry" THEN 1 ELSE 0

\* Requests carry the number of the last entry before them, or their own.
AuditQueue ==
    /\ Received \in Nat
    /\ aQueue # <<>> => aQueue[1].n = Received + One(aQueue[1])
    /\ \A i \in 1..(Len(aQueue) - 1) : aQueue[i + 1].n = aQueue[i].n + One(aQueue[i + 1])
    /\ aQueue # <<>> => aQueue[Len(aQueue)].n = aLogged
    /\ aAt # "idle" => aMsg \in Work /\ aMsg.n = Received
    /\ Audit!Handling => aMsg.kind = "entry" /\ aMsg.n > 0

\* The writer has the file at the path open if there is one, or else the one that was there: it
\* went, or it is the first numbered one.
AuditHandle ==
    /\ aHandle = 0 <=> aFile[0] # None
    /\ aHandle # Away => aFile[aHandle] # None /\ aHandle \in {0, 1}
    /\ aAt \in {"flushRotated", "shift"} => aHandle \in {0, Away}

\* The contents of the files, a missing one counting as empty.
Texts == [k \in 0..Keep |-> Audit!Text(k)]

\* Files and buffer hold rising numbers, from the oldest file to the buffer.
Ordered(t, b) ==
    /\ \A k \in 0..Keep : Increasing(t[k])
    /\ Increasing(b)
    /\ \A k, l \in 0..Keep : k < l => \A x \in ToSet(t[l]), y \in ToSet(t[k]) : x < y
    /\ \A k \in 0..Keep : \A x \in ToSet(t[k]), y \in ToSet(b) : x < y

Stored(t, b) == (UNION {ToSet(t[k]) : k \in 0..Keep}) \union ToSet(b)

\* What is stored or gone are the entries the writer is done with.
AuditOrder ==
    /\ Ordered(Texts, aBuffer)
    /\ Stored(Texts, aBuffer) \union (aAway \union aLate \union aDropped \union aFailed)
          = 1..Audit!Handled

\* As long as no rename failed, the file a rotation moves next has a free name to go to, and
\* what was dropped is older than what is stored.
AuditOldest ==
    aFailures = 0 =>
        /\ \A x \in aDropped, y \in Stored(Texts, aBuffer) : x < y
        /\ aAt = "shift" /\ aShift < Keep => aFile[aShift + 1] = None

\* The name a rotation has just freed.
Gap == CASE aAt = "shift" /\ aShift < Keep -> aShift + 1
         [] aAt = "reopenRotated" -> 0
         [] OTHER -> Keep + 1

\* As long as nothing failed and nobody removed the file, the numbered files are full and
\* have no gap but that one, and the first is dropped when all of them are there.
Undisturbed == aRemovals = 0 /\ aErrors = 0 /\ aFailures = 0

Filled ==
    /\ aAt \notin {"reopen", "reopenToFlush"}
    /\ aFile[0] = None <=> aAt = "reopenRotated"
    /\ aFile[0] # None => aSize = Len(aFile[0]) + Len(aBuffer)
    /\ aAt \in {"rotate", "flushRotated", "shift"} => aSize >= MaxSize
    /\ aAt \in {"shift", "reopenRotated"} => aBuffer = <<>>
    /\ \A k \in 1..Keep : aFile[k] # None => Len(aFile[k]) >= MaxSize

Gapless ==
    /\ \A k, l \in 0..Keep : k < l /\ k # Gap /\ aFile[l] # None => aFile[k] # None
    /\ aDropped # {} => \A k \in 0..Keep : k # Gap => aFile[k] # None

AuditRotation == Undisturbed => Filled /\ Gapless

\* The writer writes to a removed file only what it had looked for before.
AuditRemoved ==
    aErrors = 0 /\ ~aRaced =>
        /\ aLate = {}
        /\ aAt \in {"write", "flushRotated"} => aHandle # Away
        /\ aAt = "flushOut" => aHandle # Away \/ aBuffer = <<>>

\* Flushes are answered in order.
AuditFlushed ==
    /\ aReplied <= Audit!Handled
    /\ aErrors = 0 => \A x \in ToSet(aBuffer) : aReplied < x

AuditInv ==
    /\ AuditTyped /\ AuditBounded /\ AuditQueue /\ AuditHandle /\ AuditOrder /\ AuditOldest
    /\ AuditRotation /\ AuditRemoved /\ AuditFlushed

-----------------------------------------------------------------------------
(* Entries in files and in the buffer. *)

\* What the constants of the log are.
LEMMA AuditConstants ==
    /\ MaxEntries \in Nat /\ QueueBound \in Nat \ {0} /\ BufferBound \in Nat \ {0}
    /\ MaxSize \in Nat \ {0} /\ Keep \in Nat
    /\ Audit!Entries = 1..MaxEntries /\ Audit!Entries \subseteq Nat
    /\ None \notin Seq(Audit!Entries) /\ Away \notin 0..Keep
BY ServicesAssumption DEF Audit!AuditAssumption, Audit!Entries

\* Files by number, a missing one as an empty one.
Files == [0..Keep -> Seq(Audit!Entries)]

\* An empty sequence rises, and so does one of a single number.
LEMMA RisesAlone == Increasing(<<>>) /\ ToSet(<<>>) = {} /\ \A n : Increasing(<<n>>) /\ ToSet(<<n>>) = {n}
<1>1. Increasing(<<>>) /\ ToSet(<<>>) = {}
  BY DEF Increasing, ToSet
<1>2. ASSUME NEW n PROVE Increasing(<<n>>) /\ ToSet(<<n>>) = {n}
  BY DEF Increasing, ToSet
<1> QED BY <1>1, <1>2

\* What is stored, file by file.
LEMMA StoredIn ==
    ASSUME NEW t \in Files, NEW b
    PROVE  \A x : x \in Stored(t, b) <=> (\E k \in 0..Keep : x \in ToSet(t[k])) \/ x \in ToSet(b)
BY DEF Stored

\* A file that goes takes its entries, and leaves the others in order.
LEMMA FileLeaves ==
    ASSUME NEW t \in Files, NEW b, NEW k \in 0..Keep, Ordered(t, b)
    PROVE  LET u == [t EXCEPT ![k] = <<>>] IN
           /\ Ordered(u, b)
           /\ Stored(u, b) \subseteq Stored(t, b)
           /\ Stored(t, b) \subseteq Stored(u, b) \union ToSet(t[k])
<1> DEFINE u == [t EXCEPT ![k] = <<>>]
<1>1. \A i \in 0..Keep : u[i] = IF i = k THEN <<>> ELSE t[i]
  BY DEF Files
<1> HIDE DEF u
<1>2. \A i \in 0..Keep : ToSet(u[i]) = IF i = k THEN {} ELSE ToSet(t[i])
  BY <1>1, RisesAlone
<1>3. \A i \in 0..Keep : Increasing(u[i])
  BY <1>1, RisesAlone DEF Ordered
<1>4. Ordered(u, b)
  BY <1>2, <1>3 DEF Ordered
<1>5. Stored(u, b) \subseteq Stored(t, b) /\ Stored(t, b) \subseteq Stored(u, b) \union ToSet(t[k])
  BY <1>2 DEF Stored
<1> QED BY <1>4, <1>5 DEF u

\* The buffer is written out to the newest file: every entry is stored as before, in order.
LEMMA BufferLeaves ==
    ASSUME NEW t \in Files, NEW b \in Seq(Audit!Entries), NEW h \in 0..Keep, Ordered(t, b),
           \A k \in 0..Keep : k < h => t[k] = <<>>
    PROVE  LET u == [t EXCEPT ![h] = t[h] \o b] IN
           /\ u \in Files /\ Ordered(u, <<>>) /\ Stored(u, <<>>) = Stored(t, b)
<1> DEFINE u == [t EXCEPT ![h] = t[h] \o b]
<1>0. t[h] \in Seq(Audit!Entries) /\ Keep \in Nat
  BY AuditConstants DEF Files
<1>1. t[h] \o b \in Seq(Audit!Entries) /\ ToSet(t[h] \o b) = ToSet(t[h]) \union ToSet(b)
  BY <1>0, ConcatElements
<1>2. u \in Files
  BY <1>1 DEF Files
<1>3. \A i \in 0..Keep : u[i] = IF i = h THEN t[h] \o b ELSE t[i]
  BY DEF Files
<1> HIDE DEF u
<1>4. \A i \in 0..Keep : ToSet(u[i]) = IF i = h THEN ToSet(t[h]) \union ToSet(b) ELSE ToSet(t[i])
  BY <1>1, <1>3
<1>5. Increasing(t[h] \o b)
  <2>1. t[h] \in Seq(Nat) /\ b \in Seq(Nat)
    BY <1>0, AuditConstants, SeqMonotonic
  <2>2. Increasing(t[h]) /\ Increasing(b) /\ \A x \in ToSet(t[h]), y \in ToSet(b) : x < y
    BY DEF Ordered
  <2> QED BY <2>1, <2>2, ConcatIncreasing
<1>6. \A i \in 0..Keep : Increasing(u[i])
  BY <1>3, <1>5 DEF Ordered
<1>7. \A k \in 0..Keep : k < h => ToSet(u[k]) = {}
  BY <1>0, <1>3, RisesAlone
<1>8. ASSUME NEW k \in 0..Keep, NEW l \in 0..Keep, k < l,
             NEW x \in ToSet(u[l]), NEW y \in ToSet(u[k])
      PROVE  x < y
  <2>1. CASE k = h
    <3>1. x \in ToSet(t[l]) /\ (y \in ToSet(t[h]) \/ y \in ToSet(b))
      BY <1>4, <1>8, <2>1
    <3> QED BY <2>1, <1>8, <3>1 DEF Ordered
  <2>2. CASE k # h
    <3>1. ~(k < h) /\ y \in ToSet(t[k])
      BY <1>4, <1>7, <2>2
    <3>2. l # h /\ x \in ToSet(t[l])
      BY <1>4, <1>8, <2>2, <3>1
    <3> QED BY <1>8, <3>1, <3>2 DEF Ordered
  <2> QED BY <2>1, <2>2
<1>9. Ordered(u, <<>>)
  BY <1>6, <1>8, RisesAlone DEF Ordered
<1>10. Stored(u, <<>>) = Stored(t, b)
  BY <1>4, RisesAlone DEF Stored
<1> QED BY <1>2, <1>9, <1>10 DEF u

\* Nothing is buffered any more.
LEMMA BufferGone ==
    ASSUME NEW t \in Files, NEW b, Ordered(t, b)
    PROVE  /\ Ordered(t, <<>>) /\ Stored(t, <<>>) \subseteq Stored(t, b)
           /\ Stored(t, b) = Stored(t, <<>>) \union ToSet(b)
BY RisesAlone DEF Ordered, Stored

\* A file takes the next name: order stays, and only what had that name goes.
LEMMA FileMoves ==
    ASSUME NEW t \in Files, NEW b, NEW k \in 0..Keep, Ordered(t, b)
    PROVE  LET u == [i \in 0..Keep |-> CASE i = k -> <<>> [] i = k + 1 -> t[k] [] OTHER -> t[i]]
               gone == IF k = Keep THEN ToSet(t[k]) ELSE ToSet(t[k + 1])
           IN  /\ u \in Files /\ Ordered(u, b)
               /\ Stored(u, b) \subseteq Stored(t, b)
               /\ Stored(t, b) = Stored(u, b) \union gone
<1> DEFINE u == [i \in 0..Keep |-> CASE i = k -> <<>> [] i = k + 1 -> t[k] [] OTHER -> t[i]]
           gone == IF k = Keep THEN ToSet(t[k]) ELSE ToSet(t[k + 1])
<1>0. Keep \in Nat /\ <<>> \in Seq(Audit!Entries)
  BY AuditConstants, EmptySeq
<1>1. /\ u[k] = <<>>
      /\ \A i \in 0..Keep : i = k + 1 => u[i] = t[k]
      /\ \A i \in 0..Keep : i # k /\ i # k + 1 => u[i] = t[i]
  BY <1>0
<1>2. \A i \in 0..Keep : u[i] \in Seq(Audit!Entries)
  <2> TAKE i \in 0..Keep
  <2>1. t[i] \in Seq(Audit!Entries) /\ t[k] \in Seq(Audit!Entries)
    BY DEF Files
  <2> HIDE DEF u
  <2> QED BY <1>0, <1>1, <2>1
<1>3. u \in Files
  BY <1>2 DEF Files
<1> HIDE DEF u
<1>4. ToSet(u[k]) = {} /\ \A i \in 0..Keep : Increasing(u[i])
  BY <1>1, RisesAlone DEF Ordered
<1>5. ASSUME NEW i \in 0..Keep, NEW j \in 0..Keep, i < j,
             NEW x \in ToSet(u[j]), NEW y \in ToSet(u[i])
      PROVE  x < y
  <2>0. i # k /\ j # k /\ k < Keep + 1
    BY <1>0, <1>4
  <2>1. CASE i = k + 1
    <3>1. u[i] = t[k] /\ u[j] = t[j] /\ k < j
      BY <1>0, <1>1, <1>5, <2>0, <2>1
    <3> QED BY <1>5, <3>1 DEF Ordered
  <2>2. CASE j = k + 1
    <3>1. u[j] = t[k] /\ u[i] = t[i] /\ i < k
      BY <1>0, <1>1, <1>5, <2>0, <2>2
    <3> QED BY <1>5, <3>1 DEF Ordered
  <2>3. CASE i # k + 1 /\ j # k + 1
    <3>1. u[j] = t[j] /\ u[i] = t[i]
      BY <1>1, <2>0, <2>3
    <3> QED BY <1>5, <3>1 DEF Ordered
  <2> QED BY <2>1, <2>2, <2>3
<1>6. ASSUME NEW i \in 0..Keep, NEW x \in ToSet(u[i]), NEW y \in ToSet(b)
      PROVE  x < y
  <2>1. u[i] = t[k] \/ u[i] = t[i]
    BY <1>1, <1>4
  <2> QED BY <2>1 DEF Ordered
<1>7. Ordered(u, b)
  BY <1>4, <1>5, <1>6 DEF Ordered
<1>8. Stored(u, b) \subseteq Stored(t, b)
  <2>1. \A i \in 0..Keep : ToSet(u[i]) = {} \/ u[i] = t[k] \/ u[i] = t[i]
    BY <1>1, <1>4
  <2> QED BY <2>1 DEF Stored
<1>9. gone \subseteq Stored(t, b)
  <2>1. k = Keep \/ k + 1 \in 0..Keep
    BY <1>0
  <2> QED BY <2>1 DEF Stored
<1>10. ASSUME NEW x \in Stored(t, b), x \notin gone PROVE x \in Stored(u, b)
  <2>1. CASE x \in ToSet(b)
    BY <2>1 DEF Stored
  <2>2. CASE x \notin ToSet(b)
    <3>1. PICK i \in 0..Keep : x \in ToSet(t[i])
      BY <2>2 DEF Stored
    <3>2. CASE i = k
      <4>1. k + 1 \in 0..Keep
        BY <1>0, <1>10, <3>1, <3>2
      <4>2. u[k + 1] = t[k]
        BY <1>1, <4>1
      <4> QED BY <3>1, <3>2, <4>1, <4>2 DEF Stored
    <3>3. CASE i # k
      <4>1. i # k + 1
        BY <1>0, <1>10, <3>1, <3>3
      <4>2. u[i] = t[i]
        BY <1>1, <3>3, <4>1
      <4> QED BY <3>1, <4>2 DEF Stored
    <3> QED BY <3>2, <3>3
  <2> QED BY <2>1, <2>2
<1>11. Stored(t, b) = Stored(u, b) \union gone
  <2> HIDE DEF gone
  <2> QED BY <1>8, <1>9, <1>10
<1> QED BY <1>3, <1>7, <1>8, <1>11 DEF u, gone

\* An entry above all that is stored is buffered.
LEMMA EntryBuffered ==
    ASSUME NEW t \in Files, NEW b \in Seq(Audit!Entries), Ordered(t, b), NEW n \in Audit!Entries,
           \A x \in Stored(t, b) : x < n
    PROVE  /\ Append(b, n) \in Seq(Audit!Entries)
           /\ Ordered(t, Append(b, n)) /\ Stored(t, Append(b, n)) = Stored(t, b) \union {n}
<1> DEFINE c == Append(b, n)
<1>1. c \in Seq(Audit!Entries) /\ ToSet(c) = ToSet(b) \union {n}
  BY AppendElements
<1>2. /\ Len(c) = Len(b) + 1 /\ c[Len(b) + 1] = n
      /\ \A i \in 1..Len(b) : c[i] = b[i]
  BY AppendProperties
<1>3. Len(b) \in Nat /\ \A i \in 1..Len(b) : b[i] \in ToSet(b)
  BY LenProperties DEF ToSet
<1>4. \A x \in ToSet(b) : x < n
  BY DEF Stored
<1>5. \A k \in 0..Keep : \A x \in ToSet(t[k]) : x < n
  BY DEF Stored
<1> HIDE DEF c
<1>6. ASSUME NEW i \in 1..Len(c), NEW j \in 1..Len(c), i < j PROVE c[i] < c[j]
  <2>1. i \in 1..Len(b)
    BY <1>2, <1>3, <1>6
  <2>2. CASE j \in 1..Len(b)
    BY <1>2, <1>6, <2>1, <2>2 DEF Ordered, Increasing
  <2>3. CASE j = Len(b) + 1
    BY <1>2, <1>3, <1>4, <2>1, <2>3
  <2> QED BY <1>2, <1>3, <2>2, <2>3
<1>7. Increasing(c)
  BY <1>6 DEF Increasing
<1>8. Ordered(t, c)
  BY <1>1, <1>5, <1>7 DEF Ordered
<1>9. Stored(t, c) = Stored(t, b) \union {n}
  BY <1>1 DEF Stored
<1> QED BY <1>1, <1>8, <1>9 DEF c

-----------------------------------------------------------------------------
(* The queue. *)

EntriesIn(q) == {i \in DOMAIN q : q[i].kind = "entry"}

\* The entries of a queue are finitely many.
LEMMA EntriesFinite ==
    ASSUME NEW q \in Seq(Requests)
    PROVE  /\ IsFiniteSet(EntriesIn(q)) /\ Cardinality(EntriesIn(q)) \in Nat
           /\ EntriesIn(q) = {i \in 1..Len(q) : q[i].kind = "entry"}
<1>1. DOMAIN q = 1..Len(q) /\ IsFiniteSet(1..Len(q))
  BY LenProperties, FS_Interval
<1>2. EntriesIn(q) \in SUBSET (1..Len(q)) /\ EntriesIn(q) = {i \in 1..Len(q) : q[i].kind = "entry"}
  BY <1>1 DEF EntriesIn
<1> QED BY <1>1, <1>2, FS_Subset, FS_CardinalityType

\* One that is queued is one more.
LEMMA EntriesAppend ==
    ASSUME NEW q \in Seq(Requests), NEW m \in Requests
    PROVE  Cardinality(EntriesIn(Append(q, m))) = Cardinality(EntriesIn(q)) + One(m)
<1> DEFINE r == Append(q, m)
           n == Len(q) + 1
<1>1. /\ r \in Seq(Requests) /\ Len(r) = n /\ r[n] = m /\ \A i \in 1..Len(q) : r[i] = q[i]
      /\ Len(q) \in Nat
  BY AppendProperties, LenProperties
<1>2. /\ EntriesIn(r) = {i \in 1..n : r[i].kind = "entry"}
      /\ EntriesIn(q) = {i \in 1..Len(q) : q[i].kind = "entry"}
      /\ IsFiniteSet(EntriesIn(q)) /\ Cardinality(EntriesIn(q)) \in Nat
  BY <1>1, EntriesFinite
<1> HIDE DEF r
<1>3. CASE m.kind = "entry"
  <2>1. EntriesIn(r) = EntriesIn(q) \union {n} /\ n \notin EntriesIn(q)
    BY <1>1, <1>2, <1>3
  <2> HIDE DEF n
  <2>2. Cardinality(EntriesIn(q) \union {n}) = Cardinality(EntriesIn(q)) + 1
    BY <1>2, <2>1, FS_AddElement
  <2> QED BY <1>3, <2>1, <2>2 DEF One, r
<1>4. CASE m.kind # "entry"
  <2>1. EntriesIn(r) = EntriesIn(q)
    BY <1>1, <1>2, <1>4
  <2>2. One(m) = 0
    BY <1>4 DEF One
  <2>3. Cardinality(EntriesIn(r)) = Cardinality(EntriesIn(q)) + 0
    <3>1. Cardinality(EntriesIn(r)) = Cardinality(EntriesIn(q))
      BY <2>1, Zenon
    <3>2. Cardinality(EntriesIn(q)) \in Nat
      BY <1>2
    <3> QED BY <3>1, <3>2
  <2> QED BY <2>2, <2>3 DEF r
<1> QED BY <1>3, <1>4

\* One that is received is one less.
LEMMA EntriesTail ==
    ASSUME NEW q \in Seq(Requests), q # <<>>
    PROVE  Cardinality(EntriesIn(q)) = Cardinality(EntriesIn(Tail(q))) + One(Head(q))
<1> DEFINE r == Tail(q)
           R == EntriesIn(r)
           Q == EntriesIn(q) \ {1}
           b == [i \in R |-> i + 1]
<1>1. /\ r \in Seq(Requests) /\ Len(r) = Len(q) - 1 /\ \A i \in 1..Len(r) : r[i] = q[i + 1]
      /\ Len(q) \in Nat \ {0} /\ Head(q) = q[1]
  BY HeadTailProperties, EmptySeq
<1>2. /\ R = {i \in 1..Len(r) : r[i].kind = "entry"}
      /\ EntriesIn(q) = {i \in 1..Len(q) : q[i].kind = "entry"}
      /\ IsFiniteSet(EntriesIn(q)) /\ IsFiniteSet(R)
      /\ Cardinality(EntriesIn(q)) \in Nat /\ Cardinality(R) \in Nat
  BY <1>1, EntriesFinite
<1> HIDE DEF r, R
<1>3. Q = {i \in 2..Len(q) : q[i].kind = "entry"}
  BY <1>1, <1>2
<1> HIDE DEF Q
<1>4. b \in Bijection(R, Q)
  <2>1. \A i \in R : i + 1 \in Q
    BY <1>1, <1>2, <1>3
  <2>2. \A j \in Q : j - 1 \in R /\ (j - 1) + 1 = j
    BY <1>1, <1>2, <1>3
  <2>3. b \in [R -> Q]
    BY <2>1
  <2>4. \A j \in Q : \E i \in R : b[i] = j
    BY <2>2
  <2>5. \A i, j \in R : b[i] = b[j] => i = j
    BY <1>2
  <2> QED BY <2>3, <2>4, <2>5 DEF Bijection, Injection, Surjection, IsInjective
<1>5. Cardinality(Q) = Cardinality(R)
  BY <1>2, <1>4, FS_Bijection DEF ExistsBijection
<1>6. CASE Head(q).kind = "entry"
  <2>1. 1 \in EntriesIn(q)
    BY <1>1, <1>2, <1>6
  <2>2. Cardinality(EntriesIn(q) \ {1}) = Cardinality(EntriesIn(q)) - 1
    BY <1>2, <2>1, FS_RemoveElement
  <2> QED BY <1>2, <1>5, <1>6, <2>2 DEF One, Q, R, r
<1>7. CASE Head(q).kind # "entry"
  <2>1. EntriesIn(q) \ {1} = EntriesIn(q)
    BY <1>1, <1>2, <1>7
  <2>2. One(Head(q)) = 0
    BY <1>7 DEF One
  <2>3. Cardinality(EntriesIn(q)) = Cardinality(R) + 0
    <3>1. Cardinality(EntriesIn(q)) = Cardinality(R)
      BY <1>5, <2>1, Zenon DEF Q
    <3>2. Cardinality(R) \in Nat
      BY <1>2
    <3> QED BY <3>1, <3>2
  <2> QED BY <2>2, <2>3 DEF R, r
<1> QED BY <1>6, <1>7

\* An empty queue has none.
LEMMA EntriesNone == Cardinality(EntriesIn(<<>>)) = 0
<1>1. EntriesIn(<<>>) = {}
  BY DEF EntriesIn
<1> QED BY <1>1, FS_EmptySet

\* What the model says of the entries in hand.
LEMMA HandledIs ==
    /\ Received = aLogged - Cardinality(EntriesIn(aQueue))
    /\ Audit!Handled = aLogged - Cardinality(EntriesIn(aQueue)) - (IF Audit!Handling THEN 1 ELSE 0)
<1>1. \A S : Audit!Cardinality(S) = Cardinality(S)
  BY DEF Audit!Cardinality, Cardinality
<1> QED BY <1>1 DEF Received, Audit!Handled, Audit!InHand, EntriesIn

\* The entries it is done with, by those it has received.
LEMMA HandledNow == Audit!Handled = Received - (IF Audit!Handling THEN 1 ELSE 0)
BY HandledIs

-----------------------------------------------------------------------------
(* The steps of the log, by what they change. *)

\* The steps that change nothing but where the writer is.
Looks == Audit!RunsEmpty \/ Audit!Look \/ Audit!Rotate \/ Audit!LookToFlush

\* Where they lead.
LEMMA LooksMoves ==
    ASSUME Looks
    PROVE  /\ aAt \in {"next", "look", "rotate", "flush"}
           /\ aAt = "next" => aAt' = "flush"
           /\ aAt = "look" =>
                 \/ aFile[0] = None /\ aAt' = "reopen"
                 \/ aFile[0] # None /\ Audit!Full /\ aAt' = "rotate"
                 \/ aFile[0] # None /\ aAt' = "write"
           /\ aAt = "rotate" => \/ aFile[0] = None /\ aAt' = "reopenRotated"
                                \/ aFile[0] # None /\ aAt' = "flushRotated"
           /\ aAt = "flush" => \/ aBuffer # <<>> /\ aFile[0] = None /\ aAt' = "reopenToFlush"
                               \/ aBuffer = <<>> /\ aAt' = "flushOut"
                               \/ aFile[0] # None /\ aAt' = "flushOut"
           /\ UNCHANGED <<aLogged, aAsked, aQueue, aMsg, aShift, aFile, aHandle, aBuffer, aSize,
                          aReplied, aAway, aLate, aRaced, aDropped, aFailed, aRemovals, aErrors,
                          aFailures>>
<1> USE DEF Audit!Goes, Audit!disk, Audit!troubles, Audit!requests, Audit!removed
<1>1. CASE Audit!RunsEmpty
  BY <1>1 DEF Audit!RunsEmpty
<1>2. CASE Audit!Look
  BY <1>2 DEF Audit!Look
<1>3. CASE Audit!Rotate
  BY <1>3 DEF Audit!Rotate
<1>4. CASE Audit!LookToFlush
  BY <1>4 DEF Audit!LookToFlush
<1> QED BY <1>1, <1>2, <1>3, <1>4 DEF Looks

\* Where the writer goes on when a look fails: no file becomes its own, and none is rotated.
LEMMA LookFailsMoves ==
    ASSUME Audit!LookFails
    PROVE  /\ aAt \in {"look", "flush", "rotate"}
           /\ aAt = "flush" => aAt' = "flushOut"
           /\ aAt # "flush" => aAt' \in {"rotate", "write"}
           /\ aErrors' = aErrors + 1 /\ aSize' \in {aSize, 0}
           /\ UNCHANGED <<aLogged, aAsked, aQueue, aMsg, aShift, aFile, aHandle, aBuffer,
                          aReplied, aAway, aLate, aRaced, aDropped, aFailed, aRemovals, aFailures>>
BY DEF Audit!LookFails, Audit!Errs, Audit!Goes, Audit!disk, Audit!requests, Audit!removed

\* The steps that reopen.
Reopens == Audit!Reopen \/ Audit!ReopenFails

\* A new file takes the place of the missing one with size and handle of its own, or none can be
\* created.
LEMMA ReopensMoves ==
    ASSUME Reopens
    PROVE  /\ aAt \in {"reopen", "reopenRotated", "reopenToFlush"}
           /\ aAt = "reopenToFlush" => aAt' = "flushOut"
           /\ aAt = "reopenRotated" => aAt' = "write"
           /\ aAt = "reopen" => aAt' \in {"rotate", "write"}
           /\ \/ /\ aFile[0] = None /\ aFile' = [aFile EXCEPT ![0] = <<>>] /\ aHandle' = 0
                 /\ aSize' = Len(aBuffer) /\ aErrors' = aErrors
                 /\ aAt' = "rotate" => aSize' + 1 > MaxSize
              \/ /\ aFile' = aFile /\ aHandle' = aHandle /\ aSize' = 0
                 /\ aErrors' = aErrors + 1 /\ aAt' # "rotate"
           /\ UNCHANGED <<aLogged, aAsked, aQueue, aMsg, aShift, aBuffer, aReplied, aAway, aLate,
                          aRaced, aDropped, aFailed, aRemovals, aFailures>>
<1> USE DEF Audit!Goes, Audit!disk, Audit!troubles, Audit!requests, Audit!removed, Audit!Reopening,
            Audit!AfterReopen
<1>1. CASE Audit!Reopen
  BY <1>1 DEF Audit!Reopen
<1>2. CASE Audit!ReopenFails
  BY <1>2 DEF Audit!ReopenFails, Audit!Errs
<1> QED BY <1>1, <1>2 DEF Reopens

-----------------------------------------------------------------------------
(* The files. *)

\* The contents of the files, read as sequences.
LEMMA TextsTyped ==
    ASSUME AuditTyped
    PROVE  /\ Texts \in Files
           /\ \A k \in 0..Keep :
                 /\ Texts[k] = IF aFile[k] = None THEN <<>> ELSE aFile[k]
                 /\ aFile[k] # None => aFile[k] \in Seq(Audit!Entries)
                 /\ Audit!Contents(k) = ToSet(Texts[k])
           /\ \A q \in Seq(Audit!Entries) : q # None
           /\ <<>> \in Seq(Audit!Entries) /\ 0 \in 0..Keep
<1>1. \A q \in Seq(Audit!Entries) : q # None
  BY AuditConstants
<1>2. <<>> \in Seq(Audit!Entries) /\ 0 \in 0..Keep
  BY AuditConstants, EmptySeq
<1>3. ASSUME NEW k \in 0..Keep
      PROVE  /\ Texts[k] = IF aFile[k] = None THEN <<>> ELSE aFile[k]
             /\ aFile[k] # None => aFile[k] \in Seq(Audit!Entries)
             /\ Texts[k] \in Seq(Audit!Entries)
             /\ Audit!Contents(k) = ToSet(Texts[k])
  <2>1. Texts[k] = IF aFile[k] = None THEN <<>> ELSE aFile[k]
    BY DEF Texts, Audit!Text
  <2>2. aFile[k] # None => aFile[k] \in Seq(Audit!Entries)
    BY DEF AuditTyped
  <2>3. Audit!Contents(k) = ToSet(Texts[k])
    BY <2>1, RisesAlone DEF Audit!Contents, Audit!ToSet, ToSet
  <2> QED BY <1>2, <2>1, <2>2, <2>3
<1>4. Texts \in Files
  BY <1>3 DEF Texts, Files
<1> QED BY <1>1, <1>2, <1>3, <1>4

\* The files that keep their names keep their text.
LEMMA TextsSame ==
    ASSUME aFile' = aFile
    PROVE  Texts' = Texts
BY DEF Texts, Audit!Text

\* What the buffer holds is written to the file the writer has open: the newest there is, or one
\* that was removed.
LEMMA WrittenMoves ==
    ASSUME AuditTyped, AuditHandle, Audit!Written
    PROVE  /\ aFile' \in [0..Keep -> Seq(Audit!Entries) \union {None}]
           /\ aHandle' = aHandle /\ aDropped' = aDropped
           /\ \A k \in 0..Keep : aFile'[k] = None <=> aFile[k] = None
           /\ \A k \in 0..Keep : k # aHandle => aFile'[k] = aFile[k]
           /\ aHandle # Away =>
                 /\ aHandle \in 0..Keep /\ aLate' = aLate
                 /\ aFile'[aHandle] = aFile[aHandle] \o aBuffer
                 /\ Texts' = [Texts EXCEPT ![aHandle] = Texts[aHandle] \o aBuffer]
                 /\ \A k \in 0..Keep : k < aHandle => Texts[k] = <<>>
           /\ aHandle = Away =>
                 aFile' = aFile /\ aLate' = aLate \union ToSet(aBuffer)
<1>1. aHandle' = aHandle /\ aDropped' = aDropped
  BY DEF Audit!Written
<1>2. CASE aHandle = Away
  <2>1. aFile' = aFile /\ aLate' = aLate \union ToSet(aBuffer)
    BY <1>2 DEF Audit!Written, Audit!ToSet, ToSet
  <2> QED BY <1>1, <1>2, <2>1 DEF AuditTyped
<1>3. CASE aHandle # Away
  <2>1. aHandle \in 0..Keep /\ aFile[aHandle] # None /\ aHandle \in {0, 1}
    BY <1>3 DEF AuditTyped, AuditHandle
  <2>2. /\ aFile' = [aFile EXCEPT ![aHandle] = aFile[aHandle] \o aBuffer] /\ aLate' = aLate
    BY <1>3 DEF Audit!Written
  <2>3. aFile[aHandle] \in Seq(Audit!Entries) /\ aFile[aHandle] \o aBuffer \in Seq(Audit!Entries)
    BY <2>1, TextsTyped, ConcatProperties DEF AuditTyped
  <2>4. /\ aFile' \in [0..Keep -> Seq(Audit!Entries) \union {None}]
        /\ aFile'[aHandle] = aFile[aHandle] \o aBuffer
        /\ \A k \in 0..Keep : k # aHandle => aFile'[k] = aFile[k]
    BY <2>1, <2>2, <2>3 DEF AuditTyped
  <2>5. aFile'[aHandle] # None
    BY <2>3, <2>4, TextsTyped
  <2>6. Texts' = [Texts EXCEPT ![aHandle] = Texts[aHandle] \o aBuffer]
    <3>1. \A k \in 0..Keep : Texts'[k] = IF aFile'[k] = None THEN <<>> ELSE aFile'[k]
      BY DEF Texts, Audit!Text
    <3>2. \A k \in 0..Keep : Texts[k] = IF aFile[k] = None THEN <<>> ELSE aFile[k]
      BY TextsTyped
    <3>3. /\ Texts'[aHandle] = Texts[aHandle] \o aBuffer
          /\ \A k \in 0..Keep : k # aHandle => Texts'[k] = Texts[k]
      BY <2>1, <2>4, <2>5, <3>1, <3>2
    <3>4. DOMAIN Texts' = 0..Keep /\ DOMAIN Texts = 0..Keep /\ Texts' = [k \in 0..Keep |-> Texts'[k]]
      BY DEF Texts
    <3> QED BY <3>3, <3>4
  <2>7. ASSUME NEW k \in 0..Keep, k < aHandle PROVE Texts[k] = <<>>
    <3>1. k = 0 /\ aHandle # 0
      BY <2>1, <2>7, AuditConstants
    <3>2. aFile[0] = None
      BY <3>1 DEF AuditHandle
    <3> QED BY <3>1, <3>2, TextsTyped
  <2> QED BY <1>1, <1>3, <2>1, <2>2, <2>4, <2>5, <2>6, <2>7
<1> QED BY <1>2, <1>3

\* A file that is renamed takes the next name, and what had it is dropped.
LEMMA RenamedMoves ==
    ASSUME AuditTyped, AuditHandle, NEW k \in 0..Keep, aFile[k] # None, aHandle \in {0, Away},
           Audit!Renamed(k)
    PROVE  /\ aFile' \in [0..Keep -> Seq(Audit!Entries) \union {None}]
           /\ aFile'[k] = None /\ (k < Keep => aFile'[k + 1] = aFile[k])
           /\ \A i \in 0..Keep : i # k /\ i # k + 1 => aFile'[i] = aFile[i]
           /\ Texts' = [i \in 0..Keep |-> CASE i = k -> <<>> [] i = k + 1 -> Texts[k]
                                             [] OTHER -> Texts[i]]
           /\ aDropped' = aDropped \union
                             (IF k = Keep THEN ToSet(Texts[k]) ELSE ToSet(Texts[k + 1]))
           /\ k # 0 => aHandle' = aHandle
           /\ k = 0 => aHandle' = IF Keep > 0 THEN 1 ELSE Away
           /\ aLate' = aLate
<1>0. Keep \in Nat /\ Away \notin 0..Keep
  BY AuditConstants
<1>1. aFile' = [i \in 0..Keep |-> CASE i = k -> None [] i = k + 1 -> aFile[k] [] OTHER -> aFile[i]]
  BY DEF Audit!Renamed
<1>2. /\ aFile'[k] = None /\ (k < Keep => aFile'[k + 1] = aFile[k])
      /\ \A i \in 0..Keep : i # k /\ i # k + 1 => aFile'[i] = aFile[i]
      /\ DOMAIN aFile' = 0..Keep /\ aFile' = [i \in 0..Keep |-> aFile'[i]]
  BY <1>0, <1>1
<1>3. aFile' \in [0..Keep -> Seq(Audit!Entries) \union {None}]
  <2>1. \A i \in 0..Keep : aFile'[i] \in Seq(Audit!Entries) \union {None}
    <3> TAKE i \in 0..Keep
    <3>1. aFile'[i] = None \/ aFile'[i] = aFile[k] \/ aFile'[i] = aFile[i]
      BY <1>0, <1>2
    <3> QED BY <3>1 DEF AuditTyped
  <2> QED BY <1>2, <2>1
<1>4. Texts' = [i \in 0..Keep |-> CASE i = k -> <<>> [] i = k + 1 -> Texts[k] [] OTHER -> Texts[i]]
  <2> DEFINE t == Texts
             u == [i \in 0..Keep |-> CASE i = k -> <<>> [] i = k + 1 -> t[k] [] OTHER -> t[i]]
  <2>1. \A i \in 0..Keep : Texts'[i] = IF aFile'[i] = None THEN <<>> ELSE aFile'[i]
    BY DEF Texts, Audit!Text
  <2>2. \A i \in 0..Keep : t[i] = IF aFile[i] = None THEN <<>> ELSE aFile[i]
    BY TextsTyped
  <2>3. Texts' = [i \in 0..Keep |-> Texts'[i]]
    BY DEF Texts
  <2> HIDE DEF t
  <2>4. ASSUME NEW i \in 0..Keep PROVE Texts'[i] = u[i]
    <3>1. CASE i = k
      BY <1>2, <2>1, <3>1
    <3>2. CASE i = k + 1
      <4>1. k < Keep /\ i # k /\ u[i] = t[k]
        BY <1>0, <3>2
      <4> QED BY <1>2, <2>1, <2>2, <3>2, <4>1
    <3>3. CASE i # k /\ i # k + 1
      <4>1. u[i] = t[i]
        BY <3>3
      <4> QED BY <1>2, <2>1, <2>2, <3>3, <4>1
    <3> QED BY <3>1, <3>2, <3>3
  <2>5. u = [i \in 0..Keep |-> u[i]]
    OBVIOUS
  <2> HIDE DEF u
  <2>6. Texts' = u
    BY <2>3, <2>4, <2>5
  <2> QED BY <2>6 DEF u, t
<1>5. aDropped' = aDropped \union (IF k = Keep THEN ToSet(Texts[k]) ELSE ToSet(Texts[k + 1]))
  <2>1. CASE k = Keep
    BY <2>1, TextsTyped DEF Audit!Renamed
  <2>2. CASE k # Keep
    <3>1. k + 1 \in 0..Keep
      BY <1>0, <2>2
    <3> QED BY <2>2, <3>1, TextsTyped DEF Audit!Renamed
  <2> QED BY <2>1, <2>2
<1>6. aLate' = aLate
  BY DEF Audit!Renamed
<1>7. k # 0 => aHandle' = aHandle
  <2> SUFFICES ASSUME k # 0 PROVE aHandle' = aHandle
    OBVIOUS
  <2>1. aHandle # k
    BY <1>0
  <2>2. CASE aHandle = Away
    BY <2>1, <2>2 DEF Audit!Renamed
  <2>3. CASE aHandle = 0
    <3>1. aHandle # k + 1
      BY <1>0, <2>3
    <3> QED BY <2>1, <2>3, <3>1 DEF Audit!Renamed
  <2> QED BY <2>2, <2>3
<1>8. k = 0 => aHandle' = IF Keep > 0 THEN 1 ELSE Away
  <2> SUFFICES ASSUME k = 0 PROVE aHandle' = IF Keep > 0 THEN 1 ELSE Away
    OBVIOUS
  <2>1. aHandle = 0
    BY DEF AuditHandle
  <2> QED BY <1>0, <2>1 DEF Audit!Renamed
<1> QED BY <1>2, <1>3, <1>4, <1>5, <1>6, <1>7, <1>8

-----------------------------------------------------------------------------
(* What the other steps of the log change. *)

\* A caller queues an entry or a flush.
Asks == Audit!Log \/ Audit!AskFlush

\* It carries the number of the last entry logged.
LEMMA AsksMoves ==
    ASSUME AuditTyped, Asks
    PROVE  /\ Len(aQueue) < QueueBound
           /\ \E m \in Requests : /\ aQueue' = Append(aQueue, m)
                                  /\ aLogged' = aLogged + One(m) /\ m.n = aLogged'
           /\ aLogged' \in 0..MaxEntries /\ aAsked' \in 0..MaxFlushes
           /\ UNCHANGED <<aAt, aMsg, aShift, aFile, aHandle, aBuffer, aSize, aReplied, aAway,
                          aLate, aRaced, aDropped, aFailed, aRemovals, aErrors, aFailures>>
<1> USE DEF Audit!disk, Audit!troubles, Audit!removed
<1>1. CASE Audit!Log
  <2> DEFINE m == Audit!Entry(aLogged + 1)
  <2>1. /\ Len(aQueue) < QueueBound /\ aLogged < MaxEntries /\ aLogged' = aLogged + 1
        /\ aAsked' = aAsked /\ aQueue' = Append(aQueue, m)
    BY <1>1 DEF Audit!Log
  <2>2. m = [kind |-> "entry", n |-> aLogged + 1]
    BY DEF Audit!Entry
  <2>3. aLogged + 1 \in Audit!Entries
    BY <2>1, AuditConstants DEF AuditTyped
  <2>4. m \in Requests /\ One(m) = 1 /\ m.n = aLogged + 1
    BY <2>2, <2>3 DEF Requests, One
  <2>5. aLogged' \in 0..MaxEntries /\ aAsked' \in 0..MaxFlushes
    BY <2>1, AuditConstants DEF AuditTyped
  <2> HIDE DEF m
  <2> QED BY <1>1, <2>1, <2>4, <2>5 DEF Audit!Log
<1>2. CASE Audit!AskFlush
  <2> DEFINE m == Audit!Flush(aLogged)
  <2>1. /\ Len(aQueue) < QueueBound /\ aAsked < MaxFlushes /\ aAsked' = aAsked + 1
        /\ aLogged' = aLogged /\ aQueue' = Append(aQueue, m)
    BY <1>2 DEF Audit!AskFlush
  <2>2. m = [kind |-> "flush", n |-> aLogged]
    BY DEF Audit!Flush
  <2>3. m \in Requests /\ One(m) = 0 /\ m.n = aLogged
    BY <2>2 DEF Requests, One, AuditTyped
  <2>4. MaxFlushes \in Nat /\ aLogged \in 0..MaxEntries /\ MaxEntries \in Nat
    BY ServicesAssumption DEF Audit!AuditAssumption, AuditTyped
  <2>5. aLogged' \in 0..MaxEntries /\ aAsked' \in 0..MaxFlushes
    BY <2>1, <2>4 DEF AuditTyped
  <2>6. aLogged' = aLogged + One(m) /\ m.n = aLogged'
    BY <2>1, <2>3, <2>4
  <2> HIDE DEF m
  <2> QED BY <1>2, <2>1, <2>3, <2>5, <2>6 DEF Audit!AskFlush
<1> QED BY <1>1, <1>2 DEF Asks

\* The writer takes the first request.
LEMMA ReceiveMoves ==
    ASSUME AuditTyped, Audit!Receive
    PROVE  /\ aAt \in {"idle", "next"} /\ aQueue # <<>>
           /\ aMsg' = Head(aQueue) /\ aMsg' = aQueue[1] /\ aMsg' \in Requests /\ aMsg' \in Work
           /\ aQueue' = Tail(aQueue) /\ aQueue' \in Seq(Requests) /\ Len(aQueue') = Len(aQueue) - 1
           /\ \A i \in 1..Len(aQueue') : aQueue'[i] = aQueue[i + 1]
           /\ \/ aMsg'.kind = "entry" /\ aAt' = "look" /\ aMsg'.n > 0
              \/ aMsg'.kind = "flush" /\ aAt' = "flush"
           /\ UNCHANGED <<aLogged, aAsked, aShift, aFile, aHandle, aBuffer, aSize, aReplied, aAway,
                          aLate, aRaced, aDropped, aFailed, aRemovals, aErrors, aFailures>>
<1>1. /\ aAt \in {"idle", "next"} /\ aQueue # <<>> /\ aMsg' = Head(aQueue) /\ aQueue' = Tail(aQueue)
      /\ aAt' = IF Head(aQueue).kind = "entry" THEN "look" ELSE "flush"
      /\ UNCHANGED <<aLogged, aAsked, aShift, aFile, aHandle, aBuffer, aSize, aReplied, aAway,
                     aLate, aRaced, aDropped, aFailed, aRemovals, aErrors, aFailures>>
  BY DEF Audit!Receive, Audit!disk, Audit!troubles, Audit!removed
<1>2. /\ Head(aQueue) \in Requests /\ Tail(aQueue) \in Seq(Requests) /\ Head(aQueue) = aQueue[1]
      /\ Len(Tail(aQueue)) = Len(aQueue) - 1
      /\ \A i \in 1..Len(Tail(aQueue)) : Tail(aQueue)[i] = aQueue[i + 1]
  BY <1>1, HeadTailProperties DEF AuditTyped
<1>3. \A m \in Requests : \/ m.kind = "entry" /\ m.n > 0 /\ m \in Work
                          \/ m.kind = "flush" /\ m \in Work
  <2> TAKE m \in Requests
  <2>1. CASE m \in [kind : {"entry"}, n : Audit!Entries]
    BY <2>1, AuditConstants DEF Work
  <2>2. CASE m \in [kind : {"flush"}, n : 0..MaxEntries]
    BY <2>2 DEF Work
  <2> QED BY <2>1, <2>2 DEF Requests
<1> QED BY <1>1, <1>2, <1>3

\* Somebody removes or moves the file at the path: it was the one the writer has open.
LEMMA FileGoesMoves ==
    ASSUME AuditTyped, AuditHandle, Audit!FileGoes
    PROVE  /\ aFile' \in [0..Keep -> Seq(Audit!Entries) \union {None}]
           /\ aFile'[0] = None /\ \A k \in 0..Keep : k # 0 => aFile'[k] = aFile[k]
           /\ Texts' = [Texts EXCEPT ![0] = <<>>]
           /\ aAway' = aAway \union ToSet(Texts[0])
           /\ aHandle = 0 /\ aHandle' = Away
           /\ aRaced' = (aRaced \/ aAt \in {"write", "flushOut", "flushRotated"})
           /\ aRemovals' = aRemovals + 1
           /\ UNCHANGED <<aLogged, aAsked, aQueue, aAt, aMsg, aShift, aBuffer, aSize, aReplied,
                          aLate, aDropped, aFailed, aErrors, aFailures>>
<1>0. 0 \in 0..Keep
  BY AuditConstants
<1>1. /\ aFile[0] # None /\ aFile' = [aFile EXCEPT ![0] = None]
      /\ aAway' = aAway \union Audit!ToSet(aFile[0])
      /\ aHandle' = (IF aHandle = 0 THEN Away ELSE aHandle)
      /\ aRaced' = (aRaced \/ aAt \in {"write", "flushOut", "flushRotated"})
      /\ aRemovals' = aRemovals + 1
      /\ UNCHANGED <<aLogged, aAsked, aQueue, aAt, aMsg, aShift, aBuffer, aSize, aReplied,
                     aLate, aDropped, aFailed, aErrors, aFailures>>
  BY DEF Audit!FileGoes, Audit!requests
<1>2. aHandle = 0 /\ aHandle' = Away
  BY <1>1 DEF AuditHandle
<1>3. /\ aFile' \in [0..Keep -> Seq(Audit!Entries) \union {None}]
      /\ aFile'[0] = None /\ \A k \in 0..Keep : k # 0 => aFile'[k] = aFile[k]
  BY <1>0, <1>1 DEF AuditTyped
<1>4. aAway' = aAway \union ToSet(Texts[0])
  BY <1>0, <1>1, TextsTyped DEF Audit!ToSet, ToSet
<1>5. Texts' = [Texts EXCEPT ![0] = <<>>]
  <2>1. \A k \in 0..Keep : Texts'[k] = IF aFile'[k] = None THEN <<>> ELSE aFile'[k]
    BY DEF Texts, Audit!Text
  <2>2. \A k \in 0..Keep : Texts[k] = IF aFile[k] = None THEN <<>> ELSE aFile[k]
    BY TextsTyped
  <2>3. Texts'[0] = <<>> /\ \A k \in 0..Keep : k # 0 => Texts'[k] = Texts[k]
    BY <1>0, <1>3, <2>1, <2>2
  <2>4. DOMAIN Texts' = 0..Keep /\ DOMAIN Texts = 0..Keep /\ Texts' = [k \in 0..Keep |-> Texts'[k]]
    BY DEF Texts
  <2> QED BY <1>0, <2>3, <2>4
<1> QED BY <1>1, <1>2, <1>3, <1>4, <1>5

\* A new file takes the place of none.
LEMMA FileAdded ==
    ASSUME AuditTyped, aFile[0] = None, aFile' = [aFile EXCEPT ![0] = <<>>]
    PROVE  /\ aFile' \in [0..Keep -> Seq(Audit!Entries) \union {None}]
           /\ aFile'[0] = <<>> /\ aFile'[0] # None
           /\ \A k \in 0..Keep : k # 0 => aFile'[k] = aFile[k]
           /\ Texts' = Texts
<1>0. 0 \in 0..Keep /\ <<>> \in Seq(Audit!Entries) /\ <<>> # None
  BY TextsTyped
<1>1. /\ aFile' \in [0..Keep -> Seq(Audit!Entries) \union {None}]
      /\ aFile'[0] = <<>> /\ \A k \in 0..Keep : k # 0 => aFile'[k] = aFile[k]
  BY <1>0 DEF AuditTyped
<1>2. \A k \in 0..Keep : Texts'[k] = IF aFile'[k] = None THEN <<>> ELSE aFile'[k]
  BY DEF Texts, Audit!Text
<1>3. \A k \in 0..Keep : Texts[k] = IF aFile[k] = None THEN <<>> ELSE aFile[k]
  BY TextsTyped
<1>4. \A k \in 0..Keep : Texts'[k] = Texts[k]
  BY <1>0, <1>1, <1>2, <1>3
<1>5. Texts' = [k \in 0..Keep |-> Texts'[k]] /\ Texts = [k \in 0..Keep |-> Texts[k]]
  BY DEF Texts
<1>6. Texts' = Texts
  BY <1>4, <1>5
<1> QED BY <1>0, <1>1, <1>6

\* The steps that write the buffer out.
Flushes == Audit!FlushRotated \/ Audit!FlushOut

\* It is written, or the write fails; what follows is the same.
LEMMA FlushesMoves ==
    ASSUME Flushes
    PROVE  /\ \/ Audit!Written /\ aBuffer' = <<>> /\ aErrors' = aErrors
              \/ /\ aErrors' = aErrors + 1
                 /\ UNCHANGED <<aFile, aHandle, aLate, aDropped, aBuffer>>
           /\ \/ /\ aAt = "flushRotated" /\ aAt' = "shift" /\ aShift' = Keep
                 /\ aMsg' = aMsg /\ aReplied' = aReplied
              \/ /\ aAt = "flushOut" /\ aShift' = aShift
                 /\ aMsg' = [aMsg EXCEPT !.kind = "entry"]
                 /\ \/ aMsg.kind = "flush" /\ aAt' = "next" /\ aReplied' = aMsg.n
                    \/ aAt' = "idle" /\ aReplied' = aReplied
           /\ UNCHANGED <<aLogged, aAsked, aQueue, aSize, aAway, aRaced, aFailed, aRemovals,
                          aFailures>>
<1> USE DEF Audit!Goes, Audit!disk, Audit!troubles, Audit!requests, Audit!removed, Audit!Errs
<1>1. CASE Audit!FlushRotated
  BY <1>1 DEF Audit!FlushRotated
<1>2. CASE Audit!FlushOut
  BY <1>2 DEF Audit!FlushOut
<1> QED BY <1>1, <1>2 DEF Flushes

\* A rotation goes on to the next file, and after the one at the path to a new one.
LEMMA ShiftMoves ==
    ASSUME Audit!Shift
    PROVE  /\ aAt = "shift" /\ aFile[aShift] # None /\ Audit!Renamed(aShift)
           /\ aShift = 0 => aAt' = "reopenRotated" /\ aShift' = aShift
           /\ aShift # 0 => aAt' = "shift" /\ aShift' = aShift - 1
           /\ UNCHANGED <<aLogged, aAsked, aQueue, aMsg, aBuffer, aSize, aReplied, aAway, aRaced,
                          aFailed, aRemovals, aErrors, aFailures>>
BY DEF Audit!Shift, Audit!Goes, Audit!troubles, Audit!requests, Audit!removed

\* The steps of a rotation that move no file.
Passes == Audit!NothingToShift \/ Audit!ShiftFails

\* There is none, or it cannot be moved; then a rotation ends at the path.
LEMMA PassesMoves ==
    ASSUME Passes
    PROVE  /\ aAt = "shift"
           /\ \/ aFile[aShift] = None /\ aFailures' = aFailures
              \/ aFile[aShift] # None /\ aFailures' = aFailures + 1
           /\ aShift # 0 => aAt' = "shift" /\ aShift' = aShift - 1 /\ aSize' = aSize
           /\ aShift = 0 =>
                 /\ aShift' = aShift
                 /\ \/ aAt' = "reopenRotated" /\ aFile[0] = None /\ aSize' = aSize
                    \/ /\ aAt' = "write" /\ aSize' = 0 /\ aFailures' = aFailures + 1
                       /\ aFile[0] # None
           /\ UNCHANGED <<aLogged, aAsked, aQueue, aMsg, aFile, aHandle, aBuffer, aReplied, aAway,
                          aLate, aRaced, aDropped, aFailed, aRemovals, aErrors>>
<1> USE DEF Audit!Goes, Audit!disk, Audit!requests, Audit!removed, Audit!troubles
<1>1. CASE Audit!NothingToShift
  BY <1>1 DEF Audit!NothingToShift
<1>2. CASE Audit!ShiftFails
  BY <1>2 DEF Audit!ShiftFails
<1> QED BY <1>1, <1>2 DEF Passes

\* The steps that end an entry.
Puts == Audit!Write \/ Audit!WriteFails

\* It is buffered, after a full buffer was written out, or lost.
LEMMA WriteMoves ==
    ASSUME Puts
    PROVE  /\ aAt = "write" /\ aAt' = "next"
           /\ \/ /\ Len(aBuffer) < BufferBound /\ aBuffer' = Append(aBuffer, aMsg.n)
                 /\ aSize' = aSize + 1
                 /\ UNCHANGED <<aFile, aHandle, aLate, aDropped, aFailed, aErrors>>
              \/ /\ Audit!Written /\ aBuffer' = <<aMsg.n>> /\ aSize' = aSize + 1
                 /\ UNCHANGED <<aFailed, aErrors>>
              \/ /\ aFailed' = aFailed \union {aMsg.n} /\ aErrors' = aErrors + 1
                 /\ UNCHANGED <<aFile, aHandle, aLate, aDropped, aBuffer, aSize>>
           /\ UNCHANGED <<aLogged, aAsked, aQueue, aMsg, aShift, aReplied, aAway, aRaced,
                          aRemovals, aFailures>>
<1> USE DEF Audit!Goes, Audit!disk, Audit!troubles, Audit!requests, Audit!removed, Audit!Buffered
<1>1. CASE Audit!Write
  BY <1>1 DEF Audit!Write
<1>2. CASE Audit!WriteFails
  BY <1>2 DEF Audit!WriteFails, Audit!Errs
<1> QED BY <1>1, <1>2 DEF Puts

\* The steps of the log, grouped.
LEMMA AuditSteps ==
    ASSUME Audit!Next
    PROVE  \/ Asks \/ Audit!Receive \/ Audit!FileGoes \/ Looks \/ Reopens \/ Flushes \/ Audit!Shift
           \/ Passes \/ Puts \/ Audit!LookFails
BY DEF Audit!Next, Audit!Writes, Looks, Asks, Reopens, Flushes, Passes, Puts

-----------------------------------------------------------------------------
(* Every step keeps the types and the bounds. *)

\* Types are kept.
LEMMA AuditTypedStep ==
    ASSUME AuditInv, Audit!Next
    PROVE  AuditTyped'
<1>0. AuditTyped /\ AuditHandle /\ AuditQueue
  BY DEF AuditInv
<1>1. CASE Asks
  <2>1. PICK m \in Requests : aQueue' = Append(aQueue, m)
    BY <1>0, <1>1, AsksMoves
  <2>2. aQueue' \in Seq(Requests)
    BY <1>0, <2>1, AppendProperties DEF AuditTyped
  <2> QED BY <1>0, <1>1, <2>2, AsksMoves DEF AuditTyped
<1>2. CASE Audit!Receive
  <2>1. aAt' \in Audit!Places
    BY <1>0, <1>2, ReceiveMoves DEF Audit!Places
  <2> QED BY <1>0, <1>2, <2>1, ReceiveMoves DEF AuditTyped
<1>3. CASE Audit!FileGoes
  <2>1. ToSet(Texts[0]) \subseteq Audit!Entries
    BY <1>0, TextsTyped, ElementsOf DEF Files
  <2>2. aRaced' \in BOOLEAN
    BY <1>0, <1>3, FileGoesMoves DEF AuditTyped
  <2>3. aRemovals' \in Nat /\ aAway' \subseteq Audit!Entries /\ aHandle' \in 0..Keep \union {Away}
    BY <1>0, <1>3, <2>1, FileGoesMoves DEF AuditTyped
  <2> QED BY <1>0, <1>3, <2>2, <2>3, FileGoesMoves DEF AuditTyped
<1>4. CASE Looks
  <2>1. aAt' \in Audit!Places
    BY <1>4, LooksMoves DEF Audit!Places
  <2> QED BY <1>0, <1>4, <2>1, LooksMoves DEF AuditTyped
<1>5. CASE Reopens
  <2>1. aAt' \in Audit!Places
    BY <1>5, ReopensMoves DEF Audit!Places
  <2>2. aFile' \in [0..Keep -> Seq(Audit!Entries) \union {None}]
    BY <1>0, <1>5, ReopensMoves, FileAdded DEF AuditTyped
  <2>3. aHandle' \in 0..Keep \union {Away} /\ aSize' \in Nat /\ aErrors' \in Nat
    BY <1>0, <1>5, ReopensMoves, AuditConstants, LenProperties DEF AuditTyped
  <2> QED BY <1>0, <1>5, <2>1, <2>2, <2>3, ReopensMoves DEF AuditTyped
<1>6. CASE Flushes
  <2>1. /\ aFile' \in [0..Keep -> Seq(Audit!Entries) \union {None}] /\ aHandle' = aHandle
        /\ aDropped' = aDropped /\ aLate' \subseteq Audit!Entries
        /\ aBuffer' \in Seq(Audit!Entries) /\ aErrors' \in Nat
    <3>1. ToSet(aBuffer) \subseteq Audit!Entries
      BY <1>0, ElementsOf DEF AuditTyped
    <3>2. CASE Audit!Written /\ aBuffer' = <<>> /\ aErrors' = aErrors
      BY <1>0, <3>1, <3>2, WrittenMoves, TextsTyped DEF AuditTyped
    <3>3. CASE /\ aErrors' = aErrors + 1
               /\ UNCHANGED <<aFile, aHandle, aLate, aDropped, aBuffer>>
      BY <1>0, <3>3 DEF AuditTyped
    <3> QED BY <1>6, <3>2, <3>3, FlushesMoves
  <2>2. aAt' \in Audit!Places /\ aShift' \in 0..Keep
    BY <1>0, <1>6, FlushesMoves, AuditConstants DEF Audit!Places, AuditTyped
  <2>3. aMsg' \in Work \union {None} /\ aReplied' \in 0..MaxEntries
    <3>1. CASE aAt = "flushRotated"
      BY <1>0, <1>6, <3>1, FlushesMoves DEF AuditTyped
    <3>2. CASE aAt = "flushOut"
      <4>1. aMsg \in Work
        BY <1>0, <3>2 DEF AuditQueue
      <4>2. aMsg' = [aMsg EXCEPT !.kind = "entry"] /\ (aReplied' = aMsg.n \/ aReplied' = aReplied)
        BY <1>6, <3>2, FlushesMoves
      <4>3. aMsg' \in Work /\ aMsg.n \in 0..MaxEntries
        BY <4>1, <4>2 DEF Work
      <4> QED BY <1>0, <4>2, <4>3 DEF AuditTyped
    <3> QED BY <1>6, <3>1, <3>2, FlushesMoves
  <2> QED BY <1>0, <1>6, <2>1, <2>2, <2>3, FlushesMoves DEF AuditTyped
<1>7. CASE Audit!Shift
  <2>1. aShift \in 0..Keep /\ aFile[aShift] # None /\ aHandle \in {0, Away} /\ Keep \in Nat
    BY <1>0, <1>7, ShiftMoves, AuditConstants DEF AuditTyped, AuditHandle
  <2>2. aAt' \in Audit!Places /\ aShift' \in 0..Keep
    BY <1>7, <2>1, ShiftMoves DEF Audit!Places
  <2>3. aFile' \in [0..Keep -> Seq(Audit!Entries) \union {None}] /\ aLate' = aLate
    BY <1>0, <1>7, <2>1, ShiftMoves, RenamedMoves
  <2>4. aHandle' \in 0..Keep \union {Away}
    <3>1. aShift # 0 => aHandle' = aHandle
      BY <1>0, <1>7, <2>1, ShiftMoves, RenamedMoves
    <3>2. aShift = 0 => aHandle' = IF Keep > 0 THEN 1 ELSE Away
      BY <1>0, <1>7, <2>1, ShiftMoves, RenamedMoves
    <3> QED BY <1>0, <2>1, <3>1, <3>2 DEF AuditTyped
  <2>5. aDropped' \subseteq Audit!Entries
    <3>1. aDropped' = aDropped \union (IF aShift = Keep THEN ToSet(Texts[aShift])
                                                        ELSE ToSet(Texts[aShift + 1]))
      BY <1>0, <1>7, <2>1, ShiftMoves, RenamedMoves
    <3>2. \A k \in 0..Keep : ToSet(Texts[k]) \subseteq Audit!Entries
      BY <1>0, TextsTyped, ElementsOf DEF Files
    <3>3. aShift # Keep => aShift + 1 \in 0..Keep
      BY <2>1
    <3> QED BY <1>0, <2>1, <3>1, <3>2, <3>3 DEF AuditTyped
  <2> QED BY <1>0, <1>7, <2>2, <2>3, <2>4, <2>5, ShiftMoves DEF AuditTyped
<1>8. CASE Passes
  <2>0. aShift \in 0..Keep /\ Keep \in Nat /\ aSize \in Nat /\ aFailures \in Nat
    BY <1>0, AuditConstants DEF AuditTyped
  <2>1. aAt' \in Audit!Places
    BY <1>8, PassesMoves DEF Audit!Places
  <2>2. aShift' \in 0..Keep
    BY <1>8, <2>0, PassesMoves
  <2>3. aSize' \in Nat
    BY <1>8, <2>0, PassesMoves
  <2>4. aFailures' \in Nat
    BY <1>8, <2>0, PassesMoves
  <2> QED BY <1>0, <1>8, <2>1, <2>2, <2>3, <2>4, PassesMoves DEF AuditTyped
<1>9. CASE Puts
  <2>1. aMsg.n \in Audit!Entries
    <3>1. aMsg \in Work /\ aMsg.n > 0
      BY <1>0, <1>9, WriteMoves DEF AuditQueue, Audit!Handling
    <3> QED BY <3>1, AuditConstants DEF Work
  <2>2. aAt' \in Audit!Places
    BY <1>9, WriteMoves DEF Audit!Places
  <2>3. /\ aFile' \in [0..Keep -> Seq(Audit!Entries) \union {None}] /\ aHandle' = aHandle
        /\ aDropped' = aDropped /\ aLate' \subseteq Audit!Entries
        /\ aBuffer' \in Seq(Audit!Entries) /\ aErrors' \in Nat /\ aSize' \in Nat
        /\ aFailed' \subseteq Audit!Entries
    <3>1. ToSet(aBuffer) \subseteq Audit!Entries
      BY <1>0, ElementsOf DEF AuditTyped
    <3>2. Append(aBuffer, aMsg.n) \in Seq(Audit!Entries) /\ <<aMsg.n>> \in Seq(Audit!Entries)
      BY <1>0, <2>1, AppendProperties DEF AuditTyped
    <3>3. CASE /\ Len(aBuffer) < BufferBound /\ aBuffer' = Append(aBuffer, aMsg.n)
               /\ aSize' = aSize + 1
               /\ UNCHANGED <<aFile, aHandle, aLate, aDropped, aFailed, aErrors>>
      BY <1>0, <3>2, <3>3 DEF AuditTyped
    <3>4. CASE /\ Audit!Written /\ aBuffer' = <<aMsg.n>> /\ aSize' = aSize + 1
               /\ UNCHANGED <<aFailed, aErrors>>
      BY <1>0, <3>1, <3>2, <3>4, WrittenMoves DEF AuditTyped
    <3>5. CASE /\ aFailed' = aFailed \union {aMsg.n} /\ aErrors' = aErrors + 1
               /\ UNCHANGED <<aFile, aHandle, aLate, aDropped, aBuffer, aSize>>
      BY <1>0, <2>1, <3>5 DEF AuditTyped
    <3> QED BY <1>9, <3>3, <3>4, <3>5, WriteMoves
  <2> QED BY <1>0, <1>9, <2>2, <2>3, WriteMoves DEF AuditTyped
<1>10. CASE Audit!LookFails
  <2>1. aAt' \in Audit!Places
    BY <1>10, LookFailsMoves DEF Audit!Places
  <2>2. aSize' \in Nat /\ aErrors' \in Nat
    BY <1>0, <1>10, LookFailsMoves DEF AuditTyped
  <2> QED BY <1>0, <1>10, <2>1, <2>2, LookFailsMoves DEF AuditTyped
<1> QED BY <1>1, <1>2, <1>3, <1>4, <1>5, <1>6, <1>7, <1>8, <1>9, <1>10, AuditSteps

\* The queue and the buffer are bounded.
LEMMA AuditBoundedStep ==
    ASSUME AuditInv, Audit!Next
    PROVE  AuditBounded'
<1>0. AuditTyped /\ AuditHandle /\ AuditBounded
  BY DEF AuditInv
<1>1. /\ QueueBound \in Nat /\ BufferBound \in Nat \ {0}
      /\ Len(aQueue) \in Nat /\ Len(aBuffer) \in Nat /\ Len(<<>>) = 0
  BY <1>0, AuditConstants, LenProperties, EmptySeq DEF AuditTyped
<1>2. CASE Asks
  <2>1. PICK m \in Requests : aQueue' = Append(aQueue, m)
    BY <1>0, <1>2, AsksMoves
  <2>2. Len(aQueue') = Len(aQueue) + 1
    BY <1>0, <2>1, AppendProperties DEF AuditTyped
  <2> QED BY <1>0, <1>1, <1>2, <2>2, AsksMoves DEF AuditBounded
<1>3. CASE Audit!Receive
  BY <1>0, <1>1, <1>3, ReceiveMoves DEF AuditBounded
<1>4. CASE Flushes
  BY <1>0, <1>1, <1>4, FlushesMoves DEF AuditBounded
<1>5. CASE Puts
  <2>1. Len(<<aMsg.n>>) = 1
    OBVIOUS
  <2>2. Len(Append(aBuffer, aMsg.n)) = Len(aBuffer) + 1
    BY <1>0 DEF AuditTyped
  <2>3. aQueue' = aQueue
    BY <1>5, WriteMoves
  <2>4. \/ Len(aBuffer) < BufferBound /\ aBuffer' = Append(aBuffer, aMsg.n)
        \/ aBuffer' = <<aMsg.n>> \/ aBuffer' = aBuffer
    BY <1>5, WriteMoves
  <2>5. Len(aBuffer') <= BufferBound
    <3>1. CASE Len(aBuffer) < BufferBound /\ aBuffer' = Append(aBuffer, aMsg.n)
      BY <1>1, <2>2, <3>1
    <3>2. CASE aBuffer' = <<aMsg.n>>
      BY <1>1, <2>1, <3>2
    <3>3. CASE aBuffer' = aBuffer
      BY <1>0, <3>3 DEF AuditBounded
    <3> QED BY <2>4, <3>1, <3>2, <3>3
  <2> QED BY <1>0, <2>3, <2>5 DEF AuditBounded
<1>6. CASE Audit!FileGoes
  BY <1>0, <1>6, FileGoesMoves DEF AuditBounded
<1>7. CASE Looks
  BY <1>0, <1>7, LooksMoves DEF AuditBounded
<1>8. CASE Reopens
  BY <1>0, <1>8, ReopensMoves DEF AuditBounded
<1>9. CASE Audit!Shift
  BY <1>0, <1>9, ShiftMoves DEF AuditBounded
<1>10. CASE Passes
  BY <1>0, <1>10, PassesMoves DEF AuditBounded
<1>11. CASE Audit!LookFails
  BY <1>0, <1>11, LookFailsMoves DEF AuditBounded
<1> QED BY <1>2, <1>3, <1>4, <1>5, <1>6, <1>7, <1>8, <1>9, <1>10, <1>11, AuditSteps

-----------------------------------------------------------------------------
(* The queue, and how far the writer is. *)

\* Where the writer goes on by itself.
WriterMoves ==
    Looks \/ Audit!LookFails \/ Reopens \/ Flushes \/ Audit!Shift \/ Passes \/ Puts

\* It goes on with what it handles, and only writing the entry ends it.
LEMMA WriterGoesOn ==
    ASSUME AuditTyped, WriterMoves
    PROVE  /\ aAt # "idle" /\ UNCHANGED <<aQueue, aLogged>>
           /\ aMsg' = aMsg \/ (~Audit!Handling' /\ aMsg' = [aMsg EXCEPT !.kind = "entry"])
           /\ Puts => Audit!Handling /\ ~Audit!Handling'
           /\ ~Puts => (Audit!Handling' <=> Audit!Handling)
<1> USE DEF Audit!Handling
<1>0. Puts => aAt = "write" /\ aAt' = "next"
  BY WriteMoves
<1>1. CASE Looks
  BY <1>0, <1>1, LooksMoves
<1>2. CASE Reopens
  BY <1>0, <1>2, ReopensMoves
<1>3. CASE Flushes
  BY <1>0, <1>3, FlushesMoves
<1>4. CASE Audit!Shift
  <2>1. aShift = 0 \/ aShift # 0
    OBVIOUS
  <2> QED BY <1>0, <1>4, <2>1, ShiftMoves
<1>5. CASE Passes
  <2>1. aShift = 0 \/ aShift # 0
    OBVIOUS
  <2> QED BY <1>0, <1>5, <2>1, PassesMoves
<1>6. CASE Puts
  BY <1>6, WriteMoves
<1>7. CASE Audit!LookFails
  BY <1>0, <1>7, LookFailsMoves
<1> QED BY <1>1, <1>2, <1>3, <1>4, <1>5, <1>6, <1>7 DEF WriterMoves

\* What has been received changes only when the writer takes an entry.
LEMMA ReceivedMoves ==
    ASSUME AuditTyped, Audit!Next
    PROVE  /\ Received \in Int
           /\ Audit!Receive => Received' = Received + One(aMsg')
           /\ ~Audit!Receive => Received' = Received
<1> DEFINE C(q) == Cardinality(EntriesIn(q))
<1>0. aQueue \in Seq(Requests) /\ aLogged \in Int /\ \A q \in Seq(Requests) : C(q) \in Nat
  BY EntriesFinite, AuditConstants DEF AuditTyped
<1>1. Received = aLogged - C(aQueue)
  BY HandledIs
<1>2. Received' = aLogged' - C(aQueue')
  <2>1. (Received = aLogged - Cardinality(EntriesIn(aQueue)))'
    BY HandledIs, PTL
  <2> QED BY <2>1
<1> HIDE DEF C
<1>3. CASE Audit!Receive
  <2>1. C(aQueue) = C(Tail(aQueue)) + One(Head(aQueue))
    BY <1>0, <1>3, ReceiveMoves, EntriesTail DEF C
  <2>2. aQueue' = Tail(aQueue) /\ aMsg' = Head(aQueue) /\ aLogged' = aLogged /\ aQueue' \in Seq(Requests)
    BY <1>3, ReceiveMoves
  <2>3. One(Head(aQueue)) \in Nat
    BY DEF One
  <2>4. C(aQueue) = C(aQueue') + One(aMsg') /\ C(aQueue) \in Nat /\ C(aQueue') \in Nat
    BY <1>0, <2>1, <2>2
  <2>5. Received' = Received + One(aMsg') /\ Received \in Int
    BY <1>0, <1>1, <1>2, <2>2, <2>3, <2>4
  <2> QED BY <1>3, <2>5
<1>4. CASE Asks
  <2>1. PICK m \in Requests : aQueue' = Append(aQueue, m) /\ aLogged' = aLogged + One(m)
    BY <1>4, AsksMoves
  <2>2. C(aQueue') = C(aQueue) + One(m)
    BY <1>0, <2>1, EntriesAppend DEF C
  <2>3. One(m) \in Nat
    BY DEF One
  <2>4. ~Audit!Receive
    <3>1. Audit!Receive => aQueue' = Tail(aQueue) /\ aQueue # <<>>
      BY ReceiveMoves
    <3>2. Len(Append(aQueue, m)) = Len(aQueue) + 1
      BY <1>0
    <3>3. aQueue # <<>> => Len(Tail(aQueue)) = Len(aQueue) - 1 /\ Len(aQueue) \in Nat
      BY <1>0, HeadTailProperties, LenProperties
    <3> QED BY <2>1, <3>1, <3>2, <3>3
  <2> QED BY <1>0, <1>1, <1>2, <2>1, <2>2, <2>3, <2>4
<1>5. CASE ~Audit!Receive /\ (Audit!FileGoes \/ WriterMoves)
  <2>1. aQueue' = aQueue /\ aLogged' = aLogged
    BY <1>5, WriterGoesOn DEF Audit!FileGoes, Audit!requests
  <2>2. Received' = Received
    BY <1>1, <1>2, <2>1
  <2> QED BY <1>0, <1>1, <1>5, <2>2
<1> QED BY <1>3, <1>4, <1>5, AuditSteps DEF WriterMoves

\* So the entries the writer is done with are one more when it has written one.
LEMMA HandledMoves ==
    ASSUME AuditInv, Audit!Next
    PROVE  /\ Audit!Handled \in Nat
           /\ Puts => Audit!Handled' = Audit!Handled + 1 /\ aMsg.n = Audit!Handled + 1
           /\ ~Puts => Audit!Handled' = Audit!Handled
<1> DEFINE R == Received
           H == IF Audit!Handling THEN 1 ELSE 0
           D == Audit!Handled
<1>0. AuditTyped /\ AuditQueue
  BY DEF AuditInv
<1>1. D = R - H
  BY HandledIs
<1>2. D' = R' - H'
  <2>1. (Audit!Handled = Received - (IF Audit!Handling THEN 1 ELSE 0))'
    BY HandledNow, PTL
  <2> QED BY <2>1
<1>3. R \in Nat /\ (Audit!Handling => aMsg.n = R /\ R > 0)
  BY <1>0 DEF AuditQueue, Audit!Handling
<1>4. D \in Nat
  BY <1>1, <1>3
<1>5. /\ Audit!Receive => R' = R + One(aMsg')
      /\ ~Audit!Receive => R' = R
  BY <1>0, ReceivedMoves
<1> HIDE DEF R, D
<1>6. CASE Audit!Receive
  <2>1. aAt \in {"idle", "next"} /\ ~Audit!Handling
    BY <1>0, <1>6, ReceiveMoves DEF Audit!Handling
  <2>2. H' = One(aMsg')
    BY <1>0, <1>6, ReceiveMoves DEF One, Audit!Handling
  <2>3. ~Puts
    BY <2>1, WriteMoves
  <2>4. One(aMsg') \in Nat
    BY DEF One
  <2> QED BY <1>1, <1>2, <1>3, <1>4, <1>5, <1>6, <2>1, <2>2, <2>3, <2>4 DEF D
<1>7. CASE ~Audit!Receive /\ (Asks \/ Audit!FileGoes) /\ ~Puts
  <2>1. aAt' = aAt
    BY <1>0, <1>7, AsksMoves, FileGoesMoves DEF AuditInv
  <2>2. H' = H
    BY <2>1 DEF Audit!Handling
  <2> QED BY <1>1, <1>2, <1>3, <1>4, <1>5, <1>7, <2>2 DEF D
<1>8. CASE ~Audit!Receive /\ WriterMoves
  <2>1. Puts => H = 1 /\ H' = 0 /\ aMsg.n = R
    BY <1>0, <1>3, <1>8, WriterGoesOn
  <2>2. ~Puts => H' = H
    BY <1>0, <1>8, WriterGoesOn
  <2> QED BY <1>1, <1>2, <1>3, <1>4, <1>5, <1>8, <2>1, <2>2 DEF D
<1>9. Audit!Receive => ~Puts
  BY <1>0, ReceiveMoves, WriteMoves
<1> QED BY <1>6, <1>7, <1>8, <1>9, AuditSteps DEF WriterMoves, D

\* Requests stay in order, and the one that is handled is the last that was received.
LEMMA AuditQueueStep ==
    ASSUME AuditInv, Audit!Next
    PROVE  AuditQueue'
<1>0. AuditTyped /\ AuditQueue
  BY DEF AuditInv
<1>1. /\ Received \in Nat
      /\ Audit!Receive => Received' = Received + One(aMsg')
      /\ ~Audit!Receive => Received' = Received
  BY <1>0, ReceivedMoves DEF AuditQueue
<1>2. aQueue \in Seq(Requests) /\ Len(aQueue) \in Nat /\ (aQueue = <<>> <=> Len(aQueue) = 0)
  BY <1>0, LenProperties, EmptySeq DEF AuditTyped
<1> DEFINE R == Received
           Queued(q, r, last) ==
             /\ q # <<>> => q[1].n = r + One(q[1])
             /\ \A i \in 1..(Len(q) - 1) : q[i + 1].n = q[i].n + One(q[i + 1])
             /\ q # <<>> => q[Len(q)].n = last
           Held(at, m, r) == /\ at # "idle" => m \in Work /\ m.n = r
           Open == Audit!Handling => aMsg.kind = "entry" /\ aMsg.n > 0
<1>3. Queued(aQueue, R, aLogged) /\ Held(aAt, aMsg, R) /\ Open
  BY <1>0 DEF AuditQueue
<1>4. R' \in Nat /\ Queued(aQueue', R', aLogged') /\ Held(aAt', aMsg', R') /\ Open'
  <2>1. CASE Audit!Receive
    <3>1. /\ aQueue # <<>> /\ aMsg' = aQueue[1] /\ aMsg' \in Work
          /\ Len(aQueue') = Len(aQueue) - 1 /\ aQueue' \in Seq(Requests)
          /\ \A i \in 1..Len(aQueue') : aQueue'[i] = aQueue[i + 1]
          /\ (aMsg'.kind = "entry" /\ aAt' = "look" /\ aMsg'.n > 0)
                \/ (aMsg'.kind = "flush" /\ aAt' = "flush")
          /\ aLogged' = aLogged
      BY <1>0, <2>1, ReceiveMoves
    <3>2. R' = R + One(aMsg') /\ aMsg'.n = R' /\ R' \in Nat
      BY <1>1, <1>3, <2>1, <3>1 DEF One
    <3>3. Held(aAt', aMsg', R') /\ Open'
      BY <3>1, <3>2 DEF Audit!Handling
    <3>4. aQueue' # <<>> => Len(aQueue') \in Nat /\ Len(aQueue') > 0
      BY <3>1, LenProperties, EmptySeq
    <3> HIDE DEF R
    <3>5. aQueue' # <<>> => aQueue'[1].n = R' + One(aQueue'[1])
      <4> SUFFICES ASSUME aQueue' # <<>> PROVE aQueue'[1].n = R' + One(aQueue'[1])
        OBVIOUS
      <4>1. aQueue'[1] = aQueue[2] /\ 1 \in 1..(Len(aQueue) - 1)
        BY <1>2, <3>1, <3>4
      <4>2. aQueue[1 + 1].n = aQueue[1].n + One(aQueue[1 + 1])
        BY <1>3, <4>1
      <4> QED BY <3>1, <3>2, <4>1, <4>2
    <3>6. ASSUME NEW i \in 1..(Len(aQueue') - 1)
          PROVE  aQueue'[i + 1].n = aQueue'[i].n + One(aQueue'[i + 1])
      <4>1. /\ i + 1 \in 1..(Len(aQueue) - 1) /\ i + 1 \in 1..Len(aQueue')
            /\ i \in 1..Len(aQueue')
        BY <1>2, <3>1
      <4>2. aQueue[(i + 1) + 1].n = aQueue[i + 1].n + One(aQueue[(i + 1) + 1])
        BY <1>3, <4>1
      <4>3. aQueue'[i] = aQueue[i + 1] /\ aQueue'[i + 1] = aQueue[(i + 1) + 1]
        BY <3>1, <4>1
      <4> QED BY <4>2, <4>3
    <3>7. aQueue' # <<>> => aQueue'[Len(aQueue')].n = aLogged'
      <4> SUFFICES ASSUME aQueue' # <<>> PROVE aQueue'[Len(aQueue')].n = aLogged'
        OBVIOUS
      <4>1. Len(aQueue') \in 1..Len(aQueue') /\ Len(aQueue') + 1 = Len(aQueue)
        BY <1>2, <3>1, <3>4
      <4> QED BY <1>3, <3>1, <4>1
    <3> QED BY <3>2, <3>3, <3>5, <3>6, <3>7
  <2>2. CASE ~Audit!Receive /\ Asks
    <3>1. PICK m \in Requests : /\ aQueue' = Append(aQueue, m)
                                /\ aLogged' = aLogged + One(m) /\ m.n = aLogged'
      BY <1>0, <2>2, AsksMoves
    <3>2. aAt' = aAt /\ aMsg' = aMsg /\ R' = R /\ aLogged \in Nat
      BY <1>0, <1>1, <2>2, AsksMoves, AuditConstants DEF AuditTyped
    <3>3. /\ Len(aQueue') = Len(aQueue) + 1 /\ aQueue'[Len(aQueue) + 1] = m
          /\ \A i \in 1..Len(aQueue) : aQueue'[i] = aQueue[i]
      BY <1>2, <3>1, AppendProperties
    <3>4. Held(aAt', aMsg', R') /\ Open' /\ R' \in Nat
      BY <1>1, <1>3, <3>2 DEF Audit!Handling
    <3>5. aQueue = <<>> => R = aLogged
      <4> SUFFICES ASSUME aQueue = <<>> PROVE R = aLogged
        OBVIOUS
      <4>1. Cardinality(EntriesIn(aQueue)) = 0
        BY EntriesNone
      <4>2. R = aLogged - 0
        BY <4>1, HandledIs
      <4> QED BY <3>2, <4>2
    <3> HIDE DEF R
    <3>6. aQueue'[1].n = R' + One(aQueue'[1])
      <4>1. CASE aQueue = <<>>
        <5>1. aQueue'[1] = m
          BY <1>2, <3>3, <4>1
        <5> QED BY <3>1, <3>2, <3>5, <4>1, <5>1
      <4>2. CASE aQueue # <<>>
        <5>1. 1 \in 1..Len(aQueue)
          BY <1>2, <4>2
        <5> QED BY <1>3, <3>2, <3>3, <4>2, <5>1
      <4> QED BY <4>1, <4>2
    <3>7. ASSUME NEW i \in 1..(Len(aQueue') - 1)
          PROVE  aQueue'[i + 1].n = aQueue'[i].n + One(aQueue'[i + 1])
      <4>1. CASE i = Len(aQueue)
        <5>1. aQueue # <<>> /\ i \in 1..Len(aQueue)
          BY <1>2, <3>3, <4>1
        <5>2. aQueue'[i] = aQueue[i] /\ aQueue[i].n = aLogged /\ aQueue'[i + 1] = m
          BY <1>3, <3>3, <4>1, <5>1
        <5> QED BY <3>1, <5>2
      <4>2. CASE i # Len(aQueue)
        <5>1. i \in 1..(Len(aQueue) - 1) /\ i \in 1..Len(aQueue) /\ i + 1 \in 1..Len(aQueue)
          BY <1>2, <3>3, <4>2
        <5> QED BY <1>3, <3>3, <5>1
      <4> QED BY <4>1, <4>2
    <3>8. aQueue'[Len(aQueue')].n = aLogged'
      BY <3>1, <3>3
    <3> QED BY <3>4, <3>6, <3>7, <3>8
  <2>3. CASE ~Audit!Receive /\ Audit!FileGoes
    <3>1. UNCHANGED <<aQueue, aLogged, aAt, aMsg>> /\ R' = R
      BY <1>0, <1>1, <2>3, FileGoesMoves DEF AuditInv
    <3> QED BY <1>1, <1>3, <3>1 DEF Audit!Handling
  <2>4. CASE ~Audit!Receive /\ WriterMoves
    <3>1. /\ aQueue' = aQueue /\ aLogged' = aLogged /\ R' = R /\ aAt # "idle"
          /\ aMsg' = aMsg \/ (~Audit!Handling' /\ aMsg' = [aMsg EXCEPT !.kind = "entry"])
          /\ Audit!Handling' => Audit!Handling
      BY <1>0, <1>1, <2>4, WriterGoesOn
    <3>2. aMsg \in Work /\ aMsg.n = R
      BY <1>3, <3>1
    <3>3. [aMsg EXCEPT !.kind = "entry"] \in Work /\ [aMsg EXCEPT !.kind = "entry"].n = aMsg.n
      BY <3>2 DEF Work
    <3>4. aMsg' \in Work /\ aMsg'.n = R'
      BY <3>1, <3>2, <3>3
    <3>5. Open'
      BY <1>3, <3>1
    <3> QED BY <1>1, <1>3, <3>1, <3>4, <3>5
  <2> QED BY <2>1, <2>2, <2>3, <2>4, AuditSteps DEF WriterMoves
<1> QED BY <1>4 DEF AuditQueue

-----------------------------------------------------------------------------
(* The open file, and the order of what is stored. *)

\* The writer has the newest file open, or one that was removed.
LEMMA AuditHandleStep ==
    ASSUME AuditInv, Audit!Next
    PROVE  AuditHandle'
<1>0. AuditTyped /\ AuditHandle /\ 0 \in 0..Keep /\ Away # 0 /\ Keep \in Nat
  BY AuditConstants DEF AuditInv
<1>1. CASE Asks
  BY <1>0, <1>1, AsksMoves DEF AuditHandle
<1>2. CASE Audit!Receive
  BY <1>0, <1>2, ReceiveMoves DEF AuditHandle
<1>3. CASE Audit!FileGoes
  BY <1>0, <1>3, FileGoesMoves DEF AuditHandle
<1>4. CASE Looks
  BY <1>0, <1>4, LooksMoves DEF AuditHandle
<1>5. CASE Reopens
  <2>1. CASE aFile[0] = None /\ aFile' = [aFile EXCEPT ![0] = <<>>] /\ aHandle' = 0
    BY <1>0, <2>1, FileAdded DEF AuditHandle
  <2>2. CASE aFile' = aFile /\ aHandle' = aHandle /\ aAt' # "rotate"
    <3>1. aAt' \notin {"flushRotated", "shift"}
      BY <1>5, <2>2, ReopensMoves
    <3> QED BY <1>0, <2>2, <3>1 DEF AuditHandle
  <2> QED BY <1>5, <2>1, <2>2, ReopensMoves
<1>6. ASSUME \/ Audit!Written
             \/ aFile' = aFile /\ aHandle' = aHandle,
             aAt' \in {"flushRotated", "shift"} => aAt \in {"flushRotated", "shift"}
      PROVE  AuditHandle'
  <2>1. aHandle' = aHandle /\ \A k \in 0..Keep : aFile'[k] = None <=> aFile[k] = None
    BY <1>0, <1>6, WrittenMoves
  <2>2. aHandle \in 0..Keep \union {Away}
    BY <1>0 DEF AuditTyped
  <2> QED BY <1>0, <1>6, <2>1, <2>2 DEF AuditHandle
<1>7. CASE Flushes
  <2>1. Audit!Written \/ (aFile' = aFile /\ aHandle' = aHandle)
    BY <1>7, FlushesMoves
  <2>2. aAt' \in {"flushRotated", "shift"} => aAt = "flushRotated"
    BY <1>7, FlushesMoves
  <2> QED BY <1>6, <2>1, <2>2
<1>8. CASE Puts
  <2>1. Audit!Written \/ (aFile' = aFile /\ aHandle' = aHandle)
    BY <1>8, WriteMoves
  <2>2. aAt' = "next"
    BY <1>8, WriteMoves
  <2> QED BY <1>6, <2>1, <2>2
<1>9. CASE Audit!Shift
  <2>1. aShift \in 0..Keep /\ aFile[aShift] # None /\ aHandle \in {0, Away}
    BY <1>0, <1>9, ShiftMoves DEF AuditTyped, AuditHandle
  <2>2. CASE aShift # 0
    <3>1. aHandle' = aHandle /\ aFile'[0] = aFile[0]
      BY <1>0, <1>9, <2>1, <2>2, ShiftMoves, RenamedMoves
    <3>2. aHandle # Away => aHandle = 0
      BY <2>1
    <3> QED BY <1>0, <2>1, <3>1, <3>2 DEF AuditHandle
  <2>3. CASE aShift = 0
    <3>1. /\ aAt' = "reopenRotated" /\ aFile'[0] = None
          /\ aHandle' = IF Keep > 0 THEN 1 ELSE Away
          /\ 0 < Keep => aFile'[0 + 1] = aFile[0]
      BY <1>0, <1>9, <2>1, <2>3, ShiftMoves, RenamedMoves
    <3>2. aHandle' # 0
      BY <1>0, <3>1
    <3>3. aHandle' # Away => aHandle' = 1 /\ aFile'[1] # None
      BY <1>0, <2>1, <2>3, <3>1
    <3> QED BY <3>1, <3>2, <3>3 DEF AuditHandle
  <2> QED BY <2>2, <2>3
<1>10. CASE Passes
  BY <1>0, <1>10, PassesMoves DEF AuditHandle
<1>11. CASE Audit!LookFails
  BY <1>0, <1>11, LookFailsMoves DEF AuditHandle
<1> QED BY <1>1, <1>2, <1>3, <1>4, <1>5, <1>7, <1>8, <1>9, <1>10, <1>11, AuditSteps

\* What is written out stays stored, in order, unless it goes to a removed file.
LEMMA WrittenKeeps ==
    ASSUME AuditTyped, AuditHandle, Ordered(Texts, aBuffer), Audit!Written
    PROVE  /\ Texts' \in Files /\ Ordered(Texts', <<>>)
           /\ Stored(Texts', <<>>) \subseteq Stored(Texts, aBuffer)
           /\ Stored(Texts', <<>>) \union aLate' = Stored(Texts, aBuffer) \union aLate
<1>0. Texts \in Files /\ aBuffer \in Seq(Audit!Entries)
  BY TextsTyped DEF AuditTyped
<1>1. CASE aHandle # Away
  <2> DEFINE u == [Texts EXCEPT ![aHandle] = Texts[aHandle] \o aBuffer]
  <2>1. /\ aHandle \in 0..Keep /\ aLate' = aLate /\ Texts' = u
        /\ \A k \in 0..Keep : k < aHandle => Texts[k] = <<>>
    BY <1>1, WrittenMoves
  <2>2. u \in Files /\ Ordered(u, <<>>) /\ Stored(u, <<>>) = Stored(Texts, aBuffer)
    BY <1>0, <2>1, BufferLeaves
  <2> HIDE DEF u
  <2> QED BY <2>1, <2>2
<1>2. CASE aHandle = Away
  <2>1. Texts' = Texts /\ aLate' = aLate \union ToSet(aBuffer)
    BY <1>2, WrittenMoves, TextsSame
  <2>2. /\ Ordered(Texts, <<>>) /\ Stored(Texts, <<>>) \subseteq Stored(Texts, aBuffer)
        /\ Stored(Texts, aBuffer) = Stored(Texts, <<>>) \union ToSet(aBuffer)
    BY <1>0, BufferGone
  <2> QED BY <1>0, <2>1, <2>2
<1> QED BY <1>1, <1>2

\* The entries that are no longer stored.
Lost == aAway \union aLate \union aDropped \union aFailed

\* What a step does to files and buffer: an entry is stored only as the next one that is handled,
\* and what is no longer stored is lost.
LEMMA EntriesMove ==
    ASSUME AuditInv, Audit!Next
    PROVE  /\ Ordered(Texts', aBuffer')
           /\ ~Puts => /\ Stored(Texts', aBuffer') \subseteq Stored(Texts, aBuffer)
                       /\ Stored(Texts', aBuffer') \union Lost' = Stored(Texts, aBuffer) \union Lost
           /\ Puts => /\ Stored(Texts', aBuffer') \subseteq Stored(Texts, aBuffer) \union {aMsg.n}
                      /\ Stored(Texts', aBuffer') \union Lost'
                            = Stored(Texts, aBuffer) \union Lost \union {aMsg.n}
<1>0. /\ AuditTyped /\ AuditHandle /\ AuditQueue /\ Ordered(Texts, aBuffer)
      /\ Stored(Texts, aBuffer) \union Lost = 1..Audit!Handled /\ Audit!Handled \in Nat
  BY HandledMoves DEF AuditInv, AuditOrder, Lost
<1>1. Texts \in Files /\ aBuffer \in Seq(Audit!Entries) /\ 0 \in 0..Keep /\ <<>> \in Seq(Audit!Entries)
  BY <1>0, TextsTyped DEF AuditTyped
<1>2. ASSUME Texts' = Texts, UNCHANGED <<aBuffer, aAway, aLate, aDropped, aFailed>>
      PROVE  /\ Ordered(Texts', aBuffer')
             /\ Stored(Texts', aBuffer') \subseteq Stored(Texts, aBuffer)
             /\ Stored(Texts', aBuffer') \union Lost' = Stored(Texts, aBuffer) \union Lost
  BY <1>0, <1>2 DEF Lost
<1>3. CASE (Asks \/ Audit!Receive \/ Looks \/ Audit!LookFails \/ Passes \/ Reopens) /\ ~Puts
  <2>1. UNCHANGED <<aBuffer, aAway, aLate, aDropped, aFailed>>
    BY <1>0, <1>3, AsksMoves, ReceiveMoves, LooksMoves, LookFailsMoves, PassesMoves, ReopensMoves
  <2>2. Texts' = Texts
    <3>1. CASE aFile' = aFile
      BY <3>1, TextsSame
    <3>2. CASE Reopens /\ aFile' # aFile
      BY <1>0, <3>2, ReopensMoves, FileAdded
    <3> QED BY <1>0, <1>3, <3>1, <3>2, AsksMoves, ReceiveMoves, LooksMoves, LookFailsMoves,
               PassesMoves
  <2> QED BY <1>2, <1>3, <2>1, <2>2
<1>4. CASE Audit!FileGoes /\ ~Puts
  <2> DEFINE u == [Texts EXCEPT ![0] = <<>>]
  <2>1. /\ Texts' = u /\ aBuffer' = aBuffer /\ aAway' = aAway \union ToSet(Texts[0])
        /\ UNCHANGED <<aLate, aDropped, aFailed>>
    BY <1>0, <1>4, FileGoesMoves
  <2>2. /\ Ordered(u, aBuffer) /\ Stored(u, aBuffer) \subseteq Stored(Texts, aBuffer)
        /\ Stored(Texts, aBuffer) \subseteq Stored(u, aBuffer) \union ToSet(Texts[0])
    BY <1>0, <1>1, FileLeaves
  <2>3. ToSet(Texts[0]) \subseteq Stored(Texts, aBuffer)
    BY <1>1 DEF Stored
  <2> HIDE DEF u
  <2> QED BY <1>4, <2>1, <2>2, <2>3 DEF Lost
<1>5. CASE Flushes /\ ~Puts
  <2>1. UNCHANGED <<aAway, aFailed>>
    BY <1>5, FlushesMoves
  <2>2. CASE Audit!Written /\ aBuffer' = <<>>
    <3>1. aDropped' = aDropped
      BY <1>0, <2>2, WrittenMoves
    <3> QED BY <1>0, <1>5, <2>1, <2>2, <3>1, WrittenKeeps DEF Lost
  <2>3. CASE UNCHANGED <<aFile, aHandle, aLate, aDropped, aBuffer>>
    <3>1. Texts' = Texts
      BY <2>3, TextsSame
    <3> QED BY <1>2, <1>5, <2>1, <2>3, <3>1
  <2> QED BY <1>5, <2>2, <2>3, FlushesMoves
<1>6. CASE Audit!Shift /\ ~Puts
  <2> DEFINE k == aShift
             u == [i \in 0..Keep |-> CASE i = k -> <<>> [] i = k + 1 -> Texts[k] [] OTHER -> Texts[i]]
             out == IF k = Keep THEN ToSet(Texts[k]) ELSE ToSet(Texts[k + 1])
  <2>1. k \in 0..Keep /\ aFile[k] # None /\ aHandle \in {0, Away} /\ Audit!Renamed(k)
    BY <1>0, <1>6, ShiftMoves DEF AuditTyped, AuditHandle
  <2>2. Texts' = u /\ aDropped' = aDropped \union out /\ aLate' = aLate
    BY <1>0, <2>1, RenamedMoves
  <2>3. aBuffer' = aBuffer /\ UNCHANGED <<aAway, aFailed>>
    BY <1>6, ShiftMoves
  <2>4. /\ Ordered(u, aBuffer) /\ Stored(u, aBuffer) \subseteq Stored(Texts, aBuffer)
        /\ Stored(Texts, aBuffer) = Stored(u, aBuffer) \union out
    BY <1>0, <1>1, <2>1, FileMoves
  <2> HIDE DEF u, out
  <2> QED BY <1>6, <2>2, <2>3, <2>4 DEF Lost
<1>7. CASE Puts
  <2>1. aMsg.n = Audit!Handled + 1 /\ aAway' = aAway
    BY <1>7, HandledMoves, WriteMoves
  <2>2. aMsg.n \in Audit!Entries
    <3>1. aMsg \in Work
      BY <1>0, <1>7, WriteMoves DEF AuditQueue
    <3> QED BY <1>0, <2>1, <3>1, AuditConstants DEF Work
  <2>3. \A x \in Stored(Texts, aBuffer) : x < aMsg.n
    BY <1>0, <2>1
  <2>4. CASE /\ aBuffer' = Append(aBuffer, aMsg.n)
             /\ UNCHANGED <<aFile, aHandle, aLate, aDropped, aFailed, aErrors>>
    <3>1. Texts' = Texts
      BY <2>4, TextsSame
    <3>2. /\ Ordered(Texts, Append(aBuffer, aMsg.n))
          /\ Stored(Texts, Append(aBuffer, aMsg.n)) = Stored(Texts, aBuffer) \union {aMsg.n}
      BY <1>0, <1>1, <2>2, <2>3, EntryBuffered
    <3> QED BY <1>7, <2>1, <2>4, <3>1, <3>2 DEF Lost
  <2>5. CASE Audit!Written /\ aBuffer' = <<aMsg.n>> /\ UNCHANGED <<aFailed, aErrors>>
    <3>1. /\ Texts' \in Files /\ Ordered(Texts', <<>>) /\ aDropped' = aDropped
          /\ Stored(Texts', <<>>) \subseteq Stored(Texts, aBuffer)
          /\ Stored(Texts', <<>>) \union aLate' = Stored(Texts, aBuffer) \union aLate
      BY <1>0, <2>5, WrittenKeeps, WrittenMoves
    <3>2. \A x \in Stored(Texts', <<>>) : x < aMsg.n
      BY <2>3, <3>1
    <3>3. PICK t \in Files : t = Texts'
      BY <3>1
    <3>4. /\ Ordered(t, Append(<<>>, aMsg.n))
          /\ Stored(t, Append(<<>>, aMsg.n)) = Stored(t, <<>>) \union {aMsg.n}
      BY <1>1, <2>2, <3>1, <3>2, <3>3, EntryBuffered
    <3>5. Append(<<>>, aMsg.n) = <<aMsg.n>>
      OBVIOUS
    <3>6. /\ Ordered(Texts', aBuffer')
          /\ Stored(Texts', aBuffer') = Stored(Texts', <<>>) \union {aMsg.n}
      BY <2>5, <3>3, <3>4, <3>5
    <3> QED BY <1>7, <2>1, <2>5, <3>1, <3>6 DEF Lost
  <2>6. CASE /\ aFailed' = aFailed \union {aMsg.n}
             /\ UNCHANGED <<aFile, aHandle, aLate, aDropped, aBuffer, aSize>>
    <3>1. Texts' = Texts
      BY <2>6, TextsSame
    <3> QED BY <1>0, <1>7, <2>1, <2>6, <3>1 DEF Lost
  <2> QED BY <1>7, <2>4, <2>5, <2>6, WriteMoves
<1>8. CASE (Asks \/ Audit!Receive \/ Looks \/ Audit!LookFails \/ Passes \/ Reopens
            \/ Audit!FileGoes \/ Flushes \/ Audit!Shift) /\ ~Puts
  BY <1>3, <1>4, <1>5, <1>6, <1>8
<1> QED BY <1>7, <1>8, AuditSteps

\* Files and buffer stay in order, and each entry that was handled is stored or lost.
LEMMA AuditOrderStep ==
    ASSUME AuditInv, Audit!Next
    PROVE  AuditOrder'
<1> DEFINE H == Audit!Handled
           S == Stored(Texts, aBuffer)
<1>1. Ordered(Texts', aBuffer')
  BY EntriesMove
<1>2. S \union Lost = 1..H /\ H \in Nat
  BY HandledMoves DEF AuditInv, AuditOrder, Lost
<1>3. Stored(Texts', aBuffer') \union Lost' = 1..H'
  <2>1. CASE Puts
    <3>1. H' = H + 1 /\ aMsg.n = H + 1
      BY <2>1, HandledMoves
    <3>2. Stored(Texts', aBuffer') \union Lost' = (1..H) \union {H + 1}
      BY <1>2, <2>1, <3>1, EntriesMove
    <3> HIDE DEF H
    <3>3. (1..H) \union {H + 1} = 1..(H + 1)
      BY <1>2
    <3> QED BY <3>1, <3>2, <3>3
  <2>2. CASE ~Puts
    BY <1>2, <2>2, EntriesMove, HandledMoves
  <2> QED BY <2>1, <2>2
<1> QED BY <1>1, <1>3 DEF AuditOrder, Lost

-----------------------------------------------------------------------------
(* What a rotation drops. *)

\* A renamed file only frees what the rotation has moved before, or drops the oldest of all.
LEMMA ShiftDrops ==
    ASSUME AuditInv, Audit!Shift, aFailures = 0
    PROVE  /\ aShift < Keep => aDropped' = aDropped /\ aFile[aShift + 1] = None
           /\ \A x \in aDropped', y \in Stored(Texts', aBuffer') : x < y
<1> DEFINE k == aShift
           u == [i \in 0..Keep |-> CASE i = k -> <<>> [] i = k + 1 -> Texts[k] [] OTHER -> Texts[i]]
           out == IF k = Keep THEN ToSet(Texts[k]) ELSE ToSet(Texts[k + 1])
<1>0. /\ AuditTyped /\ AuditHandle /\ Ordered(Texts, aBuffer) /\ Keep \in Nat
      /\ \A x \in aDropped, y \in Stored(Texts, aBuffer) : x < y
      /\ aAt = "shift" /\ (k < Keep => aFile[k + 1] = None)
  BY ShiftMoves, AuditConstants DEF AuditInv, AuditOrder, AuditOldest
<1>1. k \in 0..Keep /\ aFile[k] # None /\ aHandle \in {0, Away} /\ Audit!Renamed(k)
  BY <1>0, ShiftMoves DEF AuditTyped, AuditHandle
<1>2. Texts' = u /\ aDropped' = aDropped \union out /\ aBuffer' = aBuffer
  BY <1>0, <1>1, RenamedMoves, ShiftMoves
<1>3. Texts \in Files
  BY <1>0, TextsTyped
<1>4. Stored(u, aBuffer) \subseteq Stored(Texts, aBuffer) /\ u \in Files
  <2>1. Ordered(Texts, aBuffer)
    BY <1>0
  <2>2. /\ u \in Files /\ Ordered(u, aBuffer)
        /\ Stored(u, aBuffer) \subseteq Stored(Texts, aBuffer)
        /\ Stored(Texts, aBuffer) = Stored(u, aBuffer) \union out
    BY <1>1, <1>3, <2>1, FileMoves
  <2> HIDE DEF u
  <2> QED BY <2>2
<1>5. k < Keep => out = {}
  <2> SUFFICES ASSUME k < Keep PROVE out = {}
    OBVIOUS
  <2>1. k + 1 \in 0..Keep /\ k # Keep
    BY <1>0, <1>1
  <2>2. Texts[k + 1] = <<>>
    BY <1>0, <2>1, TextsTyped
  <2> QED BY <2>1, <2>2, RisesAlone
<1>6. k = Keep => \A x \in out, y \in Stored(u, aBuffer) : x < y
  <2> SUFFICES ASSUME k = Keep, NEW x \in ToSet(Texts[Keep]), NEW y \in Stored(u, aBuffer)
               PROVE  x < y
    OBVIOUS
  <2>0. Keep \in 0..Keep
    BY <1>0
  <2>1. CASE y \in ToSet(aBuffer)
    BY <1>0, <2>0, <2>1 DEF Ordered
  <2>2. CASE y \notin ToSet(aBuffer)
    <3>1. PICK i \in 0..Keep : y \in ToSet(u[i])
      BY <1>4, <2>2, StoredIn
    <3>2. i # Keep
      <4>1. u[Keep] = <<>>
        BY <1>0
      <4> QED BY <3>1, <4>1, RisesAlone
    <3>3. u[i] = Texts[i] /\ i < Keep
      BY <1>0, <3>2
    <3>4. y \in ToSet(Texts[i])
      BY <3>1, <3>3
    <3> QED BY <1>0, <2>0, <3>3, <3>4 DEF Ordered
  <2> QED BY <2>1, <2>2
<1> HIDE DEF u, out
<1>7. k < Keep \/ k = Keep
  BY <1>0, <1>1
<1>8. \A x \in aDropped', y \in Stored(Texts', aBuffer') : x < y
  BY <1>0, <1>2, <1>4, <1>5, <1>6, <1>7
<1> QED BY <1>0, <1>2, <1>5, <1>8

\* What the steps of the log drop, but for a rotation.
LEMMA DroppedStays ==
    ASSUME AuditTyped, AuditHandle, Audit!Next, ~Audit!Shift
    PROVE  aDropped' = aDropped
<1>1. CASE \/ Asks \/ Audit!Receive \/ Looks \/ Audit!LookFails \/ Passes \/ Reopens
           \/ Audit!FileGoes
  BY <1>1, AsksMoves, ReceiveMoves, LooksMoves, LookFailsMoves, PassesMoves, ReopensMoves,
     FileGoesMoves
<1>2. CASE Flushes
  BY <1>2, FlushesMoves, WrittenMoves
<1>3. CASE Puts
  BY <1>3, WriteMoves, WrittenMoves
<1> QED BY <1>1, <1>2, <1>3, AuditSteps

\* Failures are only counted.
LEMMA FailuresMove ==
    ASSUME AuditTyped, Audit!Next
    PROVE  /\ aFailures' = aFailures \/ (Passes /\ aFailures' = aFailures + 1)
           /\ aFailures' = 0 => aFailures = 0
<1>0. aFailures \in Nat
  BY DEF AuditTyped
<1>1. CASE Passes
  BY <1>0, <1>1, PassesMoves
<1>2. CASE ~Passes
  <2>1. aFailures' = aFailures
    <3>1. CASE Audit!FileGoes
      BY <3>1 DEF Audit!FileGoes
    <3> QED BY <1>2, <3>1, AuditSteps, AsksMoves, ReceiveMoves, LooksMoves, LookFailsMoves,
               ReopensMoves, FlushesMoves, ShiftMoves, WriteMoves
  <2> QED BY <2>1
<1> QED BY <1>1, <1>2

\* What is dropped is older than what is stored, as long as no rename failed.
LEMMA AuditOldestStep ==
    ASSUME AuditInv, Audit!Next
    PROVE  AuditOldest'
<1>0. AuditTyped /\ AuditHandle /\ Keep \in Nat /\ AuditOldest
  BY AuditConstants DEF AuditInv
<1> SUFFICES ASSUME aFailures' = 0
             PROVE  /\ \A x \in aDropped', y \in Stored(Texts', aBuffer') : x < y
                    /\ aAt' = "shift" /\ aShift' < Keep => aFile'[aShift' + 1] = None
  BY DEF AuditOldest
<1>1. /\ aFailures = 0 /\ aShift \in 0..Keep
      /\ \A x \in aDropped, y \in Stored(Texts, aBuffer) : x < y
      /\ aAt = "shift" /\ aShift < Keep => aFile[aShift + 1] = None
  BY <1>0, FailuresMove DEF AuditOldest, AuditTyped
<1>2. \A x \in aDropped', y \in Stored(Texts', aBuffer') : x < y
  <2>1. CASE Audit!Shift
    BY <1>1, <2>1, ShiftDrops
  <2>2. CASE ~Audit!Shift /\ ~Puts
    BY <1>0, <1>1, <2>2, DroppedStays, EntriesMove
  <2>3. CASE ~Audit!Shift /\ Puts
    <3>1. /\ Stored(Texts', aBuffer') \subseteq Stored(Texts, aBuffer) \union {aMsg.n}
          /\ aDropped' = aDropped
      BY <1>0, <2>3, DroppedStays, EntriesMove
    <3>2. \A x \in aDropped : x < aMsg.n
      <4>1. aDropped \subseteq 1..Audit!Handled /\ aMsg.n = Audit!Handled + 1 /\ Audit!Handled \in Nat
        BY <2>3, HandledMoves DEF AuditInv, AuditOrder
      <4> QED BY <4>1
    <3> QED BY <1>1, <3>1, <3>2
  <2> QED BY <2>1, <2>2, <2>3
<1>3. aAt' = "shift" /\ aShift' < Keep => aFile'[aShift' + 1] = None
  <2> SUFFICES ASSUME aAt' = "shift", aShift' < Keep PROVE aFile'[aShift' + 1] = None
    OBVIOUS
  <2>1. CASE Asks
    BY <1>0, <1>1, <2>1, AsksMoves
  <2>2. CASE Audit!FileGoes
    <3>1. aAt = "shift" /\ aShift' = aShift /\ aShift + 1 \in 0..Keep /\ aShift + 1 # 0
      BY <1>0, <1>1, <2>2, FileGoesMoves
    <3> QED BY <1>0, <1>1, <2>2, <3>1, FileGoesMoves
  <2>3. CASE Audit!Receive \/ Looks \/ Audit!LookFails \/ Reopens \/ Puts
    BY <1>0, <2>3, ReceiveMoves, LooksMoves, LookFailsMoves, ReopensMoves, WriteMoves
  <2>4. CASE Flushes
    BY <1>0, <2>4, FlushesMoves
  <2>5. CASE Audit!Shift
    <3>1. aShift # 0 /\ aShift' = aShift - 1
      BY <2>5, ShiftMoves
    <3>2. aFile'[aShift] = None
      <4>1. aFile[aShift] # None /\ aHandle \in {0, Away} /\ Audit!Renamed(aShift)
        BY <1>0, <2>5, ShiftMoves DEF AuditHandle
      <4> QED BY <1>0, <1>1, <4>1, RenamedMoves
    <3>3. aShift' + 1 = aShift
      BY <1>1, <3>1
    <3> QED BY <3>2, <3>3
  <2>6. CASE Passes
    <3>1. aShift # 0 /\ aShift' = aShift - 1 /\ aFile' = aFile
      BY <2>6, PassesMoves
    <3>2. aFile[aShift] = None
      BY <1>1, <2>6, PassesMoves
    <3>3. aShift' + 1 = aShift
      BY <1>1, <3>1
    <3> QED BY <3>1, <3>2, <3>3
  <2> QED BY <2>1, <2>2, <2>3, <2>4, <2>5, <2>6, AuditSteps
<1> QED BY <1>2, <1>3

-----------------------------------------------------------------------------
(* Removed files, and flushes. *)

\* Errors and removals are only counted.
LEMMA ErrorsMove ==
    ASSUME AuditTyped, AuditHandle, Audit!Next
    PROVE  /\ aErrors' = 0 => aErrors = 0
           /\ aRemovals' = 0 => aRemovals = 0 /\ ~Audit!FileGoes
           /\ ~aRaced' => ~aRaced
<1>0. aErrors \in Nat /\ aRemovals \in Nat
  BY DEF AuditTyped
<1>1. CASE Audit!FileGoes
  <2>1. aErrors' = aErrors /\ aRemovals' = aRemovals + 1
    BY <1>1, FileGoesMoves
  <2>2. aRaced => aRaced'
    BY <1>1, FileGoesMoves, Zenon
  <2> QED BY <1>0, <2>1, <2>2
<1>2. CASE ~Audit!FileGoes
  <2>1. aRemovals' = aRemovals /\ aRaced' = aRaced /\ (aErrors' = aErrors \/ aErrors' = aErrors + 1)
    BY <1>2, AuditSteps, AsksMoves, ReceiveMoves, LooksMoves, LookFailsMoves, ReopensMoves,
       FlushesMoves, ShiftMoves, PassesMoves, WriteMoves
  <2> QED BY <1>0, <1>2, <2>1
<1> QED BY <1>1, <1>2

\* A removed file gets nothing that was not looked for.
LEMMA AuditRemovedStep ==
    ASSUME AuditInv, Audit!Next
    PROVE  AuditRemoved'
<1>0. AuditTyped /\ AuditHandle /\ AuditRemoved /\ Away # 0 /\ 0 \in 0..Keep
  BY AuditConstants DEF AuditInv
<1> SUFFICES ASSUME aErrors' = 0, ~aRaced'
             PROVE  /\ aLate' = {}
                    /\ aAt' \in {"write", "flushRotated"} => aHandle' # Away
                    /\ aAt' = "flushOut" => aHandle' # Away \/ aBuffer' = <<>>
  BY DEF AuditRemoved
<1>1. /\ aErrors = 0 /\ aLate = {}
      /\ aAt \in {"write", "flushRotated"} => aHandle # Away
      /\ aAt = "flushOut" => aHandle # Away \/ aBuffer = <<>>
      /\ aErrors + 1 # 0
  BY <1>0, ErrorsMove DEF AuditRemoved, AuditTyped
<1>2. aFile[0] # None => aHandle # Away
  BY <1>0 DEF AuditHandle
<1>3. CASE Asks
  BY <1>0, <1>1, <1>3, AsksMoves
<1>4. CASE Audit!Receive
  BY <1>0, <1>1, <1>4, ReceiveMoves
<1>5. CASE Audit!FileGoes
  <2>1. aAt' \notin {"write", "flushOut", "flushRotated"} /\ aLate' = aLate
    BY <1>0, <1>5, FileGoesMoves
  <2> QED BY <1>1, <2>1
<1>6. CASE Looks
  BY <1>1, <1>2, <1>6, LooksMoves
<1>7. CASE Reopens
  <2>1. aHandle' = 0 /\ aLate' = aLate
    BY <1>1, <1>7, ReopensMoves
  <2> QED BY <1>0, <1>1, <2>1
<1>8. CASE Flushes
  <2>1. aAt' \notin {"write", "flushOut", "flushRotated"}
    BY <1>8, FlushesMoves
  <2>2. Audit!Written /\ aAt \in {"flushRotated", "flushOut"}
    BY <1>1, <1>8, FlushesMoves
  <2>3. aLate' = {}
    BY <1>0, <1>1, <2>2, WrittenMoves, RisesAlone
  <2> QED BY <2>1, <2>3
<1>9. CASE Audit!Shift
  <2>1. aLate' = aLate
    <3>1. /\ aShift \in 0..Keep /\ aFile[aShift] # None /\ aHandle \in {0, Away}
          /\ Audit!Renamed(aShift)
      BY <1>0, <1>9, ShiftMoves DEF AuditTyped, AuditHandle
    <3> QED BY <1>0, <3>1, RenamedMoves
  <2>2. aAt' \in {"reopenRotated", "shift"}
    BY <1>9, ShiftMoves
  <2> QED BY <1>1, <2>1, <2>2
<1>10. CASE Passes
  <2>1. aShift = 0 \/ aShift # 0
    OBVIOUS
  <2> QED BY <1>1, <1>2, <1>10, <2>1, PassesMoves
<1>11. CASE Puts
  <2>1. aAt' = "next" /\ (Audit!Written \/ aLate' = aLate) /\ aHandle # Away
    BY <1>1, <1>11, WriteMoves
  <2>2. aLate' = {}
    BY <1>0, <1>1, <2>1, WrittenMoves
  <2> QED BY <2>1, <2>2
<1>12. CASE Audit!LookFails
  BY <1>1, <1>12, LookFailsMoves
<1> QED BY <1>3, <1>4, <1>5, <1>6, <1>7, <1>8, <1>9, <1>10, <1>11, <1>12, AuditSteps

\* What is buffered was logged after the last flush that was answered.
LEMMA AuditFlushedStep ==
    ASSUME AuditInv, Audit!Next
    PROVE  AuditFlushed'
<1> DEFINE H == Audit!Handled
<1>0. /\ AuditTyped /\ AuditHandle /\ AuditQueue /\ aReplied <= H
      /\ aErrors = 0 => \A x \in ToSet(aBuffer) : aReplied < x
      /\ aReplied \in Nat
  BY AuditConstants DEF AuditInv, AuditFlushed, AuditTyped
<1>1. H \in Nat /\ (H' = H \/ (Puts /\ H' = H + 1 /\ aMsg.n = H + 1))
  BY HandledMoves
<1>2. aErrors' = 0 => aErrors = 0
  BY <1>0, ErrorsMove
<1>3. aReplied' <= H' /\ (aErrors' = 0 => \A x \in ToSet(aBuffer') : aReplied' < x)
  <2>1. CASE aReplied' = aReplied /\ aBuffer' = aBuffer
    <3> HIDE DEF H
    <3> QED BY <1>0, <1>1, <1>2, <2>1
  <2>2. CASE Flushes
    <3>1. aReplied' = aReplied \/ (aAt = "flushOut" /\ aReplied' = aMsg.n)
      BY <2>2, FlushesMoves
    <3>2. aAt = "flushOut" => aMsg.n = H
      <4> SUFFICES ASSUME aAt = "flushOut" PROVE aMsg.n = H
        OBVIOUS
      <4>1. aMsg.n = Received /\ Received \in Nat
        BY <1>0 DEF AuditQueue
      <4>2. ~Audit!Handling
        BY DEF Audit!Handling
      <4>3. H = Received - 0
        BY <4>2, HandledNow
      <4> QED BY <4>1, <4>3
    <3>3. ~Puts /\ H' = H
      <4>1. aAt # "write"
        BY <2>2, FlushesMoves
      <4> QED BY <4>1, WriteMoves, <1>1
    <3>4. aErrors' = 0 => aBuffer' = <<>>
      <4>1. aErrors' = aErrors + 1 => aErrors' # 0
        BY <1>0 DEF AuditTyped
      <4> QED BY <2>2, <4>1, FlushesMoves
    <3>5. ToSet(<<>>) = {}
      BY RisesAlone
    <3> HIDE DEF H
    <3> QED BY <1>0, <1>1, <3>1, <3>2, <3>3, <3>4, <3>5
  <2>3. CASE Puts
    <3>1. aReplied' = aReplied
      BY <2>3, WriteMoves
    <3>2. \A x \in ToSet(aBuffer') : x \in ToSet(aBuffer) \/ x = aMsg.n
      <4>1. aMsg.n \in Audit!Entries
        <5>1. aMsg \in Work /\ aMsg.n > 0
          BY <1>0, <2>3, WriteMoves DEF AuditQueue, Audit!Handling
        <5> QED BY <5>1, AuditConstants DEF Work
      <4>2. ToSet(Append(aBuffer, aMsg.n)) = ToSet(aBuffer) \union {aMsg.n}
        BY <1>0, <4>1, AppendElements DEF AuditTyped
      <4>3. ToSet(<<aMsg.n>>) = {aMsg.n}
        BY RisesAlone
      <4>4. aBuffer' = Append(aBuffer, aMsg.n) \/ aBuffer' = <<aMsg.n>> \/ aBuffer' = aBuffer
        BY <2>3, WriteMoves
      <4>5. CASE aBuffer' = Append(aBuffer, aMsg.n)
        BY <4>2, <4>5, Zenon
      <4>6. CASE aBuffer' = <<aMsg.n>>
        BY <4>3, <4>6, Zenon
      <4>7. CASE aBuffer' = aBuffer
        BY <4>7, Zenon
      <4> QED BY <4>4, <4>5, <4>6, <4>7
    <3>3. aMsg.n = H + 1 /\ H' = H + 1
      BY <2>3, HandledMoves
    <3> HIDE DEF H
    <3>4. aReplied' <= H' /\ aReplied' < aMsg.n
      BY <1>0, <1>1, <3>1, <3>3
    <3> QED BY <1>0, <1>2, <3>1, <3>2, <3>4
  <2>4. CASE \/ Asks \/ Audit!Receive \/ Looks \/ Audit!LookFails \/ Passes \/ Reopens
             \/ Audit!FileGoes \/ Audit!Shift
    <3>1. aReplied' = aReplied /\ aBuffer' = aBuffer
      BY <1>0, <2>4, AsksMoves, ReceiveMoves, LooksMoves, LookFailsMoves, PassesMoves,
         ReopensMoves, FileGoesMoves, ShiftMoves
    <3> QED BY <2>1, <3>1
  <2> QED BY <2>2, <2>3, <2>4, AuditSteps
<1> QED BY <1>3 DEF AuditFlushed

-----------------------------------------------------------------------------
(* Rotations, as long as nothing failed and nobody removed the file. *)

\* The gap is the name freed last.
LEMMA GapIs ==
    ASSUME AuditTyped
    PROVE  /\ aAt = "shift" => Gap = aShift + 1
           /\ aAt = "reopenRotated" => Gap = 0
           /\ aAt \notin {"shift", "reopenRotated"} => Gap = Keep + 1
BY AuditConstants DEF Gap, AuditTyped

\* A file that was written to by the writer, with nothing failing, is the one at the path.
LEMMA WrittenAtPath ==
    ASSUME AuditTyped, AuditHandle, Audit!Written, aFile[0] # None
    PROVE  /\ aFile'[0] # None /\ Len(aFile'[0]) = Len(aFile[0]) + Len(aBuffer)
           /\ \A k \in 0..Keep : k # 0 => aFile'[k] = aFile[k]
<1>1. aHandle = 0 /\ aHandle # Away /\ 0 \in 0..Keep
  BY AuditConstants DEF AuditHandle
<1>2. aFile'[0] = aFile[0] \o aBuffer /\ \A k \in 0..Keep : k # 0 => aFile'[k] = aFile[k]
  BY <1>1, WrittenMoves
<1>3. aFile'[0] # None
  BY <1>1, WrittenMoves
<1>4. aFile[0] \in Seq(Audit!Entries) /\ aBuffer \in Seq(Audit!Entries)
  BY <1>1, TextsTyped DEF AuditTyped
<1>5. Len(aFile[0] \o aBuffer) = Len(aFile[0]) + Len(aBuffer)
  BY <1>4, ConcatProperties
<1> QED BY <1>2, <1>3, <1>5

\* A rename that leaves the file at the path moves the gap down.
LEMMA NumberedMoves ==
    ASSUME AuditInv, Undisturbed, Audit!Shift, aShift # 0
    PROVE  Filled' /\ Gapless'
<1> DEFINE s == aShift
<1>0. /\ AuditTyped /\ AuditHandle /\ Filled /\ Gapless /\ Keep \in Nat /\ s \in 1..Keep
      /\ 0 \in 0..Keep /\ aFailures = 0
  BY AuditConstants DEF AuditInv, AuditRotation, AuditTyped, Undisturbed
<1>1. /\ aAt = "shift" /\ aAt' = "shift" /\ aShift' = s - 1 /\ aBuffer' = aBuffer /\ aSize' = aSize
      /\ aFile[s] # None /\ Audit!Renamed(s) /\ aHandle \in {0, Away}
  BY <1>0, ShiftMoves DEF AuditHandle
<1>2. /\ aFile'[s] = None /\ (s < Keep => aFile'[s + 1] = aFile[s])
      /\ \A i \in 0..Keep : i # s /\ i # s + 1 => aFile'[i] = aFile[i]
      /\ aDropped' = aDropped \union (IF s = Keep THEN ToSet(Texts[s]) ELSE ToSet(Texts[s + 1]))
  BY <1>0, <1>1, RenamedMoves
<1>3. Gap = s + 1
  BY <1>0, <1>1, GapIs
<1>4. Gap' = s
  <2>1. Gap' = (IF aShift' < Keep THEN aShift' + 1 ELSE Keep + 1)
    BY <1>1 DEF Gap
  <2> QED BY <1>0, <1>1, <2>1
<1>5. s < Keep => aDropped' = aDropped
  BY <1>0, ShiftDrops
<1> HIDE DEF s
<1>6. aFile'[0] = aFile[0]
  BY <1>0, <1>2
<1>7. \A k \in 1..Keep : aFile'[k] # None => Len(aFile'[k]) >= MaxSize
  <2> TAKE k \in 1..Keep
  <2>1. aFile'[k] = None \/ aFile'[k] = aFile[s] \/ aFile'[k] = aFile[k]
    BY <1>0, <1>2
  <2> QED BY <1>0, <1>1, <2>1 DEF Filled
<1>8. Filled'
  BY <1>0, <1>1, <1>6, <1>7 DEF Filled
<1>9. ASSUME NEW k \in 0..Keep, NEW l \in 0..Keep, k < l, k # s, aFile'[l] # None
      PROVE  aFile'[k] # None
  <2>1. l # s
    BY <1>2, <1>9
  <2>2. CASE k = s + 1
    BY <1>0, <1>1, <1>2, <2>2
  <2>3. CASE k # s + 1 /\ l = s + 1
    <3>1. k < s /\ s \in 0..Keep
      BY <1>0, <1>9, <2>3
    <3>2. aFile[k] # None
      BY <1>0, <1>1, <1>3, <2>3, <3>1 DEF Gapless
    <3> QED BY <1>2, <1>9, <2>3, <3>2
  <2>4. CASE k # s + 1 /\ l # s + 1
    <3>1. aFile'[k] = aFile[k] /\ aFile'[l] = aFile[l]
      BY <1>2, <1>9, <2>1, <2>4
    <3> QED BY <1>0, <1>3, <1>9, <2>4, <3>1 DEF Gapless
  <2> QED BY <2>2, <2>3, <2>4
<1>10. ASSUME aDropped' # {}, NEW k \in 0..Keep, k # s
       PROVE  aFile'[k] # None
  <2>1. CASE k = s + 1
    BY <1>0, <1>1, <1>2, <2>1
  <2>2. CASE k # s + 1
    <3>1. aFile'[k] = aFile[k]
      BY <1>2, <1>10, <2>2
    <3>2. CASE aDropped # {}
      BY <1>0, <1>3, <2>2, <3>1, <3>2 DEF Gapless
    <3>3. CASE aDropped = {}
      <4>1. s = Keep /\ k < Keep /\ Keep \in 0..Keep
        BY <1>0, <1>5, <1>10, <3>3
      <4> QED BY <1>0, <1>1, <1>3, <2>2, <3>1, <4>1 DEF Gapless
    <3> QED BY <3>2, <3>3
  <2> QED BY <2>1, <2>2
<1>11. Gapless'
  BY <1>4, <1>9, <1>10 DEF Gapless
<1> QED BY <1>8, <1>11

\* The file at the path goes last, and is full.
LEMMA PathMoves ==
    ASSUME AuditInv, Undisturbed, Audit!Shift, aShift = 0
    PROVE  Filled' /\ Gapless'
<1>0. /\ AuditTyped /\ AuditHandle /\ Filled /\ Gapless /\ Keep \in Nat
      /\ 0 \in 0..Keep /\ aFailures = 0
  BY AuditConstants DEF AuditInv, AuditRotation, AuditTyped, Undisturbed
<1>1. /\ aAt = "shift" /\ aAt' = "reopenRotated" /\ aBuffer' = aBuffer /\ aSize' = aSize
      /\ aFile[0] # None /\ Audit!Renamed(0) /\ aHandle \in {0, Away}
  BY <1>0, ShiftMoves DEF AuditHandle
<1>2. /\ aFile'[0] = None /\ (0 < Keep => aFile'[1] = aFile[0])
      /\ \A i \in 0..Keep : i # 0 /\ i # 1 => aFile'[i] = aFile[i]
  <2>1. /\ aFile'[0] = None /\ (0 < Keep => aFile'[0 + 1] = aFile[0])
        /\ \A i \in 0..Keep : i # 0 /\ i # 0 + 1 => aFile'[i] = aFile[i]
    BY <1>0, <1>1, RenamedMoves
  <2> QED BY <2>1
<1>3. Gap = 1 /\ Gap' = 0
  <2>1. Gap = aShift + 1
    BY <1>0, <1>1, GapIs
  <2>2. Gap' = 0
    BY <1>1 DEF Gap
  <2> QED BY <2>1, <2>2
<1>4. 0 < Keep => aDropped' = aDropped
  BY <1>0, ShiftDrops
<1>5. aBuffer = <<>> /\ Len(aFile[0]) >= MaxSize
  <2>1. aBuffer = <<>> /\ aSize >= MaxSize /\ aSize = Len(aFile[0]) + Len(aBuffer)
    BY <1>0, <1>1 DEF Filled
  <2>2. Len(aFile[0]) \in Nat /\ Len(<<>>) = 0
    BY <1>0, <1>1, TextsTyped, LenProperties
  <2> QED BY <2>1, <2>2
<1>6. \A k \in 1..Keep : aFile'[k] # None => Len(aFile'[k]) >= MaxSize
  <2> TAKE k \in 1..Keep
  <2>1. aFile'[k] = aFile[0] \/ aFile'[k] = aFile[k]
    BY <1>0, <1>2
  <2> QED BY <1>0, <1>5, <2>1 DEF Filled
<1>7. Filled'
  BY <1>1, <1>2, <1>5, <1>6 DEF Filled
<1>8. ASSUME NEW k \in 0..Keep, NEW l \in 0..Keep, k < l, k # 0, aFile'[l] # None
      PROVE  aFile'[k] # None
  <2>1. CASE k = 1
    BY <1>0, <1>1, <1>2, <1>8, <2>1
  <2>2. CASE k # 1
    <3>1. aFile'[k] = aFile[k] /\ aFile'[l] = aFile[l]
      BY <1>0, <1>2, <1>8, <2>2
    <3> QED BY <1>0, <1>3, <1>8, <2>2, <3>1 DEF Gapless
  <2> QED BY <2>1, <2>2
<1>9. ASSUME aDropped' # {}, NEW k \in 0..Keep, k # 0
      PROVE  aFile'[k] # None
  <2>1. 0 < Keep /\ aDropped # {}
    BY <1>0, <1>4, <1>9
  <2>2. CASE k = 1
    BY <1>1, <1>2, <2>1, <2>2
  <2>3. CASE k # 1
    BY <1>0, <1>2, <1>3, <1>9, <2>1, <2>3 DEF Gapless
  <2> QED BY <2>2, <2>3
<1>10. Gapless'
  BY <1>3, <1>8, <1>9 DEF Gapless
<1> QED BY <1>7, <1>10

\* The steps between rotations leave the files as they are, but for the one at the path.
LEMMA PathOnly ==
    ASSUME AuditTyped, Filled, Gapless, aDropped' = aDropped, aFile'[0] # None,
           \A k \in 0..Keep : k # 0 => aFile'[k] = aFile[k],
           Gap = Gap' \/ (Gap = 0 /\ Gap' = Keep + 1)
    PROVE  /\ Gapless'
           /\ \A k \in 1..Keep : aFile'[k] # None => Len(aFile'[k]) >= MaxSize
<1>0. Keep \in Nat
  BY AuditConstants
<1>1. \A k \in 1..Keep : aFile'[k] # None => Len(aFile'[k]) >= MaxSize
  BY <1>0 DEF Filled
<1>2. ASSUME NEW k \in 0..Keep, NEW l \in 0..Keep, k < l, k # Gap', aFile'[l] # None
      PROVE  aFile'[k] # None
  <2>1. CASE k = 0
    BY <2>1
  <2>2. CASE k # 0
    <3>1. aFile'[k] = aFile[k] /\ aFile'[l] = aFile[l] /\ k # Gap
      BY <1>0, <1>2, <2>2
    <3> QED BY <1>2, <3>1 DEF Gapless
  <2> QED BY <2>1, <2>2
<1>3. ASSUME aDropped' # {}, NEW k \in 0..Keep, k # Gap'
      PROVE  aFile'[k] # None
  <2>1. CASE k = 0
    BY <2>1
  <2>2. CASE k # 0
    BY <1>0, <1>3, <2>2 DEF Gapless
  <2> QED BY <2>1, <2>2
<1>4. Gapless'
  BY <1>2, <1>3 DEF Gapless
<1> QED BY <1>1, <1>4

\* Numbered files are full and without a gap, as long as nothing failed.
LEMMA AuditRotationStep ==
    ASSUME AuditInv, Audit!Next
    PROVE  AuditRotation'
<1>a. AuditTyped /\ AuditHandle /\ 0 \in 0..Keep /\ Keep \in Nat /\ MaxSize \in Nat
  BY AuditConstants DEF AuditInv
<1> SUFFICES ASSUME Undisturbed' PROVE Filled' /\ Gapless'
  BY DEF AuditRotation
<1>0. /\ Undisturbed /\ ~Audit!FileGoes
      /\ aErrors' # aErrors + 1 /\ aFailures' # aFailures + 1
  BY <1>a, ErrorsMove, FailuresMove DEF Undisturbed, AuditTyped
<1>1. Filled /\ Gapless
  BY <1>0 DEF AuditInv, AuditRotation
<1>2. /\ aAt # "reopenRotated" => aFile[0] # None
      /\ \A q \in Seq(Audit!Entries) : Len(q) \in Nat
      /\ aBuffer \in Seq(Audit!Entries) /\ Len(<<>>) = 0
  BY <1>1, <1>a, LenProperties DEF Filled, AuditTyped
<1>3. aFile[0] # None => Len(aFile[0]) \in Nat
  BY <1>a, <1>2, TextsTyped
<1>4. CASE Audit!Shift
  BY <1>0, <1>4, NumberedMoves, PathMoves
<1>5. CASE Asks
  <2>1. UNCHANGED <<aAt, aShift, aFile, aSize, aBuffer, aDropped>>
    BY <1>a, <1>5, AsksMoves
  <2>2. Filled'
    BY <1>1, <2>1 DEF Filled
  <2>3. Gapless'
    BY <1>1, <2>1 DEF Gapless, Gap
  <2> QED BY <2>2, <2>3
<1>6. ASSUME UNCHANGED <<aFile, aSize, aBuffer, aDropped>>,
             aAt \notin {"shift", "reopenRotated"},
             aAt' \notin {"shift", "reopenRotated", "reopen", "reopenToFlush"},
             aAt' \in {"rotate", "flushRotated"} => aSize >= MaxSize
      PROVE  Filled' /\ Gapless'
  <2>1. Gap = Keep + 1 /\ Gap' = Keep + 1
    BY <1>6 DEF Gap
  <2>2. Gapless'
    BY <1>1, <1>6, <2>1 DEF Gapless
  <2>3. aFile[0] # None
    BY <1>1, <1>6 DEF Filled
  <2>4. Filled'
    BY <1>1, <1>6, <2>3 DEF Filled
  <2> QED BY <2>2, <2>4
<1>7. CASE Audit!Receive
  <2>1. /\ UNCHANGED <<aFile, aSize, aBuffer, aDropped>>
        /\ aAt \in {"idle", "next"} /\ aAt' \in {"look", "flush"}
    BY <1>a, <1>7, ReceiveMoves
  <2> QED BY <1>6, <2>1
<1>8. CASE Looks
  <2>1. /\ UNCHANGED <<aFile, aSize, aBuffer, aDropped>>
        /\ aAt \in {"next", "look", "rotate", "flush"}
    BY <1>8, LooksMoves
  <2>2. aFile[0] # None
    BY <1>2, <2>1
  <2>3. aAt' \in {"flush", "rotate", "write", "flushRotated", "flushOut"}
    BY <1>8, <2>2, LooksMoves
  <2>4. aAt' \in {"rotate", "flushRotated"} => aSize >= MaxSize
    <3>1. aAt' = "rotate" => Audit!Full
      BY <1>8, <2>2, LooksMoves
    <3>2. Audit!Full => aSize >= MaxSize
      BY <1>a DEF Audit!Full, AuditTyped
    <3>3. aAt' = "flushRotated" => aAt = "rotate"
      BY <1>8, <2>2, LooksMoves
    <3> QED BY <1>1, <3>1, <3>2, <3>3 DEF Filled
  <2> QED BY <1>6, <2>1, <2>3, <2>4
<1>9. CASE Reopens
  <2>1. /\ aAt = "reopenRotated" /\ aAt' = "write" /\ aFile[0] = None
        /\ aFile' = [aFile EXCEPT ![0] = <<>>] /\ aSize' = Len(aBuffer)
        /\ UNCHANGED <<aBuffer, aDropped>>
    <3>1. aAt = "reopenRotated"
      BY <1>1, <1>9, ReopensMoves DEF Filled
    <3> QED BY <1>0, <1>9, <3>1, ReopensMoves
  <2>2. aFile'[0] = <<>> /\ aFile'[0] # None /\ \A k \in 0..Keep : k # 0 => aFile'[k] = aFile[k]
    BY <1>a, <2>1, FileAdded
  <2>3. Gap = 0 /\ Gap' = Keep + 1
    BY <2>1 DEF Gap
  <2>4. Gapless' /\ \A k \in 1..Keep : aFile'[k] # None => Len(aFile'[k]) >= MaxSize
    BY <1>1, <1>a, <2>1, <2>2, <2>3, PathOnly
  <2>5. aSize' = Len(aFile'[0]) + Len(aBuffer')
    BY <1>2, <2>1, <2>2
  <2>6. Filled'
    BY <2>1, <2>2, <2>4, <2>5 DEF Filled
  <2> QED BY <2>4, <2>6
<1>10. CASE Flushes
  <2>1. /\ Audit!Written /\ aBuffer' = <<>> /\ aSize' = aSize
        /\ \/ aAt = "flushRotated" /\ aAt' = "shift" /\ aShift' = Keep
           \/ aAt = "flushOut" /\ aAt' \in {"next", "idle"}
    BY <1>0, <1>10, FlushesMoves
  <2>2. aFile[0] # None /\ aDropped' = aDropped
    BY <1>a, <1>2, <2>1, WrittenMoves
  <2>3. /\ aFile'[0] # None /\ Len(aFile'[0]) = Len(aFile[0]) + Len(aBuffer)
        /\ \A k \in 0..Keep : k # 0 => aFile'[k] = aFile[k]
    BY <1>a, <2>1, <2>2, WrittenAtPath
  <2>4. Gap = Keep + 1 /\ Gap' = Keep + 1
    BY <2>1, <1>a DEF Gap
  <2>5. Gapless' /\ \A k \in 1..Keep : aFile'[k] # None => Len(aFile'[k]) >= MaxSize
    BY <1>1, <1>a, <2>2, <2>3, <2>4, PathOnly
  <2>6. aSize' = Len(aFile'[0]) + Len(aBuffer')
    <3>1. aSize = Len(aFile[0]) + Len(aBuffer) /\ Len(aFile[0]) \in Nat /\ Len(aBuffer) \in Nat
      BY <1>1, <1>2, <1>3, <2>2 DEF Filled
    <3> QED BY <1>2, <2>1, <2>3, <3>1
  <2>7. aAt' = "shift" => aSize' >= MaxSize
    BY <1>1, <2>1 DEF Filled
  <2>8. Filled'
    BY <2>1, <2>3, <2>5, <2>6, <2>7 DEF Filled
  <2> QED BY <2>5, <2>8
<1>11. CASE Passes
  <2>1. /\ aAt = "shift" /\ aFile[aShift] = None
        /\ UNCHANGED <<aFile, aBuffer, aDropped>>
    BY <1>0, <1>11, PassesMoves
  <2>2. aShift # 0 /\ aShift \in 1..Keep
    <3>1. aFile[0] # None
      BY <1>2, <2>1
    <3> QED BY <1>a, <2>1, <3>1 DEF AuditTyped
  <2>3. aAt' = "shift" /\ aShift' = aShift - 1 /\ aSize' = aSize
    BY <1>11, <2>2, PassesMoves
  <2>4. Gap = aShift + 1
    BY <1>a, <2>1, GapIs
  <2>5. Gap' = aShift
    <3>1. Gap' = (IF aShift' < Keep THEN aShift' + 1 ELSE Keep + 1)
      BY <2>3 DEF Gap
    <3> QED BY <1>a, <2>2, <2>3, <3>1
  <2>6. Filled'
    BY <1>1, <2>1, <2>3 DEF Filled
  <2>7. aDropped = {}
    BY <1>1, <1>a, <2>1, <2>2, <2>4 DEF Gapless
  <2>8. ASSUME NEW k \in 0..Keep, NEW l \in 0..Keep, k < l, k # aShift, aFile[l] # None
        PROVE  aFile[k] # None
    <3>1. CASE k # aShift + 1
      BY <1>1, <2>4, <2>8, <3>1 DEF Gapless
    <3>2. CASE k = aShift + 1
      <4>1. aShift \in 0..Keep /\ aShift < l /\ aShift # aShift + 1
        BY <1>a, <2>2, <2>8, <3>2
      <4>2. aFile[aShift] # None
        BY <1>1, <2>4, <2>8, <4>1 DEF Gapless
      <4> QED BY <2>1, <4>2
    <3> QED BY <3>1, <3>2
  <2>9. Gapless'
    BY <2>1, <2>5, <2>7, <2>8 DEF Gapless
  <2> QED BY <2>6, <2>9
<1>12. CASE Puts
  <2>1. /\ aAt = "write" /\ aAt' = "next" /\ aSize' = aSize + 1
        /\ \/ aBuffer' = Append(aBuffer, aMsg.n) /\ UNCHANGED <<aFile, aDropped>>
           \/ Audit!Written /\ aBuffer' = <<aMsg.n>>
    BY <1>0, <1>12, WriteMoves
  <2>2. aFile[0] # None
    BY <1>2, <2>1
  <2>3. Gap = Keep + 1 /\ Gap' = Keep + 1
    BY <2>1 DEF Gap
  <2>4. aSize = Len(aFile[0]) + Len(aBuffer) /\ Len(aFile[0]) \in Nat /\ Len(aBuffer) \in Nat
    BY <1>1, <1>2, <1>3, <2>2 DEF Filled
  <2>5. /\ aFile'[0] # None /\ aDropped' = aDropped /\ aSize' = Len(aFile'[0]) + Len(aBuffer')
        /\ \A k \in 0..Keep : k # 0 => aFile'[k] = aFile[k]
    <3>1. CASE aBuffer' = Append(aBuffer, aMsg.n) /\ UNCHANGED <<aFile, aDropped>>
      <4>1. Len(Append(aBuffer, aMsg.n)) = Len(aBuffer) + 1
        BY <1>2
      <4>2. aSize' = Len(aFile'[0]) + Len(aBuffer')
        <5> DEFINE x == Len(aFile[0])
                   y == Len(aBuffer)
        <5>1. Len(aFile'[0]) = x /\ Len(aBuffer') = y + 1
          BY <3>1, <4>1
        <5>2. aSize' = aSize + 1 /\ aSize = x + y /\ x \in Nat /\ y \in Nat
          BY <2>1, <2>4
        <5> HIDE DEF x, y
        <5> QED BY <5>1, <5>2
      <4> QED BY <2>2, <3>1, <4>2
    <3>2. CASE Audit!Written /\ aBuffer' = <<aMsg.n>>
      <4>1. Len(<<aMsg.n>>) = 1
        OBVIOUS
      <4>2. /\ aFile'[0] # None /\ Len(aFile'[0]) = Len(aFile[0]) + Len(aBuffer)
            /\ \A k \in 0..Keep : k # 0 => aFile'[k] = aFile[k]
        BY <1>a, <2>2, <3>2, WrittenAtPath
      <4>3. aDropped' = aDropped
        BY <1>a, <3>2, WrittenMoves
      <4> QED BY <2>1, <2>4, <3>2, <4>1, <4>2, <4>3
    <3> QED BY <2>1, <3>1, <3>2
  <2>6. Gapless' /\ \A k \in 1..Keep : aFile'[k] # None => Len(aFile'[k]) >= MaxSize
    BY <1>1, <1>a, <2>3, <2>5, PathOnly
  <2>7. Filled'
    BY <2>1, <2>5, <2>6 DEF Filled
  <2> QED BY <2>6, <2>7
<1>13. ~Audit!LookFails
  BY <1>0, LookFailsMoves
<1> QED BY <1>4, <1>5, <1>7, <1>8, <1>9, <1>10, <1>11, <1>12, <1>0, <1>13, AuditSteps

-----------------------------------------------------------------------------
(* The invariant holds. *)

\* A log begins.
LEMMA InitAuditInv == Audit!Init => AuditInv
<1> SUFFICES ASSUME Audit!Init PROVE AuditInv
  OBVIOUS
<1> USE DEF Audit!Init
<1>0. /\ \A S : <<>> \in Seq(S) /\ Len(<<>>) = 0
      /\ 0 \in 0..Keep /\ Keep \in Nat /\ QueueBound \in Nat /\ BufferBound \in Nat
      /\ MaxEntries \in Nat /\ MaxFlushes \in Nat /\ MaxSize \in Nat \ {0} /\ Away # 0
      /\ ToSet(<<>>) = {} /\ Increasing(<<>>)
  BY ServicesAssumption, AuditConstants, EmptySeq, RisesAlone DEF Audit!AuditAssumption
<1>1. /\ aFile \in [0..Keep -> Seq(Audit!Entries) \union {None}]
      /\ aFile[0] = <<>> /\ \A k \in 0..Keep : k # 0 => aFile[k] = None
  BY <1>0
<1>2. AuditTyped
  <2>1. aQueue \in Seq(Requests) /\ aBuffer \in Seq(Audit!Entries) /\ aAt \in Audit!Places
    BY <1>0 DEF Audit!Places
  <2>2. /\ aLogged \in 0..MaxEntries /\ aAsked \in 0..MaxFlushes /\ aReplied \in 0..MaxEntries
        /\ aShift \in 0..Keep /\ aHandle \in 0..Keep \union {Away} /\ aSize \in Nat
    BY <1>0
  <2> QED BY <1>1, <2>1, <2>2 DEF AuditTyped
<1>3. aFile[0] # None /\ Texts \in Files
  BY <1>0, <1>1, <1>2, TextsTyped
<1>4. AuditBounded
  BY <1>0 DEF AuditBounded
<1>5. Received = 0 /\ Audit!Handled = 0
  <2>1. Cardinality(EntriesIn(aQueue)) = 0
    BY EntriesNone
  <2>2. ~Audit!Handling
    BY DEF Audit!Handling
  <2>3. Received = 0 - 0 /\ Audit!Handled = 0 - 0 - 0
    BY <2>1, <2>2, HandledIs
  <2> QED BY <2>3
<1>6. AuditQueue
  BY <1>0, <1>5 DEF AuditQueue, Audit!Handling
<1>7. AuditHandle
  BY <1>0, <1>3 DEF AuditHandle
<1>8. \A k \in 0..Keep : Texts[k] = <<>>
  BY <1>1, <1>2, TextsTyped
<1>9. Ordered(Texts, aBuffer) /\ Stored(Texts, aBuffer) = {}
  BY <1>0, <1>8 DEF Ordered, Stored
<1>10. AuditOrder
  BY <1>5, <1>9 DEF AuditOrder
<1>11. AuditOldest
  BY DEF AuditOldest
<1>12. AuditRotation
  <2>1. Filled
    BY <1>0, <1>1, <1>3 DEF Filled
  <2>2. Gapless
    BY <1>0, <1>1, <1>3 DEF Gapless
  <2> QED BY <2>1, <2>2 DEF AuditRotation
<1>13. AuditRemoved
  BY DEF AuditRemoved
<1>14. AuditFlushed
  BY <1>0, <1>5 DEF AuditFlushed
<1> QED BY <1>2, <1>4, <1>6, <1>7, <1>10, <1>11, <1>12, <1>13, <1>14 DEF AuditInv

\* Each of its steps keeps the invariant.
LEMMA NextAuditInv == AuditInv /\ Audit!Next => AuditInv'
<1> SUFFICES ASSUME AuditInv, Audit!Next PROVE AuditInv'
  OBVIOUS
<1>1. AuditTyped' /\ AuditBounded' /\ AuditQueue' /\ AuditHandle'
  BY AuditTypedStep, AuditBoundedStep, AuditQueueStep, AuditHandleStep
<1>2. AuditOrder' /\ AuditOldest' /\ AuditRotation' /\ AuditRemoved' /\ AuditFlushed'
  BY AuditOrderStep, AuditOldestStep, AuditRotationStep, AuditRemovedStep, AuditFlushedStep
<1> QED BY <1>1, <1>2 DEF AuditInv

\* And so does a step of another part.
LEMMA SameAuditInv == AuditInv /\ UNCHANGED auditVars => AuditInv'
<1> SUFFICES ASSUME AuditInv, UNCHANGED auditVars PROVE AuditInv'
  OBVIOUS
<1> USE DEF auditVars
<1>1. /\ AuditTyped /\ AuditBounded /\ AuditQueue /\ AuditHandle /\ AuditOrder /\ AuditOldest
      /\ AuditRotation /\ AuditRemoved /\ AuditFlushed
  BY DEF AuditInv
<1>2. Texts' = Texts
  BY TextsSame
<1>3. Received' = Received /\ Audit!Handled' = Audit!Handled
  BY DEF Received, Audit!Handled, Audit!InHand, Audit!Handling
<1>4. AuditTyped' /\ AuditBounded' /\ AuditHandle'
  BY <1>1 DEF AuditTyped, AuditBounded, AuditHandle
<1>5. AuditQueue'
  BY <1>1, <1>3 DEF AuditQueue, Audit!Handling
<1>6. AuditOrder' /\ AuditOldest'
  BY <1>1, <1>2, <1>3 DEF AuditOrder, AuditOldest
<1>7. AuditRotation'
  BY <1>1 DEF AuditRotation, Undisturbed, Filled, Gapless, Gap
<1>8. AuditRemoved' /\ AuditFlushed'
  BY <1>1, <1>3 DEF AuditRemoved, AuditFlushed
<1> QED BY <1>4, <1>5, <1>6, <1>7, <1>8 DEF AuditInv

\* The log's types, queue, files and rotations stay consistent.
THEOREM AuditInvariance == ServicesSpec => []AuditInv
<1>1. ServicesInit => AuditInv
  BY InitAuditInv DEF ServicesInit
<1>2. AuditInv /\ [ServicesNext]_allVars => AuditInv'
  BY NextAuditInv, SameAuditInv DEF ServicesNext, allVars
<1> QED BY <1>1, <1>2, PTL DEF ServicesSpec

-----------------------------------------------------------------------------
(* What the invariant means for a reader of the log. *)

\* The files from the oldest to the one at the path, a missing one as an empty one.
FromOldest == [i \in 1..(Keep + 1) |-> Texts[Keep + 1 - i]]

\* They make one sequence, then the buffer.
LEMMA KeptIs ==
    ASSUME AuditInv
    PROVE  /\ FromOldest \in [1..(Keep + 1) -> Seq(Audit!Entries)]
           /\ \A i \in 1..(Keep + 1) : Keep + 1 - i \in 0..Keep /\ FromOldest[i] = Texts[Keep + 1 - i]
           /\ Audit!Kept = FlattenSeq(FromOldest) \o aBuffer
           /\ FlattenSeq(FromOldest) \in Seq(Audit!Entries)
           /\ ToSet(FlattenSeq(FromOldest)) = UNION {ToSet(FromOldest[i]) : i \in 1..(Keep + 1)}
<1>0. Texts \in Files /\ Keep \in Nat /\ Keep + 1 \in Nat \ {0}
  BY TextsTyped, AuditConstants DEF AuditInv
<1>1. \A i \in 1..(Keep + 1) : Keep + 1 - i \in 0..Keep /\ FromOldest[i] = Texts[Keep + 1 - i]
  BY <1>0 DEF FromOldest
<1>2. FromOldest \in [1..(Keep + 1) -> Seq(Audit!Entries)]
  <2>1. \A i \in 1..(Keep + 1) : Texts[Keep + 1 - i] \in Seq(Audit!Entries)
    BY <1>0, <1>1 DEF Files
  <2> QED BY <2>1 DEF FromOldest
<1>3. Audit!Kept = FlattenSeq(FromOldest) \o aBuffer
  <2>1. FromOldest = [i \in 1..(Keep + 1) |-> Audit!Text(Keep + 1 - i)]
    BY <1>1 DEF FromOldest, Texts
  <2>2. \A q : Audit!FlattenSeq(q) = FlattenSeq(q)
    BY DEF Audit!FlattenSeq, FlattenSeq
  <2> QED BY <2>1, <2>2 DEF Audit!Kept
<1>4. /\ FlattenSeq(FromOldest) \in Seq(Audit!Entries)
      /\ ToSet(FlattenSeq(FromOldest)) = UNION {ToSet(FromOldest[i]) : i \in 1..(Keep + 1)}
  BY <1>0, <1>2, FlattenElements
<1> QED BY <1>1, <1>2, <1>3, <1>4

\* It holds what is stored, and its entries rise.
LEMMA KeptInOrder ==
    ASSUME AuditInv
    PROVE  /\ Audit!Kept \in Seq(Audit!Entries) /\ ToSet(Audit!Kept) = Stored(Texts, aBuffer)
           /\ Increasing(Audit!Kept)
<1> DEFINE F == FlattenSeq(FromOldest)
<1>0. /\ Ordered(Texts, aBuffer) /\ aBuffer \in Seq(Audit!Entries) /\ Keep \in Nat
      /\ Keep + 1 \in Nat \ {0} /\ Audit!Entries \subseteq Nat
  BY AuditConstants DEF AuditInv, AuditOrder, AuditTyped
<1>1. /\ FromOldest \in [1..(Keep + 1) -> Seq(Audit!Entries)]
      /\ \A i \in 1..(Keep + 1) : Keep + 1 - i \in 0..Keep /\ FromOldest[i] = Texts[Keep + 1 - i]
      /\ Audit!Kept = F \o aBuffer /\ F \in Seq(Audit!Entries)
      /\ ToSet(F) = UNION {ToSet(FromOldest[i]) : i \in 1..(Keep + 1)}
  BY KeptIs
<1>2. ToSet(F) = UNION {ToSet(Texts[k]) : k \in 0..Keep}
  <2>1. \A k \in 0..Keep : Keep + 1 - k \in 1..(Keep + 1) /\ Keep + 1 - (Keep + 1 - k) = k
    BY <1>0
  <2>2. \A k \in 0..Keep : \E i \in 1..(Keep + 1) : FromOldest[i] = Texts[k]
    BY <1>1, <2>1
  <2>3. \A i \in 1..(Keep + 1) : \E k \in 0..Keep : FromOldest[i] = Texts[k]
    BY <1>1
  <2> HIDE DEF F
  <2>4. \A x : (\E i \in 1..(Keep + 1) : x \in ToSet(FromOldest[i]))
               <=> (\E k \in 0..Keep : x \in ToSet(Texts[k]))
    <3>1. ASSUME NEW x, NEW i \in 1..(Keep + 1), x \in ToSet(FromOldest[i])
          PROVE  \E k \in 0..Keep : x \in ToSet(Texts[k])
      <4>1. PICK k \in 0..Keep : FromOldest[i] = Texts[k]
        BY <2>3
      <4> QED BY <3>1, <4>1
    <3>2. ASSUME NEW x, NEW k \in 0..Keep, x \in ToSet(Texts[k])
          PROVE  \E i \in 1..(Keep + 1) : x \in ToSet(FromOldest[i])
      <4>1. PICK i \in 1..(Keep + 1) : FromOldest[i] = Texts[k]
        BY <2>2
      <4> QED BY <3>2, <4>1
    <3> QED BY <3>1, <3>2
  <2>5. ToSet(F) = UNION {ToSet(FromOldest[i]) : i \in 1..(Keep + 1)}
    BY <1>1
  <2> QED BY <2>4, <2>5
<1>3. Increasing(F)
  <2>1. \A i \in 1..(Keep + 1) : Increasing(FromOldest[i])
    BY <1>0, <1>1 DEF Ordered
  <2>2. ASSUME NEW i \in 1..(Keep + 1), NEW j \in 1..(Keep + 1), i < j,
               NEW a \in ToSet(FromOldest[i]), NEW b \in ToSet(FromOldest[j])
        PROVE  a < b
    <3>1. Keep + 1 - j < Keep + 1 - i
      BY <1>0, <2>2
    <3> QED BY <1>0, <1>1, <2>2, <3>1 DEF Ordered
  <2>3. FromOldest \in [1..(Keep + 1) -> Seq(Nat)]
    BY <1>0, <1>1, SeqMonotonic
  <2> QED BY <1>0, <2>1, <2>2, <2>3, FlattenIncreasing
<1> HIDE DEF F
<1>4. F \o aBuffer \in Seq(Audit!Entries) /\ ToSet(F \o aBuffer) = ToSet(F) \union ToSet(aBuffer)
  BY <1>0, <1>1, ConcatElements
<1>5. \A x \in ToSet(F), y \in ToSet(aBuffer) : x < y
  BY <1>0, <1>2 DEF Ordered
<1>6. Increasing(F \o aBuffer)
  <2>1. F \in Seq(Nat) /\ aBuffer \in Seq(Nat) /\ Increasing(aBuffer)
    BY <1>0, <1>1, SeqMonotonic DEF Ordered
  <2> QED BY <1>3, <1>5, <2>1, ConcatIncreasing
<1> QED BY <1>1, <1>2, <1>4, <1>6 DEF Stored

\* When files were dropped and nothing failed, all numbered files but the one a rotation moves are
\* full.
LEMMA KeptIsFull ==
    ASSUME AuditInv, Undisturbed, aDropped # {}
    PROVE  Len(Audit!Kept) >= Keep * MaxSize
<1> DEFINE F == FlattenSeq(FromOldest)
           g == IF Gap \in 1..Keep THEN Keep + 1 - Gap ELSE Keep + 1
<1>0. /\ AuditTyped /\ Filled /\ Gapless /\ Keep \in Nat /\ MaxSize \in Nat /\ Keep + 1 \in Nat \ {0}
      /\ aBuffer \in Seq(Audit!Entries)
  BY AuditConstants DEF AuditInv, AuditRotation, AuditTyped
<1>1. /\ FromOldest \in [1..(Keep + 1) -> Seq(Audit!Entries)]
      /\ \A i \in 1..(Keep + 1) : Keep + 1 - i \in 0..Keep /\ FromOldest[i] = Texts[Keep + 1 - i]
      /\ Audit!Kept = F \o aBuffer /\ F \in Seq(Audit!Entries)
  <2>1. FromOldest \in [1..(Keep + 1) -> Seq(Audit!Entries)]
    BY KeptIs
  <2>2. \A i \in 1..(Keep + 1) : Keep + 1 - i \in 0..Keep /\ FromOldest[i] = Texts[Keep + 1 - i]
    BY KeptIs
  <2>3. Audit!Kept = F \o aBuffer /\ F \in Seq(Audit!Entries)
    BY KeptIs
  <2> QED BY <2>1, <2>2, <2>3
<1>2. g \in 1..(Keep + 1)
  BY <1>0
<1>3. ASSUME NEW i \in 1..(Keep + 1), i # g PROVE Len(FromOldest[i]) >= MaxSize
  <2>1. Keep + 1 - i \in 0..Keep /\ FromOldest[i] = Texts[Keep + 1 - i]
    BY <1>1
  <2>2. CASE Keep + 1 - i = 0
    \* The file at the path: it is exempt but while a numbered file is missing, in a rotation.
    <3>1. i = Keep + 1 /\ Gap \in 1..Keep
      BY <1>0, <1>3, <2>2
    <3>2. aAt = "shift"
      BY <1>0, <3>1, GapIs
    <3>3. aFile[0] # None /\ aSize >= MaxSize /\ aBuffer = <<>> /\ aSize = Len(aFile[0]) + Len(aBuffer)
      BY <1>0, <3>2 DEF Filled
    <3>4. Texts[0] = aFile[0] /\ aFile[0] \in Seq(Audit!Entries)
      BY <1>0, <3>3, TextsTyped
    <3>5. Len(aFile[0]) \in Nat /\ Len(<<>>) = 0
      BY <3>4, LenProperties
    <3> QED BY <2>1, <2>2, <3>3, <3>4, <3>5
  <2>3. CASE Keep + 1 - i # 0
    <3>1. Keep + 1 - i \in 1..Keep /\ Keep + 1 - i # Gap
      <4>1. Keep + 1 - i \in 1..Keep
        BY <1>0, <2>1, <2>3
      <4>2. Keep + 1 - i = Gap => Gap \in 1..Keep /\ Keep + 1 - Gap = i
        BY <1>0, <4>1
      <4> QED BY <1>3, <4>1, <4>2
    <3>2. aFile[Keep + 1 - i] # None
      BY <2>1, <3>1, <1>0 DEF Gapless
    <3>3. Len(aFile[Keep + 1 - i]) >= MaxSize
      BY <1>0, <3>1, <3>2 DEF Filled
    <3>4. Texts[Keep + 1 - i] = aFile[Keep + 1 - i]
      BY <1>0, <2>1, <3>2, TextsTyped
    <3> QED BY <2>1, <3>3, <3>4
  <2> QED BY <2>2, <2>3
<1> HIDE DEF g
<1>4. Len(F) >= Keep * MaxSize
  <2>1. PICK n \in Nat \ {0} : n = Keep + 1
    BY <1>0
  <2>2. /\ FromOldest \in [1..n -> Seq(Audit!Entries)] /\ g \in 1..n /\ MaxSize \in Nat
        /\ \A i \in 1..n : i # g => Len(FromOldest[i]) >= MaxSize
    BY <1>0, <1>1, <1>2, <1>3, <2>1
  <2>3. Len(F) >= (n - 1) * MaxSize
    BY <2>2, FlattenLength
  <2>4. n - 1 = Keep
    BY <1>0, <2>1
  <2> QED BY <2>3, <2>4, Zenon
<1> HIDE DEF F
<1>5. Len(F \o aBuffer) = Len(F) + Len(aBuffer) /\ Len(F) \in Nat /\ Len(aBuffer) \in Nat
  BY <1>0, <1>1, ConcatProperties, LenProperties
<1> DEFINE m == Keep * MaxSize
<1>6. m \in Nat
  BY <1>0
<1>7. Len(F) >= m
  BY <1>4
<1> HIDE DEF m
<1>8. Len(F \o aBuffer) >= m
  BY <1>5, <1>6, <1>7
<1> QED BY <1>1, <1>8 DEF m

\* What the log promises follows.
LEMMA AuditSound == AuditInv => Audit!LogIsSound
<1> SUFFICES ASSUME AuditInv PROVE Audit!LogIsSound
  OBVIOUS
<1> DEFINE K == Audit!Kept
<1>0. /\ K \in Seq(Audit!Entries) /\ ToSet(K) = Stored(Texts, aBuffer) /\ Increasing(K)
      /\ Audit!ToSet(K) = ToSet(K) /\ DOMAIN K = 1..Len(K)
      /\ \A i \in DOMAIN K : K[i] \in ToSet(K)
  <2>1. K \in Seq(Audit!Entries) /\ ToSet(K) = Stored(Texts, aBuffer) /\ Increasing(K)
    BY KeptInOrder
  <2> HIDE DEF K
  <2>2. DOMAIN K = 1..Len(K)
    BY <2>1, LenProperties
  <2> QED BY <2>1, <2>2 DEF ToSet, Audit!ToSet
<1> HIDE DEF K
<1>1. Audit!LogKeepsItsOrder
  <2>1. \A i, j \in DOMAIN K : i < j => K[i] < K[j]
    BY <1>0 DEF Increasing
  <2>2. 1..Audit!Handled \subseteq ToSet(K) \union aAway \union aLate \union aDropped \union aFailed
    BY <1>0 DEF AuditInv, AuditOrder
  <2> QED BY <1>0, <2>1, <2>2 DEF Audit!LogKeepsItsOrder, K
<1>2. Audit!OldestGoFirst
  <2>1. aFailures = 0 => Audit!RotatedFilesAreKept
    <3> SUFFICES ASSUME aFailures = 0, aRemovals = 0, aErrors = 0, aDropped # {}
                 PROVE  Len(Audit!Kept) >= Keep * MaxSize
      BY DEF Audit!RotatedFilesAreKept
    <3>1. Undisturbed
      BY DEF Undisturbed
    <3> QED BY <3>1, KeptIsFull
  <2>2. \A x \in aDropped, i \in DOMAIN K : aFailures = 0 => x < K[i]
    BY <1>0 DEF AuditInv, AuditOldest
  <2> QED BY <2>1, <2>2 DEF Audit!OldestGoFirst, K
<1>3. Audit!RemovedFileGetsNothing
  BY DEF Audit!RemovedFileGetsNothing, AuditInv, AuditRemoved
<1>4. Audit!FlushedIsInAFile
  <2>1. \A i \in DOMAIN aBuffer : aBuffer[i] \in ToSet(aBuffer)
    BY DEF ToSet
  <2>2. aErrors = 0 => \A x \in ToSet(aBuffer) : aReplied < x
    BY DEF AuditInv, AuditFlushed
  <2>3. ASSUME aErrors = 0, NEW i \in DOMAIN aBuffer PROVE aBuffer[i] > aReplied
    <3>1. aReplied < aBuffer[i]
      BY <2>1, <2>2, <2>3
    <3>2. aBuffer[i] \in Nat /\ aReplied \in Nat
      BY AuditConstants, ElementsOf, <2>1 DEF AuditInv, AuditTyped
    <3> QED BY <3>1, <3>2
  <2> QED BY <2>3 DEF Audit!FlushedIsInAFile
<1> QED BY <1>1, <1>2, <1>3, <1>4 DEF Audit!LogIsSound

\* Whatever file operation fails and whenever somebody removes the file at the path: read from the
\* oldest file to the newest, entries come in the order they were logged, each once; one that was
\* handled is there unless its file went or its write failed; as long as no rename failed a
\* rotation drops only the oldest entries, and with nothing failing none before the numbered files
\* hold their sizes; a removed file gets nothing more unless it went between a look and a write;
\* an answered flush leaves no earlier entry in the buffer (Writer::rotate, reopen, flush).
THEOREM LogStaysSound == ServicesSpec => []LogIsSound
<1>1. AuditInv => LogIsSound
  BY AuditSound DEF LogIsSound
<1> QED BY <1>1, AuditInvariance, PTL

\* The log's types and bounds follow.
LEMMA AuditTypes == AuditInv => Audit!TypeOK
BY DEF AuditInv, AuditTyped, AuditBounded, Audit!TypeOK

-----------------------------------------------------------------------------
(* All four parts. *)

\* The session table keeps its invariant next to the other parts.
THEOREM TableInvariance == ServicesSpec => []IInv
<1>1. ServicesInit => IInv
  BY InitIInv DEF ServicesInit
<1>2. IInv /\ [ServicesNext]_allVars => IInv'
  <2>1. [ServicesNext]_allVars => [Next]_vars
    BY DEF ServicesNext, allVars
  <2> QED BY <2>1, NextIInv
<1> QED BY <1>1, <1>2, PTL DEF ServicesSpec

\* Next to the other parts, too, concurrent creations never overshoot the capacity, and each
\* session's removal is sent once.
THEOREM TableStaysSound == ServicesSpec => [](CapacityKept /\ RemovalSentOnce)
<1>1. IInv => CapacityKept /\ RemovalSentOnce
  BY DEF IInv, Bounded, CapacityKept, Told
<1> QED BY <1>1, TableInvariance, PTL

\* Each part's variables keep their types, its queues, channels and buffers their bounds.
THEOREM TypesStayOK == ServicesSpec => []TypesOK
<1>1. IInv => TypeOK
  BY DEF IInv, Typed, CallersTyped, Counted, Told, TypeOK
<1>2. IInv /\ ChatInv /\ WsInv /\ AuditInv => TypesOK
  BY <1>1, ChatTypes, WsTypes, AuditTypes DEF TypesOK
<1> QED BY <1>2, TableInvariance, ChatInvariance, WsInvariance, AuditInvariance, PTL
=============================================================================
