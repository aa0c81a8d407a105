------------------------------ MODULE MCServices ------------------------------
(***************************************************************************)
(* Four parts of the server that share no state, checked in one run: the   *)
(* session table (extended: its names are used plainly), a streamed chat,  *)
(* a WebSocket connection and the audit log's writer. A behaviour is one   *)
(* of the part it starts with; the other three stay as they began.         *)
(***************************************************************************)
EXTENDS SessionRegistry, Sequences

CONSTANTS
    Tools, ChatSessions, MaxErases, MaxFaults, EventBound,
    MaxMessages, Sizes, MaxWaiting, MaxBytes, Capacity,
    MaxEntries, QueueBound, BufferBound, MaxSize, Keep,
    MaxFlushes, MaxRemovals, MaxErrors, MaxFailures,
    None, Away

VARIABLES
    part,
    cSession, cBorn, cConversation, cMessage, cTool, cTurn, cChat, cTask, cPlaceholder,
    cListening, cEvents, cGone, cStop, cErases, cFaults,
    wClient, wSent, wSocket, wWaiting, wHandling, wRefusing, wSlot, wPending, wChannel, wGot,
    wLoop, wSession, wAuth,
    aLogged, aAsked, aQueue, aAt, aMsg, aShift, aFile, aHandle, aBuffer, aSize, aReplied,
    aAway, aLate, aRaced, aDropped, aFailed, aRemovals, aErrors, aFailures

Chat == INSTANCE ChatTask WITH
    MaxSessions <- ChatSessions, session <- cSession, born <- cBorn,
    conversation <- cConversation, message <- cMessage, tool <- cTool, turn <- cTurn,
    chat <- cChat, task <- cTask, placeholder <- cPlaceholder, listening <- cListening,
    events <- cEvents, gone <- cGone, stop <- cStop, erases <- cErases, faults <- cFaults

Ws == INSTANCE WsConnection WITH
    client <- wClient, sent <- wSent, socket <- wSocket, waiting <- wWaiting,
    handling <- wHandling, refusing <- wRefusing, slot <- wSlot, pending <- wPending,
    channel <- wChannel, got <- wGot, loop <- wLoop, session <- wSession, auth <- wAuth

Audit == INSTANCE AuditWriter WITH
    logged <- aLogged, asked <- aAsked, queue <- aQueue, at <- aAt, msg <- aMsg,
    shift <- aShift, file <- aFile, handle <- aHandle, buffer <- aBuffer, size <- aSize,
    replied <- aReplied, away <- aAway, late <- aLate, raced <- aRaced, dropped <- aDropped,
    failed <- aFailed, removals <- aRemovals, errors <- aErrors, failures <- aFailures

ASSUME ServicesAssumption ==
    /\ Chat!ChatAssumption /\ Ws!ConnectionAssumption /\ Audit!AuditAssumption

chatVars == <<cSession, cBorn, cConversation, cMessage, cTool, cTurn, cChat, cTask, cPlaceholder,
              cListening, cEvents, cGone, cStop, cErases, cFaults>>
wsVars == <<wClient, wSent, wSocket, wWaiting, wHandling, wRefusing, wSlot, wPending, wChannel,
            wGot, wLoop, wSession, wAuth>>
auditVars == <<aLogged, aAsked, aQueue, aAt, aMsg, aShift, aFile, aHandle, aBuffer, aSize,
               aReplied, aAway, aLate, aRaced, aDropped, aFailed, aRemovals, aErrors, aFailures>>
allVars == <<part, vars, chatVars, wsVars, auditVars>>

Is(p) == part = p

ServicesInit ==
    /\ part \in {"table", "chat", "ws", "audit"}
    /\ Init /\ Chat!Init /\ Ws!Init /\ Audit!Init

ServicesNext ==
    \/ Is("table") /\ Next /\ UNCHANGED <<part, chatVars, wsVars, auditVars>>
    \/ Is("chat") /\ Chat!Next /\ UNCHANGED <<part, vars, wsVars, auditVars>>
    \/ Is("ws") /\ Ws!Next /\ UNCHANGED <<part, vars, chatVars, auditVars>>
    \/ Is("audit") /\ Audit!Next /\ UNCHANGED <<part, vars, chatVars, wsVars>>

\* Each part's own fairness, in its own behaviours.
ServicesFairness ==
    /\ SF_vars(Is("table") /\ StartScan) /\ WF_vars(Is("table") /\ ScanOne)
    /\ WF_vars(Is("table") /\ EndScan) /\ SF_vars(Is("table") /\ RemoveScanned)
    /\ WF_vars(Is("table") /\ (Consider \/ Evict \/ RefuseFull))
    /\ \A id \in Ids : WF_vars(Is("table") /\ SendDeleted(id))
    /\ SF_vars(Is("table") /\ Tick)
    /\ WF_chatVars(Is("chat") /\ Chat!Chatting) /\ WF_chatVars(Is("chat") /\ Chat!Stops)
    /\ WF_chatVars(Is("chat") /\ Chat!TurnEnds) /\ WF_chatVars(Is("chat") /\ Chat!Drop)
    /\ WF_wsVars(Is("ws") /\ Ws!Serves) /\ WF_wsVars(Is("ws") /\ Ws!Reads)
    /\ WF_wsVars(Is("ws") /\ Ws!HandOut) /\ WF_wsVars(Is("ws") /\ Ws!WriterSends)
    /\ WF_wsVars(Is("ws") /\ Ws!End)
    /\ WF_auditVars(Is("audit") /\ Audit!Writes)

ServicesSpec == ServicesInit /\ [][ServicesNext]_allVars /\ ServicesFairness

-----------------------------------------------------------------------------

\* Every part's variables keep their types and bounds.
TypesOK == TypeOK /\ Chat!TypeOK /\ Ws!TypeOK /\ Audit!TypeOK

\* A chat's rows belong to something that is stored, and those of a chat that was stopped are
\* closed, whatever write was under way (run_chat_task).
ChatRowsAreClosed == Chat!StoppedChatIsClosed /\ Chat!RowsHaveOwners

\* No tool runs on a session that took over the id of the chat's own (ChatSession::live).
GoneSessionRunsNoTool == Chat!GoneSessionRunsNoTool

\* A chat ends and frees its session's chat slot, also when its client went first; it goes on
\* for ever only while its client stays and does not read.
ChatEnds == <>(Is("chat") => Chat!Ended) \/ <>[]Chat!Stalled

\* A connection answers in the order of the messages, once each (read_while_handling).
AnswersInOrder == Ws!AnswersInOrder

\* No message is lost between socket, waiting queue and handler, and what runs for a client
\* that left ends.
EveryMessageAnswered == Ws!EveryMessageAnswered

\* Entries are kept in order, and go only with the oldest file or a removed one.
LogIsSound == Audit!LogIsSound

\* No entry waits in the buffer for the next one.
EveryEntryWritten == Audit!EveryEntryWritten
=============================================================================
