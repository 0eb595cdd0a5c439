--------------------------- MODULE MessageBatching ---------------------------
(***************************************************************************)
(* The chat path of Twiga: what one uvicorn event loop does with a message *)
(* of an active user, from app/services/request_service.py to the text     *)
(* that app/services/messaging_service.py sends back.                      *)
(*                                                                         *)
(* Every webhook request runs as one asyncio task.  A task is only         *)
(* interrupted where it awaits (the database, the LLM, the WhatsApp API),  *)
(* so an action of this module is the code a task runs from one await to   *)
(* the next.  The tasks of one user share a MessageProcessor: a buffer of  *)
(* messages and a lock.  The task that finds the lock free becomes the     *)
(* generation of that user; the tasks that find it taken leave their       *)
(* message in the buffer and return at once, and the generation starts     *)
(* again from the whole buffer when it notices them.                       *)
(***************************************************************************)
EXTENDS Naturals, Sequences, FiniteSets

CONSTANTS
    Users,          \* people writing to the chatbot, all in state "active"
    Requests,       \* webhook requests that carry a valid message
    Chats,          \* those whose message is free text, not "help"/"settings"
    Sender,         \* Sender[r] is the user who wrote the message of r
    HistoryLimit,   \* get_user_message_history(limit): 10 in the code
    MaxRestarts     \* bound on the number of times the process dies

ASSUME SenderAssumption  == Sender \in [Requests -> Users]
ASSUME ChatsAssumption   == Chats \subseteq Requests
ASSUME LimitAssumption   == HistoryLimit \in Nat \ {0}
ASSUME RestartAssumption == MaxRestarts \in Nat

VARIABLES
    pc,         \* pc[r]: the await at which the task of request r is suspended
    lock,       \* lock[u]: MessageProcessor.lock of u is held
    buffer,     \* buffer[u]: MessageProcessor.messages of u
    known,      \* users that have an entry in LLMClient._processors
    batch,      \* batch[r]: messages_to_process of the generation run by r
    oldRows,    \* oldRows[r]: old_messages in the prompt of that generation
    created,    \* message rows constructed, hence stamped with created_at
    earlier,    \* earlier[x]: rows of the same user created before row x
    stored,     \* rows committed to the messages table
    answers,    \* answers[r]: messages the successful generation of r replied to
    dropped,    \* messages whose buffer was cleared without a reply
    delivered,  \* texts that reached the user over WhatsApp
    restarts    \* how often the process died

processorVars == <<lock, buffer, known>>
historyVars   == <<created, earlier, stored>>
outcomeVars   == <<answers, dropped>>
vars == <<pc, processorVars, batch, oldRows, historyVars, outcomeVars,
          delivered, restarts>>

(***************************************************************************)
(* Data.  A row of the messages table is named by what it is and by the    *)
(* request whose task constructed it: the user's message, the assistant's  *)
(* tool_calls, the tool's response, the assistant's reply.                 *)
(***************************************************************************)
RowKinds == {"user", "call", "tool", "reply"}
Row      == [kind : RowKinds, of : Requests]
Text     == [kind : {"answer", "apology", "command", "notice"}, of : Requests]

InLoop   == {"history", "llm", "tools", "final"}   \* holds processor.lock
Finished == {"done", "rejected", "failed"}
Labels   == {"idle", "storing", "stored", "commanding", "saving", "sending",
             "apologising"} \cup InLoop \cup Finished

UserRow(r)       == [kind |-> "user", of |-> r]
GeneratedRows(r) == [kind : {"call", "tool", "reply"}, of : {r}]
RowsOf(u)        == {x \in Row : Sender[x.of] = u}
Elements(s)      == {s[i] : i \in DOMAIN s}

-----------------------------------------------------------------------------
(***************************************************************************)
(* The messages table, ordered by created_at.  Message.created_at is set   *)
(* when the object is constructed, which can be long before the row is     *)
(* committed.                                                              *)
(***************************************************************************)
StampAtInsert(x) ==
    /\ created' = created \cup {x}
    /\ earlier' = [earlier EXCEPT ![x] = stored \cap RowsOf(Sender[x.of])]
Stamp(x) ==
    /\ created' = created \cup {x}
    /\ earlier' = [earlier EXCEPT ![x] = created \cap RowsOf(Sender[x.of])]

\* Objects that will never be committed are garbage.
Discard(D) ==
    /\ created' = created \ D
    /\ earlier' = [x \in Row |-> IF x \in D THEN {} ELSE earlier[x] \ D]

\* order_by(desc(created_at)).limit(n) over the rows of S.
Latest(S, n) ==
    {y \in S : Cardinality({x \in S : y \in earlier[x]}) < n}

History(u) == Latest(stored \cap RowsOf(u), HistoryLimit)

\* "Unusual message count scenario": _format_messages raises.
UnusualCountOffByOne(u, n) == History(u) # {} /\ Cardinality(History(u)) <= n
UnusualCount(u, n) == History(u) # {} /\ Cardinality(History(u)) < n

\* database_messages[:-message_count], the rows that precede the new
\* messages in the prompt.
OldMessagesNoSlice(u, n) == History(u)
OldMessages(u, n) == History(u) \ Latest(History(u), n)

-----------------------------------------------------------------------------
(* MessageProcessor and the helpers of LLMClient.                          *)

AddMessageFirst(u, m) == [buffer EXCEPT ![u] = <<m>> \o buffer[u]]
AddMessage(u, m) == [buffer EXCEPT ![u] = Append(buffer[u], m)]

ClearMessagesLate(u) == [buffer EXCEPT ![u] = Tail(buffer[u])]
ClearMessages(u) == [buffer EXCEPT ![u] = <<>>]

IsLockedNever(u) == FALSE
IsLocked(u) == lock[u]

CheckNewMessagesNever(u, n)  == FALSE
CheckNewMessagesAlways(u, n) == Len(buffer[u]) >= n
CheckNewMessages(u, n) == Len(buffer[u]) > n

\* Both callers still hold the lock when they call it.
CleanupProcessor(u, isLocked, hasMessages) ==
    IF ~hasMessages /\ ~isLocked THEN known \ {u} ELSE known

\* messages_to_process = processor.get_pending_messages(), at the loop top.
\* The branch for an empty list cannot be taken: see BatchIsPrefix.
LoopTop(r, pending) ==
    /\ pc' = [pc EXCEPT ![r] = "history"]
    /\ batch' = [batch EXCEPT ![r] = pending]
    /\ oldRows' = [oldRows EXCEPT ![r] = {}]

\* Leaving the loop, by return or by exception, clears the buffer, runs the
\* clean-up and releases the lock with no await in between.
LeaveLoop(r, label) ==
    LET u == Sender[r] IN
    /\ buffer' = ClearMessages(u)
    /\ known' = CleanupProcessor(u, TRUE, FALSE)
    /\ lock' = [lock EXCEPT ![u] = FALSE]
    /\ pc' = [pc EXCEPT ![r] = label]
    /\ batch' = [batch EXCEPT ![r] = <<>>]
    /\ oldRows' = [oldRows EXCEPT ![r] = {}]

\* The generation succeeds: its reply stands for every message of its batch.
ReturnReply(r) ==
    /\ LeaveLoop(r, "saving")
    /\ Stamp([kind |-> "reply", of |-> r])
    /\ answers' = [answers EXCEPT ![r] = Elements(batch[r])]
    /\ UNCHANGED <<stored, dropped, delivered, restarts>>

\* "New messages buffered": the responses so far are thrown away.
Continue(r) ==
    /\ LoopTop(r, buffer[Sender[r]])
    /\ Discard(GeneratedRows(r))
    /\ UNCHANGED <<processorVars, stored, outcomeVars, delivered, restarts>>

\* except Exception: everything in the buffer goes, the batch and whatever
\* was buffered since.
GiveUpLoop(r) ==
    /\ LeaveLoop(r, "apologising")
    /\ Discard(GeneratedRows(r))
    /\ dropped' = dropped \cup Elements(buffer[Sender[r]])
    /\ UNCHANGED <<stored, answers, delivered, restarts>>

-----------------------------------------------------------------------------
Init ==
    /\ pc = [r \in Requests |-> "idle"]
    /\ lock = [u \in Users |-> FALSE]
    /\ buffer = [u \in Users |-> <<>>]
    /\ known = {}
    /\ batch = [r \in Requests |-> <<>>]
    /\ oldRows = [r \in Requests |-> {}]
    /\ created = {}
    /\ earlier = [x \in Row |-> {}]
    /\ stored = {}
    /\ answers = [r \in Requests |-> {}]
    /\ dropped = {}
    /\ delivered = {}
    /\ restarts = 0

\* The user has been looked up: the Message is constructed and its insert
\* awaited.
Deliver(r) ==
    /\ pc[r] = "idle"
    /\ pc' = [pc EXCEPT ![r] = "storing"]
    /\ Stamp(UserRow(r))
    /\ UNCHANGED <<processorVars, batch, oldRows, stored, outcomeVars,
                   delivered, restarts>>

\* create_new_message commits and goes on to refresh the row.
StoreMessageForgets(r) ==
    /\ pc[r] = "storing"
    /\ pc' = [pc EXCEPT ![r] = "stored"]
    /\ UNCHANGED <<processorVars, batch, oldRows, historyVars, outcomeVars,
                   delivered, restarts>>
StoreMessage(r) ==
    /\ pc[r] = "storing"
    /\ pc' = [pc EXCEPT ![r] = "stored"]
    /\ stored' = stored \cup {UserRow(r)}
    /\ UNCHANGED <<processorVars, batch, oldRows, created, earlier,
                   outcomeVars, delivered, restarts>>

\* The insert or the refresh raises: status 500, the message goes no further,
\* but its row stays if it was committed.
CreateMessageFails(r) ==
    /\ pc[r] \in {"storing", "stored"}
    /\ pc' = [pc EXCEPT ![r] = "rejected"]
    /\ Discard({UserRow(r)} \ stored)
    /\ UNCHANGED <<processorVars, batch, oldRows, stored, outcomeVars,
                   delivered, restarts>>

\* "help", "settings" and the buttons of the settings menu are answered at
\* once, past the processor; a button of another menu raises.
HandleCommand(r) ==
    /\ pc[r] = "stored"
    /\ r \notin Chats
    /\ \E label \in {"commanding", "failed"} : pc' = [pc EXCEPT ![r] = label]
    /\ UNCHANGED <<processorVars, batch, oldRows, historyVars, outcomeVars,
                   delivered, restarts>>

\* generate_response, up to its first await or its early return.  An
\* uncontended lock.acquire() does not suspend.
GenerateResponse(r) ==
    LET u == Sender[r] IN
    /\ pc[r] = "stored"
    /\ r \in Chats
    /\ known' = known \cup {u}
    /\ buffer' = AddMessage(u, r)
    /\ \/ /\ IsLocked(u)
          /\ pc' = [pc EXCEPT ![r] = "apologising"]
          /\ UNCHANGED <<lock, batch, oldRows>>
       \/ /\ ~IsLocked(u)
          /\ lock' = [lock EXCEPT ![u] = TRUE]
          /\ LoopTop(r, buffer'[u])
    /\ UNCHANGED <<historyVars, outcomeVars, delivered, restarts>>

\* get_user_message_history and _format_messages, then the first LLM request
\* is awaited.
ReadHistory(r) ==
    LET u == Sender[r]
        n == Len(batch[r])
    IN
    /\ pc[r] = "history"
    /\ \/ /\ UnusualCount(u, n)
          /\ GiveUpLoop(r)
       \/ /\ ~UnusualCount(u, n)
          /\ pc' = [pc EXCEPT ![r] = "llm"]
          /\ oldRows' = [oldRows EXCEPT ![r] = OldMessages(u, n)]
          /\ UNCHANGED <<processorVars, batch, historyVars, outcomeVars,
                         delivered, restarts>>

\* The first LLM response: new messages make it stale; a tool call, well
\* formed or recovered from the text, starts the tools; plain text is the
\* reply.
InitialResponse(r) ==
    /\ pc[r] = "llm"
    /\ \/ /\ CheckNewMessages(Sender[r], Len(batch[r]))
          /\ Continue(r)
       \/ /\ ~CheckNewMessages(Sender[r], Len(batch[r]))
          /\ ReturnReply(r)
       \/ /\ ~CheckNewMessages(Sender[r], Len(batch[r]))
          /\ Stamp([kind |-> "call", of |-> r])
          /\ pc' = [pc EXCEPT ![r] = "tools"]
          /\ UNCHANGED <<processorVars, batch, oldRows, stored, outcomeVars,
                         delivered, restarts>>

\* _process_tool_calls: the user is told, the tool runs, and its result or
\* its error becomes a tool message.  send_message swallows its own errors.
ProcessToolCalls(r) ==
    /\ pc[r] = "tools"
    /\ Stamp([kind |-> "tool", of |-> r])
    /\ pc' = [pc EXCEPT ![r] = "final"]
    /\ \/ delivered' = delivered \cup {[kind |-> "notice", of |-> r]}
       \/ UNCHANGED delivered
    /\ UNCHANGED <<processorVars, batch, oldRows, stored, outcomeVars, restarts>>

\* The second LLM response, with the tools' output.
FinalResponse(r) ==
    /\ pc[r] = "final"
    /\ \/ /\ CheckNewMessages(Sender[r], Len(batch[r]))
          /\ Continue(r)
       \/ /\ ~CheckNewMessages(Sender[r], Len(batch[r]))
          /\ ReturnReply(r)

\* An await of the loop may raise: the database, the LLM after its retries.
\* _process_tool_calls answers its own errors.
GiveUp(r) ==
    /\ pc[r] \in InLoop \ {"tools"}
    /\ GiveUpLoop(r)

\* create_new_messages, after the lock has been released: one transaction.
\* A reply without content then fails the assertion, before the send.
SavedRowsReplyOnly(r) == {[kind |-> "reply", of |-> r]}
SavedRowsUncreated(r) == GeneratedRows(r)
SavedRows(r) == created \cap GeneratedRows(r)
SaveReplies(r) ==
    /\ pc[r] = "saving"
    /\ stored' = stored \cup SavedRows(r)
    /\ \E label \in {"sending", "failed"} : pc' = [pc EXCEPT ![r] = label]
    /\ UNCHANGED <<processorVars, batch, oldRows, created, earlier,
                   outcomeVars, delivered, restarts>>

SaveFailureIgnored(r) ==
    /\ pc[r] = "saving"
    /\ pc' = [pc EXCEPT ![r] = "sending"]
    /\ Discard(GeneratedRows(r))
    /\ UNCHANGED <<processorVars, batch, oldRows, stored, outcomeVars,
                   delivered, restarts>>
SaveFails(r) ==
    /\ pc[r] = "saving"
    /\ pc' = [pc EXCEPT ![r] = "failed"]
    /\ Discard(GeneratedRows(r))
    /\ UNCHANGED <<processorVars, batch, oldRows, stored, outcomeVars,
                   delivered, restarts>>

TextAt == [sending |-> "answer", apologising |-> "apology",
           commanding |-> "command"]

\* send_message: it returns whether or not the text went out.
SendMessage(r) ==
    /\ pc[r] \in DOMAIN TextAt
    /\ pc' = [pc EXCEPT ![r] = "done"]
    /\ \/ delivered' = delivered \cup {[kind |-> TextAt[pc[r]], of |-> r]}
       \/ UNCHANGED delivered
    /\ UNCHANGED <<processorVars, batch, oldRows, historyVars, outcomeVars,
                   restarts>>

\* The process dies and comes back: the processors and every task are gone,
\* the messages table stays.
Restart ==
    /\ restarts < MaxRestarts
    /\ restarts' = restarts + 1
    /\ pc' = [r \in Requests |->
                CASE pc[r] \in {"idle"} \cup Finished -> pc[r]
                  [] pc[r] \in {"storing", "stored"}  -> "rejected"
                  [] OTHER                            -> "failed"]
    /\ lock' = [u \in Users |-> FALSE]
    /\ buffer' = [u \in Users |-> <<>>]
    /\ known' = {}
    /\ batch' = [r \in Requests |-> <<>>]
    /\ oldRows' = [r \in Requests |-> {}]
    /\ dropped' = dropped \cup UNION {Elements(buffer[u]) : u \in Users}
    /\ Discard(created \ stored)
    /\ UNCHANGED <<stored, answers, delivered>>

\* What a task does next, once it is running.
Step(r) ==
    \/ StoreMessage(r) \/ CreateMessageFails(r)
    \/ HandleCommand(r) \/ GenerateResponse(r)
    \/ ReadHistory(r) \/ InitialResponse(r) \/ ProcessToolCalls(r)
    \/ FinalResponse(r) \/ GiveUp(r)
    \/ SaveReplies(r) \/ SaveFails(r) \/ SendMessage(r)

Next ==
    \/ \E r \in Requests : Deliver(r) \/ Step(r)
    \/ Restart

Spec == Init /\ [][Next]_vars

\* Every await returns or raises (asyncpg, httpx and the OpenAI client end
\* each call), and the event loop runs a ready task eventually.  Nothing
\* forces a user to write or the process to die.
FairSpec == Spec /\ \A r \in Requests : WF_vars(Step(r))

-----------------------------------------------------------------------------
(* What must hold.                                                         *)

TypeOK ==
    /\ pc \in [Requests -> Labels]
    /\ lock \in [Users -> BOOLEAN]
    /\ buffer \in [Users -> Seq(Chats)]
    /\ known \subseteq Users
    /\ batch \in [Requests -> Seq(Chats)]
    /\ oldRows \in [Requests -> SUBSET Row]
    /\ created \subseteq Row
    /\ earlier \in [Row -> SUBSET Row]
    /\ stored \subseteq created
    /\ answers \in [Requests -> SUBSET Chats]
    /\ dropped \subseteq Chats
    /\ delivered \subseteq Text
    /\ restarts \in 0 .. MaxRestarts

\* The lock of a user is held exactly while one task is inside the while
\* loop of generate_response for that user, and two never are: the test of
\* is_locked and the acquisition are not separated by an await.
SingleFlight ==
    /\ \A u \in Users :
         lock[u] <=> \E r \in Requests : Sender[r] = u /\ pc[r] \in InLoop
    /\ \A r1, r2 \in Requests :
         pc[r1] \in InLoop /\ pc[r2] \in InLoop /\ Sender[r1] = Sender[r2]
           => r1 = r2

\* A message left in a buffer by a task that returned None has a generation
\* running that will notice it: no buffer outlives the lock.
NothingStranded == \A u \in Users : buffer[u] # <<>> => lock[u]

\* While a generation runs, its batch is a non-empty prefix of the buffer, so
\* comparing the two lengths in _check_new_messages finds every newcomer.
BatchIsPrefix ==
    \A r \in Requests : pc[r] \in InLoop =>
        LET b == buffer[Sender[r]] IN
        /\ Len(batch[r]) \in 1 .. Len(b)
        /\ \A i \in 1 .. Len(batch[r]) : batch[r][i] = b[i]

Accepted == {m \in Chats :
               pc[m] \notin {"idle", "storing", "stored", "rejected"}}
Buffered == UNION {Elements(buffer[u]) : u \in Users}
Answered == UNION {answers[r] : r \in Requests}

\* Every message that reached generate_response is waiting, or was covered by
\* exactly one reply, or was given up with an error: none is forgotten by
\* clear_messages and none is answered twice.
EveryMessageAccounted ==
    /\ Accepted = Buffered \cup Answered \cup dropped
    /\ Buffered \cap Answered = {}
    /\ Buffered \cap dropped = {}
    /\ Answered \cap dropped = {}
    /\ \A r1, r2 \in Requests : r1 # r2 => answers[r1] \cap answers[r2] = {}

\* A buffered message is in the database already: generate_response builds
\* its prompt by cutting the batch off the stored history.
BufferedAreStored == \A m \in Buffered : UserRow(m) \in stored

\* "Unusual message count" can only be raised for a batch longer than the
\* history limit, never because a row of the batch is not visible yet.
UnusualCountOnlyBeyondLimit ==
    \A r \in Requests :
        pc[r] = "history" /\ UnusualCount(Sender[r], Len(batch[r]))
            => Len(batch[r]) > HistoryLimit

\* The rows of one generation (tool_calls, tool, reply) enter the history
\* together or not at all, whatever fails or restarts.
RepliesStoredTogether ==
    \A r \in Requests :
        \/ stored \cap GeneratedRows(r) = {}
        \/ created \cap GeneratedRows(r) \subseteq stored

\* An answer the user has read is in the history of later prompts, and so
\* are the messages it answers.
DeliveredAnswerIsStored ==
    \A t \in delivered : t.kind = "answer" =>
        /\ [kind |-> "reply", of |-> t.of] \in stored
        /\ answers[t.of] # {}
        /\ \A m \in answers[t.of] : UserRow(m) \in stored

\* Read by created_at, the table is the conversation, however late the rows
\* of a generation are saved: an answer comes after every question it covers,
\* a tool's output after its call, and two generations are never mixed up,
\* although the second may be stored before the first.
Position == [call |-> 1, tool |-> 2, reply |-> 3]
RowsBefore(S, T) == \A x \in S, y \in T : x \in earlier[y]
Generation(r) == created \cap GeneratedRows(r)
AnswersFollow(r) ==
    \A m \in answers[r] : RowsBefore({UserRow(m)},
                                    created \cap {[kind |-> "reply", of |-> r]})
RoundInOrder(r) ==
    \A x, y \in Generation(r) :
        Position[x.kind] < Position[y.kind] => x \in earlier[y]
HistoryReadsInOrder ==
    \A r \in Requests :
        /\ AnswersFollow(r)
        /\ RoundInOrder(r)
        /\ \A q \in Requests \ {r} : Sender[q] = Sender[r] =>
             \/ RowsBefore(Generation(q), Generation(r))
             \/ RowsBefore(Generation(r), Generation(q))

(***************************************************************************)
(* What the invariants above rest on, step by step of one task.            *)
(***************************************************************************)
\* A message waits in the buffer of the user who wrote it.
BufferedByAuthor ==
    \A u \in Users : \A m \in Elements(buffer[u]) : Sender[m] = u

\* How far a task got tells which of its rows exist and what it answered.
ProgressOf(r) ==
    /\ pc[r] = "storing" => UserRow(r) \in created
    /\ pc[r] = "stored" => UserRow(r) \in stored
    /\ pc[r] = "saving" => [kind |-> "reply", of |-> r] \in created
    /\ pc[r] = "sending" => [kind |-> "reply", of |-> r] \in stored
    /\ pc[r] \in {"saving", "sending"} => answers[r] # {}
    /\ answers[r] # {} => pc[r] \in {"saving", "sending", "done", "failed"}
    /\ pc[r] \notin {"sending", "done", "failed"}
         => stored \cap GeneratedRows(r) = {}
    /\ \A m \in answers[r] : UserRow(m) \in stored
TaskProgress == \A r \in Requests : ProgressOf(r)

\* The inductive invariant.
BatchingInv ==
    /\ TypeOK
    /\ SingleFlight
    /\ NothingStranded
    /\ BatchIsPrefix
    /\ BufferedByAuthor
    /\ TaskProgress
    /\ EveryMessageAccounted
    /\ BufferedAreStored
    /\ RepliesStoredTogether
    /\ DeliveredAnswerIsStored

\* When all rows of the batch are the last rows of the history, the slice in
\* _format_messages removes exactly them.
BatchRows(r) == {UserRow(m) : m \in Elements(batch[r])}
BatchTrails(r) ==
    LET H == History(Sender[r]) IN
    /\ BatchRows(r) \subseteq H
    /\ \A x \in H \ BatchRows(r), b \in BatchRows(r) : x \in earlier[b]
SliceRemovesTrailingBatch ==
    [][\A r \in Requests :
         pc[r] = "history" /\ pc'[r] = "llm" /\ BatchTrails(r)
           => oldRows'[r] = History(Sender[r]) \ BatchRows(r)]_vars

\* Every request the server took is finished with in the end: the loop stops
\* when the messages stop coming.
EveryRequestReturns ==
    \A r \in Requests : pc[r] = "storing" ~> pc[r] \in Finished

\* The batching keeps the contract: seen through its buffers and outcomes, it
\* answers all a user has pending at once, or gives all of it up, and does
\* one or the other in the end.
Contract == INSTANCE ReplyContract WITH
                Messages <- Chats, Author <- [m \in Chats |-> Sender[m]],
                pending <- Buffered, answered <- Answered, abandoned <- dropped
KeepsContractSafely == Contract!SafeSpec
KeepsContract == Contract!Spec

(***************************************************************************)
(* What the repository says and the code does not do.                      *)
(***************************************************************************)
\* _format_messages: "removing duplicates between new messages and database
\* history": no message of the batch is also among the old messages.
NoDuplicatesInPrompt ==
    \A r \in Requests : oldRows[r] \cap BatchRows(r) = {}
=============================================================================
