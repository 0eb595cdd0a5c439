------------------------------ MODULE ToolCalls ------------------------------
(***************************************************************************)
(* What one user's exchanges with the LLM leave in the messages table, row *)
(* by row: the assistant's tool_calls, one tool message for each call, the *)
(* reply; and what a later prompt sees of them through the history window. *)
(* MessageBatching takes all the calls of a response together; here each   *)
(* call is a step of _process_tool_calls, with the local variable result   *)
(* that survives from one call to the next.                                *)
(*                                                                         *)
(* That at most one generation runs is SingleFlight of MessageBatching;    *)
(* here it is the single variable pc.  Texts and commands go on arriving   *)
(* while it runs, and their rows mix with those of the exchange.           *)
(***************************************************************************)
EXTENDS Naturals, Sequences, FiniteSets

CONSTANTS
    Tools,          \* ToolName: the tools that exist
    Names,          \* names an LLM puts into its calls, others included
    MaxCalls,       \* bound on the tool calls of one response
    HistoryLimit,   \* get_user_message_history(limit): 10 in the code
    MaxTexts        \* bound on the texts the user writes

ASSUME ToolsAssumption    == Tools \subseteq Names
ASSUME CallsAssumption    == MaxCalls \in Nat \ {0}
ASSUME WindowAssumption   == HistoryLimit \in Nat \ {0}
ASSUME MaxTextsAssumption == MaxTexts \in Nat

VARIABLES
    clock,      \* Message objects constructed so far: created_at of the last
    written,    \* texts the user has written
    storing,    \* rows of create_new_message that are not committed yet
    entering,   \* committed texts on their way to generate_response
    table,      \* committed rows of the messages table
    buffer,     \* MessageProcessor.messages
    pc,         \* await of generate_response; "free" when the lock is free
    batch,      \* messages_to_process
    prompt,     \* old_messages of the prompt under way
    asked,      \* initial_message with its tool_calls
    todo,       \* which of its calls is next
    result,     \* result of _process_tool_calls, NoId while it is unbound
    fresh,      \* new_messages
    outbox      \* the new_messages of the generations that have returned

webhookVars == <<written, storing, entering>>
roundVars   == <<pc, batch, prompt, asked, todo, result, fresh>>
vars == <<clock, webhookVars, table, buffer, roundVars, outbox>>

(***************************************************************************)
(* Rows.  A tool call is identified by the row that asks for it and its    *)
(* place there, which is what its id stands for; the content of a tool     *)
(* message is the id of the call that produced it, or NoId for an error.   *)
(***************************************************************************)
Ids   == Nat \X Nat
NoId  == <<>>
Kinds == {"user", "call", "tool", "reply"}
Row   == [at : Nat, kind : Kinds, names : Seq(Names),
          id : Ids \cup {NoId}, content : Ids \cup {NoId}]

Plain(t, kind) ==
    [at |-> t, kind |-> kind, names |-> <<>>, id |-> NoId, content |-> NoId]
CallRow(t, names) ==
    [at |-> t, kind |-> "call", names |-> names, id |-> NoId, content |-> NoId]
ToolRow(t, name, id, content) ==
    [at |-> t, kind |-> "tool", names |-> <<name>>, id |-> id,
     content |-> content]

NoRow     == Plain(0, "call")
Responses == UNION {[1 .. n -> Names] : n \in 1 .. MaxCalls}
InLoop    == {"history", "llm", "tools", "final"}

\* order_by(desc(created_at)).limit(n) over the rows of S.
Latest(S, n) == {y \in S : Cardinality({x \in S : x.at > y.at}) < n}

History == Latest(table, HistoryLimit)

\* "Unusual message count scenario": _format_messages raises.
UnusualCount == History # {} /\ Cardinality(History) < Cardinality(batch)

\* database_messages[:-message_count].
OldMessages(n) == History \ Latest(History, n)

CheckNewMessages == Cardinality(buffer) > Cardinality(batch)

-----------------------------------------------------------------------------
(* The webhooks of the user's texts.                                       *)

\* A text reaches handle_valid_message: its Message is constructed.
Write ==
    /\ written < MaxTexts
    /\ written' = written + 1
    /\ clock' = clock + 1
    /\ storing' = storing \cup {Plain(clock + 1, "user")}
    /\ UNCHANGED <<entering, table, buffer, roundVars, outbox>>

\* create_new_message: the text goes on to the processor.
Store(x) ==
    /\ x \in storing
    /\ storing' = storing \ {x}
    /\ table' = table \cup {x}
    /\ entering' = entering \cup {x}
    /\ UNCHANGED <<clock, written, buffer, roundVars, outbox>>

\* The insert raises, or the refresh after the commit does: status 500.
StoreFails(x) ==
    /\ x \in storing
    /\ storing' = storing \ {x}
    /\ table' \in {table, table \cup {x}}
    /\ UNCHANGED <<clock, written, entering, buffer, roundVars, outbox>>

\* Everything local to one round of the loop.
Forget ==
    /\ prompt' = {}
    /\ asked' = NoRow
    /\ todo' = 1
    /\ result' = NoId
    /\ fresh' = {}

\* messages_to_process = processor.get_pending_messages().
LoopTop(pending) ==
    /\ pc' = "history"
    /\ batch' = pending
    /\ Forget

\* generate_response, up to its first await or its early return.
GenerateResponse(x) ==
    /\ x \in entering
    /\ entering' = entering \ {x}
    /\ buffer' = buffer \cup {x}
    /\ \/ /\ pc \in InLoop
          /\ UNCHANGED roundVars
       \/ /\ pc = "free"
          /\ LoopTop(buffer')
    /\ UNCHANGED <<clock, written, storing, table, outbox>>

\* "help" or "settings": the menu is sent and makes no row, so that the text
\* stays in the table without ever having been in the buffer.
HandleCommand(x) ==
    /\ x \in entering
    /\ entering' = entering \ {x}
    /\ UNCHANGED <<clock, written, storing, table, buffer, roundVars, outbox>>

-----------------------------------------------------------------------------
(* One round of the loop of generate_response.                             *)

LeaveLoop ==
    /\ pc' = "free"
    /\ buffer' = {}
    /\ batch' = {}
    /\ Forget

\* The database or the LLM may raise, and so may the recovery of a malformed
\* call and the check of the message count; _process_tool_calls does not.
GiveUp ==
    /\ pc \in InLoop \ {"tools"}
    /\ LeaveLoop
    /\ UNCHANGED <<clock, webhookVars, table, outbox>>

ReadHistory ==
    /\ pc = "history"
    /\ ~UnusualCount
    /\ pc' = "llm"
    /\ prompt' = OldMessages(Cardinality(batch))
    /\ UNCHANGED <<clock, webhookVars, table, buffer, batch, asked, todo,
                   result, fresh, outbox>>

\* "New messages buffered": the rows of this round are dropped.
Continue ==
    /\ CheckNewMessages
    /\ LoopTop(buffer)
    /\ UNCHANGED <<buffer, outbox>>

\* return new_messages.
ReturnedWithoutCalls(S) == {x \in S : x.kind # "call"}
Returned(S) == S
Return(S) ==
    /\ ~CheckNewMessages
    /\ LeaveLoop
    /\ outbox' = outbox \cup {Returned(S)}

\* The first response is plain text.
TextResponse ==
    /\ pc = "llm"
    /\ clock' = clock + 1
    /\ Continue \/ Return({Plain(clock + 1, "reply")})
    /\ UNCHANGED <<webhookVars, table>>

\* The first response asks for tools, well formed or recovered from its text
\* by _catch_malformed_tool; _process_tool_calls starts with result unbound.
ToolResponse ==
    /\ pc = "llm"
    /\ clock' = clock + 1
    /\ \E names \in Responses :
         \/ Continue
         \/ /\ ~CheckNewMessages
            /\ pc' = "tools"
            /\ asked' = CallRow(clock + 1, names)
            /\ todo' = 1
            /\ result' = NoId
            /\ fresh' = {CallRow(clock + 1, names)}
            /\ UNCHANGED <<buffer, batch, prompt, outbox>>
    /\ UNCHANGED <<webhookVars, table>>

-----------------------------------------------------------------------------
(* _process_tool_calls, one call after the other.                          *)

\* The tool message of the next call.
Answer(content) ==
    ToolRow(clock + 1, asked.names[todo], <<asked.at, todo>>, content)

NextCall ==
    /\ clock' = clock + 1
    /\ todo' = todo + 1
    /\ pc' = IF todo = Len(asked.names) THEN "final" ELSE "tools"
    /\ UNCHANGED <<webhookVars, table, buffer, batch, prompt, asked, outbox>>

\* A tool that exists runs and its output is the content.
ToolRunsTooLate ==
    /\ pc = "tools"
    /\ asked.names[todo] \in Tools
    /\ result' = <<asked.at, todo>>
    /\ fresh' = fresh \cup {Answer(result)}
    /\ NextCall
ToolRuns ==
    /\ pc = "tools"
    /\ asked.names[todo] \in Tools
    /\ result' = <<asked.at, todo>>
    /\ fresh' = fresh \cup {Answer(<<asked.at, todo>>)}
    /\ NextCall

\* No branch fits the name: whatever result holds is appended.
ToolUnknown ==
    /\ pc = "tools"
    /\ asked.names[todo] \notin Tools
    /\ result # NoId
    /\ fresh' = fresh \cup {Answer(result)}
    /\ NextCall
    /\ UNCHANGED result

\* The arguments are no JSON object, or not the tool's parameters; the tool
\* raises; or result is unbound.  The except clause answers with the error.
ToolFailsUnanswered ==
    /\ pc = "tools"
    /\ NextCall
    /\ UNCHANGED <<result, fresh>>
ToolFails ==
    /\ pc = "tools"
    /\ fresh' = fresh \cup {Answer(NoId)}
    /\ NextCall
    /\ UNCHANGED result

\* The second response, to a prompt that ends with the tool messages.
FinalResponse ==
    /\ pc = "final"
    /\ clock' = clock + 1
    /\ Continue \/ Return(fresh \cup {Plain(clock + 1, "reply")})
    /\ UNCHANGED <<webhookVars, table>>

-----------------------------------------------------------------------------
(* create_new_messages, when the lock is free again; a crash.              *)

Save(rows) ==
    /\ rows \in outbox
    /\ outbox' = outbox \ {rows}
    /\ table' = table \cup rows
    /\ UNCHANGED <<clock, webhookVars, buffer, roundVars>>

SaveFails(rows) ==
    /\ rows \in outbox
    /\ outbox' = outbox \ {rows}
    /\ UNCHANGED <<clock, webhookVars, table, buffer, roundVars>>

\* The process dies and comes back with the table only.
Restart ==
    /\ LeaveLoop
    /\ storing' = {}
    /\ entering' = {}
    /\ outbox' = {}
    /\ UNCHANGED <<clock, written, table>>

Init ==
    /\ clock = 0
    /\ written = 0
    /\ storing = {}
    /\ entering = {}
    /\ table = {}
    /\ buffer = {}
    /\ pc = "free"
    /\ batch = {}
    /\ prompt = {}
    /\ asked = NoRow
    /\ todo = 1
    /\ result = NoId
    /\ fresh = {}
    /\ outbox = {}

Round ==
    \/ ReadHistory \/ TextResponse \/ ToolResponse
    \/ ToolRuns \/ ToolUnknown \/ ToolFails \/ FinalResponse \/ GiveUp

Next ==
    \/ Write
    \/ \E x \in storing : Store(x) \/ StoreFails(x)
    \/ \E x \in entering : GenerateResponse(x) \/ HandleCommand(x)
    \/ Round
    \/ \E rows \in outbox : Save(rows) \/ SaveFails(rows)
    \/ Restart

Spec == Init /\ [][Next]_vars

-----------------------------------------------------------------------------
(* What must hold.                                                         *)

TypeOK ==
    /\ clock \in Nat
    /\ written \in 0 .. MaxTexts
    /\ storing \subseteq Row
    /\ entering \subseteq Row
    /\ table \subseteq Row
    /\ buffer \subseteq Row /\ IsFiniteSet(buffer)
    /\ pc \in {"free"} \cup InLoop
    /\ batch \subseteq Row /\ IsFiniteSet(batch)
    /\ prompt \subseteq Row
    /\ asked \in Row
    /\ todo \in Nat \ {0}
    /\ result \in Ids \cup {NoId}
    /\ fresh \subseteq Row
    /\ outbox \subseteq SUBSET Row

CallsIn(S) == {x \in S : x.kind = "call"}
ToolsIn(S) == {x \in S : x.kind = "tool"}

\* x is the tool message of one of the calls of c, and younger than c.
Answers(x, c) ==
    /\ x.id[1] = c.at
    /\ x.id[2] \in DOMAIN c.names
    /\ x.names = <<c.names[x.id[2]]>>
    /\ c.at < x.at

\* Every tool message answers a call of S, every call has one, and the
\* messages of one response come in the order of its calls.
Whole(S) ==
    /\ \A x \in ToolsIn(S) : \E c \in CallsIn(S) : Answers(x, c)
    /\ \A c \in CallsIn(S) : \A i \in DOMAIN c.names :
         \E x \in ToolsIn(S) : x.id = <<c.at, i>>
    /\ \A x, y \in ToolsIn(S) : x.id[1] = y.id[1] =>
         /\ x.id[2] < y.id[2] => x.at < y.at
         /\ x.id[2] = y.id[2] => x = y

\* Whichever tools exist, fail or are made up, and whatever is not saved:
\* the table holds for each stored call exactly one tool message, later than
\* the call and in the order of the calls.
EveryCallAnswered == Whole(table)

\* A tool message holds the output of its own call or an error; only for a
\* tool that does not exist can it be that of an earlier call, and then of a
\* call in the same response.
OutputIsOwn(x) ==
    \/ x.content \in {NoId, x.id}
    \/ /\ x.names[1] \notin Tools
       /\ x.content # NoId
       /\ x.content[1] = x.id[1]
       /\ x.content[2] < x.id[2]
OutputsAreTheirOwn == \A x \in ToolsIn(table) : OutputIsOwn(x)

\* The old messages of a prompt hold a tool message without its call only
\* where the history window cuts an exchange: nothing they hold is older
\* than the missing call.
OrphansOnlyAtWindowStart ==
    \A x \in ToolsIn(prompt) :
        \/ \E c \in CallsIn(prompt) : Answers(x, c)
        \/ \A y \in prompt : x.id[1] <= y.at

(***************************************************************************)
(* What the invariants above rest on.                                      *)
(***************************************************************************)
\* Nothing is younger than the clock, so the next row is new.
Young(S) == IsFiniteSet(S) /\ \A x \in S : x.at <= clock
NothingFromTheFuture ==
    /\ Young(table)
    /\ Young(fresh)
    /\ \A x \in storing : x.at <= clock
    /\ \A rows \in outbox : Young(rows)

\* The rows of create_new_message are neither calls nor tool messages.
PlainRowsAreStored == \A x \in storing : x.kind = "user"

\* No two of the table, the outbox and the round under way share a call.
Apart(S, T) == \A c \in CallsIn(S), d \in CallsIn(T) : c.at # d.at
ExchangesApart ==
    /\ Apart(fresh, table)
    /\ \A rows \in outbox : Apart(rows, table) /\ Apart(rows, fresh)
    /\ \A rows, others \in outbox : rows # others => Apart(rows, others)

\* How far _process_tool_calls has got: the calls before todo have their
\* tool messages.
RoundProgress ==
    /\ pc \notin {"tools", "final"} => fresh = {}
    /\ pc \in {"tools", "final"} =>
         /\ CallsIn(fresh) = {asked}
         /\ todo \in 1 .. Len(asked.names) + 1
         /\ pc = "tools" <=> todo <= Len(asked.names)
         /\ \A x \in ToolsIn(fresh) : Answers(x, asked) /\ x.id[2] < todo
         /\ \A i \in 1 .. todo - 1 :
              \E x \in ToolsIn(fresh) : x.id = <<asked.at, i>>
         /\ \A x, y \in ToolsIn(fresh) :
              /\ x.id[2] < y.id[2] => x.at < y.at
              /\ x.id[2] = y.id[2] => x = y
         /\ result # NoId => result[1] = asked.at /\ result[2] < todo
         /\ \A x \in ToolsIn(fresh) : OutputIsOwn(x)

\* What waits to be saved is as sound as what is saved.
OutboxSound ==
    \A rows \in outbox :
        Whole(rows) /\ \A x \in ToolsIn(rows) : OutputIsOwn(x)

\* The inductive invariant.
ToolCallsInv ==
    /\ TypeOK
    /\ NothingFromTheFuture
    /\ PlainRowsAreStored
    /\ ExchangesApart
    /\ RoundProgress
    /\ OutboxSound
    /\ EveryCallAnswered
    /\ OutputsAreTheirOwn
    /\ OrphansOnlyAtWindowStart
=============================================================================
