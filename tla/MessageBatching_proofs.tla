----------------------- MODULE MessageBatching_proofs -----------------------
(***************************************************************************)
(* Proofs about MessageBatching, for every set of users and requests and   *)
(* every history limit.                                                    *)
(***************************************************************************)
EXTENDS MessageBatching, TLAPS

(***************************************************************************)
(* Lemmas about the operators.                                             *)
(***************************************************************************)

\* Appending a message adds it to the elements of a buffer.
LEMMA AppendElements ==
    ASSUME NEW S, NEW s \in Seq(S), NEW m \in S
    PROVE  /\ Append(s, m) \in Seq(S)
           /\ Len(Append(s, m)) = Len(s) + 1
           /\ Elements(Append(s, m)) = Elements(s) \cup {m}
<1>1. /\ Append(s, m) \in Seq(S)
      /\ Len(Append(s, m)) = Len(s) + 1
      /\ \A i \in 1 .. Len(s) : Append(s, m)[i] = s[i]
      /\ Append(s, m)[Len(s) + 1] = m
  OBVIOUS
<1>2. /\ DOMAIN s = 1 .. Len(s)
      /\ DOMAIN Append(s, m) = 1 .. (Len(s) + 1)
      /\ Len(s) \in Nat
  BY <1>1
<1>3. Elements(Append(s, m)) \subseteq Elements(s) \cup {m}
  <2> SUFFICES ASSUME NEW i \in DOMAIN Append(s, m)
               PROVE  Append(s, m)[i] \in Elements(s) \cup {m}
    BY DEF Elements
  <2>1. CASE i = Len(s) + 1
    BY <2>1, <1>1
  <2>2. CASE i # Len(s) + 1
    <3>1. i \in 1 .. Len(s)
      BY <2>2, <1>2
    <3> QED
      BY <3>1, <1>1, <1>2 DEF Elements
  <2> QED
    BY <2>1, <2>2
<1>4. Elements(s) \subseteq Elements(Append(s, m))
  <2> SUFFICES ASSUME NEW i \in DOMAIN s
               PROVE  s[i] \in Elements(Append(s, m))
    BY DEF Elements
  <2>1. i \in DOMAIN Append(s, m) /\ Append(s, m)[i] = s[i]
    BY <1>1, <1>2
  <2> QED
    BY <2>1 DEF Elements
<1>5. m \in Elements(Append(s, m))
  <2>1. Len(s) + 1 \in DOMAIN Append(s, m)
    BY <1>2
  <2> QED
    BY <2>1, <1>1 DEF Elements
<1> QED
  BY <1>1, <1>3, <1>4, <1>5

\* The elements of a sequence over S are in S, and an empty buffer has none.
LEMMA ElementsOfSeq ==
    ASSUME NEW S
    PROVE  /\ \A s \in Seq(S) : Elements(s) \subseteq S
           /\ \A s \in Seq(S) : s = <<>> <=> Len(s) = 0
           /\ \A s \in Seq(S) : s = <<>> <=> Elements(s) = {}
           /\ Elements(<<>>) = {}
<1>1. ASSUME NEW s \in Seq(S)
      PROVE  /\ DOMAIN s = 1 .. Len(s) /\ Len(s) \in Nat
             /\ \A i \in 1 .. Len(s) : s[i] \in S
  OBVIOUS
<1>2. \A s \in Seq(S) : s = <<>> <=> Len(s) = 0
  OBVIOUS
<1>3. Elements(<<>>) = {}
  BY DEF Elements
<1>4. ASSUME NEW s \in Seq(S), s # <<>>
      PROVE  Elements(s) # {}
  <2>1. 1 \in DOMAIN s
    BY <1>1, <1>2, <1>4
  <2> QED
    BY <2>1 DEF Elements
<1> QED
  BY <1>1, <1>2, <1>3, <1>4 DEF Elements

\* A prefix that is not shorter than the buffer is the whole of it.
LEMMA WholePrefix ==
    ASSUME NEW S, NEW s \in Seq(S), NEW t \in Seq(S),
           Len(s) <= Len(t), ~(Len(t) > Len(s)),
           \A i \in 1 .. Len(s) : s[i] = t[i]
    PROVE  Elements(s) = Elements(t)
<1>1. Len(s) = Len(t) /\ DOMAIN s = 1 .. Len(s) /\ DOMAIN t = 1 .. Len(t)
  OBVIOUS
<1> QED
  BY <1>1 DEF Elements

-----------------------------------------------------------------------------
(***************************************************************************)
(* Type correctness.                                                       *)
(***************************************************************************)

\* Nothing has happened in the initial state.
LEMMA InitInv == Init => BatchingInv
<1> SUFFICES ASSUME Init PROVE BatchingInv
  OBVIOUS
<1> USE DEF Init
<1>1. TypeOK
  BY RestartAssumption DEF TypeOK, Labels, InLoop, Finished
<1>2. SingleFlight /\ BatchIsPrefix
  BY DEF SingleFlight, BatchIsPrefix, InLoop
<1>3. NothingStranded
  BY DEF NothingStranded
<1>4. Buffered = {} /\ Answered = {} /\ Accepted = {}
  <2>1. \A u \in Users : Elements(buffer[u]) = {}
    BY ElementsOfSeq
  <2>2. \A m \in Chats : pc[m] = "idle"
    BY ChatsAssumption
  <2> QED
    BY <2>1, <2>2 DEF Buffered, Answered, Accepted
<1>5. BufferedByAuthor
  BY DEF BufferedByAuthor, Elements
<1>6. TaskProgress
  BY DEF TaskProgress, ProgressOf
<1>7. EveryMessageAccounted /\ BufferedAreStored
  BY <1>4 DEF EveryMessageAccounted, BufferedAreStored
<1>8. RepliesStoredTogether /\ DeliveredAnswerIsStored
  BY DEF RepliesStoredTogether, DeliveredAnswerIsStored
<1> QED
  BY <1>1, <1>2, <1>3, <1>5, <1>6, <1>7, <1>8 DEF BatchingInv

\* Stamping and discarding keep the order of rows well typed.
LEMMA StampType ==
    ASSUME TypeOK, NEW x \in Row, Stamp(x)
    PROVE  created' \subseteq Row /\ earlier' \in [Row -> SUBSET Row]
                /\ created \subseteq created'
BY DEF Stamp, TypeOK

\* Discarding rows that were not committed leaves created and earlier typed.
LEMMA DiscardType ==
    ASSUME TypeOK, NEW D, Discard(D)
    PROVE  created' \subseteq Row /\ earlier' \in [Row -> SUBSET Row]
BY DEF Discard, TypeOK

\* Every row named by a task is a row, and the user's is none of the others.
LEMMA RowsOfTask ==
    ASSUME NEW r \in Requests
    PROVE  /\ UserRow(r) \in Row
           /\ [kind |-> "reply", of |-> r] \in GeneratedRows(r)
           /\ [kind |-> "call", of |-> r] \in GeneratedRows(r)
           /\ [kind |-> "tool", of |-> r] \in GeneratedRows(r)
           /\ GeneratedRows(r) \subseteq Row
           /\ \A m : UserRow(m) \notin GeneratedRows(r)
           /\ \A q : q # r => GeneratedRows(q) \cap GeneratedRows(r) = {}
BY DEF UserRow, Row, RowKinds, GeneratedRows

\* The history a prompt is built from consists of rows.
LEMMA OldMessagesType ==
    ASSUME NEW u, NEW n
    PROVE  OldMessages(u, n) \subseteq Row
BY DEF OldMessages, History, Latest, RowsOf

\* Leaving the loop keeps the types of what it touches.
LEMMA LeaveLoopType ==
    ASSUME TypeOK, NEW r \in Requests, NEW label \in Labels,
           LeaveLoop(r, label)
    PROVE  /\ pc' \in [Requests -> Labels]
           /\ lock' \in [Users -> BOOLEAN]
           /\ buffer' \in [Users -> Seq(Chats)]
           /\ known' \subseteq Users
           /\ batch' \in [Requests -> Seq(Chats)]
           /\ oldRows' \in [Requests -> SUBSET Row]
<1>1. pc' \in [Requests -> Labels] /\ oldRows' \in [Requests -> SUBSET Row]
  BY DEF TypeOK, LeaveLoop
<1>2. lock' \in [Users -> BOOLEAN]
  BY DEF TypeOK, LeaveLoop
<1>3. buffer' \in [Users -> Seq(Chats)]
  <2>1. buffer' = [buffer EXCEPT ![Sender[r]] = <<>>]
    BY DEF LeaveLoop, ClearMessages
  <2>2. <<>> \in Seq(Chats)
    OBVIOUS
  <2> QED
    BY <2>1, <2>2 DEF TypeOK
<1>4. known' \subseteq Users
  BY DEF TypeOK, LeaveLoop, CleanupProcessor
<1>5. batch' \in [Requests -> Seq(Chats)]
  BY DEF TypeOK, LeaveLoop
<1> QED
  BY <1>1, <1>2, <1>3, <1>4, <1>5

\* The two endings of a loop and its repetition, for TypeOK.
LEMMA LoopEndType ==
    ASSUME TypeOK, TaskProgress, NEW r \in Requests, pc[r] \in InLoop,
           ReturnReply(r) \/ Continue(r) \/ GiveUpLoop(r)
    PROVE  TypeOK'
<1> DEFINE u == Sender[r]
<1>1. /\ u \in Users /\ buffer[u] \in Seq(Chats)
      /\ stored \cap GeneratedRows(r) = {}
      /\ Elements(buffer[u]) \subseteq Chats
      /\ Elements(batch[r]) \subseteq Chats
  BY SenderAssumption, ElementsOfSeq
  DEF TypeOK, TaskProgress, ProgressOf, InLoop
<1>2. CASE ReturnReply(r)
  <2>1. LeaveLoop(r, "saving") /\ "saving" \in Labels
    BY <1>2 DEF ReturnReply, Labels
  <2>2. /\ created' \subseteq Row /\ earlier' \in [Row -> SUBSET Row]
        /\ created \subseteq created'
    BY <1>2, StampType, RowsOfTask DEF ReturnReply
  <2>3. answers' \in [Requests -> SUBSET Chats]
    BY <1>1, <1>2 DEF ReturnReply, TypeOK
  <2>4. UNCHANGED <<stored, dropped, delivered, restarts>>
    BY <1>2 DEF ReturnReply
  <2> QED
    BY <2>1, <2>2, <2>3, <2>4, LeaveLoopType DEF TypeOK
<1>3. CASE Continue(r)
  <2>1. /\ pc' \in [Requests -> Labels]
        /\ oldRows' \in [Requests -> SUBSET Row]
        /\ batch' \in [Requests -> Seq(Chats)]
    BY <1>1, <1>3 DEF Continue, LoopTop, TypeOK, Labels, InLoop
  <2>2. created' \subseteq Row /\ earlier' \in [Row -> SUBSET Row]
    BY <1>3, DiscardType DEF Continue
  <2>3. stored' \subseteq created'
    BY <1>1, <1>3 DEF Continue, Discard, TypeOK
  <2> QED
    BY <1>3, <2>1, <2>2, <2>3
    DEF TypeOK, Continue, processorVars, outcomeVars
<1>4. CASE GiveUpLoop(r)
  <2>1. LeaveLoop(r, "apologising") /\ "apologising" \in Labels
    BY <1>4 DEF GiveUpLoop, Labels
  <2>2. created' \subseteq Row /\ earlier' \in [Row -> SUBSET Row]
    BY <1>4, DiscardType DEF GiveUpLoop
  <2>3. stored' \subseteq created'
    BY <1>1, <1>4 DEF GiveUpLoop, Discard, TypeOK
  <2>4. dropped' \subseteq Chats
    BY <1>1, <1>4 DEF GiveUpLoop, TypeOK
  <2>5. UNCHANGED <<stored, answers, delivered, restarts>>
    BY <1>4 DEF GiveUpLoop
  <2> QED
    BY <2>1, <2>2, <2>3, <2>4, <2>5, LeaveLoopType DEF TypeOK
<1> QED
  BY <1>2, <1>3, <1>4

\* What AddMessage does to the buffers of well-typed states.
LEMMA AddMessageFacts ==
    ASSUME TypeOK, NEW r \in Chats
    PROVE  LET u == Sender[r]
               b == AddMessage(u, r)
           IN /\ r \in Requests /\ u \in Users
              /\ b \in [Users -> Seq(Chats)]
              /\ b[u] = Append(buffer[u], r)
              /\ Len(b[u]) = Len(buffer[u]) + 1
              /\ Elements(b[u]) = Elements(buffer[u]) \cup {r}
              /\ \A v \in Users : v # u => b[v] = buffer[v]
<1> DEFINE u == Sender[r]
           b == AddMessage(u, r)
<1>1. r \in Requests /\ u \in Users /\ buffer[u] \in Seq(Chats)
  BY ChatsAssumption, SenderAssumption DEF TypeOK
<1>2. /\ Append(buffer[u], r) \in Seq(Chats)
      /\ Len(Append(buffer[u], r)) = Len(buffer[u]) + 1
      /\ Elements(Append(buffer[u], r)) = Elements(buffer[u]) \cup {r}
  BY <1>1, AppendElements
<1>3. b = [buffer EXCEPT ![u] = Append(buffer[u], r)]
  BY DEF AddMessage
<1>4. b[u] = Append(buffer[u], r) /\ \A v \in Users : v # u => b[v] = buffer[v]
  BY <1>1, <1>3 DEF TypeOK
<1>5. b \in [Users -> Seq(Chats)]
  BY <1>1, <1>2, <1>3 DEF TypeOK
<1> HIDE DEF u, b
<1>6. /\ Len(b[u]) = Len(buffer[u]) + 1
      /\ Elements(b[u]) = Elements(buffer[u]) \cup {r}
  BY <1>2, <1>4
<1> QED
  BY <1>1, <1>4, <1>5, <1>6 DEF u, b

\* Type correctness is preserved by every step.
LEMMA TypeStep == BatchingInv /\ [Next]_vars => TypeOK'
<1> SUFFICES ASSUME TypeOK, TaskProgress, [Next]_vars PROVE TypeOK'
  BY DEF BatchingInv
<1>1. CASE UNCHANGED vars
  BY <1>1 DEF vars, processorVars, historyVars, outcomeVars, TypeOK
<1>2. CASE Restart
  <2>1. pc' \in [Requests -> Labels]
    <3>1. \A r \in Requests : pc'[r] \in Labels
      BY <1>2 DEF Restart, TypeOK, Labels, Finished
    <3>2. pc' = [r \in Requests |-> pc'[r]]
      BY <1>2 DEF Restart
    <3> QED
      BY <3>1, <3>2
  <2>2. /\ lock' \in [Users -> BOOLEAN] /\ known' \subseteq Users
        /\ oldRows' \in [Requests -> SUBSET Row]
    BY <1>2 DEF Restart
  <2>3. buffer' \in [Users -> Seq(Chats)] /\ batch' \in [Requests -> Seq(Chats)]
    <3>1. <<>> \in Seq(Chats)
      OBVIOUS
    <3> QED
      BY <3>1, <1>2 DEF Restart
  <2>4. created' \subseteq Row /\ earlier' \in [Row -> SUBSET Row]
    BY <1>2, DiscardType DEF Restart
  <2>5. stored' \subseteq created'
    BY <1>2 DEF Restart, Discard, TypeOK
  <2>6. dropped' \subseteq Chats
    <3>1. \A u \in Users : Elements(buffer[u]) \subseteq Chats
      BY ElementsOfSeq DEF TypeOK
    <3> QED
      BY <3>1, <1>2 DEF Restart, TypeOK
  <2>7. restarts' \in 0 .. MaxRestarts
    BY <1>2, RestartAssumption DEF Restart, TypeOK
  <2> QED
    BY <1>2, <2>1, <2>2, <2>3, <2>4, <2>5, <2>6, <2>7 DEF Restart, TypeOK
<1>3. ASSUME NEW r \in Requests, Deliver(r)
      PROVE  TypeOK'
  <2>1. created' \subseteq Row /\ earlier' \in [Row -> SUBSET Row]
        /\ created \subseteq created'
    BY <1>3, StampType, RowsOfTask DEF Deliver
  <2>2. pc' \in [Requests -> Labels]
    BY <1>3 DEF Deliver, TypeOK, Labels
  <2> QED
    BY <1>3, <2>1, <2>2 DEF Deliver, TypeOK, processorVars, outcomeVars
<1>4. ASSUME NEW r \in Requests, StoreMessage(r)
      PROVE  TypeOK'
  <2>1. pc' \in [Requests -> Labels]
    BY <1>4 DEF StoreMessage, TypeOK, Labels
  <2>2. stored' \subseteq created
    BY <1>4 DEF StoreMessage, TypeOK, TaskProgress, ProgressOf
  <2> QED
    BY <1>4, <2>1, <2>2 DEF StoreMessage, TypeOK, processorVars, outcomeVars
<1>5. ASSUME NEW r \in Requests, CreateMessageFails(r)
      PROVE  TypeOK'
  <2>1. pc' \in [Requests -> Labels]
    BY <1>5 DEF CreateMessageFails, TypeOK, Labels, Finished
  <2>2. created' \subseteq Row /\ earlier' \in [Row -> SUBSET Row]
    BY <1>5, DiscardType DEF CreateMessageFails
  <2>3. stored' \subseteq created'
    BY <1>5 DEF CreateMessageFails, Discard, TypeOK
  <2> QED
    BY <1>5, <2>1, <2>2, <2>3
    DEF CreateMessageFails, TypeOK, processorVars, outcomeVars
<1>6. ASSUME NEW r \in Requests, HandleCommand(r)
      PROVE  TypeOK'
  <2>1. pc' \in [Requests -> Labels]
    BY <1>6 DEF HandleCommand, TypeOK, Labels, Finished
  <2> QED
    BY <1>6, <2>1
    DEF HandleCommand, TypeOK, processorVars, historyVars, outcomeVars
<1>7. ASSUME NEW r \in Requests, GenerateResponse(r)
      PROVE  TypeOK'
  <2> DEFINE u == Sender[r]
  <2>1. /\ r \in Chats /\ u \in Users
        /\ buffer' = AddMessage(u, r)
        /\ known' = known \cup {u}
        /\ UNCHANGED <<historyVars, outcomeVars, delivered, restarts>>
    BY <1>7, SenderAssumption DEF GenerateResponse
  <2>2. buffer' \in [Users -> Seq(Chats)] /\ buffer'[u] \in Seq(Chats)
    BY <2>1, AddMessageFacts
  <2>3. /\ pc' \in [Requests -> Labels]
        /\ lock' \in [Users -> BOOLEAN]
        /\ batch' \in [Requests -> Seq(Chats)]
        /\ oldRows' \in [Requests -> SUBSET Row]
    <3>1. CASE IsLocked(u)
      BY <1>7, <3>1 DEF GenerateResponse, TypeOK, Labels
    <3>2. CASE ~IsLocked(u)
      BY <1>7, <2>1, <2>2, <3>2
      DEF GenerateResponse, LoopTop, TypeOK, Labels, InLoop
    <3> QED
      BY <3>1, <3>2
  <2> QED
    BY <2>1, <2>2, <2>3 DEF TypeOK, historyVars, outcomeVars
<1>8. ASSUME NEW r \in Requests, ReadHistory(r)
      PROVE  TypeOK'
  <2>1. CASE GiveUpLoop(r)
    BY <1>8, <2>1, LoopEndType DEF ReadHistory, InLoop
  <2>2. CASE ~GiveUpLoop(r)
    <3> DEFINE old == OldMessages(Sender[r], Len(batch[r]))
    <3>a. old \subseteq Row
      BY OldMessagesType
    <3>b. /\ pc' = [pc EXCEPT ![r] = "llm"]
          /\ oldRows' = [oldRows EXCEPT ![r] = old]
      BY <1>8, <2>2 DEF ReadHistory
    <3>1. /\ pc' \in [Requests -> Labels]
          /\ oldRows' \in [Requests -> SUBSET Row]
      <4> HIDE DEF old
      <4> QED
        BY <3>a, <3>b DEF TypeOK, Labels, InLoop
    <3>2. UNCHANGED <<processorVars, batch, historyVars, outcomeVars,
                      delivered, restarts>>
      BY <1>8, <2>2 DEF ReadHistory
    <3> QED
      BY <3>1, <3>2 DEF TypeOK, processorVars, historyVars, outcomeVars
  <2> QED
    BY <2>1, <2>2
<1>9. ASSUME NEW r \in Requests, InitialResponse(r)
      PROVE  TypeOK'
  <2>1. CASE Continue(r) \/ ReturnReply(r)
    BY <1>9, <2>1, LoopEndType DEF InitialResponse, InLoop
  <2>2. CASE ~(Continue(r) \/ ReturnReply(r))
    <3>1. /\ created' \subseteq Row /\ earlier' \in [Row -> SUBSET Row]
          /\ created \subseteq created'
      BY <1>9, <2>2, StampType, RowsOfTask DEF InitialResponse
    <3>2. pc' \in [Requests -> Labels]
      BY <1>9, <2>2 DEF InitialResponse, TypeOK, Labels, InLoop
    <3> QED
      BY <1>9, <2>2, <3>1, <3>2
      DEF InitialResponse, TypeOK, processorVars, outcomeVars
  <2> QED
    BY <2>1, <2>2
<1>10. ASSUME NEW r \in Requests, ProcessToolCalls(r)
       PROVE  TypeOK'
  <2>1. created' \subseteq Row /\ earlier' \in [Row -> SUBSET Row]
        /\ created \subseteq created'
    BY <1>10, StampType, RowsOfTask DEF ProcessToolCalls
  <2>2. pc' \in [Requests -> Labels] /\ delivered' \subseteq Text
    BY <1>10 DEF ProcessToolCalls, TypeOK, Labels, InLoop, Text
  <2> QED
    BY <1>10, <2>1, <2>2 DEF ProcessToolCalls, TypeOK, processorVars, outcomeVars
<1>11. ASSUME NEW r \in Requests, FinalResponse(r)
       PROVE  TypeOK'
  BY <1>11, LoopEndType DEF FinalResponse, InLoop
<1>12. ASSUME NEW r \in Requests, GiveUp(r)
       PROVE  TypeOK'
  BY <1>12, LoopEndType DEF GiveUp
<1>13. ASSUME NEW r \in Requests, SaveReplies(r)
       PROVE  TypeOK'
  <2>1. pc' \in [Requests -> Labels]
    BY <1>13 DEF SaveReplies, TypeOK, Labels, Finished
  <2>2. stored' \subseteq created
    BY <1>13 DEF SaveReplies, SavedRows, TypeOK
  <2> QED
    BY <1>13, <2>1, <2>2 DEF SaveReplies, TypeOK, processorVars, outcomeVars
<1>14. ASSUME NEW r \in Requests, SaveFails(r)
       PROVE  TypeOK'
  <2>1. pc' \in [Requests -> Labels]
    BY <1>14 DEF SaveFails, TypeOK, Labels, Finished
  <2>2. created' \subseteq Row /\ earlier' \in [Row -> SUBSET Row]
    BY <1>14, DiscardType DEF SaveFails
  <2>3. stored' \subseteq created'
    BY <1>14 DEF SaveFails, Discard, TypeOK, TaskProgress, ProgressOf
  <2> QED
    BY <1>14, <2>1, <2>2, <2>3 DEF SaveFails, TypeOK, processorVars, outcomeVars
<1>15. ASSUME NEW r \in Requests, SendMessage(r)
       PROVE  TypeOK'
  <2>1. pc' \in [Requests -> Labels] /\ delivered' \subseteq Text
    BY <1>15 DEF SendMessage, TextAt, TypeOK, Labels, Finished, Text
  <2> QED
    BY <1>15, <2>1
    DEF SendMessage, TypeOK, processorVars, historyVars, outcomeVars
<1> QED
  BY <1>1, <1>2, <1>3, <1>4, <1>5, <1>6, <1>7, <1>8, <1>9, <1>10, <1>11, <1>12,
     <1>13, <1>14, <1>15 DEF Next, Step

-----------------------------------------------------------------------------
(***************************************************************************)
(* Locks and buffers.  Most steps move one task along without touching a   *)
(* processor; the others are the arrival of a message and the three ways   *)
(* through the bottom of the loop.                                         *)
(***************************************************************************)
NotAccepted == {"idle", "storing", "stored", "rejected"}

QuietStep(r) ==
    /\ \E label \in Labels :
         /\ pc' = [pc EXCEPT ![r] = label]
         /\ label \in InLoop <=> pc[r] \in InLoop
         /\ r \in Chats => (label \in NotAccepted <=> pc[r] \in NotAccepted)
    /\ UNCHANGED <<lock, buffer, batch, answers, dropped>>

LoopStep(r) ==
    /\ pc[r] \in InLoop
    /\ \/ ReturnReply(r) /\ ~CheckNewMessages(Sender[r], Len(batch[r]))
       \/ Continue(r)
       \/ GiveUpLoop(r)

ProcessorInv ==
    SingleFlight /\ NothingStranded /\ BatchIsPrefix /\ BufferedByAuthor

\* Seen from the processors, a step is quiet, an arrival, the end or a new
\* round of a loop, or a restart.
LEMMA StepKinds ==
    ASSUME TypeOK, [Next]_vars
    PROVE  \/ UNCHANGED vars
           \/ Restart
           \/ \E r \in Requests :
                QuietStep(r) \/ GenerateResponse(r) \/ LoopStep(r)
<1> USE DEF Labels, InLoop, Finished, NotAccepted
<1>1. ASSUME NEW r \in Requests, Deliver(r)
      PROVE  QuietStep(r)
  BY <1>1 DEF Deliver, QuietStep, processorVars, outcomeVars
<1>2. ASSUME NEW r \in Requests, StoreMessage(r)
      PROVE  QuietStep(r)
  BY <1>2 DEF StoreMessage, QuietStep, processorVars, outcomeVars
<1>3. ASSUME NEW r \in Requests, CreateMessageFails(r)
      PROVE  QuietStep(r)
  BY <1>3 DEF CreateMessageFails, QuietStep, processorVars, outcomeVars
<1>4. ASSUME NEW r \in Requests, HandleCommand(r)
      PROVE  QuietStep(r)
  BY <1>4 DEF HandleCommand, QuietStep, processorVars, outcomeVars
<1>5. ASSUME NEW r \in Requests, ReadHistory(r)
      PROVE  QuietStep(r) \/ LoopStep(r)
  <2>1. CASE GiveUpLoop(r)
    BY <1>5, <2>1 DEF ReadHistory, LoopStep
  <2>2. CASE ~GiveUpLoop(r)
    BY <1>5, <2>2 DEF ReadHistory, QuietStep, processorVars, outcomeVars
  <2> QED
    BY <2>1, <2>2
<1>6. ASSUME NEW r \in Requests, InitialResponse(r)
      PROVE  QuietStep(r) \/ LoopStep(r)
  <2>1. CASE Continue(r) \/ ReturnReply(r)
    BY <1>6, <2>1 DEF InitialResponse, LoopStep
  <2>2. CASE ~(Continue(r) \/ ReturnReply(r))
    BY <1>6, <2>2 DEF InitialResponse, QuietStep, processorVars, outcomeVars
  <2> QED
    BY <2>1, <2>2
<1>7. ASSUME NEW r \in Requests, ProcessToolCalls(r)
      PROVE  QuietStep(r)
  BY <1>7 DEF ProcessToolCalls, QuietStep, processorVars, outcomeVars
<1>8. ASSUME NEW r \in Requests, FinalResponse(r)
      PROVE  LoopStep(r)
  BY <1>8 DEF FinalResponse, LoopStep
<1>9. ASSUME NEW r \in Requests, GiveUp(r)
      PROVE  LoopStep(r)
  BY <1>9 DEF GiveUp, LoopStep
<1>10. ASSUME NEW r \in Requests, SaveReplies(r)
       PROVE  QuietStep(r)
  BY <1>10 DEF SaveReplies, QuietStep, processorVars, outcomeVars
<1>11. ASSUME NEW r \in Requests, SaveFails(r)
       PROVE  QuietStep(r)
  BY <1>11 DEF SaveFails, QuietStep, processorVars, outcomeVars
<1>12. ASSUME NEW r \in Requests, SendMessage(r)
       PROVE  QuietStep(r)
  BY <1>12 DEF SendMessage, TextAt, QuietStep, processorVars, outcomeVars
<1> QED
  BY <1>1, <1>2, <1>3, <1>4, <1>5, <1>6, <1>7, <1>8, <1>9, <1>10, <1>11, <1>12
  DEF Next, Step

\* A quiet step neither enters nor leaves the loop.
LEMMA QuietProcessor ==
    ASSUME TypeOK, ProcessorInv, NEW r \in Requests, QuietStep(r)
    PROVE  ProcessorInv'
<1>1. UNCHANGED <<lock, buffer, batch>>
  BY DEF QuietStep
<1>2. \A q \in Requests : pc'[q] \in InLoop <=> pc[q] \in InLoop
  BY DEF QuietStep, TypeOK
<1>3. SingleFlight'
  BY <1>1, <1>2 DEF ProcessorInv, SingleFlight
<1>4. NothingStranded'
  BY <1>1 DEF ProcessorInv, NothingStranded
<1>5. BatchIsPrefix'
  BY <1>1, <1>2 DEF ProcessorInv, BatchIsPrefix
<1>6. BufferedByAuthor'
  BY <1>1 DEF ProcessorInv, BufferedByAuthor
<1> QED
  BY <1>3, <1>4, <1>5, <1>6 DEF ProcessorInv

\* A task leaves the loop: its user's lock is free and the buffer empty.
LEMMA ExitProcessor ==
    ASSUME TypeOK, ProcessorInv, NEW r \in Requests, pc[r] \in InLoop,
           NEW label \in Labels \ InLoop, LeaveLoop(r, label)
    PROVE  ProcessorInv'
<1> DEFINE u == Sender[r]
<1>1. u \in Users
  BY SenderAssumption
<1>2. /\ lock' = [lock EXCEPT ![u] = FALSE]
      /\ buffer' = [buffer EXCEPT ![u] = <<>>]
      /\ batch' = [batch EXCEPT ![r] = <<>>]
      /\ pc' = [pc EXCEPT ![r] = label]
  BY DEF LeaveLoop, ClearMessages
<1>3. /\ \A v \in Users : lock'[v] = IF v = u THEN FALSE ELSE lock[v]
      /\ \A v \in Users : buffer'[v] = IF v = u THEN <<>> ELSE buffer[v]
      /\ \A q \in Requests : q # r => pc'[q] = pc[q] /\ batch'[q] = batch[q]
      /\ pc'[r] \notin InLoop
  BY <1>1, <1>2 DEF TypeOK
<1>4. \A q \in Requests : pc'[q] \in InLoop => q # r /\ Sender[q] # u
  BY <1>3 DEF ProcessorInv, SingleFlight
<1> HIDE DEF u
<1>5. SingleFlight'
  <2>1. ASSUME NEW v \in Users
        PROVE  lock'[v] <=> \E q \in Requests : Sender[q] = v /\ pc'[q] \in InLoop
    <3>1. CASE v = u
      BY <3>1, <1>3, <1>4
    <3>2. CASE v # u
      <4>1. lock'[v] = lock[v]
        BY <3>2, <1>3
      <4>2. \A q \in Requests :
              Sender[q] = v => (pc'[q] \in InLoop <=> pc[q] \in InLoop)
        BY <3>2, <1>3 DEF u
      <4>3. lock[v] <=> \E q \in Requests : Sender[q] = v /\ pc[q] \in InLoop
        BY DEF ProcessorInv, SingleFlight
      <4> QED
        BY <4>1, <4>2, <4>3
    <3> QED
      BY <3>1, <3>2
  <2>2. \A q1, q2 \in Requests :
          pc'[q1] \in InLoop /\ pc'[q2] \in InLoop /\ Sender[q1] = Sender[q2]
            => q1 = q2
    BY <1>3, <1>4 DEF ProcessorInv, SingleFlight
  <2> QED
    BY <2>1, <2>2 DEF SingleFlight
<1>6. NothingStranded'
  BY <1>3 DEF ProcessorInv, NothingStranded
<1>7. BatchIsPrefix'
  <2> SUFFICES ASSUME NEW q \in Requests, pc'[q] \in InLoop
               PROVE  /\ Len(batch'[q]) \in 1 .. Len(buffer'[Sender[q]])
                      /\ \A i \in 1 .. Len(batch'[q]) :
                           batch'[q][i] = buffer'[Sender[q]][i]
    BY DEF BatchIsPrefix
  <2>1. /\ q # r /\ pc[q] \in InLoop /\ Sender[q] \in Users
        /\ batch'[q] = batch[q] /\ buffer'[Sender[q]] = buffer[Sender[q]]
    BY <1>3, <1>4, SenderAssumption
  <2> QED
    BY <2>1 DEF ProcessorInv, BatchIsPrefix
<1>8. BufferedByAuthor'
  BY <1>3, ElementsOfSeq DEF ProcessorInv, BufferedByAuthor
<1> QED
  BY <1>5, <1>6, <1>7, <1>8 DEF ProcessorInv

\* A message arrives: it is buffered behind a running generation, or starts
\* one with a buffer that was empty.
LEMMA ArrivalProcessor ==
    ASSUME TypeOK, ProcessorInv, NEW r \in Requests, GenerateResponse(r)
    PROVE  ProcessorInv'
<1> DEFINE u == Sender[r]
<1>1. /\ u \in Users /\ r \in Chats /\ pc[r] = "stored"
      /\ buffer' = AddMessage(u, r)
      /\ pc[r] \notin InLoop
  BY SenderAssumption DEF GenerateResponse, InLoop
<1>2. /\ buffer[u] \in Seq(Chats)
      /\ buffer'[u] = Append(buffer[u], r)
      /\ buffer'[u] \in Seq(Chats)
      /\ Len(buffer'[u]) = Len(buffer[u]) + 1
      /\ Elements(buffer'[u]) = Elements(buffer[u]) \cup {r}
      /\ \A v \in Users : v # u => buffer'[v] = buffer[v]
  BY <1>1, AddMessageFacts DEF TypeOK
<1>3. BufferedByAuthor'
  <2>1. ASSUME NEW v \in Users, NEW m \in Elements(buffer'[v])
        PROVE  Sender[m] = v
    <3>1. CASE v = u
      BY <3>1, <2>1, <1>2 DEF ProcessorInv, BufferedByAuthor
    <3>2. CASE v # u
      BY <3>2, <2>1, <1>2 DEF ProcessorInv, BufferedByAuthor
    <3> QED
      BY <3>1, <3>2
  <2> QED
    BY <2>1 DEF BufferedByAuthor
<1> HIDE DEF u
<1>4. CASE IsLocked(u)
  <2>1. /\ lock[u] /\ UNCHANGED <<lock, batch>>
        /\ pc' = [pc EXCEPT ![r] = "apologising"]
    BY <1>4 DEF GenerateResponse, IsLocked, u
  <2>2. \A q \in Requests : pc'[q] \in InLoop <=> pc[q] \in InLoop
    BY <2>1, <1>1 DEF TypeOK, InLoop
  <2>3. SingleFlight'
    BY <2>1, <2>2 DEF ProcessorInv, SingleFlight
  <2>4. NothingStranded'
    BY <2>1, <1>2 DEF ProcessorInv, NothingStranded
  <2>5. BatchIsPrefix'
    <3> SUFFICES ASSUME NEW q \in Requests, pc[q] \in InLoop
                 PROVE  /\ Len(batch[q]) \in 1 .. Len(buffer'[Sender[q]])
                        /\ \A i \in 1 .. Len(batch[q]) :
                             batch[q][i] = buffer'[Sender[q]][i]
      BY <2>1, <2>2 DEF BatchIsPrefix
    <3>1. /\ Len(batch[q]) \in 1 .. Len(buffer[Sender[q]])
          /\ \A i \in 1 .. Len(batch[q]) : batch[q][i] = buffer[Sender[q]][i]
      BY DEF ProcessorInv, BatchIsPrefix
    <3>2. CASE Sender[q] = u
      <4>1. \A i \in 1 .. Len(buffer[u]) : buffer'[u][i] = buffer[u][i]
        BY <1>2
      <4>2. Len(buffer[u]) \in Nat /\ Len(buffer'[u]) = Len(buffer[u]) + 1
        BY <1>2
      <4> QED
        BY <3>1, <3>2, <4>1, <4>2
    <3>3. CASE Sender[q] # u
      BY <3>1, <3>3, <1>2, SenderAssumption
    <3> QED
      BY <3>2, <3>3
  <2> QED
    BY <1>3, <2>3, <2>4, <2>5 DEF ProcessorInv
<1>5. CASE ~IsLocked(u)
  <2>1. /\ ~lock[u]
        /\ lock' = [lock EXCEPT ![u] = TRUE]
        /\ pc' = [pc EXCEPT ![r] = "history"]
        /\ batch' = [batch EXCEPT ![r] = buffer'[u]]
    BY <1>5 DEF GenerateResponse, LoopTop, IsLocked, u
  <2>2. /\ \A v \in Users : lock'[v] = IF v = u THEN TRUE ELSE lock[v]
        /\ \A q \in Requests : q # r => pc'[q] = pc[q] /\ batch'[q] = batch[q]
        /\ pc'[r] \in InLoop /\ batch'[r] = buffer'[u]
    BY <2>1, <1>1 DEF TypeOK, InLoop
  <2>3. \A q \in Requests : pc'[q] \in InLoop /\ q # r => Sender[q] # u
    BY <2>1, <2>2, <1>1 DEF ProcessorInv, SingleFlight
  <2>4. SingleFlight'
    <3>1. ASSUME NEW v \in Users
          PROVE  lock'[v] <=> \E q \in Requests :
                                Sender[q] = v /\ pc'[q] \in InLoop
      <4>1. CASE v = u
        BY <4>1, <2>2 DEF u
      <4>2. CASE v # u
        BY <4>2, <2>2, <1>1 DEF ProcessorInv, SingleFlight, u
      <4> QED
        BY <4>1, <4>2
    <3>2. \A q1, q2 \in Requests :
            pc'[q1] \in InLoop /\ pc'[q2] \in InLoop /\ Sender[q1] = Sender[q2]
              => q1 = q2
      BY <2>2, <2>3 DEF ProcessorInv, SingleFlight, u
    <3> QED
      BY <3>1, <3>2 DEF SingleFlight
  <2>5. NothingStranded'
    BY <2>2, <1>2 DEF ProcessorInv, NothingStranded
  <2>6. BatchIsPrefix'
    <3> SUFFICES ASSUME NEW q \in Requests, pc'[q] \in InLoop
                 PROVE  /\ Len(batch'[q]) \in 1 .. Len(buffer'[Sender[q]])
                        /\ \A i \in 1 .. Len(batch'[q]) :
                             batch'[q][i] = buffer'[Sender[q]][i]
      BY DEF BatchIsPrefix
    <3>1. CASE q = r
      <4>1. Len(buffer[u]) \in Nat /\ Len(buffer'[u]) = Len(buffer[u]) + 1
        BY <1>2
      <4> QED
        BY <3>1, <4>1, <2>2 DEF u
    <3>2. CASE q # r
      BY <3>2, <2>2, <2>3, <1>2, SenderAssumption
      DEF ProcessorInv, BatchIsPrefix
    <3> QED
      BY <3>1, <3>2
  <2> QED
    BY <1>3, <2>4, <2>5, <2>6 DEF ProcessorInv
<1> QED
  BY <1>4, <1>5

\* The locking discipline is preserved by every step.
LEMMA ProcessorStep ==
    ASSUME TypeOK, TypeOK', ProcessorInv, [Next]_vars
    PROVE  ProcessorInv'
<1>1. CASE UNCHANGED vars
  BY <1>1 DEF vars, processorVars, ProcessorInv, SingleFlight, NothingStranded,
              BatchIsPrefix, BufferedByAuthor
<1>2. CASE Restart
  <2>1. /\ \A u \in Users : ~lock'[u] /\ buffer'[u] = <<>>
        /\ \A q \in Requests : pc'[q] \notin InLoop
    BY <1>2 DEF Restart, InLoop, Finished
  <2>2. \A u \in Users : Elements(buffer'[u]) = {}
    BY <2>1, ElementsOfSeq
  <2> QED
    BY <2>1, <2>2 DEF ProcessorInv, SingleFlight, NothingStranded,
                      BatchIsPrefix, BufferedByAuthor
<1>3. ASSUME NEW r \in Requests, LoopStep(r)
      PROVE  ProcessorInv'
  <2>1. CASE ReturnReply(r)
    BY <1>3, <2>1, ExitProcessor DEF LoopStep, ReturnReply, Labels, InLoop
  <2>2. CASE GiveUpLoop(r)
    BY <1>3, <2>2, ExitProcessor DEF LoopStep, GiveUpLoop, Labels, InLoop
  <2>3. CASE Continue(r)
    <3> DEFINE u == Sender[r]
    <3>1. /\ pc[r] \in InLoop /\ u \in Users
          /\ pc' = [pc EXCEPT ![r] = "history"]
          /\ batch' = [batch EXCEPT ![r] = buffer[u]]
          /\ UNCHANGED <<lock, buffer>>
      BY <1>3, <2>3, SenderAssumption
      DEF LoopStep, Continue, LoopTop, processorVars
    <3>2. /\ \A q \in Requests : pc'[q] \in InLoop <=> pc[q] \in InLoop
          /\ \A q \in Requests : q # r => batch'[q] = batch[q]
          /\ batch'[r] = buffer[u]
      BY <3>1 DEF TypeOK, InLoop
    <3>3. SingleFlight' /\ NothingStranded' /\ BufferedByAuthor'
      BY <3>1, <3>2
      DEF ProcessorInv, SingleFlight, NothingStranded, BufferedByAuthor
    <3>4. BatchIsPrefix'
      <4>1. Len(buffer[u]) \in Nat /\ Len(buffer[u]) >= 1
        BY <3>1 DEF TypeOK, ProcessorInv, BatchIsPrefix
      <4>2. ASSUME NEW q \in Requests, pc'[q] \in InLoop
            PROVE  /\ Len(batch'[q]) \in 1 .. Len(buffer'[Sender[q]])
                   /\ \A i \in 1 .. Len(batch'[q]) :
                        batch'[q][i] = buffer'[Sender[q]][i]
        <5>1. CASE q = r
          BY <5>1, <3>1, <3>2, <4>1
        <5>2. CASE q # r
          BY <5>2, <4>2, <3>1, <3>2 DEF ProcessorInv, BatchIsPrefix
        <5> QED
          BY <5>1, <5>2
      <4> QED
        BY <4>2 DEF BatchIsPrefix
    <3> QED
      BY <3>3, <3>4 DEF ProcessorInv
  <2> QED
    BY <1>3, <2>1, <2>2, <2>3 DEF LoopStep
<1> QED
  BY <1>1, <1>2, <1>3, StepKinds, QuietProcessor, ArrivalProcessor

-----------------------------------------------------------------------------
(***************************************************************************)
(* What becomes of the messages: the effect of every kind of step on the   *)
(* sets that are pending, answered and dropped.                            *)
(***************************************************************************)
PendingBy(u) == {m \in Buffered : Sender[m] = u}

\* What one user has pending is what is in their buffer.
LEMMA PendingInBuffer ==
    ASSUME TypeOK, BufferedByAuthor, NEW u \in Users
    PROVE  PendingBy(u) = Elements(buffer[u])
BY DEF PendingBy, Buffered, BufferedByAuthor

\* What waits in a buffer and what was answered is free text.
LEMMA BufferedAreChats ==
    ASSUME TypeOK
    PROVE  Buffered \subseteq Chats /\ Answered \subseteq Chats
<1>1. \A u \in Users : Elements(buffer[u]) \subseteq Chats
  BY ElementsOfSeq DEF TypeOK
<1> QED
  BY <1>1 DEF Buffered, Answered, TypeOK

\* A quiet step changes nothing of what was accepted, buffered or answered.
LEMMA QuietOutcome ==
    ASSUME TypeOK, NEW r \in Requests, QuietStep(r)
    PROVE  UNCHANGED <<Accepted, Buffered, Answered, dropped, answers>>
<1>1. UNCHANGED <<buffer, answers, dropped>>
  BY DEF QuietStep
<1>2. \A m \in Chats : pc'[m] \in NotAccepted <=> pc[m] \in NotAccepted
  BY ChatsAssumption DEF QuietStep, TypeOK
<1> QED
  BY <1>1, <1>2 DEF Accepted, Buffered, Answered, NotAccepted

\* An arrival adds its own message to those accepted and buffered, no other.
LEMMA ArrivalOutcome ==
    ASSUME TypeOK, NEW r \in Requests, GenerateResponse(r)
    PROVE  /\ r \in Chats /\ r \notin Accepted
           /\ Accepted' = Accepted \cup {r}
           /\ Buffered' = Buffered \cup {r}
           /\ UNCHANGED <<Answered, dropped, answers>>
<1> DEFINE u == Sender[r]
<1>1. /\ u \in Users /\ r \in Chats /\ pc[r] = "stored"
      /\ buffer' = AddMessage(u, r)
      /\ UNCHANGED <<answers, dropped>>
  BY SenderAssumption DEF GenerateResponse, outcomeVars
<1>2. /\ Elements(buffer'[u]) = Elements(buffer[u]) \cup {r}
      /\ \A v \in Users : v # u => buffer'[v] = buffer[v]
  BY <1>1, AddMessageFacts
<1>3. \E label \in {"apologising", "history"} : pc' = [pc EXCEPT ![r] = label]
  BY DEF GenerateResponse, LoopTop
<1>4. Accepted' = Accepted \cup {r} /\ r \notin Accepted
  BY <1>1, <1>3, ChatsAssumption DEF TypeOK, Accepted
<1> HIDE DEF u
<1>5. Buffered' = Buffered \cup {r}
  <2>1. ASSUME NEW m \in Buffered' PROVE m \in Buffered \cup {r}
    <3>1. PICK v \in Users : m \in Elements(buffer'[v])
      BY <2>1 DEF Buffered
    <3> QED
      BY <3>1, <1>1, <1>2 DEF Buffered
  <2>2. ASSUME NEW m \in Buffered PROVE m \in Buffered'
    <3>1. PICK v \in Users : m \in Elements(buffer[v])
      BY <2>2 DEF Buffered
    <3> QED
      BY <3>1, <1>1, <1>2 DEF Buffered
  <2>3. r \in Buffered'
    BY <1>1, <1>2 DEF Buffered
  <2> QED
    BY <2>1, <2>2, <2>3
<1> QED
  BY <1>1, <1>4, <1>5 DEF Answered

\* Leaving the loop empties one buffer and accepts nothing.
LEMMA ExitOutcome ==
    ASSUME TypeOK, BufferedByAuthor, NEW r \in Requests, pc[r] \in InLoop,
           NEW label \in Labels \ NotAccepted, LeaveLoop(r, label)
    PROVE  /\ Accepted' = Accepted
           /\ Buffered' = Buffered \ PendingBy(Sender[r])
<1> DEFINE u == Sender[r]
<1>1. /\ u \in Users
      /\ buffer' = [buffer EXCEPT ![u] = <<>>]
      /\ pc' = [pc EXCEPT ![r] = label]
  BY SenderAssumption DEF LeaveLoop, ClearMessages
<1>2. \A v \in Users : buffer'[v] = IF v = u THEN <<>> ELSE buffer[v]
  BY <1>1 DEF TypeOK
<1>3. Accepted' = Accepted
  BY <1>1, ChatsAssumption DEF TypeOK, Accepted, NotAccepted, InLoop
<1> HIDE DEF u
<1>4. Elements(buffer'[u]) = {}
  BY <1>1, <1>2, ElementsOfSeq
<1>5. ASSUME NEW m \in Buffered' PROVE m \in Buffered /\ Sender[m] # u
  <2>1. PICK v \in Users : m \in Elements(buffer'[v])
    BY <1>5 DEF Buffered
  <2> QED
    BY <2>1, <1>2, <1>4 DEF Buffered, BufferedByAuthor
<1>6. ASSUME NEW m \in Buffered, Sender[m] # u PROVE m \in Buffered'
  <2>1. PICK v \in Users : m \in Elements(buffer[v])
    BY <1>6 DEF Buffered
  <2> QED
    BY <2>1, <1>2, <1>6 DEF Buffered, BufferedByAuthor
<1> QED
  BY <1>3, <1>5, <1>6 DEF PendingBy, u

\* A reply covers all its user has pending, although it was made for the
\* batch: the count check has just found the two equal.
LEMMA ReplyOutcome ==
    ASSUME TypeOK, ProcessorInv, TaskProgress, NEW r \in Requests,
           pc[r] \in InLoop, ReturnReply(r),
           ~CheckNewMessages(Sender[r], Len(batch[r]))
    PROVE  LET P == PendingBy(Sender[r]) IN
           /\ P # {}
           /\ Accepted' = Accepted
           /\ Buffered' = Buffered \ P
           /\ Answered' = Answered \cup P
           /\ answers[r] = {} /\ answers' = [answers EXCEPT ![r] = P]
           /\ dropped' = dropped
<1> DEFINE u == Sender[r]
           P == PendingBy(u)
<1>1. /\ u \in Users /\ BufferedByAuthor
      /\ batch[r] \in Seq(Chats) /\ buffer[u] \in Seq(Chats)
  BY SenderAssumption DEF TypeOK, ProcessorInv
<1>2. /\ Len(batch[r]) \in 1 .. Len(buffer[u])
      /\ \A i \in 1 .. Len(batch[r]) : batch[r][i] = buffer[u][i]
      /\ ~(Len(buffer[u]) > Len(batch[r]))
  BY DEF ProcessorInv, BatchIsPrefix, CheckNewMessages
<1>3. Elements(batch[r]) = Elements(buffer[u])
  BY <1>1, <1>2, WholePrefix
<1>4. P = Elements(batch[r])
  BY <1>1, <1>3, PendingInBuffer
<1>5. P # {}
  <2>1. Len(batch[r]) # 0
    BY <1>1, <1>2
  <2> QED
    BY <2>1, <1>1, <1>4, ElementsOfSeq
<1>6. Accepted' = Accepted /\ Buffered' = Buffered \ P
  BY <1>1, ExitOutcome DEF ReturnReply, Labels, NotAccepted
<1>7. /\ answers' = [answers EXCEPT ![r] = P]
      /\ dropped' = dropped
  BY <1>4 DEF ReturnReply
<1>8. answers[r] = {}
  BY DEF TaskProgress, ProgressOf, InLoop
<1> HIDE DEF P
<1>9. Answered' = Answered \cup P
  <2>1. \A q \in Requests : answers'[q] = IF q = r THEN P ELSE answers[q]
    BY <1>7 DEF TypeOK
  <2> QED
    BY <2>1, <1>8 DEF Answered
<1> QED
  BY <1>5, <1>6, <1>7, <1>8, <1>9 DEF P

\* Giving up drops all the user has pending, and answers nothing.
LEMMA GiveUpOutcome ==
    ASSUME TypeOK, ProcessorInv, NEW r \in Requests,
           pc[r] \in InLoop, GiveUpLoop(r)
    PROVE  LET P == PendingBy(Sender[r]) IN
           /\ P # {}
           /\ Accepted' = Accepted
           /\ Buffered' = Buffered \ P
           /\ dropped' = dropped \cup P
           /\ UNCHANGED <<Answered, answers>>
<1> DEFINE u == Sender[r]
           P == PendingBy(u)
<1>1. /\ u \in Users /\ BufferedByAuthor /\ buffer[u] \in Seq(Chats)
  BY SenderAssumption DEF TypeOK, ProcessorInv
<1>2. P = Elements(buffer[u])
  BY <1>1, PendingInBuffer
<1>3. P # {}
  <2>1. Len(buffer[u]) # 0
    BY <1>1 DEF ProcessorInv, BatchIsPrefix
  <2> QED
    BY <2>1, <1>1, <1>2, ElementsOfSeq
<1>4. Accepted' = Accepted /\ Buffered' = Buffered \ P
  BY <1>1, ExitOutcome DEF GiveUpLoop, Labels, NotAccepted
<1>5. dropped' = dropped \cup P /\ UNCHANGED answers
  BY <1>2 DEF GiveUpLoop
<1> QED
  BY <1>3, <1>4, <1>5 DEF Answered

\* A restart drops every buffered message and answers nothing.
LEMMA RestartOutcome ==
    ASSUME TypeOK, Restart
    PROVE  /\ Accepted' = Accepted
           /\ Buffered' = {}
           /\ dropped' = dropped \cup Buffered
           /\ UNCHANGED <<Answered, answers>>
<1>1. \A m \in Chats : pc'[m] \in NotAccepted <=> pc[m] \in NotAccepted
  BY ChatsAssumption DEF Restart, TypeOK, NotAccepted, Labels, InLoop, Finished
<1>2. Accepted' = Accepted
  BY <1>1 DEF Accepted, NotAccepted
<1>3. \A u \in Users : Elements(buffer'[u]) = {}
  BY ElementsOfSeq DEF Restart
<1> QED
  BY <1>2, <1>3 DEF Restart, Buffered, Answered

\* A new round of the loop changes nothing of what is buffered or answered.
LEMMA ContinueOutcome ==
    ASSUME TypeOK, NEW r \in Requests, pc[r] \in InLoop, Continue(r)
    PROVE  UNCHANGED <<Accepted, Buffered, Answered, dropped, answers>>
<1>1. UNCHANGED <<buffer, answers, dropped>>
  BY DEF Continue, processorVars, outcomeVars
<1>2. pc' = [pc EXCEPT ![r] = "history"]
  BY DEF Continue, LoopTop
<1>3. Accepted' = Accepted
  BY <1>2, ChatsAssumption DEF TypeOK, Accepted, InLoop
<1> QED
  BY <1>1, <1>3 DEF Buffered, Answered

\* Every accepted message stays accounted for.
LEMMA AccountStep ==
    ASSUME TypeOK, ProcessorInv, TaskProgress, EveryMessageAccounted,
           [Next]_vars
    PROVE  EveryMessageAccounted'
<1> USE DEF EveryMessageAccounted
<1>1. CASE UNCHANGED vars
  BY <1>1 DEF vars, processorVars, outcomeVars, Accepted, Buffered, Answered
<1>2. CASE Restart
  BY <1>2, RestartOutcome
<1>3. ASSUME NEW r \in Requests, QuietStep(r)
      PROVE  EveryMessageAccounted'
  BY <1>3, QuietOutcome
<1>4. ASSUME NEW r \in Requests, GenerateResponse(r)
      PROVE  EveryMessageAccounted'
  BY <1>4, ArrivalOutcome
<1>5. ASSUME NEW r \in Requests, LoopStep(r)
      PROVE  EveryMessageAccounted'
  <2> DEFINE P == PendingBy(Sender[r])
  <2>1. P \subseteq Buffered
    BY DEF PendingBy
  <2>2. CASE Continue(r)
    BY <1>5, <2>2, ContinueOutcome DEF LoopStep
  <2>3. CASE GiveUpLoop(r)
    <3>1. /\ Accepted' = Accepted /\ Buffered' = Buffered \ P
          /\ dropped' = dropped \cup P /\ UNCHANGED <<Answered, answers>>
      BY <1>5, <2>3, GiveUpOutcome DEF LoopStep
    <3> HIDE DEF P
    <3> QED
      BY <2>1, <3>1
  <2>4. CASE ReturnReply(r) /\ ~CheckNewMessages(Sender[r], Len(batch[r]))
    <3>1. /\ Accepted' = Accepted /\ Buffered' = Buffered \ P
          /\ Answered' = Answered \cup P /\ dropped' = dropped
          /\ answers' = [answers EXCEPT ![r] = P]
      BY <1>5, <2>4, ReplyOutcome DEF LoopStep
    <3> HIDE DEF P
    <3>2. \A q \in Requests : answers'[q] = IF q = r THEN P ELSE answers[q]
      BY <3>1 DEF TypeOK
    <3>3. \A q \in Requests : answers[q] \cap P = {}
      BY <2>1 DEF Answered
    <3> QED
      BY <2>1, <3>1, <3>2, <3>3
  <2> QED
    BY <1>5, <2>2, <2>3, <2>4 DEF LoopStep
<1> QED
  BY <1>1, <1>2, <1>3, <1>4, <1>5, StepKinds

-----------------------------------------------------------------------------
(***************************************************************************)
(* The messages table.  A step of a task only creates, discards or commits *)
(* rows of that task, and committed rows are never lost.                   *)
(***************************************************************************)
RowsBy(r) == GeneratedRows(r) \cup {UserRow(r)}

OwnRows(r) ==
    /\ created' \ RowsBy(r) = created \ RowsBy(r)
    /\ stored' \ RowsBy(r) = stored \ RowsBy(r)
    /\ stored \subseteq stored'
    /\ \E label \in Labels : pc' = [pc EXCEPT ![r] = label]
    /\ \E A \in SUBSET Chats : answers' = [answers EXCEPT ![r] = A]

\* No row belongs to two tasks.
LEMMA RowsByOneTask ==
    ASSUME NEW r \in Requests, NEW q \in Requests, q # r
    PROVE  RowsBy(q) \cap RowsBy(r) = {}
BY DEF RowsBy, UserRow, GeneratedRows

\* The ends of the loop create and discard only rows of their own task.
LEMMA LoopRows ==
    ASSUME TypeOK, NEW r \in Requests, pc[r] \in InLoop,
           ReturnReply(r) \/ Continue(r) \/ GiveUpLoop(r)
    PROVE  OwnRows(r) /\ stored' = stored
<1> USE DEF OwnRows, Labels, InLoop
<1>1. CASE ReturnReply(r)
  <2>1. /\ created' = created \cup {[kind |-> "reply", of |-> r]}
        /\ stored' = stored
        /\ pc' = [pc EXCEPT ![r] = "saving"]
        /\ answers' = [answers EXCEPT ![r] = Elements(batch[r])]
    BY <1>1 DEF ReturnReply, LeaveLoop, Stamp
  <2>2. Elements(batch[r]) \subseteq Chats
    BY ElementsOfSeq DEF TypeOK
  <2>3. [kind |-> "reply", of |-> r] \in RowsBy(r)
    BY RowsOfTask DEF RowsBy
  <2> QED
    BY <2>1, <2>2, <2>3
<1>2. CASE Continue(r)
  <2>1. /\ created' = created \ GeneratedRows(r)
        /\ stored' = stored
        /\ pc' = [pc EXCEPT ![r] = "history"]
        /\ answers' = [answers EXCEPT ![r] = answers[r]]
    BY <1>2 DEF Continue, LoopTop, Discard, outcomeVars, TypeOK
  <2> QED
    BY <2>1 DEF RowsBy, TypeOK
<1>3. CASE GiveUpLoop(r)
  <2>1. /\ created' = created \ GeneratedRows(r)
        /\ stored' = stored
        /\ pc' = [pc EXCEPT ![r] = "apologising"]
        /\ answers' = [answers EXCEPT ![r] = answers[r]]
    BY <1>3 DEF GiveUpLoop, LeaveLoop, Discard, TypeOK
  <2> QED
    BY <2>1 DEF RowsBy, TypeOK
<1> QED
  BY <1>1, <1>2, <1>3

\* A step of a task creates, discards and commits only rows of that task.
LEMMA StepRows ==
    ASSUME TypeOK, NEW r \in Requests, Deliver(r) \/ Step(r)
    PROVE  OwnRows(r)
<1> USE DEF Labels, InLoop, Finished
<1>a. answers = [answers EXCEPT ![r] = answers[r]] /\ answers[r] \in SUBSET Chats
  BY DEF TypeOK
<1>b. UserRow(r) \in RowsBy(r) /\ GeneratedRows(r) \subseteq RowsBy(r)
  BY DEF RowsBy
<1>c. \A k \in {"reply", "call", "tool"} : [kind |-> k, of |-> r] \in RowsBy(r)
  BY RowsOfTask DEF RowsBy
<1>1. CASE Deliver(r)
  BY <1>1, <1>a, <1>b DEF Deliver, Stamp, OwnRows, outcomeVars
<1>2. CASE StoreMessage(r)
  BY <1>2, <1>a, <1>b DEF StoreMessage, OwnRows, outcomeVars
<1>3. CASE CreateMessageFails(r)
  BY <1>3, <1>a, <1>b DEF CreateMessageFails, Discard, OwnRows, outcomeVars
<1>4. CASE HandleCommand(r)
  BY <1>4, <1>a DEF HandleCommand, OwnRows, historyVars, outcomeVars
<1>5. CASE GenerateResponse(r)
  BY <1>5, <1>a DEF GenerateResponse, LoopTop, OwnRows, historyVars, outcomeVars
<1>6. CASE ReadHistory(r)
  <2>1. CASE GiveUpLoop(r)
    BY <1>6, <2>1, LoopRows DEF ReadHistory
  <2>2. CASE ~GiveUpLoop(r)
    <3>1. pc' = [pc EXCEPT ![r] = "llm"] /\ UNCHANGED <<historyVars, outcomeVars>>
      BY <1>6, <2>2 DEF ReadHistory
    <3> QED
      BY <3>1, <1>a DEF OwnRows, historyVars, outcomeVars
  <2> QED
    BY <2>1, <2>2
<1>7. CASE InitialResponse(r)
  <2>1. CASE Continue(r) \/ ReturnReply(r)
    BY <1>7, <2>1, LoopRows DEF InitialResponse
  <2>2. CASE ~(Continue(r) \/ ReturnReply(r))
    BY <1>7, <2>2, <1>a, <1>c DEF InitialResponse, Stamp, OwnRows, outcomeVars
  <2> QED
    BY <2>1, <2>2
<1>8. CASE ProcessToolCalls(r)
  BY <1>8, <1>a, <1>c DEF ProcessToolCalls, Stamp, OwnRows, outcomeVars
<1>9. CASE FinalResponse(r)
  BY <1>9, LoopRows DEF FinalResponse
<1>10. CASE GiveUp(r)
  BY <1>10, LoopRows DEF GiveUp
<1>11. CASE SaveReplies(r)
  BY <1>11, <1>a, <1>b DEF SaveReplies, SavedRows, OwnRows, outcomeVars
<1>12. CASE SaveFails(r)
  BY <1>12, <1>a, <1>b DEF SaveFails, Discard, OwnRows, outcomeVars
<1>13. CASE SendMessage(r)
  BY <1>13, <1>a DEF SendMessage, TextAt, OwnRows, historyVars, outcomeVars
<1> QED
  BY <1>1, <1>2, <1>3, <1>4, <1>5, <1>6, <1>7, <1>8, <1>9, <1>10, <1>11, <1>12,
     <1>13 DEF Step

\* The other tasks do not notice what one task does to its own rows.
LEMMA OthersProgress ==
    ASSUME TypeOK, TaskProgress, NEW r \in Requests, OwnRows(r),
           NEW q \in Requests, q # r
    PROVE  /\ ProgressOf(q)'
           /\ pc'[q] = pc[q] /\ answers'[q] = answers[q]
           /\ stored' \cap GeneratedRows(q) = stored \cap GeneratedRows(q)
           /\ created' \cap GeneratedRows(q) = created \cap GeneratedRows(q)
<1>1. pc'[q] = pc[q] /\ answers'[q] = answers[q]
  BY DEF OwnRows, TypeOK
<1>2. \A x \in RowsBy(q) : /\ x \in stored' <=> x \in stored
                           /\ x \in created' <=> x \in created
  BY RowsByOneTask DEF OwnRows
<1>3. UserRow(q) \in RowsBy(q) /\ GeneratedRows(q) \subseteq RowsBy(q)
  BY DEF RowsBy
<1>4. [kind |-> "reply", of |-> q] \in RowsBy(q)
  BY RowsOfTask, <1>3
<1>5. /\ stored' \cap GeneratedRows(q) = stored \cap GeneratedRows(q)
      /\ created' \cap GeneratedRows(q) = created \cap GeneratedRows(q)
  BY <1>2, <1>3
<1>6. ProgressOf(q)
  BY DEF TaskProgress
<1>7. stored \subseteq stored'
  BY DEF OwnRows
<1>8. ProgressOf(q)'
  BY <1>1, <1>2, <1>3, <1>4, <1>5, <1>6, <1>7 DEF ProgressOf
<1> QED
  BY <1>1, <1>5, <1>8

\* A task makes the progress its position says.
LEMMA OwnProgress ==
    ASSUME TypeOK, ProcessorInv, TaskProgress, BufferedAreStored,
           NEW r \in Requests, Deliver(r) \/ Step(r)
    PROVE  ProgressOf(r)'
<1>a. ProgressOf(r) /\ OwnRows(r) /\ stored \subseteq stored'
  BY StepRows DEF TaskProgress, OwnRows
<1>b. \A A : answers' = [answers EXCEPT ![r] = A] => answers'[r] = A
  BY DEF TypeOK
<1>c. \A label : pc' = [pc EXCEPT ![r] = label] => pc'[r] = label
  BY DEF TypeOK
<1>d. /\ UserRow(r) \notin GeneratedRows(r)
      /\ [kind |-> "reply", of |-> r] \in GeneratedRows(r)
  BY RowsOfTask
<1> USE DEF InLoop
<1>1. ASSUME pc[r] \in InLoop, ReturnReply(r) \/ Continue(r) \/ GiveUpLoop(r)
      PROVE  ProgressOf(r)'
  <2>1. /\ stored' = stored /\ answers[r] = {}
        /\ stored \cap GeneratedRows(r) = {}
    BY <1>1, <1>a, LoopRows DEF ProgressOf
  <2>2. CASE ReturnReply(r)
    <3>1. /\ pc'[r] = "saving"
          /\ [kind |-> "reply", of |-> r] \in created'
          /\ answers'[r] = Elements(batch[r])
      BY <2>2, <1>b, <1>c DEF ReturnReply, LeaveLoop, Stamp
    <3>2. Sender[r] \in Users /\ buffer[Sender[r]] \in Seq(Chats)
          /\ batch[r] \in Seq(Chats)
      BY SenderAssumption DEF TypeOK
    <3>3. /\ Len(batch[r]) \in 1 .. Len(buffer[Sender[r]])
          /\ \A i \in 1 .. Len(batch[r]) : batch[r][i] = buffer[Sender[r]][i]
      BY <1>1 DEF ProcessorInv, BatchIsPrefix
    <3>4. Elements(batch[r]) # {}
      BY <3>2, <3>3, ElementsOfSeq
    <3>5. Elements(batch[r]) \subseteq Elements(buffer[Sender[r]])
      <4>1. /\ DOMAIN batch[r] = 1 .. Len(batch[r])
            /\ DOMAIN buffer[Sender[r]] = 1 .. Len(buffer[Sender[r]])
            /\ Len(batch[r]) \in Nat /\ Len(buffer[Sender[r]]) \in Nat
        BY <3>2
      <4>2. 1 .. Len(batch[r]) \subseteq 1 .. Len(buffer[Sender[r]])
        BY <4>1, <3>3
      <4> QED
        BY <3>3, <4>1, <4>2 DEF Elements
    <3>6. \A m \in Elements(batch[r]) : UserRow(m) \in stored
      BY <3>2, <3>5 DEF BufferedAreStored, Buffered
    <3> QED
      BY <2>1, <3>1, <3>4, <3>6 DEF ProgressOf
  <2>3. CASE Continue(r)
    <3>1. pc'[r] = "history" /\ answers'[r] = answers[r]
      BY <2>3, <1>c DEF Continue, LoopTop, outcomeVars
    <3> QED
      BY <2>1, <3>1 DEF ProgressOf
  <2>4. CASE GiveUpLoop(r)
    <3>1. pc'[r] = "apologising" /\ answers'[r] = answers[r]
      BY <2>4, <1>c DEF GiveUpLoop, LeaveLoop
    <3> QED
      BY <2>1, <3>1 DEF ProgressOf
  <2> QED
    BY <1>1, <2>2, <2>3, <2>4
<1>2. CASE Deliver(r)
  <2>1. /\ pc[r] = "idle" /\ pc'[r] = "storing" /\ UserRow(r) \in created'
        /\ UNCHANGED <<stored, answers>>
    BY <1>2, <1>c DEF Deliver, Stamp, outcomeVars
  <2> QED
    BY <1>a, <2>1 DEF ProgressOf
<1>3. CASE StoreMessage(r)
  <2>1. /\ pc[r] = "storing" /\ pc'[r] = "stored"
        /\ stored' = stored \cup {UserRow(r)} /\ UNCHANGED answers
    BY <1>3, <1>c DEF StoreMessage, outcomeVars
  <2> QED
    BY <1>a, <1>d, <2>1 DEF ProgressOf
<1>4. CASE CreateMessageFails(r)
  <2>1. /\ pc[r] \in {"storing", "stored"} /\ pc'[r] = "rejected"
        /\ UNCHANGED <<stored, answers>>
    BY <1>4, <1>c DEF CreateMessageFails, outcomeVars
  <2> QED
    BY <1>a, <2>1 DEF ProgressOf
<1>5. CASE HandleCommand(r)
  <2>1. /\ pc[r] = "stored" /\ pc'[r] \in {"commanding", "failed"}
        /\ UNCHANGED <<stored, answers>>
    BY <1>5, <1>c DEF HandleCommand, historyVars, outcomeVars
  <2> QED
    BY <1>a, <2>1 DEF ProgressOf
<1>6. CASE GenerateResponse(r)
  <2>1. /\ pc[r] = "stored" /\ pc'[r] \in {"apologising", "history"}
        /\ UNCHANGED <<stored, answers>>
    BY <1>6, <1>c DEF GenerateResponse, LoopTop, historyVars, outcomeVars
  <2> QED
    BY <1>a, <2>1 DEF ProgressOf
<1>7. CASE ReadHistory(r)
  <2>1. CASE GiveUpLoop(r)
    BY <1>7, <2>1, <1>1 DEF ReadHistory
  <2>2. CASE ~GiveUpLoop(r)
    <3>1. /\ pc[r] = "history" /\ pc' = [pc EXCEPT ![r] = "llm"]
          /\ UNCHANGED <<stored, answers>>
      BY <1>7, <2>2 DEF ReadHistory, historyVars, outcomeVars
    <3> QED
      BY <1>a, <1>c, <3>1 DEF ProgressOf
  <2> QED
    BY <2>1, <2>2
<1>8. CASE InitialResponse(r)
  <2>1. CASE Continue(r) \/ ReturnReply(r)
    BY <1>8, <2>1, <1>1 DEF InitialResponse
  <2>2. CASE ~(Continue(r) \/ ReturnReply(r))
    <3>1. /\ pc[r] = "llm" /\ pc'[r] = "tools"
          /\ UNCHANGED <<stored, answers>>
      BY <1>8, <2>2, <1>c DEF InitialResponse, outcomeVars
    <3> QED
      BY <1>a, <3>1 DEF ProgressOf
  <2> QED
    BY <2>1, <2>2
<1>9. CASE ProcessToolCalls(r)
  <2>1. /\ pc[r] = "tools" /\ pc'[r] = "final"
        /\ UNCHANGED <<stored, answers>>
    BY <1>9, <1>c DEF ProcessToolCalls, outcomeVars
  <2> QED
    BY <1>a, <2>1 DEF ProgressOf
<1>10. CASE FinalResponse(r)
  BY <1>10, <1>1 DEF FinalResponse
<1>11. CASE GiveUp(r)
  BY <1>11, <1>1 DEF GiveUp
<1>12. CASE SaveReplies(r)
  <2>1. /\ pc[r] = "saving" /\ pc'[r] \in {"sending", "failed"}
        /\ [kind |-> "reply", of |-> r] \in created
             => [kind |-> "reply", of |-> r] \in stored'
        /\ UNCHANGED answers
    BY <1>12, <1>c, <1>d DEF SaveReplies, SavedRows, outcomeVars
  <2> QED
    BY <1>a, <2>1 DEF ProgressOf
<1>13. CASE SaveFails(r)
  <2>1. /\ pc[r] = "saving" /\ pc'[r] = "failed"
        /\ UNCHANGED <<stored, answers>>
    BY <1>13, <1>c DEF SaveFails, outcomeVars
  <2> QED
    BY <1>a, <2>1 DEF ProgressOf
<1>14. CASE SendMessage(r)
  <2>1. /\ pc[r] \in {"sending", "apologising", "commanding"}
        /\ pc'[r] = "done"
        /\ UNCHANGED <<stored, answers>>
    BY <1>14, <1>c DEF SendMessage, TextAt, historyVars, outcomeVars
  <2> QED
    BY <1>a, <2>1 DEF ProgressOf
<1> QED
  BY <1>2, <1>3, <1>4, <1>5, <1>6, <1>7, <1>8, <1>9, <1>10, <1>11, <1>12,
     <1>13, <1>14 DEF Step

\* TaskProgress is preserved by every step.
LEMMA ProgressStep ==
    ASSUME TypeOK, ProcessorInv, TaskProgress, BufferedAreStored, [Next]_vars
    PROVE  TaskProgress'
<1>1. CASE UNCHANGED vars
  BY <1>1 DEF vars, historyVars, outcomeVars, TaskProgress, ProgressOf
<1>2. CASE Restart
  <2>1. ASSUME NEW q \in Requests
        PROVE  ProgressOf(q)'
    <3>1. ProgressOf(q) /\ UNCHANGED <<stored, answers>>
      BY <1>2 DEF TaskProgress, Restart
    <3>2. pc[q] \in Labels
      BY DEF TypeOK
    <3>3. /\ pc[q] \in {"idle"} \cup Finished => pc'[q] = pc[q]
          /\ pc[q] \in {"storing", "stored"} => pc'[q] = "rejected"
          /\ pc[q] \notin {"idle", "storing", "stored"} \cup Finished
               => pc'[q] = "failed"
      BY <1>2 DEF Restart, Finished
    <3> QED
      BY <3>1, <3>2, <3>3 DEF ProgressOf, Labels, InLoop, Finished
  <2> QED
    BY <2>1 DEF TaskProgress
<1>3. ASSUME NEW r \in Requests, Deliver(r) \/ Step(r)
      PROVE  TaskProgress'
  BY <1>3, StepRows, OwnProgress, OthersProgress DEF TaskProgress
<1> QED
  BY <1>1, <1>2, <1>3 DEF Next

\* Committed rows stay committed.
LEMMA StoredGrows ==
    ASSUME TypeOK, [Next]_vars
    PROVE  stored \subseteq stored'
<1>1. CASE UNCHANGED vars
  BY <1>1 DEF vars, historyVars
<1>2. CASE Restart
  BY <1>2 DEF Restart
<1>3. ASSUME NEW r \in Requests, Deliver(r) \/ Step(r)
      PROVE  stored \subseteq stored'
  BY <1>3, StepRows DEF OwnRows
<1> QED
  BY <1>1, <1>2, <1>3 DEF Next

\* What is buffered is stored, after every step.
LEMMA BufferedStoredStep ==
    ASSUME TypeOK, ProcessorInv, TaskProgress, BufferedAreStored, [Next]_vars
    PROVE  BufferedAreStored'
<1>1. stored \subseteq stored'
  BY StoredGrows
<1>2. Buffered' \subseteq Buffered \cup {m \in Chats : UserRow(m) \in stored}
  <2>1. CASE UNCHANGED vars
    BY <2>1 DEF vars, processorVars, Buffered
  <2>2. CASE Restart
    BY <2>2, RestartOutcome
  <2>3. ASSUME NEW r \in Requests, QuietStep(r)
        PROVE  Buffered' = Buffered
    BY <2>3, QuietOutcome
  <2>4. ASSUME NEW r \in Requests, GenerateResponse(r)
        PROVE  Buffered' \subseteq Buffered
                            \cup {m \in Chats : UserRow(m) \in stored}
    <3>1. r \in Chats /\ Buffered' = Buffered \cup {r}
      BY <2>4, ArrivalOutcome
    <3>2. UserRow(r) \in stored
      BY <2>4 DEF GenerateResponse, TaskProgress, ProgressOf
    <3> QED
      BY <3>1, <3>2
  <2>5. ASSUME NEW r \in Requests, LoopStep(r)
        PROVE  Buffered' \subseteq Buffered
    BY <2>5, ContinueOutcome, ReplyOutcome, GiveUpOutcome DEF LoopStep
  <2> QED
    BY <2>1, <2>2, <2>3, <2>4, <2>5, StepKinds
<1> QED
  BY <1>1, <1>2 DEF BufferedAreStored

\* What a generation answered is settled once and for all.
LEMMA AnswersFixed ==
    ASSUME TypeOK, ProcessorInv, TaskProgress, [Next]_vars,
           NEW q \in Requests, answers[q] # {}
    PROVE  answers'[q] = answers[q]
<1>1. CASE UNCHANGED vars
  BY <1>1 DEF vars, outcomeVars
<1>2. CASE Restart
  BY <1>2 DEF Restart
<1>3. ASSUME NEW r \in Requests, QuietStep(r) \/ GenerateResponse(r)
      PROVE  answers' = answers
  BY <1>3 DEF QuietStep, GenerateResponse, outcomeVars
<1>4. ASSUME NEW r \in Requests, LoopStep(r)
      PROVE  answers'[q] = answers[q]
  <2>1. answers[r] = {}
    BY <1>4 DEF LoopStep, TaskProgress, ProgressOf, InLoop
  <2>2. \E A : answers' = [answers EXCEPT ![r] = A]
    <3>1. answers = [answers EXCEPT ![r] = answers[r]]
      BY DEF TypeOK
    <3> QED
      BY <1>4, <3>1
      DEF LoopStep, ReturnReply, Continue, GiveUpLoop, outcomeVars
  <2> QED
    BY <2>1, <2>2 DEF TypeOK
<1> QED
  BY <1>1, <1>2, <1>3, <1>4, StepKinds

\* The rows of a generation are committed as one.
LEMMA TogetherStep ==
    ASSUME TypeOK, TaskProgress, RepliesStoredTogether, [Next]_vars
    PROVE  RepliesStoredTogether'
<1>1. CASE UNCHANGED vars
  BY <1>1 DEF vars, historyVars, RepliesStoredTogether
<1>2. CASE Restart
  BY <1>2 DEF Restart, Discard, RepliesStoredTogether
<1>3. ASSUME NEW r \in Requests, Deliver(r) \/ Step(r)
      PROVE  RepliesStoredTogether'
  <2> DEFINE G == GeneratedRows(r)
  <2>1. OwnRows(r)
    BY <1>3, StepRows
  <2>2. ASSUME NEW q \in Requests, q # r
        PROVE  \/ stored' \cap GeneratedRows(q) = {}
               \/ created' \cap GeneratedRows(q) \subseteq stored'
    <3>1. /\ stored' \cap GeneratedRows(q) = stored \cap GeneratedRows(q)
          /\ created' \cap GeneratedRows(q) = created \cap GeneratedRows(q)
      BY <2>1, <2>2, OthersProgress
    <3> QED
      BY <3>1 DEF RepliesStoredTogether
  <2>3. CASE SaveReplies(r)
    <3>1. created' \cap G \subseteq stored'
      BY <2>3 DEF SaveReplies, SavedRows
    <3> QED
      BY <2>2, <3>1 DEF RepliesStoredTogether
  <2>4. CASE SendMessage(r)
    BY <2>4 DEF SendMessage, historyVars, RepliesStoredTogether
  <2>5. CASE ~SaveReplies(r) /\ ~SendMessage(r)
    <3>1. UserRow(r) \notin G
      BY RowsOfTask
    <3>2. stored' \cap G = stored \cap G
      <4>1. CASE pc[r] \in InLoop
                 /\ (ReturnReply(r) \/ Continue(r) \/ GiveUpLoop(r))
        BY <4>1, LoopRows
      <4>2. CASE ~(pc[r] \in InLoop
                   /\ (ReturnReply(r) \/ Continue(r) \/ GiveUpLoop(r)))
        <5>1. stored' = stored \/ stored' = stored \cup {UserRow(r)}
          <6>1. CASE Deliver(r) \/ StoreMessage(r) \/ CreateMessageFails(r)
                     \/ HandleCommand(r) \/ GenerateResponse(r)
            BY <6>1 DEF Deliver, StoreMessage, CreateMessageFails,
                        HandleCommand, GenerateResponse, historyVars
          <6>2. CASE ReadHistory(r)
            BY <4>2, <6>2 DEF ReadHistory, historyVars, InLoop
          <6>3. CASE InitialResponse(r) \/ ProcessToolCalls(r) \/ SaveFails(r)
            BY <4>2, <6>3
            DEF InitialResponse, ProcessToolCalls, SaveFails, InLoop
          <6>4. CASE FinalResponse(r) \/ GiveUp(r)
            BY <4>2, <6>4 DEF FinalResponse, GiveUp, InLoop
          <6> QED
            BY <1>3, <2>5, <6>1, <6>2, <6>3, <6>4 DEF Step
        <5> QED
          BY <3>1, <5>1
      <4> QED
        BY <4>1, <4>2
    <3>3. stored \cap G = {}
      <4>1. pc[r] \notin {"sending", "done", "failed"}
        BY <1>3, <2>5 DEF Deliver, Step, StoreMessage, CreateMessageFails,
             HandleCommand, GenerateResponse, ReadHistory, InitialResponse,
             ProcessToolCalls, FinalResponse, GiveUp, SaveFails, InLoop
      <4> QED
        BY <4>1 DEF TaskProgress, ProgressOf
    <3> QED
      BY <2>2, <3>2, <3>3 DEF RepliesStoredTogether
  <2> QED
    BY <2>3, <2>4, <2>5
<1> QED
  BY <1>1, <1>2, <1>3 DEF Next

\* An answer is only ever sent by a task that has saved it.
LEMMA DeliveredStep ==
    ASSUME TypeOK, ProcessorInv, TaskProgress, DeliveredAnswerIsStored,
           [Next]_vars, TaskProgress'
    PROVE  DeliveredAnswerIsStored'
<1> SUFFICES ASSUME NEW t \in delivered', t.kind = "answer"
             PROVE  /\ [kind |-> "reply", of |-> t.of] \in stored'
                    /\ answers'[t.of] # {}
                    /\ \A m \in answers'[t.of] : UserRow(m) \in stored'
  BY DEF DeliveredAnswerIsStored
<1>1. stored \subseteq stored'
  BY StoredGrows
<1>2. \/ t \in delivered
      \/ \E r \in Requests : pc[r] = "sending" /\ t.of = r
  <2>1. CASE UNCHANGED vars
    BY <2>1 DEF vars
  <2>2. CASE Restart
    BY <2>2 DEF Restart
  <2>3. ASSUME NEW r \in Requests, SendMessage(r)
        PROVE  t \in delivered \/ (pc[r] = "sending" /\ t.of = r)
    BY <2>3 DEF SendMessage, TextAt
  <2>4. ASSUME NEW r \in Requests, ProcessToolCalls(r)
        PROVE  t \in delivered
    BY <2>4 DEF ProcessToolCalls
  <2>5. ASSUME NEW r \in Requests, Deliver(r) \/ Step(r),
               ~SendMessage(r), ~ProcessToolCalls(r)
        PROVE  delivered' = delivered
    <3>1. CASE ReturnReply(r) \/ Continue(r) \/ GiveUpLoop(r)
      BY <3>1 DEF ReturnReply, Continue, GiveUpLoop
    <3>2. CASE ~(ReturnReply(r) \/ Continue(r) \/ GiveUpLoop(r))
      <4>1. CASE ReadHistory(r)
        BY <3>2, <4>1 DEF ReadHistory
      <4>2. CASE ~ReadHistory(r)
        BY <2>5, <3>2, <4>2 DEF Deliver, Step, StoreMessage,
          CreateMessageFails, HandleCommand, GenerateResponse,
          InitialResponse, FinalResponse, GiveUp, SaveReplies, SaveFails
      <4> QED
        BY <4>1, <4>2
    <3> QED
      BY <3>1, <3>2
  <2> QED
    BY <2>1, <2>2, <2>3, <2>4, <2>5 DEF Next, Step
<1>3. /\ t.of \in Requests
      /\ [kind |-> "reply", of |-> t.of] \in stored
      /\ answers[t.of] # {}
  <2>1. CASE t \in delivered
    <3>1. t \in Text
      BY <2>1 DEF TypeOK
    <3> QED
      BY <2>1, <3>1 DEF DeliveredAnswerIsStored, Text
  <2>2. ASSUME NEW r \in Requests, pc[r] = "sending", t.of = r
        PROVE  [kind |-> "reply", of |-> r] \in stored /\ answers[r] # {}
    BY <2>2 DEF TaskProgress, ProgressOf
  <2> QED
    BY <1>2, <2>1, <2>2
<1>4. answers'[t.of] = answers[t.of]
  BY <1>3, AnswersFixed
<1>5. \A m \in answers'[t.of] : UserRow(m) \in stored'
  BY <1>3 DEF TaskProgress, ProgressOf
<1> QED
  BY <1>1, <1>3, <1>4, <1>5

-----------------------------------------------------------------------------
(***************************************************************************)
(* The theorems.                                                           *)
(***************************************************************************)

\* BatchingInv holds in every reachable state: every step of every task and
\* every restart preserves it.
THEOREM BatchingInvariant == Spec => []BatchingInv
<1>1. Init => BatchingInv
  BY InitInv
<1>2. BatchingInv /\ [Next]_vars => BatchingInv'
  <2> SUFFICES ASSUME BatchingInv, [Next]_vars
               PROVE  BatchingInv'
    OBVIOUS
  <2>1. TypeOK'
    BY TypeStep
  <2>2. ProcessorInv /\ ProcessorInv'
    <3>1. ProcessorInv
      BY DEF BatchingInv, ProcessorInv
    <3> QED
      BY <2>1, <3>1, ProcessorStep DEF BatchingInv
  <2>3. TaskProgress'
    BY <2>2, ProgressStep DEF BatchingInv
  <2>4. EveryMessageAccounted'
    BY <2>2, AccountStep DEF BatchingInv
  <2>5. BufferedAreStored'
    BY <2>2, BufferedStoredStep DEF BatchingInv
  <2>6. RepliesStoredTogether'
    BY TogetherStep DEF BatchingInv
  <2>7. DeliveredAnswerIsStored'
    BY <2>2, <2>3, DeliveredStep DEF BatchingInv
  <2> QED
    BY <2>1, <2>2, <2>3, <2>4, <2>5, <2>6, <2>7 DEF BatchingInv, ProcessorInv
<1> QED
  BY <1>1, <1>2, PTL DEF Spec

\* Every variable keeps its type: in particular no row is committed that was
\* not constructed, and the process dies at most MaxRestarts times.
THEOREM TypeCorrectness == Spec => []TypeOK
<1>1. BatchingInv => TypeOK
  BY DEF BatchingInv
<1> QED
  BY <1>1, BatchingInvariant, PTL

\* For any number of users and requests, a user never has two generations at
\* once, and the lock is held exactly while there is one: the test of
\* is_locked in generate_response needs no further protection.
THEOREM OneGenerationPerUser == Spec => []SingleFlight
<1>1. BatchingInv => SingleFlight
  BY DEF BatchingInv
<1> QED
  BY <1>1, BatchingInvariant, PTL

\* A message is never left behind in the buffer of a user without a running
\* generation, whatever raises and however the process restarts.
THEOREM NoMessageStranded == Spec => []NothingStranded
<1>1. BatchingInv => NothingStranded
  BY DEF BatchingInv
<1> QED
  BY <1>1, BatchingInvariant, PTL

\* Comparing lengths in _check_new_messages is exact: what was batched is a
\* prefix of what is buffered.
THEOREM CountCheckIsExact == Spec => []BatchIsPrefix
<1>1. BatchingInv => BatchIsPrefix
  BY DEF BatchingInv
<1> QED
  BY <1>1, BatchingInvariant, PTL

\* Every accepted message is waiting, answered by exactly one reply, or
\* dropped with an error; clear_messages never forgets one silently.
THEOREM NoMessageForgotten == Spec => []EveryMessageAccounted
<1>1. BatchingInv => EveryMessageAccounted
  BY DEF BatchingInv
<1> QED
  BY <1>1, BatchingInvariant, PTL

\* A batch is in the database before its prompt is built.
THEOREM BatchInDatabase == Spec => []BufferedAreStored
<1>1. BatchingInv => BufferedAreStored
  BY DEF BatchingInv
<1> QED
  BY <1>1, BatchingInvariant, PTL

\* tool_calls, tool and reply rows of a generation are stored all or none.
THEOREM RepliesAtomic == Spec => []RepliesStoredTogether
<1>1. BatchingInv => RepliesStoredTogether
  BY DEF BatchingInv
<1> QED
  BY <1>1, BatchingInvariant, PTL

\* Whatever answer a user has read is in the database.
THEOREM AnswersSavedFirst == Spec => []DeliveredAnswerIsStored
<1>1. BatchingInv => DeliveredAnswerIsStored
  BY DEF BatchingInv
<1> QED
  BY <1>1, BatchingInvariant, PTL

-----------------------------------------------------------------------------
(***************************************************************************)
(* The batching implements the contract of its users.                      *)
(***************************************************************************)
\* What the contract calls pending of a user is what its buffer holds.
LEMMA ContractPending ==
    ASSUME TypeOK, NEW u
    PROVE  Contract!PendingOf(u) = PendingBy(u)
BY BufferedAreChats DEF Contract!PendingOf, PendingBy

\* A step of the batching accepts one message, answers or abandons all a user
\* has pending, abandons all there is, or is invisible.
LEMMA ContractStep ==
    BatchingInv /\ [Next]_vars
        => [Contract!Next]_<<Buffered, Answered, dropped>>
<1> SUFFICES ASSUME BatchingInv, [Next]_vars,
                    ~UNCHANGED <<Buffered, Answered, dropped>>
             PROVE  Contract!Next
  OBVIOUS
<1>a. /\ TypeOK /\ ProcessorInv /\ TaskProgress /\ EveryMessageAccounted
      /\ BufferedByAuthor
  BY DEF BatchingInv, ProcessorInv
<1>1. CASE UNCHANGED vars
  BY <1>1 DEF vars, processorVars, outcomeVars, Buffered, Answered
<1>2. CASE Restart
  <2>1. /\ Buffered' = {} /\ dropped' = dropped \cup Buffered
        /\ Answered' = Answered
    BY <1>2, <1>a, RestartOutcome
  <2>2. UNION {Contract!PendingOf(u) : u \in Users} = Buffered
    <3>1. \A m \in Buffered : m \in PendingBy(Sender[m]) /\ Sender[m] \in Users
      BY <1>a, BufferedAreChats, ChatsAssumption, SenderAssumption DEF PendingBy
    <3>2. \A u \in Users : Contract!PendingOf(u) = PendingBy(u)
      BY <1>a, ContractPending
    <3>3. \A u \in Users : PendingBy(u) \subseteq Buffered
      BY DEF PendingBy
    <3> QED
      BY <3>1, <3>2, <3>3
  <2>3. Buffered # {}
    BY <2>1
  <2>4. Contract!Abandon(Users)
    BY <2>1, <2>2, <2>3 DEF Contract!Abandon
  <2> QED
    BY <2>4 DEF Contract!Next
<1>3. ASSUME NEW r \in Requests, QuietStep(r)
      PROVE  FALSE
  BY <1>3, <1>a, QuietOutcome
<1>4. ASSUME NEW r \in Requests, GenerateResponse(r)
      PROVE  Contract!Next
  <2>1. /\ r \in Chats /\ r \notin Accepted
        /\ Buffered' = Buffered \cup {r}
        /\ UNCHANGED <<Answered, dropped>>
    BY <1>4, <1>a, ArrivalOutcome
  <2>2. r \notin Buffered \cup Answered \cup dropped
    BY <2>1, <1>a DEF EveryMessageAccounted
  <2>3. Contract!Accept(r)
    BY <2>1, <2>2 DEF Contract!Accept
  <2> QED
    BY <2>1, <2>3 DEF Contract!Next
<1>5. ASSUME NEW r \in Requests, LoopStep(r)
      PROVE  Contract!Next
  <2> DEFINE u == Sender[r]
             P == PendingBy(u)
  <2>1. u \in Users /\ Contract!PendingOf(u) = P
    BY <1>a, SenderAssumption, ContractPending
  <2>2. CASE Continue(r)
    BY <1>5, <1>a, <2>2, ContinueOutcome DEF LoopStep
  <2>3. CASE GiveUpLoop(r)
    <3>1. /\ P # {} /\ Buffered' = Buffered \ P
          /\ dropped' = dropped \cup P /\ Answered' = Answered
      BY <1>5, <1>a, <2>3, GiveUpOutcome DEF LoopStep
    <3>2. UNION {Contract!PendingOf(v) : v \in {u}} = P
      BY <2>1
    <3>3. Contract!Abandon({u})
      BY <3>1, <3>2 DEF Contract!Abandon
    <3> QED
      BY <2>1, <3>3 DEF Contract!Next
  <2>4. CASE ReturnReply(r) /\ ~CheckNewMessages(Sender[r], Len(batch[r]))
    <3>1. /\ P # {} /\ Buffered' = Buffered \ P
          /\ Answered' = Answered \cup P /\ dropped' = dropped
      BY <1>5, <1>a, <2>4, ReplyOutcome DEF LoopStep
    <3>2. Contract!Answer(u)
      BY <2>1, <3>1 DEF Contract!Answer
    <3> QED
      BY <2>1, <3>2 DEF Contract!Next
  <2> QED
    BY <1>5, <2>2, <2>3, <2>4 DEF LoopStep
<1> QED
  BY <1>a, <1>1, <1>2, <1>3, <1>4, <1>5, StepKinds

\* For any number of users, messages and restarts, the chat path does nothing
\* that ReplyContract does not allow: a user is answered on all they have
\* pending or on nothing.
THEOREM ContractKept == Spec => KeepsContractSafely
<1>1. Init => Contract!Init
  <2> SUFFICES ASSUME Init PROVE Contract!Init
    OBVIOUS
  <2>1. \A u \in Users : Elements(buffer[u]) = {}
    BY ElementsOfSeq DEF Init
  <2>2. Buffered = {} /\ Answered = {} /\ dropped = {}
    BY <2>1 DEF Init, Buffered, Answered
  <2> QED
    BY <2>2 DEF Contract!Init
<1>2. BatchingInv /\ [Next]_vars
        => [Contract!Next]_<<Buffered, Answered, dropped>>
  BY ContractStep
<1> QED
  BY <1>1, <1>2, BatchingInvariant, PTL
  DEF Spec, KeepsContractSafely, Contract!SafeSpec, Contract!contractVars
=============================================================================
