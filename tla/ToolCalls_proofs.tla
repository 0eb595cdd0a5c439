-------------------------- MODULE ToolCalls_proofs --------------------------
(***************************************************************************)
(* Theorems about ToolCalls.  The invariant says how much of an exchange   *)
(* exists while it is under way; that exchanges share no call lets whole   *)
(* ones be put together; and the window keeps everything younger than what *)
(* it keeps, which is why it can only cut an exchange at its start.        *)
(***************************************************************************)
EXTENDS ToolCalls, FiniteSetTheorems, SequenceTheorems, TLAPS

-----------------------------------------------------------------------------
(* Rows.                                                                   *)

\* A plain row is a row.
LEMMA PlainIsRow ==
    ASSUME NEW t \in Nat, NEW kind \in Kinds
    PROVE  Plain(t, kind) \in Row
<1>1. <<>> \in Seq(Names)
  BY EmptySeq
<1> QED
  BY <1>1 DEF Plain, Row, NoId

\* The names in a response form a non-empty sequence.
LEMMA ResponseIsSeq ==
    ASSUME NEW names \in Responses
    PROVE  names \in Seq(Names) /\ Len(names) \in Nat \ {0}
<1>1. PICK n \in 1 .. MaxCalls : names \in [1 .. n -> Names]
  BY DEF Responses
<1>2. n \in Nat
  BY <1>1, CallsAssumption
<1>3. names \in Seq(Names)
  BY <1>1, <1>2, IsASeq
<1>4. Len(names) = n
  BY <1>1, <1>2, <1>3, LenProperties
<1> QED
  BY <1>1, <1>2, <1>3, <1>4

\* So the row that asks for tools is a row.
LEMMA CallIsRow ==
    ASSUME NEW t \in Nat, NEW names \in Responses
    PROVE  CallRow(t, names) \in Row
BY ResponseIsSeq DEF CallRow, Row, Kinds, NoId

\* And so is the message of a tool.
LEMMA ToolIsRow ==
    ASSUME NEW t \in Nat, NEW name \in Names, NEW id \in Ids,
           NEW content \in Ids \cup {NoId}
    PROVE  ToolRow(t, name, id, content) \in Row
<1>1. <<name>> \in Seq(Names)
  OBVIOUS
<1> QED
  BY <1>1 DEF ToolRow, Row, Kinds

-----------------------------------------------------------------------------
(* Sets of whole exchanges.                                                *)

\* Two sets of whole exchanges that share no call make one.
LEMMA WholeUnion ==
    ASSUME NEW S, NEW T, Whole(S), Whole(T), Apart(S, T)
    PROVE  Whole(S \cup T)
<1> DEFINE U == S \cup T
<1>1. /\ CallsIn(U) = CallsIn(S) \cup CallsIn(T)
      /\ ToolsIn(U) = ToolsIn(S) \cup ToolsIn(T)
  BY DEF CallsIn, ToolsIn
<1>2. \A x \in ToolsIn(U) : \E c \in CallsIn(U) : Answers(x, c)
  BY <1>1 DEF Whole
<1>3. \A c \in CallsIn(U) : \A i \in DOMAIN c.names :
         \E x \in ToolsIn(U) : x.id = <<c.at, i>>
  BY <1>1 DEF Whole
<1>4. \A x \in ToolsIn(S), y \in ToolsIn(T) : x.id[1] # y.id[1]
  BY DEF Whole, Apart, Answers
<1>5. \A x, y \in ToolsIn(U) : x.id[1] = y.id[1] =>
         /\ x.id[2] < y.id[2] => x.at < y.at
         /\ x.id[2] = y.id[2] => x = y
  BY <1>1, <1>4 DEF Whole
<1> QED
  BY <1>2, <1>3, <1>5 DEF Whole

\* A row that is neither a call nor a tool message changes nothing.
LEMMA PlainAdds ==
    ASSUME NEW S, NEW x, x.kind \notin {"call", "tool"}
    PROVE  /\ CallsIn(S \cup {x}) = CallsIn(S)
           /\ ToolsIn(S \cup {x}) = ToolsIn(S)
BY DEF CallsIn, ToolsIn

-----------------------------------------------------------------------------
(* The window.                                                             *)

\* Latest keeps every row that is not older than one it keeps.
LEMMA LatestIsUpward ==
    ASSUME NEW S \in SUBSET Row, IsFiniteSet(S), NEW n \in Nat,
           NEW y \in Latest(S, n), NEW z \in S, y.at <= z.at
    PROVE  z \in Latest(S, n)
<1> DEFINE Above(r) == {x \in S : x.at > r.at}
<1>1. y \in S /\ Cardinality(Above(y)) < n
  BY DEF Latest
<1>2. \A x \in S : x.at \in Nat
  BY DEF Row
<1>3. Above(z) \subseteq Above(y)
  BY <1>1, <1>2
<1>4. IsFiniteSet(Above(y)) /\ IsFiniteSet(Above(z))
  BY FS_Subset
<1>5. Cardinality(Above(z)) <= Cardinality(Above(y))
  BY <1>3, <1>4, FS_Subset
<1>6. Cardinality(Above(z)) \in Nat /\ Cardinality(Above(y)) \in Nat
  BY <1>4, FS_CardinalityType
<1>7. Cardinality(Above(z)) < n
  BY <1>1, <1>5, <1>6
<1> HIDE DEF Above
<1> QED
  BY <1>7 DEF Latest, Above

\* So a prompt cut from whole exchanges has orphans at its start only.
LEMMA OldMessagesCut ==
    ASSUME TypeOK, Young(table), Whole(table), NEW n \in Nat
    PROVE  \A x \in ToolsIn(OldMessages(n)) :
             \/ \E c \in CallsIn(OldMessages(n)) : Answers(x, c)
             \/ \A y \in OldMessages(n) : x.id[1] <= y.at
<1> DEFINE P == OldMessages(n)
<1>1. table \subseteq Row /\ IsFiniteSet(table) /\ HistoryLimit \in Nat
  BY WindowAssumption DEF TypeOK, Young
<1>2. History \subseteq table /\ P \subseteq History
  BY DEF History, Latest, OldMessages
<1>3. History \in SUBSET Row /\ IsFiniteSet(History)
  BY <1>1, <1>2, FS_Subset
<1> SUFFICES ASSUME NEW x \in ToolsIn(P), NEW y \in P, ~(x.id[1] <= y.at)
             PROVE  \E c \in CallsIn(P) : Answers(x, c)
  OBVIOUS
<1>4. PICK c \in CallsIn(table) : Answers(x, c)
  BY <1>2 DEF Whole, ToolsIn
<1>5. x \in Row /\ c \in Row /\ y \in Row /\ x.at \in Nat /\ c.at \in Nat
      /\ y.at \in Nat
  BY <1>1, <1>2 DEF ToolsIn, CallsIn, Row
<1>6. y.at <= c.at /\ c.at <= x.at
  BY <1>4, <1>5 DEF Answers
<1>7. c \in History
  <2>1. y \in Latest(table, HistoryLimit)
    BY <1>2 DEF History
  <2>2. c \in table
    BY DEF CallsIn
  <2> QED
    BY <2>1, <2>2, <1>1, <1>6, LatestIsUpward DEF History
<1>8. c \notin Latest(History, n)
  <2>1. x \in History /\ x \notin Latest(History, n)
    BY <1>2 DEF ToolsIn, OldMessages
  <2> QED
    BY <2>1, <1>3, <1>6, LatestIsUpward
<1>9. c \in CallsIn(P)
  BY <1>7, <1>8 DEF CallsIn, OldMessages
<1> QED
  BY <1>4, <1>9

-----------------------------------------------------------------------------
(* The invariant.                                                          *)

\* It holds of an empty database.
LEMMA InitInv == Init => ToolCallsInv
<1> SUFFICES ASSUME Init PROVE ToolCallsInv
  OBVIOUS
<1>1. NoRow \in Row
  BY PlainIsRow DEF NoRow, Kinds
<1>2. TypeOK
  BY <1>1, MaxTextsAssumption, FS_EmptySet DEF Init, TypeOK
<1>3. NothingFromTheFuture
  BY FS_EmptySet DEF Init, NothingFromTheFuture, Young
<1>4. CallsIn({}) = {} /\ ToolsIn({}) = {}
  BY DEF CallsIn, ToolsIn
<1>5. PlainRowsAreStored /\ ExchangesApart /\ RoundProgress /\ OutboxSound
  BY <1>4 DEF Init, PlainRowsAreStored, ExchangesApart, Apart, RoundProgress,
              OutboxSound
<1>6. EveryCallAnswered /\ OutputsAreTheirOwn /\ OrphansOnlyAtWindowStart
  BY <1>4 DEF Init, EveryCallAnswered, Whole, OutputsAreTheirOwn,
              OrphansOnlyAtWindowStart
<1> QED
  BY <1>2, <1>3, <1>5, <1>6 DEF ToolCallsInv

\* The part of the invariant that is about the table and the outbox.
Saved ==
    /\ Young(table)
    /\ \A rows \in outbox : Young(rows)
    /\ \A rows \in outbox : Apart(rows, table)
    /\ \A rows, others \in outbox : rows # others => Apart(rows, others)
    /\ OutboxSound
    /\ EveryCallAnswered
    /\ OutputsAreTheirOwn

\* The part that is about the round under way.
Rounding ==
    /\ Young(fresh)
    /\ Apart(fresh, table)
    /\ \A rows \in outbox : Apart(rows, fresh)
    /\ RoundProgress
    /\ OrphansOnlyAtWindowStart

\* The part that is about the rows of webhooks.
Webhooks == PlainRowsAreStored /\ \A x \in storing : x.at <= clock

\* The three parts and the types make the invariant.
Parts == TypeOK /\ Saved /\ Rounding /\ Webhooks
LEMMA InvByParts ==
    (ToolCallsInv <=> Parts) /\ (ToolCallsInv' <=> Parts')
BY DEF Parts, ToolCallsInv, NothingFromTheFuture, ExchangesApart, Saved, Rounding,
       Webhooks

\* A later clock makes nothing old young.
LEMMA StaysYoung ==
    ASSUME NEW S \in SUBSET Row, Young(S), clock \in Nat, clock' \in Nat,
           clock <= clock'
    PROVE  Young(S)'
BY DEF Young, Row

\* A round that is dropped leaves nothing to prove about it.
LEMMA ForgetRounding ==
    ASSUME Forget, pc' \in {"free", "history"}
    PROVE  Rounding'
<1>1. CallsIn({}) = {} /\ ToolsIn({}) = {}
  BY DEF CallsIn, ToolsIn
<1>2. fresh' = {} /\ prompt' = {}
  BY DEF Forget
<1>3. Young(fresh)'
  BY <1>2, FS_EmptySet DEF Young
<1>4. Apart(fresh, table)' /\ (\A rows \in outbox : Apart(rows, fresh))'
  BY <1>1, <1>2 DEF Apart
<1>5. RoundProgress'
  BY <1>2 DEF RoundProgress
<1>6. OrphansOnlyAtWindowStart'
  BY <1>1, <1>2 DEF OrphansOnlyAtWindowStart
<1> QED
  BY <1>3, <1>4, <1>5, <1>6 DEF Rounding

\* What forgetting leaves is well typed.
LEMMA ForgetTypes ==
    ASSUME Forget
    PROVE  /\ prompt' = {} /\ fresh' = {}
           /\ asked' \in Row /\ todo' \in Nat \ {0}
           /\ result' \in Ids \cup {NoId}
<1>1. NoRow \in Row
  BY PlainIsRow DEF NoRow, Kinds
<1> QED
  BY <1>1 DEF Forget

\* A round that nothing happens to goes on as it was.
LEMMA RoundingStays ==
    ASSUME TypeOK, Rounding, clock' \in Nat, clock <= clock',
           UNCHANGED roundVars, CallsIn(table)' = CallsIn(table),
           outbox' \subseteq outbox
    PROVE  Rounding'
<1>1. Young(fresh)'
  BY StaysYoung DEF Rounding, TypeOK, roundVars, Young
<1>2. Apart(fresh, table)' /\ (\A rows \in outbox : Apart(rows, fresh))'
  BY DEF Rounding, Apart, roundVars
<1>3. RoundProgress' /\ OrphansOnlyAtWindowStart'
  BY DEF Rounding, RoundProgress, OrphansOnlyAtWindowStart, roundVars
<1> QED
  BY <1>1, <1>2, <1>3 DEF Rounding

\* Nothing saved changes when neither the table nor the outbox does.
LEMMA SavedStays ==
    ASSUME TypeOK, Saved, clock' \in Nat, clock <= clock',
           UNCHANGED table, outbox' \subseteq outbox
    PROVE  Saved'
<1>1. Young(table)'
  BY StaysYoung DEF Saved, TypeOK, Young
<1>2. (\A rows \in outbox : Young(rows))'
  BY StaysYoung DEF Saved, TypeOK, Young
<1> QED
  BY <1>1, <1>2 DEF Saved, OutboxSound, EveryCallAnswered, OutputsAreTheirOwn

-----------------------------------------------------------------------------
(* Steps of the webhooks.                                                  *)

\* A text is constructed.
LEMMA WriteStep == Parts /\ Write => Parts'
<1> SUFFICES ASSUME TypeOK, Saved, Rounding, Webhooks, Write
             PROVE  (TypeOK /\ Saved /\ Rounding /\ Webhooks)'
  BY DEF Parts
<1> DEFINE new == Plain(clock + 1, "user")
<1>1. new \in Row
  BY PlainIsRow DEF TypeOK, Kinds
<1>2. clock' \in Nat /\ clock <= clock'
  BY DEF TypeOK, Write
<1>3. TypeOK'
  BY <1>1, <1>2, MaxTextsAssumption DEF TypeOK, Write, roundVars
<1>4. Saved'
  BY <1>2, SavedStays DEF Write
<1>5. Rounding'
  BY <1>2, RoundingStays DEF Write
<1>6. Webhooks'
  BY DEF Webhooks, PlainRowsAreStored, Write, Plain, TypeOK, Row
<1> QED
  BY <1>3, <1>4, <1>5, <1>6

\* A menu is sent.
LEMMA CommandStep ==
    ASSUME NEW x \in entering
    PROVE  Parts /\ HandleCommand(x) => Parts'
<1> SUFFICES ASSUME TypeOK, Saved, Rounding, Webhooks, HandleCommand(x)
             PROVE  (TypeOK /\ Saved /\ Rounding /\ Webhooks)'
  BY DEF Parts
<1>1. clock' \in Nat /\ clock <= clock'
  BY DEF TypeOK, HandleCommand
<1>2. TypeOK'
  BY DEF TypeOK, HandleCommand, roundVars
<1>3. Saved'
  BY <1>1, SavedStays DEF HandleCommand
<1>4. Rounding'
  BY <1>1, RoundingStays DEF HandleCommand
<1>5. Webhooks'
  BY DEF Webhooks, PlainRowsAreStored, HandleCommand
<1> QED
  BY <1>2, <1>3, <1>4, <1>5

\* A row that is neither a call nor a tool message is committed.
LEMMA PlainRowCommitted ==
    ASSUME TypeOK, Saved, Webhooks, NEW x \in storing,
           table' = table \cup {x}, UNCHANGED <<clock, outbox>>
    PROVE  Saved' /\ CallsIn(table)' = CallsIn(table)
<1>1. x.kind \notin {"call", "tool"}
  BY DEF Webhooks, PlainRowsAreStored
<1>2. CallsIn(table)' = CallsIn(table) /\ ToolsIn(table)' = ToolsIn(table)
  BY <1>1, PlainAdds DEF CallsIn, ToolsIn
<1>3. Young(table)'
  BY FS_AddElement DEF Saved, Young, Webhooks
<1>4. (\A rows \in outbox : Young(rows))'
  BY DEF Saved, Young
<1>5. EveryCallAnswered'
  BY <1>2 DEF Saved, EveryCallAnswered, Whole
<1>6. OutputsAreTheirOwn'
  BY <1>2 DEF Saved, OutputsAreTheirOwn
<1>7. (\A rows \in outbox : Apart(rows, table))'
  BY <1>2 DEF Saved, Apart
<1>8. OutboxSound' /\ (\A rows, others \in outbox :
                          rows # others => Apart(rows, others))'
  BY DEF Saved, OutboxSound
<1> QED
  BY <1>2, <1>3, <1>4, <1>5, <1>6, <1>7, <1>8 DEF Saved

\* A webhook's row is stored, or fails on the way.
LEMMA StoreStep ==
    ASSUME NEW x \in storing
    PROVE  Parts /\ (Store(x) \/ StoreFails(x)) => Parts'
<1> SUFFICES ASSUME TypeOK, Saved, Rounding, Webhooks,
                    Store(x) \/ StoreFails(x)
             PROVE  (TypeOK /\ Saved /\ Rounding /\ Webhooks)'
  BY DEF Parts
<1>1. clock' = clock /\ clock' \in Nat /\ clock <= clock'
  BY DEF TypeOK, Store, StoreFails
<1>2. x \in Row
  BY DEF TypeOK
<1>3. TypeOK'
  BY <1>1, <1>2 DEF TypeOK, Store, StoreFails, roundVars
<1>4. UNCHANGED <<clock, outbox, roundVars>>
  BY DEF Store, StoreFails
<1>5. Saved' /\ CallsIn(table)' = CallsIn(table)
  <2>1. CASE table' = table \cup {x}
    BY <2>1, <1>4, PlainRowCommitted
  <2>2. CASE table' = table
    BY <2>2, <1>1, <1>4, SavedStays DEF CallsIn
  <2> QED
    BY <2>1, <2>2 DEF Store, StoreFails
<1>6. Rounding'
  BY <1>1, <1>4, <1>5, RoundingStays
<1>7. Webhooks'
  BY <1>1 DEF Webhooks, PlainRowsAreStored, Store, StoreFails
<1> QED
  BY <1>3, <1>5, <1>6, <1>7

\* A text reaches generate_response.
LEMMA GenerateStep ==
    ASSUME NEW x \in entering
    PROVE  Parts /\ GenerateResponse(x) => Parts'
<1> SUFFICES ASSUME TypeOK, Saved, Rounding, Webhooks, GenerateResponse(x)
             PROVE  (TypeOK /\ Saved /\ Rounding /\ Webhooks)'
  BY DEF Parts
<1>1. UNCHANGED <<clock, written, storing, table, outbox>>
  BY DEF GenerateResponse
<1>2. clock' \in Nat /\ clock <= clock' /\ buffer' \subseteq Row
      /\ entering' \subseteq Row /\ IsFiniteSet(buffer')
  BY FS_AddElement DEF TypeOK, GenerateResponse
<1>3. Saved'
  BY <1>1, <1>2, SavedStays
<1>4. Webhooks'
  BY <1>1 DEF Webhooks, PlainRowsAreStored
<1>5. CASE UNCHANGED roundVars
  <2>1. Rounding'
    BY <1>1, <1>2, <1>5, RoundingStays DEF CallsIn
  <2>2. TypeOK'
    BY <1>1, <1>2, <1>5 DEF TypeOK, roundVars
  <2> QED
    BY <2>1, <2>2, <1>3, <1>4
<1>6. CASE LoopTop(buffer')
  <2>1. Rounding'
    BY <1>6, ForgetRounding DEF LoopTop
  <2>2. TypeOK'
    BY <1>1, <1>2, <1>6, ForgetTypes DEF TypeOK, LoopTop, InLoop
  <2> QED
    BY <2>1, <2>2, <1>3, <1>4
<1> QED
  BY <1>5, <1>6 DEF GenerateResponse

-----------------------------------------------------------------------------
(* Steps of the round.                                                     *)

\* The round ends without a result, by an error or by a crash.
LEMMA LeaveStep ==
    ASSUME Parts, LeaveLoop, UNCHANGED <<clock, written, table>>,
           storing' \subseteq storing, entering' \subseteq entering,
           outbox' \subseteq outbox
    PROVE  Parts'
<1> USE DEF Parts
<1>1. clock' \in Nat /\ clock <= clock'
  BY DEF TypeOK
<1>2. TypeOK'
  BY ForgetTypes, FS_EmptySet DEF TypeOK, LeaveLoop
<1>3. Saved'
  BY <1>1, SavedStays
<1>4. Rounding'
  BY ForgetRounding DEF LeaveLoop
<1>5. Webhooks'
  BY DEF Webhooks, PlainRowsAreStored
<1> QED
  BY <1>2, <1>3, <1>4, <1>5

\* The history is read.
LEMMA ReadStep == Parts /\ ReadHistory => Parts'
<1> SUFFICES ASSUME TypeOK, Saved, Rounding, Webhooks, ReadHistory
             PROVE  (TypeOK /\ Saved /\ Rounding /\ Webhooks)'
  BY DEF Parts
<1> DEFINE n == Cardinality(batch)
<1>1. UNCHANGED <<clock, written, storing, entering, table, buffer, batch,
                  asked, todo, result, fresh, outbox>>
  BY DEF ReadHistory, webhookVars
<1>2. prompt' \subseteq Row
  BY DEF ReadHistory, OldMessages, History, Latest, TypeOK
<1>3. TypeOK'
  BY <1>1, <1>2 DEF TypeOK, ReadHistory, InLoop
<1>4. Saved' /\ Webhooks'
  BY <1>1, SavedStays DEF TypeOK, Webhooks, PlainRowsAreStored
<1>5. Rounding'
  <2>1. Young(fresh)' /\ Apart(fresh, table)'
        /\ (\A rows \in outbox : Apart(rows, fresh))'
    BY <1>1 DEF Rounding, Young
  <2>2. RoundProgress'
    BY <1>1 DEF Rounding, RoundProgress, ReadHistory
  <2>3. OrphansOnlyAtWindowStart'
    <3>1. Young(table) /\ Whole(table)
      BY DEF Saved, EveryCallAnswered
    <3>2. n \in Nat
      BY FS_CardinalityType DEF TypeOK
    <3> QED
      BY <3>1, <3>2, OldMessagesCut DEF OrphansOnlyAtWindowStart, ReadHistory
  <2> QED
    BY <2>1, <2>2, <2>3 DEF Rounding
<1> QED
  BY <1>3, <1>4, <1>5

\* The round starts again.
LEMMA ContinueStep ==
    ASSUME Parts, Continue, clock' = clock + 1,
           UNCHANGED <<webhookVars, table>>
    PROVE  Parts'
<1> USE DEF Parts
<1>1. clock' \in Nat /\ clock <= clock'
  BY DEF TypeOK
<1>2. TypeOK'
  BY <1>1, ForgetTypes DEF TypeOK, Continue, LoopTop, InLoop, webhookVars
<1>3. Saved'
  BY <1>1, SavedStays DEF Continue
<1>4. Rounding'
  BY ForgetRounding DEF Continue, LoopTop
<1>5. Webhooks'
  BY DEF Webhooks, PlainRowsAreStored, webhookVars, TypeOK, Row
<1> QED
  BY <1>2, <1>3, <1>4, <1>5

\* The round returns whole exchanges that share no call with what is saved.
LEMMA ReturnStep ==
    ASSUME Parts, NEW S \in SUBSET Row, Return(S), clock' = clock + 1,
           UNCHANGED <<webhookVars, table>>,
           IsFiniteSet(S), \A x \in S : x.at <= clock + 1,
           CallsIn(S) \subseteq CallsIn(fresh),
           Whole(S), \A x \in ToolsIn(S) : OutputIsOwn(x)
    PROVE  Parts'
<1> USE DEF Parts
<1>1. clock' \in Nat /\ clock <= clock'
  BY DEF TypeOK
<1>2. outbox' = outbox \cup {S}
  BY DEF Return, Returned
<1>3. TypeOK'
  BY <1>1, <1>2, ForgetTypes, FS_EmptySet
     DEF TypeOK, Return, LeaveLoop, webhookVars
<1>4. Saved'
  <2>1. Young(table)'
    BY <1>1, StaysYoung DEF Saved, TypeOK, Young
  <2>2. (\A rows \in outbox : Young(rows))'
    <3> SUFFICES ASSUME NEW rows \in outbox' PROVE Young(rows)'
      OBVIOUS
    <3>1. CASE rows = S
      BY <3>1 DEF Young
    <3>2. CASE rows \in outbox
      BY <1>1, <3>2, StaysYoung DEF Saved, TypeOK
    <3> QED
      BY <1>2, <3>1, <3>2
  <2>3. Apart(S, table) /\ \A rows \in outbox : Apart(rows, S) /\ Apart(S, rows)
    BY DEF Rounding, Apart
  <2>4. (\A rows \in outbox : Apart(rows, table))'
    BY <1>2, <2>3 DEF Saved, Apart, CallsIn
  <2>5. (\A rows, others \in outbox : rows # others => Apart(rows, others))'
    BY <1>2, <2>3 DEF Saved
  <2>6. OutboxSound'
    BY <1>2 DEF Saved, OutboxSound
  <2>7. EveryCallAnswered' /\ OutputsAreTheirOwn'
    BY DEF Saved, EveryCallAnswered, OutputsAreTheirOwn
  <2> QED
    BY <2>1, <2>2, <2>4, <2>5, <2>6, <2>7 DEF Saved
<1>5. Rounding'
  BY ForgetRounding DEF Return, LeaveLoop
<1>6. Webhooks'
  BY DEF Webhooks, PlainRowsAreStored, webhookVars, TypeOK, Row
<1> QED
  BY <1>3, <1>4, <1>5, <1>6

\* A text is returned alone.
LEMMA TextStep == Parts /\ TextResponse => Parts'
<1> SUFFICES ASSUME Parts, TextResponse PROVE Parts'
  OBVIOUS
<1> DEFINE reply == Plain(clock + 1, "reply")
<1>1. clock' = clock + 1 /\ UNCHANGED <<webhookVars, table>>
  BY DEF TextResponse
<1>2. CASE Continue
  BY <1>1, <1>2, ContinueStep
<1>3. CASE Return({reply})
  <2>1. {reply} \in SUBSET Row
    BY PlainIsRow DEF Parts, TypeOK, Kinds
  <2>2. reply.kind = "reply" /\ reply.at = clock + 1
    BY DEF Plain
  <2>3. CallsIn({reply}) = {} /\ ToolsIn({reply}) = {}
    BY <2>2 DEF CallsIn, ToolsIn
  <2>4. Whole({reply})
    BY <2>3 DEF Whole
  <2> HIDE DEF reply
  <2>5. IsFiniteSet({reply})
    BY FS_Singleton
  <2>6. \A x \in {reply} : x.at <= clock + 1
    BY <2>2 DEF Parts, TypeOK
  <2> QED
    BY <1>1, <1>3, <2>1, <2>3, <2>4, <2>5, <2>6, ReturnStep
<1> QED
  BY <1>2, <1>3 DEF TextResponse

\* Tools are asked for: the call is younger than all others.
LEMMA AskStep == Parts /\ ToolResponse => Parts'
<1> SUFFICES ASSUME Parts, ToolResponse PROVE Parts'
  OBVIOUS
<1>1. clock' = clock + 1 /\ UNCHANGED <<webhookVars, table>>
  BY DEF ToolResponse
<1>2. CASE Continue
  BY <1>1, <1>2, ContinueStep
<1>3. CASE ~Continue
  <2> USE DEF Parts
  <2>1. PICK names \in Responses :
          /\ pc' = "tools"
          /\ asked' = CallRow(clock + 1, names)
          /\ todo' = 1
          /\ result' = NoId
          /\ fresh' = {CallRow(clock + 1, names)}
          /\ UNCHANGED <<buffer, batch, prompt, outbox>>
    BY <1>3 DEF ToolResponse
  <2> DEFINE call == CallRow(clock + 1, names)
  <2>2. call \in Row /\ Len(names) \in Nat \ {0}
    BY CallIsRow, ResponseIsSeq DEF TypeOK
  <2>3. call.kind = "call" /\ call.at = clock + 1 /\ call.names = names
    BY DEF CallRow
  <2> HIDE DEF call
  <2>4. clock \in Nat /\ clock' \in Nat /\ clock <= clock'
    BY <1>1 DEF TypeOK
  <2>5. TypeOK'
    BY <1>1, <2>1, <2>2, <2>4 DEF TypeOK, webhookVars, InLoop, call
  <2>6. Saved'
    BY <1>1, <2>1, <2>4, SavedStays
  <2>7. fresh' = {call} /\ asked' = call
    BY <2>1 DEF call
  <2>8. CallsIn(fresh)' = {call} /\ ToolsIn(fresh)' = {}
    BY <2>3, <2>7 DEF CallsIn, ToolsIn
  <2>9. Rounding'
    <3>1. Young(fresh)'
      <4>1. IsFiniteSet(fresh')
        BY <2>7, FS_Singleton
      <4>2. \A x \in fresh' : x.at <= clock'
        BY <1>1, <2>3, <2>4, <2>7
      <4> QED
        BY <4>1, <4>2 DEF Young
    <3>2. Apart(fresh, table)'
      <4>1. \A d \in CallsIn(table) : d.at \in Nat /\ d.at <= clock
        BY DEF Saved, Young, CallsIn, TypeOK, Row
      <4> QED
        BY <1>1, <2>3, <2>4, <2>8, <4>1 DEF Apart, CallsIn
    <3>3. (\A rows \in outbox : Apart(rows, fresh))'
      <4>1. \A rows \in outbox : \A d \in CallsIn(rows) :
              d.at \in Nat /\ d.at <= clock
        BY DEF Saved, Young, CallsIn, TypeOK, Row
      <4> QED
        BY <2>1, <2>3, <2>4, <2>8, <4>1 DEF Apart
    <3>4. RoundProgress'
      <4>1. /\ todo' \in 1 .. Len(asked'.names) + 1
            /\ todo' <= Len(asked'.names)
            /\ 1 .. todo' - 1 = {}
        BY <2>1, <2>2, <2>3, <2>7
      <4> QED
        BY <2>1, <2>7, <2>8, <4>1 DEF RoundProgress
    <3>5. OrphansOnlyAtWindowStart'
      BY <2>1 DEF Rounding, OrphansOnlyAtWindowStart
    <3> QED
      BY <3>1, <3>2, <3>3, <3>4, <3>5 DEF Rounding
  <2>10. Webhooks'
    BY <1>1, <2>4 DEF Webhooks, PlainRowsAreStored, webhookVars, TypeOK, Row
  <2> QED
    BY <2>5, <2>6, <2>9, <2>10
<1> QED
  BY <1>2, <1>3

\* A call is answered, whatever with.
LEMMA AnswerStep ==
    ASSUME Parts, pc = "tools", NextCall,
           NEW content \in Ids \cup {NoId},
           fresh' = fresh \cup {Answer(content)},
           OutputIsOwn(Answer(content)),
           result' \in {result, <<asked.at, todo>>}
    PROVE  Parts'
<1> USE DEF Parts
<1> DEFINE new == Answer(content)
<1>1. /\ clock \in Nat /\ clock' = clock + 1 /\ clock' \in Nat
      /\ todo \in Nat \ {0} /\ todo' = todo + 1
      /\ UNCHANGED <<written, storing, entering, table, buffer, batch,
                     prompt, asked, outbox>>
  BY DEF TypeOK, NextCall, webhookVars
<1>2. /\ CallsIn(fresh) = {asked} /\ asked \in fresh
      /\ Len(asked.names) \in Nat /\ todo <= Len(asked.names)
      /\ todo \in DOMAIN asked.names /\ asked.names[todo] \in Names
      /\ asked.at \in Nat /\ asked.at <= clock
  <2>1. CallsIn(fresh) = {asked} /\ todo <= Len(asked.names)
    BY DEF Rounding, RoundProgress
  <2>2. asked \in fresh
    BY <2>1 DEF CallsIn
  <2>3. asked.names \in Seq(Names) /\ asked.at \in Nat
    BY DEF TypeOK, Row
  <2>4. asked.at <= clock
    BY <2>2 DEF Rounding, Young
  <2> QED
    BY <1>1, <2>1, <2>2, <2>3, <2>4, ElementOfSeq, LenProperties
<1>3. /\ new.kind = "tool" /\ new.at = clock + 1
      /\ new.id = <<asked.at, todo>> /\ new.names = <<asked.names[todo]>>
  BY DEF Answer, ToolRow
<1>4. new \in Row
  <2>1. <<asked.at, todo>> \in Ids
    BY <1>1, <1>2 DEF Ids
  <2> QED
    BY <1>1, <1>2, <2>1, ToolIsRow DEF Answer
<1> HIDE DEF new
<1>5. pc' \in {"tools", "final"} /\ (pc' = "tools" <=> todo' <= Len(asked.names))
  BY <1>1, <1>2 DEF NextCall
<1>6. TypeOK'
  <2>1. fresh' \subseteq Row
    BY <1>4 DEF TypeOK, new
  <2>2. result' \in Ids \cup {NoId}
    BY <1>1, <1>2 DEF TypeOK, Ids
  <2> QED
    BY <1>1, <1>5, <2>1, <2>2 DEF TypeOK, InLoop
<1>7. Saved'
  BY <1>1, SavedStays
<1>8. Webhooks'
  BY <1>1 DEF Webhooks, PlainRowsAreStored, TypeOK, Row
<1>9. fresh' = fresh \cup {new} /\ OutputIsOwn(new)
  BY DEF new
<1>10. CallsIn(fresh)' = {asked} /\ ToolsIn(fresh)' = ToolsIn(fresh) \cup {new}
  BY <1>2, <1>3, <1>9 DEF CallsIn, ToolsIn
<1>11. Young(fresh)'
  <2>1. IsFiniteSet(fresh')
    BY <1>9, FS_AddElement DEF Rounding, Young
  <2>2. \A x \in fresh : x.at \in Nat /\ x.at <= clock
    BY DEF Rounding, Young, TypeOK, Row
  <2>3. \A x \in fresh' : x.at <= clock'
    BY <1>1, <1>3, <1>9, <2>2
  <2> QED
    BY <2>1, <2>3 DEF Young
<1>12. RoundProgress'
  <2>1. \A x \in ToolsIn(fresh) :
          /\ Answers(x, asked) /\ x.id[2] < todo /\ x.id[2] \in Nat
          /\ x.at \in Nat /\ x.at <= clock /\ OutputIsOwn(x)
    BY <1>2, LenProperties
       DEF Rounding, RoundProgress, Young, ToolsIn, Answers, TypeOK, Row
  <2>2. Answers(new, asked)
    BY <1>1, <1>2, <1>3 DEF Answers
  <2>3. \A x \in ToolsIn(fresh)' : Answers(x, asked) /\ x.id[2] < todo'
    <3>1. \A x \in ToolsIn(fresh) : Answers(x, asked) /\ x.id[2] < todo'
      BY <1>1, <2>1
    <3>2. Answers(new, asked) /\ new.id[2] < todo'
      BY <1>1, <1>3, <2>2
    <3> QED
      BY <1>10, <3>1, <3>2
  <2>4. \A i \in 1 .. todo' - 1 :
          \E x \in ToolsIn(fresh)' : x.id = <<asked.at, i>>
    <3>1. todo' - 1 = todo /\ 1 .. todo = (1 .. todo - 1) \cup {todo}
      BY <1>1
    <3> SUFFICES ASSUME NEW i \in (1 .. todo - 1) \cup {todo}
                 PROVE  \E x \in ToolsIn(fresh)' : x.id = <<asked.at, i>>
      BY <3>1
    <3>2. CASE i = todo
      BY <1>3, <1>10, <3>2
    <3>3. CASE i \in 1 .. todo - 1
      BY <1>10, <3>3 DEF Rounding, RoundProgress
    <3> QED
      BY <3>2, <3>3
  <2>5. \A x, y \in ToolsIn(fresh)' :
          /\ x.id[2] < y.id[2] => x.at < y.at
          /\ x.id[2] = y.id[2] => x = y
    <3> SUFFICES ASSUME NEW x \in ToolsIn(fresh)', NEW y \in ToolsIn(fresh)'
                 PROVE  /\ x.id[2] < y.id[2] => x.at < y.at
                        /\ x.id[2] = y.id[2] => x = y
      OBVIOUS
    <3>1. CASE x \in ToolsIn(fresh) /\ y \in ToolsIn(fresh)
      BY <3>1 DEF Rounding, RoundProgress
    <3>2. CASE x = new /\ y \in ToolsIn(fresh)
      BY <1>1, <1>3, <2>1, <3>2
    <3>3. CASE y = new /\ x \in ToolsIn(fresh)
      BY <1>1, <1>3, <2>1, <3>3
    <3>4. CASE x = new /\ y = new
      BY <1>1, <1>3, <3>4
    <3> QED
      BY <1>10, <3>1, <3>2, <3>3, <3>4
  <2>6. result' # NoId => result'[1] = asked.at /\ result'[2] < todo'
    <3>1. CASE result' = result
      <4>1. result # NoId =>
              result[1] = asked.at /\ result[2] < todo /\ result[2] \in Nat
        BY DEF Rounding, RoundProgress, TypeOK, Ids
      <4> QED
        BY <1>1, <3>1, <4>1
    <3>2. CASE result' = <<asked.at, todo>>
      BY <1>1, <3>2
    <3> QED
      BY <3>1, <3>2
  <2>7. \A x \in ToolsIn(fresh)' : OutputIsOwn(x)
    BY <1>9, <1>10, <2>1
  <2>8. todo' \in 1 .. Len(asked.names) + 1
    BY <1>1, <1>2
  <2> QED
    BY <1>1, <1>5, <1>10, <2>3, <2>4, <2>5, <2>6, <2>7, <2>8
       DEF RoundProgress, Answers, OutputIsOwn
<1>13. Rounding'
  <2>1. Apart(fresh, table)' /\ (\A rows \in outbox : Apart(rows, fresh))'
    BY <1>1, <1>2, <1>10 DEF Rounding, Apart, CallsIn
  <2>2. OrphansOnlyAtWindowStart'
    BY <1>1 DEF Rounding, OrphansOnlyAtWindowStart
  <2> QED
    BY <1>11, <1>12, <2>1, <2>2 DEF Rounding
<1> QED
  BY <1>6, <1>7, <1>8, <1>13

\* Each of the three ways a tool call can go answers it.
LEMMA ToolStep ==
    Parts /\ (ToolRuns \/ ToolUnknown \/ ToolFails) => Parts'
<1> SUFFICES ASSUME Parts, ToolRuns \/ ToolUnknown \/ ToolFails
             PROVE  Parts'
  OBVIOUS
<1>1. \A content : /\ Answer(content).content = content
                   /\ Answer(content).id = <<asked.at, todo>>
                   /\ Answer(content).names = <<asked.names[todo]>>
  BY DEF Answer, ToolRow
<1>2. CASE ToolRuns
  <2>1. <<asked.at, todo>> \in Ids
    BY DEF Parts, TypeOK, Row, Ids
  <2>2. OutputIsOwn(Answer(<<asked.at, todo>>))
    BY <1>1 DEF OutputIsOwn
  <2> QED
    BY <1>2, <2>1, <2>2, AnswerStep DEF ToolRuns
<1>3. CASE ToolUnknown
  <2>1. result \in Ids \cup {NoId} /\ result # NoId
    BY <1>3 DEF Parts, TypeOK, ToolUnknown
  <2>2. result[1] = asked.at /\ result[2] < todo
    BY <1>3 DEF Parts, Rounding, RoundProgress, ToolUnknown
  <2>3. OutputIsOwn(Answer(result))
    BY <1>1, <1>3, <2>1, <2>2 DEF OutputIsOwn, ToolUnknown
  <2> QED
    BY <1>3, <2>1, <2>3, AnswerStep DEF ToolUnknown
<1>4. CASE ToolFails
  <2>1. OutputIsOwn(Answer(NoId))
    BY <1>1 DEF OutputIsOwn
  <2> QED
    BY <1>4, <2>1, AnswerStep DEF ToolFails
<1> QED
  BY <1>2, <1>3, <1>4

\* When all calls have been answered, the exchange is whole.
LEMMA FinalStep == Parts /\ FinalResponse => Parts'
<1> SUFFICES ASSUME Parts, FinalResponse PROVE Parts'
  OBVIOUS
<1> DEFINE reply == Plain(clock + 1, "reply")
           S     == fresh \cup {reply}
<1>1. clock' = clock + 1 /\ UNCHANGED <<webhookVars, table>>
  BY DEF FinalResponse
<1>2. CASE Continue
  BY <1>1, <1>2, ContinueStep
<1>3. CASE Return(S)
  <2>1. reply \in Row /\ reply.kind = "reply" /\ reply.at = clock + 1
    <3>1. reply \in Row
      BY PlainIsRow DEF Parts, TypeOK, Kinds
    <3>2. reply.kind = "reply" /\ reply.at = clock + 1
      BY DEF Plain
    <3> QED
      BY <3>1, <3>2
  <2> HIDE DEF reply
  <2>2. CallsIn(S) = CallsIn(fresh) /\ ToolsIn(S) = ToolsIn(fresh)
    BY <2>1, PlainAdds
  <2>3. S \in SUBSET Row
    BY <2>1 DEF Parts, TypeOK
  <2>4. IsFiniteSet(S)
    BY FS_AddElement DEF Parts, Rounding, Young
  <2>5. \A x \in S : x.at <= clock + 1
    <3>1. \A x \in fresh : x.at \in Nat /\ x.at <= clock
      BY DEF Parts, Rounding, Young, TypeOK, Row
    <3> QED
      BY <2>1, <3>1 DEF Parts, TypeOK
  <2>6. /\ CallsIn(fresh) = {asked}
        /\ todo = Len(asked.names) + 1
        /\ asked.names \in Seq(Names)
        /\ DOMAIN asked.names = 1 .. todo - 1
    <3>1. /\ CallsIn(fresh) = {asked} /\ todo \in 1 .. Len(asked.names) + 1
          /\ ~(todo <= Len(asked.names))
      BY DEF Parts, Rounding, RoundProgress, FinalResponse
    <3>2. asked.names \in Seq(Names)
      BY DEF Parts, TypeOK, Row
    <3>3. Len(asked.names) \in Nat
          /\ DOMAIN asked.names = 1 .. Len(asked.names)
      BY <3>2, LenProperties
    <3>4. todo = Len(asked.names) + 1
      BY <3>1, <3>3
    <3> QED
      BY <3>1, <3>2, <3>3, <3>4
  <2>7. Whole(S)
    <3>1. \A x \in ToolsIn(S) : \E c \in CallsIn(S) : Answers(x, c)
      BY <2>2, <2>6 DEF Parts, Rounding, RoundProgress, FinalResponse
    <3>2. \A c \in CallsIn(S) : \A i \in DOMAIN c.names :
             \E x \in ToolsIn(S) : x.id = <<c.at, i>>
      BY <2>2, <2>6 DEF Parts, Rounding, RoundProgress, FinalResponse
    <3>3. \A x, y \in ToolsIn(S) :
             /\ x.id[2] < y.id[2] => x.at < y.at
             /\ x.id[2] = y.id[2] => x = y
      BY <2>2 DEF Parts, Rounding, RoundProgress, FinalResponse
    <3> QED
      BY <3>1, <3>2, <3>3 DEF Whole
  <2>8. \A x \in ToolsIn(S) : OutputIsOwn(x)
    BY <2>2 DEF Parts, Rounding, RoundProgress, FinalResponse
  <2> HIDE DEF S
  <2> QED
    BY <1>1, <1>3, <2>2, <2>3, <2>4, <2>5, <2>7, <2>8, ReturnStep
<1> QED
  BY <1>2, <1>3 DEF FinalResponse

-----------------------------------------------------------------------------
(* Steps of the outbox.                                                    *)

\* A generation's rows are saved together.
LEMMA SaveStep ==
    ASSUME NEW rows \in outbox
    PROVE  Parts /\ Save(rows) => Parts'
<1> SUFFICES ASSUME TypeOK, Saved, Rounding, Webhooks, Save(rows)
             PROVE  (TypeOK /\ Saved /\ Rounding /\ Webhooks)'
  BY DEF Parts
<1>1. /\ outbox' = outbox \ {rows} /\ table' = table \cup rows
      /\ UNCHANGED <<clock, webhookVars, buffer, roundVars>>
  BY DEF Save
<1>2. rows \subseteq Row
  BY DEF TypeOK
<1>3. TypeOK'
  BY <1>1, <1>2 DEF TypeOK, webhookVars, roundVars
<1>4. /\ CallsIn(table)' = CallsIn(table) \cup CallsIn(rows)
      /\ ToolsIn(table)' = ToolsIn(table) \cup ToolsIn(rows)
  BY <1>1 DEF CallsIn, ToolsIn
<1>5. Saved'
  <2>1. Young(table)'
    BY <1>1, FS_Union DEF Saved, Young
  <2>2. (\A others \in outbox : Young(others))'
    BY <1>1 DEF Saved, Young
  <2>3. (\A others \in outbox : Apart(others, table))'
    BY <1>1, <1>4 DEF Saved, Apart
  <2>4. (\A some, others \in outbox : some # others => Apart(some, others))'
    BY <1>1 DEF Saved
  <2>5. OutboxSound'
    BY <1>1 DEF Saved, OutboxSound
  <2>6. EveryCallAnswered'
    <3>1. Whole(table) /\ Whole(rows) /\ Apart(table, rows)
      BY DEF Saved, EveryCallAnswered, OutboxSound, Apart
    <3> QED
      BY <1>1, <3>1, WholeUnion DEF EveryCallAnswered
  <2>7. OutputsAreTheirOwn'
    BY <1>4 DEF Saved, OutputsAreTheirOwn, OutboxSound
  <2> QED
    BY <2>1, <2>2, <2>3, <2>4, <2>5, <2>6, <2>7 DEF Saved
<1>6. Rounding'
  <2>1. Young(fresh)'
    BY <1>1 DEF Rounding, Young, roundVars
  <2>2. Apart(fresh, table)'
    BY <1>1, <1>4 DEF Rounding, Apart, CallsIn, roundVars
  <2>3. (\A others \in outbox : Apart(others, fresh))'
    BY <1>1 DEF Rounding, roundVars
  <2>4. RoundProgress' /\ OrphansOnlyAtWindowStart'
    BY <1>1 DEF Rounding, RoundProgress, OrphansOnlyAtWindowStart, roundVars
  <2> QED
    BY <2>1, <2>2, <2>3, <2>4 DEF Rounding
<1>7. Webhooks'
  BY <1>1 DEF Webhooks, PlainRowsAreStored, webhookVars
<1> QED
  BY <1>3, <1>5, <1>6, <1>7

\* Or all of them are lost.
LEMMA SaveFailsStep ==
    ASSUME NEW rows \in outbox
    PROVE  Parts /\ SaveFails(rows) => Parts'
<1> SUFFICES ASSUME TypeOK, Saved, Rounding, Webhooks, SaveFails(rows)
             PROVE  (TypeOK /\ Saved /\ Rounding /\ Webhooks)'
  BY DEF Parts
<1>1. /\ outbox' = outbox \ {rows}
      /\ UNCHANGED <<clock, webhookVars, table, buffer, roundVars>>
  BY DEF SaveFails
<1>2. clock' \in Nat /\ clock <= clock'
  BY <1>1 DEF TypeOK
<1>3. TypeOK'
  BY <1>1 DEF TypeOK, webhookVars, roundVars
<1>4. Saved'
  BY <1>1, <1>2, SavedStays
<1>5. Rounding'
  BY <1>1, <1>2, RoundingStays DEF CallsIn
<1>6. Webhooks'
  BY <1>1 DEF Webhooks, PlainRowsAreStored, webhookVars
<1> QED
  BY <1>3, <1>4, <1>5, <1>6

-----------------------------------------------------------------------------
(* The theorems.                                                           *)

\* Every step preserves the invariant.
LEMMA NextInv == ToolCallsInv /\ [Next]_vars => ToolCallsInv'
<1> SUFFICES ASSUME Parts, [Next]_vars PROVE Parts'
  BY InvByParts
<1>1. CASE Write
  BY <1>1, WriteStep
<1>2. CASE \E x \in storing : Store(x) \/ StoreFails(x)
  BY <1>2, StoreStep
<1>3. CASE \E x \in entering : GenerateResponse(x) \/ HandleCommand(x)
  BY <1>3, GenerateStep, CommandStep
<1>4. CASE Round
  <2>1. CASE ReadHistory
    BY <2>1, ReadStep
  <2>2. CASE TextResponse
    BY <2>2, TextStep
  <2>3. CASE ToolResponse
    BY <2>3, AskStep
  <2>4. CASE ToolRuns \/ ToolUnknown \/ ToolFails
    BY <2>4, ToolStep
  <2>5. CASE FinalResponse
    BY <2>5, FinalStep
  <2>6. CASE GiveUp
    BY <2>6, LeaveStep DEF GiveUp, webhookVars
  <2> QED
    BY <1>4, <2>1, <2>2, <2>3, <2>4, <2>5, <2>6 DEF Round
<1>5. CASE \E rows \in outbox : Save(rows) \/ SaveFails(rows)
  BY <1>5, SaveStep, SaveFailsStep
<1>6. CASE Restart
  BY <1>6, LeaveStep DEF Restart
<1>7. CASE UNCHANGED vars
  BY <1>7 DEF vars, webhookVars, roundVars, Parts, TypeOK, Saved, Young,
              Rounding, Webhooks, PlainRowsAreStored, OutboxSound,
              EveryCallAnswered, OutputsAreTheirOwn, RoundProgress,
              OrphansOnlyAtWindowStart
<1> QED
  BY <1>1, <1>2, <1>3, <1>4, <1>5, <1>6, <1>7 DEF Next

\* The inductive invariant holds for any tools and names, any number of calls
\* in a response and any history limit.
THEOREM ToolCallsInvariant == Spec => []ToolCallsInv
<1> QED
  BY InitInv, NextInv, PTL DEF Spec

\* Every variable keeps its type.
THEOREM ToolCallsTypes == Spec => []TypeOK
<1>1. ToolCallsInv => TypeOK
  BY DEF ToolCallsInv
<1> QED
  BY <1>1, ToolCallsInvariant, PTL

\* The table holds exactly one tool message for each stored tool call, later
\* than the call and in the order of the calls.
THEOREM CallsAreAnswered == Spec => []EveryCallAnswered
<1>1. ToolCallsInv => EveryCallAnswered
  BY DEF ToolCallsInv
<1> QED
  BY <1>1, ToolCallsInvariant, PTL

\* Only the message of a tool that does not exist can hold another call's
\* output, and then that of an earlier call of the same response.
THEOREM OutputsStayWithCalls == Spec => []OutputsAreTheirOwn
<1>1. ToolCallsInv => OutputsAreTheirOwn
  BY DEF ToolCallsInv
<1> QED
  BY <1>1, ToolCallsInvariant, PTL

\* A prompt lacks the call of a tool message only where the window cuts.
THEOREM WindowCutsAtStart == Spec => []OrphansOnlyAtWindowStart
<1>1. ToolCallsInv => OrphansOnlyAtWindowStart
  BY DEF ToolCallsInv
<1> QED
  BY <1>1, ToolCallsInvariant, PTL
=============================================================================
