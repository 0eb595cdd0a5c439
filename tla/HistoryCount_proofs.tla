------------------------ MODULE HistoryCount_proofs ------------------------
(***************************************************************************)
(* Why _format_messages never meets its "unusual message count" for a      *)
(* batch that the history can hold: the rows of the batch are stored, they *)
(* are as many as its messages, and cutting the history off at its latest  *)
(* rows leaves that many.  And why its slice is the batch when the history *)
(* ends with the batch.  Both rest on the order of created_at: "earlier"   *)
(* is transitive and no row is earlier than itself.  And why a history     *)
(* reads in order, however late its rows are saved: whoever makes a row    *)
(* holds the lock, and the row is later than all that were made before.    *)
(* For every set of users and requests and every history limit.            *)
(***************************************************************************)
EXTENDS MessageBatching_proofs, FiniteSetTheorems

(***************************************************************************)
(* The latest rows of a set.                                               *)
(***************************************************************************)

\* created_at orders the rows strictly.
StrictlyOrdered ==
    /\ \A x \in Row : x \notin earlier[x]
    /\ \A x \in Row : \A y \in earlier[x] : earlier[y] \subseteq earlier[x]

\* The rows of S that are created after y.
After(S, y) == {x \in S : y \in earlier[x]}

\* What follows a row that follows y is part, and not all, of what follows y.
LEMMA LaterHasLess ==
    ASSUME StrictlyOrdered, NEW S \in SUBSET Row, NEW y \in S,
           NEW z \in After(S, y)
    PROVE  After(S, z) \subseteq After(S, y) /\ z \notin After(S, z)
BY DEF StrictlyOrdered, After

\* Of the rows that follow n others or more, one is followed by none of them.
LEMMA LastOfTheRest ==
    ASSUME StrictlyOrdered, NEW S \in SUBSET Row, IsFiniteSet(S),
           NEW T \in SUBSET S, T # {}
    PROVE  \E y \in T : After(S, y) \cap T = {}
<1> DEFINE Rest == {After(S, y) : y \in T}
           R == StrictSubsetOrdering(S)
<1>1. IsWellFoundedOn(R, SUBSET S)
  BY FS_StrictSubsetOrderingWellFounded, FS_FiniteSubsetsOfFinite
<1>2. Rest \subseteq SUBSET S /\ Rest # {}
  BY DEF After
<1>3. PICK A \in Rest : \A B \in Rest : ~(<<B, A>> \in R)
  <2> HIDE DEF Rest, R
  <2> QED
    BY <1>1, <1>2, WFMin
<1>4. PICK y \in T : A = After(S, y)
  BY <1>3
<1>5. ASSUME NEW z \in After(S, y) \cap T
      PROVE  FALSE
  <2>1. After(S, z) \subseteq After(S, y) /\ z \notin After(S, z)
    BY <1>5, LaterHasLess
  <2>2. After(S, z) \in Rest /\ After(S, z) # After(S, y)
    BY <1>5, <2>1
  <2>3. <<After(S, z), A>> \in R
    <3>1. After(S, z) \in SUBSET S /\ A \in SUBSET S
      BY <1>2, <2>2
    <3> QED
      BY <1>4, <2>1, <2>2, <3>1 DEF StrictSubsetOrdering
  <2> QED
    BY <1>3, <2>2, <2>3
<1> QED
  BY <1>5

\* Unless all of S is among its latest n rows, there are n of those.
LEMMA LatestAreMany ==
    ASSUME StrictlyOrdered, NEW S \in SUBSET Row, IsFiniteSet(S),
           NEW n \in Nat, NEW k \in Nat, k <= n, k <= Cardinality(S)
    PROVE  Cardinality(Latest(S, n)) >= k
<1> DEFINE H == Latest(S, n)
<1>1. H \subseteq S /\ IsFiniteSet(H) /\ Cardinality(H) \in Nat
  <2>1. H \in SUBSET S
    BY DEF Latest
  <2>2. IsFiniteSet(H)
    BY <2>1, FS_Subset
  <2> QED
    BY <2>1, <2>2, FS_CardinalityType
<1>2. CASE H = S
  BY <1>2, <1>1
<1>3. CASE H # S
  <2>1. PICK y \in S \ H : After(S, y) \cap (S \ H) = {}
    <3> S \ H # {} /\ S \ H \in SUBSET S
      BY <1>1, <1>3
    <3> HIDE DEF H
    <3> QED
      BY LastOfTheRest
  <2>2. After(S, y) \in SUBSET H
    BY <2>1 DEF After
  <2>3. IsFiniteSet(After(S, y)) /\ Cardinality(After(S, y)) \in Nat
        /\ Cardinality(After(S, y)) <= Cardinality(H)
    <3> HIDE DEF H
    <3>1. IsFiniteSet(After(S, y)) /\ Cardinality(After(S, y)) <= Cardinality(H)
      BY <1>1, <2>2, FS_Subset
    <3> QED
      BY <3>1, FS_CardinalityType
  <2>4. ~(Cardinality(After(S, y)) < n)
    BY <2>1 DEF Latest, After
  <2> QED
    BY <1>1, <2>3, <2>4
<1> QED
  BY <1>2, <1>3

\* A batch without repetition has as many rows as messages.
LEMMA AsManyRows ==
    ASSUME NEW s \in Seq(Chats),
           \A i, j \in 1 .. Len(s) : s[i] = s[j] => i = j
    PROVE  LET B == {UserRow(m) : m \in Elements(s)} IN
           IsFiniteSet(B) /\ Cardinality(B) = Len(s)
<1> DEFINE B == {UserRow(m) : m \in Elements(s)}
           f == [i \in 1 .. Len(s) |-> UserRow(s[i])]
<1>1. Len(s) \in Nat /\ DOMAIN s = 1 .. Len(s)
  OBVIOUS
<1>2. f \in [1 .. Len(s) -> B] /\ \A x \in B : \E i \in 1 .. Len(s) : f[i] = x
  BY <1>1 DEF Elements
<1>3. ASSUME NEW i \in 1 .. Len(s), NEW j \in 1 .. Len(s), f[i] = f[j]
      PROVE  i = j
  BY <1>3 DEF UserRow
<1>4. f \in Injection(1 .. Len(s), B) /\ f \in Surjection(1 .. Len(s), B)
  <2> HIDE DEF f, B
  <2> QED
    BY <1>2, <1>3 DEF Injection, IsInjective, Surjection
<1>5. IsFiniteSet(1 .. Len(s)) /\ Cardinality(1 .. Len(s)) = Len(s)
  <2>1. /\ IsFiniteSet(1 .. Len(s))
        /\ Cardinality(1 .. Len(s)) = IF 1 > Len(s) THEN 0 ELSE Len(s) - 1 + 1
    BY <1>1, FS_Interval
  <2> QED
    BY <1>1, <2>1
<1>6. IsFiniteSet(B) /\ Cardinality(B) = Len(s)
  <2> HIDE DEF f, B
  <2> QED
    BY <1>4, <1>5, FS_Surjection
<1> QED
  BY <1>6

-----------------------------------------------------------------------------
(***************************************************************************)
(* The order of the rows.                                                  *)
(***************************************************************************)

\* A row is earlier than another only if both are constructed and belong to
\* the conversation of one user.
OrderSound ==
    /\ StrictlyOrdered
    /\ IsFiniteSet(created)
    /\ \A x \in Row : earlier[x] \subseteq created \cap RowsOf(Sender[x.of])

\* No row is constructed twice without having been discarded.
FreshFor(r) ==
    /\ pc[r] = "idle" => UserRow(r) \notin created
    /\ pc[r] \in {"idle", "storing", "stored", "history", "llm"}
         => created \cap GeneratedRows(r) = {}
    /\ pc[r] = "tools" => [kind |-> "tool", of |-> r] \notin created
    /\ pc[r] \in {"tools", "final"} => [kind |-> "reply", of |-> r] \notin created
RowsFresh == \A r \in Requests : FreshFor(r)

\* A new row is later than all the others of its user, and they are not later
\* than it.
LEMMA StampOrder ==
    ASSUME TypeOK, OrderSound, NEW z \in Row \ created, Stamp(z)
    PROVE  OrderSound'
<1>1. \A x \in Row : earlier'[x] = IF x = z THEN created \cap RowsOf(Sender[z.of])
                                   ELSE earlier[x]
  BY DEF Stamp, TypeOK
<1>2. created' = created \cup {z} /\ created \subseteq Row
  BY DEF Stamp, TypeOK
<1>3. IsFiniteSet(created')
  BY <1>2, FS_AddElement DEF OrderSound
<1>4. \A x \in Row : earlier'[x] \subseteq created' \cap RowsOf(Sender[x.of])
  BY <1>1, <1>2 DEF OrderSound
<1>5. \A x \in Row : x \notin earlier'[x]
  BY <1>1 DEF OrderSound, StrictlyOrdered
<1>6. ASSUME NEW x \in Row, NEW y \in earlier'[x]
      PROVE  earlier'[y] \subseteq earlier'[x]
  <2>1. y \in created /\ y \in RowsOf(Sender[x.of])
    BY <1>1, <1>6 DEF OrderSound
  <2>2. y \in Row /\ y # z /\ Sender[y.of] = Sender[x.of]
    BY <2>1, <1>2 DEF RowsOf
  <2>3. earlier'[y] = earlier[y]
    BY <1>1, <2>2
  <2>4. CASE x = z
    <3>1. earlier[y] \subseteq created \cap RowsOf(Sender[y.of])
      BY <2>2 DEF OrderSound
    <3> QED
      BY <1>1, <2>2, <2>3, <2>4, <3>1
  <2>5. CASE x # z
    <3>1. earlier'[x] = earlier[x]
      BY <1>1, <2>5
    <3> QED
      BY <1>6, <2>3, <3>1 DEF OrderSound, StrictlyOrdered
  <2> QED
    BY <2>4, <2>5
<1> QED
  BY <1>3, <1>4, <1>5, <1>6 DEF OrderSound, StrictlyOrdered

\* The order of the rows that are kept does not change.
LEMMA DiscardOrder ==
    ASSUME TypeOK, OrderSound, NEW D, Discard(D)
    PROVE  OrderSound'
<1>1. \A x \in Row : earlier'[x] = IF x \in D THEN {} ELSE earlier[x] \ D
  BY DEF Discard
<1>2. created' = created \ D /\ created \subseteq Row
  BY DEF Discard, TypeOK
<1>3. IsFiniteSet(created')
  <2>1. created' \in SUBSET created
    BY <1>2
  <2> QED
    BY <2>1, FS_Subset DEF OrderSound
<1>4. \A x \in Row : earlier'[x] \subseteq created' \cap RowsOf(Sender[x.of])
  BY <1>1, <1>2 DEF OrderSound
<1>5. \A x \in Row : x \notin earlier'[x]
  BY <1>1 DEF OrderSound, StrictlyOrdered
<1>6. ASSUME NEW x \in Row, NEW y \in earlier'[x]
      PROVE  earlier'[y] \subseteq earlier'[x]
  <2>1. x \notin D /\ y \in earlier[x] /\ y \notin D
    BY <1>1, <1>6
  <2>2. y \in Row
    BY <2>1 DEF TypeOK
  <2> QED
    BY <1>1, <2>1, <2>2 DEF OrderSound, StrictlyOrdered
<1> QED
  BY <1>3, <1>4, <1>5, <1>6 DEF OrderSound, StrictlyOrdered

\* A generation constructs its next row: its lock is held, and none of its
\* rows belongs after the new one.
NextRow(r, x) ==
    /\ pc[r] \in InLoop
    /\ x \in GeneratedRows(r) \ created
    /\ Stamp(x)
    /\ \A y \in Generation(r) : Position[y.kind] < Position[x.kind]

\* What a task does to the order of the rows: it leaves them as they are,
\* discards some, or constructs the user's or the next of its own.
HistoryStep(r) ==
    \/ UNCHANGED <<created, earlier>>
    \/ \E D : Discard(D)
    \/ UserRow(r) \notin created /\ Stamp(UserRow(r))
    \/ \E x : NextRow(r, x)

\* The order is preserved by each of them.
LEMMA OrderStep ==
    ASSUME TypeOK, OrderSound, NEW r \in Requests, HistoryStep(r)
    PROVE  OrderSound'
<1>1. CASE UNCHANGED <<created, earlier>>
  BY <1>1 DEF OrderSound, StrictlyOrdered
<1>2. CASE UserRow(r) \notin created /\ Stamp(UserRow(r))
  BY <1>2, StampOrder, RowsOfTask
<1>3. ASSUME NEW x, NextRow(r, x)
      PROVE  OrderSound'
  <2>1. x \in Row \ created /\ Stamp(x)
    BY <1>3, RowsOfTask DEF NextRow
  <2> QED
    BY <2>1, StampOrder
<1> QED
  BY <1>1, <1>2, <1>3, DiscardOrder DEF HistoryStep

\* The rows of a generation by their kinds.
LEMMA OwnKinds ==
    ASSUME NEW r \in Requests, NEW y \in GeneratedRows(r)
    PROVE  /\ y \in {[kind |-> k, of |-> r] : k \in {"call", "tool", "reply"}}
           /\ y.kind \in {"call", "tool", "reply"} /\ y.of = r
BY DEF GeneratedRows

\* The end of the loop constructs the reply or discards what there was.
LEMMA LoopFresh ==
    ASSUME TypeOK, NEW r \in Requests, FreshFor(r), LoopStep(r),
           pc[r] # "tools", ReturnReply(r) => pc[r] \in {"llm", "final"}
    PROVE  HistoryStep(r) /\ FreshFor(r)'
<1>1. CASE ReturnReply(r)
  <2> DEFINE x == [kind |-> "reply", of |-> r]
  <2>1. Stamp(x) /\ pc' = [pc EXCEPT ![r] = "saving"]
    BY <1>1 DEF ReturnReply, LeaveLoop
  <2>2. pc[r] \in InLoop /\ x \in GeneratedRows(r) \ created
    BY <1>1, RowsOfTask DEF FreshFor, LoopStep
  <2>3. pc'[r] = "saving"
    BY <2>1 DEF TypeOK
  <2>4. ASSUME NEW y \in Generation(r)
        PROVE  Position[y.kind] < Position[x.kind]
    <3>1. y \in GeneratedRows(r) /\ y # x
      BY <2>2 DEF Generation
    <3>2. y.kind \in {"call", "tool"} /\ x.kind = "reply"
      BY <3>1, OwnKinds
    <3> QED
      BY <3>2 DEF Position
  <2>5. NextRow(r, x)
    BY <2>1, <2>2, <2>4 DEF NextRow
  <2> QED
    BY <2>5, <2>3 DEF HistoryStep, FreshFor
<1>2. CASE Continue(r) \/ GiveUpLoop(r)
  <2>1. /\ Discard(GeneratedRows(r))
        /\ \E label \in {"history", "apologising"} : pc' = [pc EXCEPT ![r] = label]
    BY <1>2 DEF Continue, LoopTop, GiveUpLoop, LeaveLoop
  <2>2. created' \cap GeneratedRows(r) = {} /\ pc'[r] \in {"history", "apologising"}
    BY <2>1 DEF Discard, TypeOK
  <2> QED
    BY <2>1, <2>2 DEF HistoryStep, FreshFor
<1> QED
  BY <1>1, <1>2 DEF LoopStep

\* Every step of a task constructs rows that are not there yet.
LEMMA OwnFresh ==
    ASSUME TypeOK, NEW r \in Requests, FreshFor(r), Deliver(r) \/ Step(r)
    PROVE  HistoryStep(r) /\ FreshFor(r)'
<1> USE DEF HistoryStep, InLoop
<1>a. ASSUME NEW label, pc' = [pc EXCEPT ![r] = label]
      PROVE  pc'[r] = label
  BY <1>a DEF TypeOK
<1>b. ASSUME NEW label, pc' = [pc EXCEPT ![r] = label], created' \subseteq created,
             label \in {"rejected", "failed", "done", "commanding", "apologising",
                        "sending"}
      PROVE  FreshFor(r)'
  BY <1>a, <1>b DEF FreshFor
<1>1. CASE Deliver(r)
  <2>1. /\ pc[r] = "idle" /\ pc'[r] = "storing"
        /\ created' = created \cup {UserRow(r)} /\ Stamp(UserRow(r))
    BY <1>1, <1>a DEF Deliver, Stamp
  <2>2. UserRow(r) \notin created /\ UserRow(r) \notin GeneratedRows(r)
    BY <2>1, RowsOfTask DEF FreshFor
  <2> QED
    BY <2>1, <2>2 DEF FreshFor
<1>2. CASE StoreMessage(r)
  BY <1>2, <1>a DEF StoreMessage, FreshFor
<1>3. CASE CreateMessageFails(r)
  <2>1. pc' = [pc EXCEPT ![r] = "rejected"] /\ created' \subseteq created
        /\ \E D : Discard(D)
    BY <1>3 DEF CreateMessageFails, Discard
  <2> QED
    BY <2>1, <1>b
<1>4. CASE HandleCommand(r)
  BY <1>4, <1>b DEF HandleCommand, historyVars
<1>5. CASE GenerateResponse(r)
  <2>1. /\ UNCHANGED <<created, earlier>> /\ pc[r] = "stored"
        /\ pc'[r] \in {"apologising", "history"}
    BY <1>5, <1>a DEF GenerateResponse, LoopTop, historyVars
  <2> QED
    BY <2>1 DEF FreshFor
<1>6. CASE ReadHistory(r)
  <2>1. CASE GiveUpLoop(r)
    <3>1. pc[r] = "history" /\ ~ReturnReply(r)
      <4>1. pc[r] = "history" /\ pc'[r] = "apologising"
        BY <1>6, <2>1, <1>a DEF ReadHistory, GiveUpLoop, LeaveLoop
      <4> QED
        BY <4>1, <1>a DEF ReturnReply, LeaveLoop
    <3> QED
      BY <2>1, <3>1, LoopFresh DEF LoopStep
  <2>2. CASE ~GiveUpLoop(r)
    <3>1. /\ UNCHANGED <<created, earlier>> /\ pc[r] = "history"
          /\ pc'[r] = "llm"
      BY <1>6, <2>2, <1>a DEF ReadHistory, historyVars
    <3> QED
      BY <3>1 DEF FreshFor
  <2> QED
    BY <2>1, <2>2
<1>7. CASE InitialResponse(r)
  <2>1. CASE LoopStep(r)
    BY <1>7, <2>1, LoopFresh DEF InitialResponse
  <2>2. CASE ~LoopStep(r)
    <3>1. /\ pc[r] = "llm" /\ pc'[r] = "tools"
          /\ Stamp([kind |-> "call", of |-> r])
          /\ created' = created \cup {[kind |-> "call", of |-> r]}
      BY <1>7, <2>2, <1>a DEF InitialResponse, LoopStep, Stamp
    <3>2. /\ [kind |-> "call", of |-> r] \in GeneratedRows(r) \ created
          /\ [kind |-> "tool", of |-> r] \notin created
          /\ [kind |-> "reply", of |-> r] \notin created
          /\ Generation(r) = {}
      BY <3>1, RowsOfTask DEF FreshFor, Generation
    <3>3. NextRow(r, [kind |-> "call", of |-> r])
      BY <3>1, <3>2 DEF NextRow
    <3>4. HistoryStep(r)
      BY <3>3
    <3> QED
      BY <3>1, <3>2, <3>4 DEF FreshFor
  <2> QED
    BY <2>1, <2>2
<1>8. CASE ProcessToolCalls(r)
  <2>1. /\ pc[r] = "tools" /\ pc'[r] = "final"
        /\ Stamp([kind |-> "tool", of |-> r])
        /\ created' = created \cup {[kind |-> "tool", of |-> r]}
    BY <1>8, <1>a DEF ProcessToolCalls, Stamp
  <2> DEFINE x == [kind |-> "tool", of |-> r]
  <2>2. x \in GeneratedRows(r) \ created /\ [kind |-> "reply", of |-> r] \notin created
    BY <2>1, RowsOfTask DEF FreshFor
  <2>3. ASSUME NEW y \in Generation(r)
        PROVE  Position[y.kind] < Position[x.kind]
    <3>1. y \in GeneratedRows(r) /\ y # x /\ y # [kind |-> "reply", of |-> r]
      BY <2>2 DEF Generation
    <3>2. y.kind = "call" /\ x.kind = "tool"
      BY <3>1, OwnKinds
    <3> QED
      BY <3>2 DEF Position
  <2>4. NextRow(r, x)
    BY <2>1, <2>2, <2>3 DEF NextRow
  <2>5. HistoryStep(r)
    BY <2>4
  <2> QED
    BY <2>1, <2>2, <2>5 DEF FreshFor
<1>9. CASE FinalResponse(r)
  BY <1>9, LoopFresh DEF FinalResponse, LoopStep
<1>10. CASE GiveUp(r)
  <2>1. pc[r] \in InLoop \ {"tools"} /\ GiveUpLoop(r) /\ ~ReturnReply(r)
    <3>1. pc'[r] = "apologising"
      BY <1>10, <1>a DEF GiveUp, GiveUpLoop, LeaveLoop
    <3> QED
      BY <1>10, <3>1, <1>a DEF GiveUp, ReturnReply, LeaveLoop
  <2> QED
    BY <2>1, LoopFresh DEF LoopStep
<1>11. CASE SaveReplies(r)
  BY <1>11, <1>b DEF SaveReplies
<1>12. CASE SaveFails(r)
  <2>1. pc' = [pc EXCEPT ![r] = "failed"] /\ created' \subseteq created
        /\ \E D : Discard(D)
    BY <1>12 DEF SaveFails, Discard
  <2> QED
    BY <2>1, <1>b
<1>13. CASE SendMessage(r)
  BY <1>13, <1>b DEF SendMessage, historyVars
<1> QED
  BY <1>1, <1>2, <1>3, <1>4, <1>5, <1>6, <1>7, <1>8, <1>9, <1>10, <1>11, <1>12,
     <1>13 DEF Step

\* After every step the order is sound and no task has built a row too early.
LEMMA RowsStep ==
    ASSUME TypeOK, OrderSound, RowsFresh, [Next]_vars
    PROVE  OrderSound' /\ RowsFresh'
<1>1. CASE UNCHANGED vars
  <2>1. UNCHANGED <<pc, created, earlier>>
    BY <1>1 DEF vars, historyVars
  <2> QED
    BY <2>1 DEF RowsFresh, FreshFor, OrderSound, StrictlyOrdered
<1>2. CASE Restart
  <2>1. Discard(created \ stored) /\ created' \subseteq created
    BY <1>2 DEF Restart, Discard
  <2>2. \A r \in Requests :
          pc'[r] \in {"idle", "storing", "stored", "history", "llm", "tools",
                      "final"} => pc'[r] = "idle" /\ pc[r] = "idle"
    BY <1>2 DEF Restart, Finished, TypeOK, Labels, InLoop
  <2>3. RowsFresh'
    BY <2>1, <2>2 DEF RowsFresh, FreshFor
  <2> QED
    BY <2>1, <2>3, DiscardOrder
<1>3. ASSUME NEW r \in Requests, Deliver(r) \/ Step(r)
      PROVE  OrderSound' /\ RowsFresh'
  <2>1. HistoryStep(r) /\ FreshFor(r)'
    BY <1>3, OwnFresh DEF RowsFresh
  <2>2. ASSUME NEW q \in Requests, q # r
        PROVE  FreshFor(q)'
    <3>1. OwnRows(r) /\ pc'[q] = pc[q]
      BY <1>3, <2>2, StepRows DEF OwnRows, TypeOK
    <3>2. \A x \in RowsBy(q) : x \in created' <=> x \in created
      BY <2>2, <3>1, RowsByOneTask DEF OwnRows
    <3>3. /\ UserRow(q) \in RowsBy(q) /\ GeneratedRows(q) \subseteq RowsBy(q)
          /\ [kind |-> "tool", of |-> q] \in RowsBy(q)
          /\ [kind |-> "reply", of |-> q] \in RowsBy(q)
      BY RowsOfTask DEF RowsBy
    <3> QED
      BY <3>1, <3>2, <3>3 DEF RowsFresh, FreshFor
  <2> QED
    BY <2>1, <2>2, OrderStep DEF RowsFresh
<1> QED
  BY <1>1, <1>2, <1>3 DEF Next

-----------------------------------------------------------------------------
(***************************************************************************)
(* The buffers, and the theorem.                                           *)
(***************************************************************************)

\* No message is twice in a buffer.
BufferDistinct ==
    \A u \in Users : \A i, j \in 1 .. Len(buffer[u]) :
        buffer[u][i] = buffer[u][j] => i = j

\* A message enters a buffer when it is not there yet.
LEMMA DistinctStep ==
    ASSUME BatchingInv, BufferDistinct, [Next]_vars
    PROVE  BufferDistinct'
<1> USE DEF BatchingInv
<1>1. CASE UNCHANGED buffer
  BY <1>1 DEF BufferDistinct
<1>2. CASE Restart
  <2>1. \A u \in Users : buffer'[u] = <<>>
    BY <1>2 DEF Restart
  <2> QED
    BY <2>1 DEF BufferDistinct
<1>3. ASSUME NEW r \in Requests, GenerateResponse(r)
      PROVE  BufferDistinct'
  <2> DEFINE u == Sender[r]
  <2>1. u \in Users /\ r \in Chats /\ pc[r] = "stored" /\ buffer' = AddMessage(u, r)
    BY <1>3, SenderAssumption DEF GenerateResponse
  <2>2. r \notin Buffered
    BY <2>1 DEF EveryMessageAccounted, Accepted
  <2>3. /\ \A v \in Users : v # u => buffer'[v] = buffer[v]
        /\ buffer'[u] = Append(buffer[u], r) /\ buffer[u] \in Seq(Chats)
    BY <2>1, AddMessageFacts DEF TypeOK
  <2> HIDE DEF u
  <2>4. r \notin Elements(buffer[u])
    BY <2>1, <2>2 DEF Buffered
  <2>5. /\ Len(buffer'[u]) = Len(buffer[u]) + 1 /\ Len(buffer[u]) \in Nat
        /\ DOMAIN buffer[u] = 1 .. Len(buffer[u])
        /\ \A i \in 1 .. Len(buffer[u]) : buffer'[u][i] = buffer[u][i]
        /\ buffer'[u][Len(buffer[u]) + 1] = r
    BY <2>3, <2>1
  <2>6. \A i \in 1 .. Len(buffer[u]) : buffer[u][i] # r
    BY <2>4, <2>5 DEF Elements
  <2>7. \A i, j \in 1 .. Len(buffer[u]) : buffer[u][i] = buffer[u][j] => i = j
    BY <2>1 DEF BufferDistinct
  <2>8. ASSUME NEW i \in 1 .. Len(buffer'[u]), NEW j \in 1 .. Len(buffer'[u]),
               buffer'[u][i] = buffer'[u][j]
        PROVE  i = j
    <3> DEFINE n == Len(buffer[u])
    <3>1. /\ n \in Nat /\ i \in 1 .. n + 1 /\ j \in 1 .. n + 1
          /\ i # n + 1 => i \in 1 .. n
          /\ j # n + 1 => j \in 1 .. n
      BY <2>5
    <3>2. CASE i = n + 1 \/ j = n + 1
      BY <2>5, <2>6, <2>8, <3>1, <3>2
    <3>3. CASE i # n + 1 /\ j # n + 1
      BY <2>5, <2>7, <2>8, <3>1, <3>3
    <3> QED
      BY <3>2, <3>3
  <2> QED
    BY <2>3, <2>8 DEF BufferDistinct
<1>4. ASSUME NEW r \in Requests, LoopStep(r)
      PROVE  BufferDistinct'
  <2>1. \/ UNCHANGED buffer
        \/ buffer' = [buffer EXCEPT ![Sender[r]] = <<>>]
    BY <1>4 DEF LoopStep, ReturnReply, Continue, GiveUpLoop, LeaveLoop,
                ClearMessages, processorVars
  <2>2. \A u \in Users : buffer'[u] \in {buffer[u], <<>>}
    BY <2>1 DEF TypeOK
  <2> QED
    BY <2>2 DEF BufferDistinct
<1> QED
  BY <1>1, <1>2, <1>3, <1>4, StepKinds DEF QuietStep, vars, processorVars

\* The invariant of the chat path, with the order of the rows.
HistoryInv == BatchingInv /\ OrderSound /\ RowsFresh /\ BufferDistinct

\* For every message of a batch there is a row of its own in the table.
LEMMA BatchInTable ==
    ASSUME HistoryInv, NEW r \in Requests, pc[r] = "history"
    PROVE  LET S == stored \cap RowsOf(Sender[r]) IN
           /\ S \in SUBSET Row /\ IsFiniteSet(S)
           /\ BatchRows(r) \in SUBSET S
           /\ Len(batch[r]) \in Nat
           /\ IsFiniteSet(BatchRows(r))
           /\ Cardinality(BatchRows(r)) = Len(batch[r])
<1> USE DEF HistoryInv, BatchingInv
<1> DEFINE u == Sender[r]
           S == stored \cap RowsOf(u)
           n == Len(batch[r])
<1>1. u \in Users /\ buffer[u] \in Seq(Chats) /\ batch[r] \in Seq(Chats)
  BY SenderAssumption DEF TypeOK
<1>2. n \in 1 .. Len(buffer[u]) /\ \A i \in 1 .. n : batch[r][i] = buffer[u][i]
  BY DEF BatchIsPrefix, InLoop
<1>3. S \in SUBSET Row /\ IsFiniteSet(S)
  <2>1. S \in SUBSET created /\ created \subseteq Row
    BY DEF TypeOK
  <2> HIDE DEF S
  <2> QED
    BY <2>1, FS_Subset DEF OrderSound
<1>4. n \in Nat /\ Len(buffer[u]) \in Nat
      /\ \A i \in 1 .. n : i \in 1 .. Len(buffer[u])
  BY <1>1, <1>2
<1>5. \A i, j \in 1 .. n : batch[r][i] = batch[r][j] => i = j
  BY <1>1, <1>2, <1>4 DEF BufferDistinct
<1>6. ASSUME NEW m \in Elements(batch[r])
      PROVE  UserRow(m) \in S
  <2>1. m \in Elements(buffer[u]) /\ m \in Chats
    <3>1. PICK i \in 1 .. n : m = batch[r][i]
      BY <1>1 DEF Elements
    <3>2. i \in DOMAIN buffer[u] /\ m = buffer[u][i]
      BY <1>1, <1>2, <1>4, <3>1
    <3> QED
      BY <1>1, <3>2, ElementsOfSeq DEF Elements
  <2>2. UserRow(m) \in stored /\ Sender[m] = u
    BY <1>1, <2>1 DEF BufferedAreStored, Buffered, BufferedByAuthor
  <2>3. UserRow(m) \in Row /\ UserRow(m).of = m
    BY <2>1, ChatsAssumption, RowsOfTask DEF UserRow
  <2> QED
    BY <2>2, <2>3 DEF RowsOf
<1>7. IsFiniteSet(BatchRows(r)) /\ Cardinality(BatchRows(r)) = n
  BY <1>1, <1>5, AsManyRows DEF BatchRows
<1> QED
  BY <1>3, <1>4, <1>6, <1>7 DEF BatchRows

\* The limit leaves as many rows in the history as the batch has.
LEMMA HistoryHoldsBatch ==
    ASSUME HistoryInv
    PROVE  UnusualCountOnlyBeyondLimit
<1> SUFFICES ASSUME NEW r \in Requests, pc[r] = "history",
                    UnusualCount(Sender[r], Len(batch[r])),
                    ~(Len(batch[r]) > HistoryLimit)
             PROVE  FALSE
  BY DEF UnusualCountOnlyBeyondLimit
<1> DEFINE S == stored \cap RowsOf(Sender[r])
           n == Len(batch[r])
<1>1. /\ S \in SUBSET Row /\ IsFiniteSet(S) /\ BatchRows(r) \in SUBSET S
      /\ n \in Nat /\ Cardinality(BatchRows(r)) = n
  BY BatchInTable
<1> HIDE DEF S, n
<1>2. n <= Cardinality(S)
  BY <1>1, FS_Subset
<1>3. n <= HistoryLimit /\ HistoryLimit \in Nat
  BY <1>1, LimitAssumption DEF n
<1>4. Cardinality(Latest(S, HistoryLimit)) >= n
  BY <1>1, <1>2, <1>3, LatestAreMany DEF HistoryInv, OrderSound
<1>5. Latest(S, HistoryLimit) \in SUBSET S
  BY DEF Latest
<1>6. Cardinality(Latest(S, HistoryLimit)) \in Nat
  BY <1>1, <1>5, FS_Subset, FS_CardinalityType
<1> QED
  BY <1>1, <1>4, <1>6 DEF UnusualCount, History, S, n

\* The last n rows of a set that ends with n rows of a batch are those.
LEMMA SliceIsBatch ==
    ASSUME StrictlyOrdered, NEW H \in SUBSET Row, IsFiniteSet(H),
           NEW B \in SUBSET H, IsFiniteSet(B),
           \A x \in H \ B, b \in B : x \in earlier[b]
    PROVE  Latest(H, Cardinality(B)) = B
<1> DEFINE n == Cardinality(B)
<1>1. n \in Nat
  BY FS_CardinalityType
<1>2. ASSUME NEW b \in B
      PROVE  Cardinality(After(H, b)) < n
  <2>1. After(H, b) \in SUBSET (B \ {b})
    BY DEF After, StrictlyOrdered
  <2>2. IsFiniteSet(B \ {b}) /\ Cardinality(B \ {b}) = n - 1
    BY FS_RemoveElement
  <2>3. IsFiniteSet(After(H, b)) /\ Cardinality(After(H, b)) <= n - 1
    BY <2>1, <2>2, FS_Subset
  <2>4. Cardinality(After(H, b)) \in Nat
    BY <2>3, FS_CardinalityType
  <2> HIDE DEF n
  <2> QED
    BY <1>1, <2>3, <2>4
<1>3. ASSUME NEW x \in H \ B
      PROVE  ~(Cardinality(After(H, x)) < n)
  <2>1. B \in SUBSET After(H, x) /\ After(H, x) \in SUBSET H
    BY DEF After
  <2>2. IsFiniteSet(After(H, x)) /\ Cardinality(After(H, x)) \in Nat
    BY <2>1, FS_Subset, FS_CardinalityType
  <2>3. n <= Cardinality(After(H, x))
    BY <2>1, <2>2, FS_Subset
  <2> HIDE DEF n
  <2> QED
    BY <1>1, <2>2, <2>3
<1>4. \A y \in H : y \in Latest(H, n) <=> Cardinality(After(H, y)) < n
  BY DEF Latest, After
<1>5. Latest(H, n) \subseteq H
  BY DEF Latest
<1> HIDE DEF n
<1>6. Latest(H, n) = B
  BY <1>2, <1>3, <1>4, <1>5
<1> QED
  BY <1>6 DEF n

\* A step that reads the history slices the batch off it if it trails.
LEMMA SliceStep ==
    ASSUME HistoryInv, [Next]_vars, NEW r \in Requests,
           pc[r] = "history", pc'[r] = "llm", BatchTrails(r)
    PROVE  oldRows'[r] = History(Sender[r]) \ BatchRows(r)
<1> USE DEF HistoryInv, BatchingInv
<1> DEFINE u == Sender[r]
           H == History(u)
<1>1. oldRows'[r] = OldMessages(u, Len(batch[r]))
  <2>1. ReadHistory(r)
    <3>1. ~Restart /\ ~UNCHANGED vars
      BY DEF Restart, vars, Finished, TypeOK
    <3>2. PICK q \in Requests : Deliver(q) \/ Step(q)
      BY <3>1 DEF Next
    <3>3. q = r
      BY <3>2, StepRows DEF OwnRows, TypeOK
    <3>4. ~GiveUp(r)
      BY DEF GiveUp, GiveUpLoop, LeaveLoop, TypeOK
    <3> QED
      BY <3>2, <3>3, <3>4
      DEF Deliver, Step, StoreMessage, CreateMessageFails, HandleCommand,
          GenerateResponse, InitialResponse, ProcessToolCalls, FinalResponse,
          SaveReplies, SaveFails, SendMessage, TextAt
  <2>2. ~GiveUpLoop(r)
    BY DEF GiveUpLoop, LeaveLoop, TypeOK
  <2>3. oldRows' = [oldRows EXCEPT ![r] = OldMessages(u, Len(batch[r]))]
    BY <2>1, <2>2 DEF ReadHistory
  <2> QED
    BY <2>3 DEF TypeOK
<1>2. /\ stored \cap RowsOf(u) \in SUBSET Row /\ IsFiniteSet(stored \cap RowsOf(u))
      /\ IsFiniteSet(BatchRows(r)) /\ Cardinality(BatchRows(r)) = Len(batch[r])
  BY BatchInTable
<1>3. H \in SUBSET (stored \cap RowsOf(u)) /\ H \in SUBSET Row /\ IsFiniteSet(H)
  <2>1. H \in SUBSET (stored \cap RowsOf(u))
    BY DEF History, Latest
  <2> HIDE DEF H
  <2> QED
    BY <1>2, <2>1, FS_Subset
<1>4. /\ BatchRows(r) \in SUBSET H
      /\ \A x \in H \ BatchRows(r), b \in BatchRows(r) : x \in earlier[b]
  BY DEF BatchTrails
<1> HIDE DEF H, u
<1>5. Latest(H, Len(batch[r])) = BatchRows(r)
  <2>1. Latest(H, Cardinality(BatchRows(r))) = BatchRows(r)
    BY <1>2, <1>3, <1>4, SliceIsBatch DEF OrderSound
  <2> QED
    BY <1>2, <2>1
<1> QED
  BY <1>1, <1>5 DEF OldMessages, H, u

\* HistoryInv holds in every reachable state.
THEOREM HistoryInvariant == Spec => []HistoryInv
<1>1. Init => OrderSound /\ RowsFresh /\ BufferDistinct
  <2> SUFFICES ASSUME Init PROVE OrderSound /\ RowsFresh /\ BufferDistinct
    OBVIOUS
  <2>1. created = {} /\ \A x \in Row : earlier[x] = {}
    BY DEF Init
  <2>2. OrderSound
    BY <2>1, FS_EmptySet DEF OrderSound, StrictlyOrdered
  <2>3. RowsFresh
    BY <2>1 DEF RowsFresh, FreshFor
  <2>4. BufferDistinct
    BY DEF Init, BufferDistinct
  <2> QED
    BY <2>2, <2>3, <2>4
<1>2. BatchingInv /\ OrderSound /\ RowsFresh /\ BufferDistinct /\ [Next]_vars
        => (OrderSound /\ RowsFresh /\ BufferDistinct)'
  BY RowsStep, DistinctStep DEF BatchingInv
<1> QED
  BY <1>1, <1>2, BatchingInvariant, PTL DEF Spec, HistoryInv

\* For every history limit, _format_messages raises "unusual message count"
\* only for a batch that is longer than the limit: a row of the batch is never
\* missing from the history it is compared with.
THEOREM CountIsUsual == Spec => []UnusualCountOnlyBeyondLimit
<1>1. HistoryInv => UnusualCountOnlyBeyondLimit
  BY HistoryHoldsBatch
<1> QED
  BY <1>1, HistoryInvariant, PTL

\* When the batch is what the history ends with, _format_messages removes the
\* batch from it and nothing else, for every history limit.
THEOREM SliceWorks == Spec => SliceRemovesTrailingBatch
<1>1. HistoryInv /\ [Next]_vars
        => [\A r \in Requests :
              pc[r] = "history" /\ pc'[r] = "llm" /\ BatchTrails(r)
                => oldRows'[r] = History(Sender[r]) \ BatchRows(r)]_vars
  BY SliceStep
<1> QED
  BY <1>1, HistoryInvariant, PTL DEF Spec, SliceRemovesTrailingBatch
-----------------------------------------------------------------------------
(***************************************************************************)
(* The conversation that the history is.                                   *)
(***************************************************************************)

\* The generation that runs comes after all others of its user.
LatestGeneration(r) ==
    pc[r] \in InLoop =>
        \A q \in Requests \ {r} : Sender[q] = Sender[r] =>
            RowsBefore(Generation(q), Generation(r))
RunningIsLatest == \A r \in Requests : LatestGeneration(r)

\* Rows that are kept stay in their order.
LEMMA KeptOrder ==
    ASSUME TypeOK, NEW r \in Requests, HistoryStep(r),
           NEW x \in created \cap created', NEW y \in created \cap created',
           x \in earlier[y]
    PROVE  x \in earlier'[y]
<1>1. x \in Row /\ y \in Row
  BY DEF TypeOK
<1>2. ASSUME NEW D, Discard(D)
      PROVE  x \in earlier'[y]
  BY <1>1, <1>2 DEF Discard
<1>3. ASSUME NEW z, z \notin created, Stamp(z)
      PROVE  x \in earlier'[y]
  BY <1>1, <1>3 DEF Stamp, TypeOK
<1> QED
  BY <1>2, <1>3 DEF HistoryStep, NextRow

\* So do the rows of two generations that are not joined by new ones.
LEMMA KeptApart ==
    ASSUME TypeOK, NEW r \in Requests, HistoryStep(r),
           NEW p \in Requests, NEW q \in Requests,
           Generation(p)' \subseteq Generation(p),
           Generation(q)' \subseteq Generation(q),
           RowsBefore(Generation(p), Generation(q))
    PROVE  RowsBefore(Generation(p), Generation(q))'
<1>1. ASSUME NEW x \in Generation(p)', NEW y \in Generation(q)'
      PROVE  x \in earlier'[y]
  <2>1. x \in created \cap created' /\ y \in created \cap created'
    BY <1>1 DEF Generation
  <2>2. x \in earlier[y]
    BY <1>1 DEF RowsBefore
  <2> QED
    BY <2>1, <2>2, KeptOrder
<1> QED
  BY <1>1 DEF RowsBefore

\* A task adds rows to its own generation only, and only while it runs.
LEMMA OthersGeneration ==
    ASSUME TypeOK, NEW r \in Requests, Deliver(r) \/ Step(r), HistoryStep(r)
    PROVE  /\ \A q \in Requests \ {r} : Generation(q)' \subseteq Generation(q)
           /\ \/ Generation(r)' \subseteq Generation(r)
              \/ \E x : NextRow(r, x)
<1>1. ASSUME NEW q \in Requests, q # r
      PROVE  Generation(q)' \subseteq Generation(q)
  <2>1. OwnRows(r)
    BY StepRows
  <2>2. \A x \in RowsBy(q) : x \in created' <=> x \in created
    BY <1>1, <2>1, RowsByOneTask DEF OwnRows
  <2> QED
    BY <2>2 DEF Generation, RowsBy
<1>2. CASE UserRow(r) \notin created /\ Stamp(UserRow(r))
  BY <1>2, RowsOfTask DEF Stamp, Generation
<1>3. ASSUME NEW D, Discard(D)
      PROVE  Generation(r)' \subseteq Generation(r)
  BY <1>3 DEF Discard, Generation
<1>4. CASE UNCHANGED <<created, earlier>>
  BY <1>4 DEF Generation
<1> QED
  BY <1>1, <1>2, <1>3, <1>4 DEF HistoryStep

\* The next row of a generation comes after all rows of its user.
LEMMA NextIsLast ==
    ASSUME TypeOK, NEW r \in Requests, NEW z, NextRow(r, z)
    PROVE  /\ Generation(r)' = Generation(r) \cup {z}
           /\ z \notin created
           /\ \A x \in created : Sender[x.of] = Sender[r] => x \in earlier'[z]
           /\ \A q \in Requests : Sender[q] = Sender[r] =>
                \A x \in Generation(q) : x \in earlier'[z]
<1>1. z \in Row /\ z \in GeneratedRows(r) /\ z.of = r
  BY RowsOfTask, OwnKinds DEF NextRow
<1>2. /\ created' = created \cup {z} /\ created \subseteq Row
      /\ earlier'[z] = created \cap RowsOf(Sender[r])
  BY <1>1 DEF NextRow, Stamp, TypeOK
<1>3. \A x \in created : Sender[x.of] = Sender[r] => x \in earlier'[z]
  BY <1>2 DEF RowsOf
<1>4. \A q \in Requests : \A x \in Generation(q) : x \in created /\ x.of = q
  BY OwnKinds DEF Generation
<1> QED
  BY <1>1, <1>2, <1>3, <1>4 DEF Generation, NextRow

\* Within a generation the next row is the last.
LEMMA RoundStep ==
    ASSUME HistoryInv, \A q \in Requests : RoundInOrder(q),
           NEW r \in Requests, Deliver(r) \/ Step(r), HistoryStep(r),
           NEW q \in Requests
    PROVE  RoundInOrder(q)'
<1> USE DEF HistoryInv, BatchingInv
<1>1. CASE Generation(q)' \subseteq Generation(q)
  <2>1. ASSUME NEW x \in Generation(q)', NEW y \in Generation(q)',
               Position[x.kind] < Position[y.kind]
        PROVE  x \in earlier'[y]
    <3>1. x \in created \cap created' /\ y \in created \cap created'
      BY <1>1, <2>1 DEF Generation
    <3>2. x \in earlier[y]
      BY <1>1, <2>1 DEF RoundInOrder
    <3> QED
      BY <3>1, <3>2, KeptOrder
  <2> QED
    BY <2>1 DEF RoundInOrder
<1>2. ASSUME q = r, NEW z, NextRow(r, z)
      PROVE  RoundInOrder(q)'
  <2>1. /\ Generation(r)' = Generation(r) \cup {z} /\ z \notin created
        /\ \A x \in Generation(r) : x \in earlier'[z]
    BY <1>2, NextIsLast
  <2>2. ASSUME NEW x \in Generation(r)', NEW y \in Generation(r)',
               Position[x.kind] < Position[y.kind]
        PROVE  x \in earlier'[y]
    <3>1. CASE y = z
      <4>1. x \in GeneratedRows(r) /\ y \in GeneratedRows(r)
        BY <2>2 DEF Generation
      <4>2. x # z
        BY <2>2, <3>1, <4>1, OwnKinds DEF Position
      <4> QED
        BY <2>1, <2>2, <3>1, <4>2
    <3>2. CASE y # z /\ x = z
      <4>1. y \in Generation(r) /\ Position[y.kind] < Position[x.kind]
        BY <1>2, <2>1, <2>2, <3>2 DEF NextRow
      <4>2. x.kind \in {"call", "tool", "reply"} /\ y.kind \in {"call", "tool", "reply"}
        BY <2>2, OwnKinds DEF Generation
      <4> QED
        BY <2>2, <4>1, <4>2 DEF Position
    <3>3. CASE y # z /\ x # z
      <4>1. x \in Generation(r) /\ y \in Generation(r)
        BY <2>1, <2>2, <3>3
      <4>2. x \in created \cap created' /\ y \in created \cap created'
        BY <2>2, <4>1 DEF Generation
      <4>3. x \in earlier[y]
        BY <2>2, <4>1 DEF RoundInOrder
      <4> QED
        BY <4>2, <4>3, KeptOrder
    <3> QED
      BY <3>1, <3>2, <3>3
  <2> QED
    BY <1>2, <2>2 DEF RoundInOrder
<1> QED
  BY <1>1, <1>2, OthersGeneration

\* The rows of one generation stay on their side of another's.
Apart(p, q) ==
    \/ RowsBefore(Generation(p), Generation(q))
    \/ RowsBefore(Generation(q), Generation(p))

\* Its next row comes after those of the others.
LEMMA NextAfterOthers ==
    ASSUME HistoryInv, RunningIsLatest, NEW r \in Requests, NEW z, NextRow(r, z),
           Deliver(r) \/ Step(r), HistoryStep(r),
           NEW q \in Requests \ {r}, Sender[q] = Sender[r]
    PROVE  RowsBefore(Generation(q), Generation(r))'
<1> USE DEF HistoryInv, BatchingInv
<1>1. RowsBefore(Generation(q), Generation(r))
  BY DEF RunningIsLatest, LatestGeneration, NextRow
<1>2. /\ Generation(r)' = Generation(r) \cup {z}
      /\ \A x \in Generation(q) : x \in earlier'[z]
  BY NextIsLast
<1>3. Generation(q)' \subseteq Generation(q)
  BY OthersGeneration
<1>4. ASSUME NEW x \in Generation(q)', NEW y \in Generation(r)', y # z
      PROVE  x \in earlier'[y]
  <2>1. x \in Generation(q) /\ y \in Generation(r)
    BY <1>2, <1>3, <1>4
  <2>2. x \in created \cap created' /\ y \in created \cap created'
    BY <1>4, <2>1 DEF Generation
  <2>3. x \in earlier[y]
    BY <1>1, <2>1 DEF RowsBefore
  <2> QED
    BY <2>2, <2>3, KeptOrder
<1> QED
  BY <1>2, <1>3, <1>4 DEF RowsBefore

LEMMA ApartStep ==
    ASSUME HistoryInv, RunningIsLatest,
           \A p, q \in Requests : p # q /\ Sender[p] = Sender[q] => Apart(p, q),
           NEW r \in Requests, Deliver(r) \/ Step(r), HistoryStep(r),
           NEW p \in Requests, NEW q \in Requests, p # q, Sender[p] = Sender[q]
    PROVE  Apart(p, q)'
<1> USE DEF HistoryInv, BatchingInv
<1>1. CASE Generation(p)' \subseteq Generation(p) /\ Generation(q)' \subseteq Generation(q)
  BY <1>1, KeptApart DEF Apart
<1>2. CASE ~(Generation(p)' \subseteq Generation(p))
  <2>1. p = r /\ \E z : NextRow(r, z)
    BY <1>2, OthersGeneration
  <2> QED
    BY <2>1, NextAfterOthers DEF Apart
<1>3. CASE ~(Generation(q)' \subseteq Generation(q))
  <2>1. q = r /\ \E z : NextRow(r, z)
    BY <1>3, OthersGeneration
  <2> QED
    BY <2>1, NextAfterOthers DEF Apart
<1> QED
  BY <1>1, <1>2, <1>3

\* A generation that starts has no rows yet.
LEMMA StartsWithoutRows ==
    ASSUME HistoryInv, HistoryInv', [Next]_vars, NEW r \in Requests,
           pc[r] \notin InLoop, pc'[r] \in InLoop
    PROVE  Generation(r)' = {}
<1> USE DEF HistoryInv, BatchingInv
<1>1. pc'[r] = "history"
  <2>1. ~UNCHANGED vars
    BY DEF vars
  <2>2. ~Restart
    BY DEF Restart, InLoop, Finished, TypeOK
  <2>3. ASSUME NEW q \in Requests, QuietStep(q)
        PROVE  FALSE
    BY <2>3 DEF QuietStep, TypeOK
  <2>4. ASSUME NEW q \in Requests, LoopStep(q)
        PROVE  FALSE
    <3>1. pc[q] \in InLoop
          /\ \E label \in Labels : pc' = [pc EXCEPT ![q] = label]
      BY <2>4 DEF LoopStep, ReturnReply, Continue, GiveUpLoop, LeaveLoop, LoopTop,
                  Labels, InLoop
    <3> QED
      BY <3>1 DEF TypeOK
  <2>5. PICK q \in Requests : GenerateResponse(q)
    BY <2>1, <2>2, <2>3, <2>4, StepKinds
  <2> QED
    BY <2>5 DEF GenerateResponse, LoopTop, InLoop, TypeOK
<1>2. FreshFor(r)'
  BY DEF RowsFresh
<1> QED
  BY <1>1, <1>2 DEF FreshFor, Generation

LEMMA LatestStep ==
    ASSUME HistoryInv, HistoryInv', [Next]_vars, RunningIsLatest,
           NEW r \in Requests, Deliver(r) \/ Step(r), HistoryStep(r)
    PROVE  RunningIsLatest'
<1> USE DEF HistoryInv, BatchingInv
<1> SUFFICES ASSUME NEW q \in Requests, pc'[q] \in InLoop,
                    NEW p \in Requests \ {q}, Sender[p] = Sender[q]
             PROVE  RowsBefore(Generation(p), Generation(q))'
  BY DEF RunningIsLatest, LatestGeneration
<1>1. CASE pc[q] \notin InLoop
  BY <1>1, StartsWithoutRows DEF RowsBefore
<1>2. CASE pc[q] \in InLoop
  <2>1. RowsBefore(Generation(p), Generation(q))
    BY <1>2 DEF RunningIsLatest, LatestGeneration
  <2>2. Generation(p)' \subseteq Generation(p)
    <3>1. CASE p = r
      <4>1. ~\E z : NextRow(r, z)
        BY <1>2, <3>1 DEF NextRow, SingleFlight
      <4> QED
        BY <3>1, <4>1, OthersGeneration
    <3>2. CASE p # r
      BY <3>2, OthersGeneration
    <3> QED
      BY <3>1, <3>2
  <2>3. CASE Generation(q)' \subseteq Generation(q)
    BY <2>1, <2>2, <2>3, KeptApart
  <2>4. CASE ~(Generation(q)' \subseteq Generation(q))
    <3>1. q = r /\ \E z : NextRow(r, z)
      BY <2>4, OthersGeneration
    <3> QED
      BY <3>1, NextAfterOthers
  <2> QED
    BY <2>3, <2>4
<1> QED
  BY <1>1, <1>2

\* A batch holds messages of its user, and they are stored.
LEMMA BatchIsStored ==
    ASSUME BatchingInv, NEW r \in Requests, pc[r] \in InLoop,
           NEW m \in Elements(batch[r])
    PROVE  UserRow(m) \in stored /\ Sender[m] = Sender[r]
<1> USE DEF BatchingInv
<1>1. Sender[r] \in Users /\ buffer[Sender[r]] \in Seq(Chats) /\ batch[r] \in Seq(Chats)
  BY SenderAssumption DEF TypeOK
<1>2. m \in Elements(buffer[Sender[r]])
  <2>1. PICK i \in 1 .. Len(batch[r]) : m = batch[r][i]
    BY <1>1 DEF Elements
  <2>2. i \in DOMAIN buffer[Sender[r]] /\ buffer[Sender[r]][i] = m
    BY <1>1, <2>1 DEF BatchIsPrefix
  <2> QED
    BY <2>2 DEF Elements
<1> QED
  BY <1>1, <1>2 DEF BufferedAreStored, Buffered, BufferedByAuthor

\* Only the return of a reply answers anything.
LEMMA AnswersByReturn ==
    ASSUME TypeOK, [Next]_vars, answers' # answers
    PROVE  \E r \in Requests : LoopStep(r) /\ ReturnReply(r)
<1>1. ~UNCHANGED vars /\ ~Restart
  BY DEF vars, outcomeVars, Restart
<1>2. PICK r \in Requests : QuietStep(r) \/ GenerateResponse(r) \/ LoopStep(r)
  BY <1>1, StepKinds
<1>3. LoopStep(r)
  BY <1>2 DEF QuietStep, GenerateResponse, outcomeVars
<1> QED
  BY <1>3 DEF LoopStep, Continue, GiveUpLoop, outcomeVars

\* An answer comes after the questions it covers, and stays there.
LEMMA AnswersStep ==
    ASSUME HistoryInv, HistoryInv', [Next]_vars,
           \A q \in Requests : AnswersFollow(q),
           NEW r \in Requests, Deliver(r) \/ Step(r), HistoryStep(r),
           NEW q \in Requests
    PROVE  AnswersFollow(q)'
<1> USE DEF HistoryInv, BatchingInv
<1> DEFINE x == [kind |-> "reply", of |-> q]
<1> SUFFICES ASSUME NEW m \in answers'[q], x \in created'
             PROVE  UserRow(m) \in earlier'[x]
  BY DEF AnswersFollow, RowsBefore
<1>1. UserRow(m) \in created'
  BY DEF TaskProgress, ProgressOf, TypeOK
<1>2. CASE answers'[q] = answers[q]
  <2>1. UserRow(m) \in created
    BY <1>2 DEF TaskProgress, ProgressOf, TypeOK
  <2>2. x \in created
    <3>1. ~\E z : NextRow(q, z)
      BY <1>2 DEF NextRow, TaskProgress, ProgressOf, InLoop
    <3>2. Generation(q)' \subseteq Generation(q)
      BY <3>1, OthersGeneration
    <3>3. x \in Generation(q)'
      BY RowsOfTask DEF Generation
    <3> QED
      BY <3>2, <3>3 DEF Generation
  <2>3. UserRow(m) \in earlier[x]
    BY <1>2, <2>2 DEF AnswersFollow, RowsBefore
  <2> QED
    BY <1>1, <2>1, <2>2, <2>3, KeptOrder
<1>3. CASE answers'[q] # answers[q]
  <2>1. PICK p \in Requests : LoopStep(p) /\ ReturnReply(p)
    BY <1>3, AnswersByReturn
  <2>2. answers' = [answers EXCEPT ![p] = Elements(batch[p])]
    BY <2>1 DEF ReturnReply
  <2>3. p = q /\ m \in Elements(batch[q])
    BY <1>3, <2>2 DEF TypeOK
  <2>4. UserRow(m) \in stored /\ Sender[m] = Sender[q]
    BY <2>1, <2>3, BatchIsStored DEF LoopStep
  <2>5. UserRow(m) \in created \cap RowsOf(Sender[q])
    <3>1. UserRow(m) \in created /\ UserRow(m) \in Row /\ UserRow(m).of = m
      BY <2>4 DEF TypeOK, UserRow
    <3> QED
      BY <2>4, <3>1 DEF RowsOf
  <2>6. earlier'[x] = created \cap RowsOf(Sender[q])
    <3>1. Stamp(x)
      BY <2>1, <2>3 DEF ReturnReply
    <3>2. x \in Row /\ x.of = q
      BY RowsOfTask, OwnKinds
    <3> QED
      BY <3>1, <3>2 DEF Stamp, TypeOK
  <2> QED
    BY <2>5, <2>6
<1> QED
  BY <1>2, <1>3

\* A restart only takes rows away.
LEMMA ConversationSurvives ==
    ASSUME HistoryInv, HistoryInv', HistoryReadsInOrder, RunningIsLatest,
           Restart \/ UNCHANGED vars
    PROVE  HistoryReadsInOrder' /\ RunningIsLatest'
<1> USE DEF HistoryInv, BatchingInv
<1>1. /\ answers' = answers /\ created' \subseteq created
      /\ \A r \in Requests : pc'[r] \in InLoop => UNCHANGED vars
      /\ UNCHANGED <<created, earlier>> \/ \E D : Discard(D)
  <2>1. CASE UNCHANGED vars
    BY <2>1 DEF vars, outcomeVars, historyVars
  <2>2. CASE Restart
    BY <2>2 DEF Restart, Discard, InLoop, Finished, TypeOK
  <2> QED
    BY <2>1, <2>2
<1>2. \A r \in Requests : HistoryStep(r) /\ Generation(r)' \subseteq Generation(r)
  BY <1>1 DEF HistoryStep, Generation
<1>3. ASSUME NEW r \in Requests
      PROVE  AnswersFollow(r)'
  <2> DEFINE x == [kind |-> "reply", of |-> r]
  <2> SUFFICES ASSUME NEW m \in answers[r], x \in created'
               PROVE  UserRow(m) \in earlier'[x]
    BY <1>1 DEF AnswersFollow, RowsBefore
  <2>1. UserRow(m) \in created /\ UserRow(m) \in created' /\ x \in created
    BY <1>1 DEF TaskProgress, ProgressOf, TypeOK
  <2>2. UserRow(m) \in earlier[x]
    BY <2>1 DEF HistoryReadsInOrder, AnswersFollow, RowsBefore
  <2> QED
    BY <1>2, <2>1, <2>2, KeptOrder
<1>4. ASSUME NEW r \in Requests
      PROVE  RoundInOrder(r)'
  <2> SUFFICES ASSUME NEW x \in Generation(r)', NEW y \in Generation(r)',
                      Position[x.kind] < Position[y.kind]
               PROVE  x \in earlier'[y]
    BY DEF RoundInOrder
  <2>1. x \in created \cap created' /\ y \in created \cap created'
    BY <1>2 DEF Generation
  <2>2. x \in earlier[y]
    BY <1>2 DEF HistoryReadsInOrder, RoundInOrder
  <2> QED
    BY <1>2, <2>1, <2>2, KeptOrder
<1>5. ASSUME NEW r \in Requests, NEW q \in Requests \ {r}, Sender[q] = Sender[r]
      PROVE  Apart(q, r)'
  BY <1>2, <1>5, KeptApart DEF HistoryReadsInOrder, Apart
<1>6. RunningIsLatest'
  <2>1. CASE UNCHANGED vars
    <3>1. UNCHANGED <<pc, created, earlier>>
      BY <2>1 DEF vars, historyVars
    <3> QED
      BY <3>1 DEF RunningIsLatest, LatestGeneration, RowsBefore, Generation
  <2>2. CASE \A r \in Requests : pc'[r] \notin InLoop
    BY <2>2 DEF RunningIsLatest, LatestGeneration
  <2> QED
    BY <1>1, <2>1, <2>2
<1> QED
  BY <1>3, <1>4, <1>5, <1>6 DEF HistoryReadsInOrder, Apart

\* The inductive invariant of the conversation.
ConversationInv == HistoryReadsInOrder /\ RunningIsLatest

LEMMA ConversationStep ==
    ASSUME HistoryInv, HistoryInv', ConversationInv, [Next]_vars
    PROVE  ConversationInv'
<1> USE DEF ConversationInv
<1>1. CASE Restart \/ UNCHANGED vars
  BY <1>1, ConversationSurvives
<1>2. ASSUME NEW r \in Requests, Deliver(r) \/ Step(r)
      PROVE  ConversationInv'
  <2>1. HistoryStep(r)
    BY <1>2, OwnFresh DEF HistoryInv, BatchingInv, RowsFresh
  <2>2. \A q \in Requests : AnswersFollow(q)'
    BY <1>2, <2>1, AnswersStep DEF HistoryReadsInOrder
  <2>3. \A q \in Requests : RoundInOrder(q)'
    BY <1>2, <2>1, RoundStep DEF HistoryReadsInOrder
  <2>4. \A p, q \in Requests : p # q /\ Sender[p] = Sender[q] => Apart(p, q)'
    <3>1. \A p, q \in Requests : p # q /\ Sender[p] = Sender[q] => Apart(p, q)
      BY DEF HistoryReadsInOrder, Apart
    <3> QED
      BY <1>2, <2>1, <3>1, ApartStep
  <2>5. RunningIsLatest'
    BY <1>2, <2>1, LatestStep
  <2> QED
    BY <2>2, <2>3, <2>4, <2>5 DEF HistoryReadsInOrder, Apart
<1> QED
  BY <1>1, <1>2 DEF Next

\* Read by created_at, the history is the conversation, whatever is saved
\* late, thrown away or lost: answers follow their questions, outputs their
\* calls, and the generations of one user follow each other.
THEOREM HistoryInOrder == Spec => []HistoryReadsInOrder
<1>1. Init => ConversationInv
  BY DEF Init, ConversationInv, HistoryReadsInOrder, AnswersFollow, RoundInOrder,
         RowsBefore, Generation, RunningIsLatest, LatestGeneration, InLoop
<1>2. HistoryInv /\ HistoryInv' /\ ConversationInv /\ [Next]_vars => ConversationInv'
  BY ConversationStep
<1>3. ConversationInv => HistoryReadsInOrder
  BY DEF ConversationInv
<1> QED
  BY <1>1, <1>2, <1>3, HistoryInvariant, PTL DEF Spec
=============================================================================
