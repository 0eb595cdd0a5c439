---------------------- MODULE OnboardingWaits_proofs ----------------------
(***************************************************************************)
(* What the tasks of onboarding can wait for.  A transaction waits for     *)
(* rows, all others wait for a connection, and both are held by            *)
(* transactions alone: locks end with the transaction, connections too.    *)
(* So if nobody can go on, the transactions wait for one another; and of   *)
(* finitely many, some wait in a circle, which PostgreSQL breaks.  For any *)
(* number of forms, classes and connections.                               *)
(***************************************************************************)
EXTENDS Onboarding_proofs, FiniteSetTheorems

\* A message has no transaction to wait in, a form no row to create.
TasksInPlace ==
    /\ \A m \in Messages : pc[m] \in {"idle", "creating", "routing"} \cup Ended
    /\ \A f \in Forms : pc[f] \notin {"creating", "routing"}

\* Messages and forms go their own ways.
LEMMA PlaceStep ==
    ASSUME TypeOK, TasksInPlace, [Next]_vars
    PROVE  TasksInPlace'
<1>0. Messages \cap Forms = {} /\ Tasks = Messages \cup Forms
  BY TasksAssumption DEF Tasks
<1>1. CASE UNCHANGED vars
  BY <1>1 DEF vars, TasksInPlace
<1>2. CASE Restart
  BY <1>0, <1>2 DEF Restart, TasksInPlace, Ended
<1>3. ASSUME NEW m \in Messages, Receive(m) \/ CreateUser(m) \/ Route(m)
      PROVE  TasksInPlace'
  <2>1. \E l \in {"creating", "routing"} \cup Ended : pc' = [pc EXCEPT ![m] = l]
    BY <1>3 DEF Receive, CreateUser, Route, TaskEnds, Ended
  <2>2. PICK l \in {"creating", "routing"} \cup Ended : pc' = [pc EXCEPT ![m] = l]
    BY <2>1
  <2>3. \A s \in Tasks : pc'[s] = IF s = m THEN l ELSE pc[s]
    BY <1>0, <2>2 DEF TypeOK
  <2> QED
    BY <1>0, <2>3 DEF TasksInPlace
<1>4. ASSUME NEW f \in Forms,
             \/ Submit(f) \/ UpdateProfile(f) \/ SendSubjectsClassesFlow(f)
             \/ StartDelete(f) \/ DeleteRow(f) \/ InsertRow(f) \/ InsertRaises(f)
             \/ DeadlockDetected(f) \/ Commit(f) \/ ReadClasses(f) \/ UpdateUser(f)
      PROVE  TasksInPlace'
  <2> DEFINE Own == {"offering", "failed", "done", "notFound"} \cup InAssignment
  <2>1. \E l \in Own : pc' = [pc EXCEPT ![f] = l]
    BY <1>4 DEF Submit, UpdateProfile, SendSubjectsClassesFlow, StartDelete,
       DeleteRow, InsertRow, InsertRaises, DeadlockDetected, Commit, ReadClasses,
       UpdateUser, TaskEnds, InAssignment, InTransaction
  <2>2. PICK l \in Own : pc' = [pc EXCEPT ![f] = l]
    BY <2>1
  <2>3. \A s \in Tasks : pc'[s] = IF s = f THEN l ELSE pc[s]
    BY <1>0, <2>2 DEF TypeOK
  <2>4. l # "creating" /\ l # "routing"
    BY <2>2 DEF InAssignment, InTransaction
  <2> QED
    BY <1>0, <2>3, <2>4 DEF TasksInPlace
<1>5. ASSUME NEW t \in Tasks, Fails(t)
      PROVE  TasksInPlace'
  <2>1. pc' = [pc EXCEPT ![t] = "failed"]
    BY <1>5 DEF Fails, TaskEnds
  <2>2. \A s \in Tasks : pc'[s] = IF s = t THEN "failed" ELSE pc[s]
    BY <2>1 DEF TypeOK
  <2> QED
    BY <1>0, <2>2 DEF TasksInPlace, Ended
<1> QED
  BY <1>1, <1>2, <1>3, <1>4, <1>5 DEF Next, Proceed

\* A transaction takes its connection before anything else, one at a time.
LEMMA ConnectedStep ==
    ASSUME OnboardingInv, IsFiniteSet(Connected), [Next]_vars
    PROVE  IsFiniteSet(Connected')
<1> USE DEF OnboardingInv
<1>0. FormProgress'
  BY ProgressStep
<1>1. ASSUME NEW f \in Forms, pc'[f] \in InTransaction, pc[f] \notin InTransaction
      PROVE  StartDelete(f)
  <2>1. f \in ClassForms
    BY <1>0, <1>1 DEF FormProgress, InAssignment, InTransaction
  <2>2. Moves(f)
    BY <1>1, <2>1, FormStep DEF Rests, InTransaction
  <2> QED
    BY <1>1, <2>2 DEF Moves, InTransaction
<1>2. ASSUME NEW f \in Forms, StartDelete(f)
      PROVE  Connected' \subseteq Connected \cup {f}
  <2>1. pc' = [pc EXCEPT ![f] = "deleting"]
    BY <1>2 DEF StartDelete
  <2> QED
    BY <2>1 DEF Connected, TypeOK, Tasks
<1>3. (\A f \in Forms : ~StartDelete(f)) => Connected' \subseteq Connected
  BY <1>1 DEF Connected
<1>4. ASSUME NEW f \in Forms, Connected' \subseteq Connected \cup {f}
      PROVE  IsFiniteSet(Connected')
  <2>1. IsFiniteSet(Connected \cup {f})
    BY FS_AddElement
  <2> QED
    BY <1>4, <2>1, FS_Subset
<1>5. Connected' \subseteq Connected => IsFiniteSet(Connected')
  BY FS_Subset
<1> QED
  BY <1>2, <1>3, <1>4, <1>5

\* The inductive invariant of the waiting.
WaitsInv == OnboardingInv /\ TasksInPlace /\ IsFiniteSet(Connected)

LEMMA WaitsStep ==
    WaitsInv /\ [Next]_vars => TasksInPlace' /\ IsFiniteSet(Connected')
  BY PlaceStep, ConnectedStep DEF WaitsInv, OnboardingInv

-----------------------------------------------------------------------------
\* Where each of finitely many waits for another one, some wait in a circle:
\* those in the smallest part of them that waits for itself.
LEMMA CircleExists ==
    ASSUME NEW S \in SUBSET ClassForms, IsFiniteSet(S), Stuck(S)
    PROVE  \E C \in SUBSET ClassForms : Circle(C)
<1> DEFINE parts == {T \in SUBSET S : Stuck(T)}
           order == StrictSubsetOrdering(S)
<1>1. IsWellFoundedOn(order, SUBSET S)
  BY FS_StrictSubsetOrderingWellFounded, FS_FiniteSubsetsOfFinite
<1>2. S \in parts
  OBVIOUS
<1>3. parts \subseteq SUBSET S /\ parts # {}
  BY <1>2
<1> HIDE DEF parts
<1>4. \E C \in parts : \A T \in parts : ~(<<T, C>> \in order)
  <2> HIDE DEF order
  <2> QED
    BY <1>1, <1>3, WFMin
<1>5. PICK C \in parts : \A T \in parts : ~(<<T, C>> \in order)
  BY <1>4
<1>6. C \in SUBSET S /\ Stuck(C)
  BY <1>5 DEF parts
<1>7. ASSUME NEW T \in SUBSET C, Stuck(T)
      PROVE  T = C
  <2>1. T \in SUBSET S /\ T \in parts
    BY <1>6, <1>7 DEF parts
  <2>2. ~(<<T, C>> \in order)
    BY <1>5, <2>1
  <2> QED
    BY <1>6, <2>1, <2>2 DEF StrictSubsetOrdering
<1> QED
  BY <1>6, <1>7 DEF Circle

\* If nobody can go on, every transaction waits for another one.
LEMMA TransactionsWait ==
    ASSUME OnboardingInv, \A t \in Tasks : ~Ready(t), Connected # {}
    PROVE  Connected \in SUBSET ClassForms /\ Stuck(Connected)
<1> USE DEF OnboardingInv
<1>1. Connected \in SUBSET ClassForms
  BY DEF Connected, FormProgress, InAssignment, InTransaction
<1>2. ASSUME NEW f \in Connected
      PROVE  Awaits(f) \cap Connected # {}
  <2>1. pc[f] \in {"deleting", "inserting"} /\ Awaits(f) # {}
    BY DEF Connected, Ready, InTransaction, Tasks
  <2>2. PICK g \in Awaits(f) : TRUE
    BY <2>1
  <2>3. g \in ClassForms /\ (deleted[g] # {} \/ inserted[g] # {})
    BY <2>2 DEF Awaits, ClassesOf
  <2>4. pc[g] \in InTransaction
    BY <2>3 DEF LocksHeld
  <2> QED
    BY <2>2, <2>3, <2>4 DEF Connected, ClassForms
<1> QED
  BY <1>1, <1>2 DEF Stuck

\* Who waits for a connection waits for one of the transactions.
LEMMA StandstillSeen == WaitsInv => StandstillIsSeen
<1> SUFFICES ASSUME WaitsInv, NEW t \in Tasks, UnderWay(t),
                    \A u \in Tasks : ~Ready(u)
             PROVE  \E S \in SUBSET ClassForms : Circle(S)
  BY DEF StandstillIsSeen
<1> USE DEF WaitsInv
<1>1. Connected # {}
  <2>1. CASE ~FreeConnection
    <3>1. SUFFICES ASSUME Connected = {}
                   PROVE  FALSE
      OBVIOUS
    <3>2. Cardinality(Connected) = 0
      BY <3>1, FS_EmptySet
    <3>3. ~(0 < PoolSize)
      BY <2>1, <3>2 DEF FreeConnection
    <3> QED
      BY <3>3, PoolAssumption
  <2>2. CASE FreeConnection
    <3>1. pc[t] \in Labels /\ pc[t] \notin {"idle"} \cup Ended
      BY DEF UnderWay, OnboardingInv, TypeOK
    <3>2. pc[t] \notin NeedsConnection \cup {"committing", "offering"}
      BY <2>2 DEF Ready
    <3>3. pc[t] \in InTransaction
      BY <3>1, <3>2 DEF Labels, InAssignment, InTransaction, NeedsConnection
    <3>4. t \in Forms
      BY <3>1, <3>3 DEF TasksInPlace, Tasks, InTransaction, Ended
    <3> QED
      BY <3>3, <3>4 DEF Connected
  <2> QED
    BY <2>1, <2>2
<1> QED
  BY <1>1, TransactionsWait, CircleExists

\* With one connection or many, and however many forms of one user overlap,
\* get_session's commit or rollback on every path leaves one way only for all
\* tasks to wait: a circle of row locks, which PostgreSQL sees and breaks.
THEOREM StandstillsAreSeen == Spec => []StandstillIsSeen
<1>1. Init => TasksInPlace /\ IsFiniteSet(Connected)
  <2> SUFFICES ASSUME Init PROVE TasksInPlace /\ IsFiniteSet(Connected)
    OBVIOUS
  <2>1. \A t \in Tasks : pc[t] = "idle"
    BY DEF Init
  <2>2. Connected = {}
    BY <2>1 DEF Connected, InTransaction, Tasks
  <2> QED
    BY <2>1, <2>2, FS_EmptySet DEF TasksInPlace, Tasks
<1>2. WaitsInv /\ [Next]_vars => TasksInPlace' /\ IsFiniteSet(Connected)'
  BY WaitsStep
<1>3. WaitsInv => StandstillIsSeen
  BY StandstillSeen
<1> QED
  BY <1>1, <1>2, <1>3, OnboardingInvariant, PTL DEF Spec, WaitsInv
=============================================================================
