------------------------- MODULE Onboarding_proofs -------------------------
(***************************************************************************)
(* The invariant of Onboarding and its two action properties, for any      *)
(* number of messages, forms and classes.                                  *)
(***************************************************************************)
EXTENDS Onboarding, TLAPS

USE KindAssumption, TasksAssumption, PoolAssumption

\* update_user field by field.
LEMMA WriteFields ==
    ASSUME NEW row \in User, NEW old \in User, NEW new \in User
    PROVE  /\ Write(row, old, new) \in User
           /\ Write(row, old, new).state =
                IF new.state # old.state THEN new.state ELSE row.state
           /\ Write(row, old, new).onboarding =
                IF new.onboarding # old.onboarding
                THEN new.onboarding ELSE row.onboarding
           /\ Write(row, old, new).info =
                IF new.info # old.info THEN new.info ELSE row.info
<1>1. DOMAIN row = {"state", "onboarding", "info"}
  BY DEF User
<1> QED
  BY <1>1 DEF Write, User

\* The row right after its creation is a row.
LEMMA NewUserType == NewUser \in User /\ NoUser \in User
  BY DEF NewUser, NoUser, User, States, Onboardings

\* What the two forms change in a copy of the row.
LEMMA CopyChanges ==
    ASSUME NEW u \in User, NEW C \in SUBSET Classes
    PROVE  /\ Introduced(u) \in User
           /\ Introduced(u).state = u.state
           /\ Introduced(u).onboarding = "personal_info_submitted"
           /\ Introduced(u).info = u.info
           /\ Activated(u, C) \in User
           /\ Activated(u, C).state = "active"
           /\ Activated(u, C).onboarding = "completed"
           /\ Activated(u, C).info = C
  BY DEF Introduced, Activated, User, States, Onboardings

\* The rows that a class form inserts name the classes it selected.
LEMMA RowsOfClasses ==
    ASSUME TypeOK, NEW f \in Forms
    PROVE  /\ RowsOf(f) \subseteq TeacherRow
           /\ ClassesOf(RowsOf(f)) = chosen[f]
           /\ chosen[f] # {} => RowsOf(f) # {}
<1>1. chosen[f] \subseteq Classes
  BY DEF TypeOK
<1>2. \A c \in chosen[f] : [class |-> c, by |-> f] \in RowsOf(f)
  BY DEF RowsOf
<1>3. \A x \in RowsOf(f) : x \in TeacherRow /\ x.class \in chosen[f]
  BY <1>1 DEF RowsOf, TeacherRow
<1>4. ClassesOf(RowsOf(f)) = chosen[f]
  <2>1. ASSUME NEW c \in chosen[f] PROVE c \in ClassesOf(RowsOf(f))
    <3>1. [class |-> c, by |-> f].class = c
      OBVIOUS
    <3> QED
      BY <1>2, <3>1 DEF ClassesOf
  <2>2. ASSUME NEW c \in ClassesOf(RowsOf(f)) PROVE c \in chosen[f]
    BY <1>3, <2>2 DEF ClassesOf
  <2> QED
    BY <2>1, <2>2
<1> QED
  BY <1>2, <1>3, <1>4

-----------------------------------------------------------------------------
(* What one step can do, variable by variable.                             *)

\* Who waits in a circle waits in the middle of a statement.
LEMMA VictimWaits ==
    ASSUME NEW f, DeadlockDetected(f)
    PROVE  pc[f] \in {"deleting", "inserting"}
<1>1. PICK S \in SUBSET ClassForms : f \in S /\ Circle(S)
  BY DEF DeadlockDetected
<1>2. Awaits(f) # {}
  BY <1>1 DEF Circle, Stuck
<1> QED
  BY <1>2 DEF Awaits

\* The row changes when it is created, when a profile is saved and when a
\* class form ends.
LEMMA RowStep ==
    ASSUME TypeOK, FormProgress, [Next]_vars
    PROVE  \/ user' = user
           \/ user.state = "absent" /\ user' = NewUser
           \/ \E f \in Forms : user' = Write(user, copy[f], Introduced(copy[f]))
           \/ \E f \in ClassForms :
                /\ pc[f] = "updating"
                /\ \E l \in {"done", "failed"} : pc' = [pc EXCEPT ![f] = l]
                /\ user' = Write(user, copy[f], Activated(copy[f], chosen[f]))
                /\ taught' = taught
  BY DEF Next, vars, Receive, Submit, Proceed, Fails, Restart, CreateUser,
         Route, UpdateProfile, SendSubjectsClassesFlow, StartDelete,
         DeleteRow, InsertRow, InsertRaises,
         DeadlockDetected, TaskEnds, Commit, ReadClasses, UpdateUser, FormProgress,
         InAssignment, InTransaction

\* A copy is only ever taken from the row.
LEMMA CopyStep ==
    ASSUME TypeOK, [Next]_vars
    PROVE  /\ \A t \in Tasks : copy'[t] \in {copy[t], user, user', NoUser}
           /\ \A f \in ClassForms : pc[f] # "idle" /\ pc'[f] \notin Ended
                                      => copy'[f] = copy[f]
<1> USE DEF TypeOK
<1>0. \A f \in ClassForms : f \in Forms /\ f \in Tasks /\ f \notin Messages
  BY DEF ClassForms, Tasks
<1>1. CASE copy' = copy
  BY <1>1, <1>0
<1>2. CASE Restart
  BY <1>0, <1>2 DEF Restart, Ended
<1>3. ASSUME NEW m \in Messages, Receive(m) \/ CreateUser(m) \/ Route(m)
      PROVE  /\ \A t \in Tasks : copy'[t] \in {copy[t], user, user', NoUser}
             /\ \A f \in ClassForms : copy'[f] = copy[f]
  <2>1. \E u \in {copy[m], user, user', NoUser} : copy' = [copy EXCEPT ![m] = u]
    BY <1>3 DEF Receive, CreateUser, Route, TaskEnds, Tasks
  <2> QED
    BY <1>0, <2>1
<1>4. ASSUME NEW f \in Forms, Submit(f)
      PROVE  /\ \A t \in Tasks : copy'[t] \in {copy[t], user, user', NoUser}
             /\ \A g \in ClassForms : pc[g] # "idle" => copy'[g] = copy[g]
  <2>1. /\ pc[f] = "idle"
        /\ \E u \in {user, NoUser} : copy' = [copy EXCEPT ![f] = u]
    BY <1>4 DEF Submit, TaskEnds
  <2> QED
    BY <1>0, <2>1
<1>5. ASSUME NEW t \in Tasks, NEW l \in Ended, TaskEnds(t, l)
      PROVE  /\ \A r \in Tasks : copy'[r] \in {copy[r], user, user', NoUser}
             /\ \A g \in ClassForms : pc'[g] \notin Ended => copy'[g] = copy[g]
  BY <1>0, <1>5 DEF TaskEnds
<1>6. ASSUME NEW f \in Forms,
             \/ UpdateProfile(f) \/ SendSubjectsClassesFlow(f) \/ StartDelete(f)
             \/ DeleteRow(f) \/ InsertRow(f) \/ InsertRaises(f)
             \/ DeadlockDetected(f) \/ Commit(f) \/ ReadClasses(f)
             \/ UpdateUser(f)
      PROVE  copy' = copy \/ \E l \in Ended : TaskEnds(f, l)
  <2>1. CASE UpdateProfile(f) \/ SendSubjectsClassesFlow(f)
    BY <2>1 DEF UpdateProfile, SendSubjectsClassesFlow, Ended
  <2>2. CASE StartDelete(f) \/ DeleteRow(f) \/ InsertRow(f) \/ Commit(f)
    BY <2>2 DEF StartDelete, DeleteRow, InsertRow, Commit
  <2>3. CASE InsertRaises(f) \/ DeadlockDetected(f)
    BY <2>3 DEF InsertRaises, DeadlockDetected, Ended
  <2>4. CASE ReadClasses(f) \/ UpdateUser(f)
    BY <2>4 DEF ReadClasses, UpdateUser, Ended
  <2> QED
    BY <1>6, <2>1, <2>2, <2>3, <2>4
<1>7. ASSUME NEW t \in Tasks, Fails(t)
      PROVE  \E l \in Ended : TaskEnds(t, l)
  BY <1>7 DEF Fails, Ended
<1>8. UNCHANGED vars => copy' = copy
  BY DEF vars
<1> QED
  BY <1>1, <1>2, <1>3, <1>4, <1>5, <1>6, <1>7, <1>8 DEF Next, Proceed, Tasks

\* teachers_classes changes when a class form commits.
LEMMA TaughtStep ==
    ASSUME TypeOK, FormProgress, LocksHeld, [Next]_vars
    PROVE  \/ taught' = taught
           \/ \E f \in ClassForms :
                /\ pc[f] = "committing" /\ pc' = [pc EXCEPT ![f] = "reading"]
                /\ taught' = (taught \ deleted[f]) \cup RowsOf(f)
                /\ UNCHANGED <<user, copy, chosen, alone>>
  BY DEF Next, vars, Receive, Submit, Proceed, Fails, Restart, CreateUser,
         Route, UpdateProfile, SendSubjectsClassesFlow, StartDelete,
         DeleteRow, InsertRow, InsertRaises,
         DeadlockDetected, TaskEnds, Commit, ReadClasses, UpdateUser, FormProgress,
         InAssignment, InTransaction, formVars, LocksHeld

\* A class form goes from one label to the next, or ends.
Moves(f) ==
    \/ pc[f] = "idle" /\ pc'[f] = "accepted" /\ Submit(f)
    \/ pc[f] = "accepted" /\ pc'[f] = "deleting" /\ StartDelete(f)
    \/ pc[f] = "deleting" /\ pc'[f] = "inserting" /\ DeleteRow(f)
    \/ pc[f] = "inserting" /\ pc'[f] = "committing" /\ InsertRow(f)
    \/ pc[f] = "committing" /\ pc'[f] = "reading" /\ Commit(f)
    \/ pc[f] = "reading" /\ pc'[f] = "updating" /\ ReadClasses(f)
Rests(f) == pc'[f] = pc[f] \/ pc'[f] \in {"done", "failed", "notFound"}

\* A step moves a class form along, ends it or leaves it, and what the form
\* chose is fixed once it is submitted.
LEMMA FormStep ==
    ASSUME TypeOK, [Next]_vars, NEW f \in ClassForms
    PROVE  /\ Moves(f) \/ (Rests(f) /\ chosen'[f] = chosen[f])
           /\ pc[f] # "idle" => chosen'[f] = chosen[f]
           /\ pc[f] # "idle" => pc'[f] # "idle"
<1> USE DEF TypeOK, Tasks, ClassForms
<1>1. CASE UNCHANGED vars
  BY <1>1 DEF vars, formVars, Rests
<1>2. ASSUME NEW m \in Messages,
             Receive(m) \/ CreateUser(m) \/ Route(m) \/ Fails(m)
      PROVE  pc'[f] = pc[f] /\ chosen' = chosen
  <2>1. m # f
    OBVIOUS
  <2>2. chosen' = chosen
    BY <1>2 DEF Receive, CreateUser, Route, Fails, formVars, TaskEnds
  <2>3. \E l \in Labels : pc' = [pc EXCEPT ![m] = l]
    <3>1. CASE Receive(m)
      BY <3>1 DEF Receive, Labels
    <3>2. CASE CreateUser(m)
      BY <3>2 DEF CreateUser, Labels, Ended, TaskEnds
    <3>3. CASE Route(m)
      BY <3>3 DEF Route, Labels, Ended, TaskEnds
    <3>4. CASE Fails(m)
      BY <3>4 DEF Fails, Labels, Ended, TaskEnds
    <3> QED
      BY <1>2, <3>1, <3>2, <3>3, <3>4
  <2> QED
    BY <2>1, <2>2, <2>3
<1>3. ASSUME NEW g \in Forms,
             \/ UpdateProfile(g) \/ SendSubjectsClassesFlow(g) \/ UpdateUser(g)
             \/ InsertRaises(g) \/ DeadlockDetected(g) \/ Fails(g)
      PROVE  Rests(f) /\ chosen' = chosen /\ (pc[f] # "idle" => pc'[f] # "idle")
  BY <1>3 DEF UpdateProfile, SendSubjectsClassesFlow, UpdateUser, Fails,
              InsertRaises, DeadlockDetected, TaskEnds, formVars, Rests
<1>4. ASSUME NEW g \in Forms, Submit(g)
      PROVE  /\ Moves(f) \/ (Rests(f) /\ chosen'[f] = chosen[f])
             /\ pc[f] # "idle" => chosen'[f] = chosen[f] /\ pc'[f] = pc[f]
  <2>0. /\ pc[g] = "idle" /\ pc' \in {[pc EXCEPT ![g] = "accepted"],
                                      [pc EXCEPT ![g] = "failed"]}
        /\ \/ chosen' = chosen
           \/ \E C \in SUBSET Classes : chosen' = [chosen EXCEPT ![g] = C]
        /\ chosen' # chosen => pc' = [pc EXCEPT ![g] = "accepted"]
    BY <1>4 DEF Submit, TaskEnds
  <2>1. CASE g = f
    <3>1. pc[f] = "idle" /\ pc'[f] \in {"accepted", "failed"}
      BY <2>0, <2>1
    <3>2. CASE pc'[f] = "accepted"
      <4>1. Submit(f)
        BY <1>4, <2>1
      <4>2. Moves(f)
        BY <3>1, <3>2, <4>1 DEF Moves
      <4> QED
        BY <3>1, <4>2
    <3>3. CASE pc'[f] = "failed"
      <4>1. chosen' = chosen
        BY <2>0, <2>1, <3>3
      <4> QED
        BY <3>1, <3>3, <4>1 DEF Rests
    <3> QED
      BY <3>1, <3>2, <3>3
  <2>2. CASE g # f
    <3>1. pc'[f] = pc[f]
      BY <2>0, <2>2
    <3>2. chosen'[f] = chosen[f]
      BY <2>0, <2>2
    <3> QED
      BY <3>1, <3>2 DEF Rests
  <2> QED
    BY <2>1, <2>2
<1>5. ASSUME NEW g \in Forms,
             StartDelete(g) \/ DeleteRow(g) \/ InsertRow(g) \/ Commit(g)
               \/ ReadClasses(g)
      PROVE  /\ Moves(f) \/ Rests(f)
             /\ chosen' = chosen
             /\ pc[f] # "idle" => pc'[f] # "idle"
  <2>1. chosen' = chosen
    BY <1>5 DEF StartDelete, DeleteRow, InsertRow, InsertRaises,
         DeadlockDetected, TaskEnds, Commit, ReadClasses, formVars
  <2>2. /\ pc[g] \in InAssignment
        /\ \E l \in {"deleting", "inserting", "committing", "failed",
                     "reading", "updating", "notFound"} :
              pc' = [pc EXCEPT ![g] = l]
    <3>1. CASE StartDelete(g)
      BY <3>1 DEF StartDelete, InAssignment
    <3>2. CASE DeleteRow(g)
      BY <3>2 DEF DeleteRow, InAssignment, InTransaction
    <3>3. CASE InsertRow(g)
      BY <3>3 DEF InsertRow, InAssignment, InTransaction
    <3>4. CASE Commit(g)
      BY <3>4 DEF Commit, InAssignment, InTransaction
    <3>5. CASE ReadClasses(g)
      BY <3>5 DEF ReadClasses, InAssignment, TaskEnds
    <3> QED
      BY <1>5, <3>1, <3>2, <3>3, <3>4, <3>5
  <2>3. CASE g = f
    <3>1. CASE StartDelete(f)
      <4>1. pc[f] = "accepted" /\ pc'[f] = "deleting"
        BY <3>1 DEF StartDelete
      <4> QED
        BY <2>1, <3>1, <4>1 DEF Moves
    <3>2. CASE DeleteRow(f)
      <4>1. pc[f] = "deleting" /\ pc'[f] \in {"inserting", "deleting"}
        BY <3>2 DEF DeleteRow
      <4> QED
        BY <2>1, <3>2, <4>1 DEF Moves, Rests
    <3>3. CASE InsertRow(f)
      <4>1. pc[f] = "inserting" /\ pc'[f] \in {"committing", "inserting"}
        BY <3>3 DEF InsertRow
      <4> QED
        BY <2>1, <3>3, <4>1 DEF Moves, Rests
    <3>4. CASE Commit(f)
      <4>1. pc[f] = "committing" /\ pc'[f] = "reading"
        BY <3>4 DEF Commit
      <4> QED
        BY <2>1, <3>4, <4>1 DEF Moves
    <3>5. CASE ReadClasses(f)
      <4>1. pc[f] = "reading" /\ pc'[f] \in {"updating", "notFound"}
        BY <3>5 DEF ReadClasses, TaskEnds
      <4> QED
        BY <2>1, <3>5, <4>1 DEF Moves, Rests
    <3> QED
      BY <1>5, <2>3, <3>1, <3>2, <3>3, <3>4, <3>5
  <2>4. CASE g # f
    <3>1. pc'[f] = pc[f]
      BY <2>2, <2>4
    <3> QED
      BY <2>1, <3>1 DEF Rests
  <2> QED
    BY <2>3, <2>4
<1>6. CASE Restart
  BY <1>6 DEF Restart, Rests, formVars
<1>7. [Next]_vars => \/ UNCHANGED vars
                     \/ Restart
                     \/ \E m \in Messages : \/ Receive(m) \/ CreateUser(m)
                                            \/ Route(m) \/ Fails(m)
                     \/ \E g \in Forms :
                          \/ Submit(g) \/ UpdateProfile(g)
                          \/ SendSubjectsClassesFlow(g) \/ StartDelete(g)
                          \/ DeleteRow(g) \/ InsertRow(g) \/ InsertRaises(g)
                          \/ DeadlockDetected(g) \/ Commit(g)
                          \/ ReadClasses(g) \/ UpdateUser(g) \/ Fails(g)
  BY DEF Next, Proceed
<1> QED
  BY <1>1, <1>2, <1>3, <1>4, <1>5, <1>6, <1>7 DEF Rests

\* What the transaction of a class form holds is changed by that form alone.
Untouched(f) ==
    /\ seen'[f] = seen[f] /\ at'[f] = at[f]
    /\ deleted'[f] = deleted[f] /\ inserted'[f] = inserted[f]
    /\ pc'[f] = pc[f] \/ {pc[f], pc'[f]} \cap InTransaction = {}
Released(f) ==
    /\ seen'[f] = {} /\ at'[f] = {} /\ deleted'[f] = {} /\ inserted'[f] = {}
    /\ pc'[f] \notin InTransaction

LEMMA EndStep ==
    ASSUME TypeOK, NEW T \in SUBSET Tasks, TransactionsEnd(T),
           NEW f \in ClassForms
    PROVE  /\ f \in T => /\ seen'[f] = {} /\ at'[f] = {}
                         /\ deleted'[f] = {} /\ inserted'[f] = {}
           /\ f \notin T => /\ seen'[f] = seen[f] /\ at'[f] = at[f]
                            /\ deleted'[f] = deleted[f]
                            /\ inserted'[f] = inserted[f]
  BY DEF TransactionsEnd, ForgottenBy, ClassForms

LEMMA LockStep ==
    ASSUME TypeOK, FormProgress, [Next]_vars, NEW f \in ClassForms
    PROVE  Untouched(f) \/ Released(f)
             \/ StartDelete(f) \/ DeleteRow(f) \/ InsertRow(f)
<1>0. f \in Forms /\ f \in Tasks /\ f \notin Messages
  BY DEF ClassForms, Tasks
<1>1. CASE UNCHANGED vars
  BY <1>1 DEF vars, formVars, lockVars, Untouched
<1>2. CASE Restart
  <2>1. pc'[f] \notin InTransaction
    BY <1>0, <1>2 DEF Restart, InTransaction, Ended
  <2>2. TransactionsEnd(Forms) /\ Forms \in SUBSET Tasks
    BY <1>2 DEF Restart, Tasks
  <2> QED
    BY <1>0, <2>1, <2>2, EndStep DEF Released
<1>3. ASSUME NEW m \in Messages, Receive(m) \/ CreateUser(m) \/ Route(m)
      PROVE  Untouched(f)
  <2>1. UNCHANGED formVars /\ \E l \in Labels : pc' = [pc EXCEPT ![m] = l]
    BY <1>3 DEF Receive, CreateUser, Route, TaskEnds, Labels, Ended
  <2>2. pc'[f] = pc[f]
    BY <1>0, <2>1 DEF TypeOK
  <2> QED
    BY <2>1, <2>2 DEF formVars, lockVars, Untouched
<1>4. ASSUME NEW g \in Forms,
             \/ Submit(g) \/ UpdateProfile(g) \/ SendSubjectsClassesFlow(g)
             \/ ReadClasses(g) \/ UpdateUser(g)
      PROVE  Untouched(f)
  <2>1. /\ UNCHANGED <<seen, deleted, inserted, at>>
        /\ pc[g] \notin InTransaction
        /\ \E l \in Labels \ InTransaction : pc' = [pc EXCEPT ![g] = l]
    <3>1. CASE Submit(g)
      BY <3>1 DEF Submit, TaskEnds, Labels, InTransaction, InAssignment, Ended,
         lockVars
    <3>2. CASE UpdateProfile(g) \/ SendSubjectsClassesFlow(g)
      BY <3>2 DEF UpdateProfile, SendSubjectsClassesFlow, TaskEnds, Labels,
         InTransaction, InAssignment, Ended, lockVars, formVars
    <3>3. CASE ReadClasses(g) \/ UpdateUser(g)
      BY <3>3 DEF ReadClasses, UpdateUser, TaskEnds, Labels, InTransaction,
         InAssignment, Ended, lockVars, formVars
    <3> QED
      BY <1>4, <3>1, <3>2, <3>3
  <2> QED
    BY <1>0, <2>1 DEF TypeOK, Untouched
<1>5. ASSUME NEW g \in Forms, StartDelete(g) \/ DeleteRow(g) \/ InsertRow(g)
      PROVE  g = f \/ Untouched(f)
  <2> SUFFICES ASSUME g # f PROVE Untouched(f)
    OBVIOUS
  <2>1. CASE StartDelete(g)
    BY <1>0, <2>1 DEF StartDelete, TypeOK, Untouched, lockVars
  <2>2. CASE DeleteRow(g)
    BY <1>0, <2>2 DEF DeleteRow, TypeOK, Untouched
  <2>3. CASE InsertRow(g)
    BY <1>0, <2>3 DEF InsertRow, TypeOK, Untouched
  <2> QED
    BY <1>5, <2>1, <2>2, <2>3
<1>6. ASSUME NEW t \in Tasks,
             \/ Fails(t)
             \/ t \in Forms /\ (\/ InsertRaises(t)
                               \/ DeadlockDetected(t) \/ Commit(t))
      PROVE  Untouched(f) \/ Released(f)
  <2>1. /\ TransactionsEnd({t}) /\ {t} \in SUBSET Tasks
        /\ \E l \in {"failed", "reading"} : pc' = [pc EXCEPT ![t] = l]
    BY <1>6 DEF Fails, InsertRaises, DeadlockDetected, Commit, TaskEnds
  <2>2. CASE t = f
    BY <1>0, <2>1, <2>2, EndStep DEF TypeOK, Released, InTransaction
  <2>3. CASE t # f
    BY <1>0, <2>1, <2>3, EndStep DEF TypeOK, Untouched
  <2> QED
    BY <2>2, <2>3
<1>7. \/ UNCHANGED vars \/ Restart
      \/ \E m \in Messages : Receive(m) \/ CreateUser(m) \/ Route(m)
      \/ \E g \in Forms :
           \/ Submit(g) \/ UpdateProfile(g) \/ SendSubjectsClassesFlow(g)
           \/ ReadClasses(g) \/ UpdateUser(g)
      \/ \E g \in Forms : StartDelete(g) \/ DeleteRow(g) \/ InsertRow(g)
      \/ \E t \in Tasks :
           \/ Fails(t)
           \/ t \in Forms /\ (\/ InsertRaises(t)
                             \/ DeadlockDetected(t) \/ Commit(t))
  BY DEF Next, Proceed, Tasks
<1>8. CASE \E g \in Forms : StartDelete(g) \/ DeleteRow(g) \/ InsertRow(g)
  <2>1. PICK g \in Forms : StartDelete(g) \/ DeleteRow(g) \/ InsertRow(g)
    BY <1>8
  <2>2. g = f \/ Untouched(f)
    BY <1>5, <2>1
  <2> QED
    BY <2>1, <2>2
<1>9. CASE \E t \in Tasks :
             \/ Fails(t)
             \/ t \in Forms /\ (\/ InsertRaises(t)
                               \/ DeadlockDetected(t) \/ Commit(t))
  BY <1>6, <1>9
<1>10. CASE \E m \in Messages : Receive(m) \/ CreateUser(m) \/ Route(m)
  BY <1>3, <1>10
<1>11. CASE \E g \in Forms :
              \/ Submit(g) \/ UpdateProfile(g) \/ SendSubjectsClassesFlow(g)
              \/ ReadClasses(g) \/ UpdateUser(g)
  BY <1>4, <1>11
<1> QED
  BY <1>1, <1>2, <1>7, <1>8, <1>9, <1>10, <1>11

-----------------------------------------------------------------------------
\* The row only moves on.
LEMMA RowOnward ==
    ASSUME OnboardingInv, [Next]_vars
    PROVE  /\ user' \in User
           /\ user.state = "active" => user'.state = "active"
           /\ user.state # "absent" => user'.state # "absent"
           /\ user.info # {} => user'.info # {}
           /\ user'.onboarding = "completed" => user'.state = "active"
           /\ user'.state = "absent" => user'.info = {}
           /\ user'.state = "active" => taught' # {} /\ user'.info # {}
           /\ InfoFromOneForm'
<1> USE DEF OnboardingInv
<1>1. user \in User /\ (\A t \in Tasks : copy[t] \in User) /\ Forms \subseteq Tasks
  BY DEF TypeOK, Tasks
<1>2. taught # {} => taught' # {}
  <2>1. ASSUME NEW f \in ClassForms, pc[f] = "committing",
               taught' = (taught \ deleted[f]) \cup RowsOf(f)
        PROVE  taught' # {}
    BY <2>1, RowsOfClasses DEF FormProgress, InAssignment, InTransaction,
                               ClassForms
  <2> QED
    BY <2>1, TaughtStep
<1>3. ASSUME user'.info = user.info
      PROVE  InfoFromOneForm'
  <2>1. CASE user.info = {}
    BY <1>3, <2>1 DEF InfoFromOneForm
  <2>2. CASE user.info # {}
    <3>1. PICK f \in ClassForms : user.info = chosen[f]
      BY <2>2 DEF InfoFromOneForm
    <3>2. chosen'[f] = chosen[f]
      BY <2>2, <3>1, FormStep DEF FormProgress
    <3> QED
      BY <1>3, <3>1, <3>2 DEF InfoFromOneForm
  <2> QED
    BY <2>1, <2>2
<1>4. CASE user' = user
  <2>1. user.onboarding = "completed" => user.state = "active"
    BY DEF CompletedMeansActive
  <2>2. user.state = "absent" => user.info = {}
    BY DEF RowMovesOn
  <2>3. user.state = "active" => taught' # {} /\ user.info # {}
    BY <1>2 DEF ActiveHasClasses
  <2> QED
    BY <1>1, <1>3, <1>4, <2>1, <2>2, <2>3
<1>5. CASE user.state = "absent" /\ user' = NewUser
  <2>1. /\ NewUser.state = "new" /\ NewUser.onboarding = "new"
        /\ NewUser.info = {}
    BY DEF NewUser
  <2>2. user.info = {}
    BY <1>5 DEF RowMovesOn
  <2> QED
    BY <1>3, <1>5, <2>1, <2>2, NewUserType
<1>6. ASSUME NEW f \in Forms, user' = Write(user, copy[f], Introduced(copy[f]))
      PROVE  /\ user' \in User
             /\ user'.state = user.state /\ user'.info = user.info
             /\ user'.onboarding \in {user.onboarding, "personal_info_submitted"}
  <2>1. copy[f] \in User
    BY <1>1
  <2>2. /\ Introduced(copy[f]) \in User
        /\ Introduced(copy[f]).state = copy[f].state
        /\ Introduced(copy[f]).onboarding = "personal_info_submitted"
        /\ Introduced(copy[f]).info = copy[f].info
    BY <2>1, CopyChanges
  <2> QED
    BY <1>1, <1>6, <2>1, <2>2, WriteFields
<1>7. CASE \E f \in Forms : user' = Write(user, copy[f], Introduced(copy[f]))
  BY <1>2, <1>3, <1>6, <1>7 DEF CompletedMeansActive, RowMovesOn, ActiveHasClasses
<1>8. ASSUME NEW f \in ClassForms, pc[f] = "updating", taught' = taught,
             user' = Write(user, copy[f], Activated(copy[f], chosen[f]))
      PROVE  /\ user' \in User /\ user'.state = "active" /\ user'.info # {}
             /\ taught' # {} /\ InfoFromOneForm'
  <2>1. f \in Forms /\ copy[f] \in User /\ chosen[f] \in SUBSET Classes
    BY <1>1 DEF ClassForms, TypeOK
  <2> DEFINE new == Activated(copy[f], chosen[f])
  <2>2. /\ new \in User /\ new.state = "active" /\ new.onboarding = "completed"
        /\ new.info = chosen[f]
    BY <2>1, CopyChanges
  <2>3. /\ user' \in User
        /\ user'.state =
             IF new.state # copy[f].state THEN new.state ELSE user.state
        /\ user'.info =
             IF new.info # copy[f].info THEN new.info ELSE user.info
    BY <1>1, <1>8, <2>1, <2>2, WriteFields
  <2>4. /\ copy[f].state = "active" => user.state = "active"
        /\ copy[f].info # {} => user.info # {}
    BY <1>1, <2>1 DEF RowMovesOn
  <2>5. chosen[f] # {} /\ taught # {}
    BY <1>8 DEF FormProgress, InAssignment
  <2>6. chosen'[f] = chosen[f]
    BY <1>8, FormStep
  <2>7. InfoFromOneForm'
    <3>1. CASE user'.info = user.info
      BY <1>3, <3>1
    <3>2. CASE user'.info = chosen[f]
      BY <2>6, <3>2 DEF InfoFromOneForm
    <3> QED
      BY <2>2, <2>3, <3>1, <3>2
  <2> QED
    BY <1>8, <2>2, <2>3, <2>4, <2>5, <2>7
<1>9. CASE \E f \in ClassForms :
             /\ pc[f] = "updating" /\ taught' = taught
             /\ user' = Write(user, copy[f], Activated(copy[f], chosen[f]))
  BY <1>8, <1>9
<1> QED
  BY <1>4, <1>5, <1>7, <1>9, RowStep

\* A class form that is done has just activated its user, or did so before.
LEMMA WelcomeStep ==
    ASSUME OnboardingInv, [Next]_vars
    PROVE  WelcomedIsActive'
<1> USE DEF OnboardingInv
<1> SUFFICES ASSUME NEW f \in ClassForms, pc'[f] = "done"
             PROVE  user'.state = "active"
  BY DEF WelcomedIsActive
<1>0. f \in Forms /\ f \in Tasks
  BY DEF ClassForms, Tasks
<1>1. CASE pc[f] = "done"
  BY <1>1, RowOnward DEF WelcomedIsActive
<1>2. CASE pc[f] # "done"
  <2>1. UpdateUser(f)
    <3>1. ASSUME NEW m \in Messages,
                 Receive(m) \/ CreateUser(m) \/ Route(m) \/ Fails(m)
          PROVE  FALSE
      <4>1. m # f
        BY <1>0
      <4>2. pc'[f] = pc[f]
        BY <1>0, <3>1, <4>1 DEF Receive, CreateUser, Route, Fails, TypeOK, TaskEnds
      <4> QED
        BY <1>2, <4>2
    <3>2. ASSUME NEW g \in Forms,
                 \/ Submit(g) \/ StartDelete(g) \/ DeleteRow(g) \/ InsertRow(g)
                 \/ InsertRaises(g) \/ DeadlockDetected(g) \/ Commit(g)
                 \/ ReadClasses(g) \/ Fails(g)
          PROVE  FALSE
      BY <1>0, <1>2, <3>2 DEF Submit, StartDelete, DeleteRow, InsertRow, InsertRaises,
         DeadlockDetected, TaskEnds, Commit, ReadClasses, Fails, TypeOK
    <3>3. ASSUME NEW g \in Forms,
                 UpdateProfile(g) \/ SendSubjectsClassesFlow(g)
          PROVE  FALSE
      <4>1. \E l \in Labels : pc' = [pc EXCEPT ![g] = l]
        BY <3>3 DEF UpdateProfile, SendSubjectsClassesFlow, Labels, Ended, TaskEnds
      <4>2. g = f
        BY <1>0, <1>2, <4>1 DEF TypeOK
      <4>3. Kind[f] \notin {"profile", "settings"} /\ f \in ClassForms
        BY DEF ClassForms
      <4>4. pc[f] = "offering"
        BY <3>3, <4>2, <4>3 DEF UpdateProfile, SendSubjectsClassesFlow, TaskEnds
      <4> QED
        BY <3>3, <4>2, <4>3, <4>4 DEF FormProgress
    <3>4. ASSUME UNCHANGED vars \/ Restart PROVE FALSE
      BY <1>0, <1>2, <3>4 DEF vars, Restart, TypeOK
    <3>5. ASSUME NEW g \in Forms, UpdateUser(g) PROVE g = f
      BY <1>0, <1>2, <3>5 DEF UpdateUser, TypeOK, TaskEnds
    <3> QED
      BY <3>1, <3>2, <3>3, <3>4, <3>5 DEF Next, Proceed, Tasks
  <2>2. user' = Write(user, copy[f], Activated(copy[f], chosen[f]))
    BY <2>1 DEF UpdateUser, TaskEnds
  <2>3. user \in User /\ copy[f] \in User /\ chosen[f] \in SUBSET Classes
    BY <1>0 DEF TypeOK
  <2>4. /\ Activated(copy[f], chosen[f]) \in User
        /\ Activated(copy[f], chosen[f]).state = "active"
    BY <2>3, CopyChanges
  <2>5. copy[f].state = "active" => user.state = "active"
    BY <1>0 DEF RowMovesOn
  <2> QED
    BY <2>2, <2>3, <2>4, <2>5, WriteFields
<1> QED
  BY <1>1, <1>2

\* The rows that a transaction has seen, come to and changed are rows.
LEMMA LockTypes ==
    ASSUME TypeOK, [Next]_vars
    PROVE  /\ seen' \in [Forms -> SUBSET TeacherRow]
           /\ deleted' \in [Forms -> SUBSET TeacherRow]
           /\ inserted' \in [Forms -> SUBSET TeacherRow]
           /\ at' \in [Forms -> SUBSET TeacherRow]
<1>1. ASSUME NEW R \in SUBSET TeacherRow, NEW row \in OneOf(R)
      PROVE  row \in SUBSET TeacherRow
  BY <1>1 DEF OneOf
<1>2. CASE UNCHANGED <<seen, deleted, inserted, at>>
  BY <1>2 DEF TypeOK
<1>3. ASSUME NEW f \in Forms, StartDelete(f)
      PROVE  /\ seen' \in [Forms -> SUBSET TeacherRow]
             /\ deleted' = deleted /\ inserted' = inserted
             /\ at' \in [Forms -> SUBSET TeacherRow]
  BY <1>1, <1>3 DEF StartDelete, TypeOK, lockVars
<1>4. ASSUME NEW f \in Forms, DeleteRow(f)
      PROVE  /\ deleted' \in [Forms -> SUBSET TeacherRow]
             /\ seen' = seen /\ inserted' = inserted
             /\ at' \in [Forms -> SUBSET TeacherRow]
  <2>1. deleted' \in [Forms -> SUBSET TeacherRow]
    BY <1>4 DEF DeleteRow, TypeOK
  <2>2. RowsOf(f) \in SUBSET TeacherRow
    BY RowsOfClasses
  <2>3. (seen[f] \cap taught) \ deleted'[f] \in SUBSET TeacherRow
    BY DEF TypeOK
  <2> DEFINE left == (seen[f] \cap taught) \ deleted'[f]
  <2>4. PICK row \in OneOf(IF left = {} THEN RowsOf(f) ELSE left) :
             at' = [at EXCEPT ![f] = row]
    BY <1>4 DEF DeleteRow
  <2>5. row \in SUBSET TeacherRow
    BY <1>1, <2>2, <2>3, <2>4
  <2> QED
    BY <1>4, <2>1, <2>4, <2>5 DEF DeleteRow, TypeOK
<1>5. ASSUME NEW f \in Forms, InsertRow(f)
      PROVE  /\ inserted' \in [Forms -> SUBSET TeacherRow]
             /\ seen' = seen /\ deleted' = deleted
             /\ at' \in [Forms -> SUBSET TeacherRow]
  <2>1. inserted' \in [Forms -> SUBSET TeacherRow]
    BY <1>5 DEF InsertRow, TypeOK
  <2>2. RowsOf(f) \ inserted'[f] \in SUBSET TeacherRow
    BY RowsOfClasses
  <2> QED
    BY <1>1, <1>5, <2>1, <2>2 DEF InsertRow, TypeOK
<1>6. ASSUME NEW T, TransactionsEnd(T)
      PROVE  /\ seen' \in [Forms -> SUBSET TeacherRow]
             /\ deleted' \in [Forms -> SUBSET TeacherRow]
             /\ inserted' \in [Forms -> SUBSET TeacherRow]
             /\ at' \in [Forms -> SUBSET TeacherRow]
  BY <1>6 DEF TransactionsEnd, ForgottenBy, TypeOK
<1>7. \/ UNCHANGED <<seen, deleted, inserted, at>>
      \/ \E f \in Forms : StartDelete(f) \/ DeleteRow(f) \/ InsertRow(f)
      \/ \E T \in SUBSET Tasks : TransactionsEnd(T)
  <2>1. ASSUME NEW m \in Messages, Receive(m) \/ CreateUser(m) \/ Route(m)
        PROVE  UNCHANGED <<seen, deleted, inserted, at>>
    BY <2>1 DEF Receive, CreateUser, Route, formVars, lockVars, TaskEnds
  <2>2. ASSUME NEW f \in Forms,
               \/ Submit(f) \/ UpdateProfile(f) \/ SendSubjectsClassesFlow(f)
               \/ ReadClasses(f) \/ UpdateUser(f)
        PROVE  UNCHANGED <<seen, deleted, inserted, at>>
    BY <2>2 DEF Submit, UpdateProfile, SendSubjectsClassesFlow, ReadClasses,
       UpdateUser, formVars, lockVars, TaskEnds
  <2>3. ASSUME NEW t \in Tasks,
               \/ Fails(t)
               \/ t \in Forms /\ (InsertRaises(t) \/ DeadlockDetected(t)
                                    \/ Commit(t))
        PROVE  \E T \in SUBSET Tasks : TransactionsEnd(T)
    <3>1. TransactionsEnd({t})
      BY <2>3 DEF Fails, InsertRaises, DeadlockDetected, Commit, TaskEnds
    <3> QED
      BY <3>1
  <2>4. Restart => TransactionsEnd(Forms) /\ Forms \in SUBSET Tasks
    BY DEF Restart, Tasks
  <2>5. UNCHANGED vars => UNCHANGED <<seen, deleted, inserted, at>>
    BY DEF vars, formVars, lockVars
  <2> QED
    BY <2>1, <2>2, <2>3, <2>4, <2>5 DEF Next, Proceed, Tasks
<1> QED
  BY <1>2, <1>3, <1>4, <1>5, <1>6, <1>7 DEF TypeOK

\* The variables stay in their types.
LEMMA TypeStep ==
    ASSUME OnboardingInv, [Next]_vars
    PROVE  TypeOK'
<1> USE DEF OnboardingInv
<1>1. user' \in User
  BY RowOnward
<1>2. copy' \in [Tasks -> User]
  <2>1. \/ copy' = copy
        \/ \E t \in Tasks : \/ copy' = [copy EXCEPT ![t] = user]
                            \/ copy' = [copy EXCEPT ![t] = NewUser]
                            \/ copy' = [copy EXCEPT ![t] = NoUser]
        \/ copy' = [t \in Tasks |-> NoUser]
    BY DEF Next, vars, Receive, Submit, Proceed, Fails, Restart, CreateUser,
           Route, UpdateProfile, SendSubjectsClassesFlow, StartDelete,
           DeleteRow, InsertRow, InsertRaises,
         DeadlockDetected, TaskEnds, Commit, ReadClasses, UpdateUser, Tasks
  <2> QED
    BY <2>1, NewUserType DEF TypeOK
<1>3. taught' \subseteq TeacherRow
  <2>1. ASSUME NEW f \in ClassForms,
               taught' = (taught \ deleted[f]) \cup RowsOf(f)
        PROVE  taught' \subseteq TeacherRow
    BY <2>1, RowsOfClasses DEF TypeOK, ClassForms
  <2> QED
    BY <2>1, TaughtStep DEF TypeOK
<1>4. offered' \subseteq Kinds
  <2>1. \/ offered' = offered \/ offered' = offered \cup {"classes"}
        \/ \E m \in Messages : \E k \in Offers(copy[m]) :
             offered' = offered \cup {k}
    BY DEF Next, vars, Receive, Submit, Proceed, Fails, Restart, CreateUser,
           Route, UpdateProfile, SendSubjectsClassesFlow, SendFlow, StartDelete,
           DeleteRow, InsertRow, InsertRaises,
         DeadlockDetected, TaskEnds, Commit, ReadClasses, UpdateUser
  <2>2. \A m \in Messages : Offers(copy[m]) \subseteq Kinds
    BY DEF Offers, MenuFlows, OnboardingFlow, Kinds
  <2> QED
    BY <2>1, <2>2 DEF Kinds, TypeOK
<1>5. pc' \in [Tasks -> Labels]
  <2>1. CASE UNCHANGED vars
    BY <2>1 DEF vars, TypeOK
  <2>2. CASE Restart
    BY <2>2 DEF Restart, TypeOK, Labels, Ended
  <2>3. ASSUME NEW t \in Tasks, NEW l \in Labels, pc' = [pc EXCEPT ![t] = l]
        PROVE  pc' \in [Tasks -> Labels]
    BY <2>3 DEF TypeOK
  <2>4. \/ UNCHANGED vars
        \/ Restart
        \/ \E t \in Tasks : \E l \in Labels : pc' = [pc EXCEPT ![t] = l]
    <3> USE DEF Labels, InAssignment, InTransaction, Ended
    <3>1. ASSUME NEW m \in Messages, Receive(m) \/ CreateUser(m) \/ Route(m)
          PROVE  \E l \in Labels : pc' = [pc EXCEPT ![m] = l]
      BY <3>1 DEF Receive, CreateUser, Route, TaskEnds
    <3>2. ASSUME NEW f \in Forms,
                 \/ Submit(f) \/ UpdateProfile(f) \/ SendSubjectsClassesFlow(f)
                 \/ ReadClasses(f) \/ UpdateUser(f)
          PROVE  \E l \in Labels : pc' = [pc EXCEPT ![f] = l]
      BY <3>2 DEF Submit, UpdateProfile, SendSubjectsClassesFlow, ReadClasses,
         UpdateUser, TaskEnds
    <3>3. ASSUME NEW f \in Forms,
                 \/ StartDelete(f) \/ DeleteRow(f) \/ InsertRow(f)
                 \/ InsertRaises(f) \/ DeadlockDetected(f) \/ Commit(f)
          PROVE  \E l \in Labels : pc' = [pc EXCEPT ![f] = l]
      BY <3>3 DEF StartDelete, DeleteRow, InsertRow, InsertRaises,
         DeadlockDetected, Commit, TaskEnds
    <3>4. ASSUME NEW t \in Tasks, Fails(t)
          PROVE  \E l \in Labels : pc' = [pc EXCEPT ![t] = l]
      BY <3>4 DEF Fails, TaskEnds
    <3> QED
      BY <3>1, <3>2, <3>3, <3>4 DEF Next, Proceed, Tasks
  <2> QED
    BY <2>1, <2>2, <2>3, <2>4
<1>6. /\ chosen' \in [Forms -> SUBSET Classes] /\ alone' \subseteq ClassForms
  <2>1. ASSUME NEW f \in Forms, Submit(f)
        PROVE  /\ chosen' \in [Forms -> SUBSET Classes]
               /\ alone' \subseteq ClassForms
    <3>1. CASE Kind[f] = "classes"
      BY <2>1, <3>1 DEF Submit, TypeOK, ClassForms, TaskEnds
    <3>2. CASE Kind[f] # "classes"
      BY <2>1, <3>2 DEF Submit, TypeOK, TaskEnds
    <3> QED
      BY <3>1, <3>2
  <2>2. (\E f \in Forms : Submit(f)) \/ UNCHANGED <<chosen, alone>>
    BY DEF Next, vars, Receive, Submit, Proceed, Fails, Restart, CreateUser,
           Route, UpdateProfile, SendSubjectsClassesFlow, StartDelete,
           DeleteRow, InsertRow, InsertRaises,
         DeadlockDetected, TaskEnds, Commit, ReadClasses, UpdateUser,
           formVars
  <2> QED
    BY <2>1, <2>2 DEF TypeOK
<1>7. /\ seen' \in [Forms -> SUBSET TeacherRow]
      /\ deleted' \in [Forms -> SUBSET TeacherRow]
      /\ inserted' \in [Forms -> SUBSET TeacherRow]
      /\ at' \in [Forms -> SUBSET TeacherRow]
  BY LockTypes
<1> QED
  BY <1>1, <1>2, <1>3, <1>4, <1>5, <1>6, <1>7 DEF TypeOK

\* A copy is never ahead of the row.
LEMMA CopyBehind ==
    ASSUME OnboardingInv, [Next]_vars
    PROVE  CompletedMeansActive' /\ RowMovesOn'
<1> USE DEF OnboardingInv
<1>1. ASSUME NEW t \in Tasks
      PROVE  /\ copy'[t].onboarding = "completed" => copy'[t].state = "active"
             /\ copy'[t].state = "active" => user'.state = "active"
             /\ copy'[t].info # {} => user'.info # {}
  <2>1. copy'[t] \in {copy[t], user, user', NoUser}
    BY CopyStep
  <2>2. CASE copy'[t] = copy[t]
    BY <2>2, RowOnward DEF CompletedMeansActive, RowMovesOn
  <2>3. CASE copy'[t] = user
    BY <2>3, RowOnward DEF CompletedMeansActive
  <2>4. CASE copy'[t] = user'
    BY <2>4, RowOnward
  <2>5. CASE copy'[t] = NoUser
    BY <2>5 DEF NoUser
  <2> QED
    BY <2>1, <2>2, <2>3, <2>4, <2>5
<1> QED
  BY <1>1, RowOnward DEF CompletedMeansActive, RowMovesOn

\* Only a message creates the row, and only a row brings a form.
LEMMA FirstStep ==
    ASSUME OnboardingInv, [Next]_vars
    PROVE  RowComesFirst'
<1> USE DEF OnboardingInv
<1> SUFFICES ASSUME user'.state = "absent"
             PROVE  /\ offered' = {}
                    /\ \A m \in Messages : pc'[m] # "routing"
                    /\ \A f \in Forms : pc'[f] = "idle"
  BY DEF RowComesFirst
<1>1. /\ user.state = "absent" /\ offered = {}
      /\ \A m \in Messages : pc[m] # "routing"
      /\ \A f \in Forms : pc[f] = "idle"
  BY RowOnward DEF RowComesFirst
<1>2. user' # NewUser
  BY DEF NewUser
<1>3. CASE UNCHANGED vars
  BY <1>1, <1>3 DEF vars
<1>4. ASSUME NEW m \in Messages, Receive(m) \/ CreateUser(m)
      PROVE  /\ offered' = offered
             /\ \E l \in {"creating", "conflict"} : pc' = [pc EXCEPT ![m] = l]
  BY <1>1, <1>2, <1>4 DEF Receive, CreateUser, TaskEnds
<1>5. ASSUME NEW m \in Messages, Route(m) PROVE FALSE
  BY <1>1, <1>5 DEF Route, TaskEnds
<1>6. ASSUME NEW f \in Forms, Submit(f) PROVE FALSE
  BY <1>1, <1>6 DEF Submit, TaskEnds
<1>7. ASSUME NEW f \in Forms,
             \/ UpdateProfile(f) \/ SendSubjectsClassesFlow(f)
             \/ StartDelete(f) \/ DeleteRow(f) \/ InsertRow(f)
             \/ InsertRaises(f) \/ DeadlockDetected(f) \/ Commit(f)
             \/ ReadClasses(f) \/ UpdateUser(f)
      PROVE  FALSE
  BY <1>1, <1>7, VictimWaits DEF UpdateProfile, SendSubjectsClassesFlow, StartDelete,
     DeleteRow, InsertRow, InsertRaises,
         DeadlockDetected, TaskEnds, Commit, ReadClasses, UpdateUser
<1>8. ASSUME NEW t \in Tasks, Fails(t)
      PROVE  /\ t \in Messages /\ offered' = offered
             /\ pc' = [pc EXCEPT ![t] = "failed"]
  BY <1>1, <1>8 DEF Fails, Tasks, TaskEnds
<1>9. CASE Restart
  <2>1. /\ offered' = offered
        /\ \A t \in Tasks : pc'[t] \in {pc[t], "failed"}
        /\ \A t \in Tasks : pc[t] = "idle" => pc'[t] = "idle"
    BY <1>9 DEF Restart
  <2> QED
    BY <1>1, <2>1 DEF Tasks
<1>10. ASSUME NEW m \in Messages, offered' = offered,
              NEW l \in {"creating", "conflict", "failed"},
              pc' = [pc EXCEPT ![m] = l]
       PROVE  /\ offered' = {}
              /\ \A n \in Messages : pc'[n] # "routing"
              /\ \A f \in Forms : pc'[f] = "idle"
  <2>1. \A t \in Tasks : pc'[t] = IF t = m THEN l ELSE pc[t]
    BY <1>10 DEF TypeOK
  <2>2. \A f \in Forms : f \in Tasks /\ f # m
    BY TasksAssumption DEF Tasks
  <2> QED
    BY <1>1, <1>10, <2>1, <2>2 DEF Tasks
<1> QED
  BY <1>3, <1>4, <1>5, <1>6, <1>7, <1>8, <1>9, <1>10 DEF Next, Proceed

\* How far the forms are stays consistent with what they selected.
LEMMA ProgressStep ==
    ASSUME OnboardingInv, [Next]_vars
    PROVE  FormProgress'
<1> USE DEF OnboardingInv
<1>1. ASSUME NEW f \in Forms, pc'[f] \in InAssignment \ {"accepted"}
      PROVE  f \in ClassForms
  <2>1. CASE pc[f] \in InAssignment \ {"accepted"}
    BY <2>1 DEF FormProgress
  <2>2. CASE pc[f] \notin InAssignment \ {"accepted"}
    <3>0. f \in Tasks /\ f \notin Messages
      BY DEF Tasks
    <3> USE DEF TypeOK, InAssignment, InTransaction, Ended
    <3>1. ASSUME UNCHANGED vars \/ Restart PROVE FALSE
      BY <1>1, <2>2, <3>0, <3>1 DEF vars, Restart
    <3>2. ASSUME NEW m \in Messages, Receive(m) \/ CreateUser(m) \/ Route(m)
          PROVE  FALSE
      <4>1. \E l \in Labels : pc' = [pc EXCEPT ![m] = l]
        BY <3>2 DEF Receive, CreateUser, Route, TaskEnds, Labels
      <4> QED
        BY <1>1, <2>2, <3>0, <4>1
    <3>3. ASSUME NEW g \in Forms,
                 \/ Submit(g) \/ UpdateProfile(g) \/ SendSubjectsClassesFlow(g)
                 \/ UpdateUser(g)
          PROVE  FALSE
      <4>1. \E l \in {"accepted", "offering"} \cup Ended :
              pc' = [pc EXCEPT ![g] = l]
        BY <3>3 DEF Submit, UpdateProfile, SendSubjectsClassesFlow, UpdateUser,
           TaskEnds
      <4> QED
        BY <1>1, <2>2, <3>0, <4>1
    <3>4. ASSUME NEW g \in Forms,
                 \/ DeleteRow(g) \/ InsertRow(g) \/ Commit(g) \/ ReadClasses(g)
          PROVE  FALSE
      <4>1. /\ pc[g] \in InAssignment \ {"accepted"}
            /\ \E l \in Labels : pc' = [pc EXCEPT ![g] = l]
        BY <3>4 DEF DeleteRow, InsertRow, Commit, ReadClasses, TaskEnds, Labels
      <4>2. g = f
        BY <1>1, <2>2, <3>0, <4>1
      <4> QED
        BY <2>2, <4>1, <4>2
    <3>5. ASSUME NEW t \in Tasks,
                 Fails(t) \/ InsertRaises(t) \/ DeadlockDetected(t)
          PROVE  FALSE
      <4>1. pc' = [pc EXCEPT ![t] = "failed"]
        BY <3>5 DEF Fails, InsertRaises, DeadlockDetected, TaskEnds
      <4> QED
        BY <1>1, <2>2, <3>0, <4>1
    <3>6. ASSUME NEW g \in Forms, StartDelete(g)
          PROVE  f \in ClassForms
      <4>1. Kind[g] = "classes" /\ pc' = [pc EXCEPT ![g] = "deleting"]
        BY <3>6 DEF StartDelete
      <4>2. g = f
        BY <1>1, <2>2, <3>0, <4>1
      <4> QED
        BY <4>1, <4>2 DEF ClassForms
    <3> QED
      BY <3>1, <3>2, <3>3, <3>4, <3>5, <3>6 DEF Next, Proceed, Tasks
  <2> QED
    BY <2>1, <2>2
<1>2. ASSUME NEW f \in ClassForms
      PROVE  /\ pc'[f] \in InAssignment => chosen'[f] # {}
             /\ pc'[f] = "idle" => chosen'[f] = {}
             /\ pc'[f] # "offering"
             /\ pc'[f] \in {"reading", "updating"} => taught' # {}
  <2>0. f \in Forms /\ f \in Tasks
    BY DEF ClassForms, Tasks
  <2>1. taught # {} => taught' # {}
    <3>1. ASSUME NEW g \in ClassForms, pc[g] = "committing",
                 taught' = (taught \ deleted[g]) \cup RowsOf(g)
          PROVE  taught' # {}
      BY <3>1, RowsOfClasses DEF FormProgress, InAssignment, InTransaction,
                                 ClassForms
    <3> QED
      BY <3>1, TaughtStep
  <2>2. CASE Rests(f) /\ chosen'[f] = chosen[f]
    <3>1. pc'[f] = pc[f] \/ pc'[f] \in {"done", "failed", "notFound"}
      BY <2>2 DEF Rests
    <3>2. {"done", "failed", "notFound"} \cap (InAssignment \cup {"idle"}) = {}
      BY DEF InAssignment, InTransaction
    <3> QED
      BY <2>1, <2>2, <3>1, <3>2 DEF FormProgress, InAssignment
  <2>3. CASE Moves(f) /\ pc[f] # "idle"
    <3>1. chosen'[f] = chosen[f]
      BY <2>3, FormStep
    <3>2. pc[f] \in InAssignment /\ pc'[f] \notin {"idle", "offering"}
      BY <2>3 DEF Moves, InAssignment, InTransaction
    <3>3. chosen[f] # {}
      BY <3>2 DEF FormProgress
    <3>4. pc'[f] = "updating" => pc[f] = "reading"
      BY <2>3 DEF Moves
    <3>5. pc'[f] = "reading" => taught' = (taught \ deleted[f]) \cup RowsOf(f)
      BY <2>3 DEF Moves, Commit, LocksHeld
    <3>6. RowsOf(f) # {}
      BY <2>0, <3>3, RowsOfClasses
    <3>7. pc'[f] = "updating" => taught' # {}
      BY <2>1, <3>4 DEF FormProgress
    <3> QED
      BY <3>1, <3>2, <3>3, <3>5, <3>6, <3>7
  <2>4. CASE Moves(f) /\ pc[f] = "idle"
    <3>1. pc'[f] = "accepted" /\ Submit(f)
      BY <2>4 DEF Moves
    <3>2. \E C \in (SUBSET Classes) \ {{}} :
            chosen' = [chosen EXCEPT ![f] = C]
      BY <2>0, <3>1 DEF Submit, ClassForms, TypeOK, TaskEnds
    <3>3. chosen'[f] # {}
      BY <2>0, <3>2 DEF TypeOK
    <3> QED
      BY <3>1, <3>3
  <2> QED
    BY <2>2, <2>3, <2>4, FormStep
<1> QED
  BY <1>1, <1>2 DEF FormProgress

\* What a transaction holds stays consistent with how far it is.
LEMMA HeldStep ==
    ASSUME OnboardingInv, [Next]_vars
    PROVE  LocksHeld'
<1> USE DEF OnboardingInv
<1> SUFFICES ASSUME NEW f \in ClassForms
             PROVE  /\ pc'[f] \notin InTransaction
                         => deleted'[f] = {} /\ inserted'[f] = {}
                    /\ pc'[f] = "deleting" => inserted'[f] = {}
                    /\ pc'[f] = "inserting"
                         => inserted'[f] \cup at'[f] \subseteq RowsOf(f)'
                    /\ pc'[f] = "committing" => inserted'[f] = RowsOf(f)'
  BY DEF LocksHeld
<1>0. f \in Forms /\ f \in Tasks
  BY DEF ClassForms, Tasks
<1>1. pc[f] # "idle" => RowsOf(f)' = RowsOf(f)
  BY FormStep DEF RowsOf
<1>2. CASE Untouched(f)
  BY <1>1, <1>2 DEF Untouched, LocksHeld, InTransaction
<1>3. CASE Released(f)
  BY <1>3 DEF Released, InTransaction
<1>4. CASE StartDelete(f)
  BY <1>0, <1>4 DEF StartDelete, TypeOK, LocksHeld, InTransaction, lockVars
<1>5. CASE DeleteRow(f)
  <2> DEFINE left == (seen[f] \cap taught) \ deleted'[f]
  <2>1. /\ pc[f] = "deleting" /\ inserted' = inserted
        /\ pc'[f] = IF left = {} THEN "inserting" ELSE "deleting"
        /\ \E row \in OneOf(IF left = {} THEN RowsOf(f) ELSE left) :
             at' = [at EXCEPT ![f] = row]
    BY <1>0, <1>5 DEF DeleteRow, TypeOK
  <2>2. left = {} => at'[f] \subseteq RowsOf(f)
    BY <1>0, <2>1 DEF TypeOK, OneOf
  <2> QED
    BY <1>1, <2>1, <2>2 DEF LocksHeld, InTransaction
<1>6. CASE InsertRow(f)
  <2> DEFINE left == RowsOf(f) \ inserted'[f]
  <2>1. /\ pc[f] = "inserting" /\ inserted'[f] = inserted[f] \cup at[f]
        /\ pc'[f] = IF left = {} THEN "committing" ELSE "inserting"
        /\ \E row \in OneOf(left) : at' = [at EXCEPT ![f] = row]
    BY <1>0, <1>6 DEF InsertRow, TypeOK
  <2>2. at'[f] \subseteq RowsOf(f)
    BY <1>0, <2>1 DEF TypeOK, OneOf
  <2>3. inserted'[f] \subseteq RowsOf(f)
    BY <2>1 DEF LocksHeld
  <2> QED
    BY <1>1, <2>1, <2>2, <2>3 DEF InTransaction
<1> QED
  BY <1>2, <1>3, <1>4, <1>5, <1>6, LockStep

\* The submission of a class form ends the solitude of those in progress.
LEMMA AloneChange ==
    ASSUME TypeOK, [Next]_vars
    PROVE  \/ alone' = alone /\ \A g \in ClassForms :
                                  pc[g] = "idle" => pc'[g] \notin InAssignment
           \/ \E g \in ClassForms :
                LET others == {h \in ClassForms : pc[h] \in InAssignment} IN
                /\ pc[g] = "idle" /\ pc' = [pc EXCEPT ![g] = "accepted"]
                /\ copy' = [copy EXCEPT ![g] = user]
                /\ UNCHANGED <<user, taught>>
                /\ alone' = IF others = {} THEN alone \cup {g}
                                           ELSE alone \ others
<1>1. ASSUME NEW g \in Forms, Submit(g), g \in ClassForms,
             pc' = [pc EXCEPT ![g] = "accepted"]
      PROVE  LET others == {h \in ClassForms : pc[h] \in InAssignment} IN
             /\ pc[g] = "idle" /\ copy' = [copy EXCEPT ![g] = user]
             /\ UNCHANGED <<user, taught>>
             /\ alone' = IF others = {} THEN alone \cup {g}
                                        ELSE alone \ others
  <2>1. g \in Tasks /\ Kind[g] = "classes"
    BY <1>1 DEF Tasks, ClassForms
  <2>2. pc'[g] # "failed"
    BY <1>1, <2>1 DEF TypeOK
  <2>3. pc' # [pc EXCEPT ![g] = "failed"]
    BY <2>1, <2>2 DEF TypeOK
  <2> QED
    BY <1>1, <2>1, <2>3 DEF Submit, TaskEnds
<1>2. ASSUME NEW g \in Forms, Submit(g),
             ~(g \in ClassForms /\ pc' = [pc EXCEPT ![g] = "accepted"])
      PROVE  /\ alone' = alone
             /\ \A h \in ClassForms :
                  pc[h] = "idle" => pc'[h] \notin InAssignment
  <2>1. alone' = alone /\ \E l \in {"accepted", "failed"} :
                            /\ pc' = [pc EXCEPT ![g] = l]
                            /\ l = "accepted" => g \notin ClassForms
    BY <1>2 DEF Submit, ClassForms, TaskEnds
  <2> QED
    BY <2>1 DEF TypeOK, ClassForms, Tasks, InAssignment, InTransaction
<1>3. ASSUME \A g \in Forms : ~Submit(g)
      PROVE  alone' = alone
  BY <1>3 DEF Next, vars, Receive, Submit, Proceed, Fails, Restart, CreateUser,
         Route, UpdateProfile, SendSubjectsClassesFlow, StartDelete,
         DeleteRow, InsertRow, InsertRaises,
         DeadlockDetected, TaskEnds, Commit, ReadClasses, UpdateUser, formVars
<1>4. ASSUME \A g \in Forms : ~Submit(g), NEW h \in ClassForms, pc[h] = "idle"
      PROVE  pc'[h] \notin InAssignment
  <2>1. h \in Forms
    BY DEF ClassForms
  <2>2. ~Moves(h)
    BY <1>4, <2>1 DEF Moves
  <2>3. Rests(h)
    BY <2>2, FormStep
  <2> QED
    BY <1>4, <2>3 DEF Rests, InAssignment, InTransaction
<1> QED
  BY <1>1, <1>2, <1>3, <1>4

\* A form in progress that is alone after a step was alone and in progress
\* before, and no other one has started; or it has just been submitted.
LEMMA AloneBefore ==
    ASSUME TypeOK, AloneIsExclusive, [Next]_vars,
           NEW f \in alone', pc'[f] \in InAssignment, TypeOK'
    PROVE  /\ f \in ClassForms
           /\ \A g \in ClassForms \ {f} : pc'[g] \notin InAssignment
           /\ \/ f \in alone /\ pc[f] \in InAssignment
              \/ pc'[f] = "accepted" /\ copy'[f].info = user'.info
<1>0. f \in ClassForms /\ f \in Tasks
  BY DEF TypeOK, ClassForms, Tasks
<1>1. ASSUME NEW g \in ClassForms, pc'[g] \in InAssignment
      PROVE  pc[g] \in InAssignment \/ pc[g] = "idle"
  <2>1. CASE Moves(g)
    BY <2>1 DEF Moves, InAssignment, InTransaction
  <2>2. CASE Rests(g)
    BY <1>1, <2>2 DEF Rests, InAssignment, InTransaction
  <2> QED
    BY <2>1, <2>2, FormStep
<1>2. CASE alone' = alone /\ \A g \in ClassForms :
                               pc[g] = "idle" => pc'[g] \notin InAssignment
  <2>1. pc[f] \in InAssignment
    BY <1>0, <1>1, <1>2
  <2>2. \A g \in ClassForms \ {f} : pc[g] \notin InAssignment
    BY <1>2, <2>1 DEF AloneIsExclusive
  <2> QED
    BY <1>0, <1>1, <1>2, <2>1, <2>2
<1>3. ASSUME NEW g \in ClassForms, pc[g] = "idle",
             pc' = [pc EXCEPT ![g] = "accepted"],
             copy' = [copy EXCEPT ![g] = user], UNCHANGED <<user, taught>>,
             alone' = IF {h \in ClassForms : pc[h] \in InAssignment} = {}
                      THEN alone \cup {g}
                      ELSE alone \ {h \in ClassForms : pc[h] \in InAssignment}
      PROVE  /\ \A h \in ClassForms \ {f} : pc'[h] \notin InAssignment
             /\ pc'[f] = "accepted" /\ copy'[f].info = user'.info
  <2>1. g \in Tasks /\ "idle" \notin InAssignment
    BY DEF Tasks, ClassForms, InAssignment, InTransaction
  <2>2. CASE f = g
    <3>1. g \notin alone
      BY <1>3 DEF AloneIsExclusive
    <3>2. pc'[f] = "accepted" /\ copy'[f] = user
      BY <1>3, <2>1, <2>2 DEF TypeOK
    <3>3. ASSUME NEW h \in ClassForms, pc[h] \in InAssignment
          PROVE  g \in alone
      BY <1>3, <2>2, <3>3
    <3>4. \A h \in ClassForms : pc[h] \notin InAssignment
      BY <3>1, <3>3
    <3>5. \A h \in ClassForms \ {f} : pc'[h] = pc[h]
      BY <1>3, <2>2 DEF TypeOK, ClassForms, Tasks
    <3> QED
      BY <1>3, <3>2, <3>4, <3>5
  <2>3. CASE f # g
    <3>1. pc'[f] = pc[f]
      BY <1>0, <1>3, <2>3 DEF TypeOK
    <3>2. pc[f] \in InAssignment
      BY <3>1
    <3>3. f \notin alone'
      BY <1>0, <1>3, <2>3, <3>2
    <3> QED
      BY <3>3
  <2> QED
    BY <2>2, <2>3
<1> QED
  BY <1>0, <1>2, <1>3, AloneChange

\* Nothing a lonely class form relies on is changed by anybody else.
LEMMA AloneStep ==
    ASSUME OnboardingInv, [Next]_vars
    PROVE  AloneIsExclusive'
<1> USE DEF OnboardingInv
<1>0. TypeOK'
  BY TypeStep
<1>1. ASSUME NEW f \in alone'
      PROVE  pc'[f] # "idle"
  <2>0. f \in ClassForms /\ f \in Tasks
    BY <1>0 DEF TypeOK, ClassForms, Tasks
  <2>1. CASE pc[f] # "idle"
    BY <2>0, <2>1, FormStep
  <2>2. CASE pc[f] = "idle"
    <3>1. f \notin alone
      BY <2>2 DEF AloneIsExclusive
    <3>2. PICK g \in ClassForms :
            /\ pc' = [pc EXCEPT ![g] = "accepted"]
            /\ alone' \subseteq alone \cup {g}
      BY <3>1, AloneChange
    <3>3. f = g
      BY <3>1, <3>2
    <3> QED
      BY <2>0, <3>2, <3>3 DEF TypeOK
  <2> QED
    BY <2>1, <2>2
<1>2. ASSUME NEW f \in alone', pc'[f] \in InAssignment
      PROVE  /\ \A g \in ClassForms \ {f} : pc'[g] \notin InAssignment
             /\ copy'[f].info = user'.info
             /\ pc'[f] \in InTransaction =>
                  seen'[f] = taught' /\ deleted'[f] \subseteq taught'
             /\ pc'[f] \in {"inserting", "committing"} => deleted'[f] = taught'
             /\ pc'[f] \in {"reading", "updating"} => taught' = RowsOf(f)'
  <2>1. /\ f \in ClassForms
        /\ \A g \in ClassForms \ {f} : pc'[g] \notin InAssignment
        /\ \/ f \in alone /\ pc[f] \in InAssignment
           \/ pc'[f] = "accepted" /\ copy'[f].info = user'.info
    BY <1>0, <1>2, AloneBefore
  <2>2. CASE pc'[f] = "accepted" /\ copy'[f].info = user'.info
    BY <2>1, <2>2 DEF InTransaction
  <2>3. CASE f \in alone /\ pc[f] \in InAssignment
    <3>1. /\ \A g \in ClassForms \ {f} : pc[g] \notin InAssignment
          /\ copy[f].info = user.info
          /\ pc[f] \in InTransaction =>
               seen[f] = taught /\ deleted[f] \subseteq taught
          /\ pc[f] \in {"inserting", "committing"} => deleted[f] = taught
          /\ pc[f] \in {"reading", "updating"} => taught = RowsOf(f)
      BY <2>3 DEF AloneIsExclusive
    <3>2. copy'[f] = copy[f] /\ RowsOf(f)' = RowsOf(f) /\ pc[f] # "idle"
      <4>1. pc[f] # "idle" /\ pc'[f] \notin Ended
        BY <1>2, <2>3 DEF InAssignment, InTransaction, Ended
      <4>2. copy'[f] = copy[f] /\ chosen'[f] = chosen[f]
        BY <2>1, <4>1, CopyStep, FormStep
      <4> QED
        BY <4>1, <4>2 DEF RowsOf
    <3>3. user'.info = user.info
      <4>1. CASE user' = user
        BY <4>1
      <4>2. CASE user.state = "absent" /\ user' = NewUser
        BY <4>2 DEF NewUser, RowMovesOn
      <4>3. ASSUME NEW h \in Forms,
                   user' = Write(user, copy[h], Introduced(copy[h]))
            PROVE  user'.info = user.info
        <5>1. user \in User /\ copy[h] \in User
          BY DEF TypeOK, Tasks
        <5>2. /\ Introduced(copy[h]) \in User
              /\ Introduced(copy[h]).info = copy[h].info
          BY <5>1, CopyChanges
        <5> QED
          BY <4>3, <5>1, <5>2, WriteFields
      <4>4. ASSUME NEW h \in ClassForms, pc[h] = "updating",
                   NEW l \in {"done", "failed"}, pc' = [pc EXCEPT ![h] = l]
            PROVE  FALSE
        <5>1. h = f
          BY <2>1, <3>1, <4>4 DEF InAssignment
        <5>2. pc'[f] = l
          BY <2>1, <4>4, <5>1 DEF TypeOK, Tasks, ClassForms
        <5> QED
          BY <1>2, <5>2 DEF InAssignment, InTransaction
      <4> QED
        BY <4>1, <4>2, <4>3, <4>4, RowStep
    <3>4. \/ taught' = taught /\ ~(pc[f] = "committing" /\ pc'[f] = "reading")
          \/ /\ pc[f] = "committing" /\ pc'[f] = "reading"
             /\ taught' = (taught \ deleted[f]) \cup RowsOf(f)
      <4>1. ASSUME NEW h \in ClassForms, pc[h] = "committing",
                   pc' = [pc EXCEPT ![h] = "reading"],
                   taught' = (taught \ deleted[h]) \cup RowsOf(h)
            PROVE  /\ pc[f] = "committing" /\ pc'[f] = "reading"
                   /\ taught' = (taught \ deleted[f]) \cup RowsOf(f)
        <5>1. h = f
          BY <2>1, <3>1, <4>1 DEF InAssignment, InTransaction
        <5>2. pc'[f] = "reading"
          BY <2>1, <4>1, <5>1 DEF TypeOK, Tasks, ClassForms
        <5> QED
          BY <4>1, <5>1, <5>2
      <4>2. CASE pc[f] = "committing" /\ pc'[f] = "reading"
        <5>1. ~Rests(f)
          BY <4>2 DEF Rests
        <5>2. Moves(f)
          BY <2>1, <5>1, FormStep
        <5>3. Commit(f)
          BY <4>2, <5>2 DEF Moves
        <5> QED
          BY <2>1, <4>2, <5>3 DEF Commit, LocksHeld
      <4> QED
        BY <4>1, <4>2, TaughtStep
    <3>5. CASE pc[f] = "committing" /\ pc'[f] = "reading"
      <4>1. taught' = RowsOf(f)
        BY <3>1, <3>4, <3>5 DEF InTransaction
      <4> QED
        BY <2>1, <3>2, <3>3, <3>5, <4>1, <3>1 DEF InTransaction
    <3>6. CASE taught' = taught /\ ~(pc[f] = "committing" /\ pc'[f] = "reading")
      <4>1. pc'[f] \in {"reading", "updating"} => pc[f] \in {"reading", "updating"}
        BY <2>1, <3>6, FormStep DEF Moves, Rests
      <4>2. pc'[f] \in {"reading", "updating"} => taught' = RowsOf(f)'
        BY <3>1, <3>2, <3>6, <4>1
      <4>3. ASSUME pc'[f] \in InTransaction
            PROVE  /\ seen'[f] = taught /\ deleted'[f] \subseteq taught
                   /\ pc'[f] \in {"inserting", "committing"}
                        => deleted'[f] = taught
        <5>1. CASE Untouched(f)
          BY <3>1, <4>3, <5>1 DEF Untouched
        <5>2. CASE Released(f)
          BY <4>3, <5>2 DEF Released
        <5>3. CASE StartDelete(f)
          <6>1. /\ pc[f] = "accepted" /\ pc'[f] = "deleting"
                /\ seen'[f] = taught /\ deleted' = deleted
            BY <2>1, <5>3 DEF StartDelete, TypeOK, ClassForms, Tasks, lockVars
          <6>2. deleted[f] = {}
            BY <2>1, <6>1 DEF LocksHeld, InTransaction
          <6> QED
            BY <6>1, <6>2
        <5>4. CASE DeleteRow(f)
          <6>1. /\ pc[f] = "deleting" /\ seen' = seen
                /\ deleted'[f] = deleted[f] \cup (at[f] \cap taught)
                /\ pc'[f] = IF (seen[f] \cap taught) \ deleted'[f] = {}
                            THEN "inserting" ELSE pc[f]
            BY <2>1, <5>4 DEF DeleteRow, TypeOK, ClassForms, Tasks
          <6> QED
            BY <3>1, <6>1 DEF InTransaction
        <5>5. CASE InsertRow(f)
          <6>1. pc[f] = "inserting" /\ seen' = seen /\ deleted' = deleted
            BY <5>5 DEF InsertRow
          <6> QED
            BY <3>1, <6>1 DEF InTransaction
        <5> QED
          BY <2>1, <5>1, <5>2, <5>3, <5>4, <5>5, LockStep
      <4> QED
        BY <2>1, <3>1, <3>2, <3>3, <3>6, <4>2, <4>3 DEF InTransaction
    <3> QED
      BY <3>4, <3>5, <3>6
  <2> QED
    BY <2>1, <2>2, <2>3
<1> QED
  BY <1>0, <1>1, <1>2 DEF AloneIsExclusive, ClassForms

-----------------------------------------------------------------------------
\* Nothing is there at first.
LEMMA InitInv == Init => OnboardingInv
<1> SUFFICES ASSUME Init PROVE OnboardingInv
  OBVIOUS
<1>1. TypeOK
  BY NewUserType DEF Init, TypeOK, Labels
<1>2. /\ user.state = "absent" /\ user.info = {} /\ user.onboarding = "new"
      /\ \A t \in Tasks : /\ copy[t].state = "absent" /\ copy[t].info = {}
                          /\ copy[t].onboarding = "new"
  BY DEF Init, NoUser
<1>3. \A f \in Forms : pc[f] = "idle" /\ chosen[f] = {}
  BY DEF Init, Tasks
<1>4. FormProgress
  BY <1>3 DEF FormProgress, ClassForms, InAssignment, InTransaction
<1>5. AloneIsExclusive /\ LocksHeld
  BY <1>3 DEF Init, AloneIsExclusive, LocksHeld, ClassForms, InTransaction
<1>6. CompletedMeansActive /\ ActiveHasClasses /\ InfoFromOneForm /\ RowMovesOn
  BY <1>2 DEF CompletedMeansActive, ActiveHasClasses, InfoFromOneForm, RowMovesOn
<1>7. WelcomedIsActive
  BY <1>3 DEF WelcomedIsActive, ClassForms
<1>8. RowComesFirst
  BY <1>3 DEF Init, RowComesFirst, Tasks
<1> QED
  BY <1>1, <1>4, <1>5, <1>6, <1>7, <1>8 DEF OnboardingInv

\* OnboardingInv is inductive.
LEMMA InvStep == OnboardingInv /\ [Next]_vars => OnboardingInv'
<1> SUFFICES ASSUME OnboardingInv, [Next]_vars
             PROVE  OnboardingInv'
  OBVIOUS
<1>1. ActiveHasClasses'
  BY RowOnward DEF ActiveHasClasses
<1> QED
  BY <1>1, RowOnward, WelcomeStep, TypeStep, CopyBehind, FirstStep,
     ProgressStep, HeldStep, AloneStep DEF OnboardingInv

\* A class form that is alone leaves both tables with its own selection.
LEMMA RepairStep ==
    ASSUME OnboardingInv, [Next]_vars, NEW f \in ClassForms,
           pc[f] = "updating", pc'[f] = "done", f \in alone
    PROVE  user'.info = ClassesOf(taught')
<1> USE DEF OnboardingInv
<1>0. f \in Forms /\ f \in Tasks
  BY DEF ClassForms, Tasks
<1>1. copy[f].info = user.info /\ taught = RowsOf(f)
      /\ \A g \in ClassForms \ {f} : pc[g] \notin InAssignment
  BY DEF AloneIsExclusive, InAssignment
<1>2. UpdateUser(f)
  BY <1>0 DEF Next, vars, Receive, Submit, Proceed, Fails, Restart, CreateUser,
         Route, UpdateProfile, SendSubjectsClassesFlow, StartDelete,
         DeleteRow, InsertRow, InsertRaises,
         DeadlockDetected, TaskEnds, Commit, ReadClasses, UpdateUser, TypeOK, Tasks, ClassForms
<1>3. /\ user' = Write(user, copy[f], Activated(copy[f], chosen[f]))
      /\ taught' = taught
  BY <1>2 DEF UpdateUser, TaskEnds
<1>4. user \in User /\ copy[f] \in User /\ chosen[f] \in SUBSET Classes
  BY <1>0 DEF TypeOK
<1>5. /\ Activated(copy[f], chosen[f]) \in User
      /\ Activated(copy[f], chosen[f]).info = chosen[f]
  BY <1>4, CopyChanges
<1>6. user'.info = chosen[f]
  BY <1>1, <1>3, <1>4, <1>5, WriteFields
<1> QED
  BY <1>0, <1>1, <1>3, <1>6, RowsOfClasses

-----------------------------------------------------------------------------
(* The refinement of Enrolment.                                            *)

\* A choice becomes an assigned one when its form commits, together with the
\* rows; every other step adds none.
LEMMA AssignedStep ==
    ASSUME OnboardingInv, [Next]_vars
    PROVE  \/ taught' = taught /\ AssignedChoices' \subseteq AssignedChoices
           \/ \E f \in ClassForms :
                /\ pc[f] = "committing" /\ user' = user
                /\ taught' = (taught \ deleted[f]) \cup RowsOf(f)
                /\ AssignedChoices' = AssignedChoices \cup {chosen[f]}
<1> USE DEF OnboardingInv
<1>0. ClassForms \subseteq Tasks
  BY DEF ClassForms, Tasks
<1>1. ASSUME NEW g \in ClassForms, pc'[g] \in {"reading", "updating"},
             ~(pc[g] = "committing" /\ pc'[g] = "reading")
      PROVE  pc[g] \in {"reading", "updating"} /\ chosen'[g] = chosen[g]
  <2>1. CASE Moves(g)
    <3>1. pc[g] = "reading" /\ pc[g] # "idle"
      BY <1>1, <2>1 DEF Moves
    <3> QED
      BY <3>1, FormStep
  <2>2. CASE Rests(g) /\ chosen'[g] = chosen[g]
    BY <1>1, <2>2 DEF Rests
  <2> QED
    BY <2>1, <2>2, FormStep
<1>2. ASSUME NEW f \in ClassForms, pc[f] = "committing",
             pc' = [pc EXCEPT ![f] = "reading"],
             UNCHANGED <<user, copy, chosen, alone>>
      PROVE  AssignedChoices' = AssignedChoices \cup {chosen[f]}
  <2>1. \A g \in ClassForms : pc'[g] = IF g = f THEN "reading" ELSE pc[g]
    BY <1>0, <1>2 DEF TypeOK
  <2>2. chosen' = chosen
    BY <1>2
  <2>3. {g \in ClassForms : pc'[g] \in {"reading", "updating"}}
          = {g \in ClassForms : pc[g] \in {"reading", "updating"}} \cup {f}
    BY <2>1
  <2> QED
    BY <2>2, <2>3 DEF AssignedChoices
<1>3. CASE taught' = taught
  <2>1. CASE \E g \in ClassForms : pc[g] = "committing" /\ pc'[g] = "reading"
    <3>1. PICK g \in ClassForms : pc[g] = "committing" /\ pc'[g] = "reading"
      BY <2>1
    <3>2. Commit(g)
      BY <3>1, FormStep DEF Moves, Rests
    <3>3. /\ pc' = [pc EXCEPT ![g] = "reading"]
          /\ taught' = (taught \ deleted[g]) \cup RowsOf(g)
          /\ UNCHANGED <<user, copy, chosen, alone>>
      BY <3>1, <3>2 DEF Commit, LocksHeld
    <3> QED
      BY <1>2, <3>1, <3>3
  <2>2. CASE ~\E g \in ClassForms : pc[g] = "committing" /\ pc'[g] = "reading"
    BY <1>1, <1>3, <2>2 DEF AssignedChoices
  <2> QED
    BY <2>1, <2>2
<1> QED
  BY <1>2, <1>3, TaughtStep

\* The choice that enters the profile is an assigned one, and no other form
\* is concerned.
LEMMA ShownStep ==
    ASSUME OnboardingInv, [Next]_vars, NEW f \in ClassForms,
           pc[f] = "updating",
           NEW l \in {"done", "failed"}, pc' = [pc EXCEPT ![f] = l]
    PROVE  /\ chosen[f] \in AssignedChoices
           /\ AssignedChoices' \in {AssignedChoices,
                                   AssignedChoices \ {chosen[f]}}
<1> USE DEF OnboardingInv
<1>0. ClassForms \subseteq Tasks
  BY DEF ClassForms, Tasks
<1>1. chosen[f] \in AssignedChoices
  BY DEF AssignedChoices
<1>2. \A g \in ClassForms : pc'[g] = IF g = f THEN l ELSE pc[g]
  BY <1>0 DEF TypeOK
<1>3. \A g \in ClassForms : pc[g] # "idle" => chosen'[g] = chosen[g]
  BY FormStep
<1> DEFINE others == {g \in ClassForms \ {f} : pc[g] \in {"reading", "updating"}}
<1>4. AssignedChoices' = {chosen[g] : g \in others}
  BY <1>2, <1>3 DEF AssignedChoices
<1>5. AssignedChoices = {chosen[g] : g \in others} \cup {chosen[f]}
  BY DEF AssignedChoices
<1> QED
  BY <1>1, <1>4, <1>5

\* The step of the row that shows a choice.
LEMMA ShowStep ==
    ASSUME OnboardingInv, [Next]_vars, NEW f \in ClassForms,
           pc[f] = "updating",
           NEW l \in {"done", "failed"}, pc' = [pc EXCEPT ![f] = l],
           user' = Write(user, copy[f], Activated(copy[f], chosen[f])),
           taught' = taught
    PROVE  Promise!Show(chosen[f])
<1> USE DEF OnboardingInv
<1>0. f \in Forms /\ f \in Tasks
  BY DEF ClassForms, Tasks
<1>1. user \in User /\ copy[f] \in User /\ chosen[f] \in SUBSET Classes
  BY <1>0 DEF TypeOK
<1> DEFINE new == Activated(copy[f], chosen[f])
<1>2. new \in User /\ new.state = "active" /\ new.info = chosen[f]
  BY <1>1, CopyChanges
<1>3. /\ user'.state = IF new.state # copy[f].state THEN new.state ELSE user.state
      /\ user'.info = IF new.info # copy[f].info THEN new.info ELSE user.info
  BY <1>1, <1>2, WriteFields
<1>4. /\ copy[f].state = "active" => user.state = "active"
      /\ copy[f].info # {} => user.info # {}
  BY <1>0 DEF RowMovesOn
<1>5. chosen[f] # {}
  BY DEF FormProgress, InAssignment
<1>6. user'.state = "active"
  BY <1>2, <1>3, <1>4
<1>7. user'.info = chosen[f] \/ (user.info # {} /\ user'.info = user.info)
  BY <1>2, <1>3, <1>4, <1>5
<1>8. ClassesOf(taught)' = ClassesOf(taught)
  BY DEF ClassesOf
<1> QED
  BY <1>6, <1>7, <1>8, ShownStep DEF Promise!Show

\* Every step is one of Enrolment's, or none that it would notice.
LEMMA EnrolmentStep ==
    OnboardingInv /\ [Next]_vars
      => [Promise!Next]_<<user.state, ClassesOf(taught), user.info,
                          AssignedChoices>>
<1> SUFFICES ASSUME OnboardingInv, [Next]_vars
             PROVE  \/ Promise!Next
                    \/ UNCHANGED <<user.state, ClassesOf(taught), user.info,
                                   AssignedChoices>>
  OBVIOUS
<1> USE DEF OnboardingInv
<1>1. ASSUME NEW f \in ClassForms, pc[f] = "committing", user' = user,
             taught' = (taught \ deleted[f]) \cup RowsOf(f),
             AssignedChoices' = AssignedChoices \cup {chosen[f]}
      PROVE  Promise!Next
  <2>1. f \in Forms /\ chosen[f] \in SUBSET Classes /\ chosen[f] # {}
    BY <1>1 DEF TypeOK, ClassForms, FormProgress, InAssignment, InTransaction
  <2>2. user.state # "absent"
    BY <1>1, <2>1 DEF RowComesFirst
  <2>3. ClassesOf(taught') = ClassesOf(taught \ deleted[f]) \cup chosen[f]
    <3>1. ClassesOf(RowsOf(f)) = chosen[f]
      BY <2>1, RowsOfClasses
    <3>2. ClassesOf(taught') = ClassesOf(taught \ deleted[f]) \cup ClassesOf(RowsOf(f))
      BY <1>1 DEF ClassesOf
    <3> QED
      BY <3>1, <3>2
  <2>4. ClassesOf(taught \ deleted[f]) \in SUBSET ClassesOf(taught)
    BY DEF ClassesOf
  <2>5. Promise!Assign(chosen[f])
    BY <1>1, <2>2, <2>3, <2>4 DEF Promise!Assign, ClassesOf
  <2> QED
    BY <2>1, <2>5 DEF Promise!Next
<1>2. CASE taught' = taught /\ AssignedChoices' \subseteq AssignedChoices
  <2>0. ClassesOf(taught)' = ClassesOf(taught)
    BY <1>2 DEF ClassesOf
  <2>1. CASE user'.state = user.state /\ user'.info = user.info
    BY <1>2, <2>0, <2>1 DEF Promise!Next, Promise!Forget
  <2>2. CASE user.state = "absent" /\ user' = NewUser
    <3>1. \A f \in ClassForms : pc[f] = "idle"
      BY <2>2 DEF RowComesFirst, ClassForms
    <3>2. AssignedChoices = {}
      BY <3>1 DEF AssignedChoices
    <3>3. user.info = {} /\ user'.info = {} /\ user'.state = "new"
      BY <2>2 DEF RowMovesOn, NewUser
    <3> QED
      BY <1>2, <2>0, <2>2, <3>2, <3>3 DEF Promise!Next, Promise!Register
  <2>3. ASSUME NEW f \in Forms,
               user' = Write(user, copy[f], Introduced(copy[f]))
        PROVE  user'.state = user.state /\ user'.info = user.info
    <3>1. user \in User /\ copy[f] \in User
      BY DEF TypeOK, Tasks
    <3>2. /\ Introduced(copy[f]) \in User
          /\ Introduced(copy[f]).state = copy[f].state
          /\ Introduced(copy[f]).info = copy[f].info
      BY <3>1, CopyChanges
    <3> QED
      BY <2>3, <3>1, <3>2, WriteFields
  <2>4. ASSUME NEW f \in ClassForms,
               pc[f] = "updating",
               NEW l \in {"done", "failed"}, pc' = [pc EXCEPT ![f] = l],
               user' = Write(user, copy[f], Activated(copy[f], chosen[f]))
        PROVE  Promise!Next
    <3>1. Promise!Show(chosen[f])
      BY <1>2, <2>4, ShowStep
    <3>2. chosen[f] \in (SUBSET Classes) \ {{}}
      BY <2>4 DEF TypeOK, ClassForms, FormProgress, InAssignment
    <3> QED
      BY <3>1, <3>2 DEF Promise!Next
  <2> QED
    BY <2>1, <2>2, <2>3, <2>4, RowStep
<1> QED
  BY <1>1, <1>2, AssignedStep

-----------------------------------------------------------------------------
\* The tables, the copies and the progress of the forms agree in every
\* reachable state.
THEOREM OnboardingInvariant == Spec => []OnboardingInv
  BY InitInv, InvStep, PTL DEF Spec

\* Every variable keeps its type.
THEOREM OnboardingTypes == Spec => []TypeOK
<1>1. OnboardingInv => TypeOK
  BY DEF OnboardingInv
<1> QED
  BY <1>1, OnboardingInvariant, PTL

\* process_state never meets a completed onboarding of a user who is not
\* active, for which it has no usable handler.
THEOREM CompletedUsersAreActive == Spec => []CompletedMeansActive
<1>1. OnboardingInv => CompletedMeansActive
  BY DEF OnboardingInv
<1> QED
  BY <1>1, OnboardingInvariant, PTL

\* Whatever forms overlap, fail or die, an active user teaches something.
THEOREM ActiveUsersHaveClasses == Spec => []ActiveHasClasses
<1>1. OnboardingInv => ActiveHasClasses
  BY DEF OnboardingInv
<1> QED
  BY <1>1, OnboardingInvariant, PTL

\* class_info never mixes two selections.
THEOREM InfoIsOneSelection == Spec => []InfoFromOneForm
<1>1. OnboardingInv => InfoFromOneForm
  BY DEF OnboardingInv
<1> QED
  BY <1>1, OnboardingInvariant, PTL

\* Every user who was welcomed is active once the task of the form is done.
THEOREM WelcomedUsersAreActive == Spec => []WelcomedIsActive
<1>1. OnboardingInv => WelcomedIsActive
  BY DEF OnboardingInv
<1> QED
  BY <1>1, OnboardingInvariant, PTL

\* update_user writes what changed in the copy, so a late background task does
\* not undo an activation.
THEOREM ActivationIsFinal == Spec => NeverDeactivated
<1>1. OnboardingInv /\ [Next]_vars
        => [user.state = "active" => user'.state = "active"]_vars
  BY RowOnward
<1> QED
  BY <1>1, OnboardingInvariant, PTL DEF Spec, NeverDeactivated

\* One undisturbed class form makes class_info and teachers_classes agree.
THEOREM UndisturbedFormRepairs == Spec => FreshFormRepairs
<1>1. OnboardingInv /\ [Next]_vars
        => [\A f \in ClassForms :
              pc[f] = "updating" /\ pc'[f] = "done" /\ f \in alone
                => user'.info = ClassesOf(taught')]_vars
  BY RepairStep
<1> QED
  BY <1>1, OnboardingInvariant, PTL DEF Spec, FreshFormRepairs
\* However its tasks overlap and fail, onboarding does nothing to a user's rows
\* that Enrolment does not allow: a choice is assigned before it is shown, it
\* is shown whole, and an active user has classes and stays active.
THEOREM EnrolmentKept == Spec => KeepsEnrolment
<1>1. Init => Promise!Init
  BY DEF Init, Promise!Init, NoUser, ClassesOf, AssignedChoices, ClassForms, Tasks
<1>2. OnboardingInv /\ [Next]_vars
        => [Promise!Next]_<<user.state, ClassesOf(taught), user.info,
                            AssignedChoices>>
  BY EnrolmentStep
<1> QED
  BY <1>1, <1>2, OnboardingInvariant, PTL
  DEF Spec, KeepsEnrolment, Promise!Spec, Promise!enrolmentVars
=============================================================================
