----------------------------- MODULE Onboarding -----------------------------
(***************************************************************************)
(* How one WhatsApp user becomes an active teacher, and changes classes    *)
(* afterwards, in production, staging and development: the first message   *)
(* creates the user's row, each later one is routed by the state found in  *)
(* it, the answers are WhatsApp flows (forms), and each submitted form is  *)
(* applied by a background task.  What the module is about is that all of  *)
(* them work on a copy of the row read earlier, in database transactions   *)
(* that interleave.  Users share no row, so one is enough.                 *)
(*                                                                         *)
(* Sources: app/services/request_service.py, state_service.py,             *)
(* onboarding_service.py, flow_service.py and app/database/db.py.  The     *)
(* database is PostgreSQL at its default isolation, read committed.        *)
(***************************************************************************)
EXTENDS Naturals, FiniteSets

CONSTANTS
    Messages,   \* webhook requests that carry a message of the user
    Forms,      \* submissions of a flow by the user
    Kind,       \* Kind[f]: which flow f was filled in
    Classes,    \* rows of the classes table: a grade level of a subject
    PoolSize    \* connections to the database: 20 in engine.py, and 10 more

Kinds == {"profile",    \* onboarding flow, is_updating false
          "settings",   \* onboarding flow, is_updating true
          "classes"}    \* subjects and classes flow

ASSUME KindAssumption  == Kind \in [Forms -> Kinds]
ASSUME TasksAssumption == Messages \cap Forms = {}
ASSUME PoolAssumption  == PoolSize \in Nat \ {0}

VARIABLES
    user,       \* the committed row of the users table
    taught,     \* the committed rows of the teachers_classes table
    offered,    \* kinds of flow in the user's chat, to be filled in any time
    pc,         \* pc[t]: the await at which task t is suspended
    copy,       \* copy[t]: the User object that task t works on, while it does
    chosen,     \* chosen[f]: class ids selected in form f
    seen,       \* seen[f]: rows the DELETE of f found in its snapshot
    deleted,    \* deleted[f]: rows the transaction of f has deleted so far
    inserted,   \* inserted[f]: rows the transaction of f has inserted so far
    at,         \* at[f]: the row that the statement of f has come to, if any
    alone       \* class forms that overlapped with no other one so far

lockVars == <<deleted, inserted>>
formVars == <<chosen, seen, lockVars, at, alone>>
vars == <<user, taught, offered, pc, copy, formVars>>

Tasks      == Messages \cup Forms
ClassForms == {f \in Forms : Kind[f] = "classes"}

\* state "absent": there is no row.  class_info is a set of classes: a class
\* is one grade level of one subject.
States      == {"absent", "new", "active"}
Onboardings == {"new", "personal_info_submitted", "completed"}
User        == [state : States, onboarding : Onboardings, info : SUBSET Classes]
TeacherRow  == [class : Classes, by : Forms]

NoUser == [state |-> "absent", onboarding |-> "new", info |-> {}]

InTransaction == {"deleting", "inserting", "committing"}
InAssignment  == {"accepted", "reading", "updating"} \cup InTransaction
Ended         == {"done", "failed", "conflict", "notFound"}
Labels        == {"idle", "creating", "routing", "offering"}
                   \cup InAssignment \cup Ended

-----------------------------------------------------------------------------
(* The two tables.                                                         *)

\* The defaults of User in get_or_create_user.
NewUser == [state |-> "new", onboarding |-> "new", info |-> {}]

\* update_user: the UPDATE sets the columns whose value in the object differs
\* from the one it was loaded with, and no other.
WriteWholeRow(row, old, new) == new
Write(row, old, new) ==
    [c \in DOMAIN row |-> IF new[c] # old[c] THEN new[c] ELSE row[c]]

\* update_user_profile, of both the onboarding and the settings flow
Introduced(u) == [u EXCEPT !.onboarding = "personal_info_submitted"]

\* update_user_classes, once the classes are assigned
ActivatedMerging(u, C) == [state |-> "active", onboarding |-> "completed",
                           info |-> u.info \cup C]
ActivatedStateKept(u, C) == [u EXCEPT !.onboarding = "completed", !.info = C]
Activated(u, C) == [state |-> "active", onboarding |-> "completed", info |-> C]

RowsOf(f) == {[class |-> c, by |-> f] : c \in chosen[f]}
ClassesOf(R) == {x.class : x \in R}

\* PostgreSQL goes through the rows of a statement one by one, in whatever
\* order; a transaction keeps the lock on each row that it has deleted or
\* inserted until it ends.
OneOf(S) == IF S = {} THEN {{}} ELSE {{x} : x \in S}

\* The transactions whose end f waits for.  A DELETE waits for those that have
\* deleted the row it has come to, an INSERT for those that have inserted or
\* deleted the same (teacher, class) pair.
Awaits(f) ==
    {g \in ClassForms \ {f} :
        \/ pc[f] = "deleting" /\ at[f] \cap deleted[g] # {}
        \/ /\ pc[f] = "inserting"
           /\ ClassesOf(at[f]) \cap ClassesOf(inserted[g] \cup deleted[g]) # {}}

\* Transactions that wait for one another in a circle: none of them can go on
\* as long as the others do not, and that is true of no part of them.
Stuck(S)  == S # {} /\ \A f \in S : Awaits(f) \cap S # {}
Circle(S) == Stuck(S) /\ \A T \in SUBSET S : Stuck(T) => T = S

\* get_session commits or rolls back, on every path: both release the locks.
ForgottenBy(F, R) == [f \in Forms |-> IF f \in F THEN {} ELSE R[f]]
LocksKept(F) ==
    /\ seen' = ForgottenBy(F, seen)
    /\ at' = ForgottenBy(F, at)
    /\ UNCHANGED lockVars
TransactionsEnd(F) ==
    /\ seen' = ForgottenBy(F, seen)
    /\ deleted' = ForgottenBy(F, deleted)
    /\ inserted' = ForgottenBy(F, inserted)
    /\ at' = ForgottenBy(F, at)

\* A task is over, and with it the object it worked on.
TaskEnds(t, label) ==
    /\ pc' = [pc EXCEPT ![t] = label]
    /\ copy' = [copy EXCEPT ![t] = NoUser]

\* get_session: a session takes a connection from the pool with its first
\* statement and gives it back at its end.  No function opens a session within
\* another, and only assign_teacher_to_classes keeps one for several waits.
ConnectedAfterError == {g \in Forms : pc[g] \in {"failed"} \cup InTransaction}
Connected == {g \in Forms : pc[g] \in InTransaction}
FreeConnection == Cardinality(Connected) < PoolSize

-----------------------------------------------------------------------------
Init ==
    /\ user = NoUser
    /\ taught = {}
    /\ offered = {}
    /\ pc = [t \in Tasks |-> "idle"]
    /\ copy = [t \in Tasks |-> NoUser]
    /\ chosen = [f \in Forms |-> {}]
    /\ seen = [f \in Forms |-> {}]
    /\ deleted = [f \in Forms |-> {}]
    /\ inserted = [f \in Forms |-> {}]
    /\ at = [f \in Forms |-> {}]
    /\ alone = {}

(***************************************************************************)
(* A message.                                                              *)
(***************************************************************************)
\* get_or_create_user: the SELECT, which also ends the call if it finds a row.
Receive(m) ==
    /\ pc[m] = "idle"
    /\ FreeConnection
    /\ \/ /\ user.state # "absent"
          /\ pc' = [pc EXCEPT ![m] = "routing"]
          /\ copy' = [copy EXCEPT ![m] = user]
       \/ /\ user.state = "absent"
          /\ pc' = [pc EXCEPT ![m] = "creating"]
          /\ UNCHANGED copy
    /\ UNCHANGED <<user, taught, offered, formVars>>

\* get_or_create_user: the INSERT.  wa_id is unique, so it raises if another
\* message has created the row since.  The refresh may fail after the commit.
CreateUser(m) ==
    /\ pc[m] = "creating"
    /\ FreeConnection
    /\ \/ /\ user.state = "absent"
          /\ user' = NewUser
          /\ \/ /\ pc' = [pc EXCEPT ![m] = "routing"]
                /\ copy' = [copy EXCEPT ![m] = NewUser]
             \/ TaskEnds(m, "failed")
       \/ /\ user.state # "absent"
          /\ TaskEnds(m, "conflict")
          /\ UNCHANGED user
    /\ UNCHANGED <<taught, offered, formVars>>

\* The flows that the answer to a message may put in the chat: for an active
\* user, what the settings menu has; for a new one, the next of the onboarding.
MenuFlows == {"settings", "classes"}
OnboardingFlow(u) == IF u.onboarding = "new" THEN "profile" ELSE "classes"
Offers(u) == IF u.state = "active" THEN MenuFlows ELSE {OnboardingFlow(u)}

\* send_whatsapp_flow_message: what WhatsApp answers is logged and no more, so
\* the flow may not be there although nothing has failed.
SendFlow(k) == offered' \in {offered, offered \cup {k}}

\* process_state has a handler for a completed onboarding, but that one is not
\* a coroutine: awaiting its result raises.
Unroutable(u) == u.state = "new" /\ u.onboarding = "completed"

\* handle_valid_message, after the message row has been stored, whose answer
\* need not be a flow.  For a new user the handlers swallow a failed sending.
Route(m) ==
    /\ pc[m] = "routing"
    /\ FreeConnection
    /\ TaskEnds(m, IF Unroutable(copy[m]) THEN "failed" ELSE "done")
    /\ \/ ~Unroutable(copy[m]) /\ \E k \in Offers(copy[m]) : SendFlow(k)
       \/ Unroutable(copy[m]) /\ UNCHANGED offered
    /\ UNCHANGED <<user, taught, formVars>>

(***************************************************************************)
(* A form.                                                                 *)
(***************************************************************************)
\* handle_flow_request reads the user and the data exchange handler queues
\* the background task.  A class form without a class is refused.
Submit(f) ==
    /\ pc[f] = "idle"
    /\ FreeConnection
    /\ Kind[f] \in offered
    /\ \/ /\ Kind[f] # "classes"
          /\ pc' = [pc EXCEPT ![f] = "accepted"]
          /\ copy' = [copy EXCEPT ![f] = user]
          /\ UNCHANGED <<chosen, alone>>
       \/ /\ Kind[f] = "classes"
          /\ \E C \in (SUBSET Classes) \ {{}} :
               chosen' = [chosen EXCEPT ![f] = C]
          /\ pc' = [pc EXCEPT ![f] = "accepted"]
          /\ copy' = [copy EXCEPT ![f] = user]
          /\ LET others == {g \in ClassForms : pc[g] \in InAssignment} IN
             alone' = IF others = {} THEN alone \cup {f} ELSE alone \ others
       \/ /\ Kind[f] = "classes"
          /\ TaskEnds(f, "failed")
          /\ UNCHANGED <<chosen, alone>>
    /\ UNCHANGED <<user, taught, offered, seen, lockVars, at>>

\* update_user_profile, up to the commit of update_user; its refresh may fail.
UpdateProfile(f) ==
    /\ pc[f] = "accepted"
    /\ FreeConnection
    /\ Kind[f] \in {"profile", "settings"}
    /\ user' = Write(user, copy[f], Introduced(copy[f]))
    /\ \/ /\ Kind[f] = "profile"
          /\ pc' = [pc EXCEPT ![f] = "offering"]
          /\ UNCHANGED copy
       \/ Kind[f] = "settings" /\ TaskEnds(f, "done")
       \/ TaskEnds(f, "failed")
    /\ UNCHANGED <<taught, offered, formVars>>

\* update_user_profile, for a user who is being onboarded.
SendSubjectsClassesFlow(f) ==
    /\ pc[f] = "offering"
    /\ TaskEnds(f, "done")
    /\ SendFlow("classes")
    /\ UNCHANGED <<user, taught, formVars>>

\* assign_teacher_to_classes: the DELETE takes its snapshot of the table ...
DeleteNothing(f) ==
    /\ pc[f] = "accepted"
    /\ FreeConnection
    /\ Kind[f] = "classes"
    /\ pc' = [pc EXCEPT ![f] = "deleting"]
    /\ UNCHANGED <<user, taught, offered, copy, formVars>>
StartDelete(f) ==
    /\ pc[f] = "accepted"
    /\ FreeConnection
    /\ Kind[f] = "classes"
    /\ pc' = [pc EXCEPT ![f] = "deleting"]
    /\ seen' = [seen EXCEPT ![f] = taught]
    /\ \E row \in OneOf(taught) : at' = [at EXCEPT ![f] = row]
    /\ UNCHANGED <<user, taught, offered, copy, chosen, lockVars, alone>>

\* ... and goes through the rows in it.  A row that another transaction has
\* deleted is waited for, and skipped if it is gone by then; rows inserted
\* since the snapshot are not noticed.  After the last one comes the INSERT.
RowAutocommits(f) ==
    /\ pc[f] = "deleting"
    /\ taught' = taught \ seen[f]
    /\ \E row \in OneOf(RowsOf(f)) : at' = [at EXCEPT ![f] = row]
    /\ pc' = [pc EXCEPT ![f] = "inserting"]
    /\ UNCHANGED <<user, offered, copy, chosen, seen, lockVars, alone>>
DeleteRow(f) ==
    /\ pc[f] = "deleting"
    /\ Awaits(f) = {}
    /\ deleted' = [deleted EXCEPT ![f] = @ \cup (at[f] \cap taught)]
    /\ LET left == (seen[f] \cap taught) \ deleted'[f] IN
       /\ \E row \in OneOf(IF left = {} THEN RowsOf(f) ELSE left) :
            at' = [at EXCEPT ![f] = row]
       /\ pc' = [pc EXCEPT ![f] = IF left = {} THEN "inserting" ELSE @]
    /\ UNCHANGED <<user, taught, offered, copy, chosen, seen, inserted, alone>>

\* The INSERT waits in the same way while another transaction has inserted or
\* deleted the (teacher, class) pair it has come to, then raises if the pair
\* is there.
PairIsThere(f) ==
    ClassesOf(taught \ deleted[f]) \cap ClassesOf(at[f]) # {}
InsertRow(f) ==
    /\ pc[f] = "inserting"
    /\ Awaits(f) = {}
    /\ ~PairIsThere(f)
    /\ inserted' = [inserted EXCEPT ![f] = @ \cup at[f]]
    /\ LET left == RowsOf(f) \ inserted'[f] IN
       /\ \E row \in OneOf(left) : at' = [at EXCEPT ![f] = row]
       /\ pc' = [pc EXCEPT ![f] = IF left = {} THEN "committing" ELSE @]
    /\ UNCHANGED <<user, taught, offered, copy, chosen, seen, deleted, alone>>
InsertRaises(f) ==
    /\ pc[f] = "inserting"
    /\ Awaits(f) = {}
    /\ PairIsThere(f)
    /\ TaskEnds(f, "failed")
    /\ TransactionsEnd({f})
    /\ UNCHANGED <<user, taught, offered, chosen, alone>>

\* After a while PostgreSQL looks whether a waiting transaction is part of a
\* circle, and if so makes its statement raise.
DeadlockDetected(f) ==
    /\ \E S \in SUBSET ClassForms : f \in S /\ Circle(S)
    /\ TaskEnds(f, "failed")
    /\ TransactionsEnd({f})
    /\ UNCHANGED <<user, taught, offered, chosen, alone>>

Commit(f) ==
    /\ pc[f] = "committing"
    /\ taught' = (taught \ deleted[f]) \cup inserted[f]
    /\ pc' = [pc EXCEPT ![f] = "reading"]
    /\ TransactionsEnd({f})
    /\ UNCHANGED <<user, offered, copy, chosen, alone>>

\* read_subject and read_classes, for the names that go into class_info.  A
\* form may list a subject with no class selected; that is noticed only here,
\* where the classes are assigned and the user has been welcomed.
ReadClasses(f) ==
    /\ pc[f] = "reading"
    /\ FreeConnection
    /\ \/ pc' = [pc EXCEPT ![f] = "updating"] /\ UNCHANGED copy
       \/ TaskEnds(f, "notFound")
    /\ UNCHANGED <<user, taught, offered, formVars>>

\* update_user, whose refresh may fail after the commit.
UpdateUser(f) ==
    /\ pc[f] = "updating"
    /\ FreeConnection
    /\ user' = Write(user, copy[f], Activated(copy[f], chosen[f]))
    /\ \E label \in {"done", "failed"} : TaskEnds(f, label)
    /\ UNCHANGED <<taught, offered, formVars>>

\* Any database call may raise: the transaction is rolled back and the task
\* ends, with an error text at most.
Fails(t) ==
    /\ pc[t] \notin {"idle"} \cup Ended
    /\ TaskEnds(t, "failed")
    /\ TransactionsEnd({t})
    /\ UNCHANGED <<user, taught, offered, chosen, alone>>

\* The process dies: so do all its tasks, and their transactions.
Restart ==
    /\ \E t \in Tasks : pc[t] \notin {"idle"} \cup Ended
    /\ pc' = [t \in Tasks |->
                IF pc[t] \in {"idle"} \cup Ended THEN pc[t] ELSE "failed"]
    /\ copy' = [t \in Tasks |-> NoUser]
    /\ TransactionsEnd(Forms)
    /\ UNCHANGED <<user, taught, offered, chosen, alone>>

\* What the task of a message, or of a form, does next if nothing goes wrong.
Proceed(t) ==
    \/ t \in Messages /\ (CreateUser(t) \/ Route(t))
    \/ t \in Forms /\ \/ UpdateProfile(t) \/ SendSubjectsClassesFlow(t)
                      \/ StartDelete(t) \/ DeleteRow(t) \/ InsertRow(t)
                      \/ InsertRaises(t) \/ DeadlockDetected(t) \/ Commit(t)
                      \/ ReadClasses(t) \/ UpdateUser(t)

Next ==
    \/ \E m \in Messages : Receive(m)
    \/ \E f \in Forms : Submit(f)
    \/ \E t \in Tasks : Proceed(t) \/ Fails(t)
    \/ Restart

Spec == Init /\ [][Next]_vars

\* The event loop does not stop while some task can proceed.  Fails is no part
\* of it: a task may not depend on an error to end.
FairSpec == Spec /\ WF_vars(\E t \in Tasks : Proceed(t))

-----------------------------------------------------------------------------
(* What must hold.                                                         *)

TypeOK ==
    /\ user \in User
    /\ taught \subseteq TeacherRow
    /\ offered \subseteq Kinds
    /\ pc \in [Tasks -> Labels]
    /\ copy \in [Tasks -> User]
    /\ chosen \in [Forms -> SUBSET Classes]
    /\ seen \in [Forms -> SUBSET TeacherRow]
    /\ deleted \in [Forms -> SUBSET TeacherRow]
    /\ inserted \in [Forms -> SUBSET TeacherRow]
    /\ at \in [Forms -> SUBSET TeacherRow]
    /\ alone \subseteq ClassForms

\* A user whose onboarding is completed is active, in the table and in every
\* copy of the row: handle_completed, which no caller can await, is never
\* reached by process_state.
CompletedMeansActive ==
    \A u \in {user} \cup {copy[t] : t \in Tasks} :
        u.onboarding = "completed" => u.state = "active"

\* An active user has classes, in both tables, however the transactions of
\* several forms interleave: the exercises have something to be about.
ActiveHasClasses ==
    user.state = "active" => taught # {} /\ user.info # {}

\* class_info is the selection of one form, never a mixture of two.
InfoFromOneForm ==
    user.info = {} \/ \E f \in ClassForms : user.info = chosen[f]

\* The welcome text is sent before the task that activates the user starts.
\* It comes true, and stays true, once that task has done all it has to.
WelcomedIsActive ==
    \A f \in ClassForms : pc[f] = "done" => user.state = "active"

\* No late update from an old copy takes an active user back to onboarding.
NeverDeactivated ==
    [][user.state = "active" => user'.state = "active"]_vars

\* The two places that say which classes a user teaches, class_info and
\* teachers_classes, agree after any class form that overlapped with no other,
\* whatever state failures and earlier overlaps had left them in.
FreshFormRepairs ==
    [][\A f \in ClassForms :
         pc[f] = "updating" /\ pc'[f] = "done" /\ f \in alone
           => user'.info = ClassesOf(taught')]_vars

\* However many forms and however few connections there are: when nothing that
\* is under way can go on, transactions wait in a circle for one another's
\* rows, which PostgreSQL notices.  What it could not notice never happens: a
\* wait for the lock of a task that is over, or a circle that leads through
\* the connection pool, although a transaction keeps its connection while it
\* waits for rows that others keep while they wait for theirs.
UnderWay(t) == pc[t] \notin {"idle"} \cup Ended
NeedsConnection ==
    {"creating", "routing", "accepted", "reading", "updating"}
Ready(t) ==
    \/ pc[t] \in NeedsConnection /\ FreeConnection
    \/ pc[t] \in {"deleting", "inserting"} /\ Awaits(t) = {}
    \/ pc[t] \in {"committing", "offering"}
StandstillIsSeen ==
    (\E t \in Tasks : UnderWay(t))
      => \/ \E t \in Tasks : Ready(t)
         \/ \E S \in SUBSET ClassForms : Circle(S)

(***************************************************************************)
(* What these rest on.                                                     *)
(***************************************************************************)
\* A copy is older than the row, and the row only moves on.
RowMovesOn ==
    /\ user.state = "absent" => user.info = {}
    /\ \A t \in Tasks : /\ copy[t].state = "active" => user.state = "active"
                        /\ copy[t].info # {} => user.info # {}

\* How far a class form got tells what it has selected and assigned.
FormProgress ==
    /\ \A f \in Forms : pc[f] \in InAssignment \ {"accepted"} => f \in ClassForms
    /\ \A f \in ClassForms :
        /\ pc[f] \in InAssignment => chosen[f] # {}
        /\ pc[f] = "idle" => chosen[f] = {}
        /\ pc[f] # "offering"
        /\ pc[f] \in {"reading", "updating"} => taught # {}

\* A transaction holds locks until it ends, and the rows it has inserted are
\* those of its form.
LocksHeld ==
    \A f \in ClassForms :
        /\ pc[f] \notin InTransaction => deleted[f] = {} /\ inserted[f] = {}
        /\ pc[f] = "deleting" => inserted[f] = {}
        /\ pc[f] = "inserting" => inserted[f] \cup at[f] \subseteq RowsOf(f)
        /\ pc[f] = "committing" => inserted[f] = RowsOf(f)

\* While a class form is alone nobody else changes what it works on.
AloneIsExclusive ==
    \A f \in alone :
        /\ pc[f] # "idle"
        /\ pc[f] \in InAssignment =>
             /\ \A g \in ClassForms \ {f} : pc[g] \notin InAssignment
             /\ copy[f].info = user.info
             /\ pc[f] \in InTransaction =>
                  seen[f] = taught /\ deleted[f] \subseteq taught
             /\ pc[f] \in {"inserting", "committing"} => deleted[f] = taught
             /\ pc[f] \in {"reading", "updating"} => taught = RowsOf(f)

\* Nobody fills in a form who has no row.
RowComesFirst ==
    user.state = "absent" =>
        /\ offered = {}
        /\ \A m \in Messages : pc[m] # "routing"
        /\ \A f \in Forms : pc[f] = "idle"

\* The inductive invariant.
OnboardingInv ==
    /\ TypeOK
    /\ CompletedMeansActive
    /\ ActiveHasClasses
    /\ InfoFromOneForm
    /\ WelcomedIsActive
    /\ RowMovesOn
    /\ RowComesFirst
    /\ FormProgress
    /\ LocksHeld
    /\ AloneIsExclusive

\* Tasks wait for a connection, and transactions for each other's locks.  Each
\* gives up both, on every path out of get_session, and the circles that two
\* of them do close are broken by PostgreSQL: so all tasks come to their end.
EveryTaskEnds ==
    []<>(\A t \in Tasks : pc[t] \in {"idle"} \cup Ended)

\* The copies, the failures and the interleaved transactions notwithstanding,
\* the rows do what Enrolment allows: no class is shown in the profile that
\* was not assigned before, no choice is mixed with another, nobody is
\* activated without classes or taken back to onboarding.
AssignedChoices ==
    {chosen[f] : f \in {g \in ClassForms : pc[g] \in {"reading", "updating"}}}
Promise == INSTANCE Enrolment WITH
    state <- user.state, taught <- ClassesOf(taught), profile <- user.info,
    assigned <- AssignedChoices
KeepsEnrolment == Promise!Spec

(***************************************************************************)
(* What the repository says and the code does not do.                      *)
(***************************************************************************)
\* get_or_create_user: "Get existing user or create new one if they don't
\* exist."  Without a database failure it does one or the other.
FirstContactIsServed == \A m \in Messages : pc[m] # "conflict"

\* assign_teacher_to_classes: "Otherwise replaces all teacher-class
\* relationships."
AssignmentReplaces ==
    [][\A f \in ClassForms :
         pc[f] = "committing" /\ pc'[f] = "reading" => taught' = RowsOf(f)]_vars
=============================================================================
