------------------------ MODULE FlowEndpoint_proofs ------------------------
(***************************************************************************)
(* Proofs about FlowEndpoint: that no run of the command that fails loses  *)
(* the private key in use, that telling a phone 421 brings it back with    *)
(* the right key, and that a form sent twice is applied once; for any      *)
(* number of requests and of runs.                                         *)
(***************************************************************************)
EXTENDS FlowEndpoint, TLAPS

-----------------------------------------------------------------------------
(* The strengthening.                                                      *)

\* What the files, the environment and Meta have in common at each step of a
\* run.  Up to the upload, Meta has the key of the environment; after it, that
\* or the one in the file; and a key is deployed only when Meta has it.
KeyInv ==
    /\ step \in {"generated", "extracted", "uploaded", "done"} => pem \in Keys
    /\ step \in {"extracted", "uploaded", "done"} => pub = pem
    /\ step = "done" => shown = meta
    /\ hasty = {} =>
          /\ meta \in {env, pem}
          /\ step \in {"idle", "generated", "extracted", "deployed"}
                => meta = env

\* A steady request has the key of the server once it has been decrypted or
\* sent again.
SteadyInv ==
    \A r \in steady :
        /\ server = meta
        /\ pc[r] # "idle"
        /\ tries[r] = 2 => key[r] = server
        /\ pc[r] \in {"findUser", "readSubjects", "welcome"}
              => key[r] = server
        /\ pc[r] \in Ended /\ content[r] # "unsigned" => key[r] = server

\* What has become of the background task of r when r stands at label: nothing
\* before the answer, and one task at most after it.
TaskOK(r) ==
    /\ queued[r] + applied[r] <= 1
    /\ pc[r] \in {"idle", "refused", "keyError"} \cup InFlight
          => queued[r] + applied[r] = 0 /\ r \notin lost
    /\ pc[r] = "ok" /\ IsForm(r) => queued[r] + applied[r] = 1 \/ r \in lost
AppliedInv == \A r \in Requests : TaskOK(r)

FlowInv == TypeOK /\ KeyInv /\ SteadyInv /\ AppliedInv

LEMMA InitEstablishesFlowInv == Init => FlowInv
BY DEF Init, FlowInv, TypeOK, KeyInv, SteadyInv, AppliedInv, TaskOK, Keys,
       Files, Steps, Running, Labels, InFlight, Ended

-----------------------------------------------------------------------------
(* The runs of the command, Deploy and Restart.                            *)

LEMMA RunKeepsType ==
    ASSUME TypeOK, KeyInv,
           (\E o \in Rotations : Generate(o)) \/ Subprocess \/ Deploy \/ Restart
    PROVE  TypeOK'
<1> USE DEF TypeOK
<1>1. ASSUME NEW o \in Rotations, Generate(o)
      PROVE  TypeOK'
  BY <1>1 DEF Generate, Keys, Files, Steps, Running, keyVars, requestVars, taskVars
<1>2. CASE Extract
  BY <1>2 DEF Extract, Files, Steps, Running, keyVars, requestVars, taskVars
<1>3. CASE Upload
  BY <1>3 DEF Upload, KeyInv, Steps, Running, requestVars, taskVars
<1>4. CASE Confirm
  BY <1>4 DEF Confirm, Files, Steps, Running, keyVars, requestVars, taskVars
<1>5. CASE Deploy
  BY <1>5 DEF Deploy, KeyInv, Steps, requestVars, taskVars
<1>6. CASE Restart
  <2>1. pc' \in [Requests -> Labels]
    BY <1>6 DEF Restart, Labels, Ended
  <2> QED
    BY <1>6, <2>1 DEF Restart, cliVars
<1> QED
  BY <1>1, <1>2, <1>3, <1>4, <1>5, <1>6 DEF Subprocess

LEMMA RunKeepsKeyInv ==
    ASSUME TypeOK, KeyInv,
           (\E o \in Rotations : Generate(o)) \/ Subprocess \/ Deploy \/ Restart
    PROVE  KeyInv'
<1> USE DEF TypeOK, KeyInv
<1>1. ASSUME NEW o \in Rotations, Generate(o)
      PROVE  KeyInv'
  \* A run that is not hasty starts while Meta has the key of the environment.
  <2>1. hasty' = {} => hasty = {} /\ meta = env
    BY <1>1 DEF Generate
  <2> QED
    BY <1>1, <2>1 DEF Generate, Keys, Running, keyVars
<1>2. CASE Extract
  BY <1>2 DEF Extract, keyVars
<1>3. CASE Upload
  BY <1>3 DEF Upload
<1>4. CASE Confirm
  BY <1>4 DEF Confirm, keyVars
<1>5. CASE Deploy
  BY <1>5 DEF Deploy
<1>6. CASE Restart
  BY <1>6 DEF Restart, cliVars
<1> QED
  BY <1>1, <1>2, <1>3, <1>4, <1>5, <1>6 DEF Subprocess

\* No request moves, but that Restart ends some; and where Meta or the server
\* takes another key, no request is steady any more.
LEMMA RunKeepsRequests ==
    ASSUME TypeOK, SteadyInv, AppliedInv,
           (\E o \in Rotations : Generate(o)) \/ Subprocess \/ Deploy \/ Restart
    PROVE  SteadyInv' /\ AppliedInv'
<1>1. CASE Restart
  <2>1. SteadyInv'
    BY <1>1 DEF Restart, SteadyInv
  <2>2. ASSUME NEW r \in Requests
        PROVE  TaskOK(r)'
    <3>1. /\ \/ pc'[r] = pc[r] /\ pc[r] \notin InFlight \ {"misdirected"}
             \/ pc'[r] = "error"
          /\ queued'[r] = 0 /\ applied'[r] = applied[r]
          /\ r \in lost' <=> r \in lost \/ queued[r] > 0
          /\ content' = content
      BY <1>1 DEF Restart
    <3>2. TaskOK(r) /\ queued[r] \in Nat /\ applied[r] \in Nat
      BY DEF AppliedInv, TypeOK
    <3> QED
      BY <3>1, <3>2 DEF TaskOK, InFlight, IsForm
  <2> QED
    BY <2>1, <2>2 DEF AppliedInv
<1>2. CASE Upload
  BY <1>2 DEF Upload, requestVars, taskVars, SteadyInv, AppliedInv,
              TaskOK, IsForm
<1>3. CASE ~ Restart /\ ~ Upload
  <2>1. UNCHANGED <<requestVars, steady, meta, server>>
    BY <1>3 DEF Generate, Subprocess, Extract, Confirm, Deploy, keyVars
  <2> QED
    BY <2>1 DEF requestVars, taskVars, SteadyInv, AppliedInv,
              TaskOK, IsForm
<1> QED
  BY <1>1, <1>2, <1>3

-----------------------------------------------------------------------------
(* The requests.                                                           *)

\* Where a request that is being handled may go next, and which task is
\* queued then.
Step(r, label) ==
    /\ pc' = [pc EXCEPT ![r] = label]
    /\ \/ queued' = queued
       \/ queued' = [queued EXCEPT ![r] = queued[r] + 1]
    /\ UNCHANGED <<cliVars, keyVars, content, key, tries, applied, lost, steady>>

\* What every step of a handler keeps to.
HandlerStep(r, label) ==
    /\ Step(r, label)
    /\ pc[r] \in {"sent", "findUser", "readSubjects", "welcome"}
    /\ label \in {"findUser", "readSubjects", "welcome", "misdirected"} \cup Ended
    /\ pc[r] = "sent" /\ label # "misdirected" /\ content[r] # "unsigned"
          => key[r] = server
    /\ pc[r] = "sent" /\ label \in {"findUser", "readSubjects", "welcome"}
          => key[r] = server
    /\ label \in InFlight \cup {"refused", "keyError"} => queued' = queued
    /\ label = "ok" /\ IsForm(r)
          => queued' = [queued EXCEPT ![r] = queued[r] + 1]

LEMMA HandlersTakeHandlerSteps ==
    ASSUME NEW r \in Requests, Handle(r) \/ DatabaseFails(r)
    PROVE  \E label : HandlerStep(r, label)
<1> USE DEF HandlerStep, Step, Answer, AnswerWithTask, taskVars, Response,
            InFlight, Ended, IsForm
<1>1. CASE Receive(r)
  <2>1. PICK label \in Verdict(r) : Answer(r, label)
    BY <1>1 DEF Receive
  <2>2. /\ label \in {"findUser", "misdirected", "ok", "error"}
        /\ label # "misdirected" /\ content[r] # "unsigned" => key[r] = server
        /\ label = "findUser" => key[r] = server
        /\ label = "ok" => content[r] = "ping"
    BY <2>1 DEF Verdict
  <2> QED
    BY <1>1, <2>1, <2>2 DEF Receive
<1>2. CASE FindUser(r)
  BY <1>2 DEF FindUser
<1>3. CASE ReadSubjects(r)
  BY <1>3 DEF ReadSubjects
<1>4. CASE Welcome(r)
  BY <1>4 DEF Welcome
<1>5. CASE DatabaseFails(r)
  BY <1>5 DEF DatabaseFails
<1> QED
  BY <1>1, <1>2, <1>3, <1>4, <1>5 DEF Handle

LEMMA HandlerKeepsFlowInv ==
    ASSUME FlowInv, NEW r \in Requests, NEW label, HandlerStep(r, label)
    PROVE  FlowInv'
<1> USE DEF FlowInv, HandlerStep, Step
<1>1. TypeOK'
  BY DEF TypeOK, Labels, InFlight, Ended, cliVars, keyVars
<1>2. KeyInv'
  BY DEF KeyInv, cliVars, keyVars
<1>3. SteadyInv'
  <2> SUFFICES ASSUME NEW q \in steady
               PROVE  /\ server = meta
                      /\ pc'[q] # "idle"
                      /\ tries[q] = 2 => key[q] = server
                      /\ pc'[q] \in {"findUser", "readSubjects", "welcome"}
                            => key[q] = server
                      /\ pc'[q] \in Ended /\ content[q] # "unsigned"
                            => key[q] = server
    BY DEF SteadyInv, keyVars
  <2>1. CASE q = r
    BY <2>1 DEF SteadyInv, TypeOK, Ended
  <2>2. CASE q # r
    BY <2>2 DEF SteadyInv, TypeOK
  <2> QED
    BY <2>1, <2>2
<1>4. AppliedInv'
  <2> SUFFICES ASSUME NEW q \in Requests
               PROVE  TaskOK(q)'
    BY DEF AppliedInv
  <2>0. TaskOK(q) /\ queued[q] \in Nat /\ applied[q] \in Nat
    BY DEF AppliedInv, TypeOK
  <2>1. CASE q = r
    BY <2>0, <2>1 DEF TaskOK, TypeOK, InFlight, Ended, IsForm
  <2>2. CASE q # r
    BY <2>0, <2>2 DEF TaskOK, TypeOK, IsForm
  <2> QED
    BY <2>1, <2>2
<1> QED
  BY <1>1, <1>2, <1>3, <1>4

LEMMA SendKeepsFlowInv ==
    ASSUME FlowInv, NEW r \in Requests, Send(r)
    PROVE  FlowInv'
<1> USE DEF FlowInv, Send
<1>1. TypeOK'
  BY DEF TypeOK, Labels, InFlight, cliVars, keyVars, taskVars
<1>2. KeyInv'
  BY DEF KeyInv, cliVars, keyVars
\* It was not steady before, since it was idle; if it is now, it is at its
\* first attempt.
<1>3. SteadyInv'
  BY DEF SteadyInv, TypeOK, Ended, keyVars
<1>4. AppliedInv'
  BY DEF AppliedInv, TaskOK, TypeOK, InFlight, IsForm, taskVars
<1> QED
  BY <1>1, <1>2, <1>3, <1>4

LEMMA RepeatKeepsFlowInv ==
    ASSUME FlowInv, NEW r \in Requests, Repeat(r)
    PROVE  FlowInv'
<1> USE DEF FlowInv, Repeat
<1>1. TypeOK'
  BY DEF TypeOK, Labels, InFlight, Ended, cliVars, keyVars, taskVars
<1>2. KeyInv'
  BY DEF KeyInv, cliVars, keyVars
\* The phone has fetched the key of Meta, which is the server's.
<1>3. SteadyInv'
  BY DEF SteadyInv, TypeOK, Ended, keyVars
<1>4. AppliedInv'
  BY DEF AppliedInv, TaskOK, TypeOK, InFlight, IsForm, taskVars
<1> QED
  BY <1>1, <1>2, <1>3, <1>4

\* The background task moves from those that wait to those that were started.
LEMMA StartKeepsFlowInv ==
    ASSUME FlowInv, NEW r \in Requests, StartTask(r)
    PROVE  FlowInv'
<1> USE DEF FlowInv, StartTask
<1>1. TypeOK' /\ KeyInv' /\ SteadyInv'
  BY DEF TypeOK, KeyInv, SteadyInv, cliVars, keyVars
<1>2. ASSUME NEW q \in Requests
      PROVE  TaskOK(q)'
  <2>1. TaskOK(q) /\ queued[q] \in Nat /\ applied[q] \in Nat
    BY DEF AppliedInv, TypeOK
  <2>2. queued'[q] + applied'[q] = queued[q] + applied[q]
    BY <2>1 DEF TypeOK
  <2> QED
    BY <2>1, <2>2 DEF TaskOK, IsForm
<1> QED
  BY <1>1, <1>2 DEF AppliedInv

LEMMA FlowInvIsInductive == FlowInv /\ [Next]_vars => FlowInv'
<1> SUFFICES ASSUME FlowInv, [Next]_vars
             PROVE  FlowInv'
  OBVIOUS
<1>1. CASE (\E o \in Rotations : Generate(o)) \/ Subprocess \/ Deploy \/ Restart
  BY <1>1, RunKeepsType, RunKeepsKeyInv, RunKeepsRequests DEF FlowInv
<1>2. CASE \E r \in Requests : Send(r) \/ Repeat(r)
  BY <1>2, SendKeepsFlowInv, RepeatKeepsFlowInv
<1>3. CASE \E r \in Requests : Handle(r) \/ DatabaseFails(r)
  BY <1>3, HandlersTakeHandlerSteps, HandlerKeepsFlowInv
<1>4. CASE \E r \in Requests : StartTask(r)
  BY <1>4, StartKeepsFlowInv
<1>5. CASE UNCHANGED vars
  BY <1>5 DEF vars, cliVars, keyVars, requestVars, taskVars, FlowInv, TypeOK,
              KeyInv, SteadyInv, AppliedInv, TaskOK, IsForm
<1> QED
  BY <1>1, <1>2, <1>3, <1>4, <1>5 DEF Next

THEOREM FlowInvariant == Spec => []FlowInv
<1>1. Init => FlowInv
  BY InitEstablishesFlowInv
<1>2. FlowInv /\ [Next]_vars => FlowInv'
  BY FlowInvIsInductive
<1> QED
  BY <1>1, <1>2, PTL DEF Spec

-----------------------------------------------------------------------------
(* The properties the run checks.                                          *)

\* Every variable keeps its type: in particular only a key that was generated
\* is ever registered or deployed (cli.py reads the file that openssl wrote).
THEOREM TypeCorrect == Spec => []TypeOK
<1>1. FlowInv => TypeOK
  BY DEF FlowInv
<1> QED
  BY <1>1, FlowInvariant, PTL

\* The private key to the key that Meta hands out is in the file, in the
\* environment or in the server, at whichever subprocess runs of cli.py fail,
\* unless a run was started before the last key was deployed.
THEOREM KeyIsNeverLost == Spec => []KeyIsHeld
<1>1. FlowInv => KeyIsHeld
  BY DEF FlowInv, KeyInv, KeyIsHeld
<1> QED
  BY <1>1, FlowInvariant, PTL

\* The 421 of handle_flow_request heals a phone that has an old key: while
\* server and Meta agree, a signed request ends only with the right one.
THEOREM OldKeysAreReplaced == Spec => []RefetchHeals
<1>1. FlowInv => RefetchHeals
  BY DEF FlowInv, SteadyInv, RefetchHeals
<1> QED
  BY <1>1, FlowInvariant, PTL

\* However often the phone sends a form, its background task is queued at most
\* once and never before an answer that brings it back; when the answer is 200
\* it waits or was started, or a restart came first.
THEOREM FormsAreAppliedOnce == Spec => []AppliedOnce
<1>1. FlowInv => AppliedOnce
  BY DEF FlowInv, AppliedInv, TaskOK, AppliedOnce
<1> QED
  BY <1>1, FlowInvariant, PTL
=============================================================================
