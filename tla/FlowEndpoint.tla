---------------------------- MODULE FlowEndpoint ----------------------------
(***************************************************************************)
(* The endpoint that WhatsApp calls for a form (a "flow"), and the RSA key *)
(* on which it depends: a phone encrypts each request with the public key  *)
(* that Meta has registered, or had when the phone fetched it last, and    *)
(* the server decrypts it with the private key it was started with.        *)
(* flows-encryption-cli replaces the pair; the operator then puts the new  *)
(* private key in the environment and restarts the server.                 *)
(*                                                                         *)
(* Sources: app/security.py, app/utils/flow_utils.py, handle_flow_request  *)
(* and the data exchange handlers of app/services/flow_service.py, and     *)
(* scripts/flows/cli.py.  Phone, Meta and operator are external.           *)
(***************************************************************************)
EXTENDS Naturals

CONSTANTS
    Requests,   \* requests of phones to the flow endpoint
    Rotations,  \* runs of flows-encryption-cli, one after the other
    FirstKey,   \* the key pair in use at first
    NoKey       \* a key file that is missing or empty

\* A key pair is named after the run that generated it.
Keys  == {FirstKey} \cup Rotations
Files == Keys \cup {NoKey}

ASSUME FirstKeyAssumption == FirstKey \notin Rotations
ASSUME NoKeyAssumption    == NoKey \notin Keys

\* What a request turns out to contain, in the order in which it turns out.
Contents ==
    {"unsigned",        \* no valid signature
     "noFields",        \* an encrypted part is missing, or no string
     "garbled",         \* the payload does not pass the authentication tag
     "ping",            \* Meta's health check
     "noToken",         \* no flow token, or one of another token key
     "stranger",        \* the user of the token is not in the database
     "unknownFlow",     \* a data exchange or INIT for a flow not configured
     "unknownAction",   \* an action that is neither of them
     "profileInit",     \* INIT of the onboarding flow
     "classInit",       \* INIT of the classes flow
     "profileForm",     \* data exchange of the onboarding flow
     "emptyForm",       \* ... of the classes flow, with no class selected
     "classForm"}       \* ... of the classes flow, with some

VARIABLES
    step,       \* how far the latest run of the command has come
    used,       \* runs that have started
    hasty,      \* those that started before the last key was deployed
    pem,        \* the key in <file_name>.pem
    pub,        \* the key in <file_name>_pub.pem
    shown,      \* the key that the last GET printed
    meta,       \* the key registered at Meta
    published,  \* keys that ever were: a phone may still have any of them
    env,        \* settings.whatsapp_business_private_key in the environment
    server,     \* ... in the running process
    pc,         \* pc[r]: the await at which the handler of r is suspended
    content,    \* content[r]: what r contains
    key,        \* key[r]: the key that r is encrypted with
    tries,      \* tries[r]: how often the phone has sent r
    queued,     \* queued[r]: background tasks of r that wait to be started
    applied,    \* applied[r]: those that were started
    lost,       \* requests of which a background task was lost with the process
    steady      \* requests during which server and Meta agreed on the key

cliVars     == <<step, used, hasty, pem, pub, shown>>
keyVars     == <<meta, published, env, server>>
taskVars    == <<queued, applied, lost>>
requestVars == <<pc, content, key, tries, taskVars>>
vars        == <<cliVars, keyVars, requestVars, steady>>

Running  == {"generated", "extracted", "uploaded"}
Steps    == {"idle", "done", "failed", "deployed"} \cup Running

InFlight == {"sent", "findUser", "readSubjects", "welcome", "misdirected"}
Ended    == {"ok",          \* 200
             "refused",     \* 422
             "error",       \* 432, 500 or no answer
             "keyError"}    \* 421 again
Labels   == {"idle"} \cup InFlight \cup Ended

Init ==
    /\ step = "idle" /\ used = {} /\ hasty = {}
    /\ pem = NoKey /\ pub = NoKey /\ shown = NoKey
    /\ meta = FirstKey /\ published = {FirstKey}
    /\ env = FirstKey /\ server = FirstKey
    /\ pc = [r \in Requests |-> "idle"]
    /\ content \in [Requests -> Contents]
    /\ key = [r \in Requests |-> FirstKey]
    /\ tries = [r \in Requests |-> 0]
    /\ queued = [r \in Requests |-> 0]
    /\ applied = [r \in Requests |-> 0]
    /\ lost = {}
    /\ steady = {}

(***************************************************************************)
(* flows-encryption-cli: four subprocesses with check=True, so that one    *)
(* that exits with an error ends the run.                                  *)
(***************************************************************************)
\* openssl genrsa, which opens the file before it has a key to write.
Generate(o) ==
    /\ o \notin used
    /\ step \notin Running
    /\ used' = used \cup {o}
    /\ hasty' = IF meta = env THEN hasty ELSE hasty \cup {o}
    /\ \/ step' = "generated" /\ pem' = o
       \/ step' = "failed" /\ pem' \in {pem, NoKey}
    /\ UNCHANGED <<pub, shown, keyVars, requestVars, steady>>

\* openssl rsa -pubout
ExtractUnchecked ==
    /\ step = "generated"
    /\ step' = "extracted"
    /\ pub' \in {pem, pub}
    /\ UNCHANGED <<used, hasty, pem, shown, keyVars, requestVars, steady>>
Extract ==
    /\ step = "generated"
    /\ \/ step' = "extracted" /\ pub' = pem
       \/ step' = "failed" /\ pub' \in {pub, NoKey}
    /\ UNCHANGED <<used, hasty, pem, shown, keyVars, requestVars, steady>>

\* curl -X POST of the public key.  Without --fail a refusal by Meta is no
\* error; an error of curl may come before or after Meta has the key.
Upload ==
    /\ step = "extracted"
    /\ \/ /\ meta' = pub
          /\ published' = published \cup {pub}
          /\ step' \in {"uploaded", "failed"}
          /\ steady' = {}
       \/ /\ step' \in {"uploaded", "failed"}
          /\ UNCHANGED <<meta, published, steady>>
    /\ UNCHANGED <<used, hasty, pem, pub, shown, env, server, requestVars>>

\* curl -X GET, whose output is all that tells whether the key was taken.
Confirm ==
    /\ step = "uploaded"
    /\ \/ step' = "done" /\ shown' = meta
       \/ step' = "failed" /\ UNCHANGED shown
    /\ UNCHANGED <<used, hasty, pem, pub, keyVars, requestVars, steady>>

\* The operator compares what was printed with the file before deploying.
Deploy ==
    /\ step = "done"
    /\ shown = pub
    /\ step' = "deployed"
    /\ env' = pem
    /\ UNCHANGED <<used, hasty, pem, pub, shown, meta, published, server,
                   requestVars, steady>>

\* The settings are read when the process starts; the requests it was working
\* on die with the old one, and the background tasks it had not started.
Restart ==
    /\ server' = env
    /\ pc' = [r \in Requests |->
                IF pc[r] \in InFlight \ {"misdirected"} THEN "error" ELSE pc[r]]
    /\ lost' = lost \cup {r \in Requests : queued[r] > 0}
    /\ queued' = [r \in Requests |-> 0]
    /\ steady' = {}
    /\ UNCHANGED <<cliVars, meta, published, env, content, key, tries, applied>>

(***************************************************************************)
(* A request.                                                              *)
(***************************************************************************)
\* The phone encrypts with the key it has.
Send(r) ==
    /\ pc[r] = "idle"
    /\ pc' = [pc EXCEPT ![r] = "sent"]
    /\ \E k \in published : key' = [key EXCEPT ![r] = k]
    /\ tries' = [tries EXCEPT ![r] = 1]
    /\ steady' = IF server = meta THEN steady \cup {r} ELSE steady
    /\ UNCHANGED <<cliVars, keyVars, content, taskVars>>

\* Told 421, it fetches the registered key and sends again, once.
Repeat(r) ==
    /\ pc[r] = "misdirected"
    /\ \/ /\ tries[r] = 1
          /\ pc' = [pc EXCEPT ![r] = "sent"]
          /\ key' = [key EXCEPT ![r] = meta]
          /\ tries' = [tries EXCEPT ![r] = 2]
       \/ /\ tries[r] = 2
          /\ pc' = [pc EXCEPT ![r] = "keyError"]
          /\ UNCHANGED <<key, tries>>
    /\ UNCHANGED <<cliVars, keyVars, content, taskVars, steady>>

Answer(r, label) ==
    /\ pc' = [pc EXCEPT ![r] = label]
    /\ UNCHANGED <<cliVars, keyVars, content, key, tries, taskVars, steady>>

\* The answer is sent, whatever status it has, with the background task that
\* the handler has added.
AnswerForgetsTask(r, label) == Answer(r, label)
AnswerWithTask(r, label) ==
    /\ pc' = [pc EXCEPT ![r] = label]
    /\ queued' = [queued EXCEPT ![r] = queued[r] + 1]
    /\ UNCHANGED <<cliVars, keyVars, content, key, tries, applied, lost, steady>>

\* After the answer has been sent, its background task is started: a Submit of
\* Onboarding.
StartTask(r) ==
    /\ queued[r] > 0
    /\ queued' = [queued EXCEPT ![r] = queued[r] - 1]
    /\ applied' = [applied EXCEPT ![r] = applied[r] + 1]
    /\ UNCHANGED <<cliVars, keyVars, pc, content, key, tries, lost, steady>>

\* process_response: a response that cannot be encrypted is 500.
Response == {"ok", "error"}

\* flows_signature_required, decrypt_flow_request and decrypt_flow_token: up to
\* the first await.  ValueError stands for a key that does not fit and becomes
\* 421; the answers meant to be 422 raise when they are built and become 500.
Verdict500(r) ==
    IF content[r] \in {"unsigned", "garbled", "noToken"} \/ key[r] # server
    THEN {"error"}
    ELSE IF content[r] = "noFields" THEN {"misdirected"}
    ELSE IF content[r] = "ping" THEN Response ELSE {"findUser"}
VerdictUncaught(r) ==
    IF content[r] = "noFields" THEN {"raised"}
    ELSE IF content[r] \in {"unsigned", "garbled", "noToken"} THEN {"error"}
    ELSE IF key[r] # server THEN {"misdirected"}
    ELSE IF content[r] = "ping" THEN Response ELSE {"findUser"}
Verdict(r) ==
    IF content[r] = "unsigned" THEN {"error"}
    ELSE IF content[r] = "noFields" \/ key[r] # server THEN {"misdirected"}
    ELSE IF content[r] \in {"garbled", "noToken"} THEN {"error"}
    ELSE IF content[r] = "ping" THEN Response ELSE {"findUser"}
Receive(r) ==
    /\ pc[r] = "sent"
    /\ \E label \in Verdict(r) : Answer(r, label)

\* get_user_by_waid, and the handler as far as its next await.  A user who is
\* not found is a ValueError, and so 421, too.  handle_unknown_flow takes no
\* such arguments: the call raises.
FindUser(r) ==
    /\ pc[r] = "findUser"
    /\ \/ content[r] = "stranger" /\ Answer(r, "misdirected")
       \/ content[r] = "unknownFlow" /\ Answer(r, "error")
       \/ /\ content[r] \in {"unknownAction", "profileInit"}
          /\ \E label \in Response : Answer(r, label)
       \/ /\ content[r] \in {"classInit", "emptyForm", "classForm"}
          /\ Answer(r, "readSubjects")
       \/ /\ content[r] = "profileForm"
          /\ \E label \in Response : AnswerWithTask(r, label)

\* read_subjects, and then, for a form, the check that some class is selected
\* and add_task.
ReadSubjects(r) ==
    /\ pc[r] = "readSubjects"
    /\ \/ /\ content[r] = "classInit"
          /\ \E label \in Response : Answer(r, label)
       \/ content[r] = "emptyForm" /\ Answer(r, "refused")
       \/ content[r] = "classForm" /\ Answer(r, "welcome")

\* ... then send_message, which may raise, and the response.
WelcomeFails421(r) ==
    /\ pc[r] = "welcome"
    /\ \E label \in {"ok", "misdirected"} : AnswerWithTask(r, label)
Welcome(r) ==
    /\ pc[r] = "welcome"
    /\ \E label \in Response : AnswerWithTask(r, label)

\* The database raises: 500.
DatabaseFails(r) ==
    /\ pc[r] \in {"findUser", "readSubjects"}
    /\ Answer(r, "error")

Handle(r)   == Receive(r) \/ FindUser(r) \/ ReadSubjects(r) \/ Welcome(r)
Subprocess  == Extract \/ Upload \/ Confirm

Next ==
    \/ \E o \in Rotations : Generate(o)
    \/ Subprocess
    \/ Deploy
    \/ Restart
    \/ \E r \in Requests :
         Send(r) \/ Repeat(r) \/ Handle(r) \/ DatabaseFails(r) \/ StartTask(r)

Spec == Init /\ [][Next]_vars

\* Subprocesses end, the operator deploys what was confirmed and restarts, and
\* the server runs the background tasks of what it has answered.
FairSpec ==
    /\ Spec
    /\ WF_vars(Subprocess)
    /\ WF_vars(Deploy)
    /\ WF_vars(Restart /\ server # env)
    /\ \A r \in Requests : WF_vars(StartTask(r))

-----------------------------------------------------------------------------
(* What must hold.                                                         *)

TypeOK ==
    /\ step \in Steps /\ used \subseteq Rotations /\ hasty \subseteq used
    /\ pem \in Files /\ pub \in Files /\ shown \in Files
    /\ meta \in Keys /\ published \subseteq Keys
    /\ env \in Keys /\ server \in Keys
    /\ pc \in [Requests -> Labels]
    /\ content \in [Requests -> Contents]
    /\ key \in [Requests -> Keys]
    /\ tries \in [Requests -> 0 .. 2]
    /\ queued \in [Requests -> Nat] /\ applied \in [Requests -> Nat]
    /\ lost \subseteq Requests
    /\ steady \subseteq Requests

\* The private key to the key that Meta hands out is never lost, wherever a run
\* fails or a restart comes in between: provided that nobody starts the next
\* run before the key of the last one is deployed.
KeyIsHeld == hasty = {} => meta \in {pem, env, server}

\* A phone that comes with an old key is told so and comes back with the right
\* one: while server and Meta agree, no signed request ends before it has been
\* encrypted with the key of the server.
RefetchHeals ==
    \A r \in steady :
        pc[r] \in Ended /\ content[r] # "unsigned" => key[r] = server

\* A form is applied at most once although the phone may send it twice, and of
\* one that is to be sent again, or was turned down, nothing is.  If the phone
\* hears 200 the task is waiting or started, or was lost in a restart.
IsForm(r) == content[r] \in {"profileForm", "classForm"}
AppliedOnce ==
    \A r \in Requests :
        /\ queued[r] + applied[r] <= 1
        /\ pc[r] \in InFlight \cup {"refused", "keyError"}
             => queued[r] + applied[r] = 0 /\ r \notin lost
        /\ pc[r] = "ok" /\ IsForm(r)
             => queued[r] + applied[r] = 1 \/ r \in lost

\* What a phone was told is done will be done: no form whose answer is 200 waits
\* for ever, and only a restart between answer and task takes one away.
FormsTakeEffect ==
    \A r \in Requests :
        pc[r] = "ok" /\ IsForm(r) ~> applied[r] = 1 \/ r \in lost

\* Runs that fail at some point notwithstanding, server and Meta end up with
\* the same key: unless the last run failed, or a hasty one has lost a key.
RotationSettles ==
    <>[](server = meta \/ step = "failed" \/ hasty # {})
=============================================================================
