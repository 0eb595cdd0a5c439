# Twiga in TLA+

Twiga is a WhatsApp chatbot for teachers: a FastAPI application that receives
webhooks from WhatsApp, keeps users and messages in PostgreSQL, counts requests
in Redis and answers with the help of an LLM. This directory holds a
specification of its core in TLA+, the TLC configurations that check it on
small instances, and proofs that TLAPS checks for all instances. The repository
has no tests; almost everything below is about what happens when several
requests are under way at once, or when one of them fails half-way.

Paths are relative to the repository; `src/` in PROJECT.json is its root.

## 1. Inventory

The whole application is one process with one asyncio event loop. Code between
two `await`s is atomic; everything else interleaves.

| part | state it keeps | operations |
|---|---|---|
| `app/main.py`, `services/request_service.py`, `services/state_service.py` | none | `webhook_post`, `handle_request`, `handle_valid_message`, routing by `user.state` |
| `services/rate_limit_service.py`, `redis/` | two kinds of Redis counters with an expiry | `rate_limit`, `check_rate_limit`, `send_rate_limit_message` |
| `services/llm_service.py` | `_processors`: per user a lock and a buffer of messages, in memory | `generate_response`, `_check_new_messages`, `_cleanup_processor`, `_format_messages`, `_process_tool_calls` |
| `services/messaging_service.py` | none | `handle_chat_message`, `handle_command_message`, `handle_settings_selection` |
| `services/onboarding_service.py`, `services/flow_service.py` | none (background tasks hold `User` objects) | the onboarding handlers, the two data exchange handlers, the sending of flows, `update_user_profile`, `update_user_classes` |
| `database/` | tables `users`, `messages`, `teachers_classes` (and `subjects`, `classes`, `resources`, `chunks`, read only at run time) | `get_or_create_user`, `update_user`, `create_new_message(s)`, `get_user_message_history`, `assign_teacher_to_classes` |
| `services/whatsapp_service.py`, `utils/whatsapp_utils.py` | none | `send_message`, classification of requests |
| `utils/llm_utils.py`, `tools/`, `utils/embedder.py` | none | LLM requests with retries, retrieval |
| `security.py`, `utils/flow_utils.py`, `handle_flow_request` | the private key, read from the environment at start-up | signature check, decryption, the status that a phone gets |
| `scripts/flows/cli.py` | two key files; the public key registered at Meta | `encryption`: replaces the key pair |
| prompts, strings, config, logging | read at start-up | formatting |
| `scripts/`, `migrations/`, `docker/`, `docs/` | none at run time | seeding, schema, deployment |

How they interact. A webhook passes the rate limiter (in production and
staging), then `handle_valid_message`, which finds or creates the user, stores
the message and routes it by the user's state. An active user's text goes to
`generate_response`: tasks of one user meet in that user's MessageProcessor.
A new user's message is answered with a WhatsApp flow, that is a form, and a
submitted form comes back to `handle_flow_request`, which reads the user and
leaves the work to a background task. What the phone sends then is encrypted
with a public key that a command has registered at Meta, and the process can
read it if it was started with the private key to it. So a user's row is
changed by tasks that read it at different times, and a user's history by tasks
that append to it at different times.

What is hard, component by component, and what makes each correct:

* **Batching.** Several tasks of one user; a lock that is tested before it is
  taken; a buffer that is cleared by whoever finishes; a database that says
  something else than the buffer; errors that clear both; restarts that lose
  the buffer. Correct means: one generation per user, no accepted message
  stranded, forgotten or answered twice, and a history that holds whole
  exchanges, which the user has read only if they are stored.
* **Rate limiter.** Two counters touched by interleaving tasks, an expiry that
  each of them renews, and a broad exception handler. Correct means: a
  quota lets exactly that many requests through, and every counter ends.
* **Request types.** WhatsApp delivers an event again until it hears 200, and
  no message id is kept: what a request is taken for, and how old it is,
  decide whether it comes again and what happens then. Correct means: no
  report is repeated, and the counters are right however often the rest is.
* **Tool calls.** One response may ask for several tools, exist they or not;
  a local variable outlives a call; the rows of an exchange are saved late and
  read back through a window of ten. Correct means: in the table, and so in
  later prompts, every call has its own answer.
* **Seeding.** A command that commits as it goes and is run again after it has
  failed. Correct means: what is there can be told from how often it ended,
  and the documented command repairs everything.
* **Onboarding.** Stale copies of the user's row, two tables updated by two
  transactions, transactions of two forms at read committed. Correct means:
  nobody who is active falls back, active users have classes, and the two
  places that record the classes agree unless something interfered; tasks
  that wait for connections and for each other's rows all end, if need be with
  an error.
* **Flow endpoint and its keys.** Four subprocesses and two manual steps that
  replace a key pair, each of which may fail; a process and phones that hold
  older keys; a form that is sent again after 421. Correct means: the private
  key to the registered one is never lost, a phone with an old key comes back
  with the right one, and its form is applied once, unless a restart loses it
  between the answer and the background task.

PROJECT.json lists the hazards one by one with their lines.

## 2. Plan

Order: what users notice first comes first.

1. `MessageBatching` with its abstract specification `ReplyContract`: **done**,
   checked and proved.
2. `RateLimiter`: **done**, checked and proved.
3. `Onboarding` with its abstract specification `Enrolment`: **done**, checked
   and proved.
4. `ToolCalls`: the rows of one user's exchanges, inside the history window
   and inside `_process_tool_calls`: **done**, checked and proved.
5. `SeedLoader`: `scripts/database/seed.py`: **done**, checked and proved.
6. `get_request_type`, the statuses and the repeated deliveries that depend on
   them, in `RateLimiter`: **done**, checked and proved.
7. `FlowEndpoint`: the endpoint of the forms, and the rotation of its keys:
   **done**, checked and proved.
8. The order in which a history reads, although its rows are saved late and in
   any order (`HistoryReadsInOrder` of `MessageBatching`): **done**, checked and
   proved. An ordered outbox as a refinement target was the first idea; the
   code keeps no such order, and nothing in the repository promises one.
9. How tasks may come to a standstill, for any number of forms and connections
   (`StandstillIsSeen` of `Onboarding`), the safety half of `EveryTaskEnds`:
   **done**, checked and proved.
10. A refinement of `ToolCalls` to `MessageBatching`'s one step per response,
    with the notices that are sent again after `continue`: left. `ToolCalls`
    keeps one generation at a time and forgets what it has answered, so it
    would first need both back as history variables.

## 3. Modules

| module | what it is |
|---|---|
| `ReplyContract` | abstract: an accepted message is pending until one reply covers all its author has pending, or all of that is given up |
| `MessageBatching` | the chat path, one action per stretch of code between two awaits |
| `RateLimiter` | what a webhook request is, the two counters, time, failures, statuses and repeated deliveries |
| `ToolCalls` | one user's exchanges with the LLM, one action per tool call, and the rows they leave in the history |
| `Enrolment` | abstract: a user registers, then makes choices of classes, each of which is assigned, then shown in the profile, or forgotten |
| `Onboarding` | one user's row and classes, the messages and forms that work on them |
| `SeedLoader` | the seeding command and what its runs leave in the database |
| `FlowEndpoint` | one request of a phone per form, and the key pair that the command replaces meanwhile |
| `MC_*` | instances for TLC: who wrote which message, which form is of which kind |
| `*_proofs` | theorems and their proofs |

The modules are separate because the components share no variable: a request
is in the limiter before it is stored; onboarding is over before a user's
messages reach the processor; the flow endpoint decrypts a form before any
transaction of `Onboarding` starts for it (`StartTask` there is what makes a
`Submit` here go on). `MessageBatching` takes its users to be active.

### MessageBatching

| model | code |
|---|---|
| `pc[r]` | the await at which the task of request `r` is suspended |
| `lock`, `buffer`, `known` | `MessageProcessor.lock`, `.messages`, `LLMClient._processors` |
| `batch[r]`, `oldRows[r]` | `messages_to_process`, `old_messages` of `_format_messages` |
| `created`, `earlier` | `Message` objects and the order of their `created_at` |
| `stored` | committed rows of `messages` |
| `answers`, `dropped`, `delivered` | bookkeeping: what a reply covers, what was given up, what the user read |

`Deliver`, `StoreMessage`, `CreateMessageFails` are `handle_valid_message` up
to the row; `HandleCommand` the menu; `GenerateResponse` the part of
`generate_response` up to its first await, where the message is buffered and
the lock tested *and* taken; `ReadHistory`, `InitialResponse`,
`ProcessToolCalls`, `FinalResponse` one round of its loop; `GiveUp` any
exception inside it; `SaveReplies`, `SaveFails`, `SendMessage` the rest of
`handle_chat_message`. `Restart` kills every task, empties the processors and
keeps the table.

Abstractions: a row is named by its kind and its task; LLM answers are free
choices (text, tool calls, error); all tool calls of one response make one
step and one row (`ToolCalls` takes them apart); messages arriving at WhatsApp
are distinct requests.

### ToolCalls

| model | code |
|---|---|
| `pc`, `batch`, `buffer` | the one generation under way, `messages_to_process`, `MessageProcessor.messages` |
| `asked`, `todo` | `initial_message` with its `tool_calls`, and which call `_process_tool_calls` is at |
| `result` | its local variable `result`, `NoId` while unbound |
| `fresh`, `outbox` | `new_messages`, before and after `generate_response` has returned them |
| `prompt` | `old_messages` |
| `table`, `clock` | committed rows, and the order of their `created_at` |

`ToolRuns`, `ToolUnknown` and `ToolFails` are the ways through one pass of the
loop: the tool's output; no branch for the name, so that `result` is whatever an
earlier call of the same response has left there; the `except` clause, for
arguments that are no JSON or not the tool's, for a tool that raises, and for a
`result` that is unbound. Nothing raises out of that loop, so `GiveUp` cannot
happen there.

Abstractions: that one generation runs at a time is `SingleFlight` of
`MessageBatching`. The id of a call is the row that asks for it and its place
there, as ids of the API are unique; the content of a tool message is the id
of the call whose output it is. A call that `_catch_malformed_tool` recovers is
a response with one call. Texts that are sent to the user, notices included, do
not appear. The order of `created_at` is the order of construction.

### SeedLoader

`tables`, `resources`, `chunks` are the database, `flags` the options of the
run under way, `pos` is `start_idx`; `loads` and `broken` count, for the
properties, the loads since the last reset. Every stage is one transaction but
the load, which is one per batch. `Fails` is any exception, and the kill of the
process, at every stage; only one run is under way at a time. That all resources
have one name is how `data.yaml` and `inject_sample_data` make them.

### RateLimiter

| model | code |
|---|---|
| `Carries[r]`, `Body[e]` | the event that request `r` delivers, and which keys its JSON body has |
| `RequestType`, `EntryPoint` | `get_request_type`, and the handler of each type with its status, or the 500 of a handler that reads a key that is not there |
| `pc[r]` | the await at which the task of `r` is suspended, or the status it ended with |
| `count`, `ttl` | the Redis keys |
| `age[e]` | the age of the event, by WhatsApp's timestamp |
| `registered` | numbers with a row in `users`: any at the start, one more with each handled request |
| `passed`, `lost`, `since`, `exceeded`, `failed` | history for the properties |

`Arrive` is `webhook_post` up to the limiter's first await: of all types only
a valid message gets there. `Tick` is the clock, and Redis deleting what has
expired. Every call may fail, before or after Redis has counted
(`LimiterFails`, `CheckUserFails`, `CheckGlobalFails`). `HandleRequest` is all
of `handle_request` (other modules take it apart), where the type is asked for
again, the message by then older. WhatsApp is external: it delivers an event
at any age, and again at any time, as long as no delivery has been answered
200: while one is still under way, and right after an error. Nothing in the code
recognises such a repetition before it is outdated.

### Onboarding

`user` is the committed row, `copy[t]` the object a task holds while it runs,
`taught` the rows of `teachers_classes`; `seen` what a DELETE found, `deleted`
and `inserted` the rows a transaction has deleted and inserted so far, all of
which it keeps locked, and `at` the row that its statement has come to.
`update_user` writes the attributes that differ from those loaded (`Write`):
that is how SQLAlchemy flushes, and why late writes do less harm than whole
rows would.

`assign_teacher_to_classes` goes row by row. `StartDelete` takes the snapshot
of the DELETE; `DeleteRow` deletes the row at hand, or waits for the transaction
that has deleted it and skips it if it is gone; `InsertRow` inserts a pair, or
waits for a transaction that has inserted or deleted the same one;
`InsertRaises` is the duplicate; `Commit` makes everything visible. The rows of
a DELETE come in whatever order PostgreSQL finds them, the pairs of an INSERT in
the order of the form (flow_service.py:271); the model takes either in any
order. So transactions can wait for one another in a circle (`Circle`), and
`DeadlockDetected` is PostgreSQL, which makes the statement of one of them
raise. Each action that opens a session needs a connection of the pool
(`FreeConnection`), and the transaction of an assignment keeps one
(`Connected`) until `get_session` commits or rolls back (`TransactionsEnd`).
`SendFlow` is `send_whatsapp_flow_message`, whose flow may or may not arrive. A
class is a grade level of a subject, so `class_info` and `teachers_classes` are
sets of the same things.

What all this does to the user's rows is an `Enrolment` (`Promise`): `state`
and `profile` are the row's `state` and `class_info`, `taught` the classes of
the rows in `teachers_classes`, and `assigned` the choices of the forms that
have committed and not yet updated the user. A commit is `Assign`; it keeps
what its snapshot did not have, and so does `Assign`. `UpdateUser` is `Show`,
which may leave the profile as it is, since a choice equal to the one in the
copy is not written. Every other step is `Register`, `Forget` or none.

Abstractions: one user (users share no row); a message's FOR UPDATE lock is
held for one action; a form that was refused and one that failed end in the same
label. The forms a user may submit are those that
were put in the chat, any number of times and at any later time.

### FlowEndpoint

| model | code |
|---|---|
| `step`, `used` | how far the run of `flows-encryption-cli` has come, and the runs before it |
| `pem`, `pub` | `<file_name>.pem`, `<file_name>_pub.pem` |
| `meta`, `published` | the key registered at Meta, and all that ever were: external |
| `env`, `server` | `whatsapp_business_private_key` in the environment, and in `settings` of the process |
| `pc[r]`, `tries[r]` | the await at which the handler of `r` is, or the answer the phone got; how often it has sent `r` |
| `content[r]`, `key[r]` | what turns out to be in `r`, and the key it is encrypted with |
| `queued[r]`, `applied[r]` | background tasks of `r` whose answer has been sent: those not started yet, those that were |
| `lost` | requests whose task a restart has taken away between the two |
| `hasty`, `steady` | history for the properties |

`Generate`, `Extract`, `Upload`, `Confirm` are the four subprocesses of
`encryption`; each may fail, openssl after it has emptied the file it was to
write, curl before or after Meta has taken the key. `Upload` may also end
well although Meta refused. `Deploy` is the operator, who
compares what `Confirm` printed with the file, and `Restart` the process, at
any time, with whatever is in the environment. `Receive` is the signature
check and the decryption, up to the first await; `FindUser`, `ReadSubjects`,
`Welcome` are the handlers of `flow_service.py` from await to await, each with
the status that its exceptions get. A handler's background task is part of the
response (`AnswerWithTask`), whatever its status, and Starlette starts it when
the response has been sent (`StartTask`); what it does then is a form of
`Onboarding`. Statuses are translated as they come out,
not as they were meant (see "Where code and text differ").

Abstractions: a key pair is named after the run that made it; one run of the
command is under way at a time; phones send again once, after fetching the
registered key, which is what 421 is for; the environment is one of
production, staging and development, with all flow ids configured. Requests
share nothing but the keys.

## 4. Runs

All fit in a few minutes. Deadlock is not checked where the system stops when
every request has been served, or every run of the command made.

| run | module | question | bounds |
|---|---|---|---|
| `burst` | MessageBatching | do locks, buffer, accounting and history hold in every interleaving? | 3 texts of one user, 1 restart, history limit 2 |
| `contract` | MessageBatching | does everything end, and is the contract implemented? | 2 texts and a command, fairness |
| `tools` | ToolCalls | does every stored call keep its own answer, also through the window? | 3 texts or commands, 2 calls in a response, one real and one made-up tool, window of 4 rows |
| `seed` | SeedLoader | do batches stay whole, do loads add up, does the full command repair all? | 4 runs with any options, 5 chunks in batches of 2 |
| `quota` | RateLimiter | are quotas exact and counters mortal, whatever is repeated, and is a report heard at once? | a text and a status report of one user, each delivered up to twice, a picture and a notice that lacks a key; limits 1, life 2 ticks, outdated after 1 |
| `onboard` | Onboarding | do stale copies and overlapping transactions keep a user's data sound and do what `Enrolment` allows, does a form repair what they left, is a standstill always one that PostgreSQL breaks, and does every task end? | a message, a profile form, 2 class forms, and one of: a second profile form; a second message and a settings form; a third class form. 2 classes, 2 connections, fairness |
| `flows` | FlowEndpoint | is a key never lost, an old key replaced, a form applied once and in the end, and do rotations settle? | 1 request, 3 runs of the command, fairness |
| `duplicates` | MessageBatching | see "Where code and text differ" | violated |
| `window`, `unknown` | RateLimiter | same | violated |
| `contact`, `replaces` | Onboarding | same | violated |

Why the bounds are enough. Three messages of one user are one generation, one
message in its batch's place in the buffer and one newcomer; a history limit
of 2 lets three messages exceed it, the situation that `_format_messages`
calls unusual, and three rows of one exchange overflow it. One restart can
strike at every step; a second meets the state an earlier one produced. A
second profile form is the late write from an old copy. Two class forms are what it takes for two INSERTs to wait for each other's
pairs, and a third has to leave rows for two DELETEs to wait for each other;
any of the tasks may fail before, between and after them. `UserDoes` keeps what
the user does to three ways, each of which TLC explores to its end. Two connections are as many as
two class forms need, so that both can be used up by transactions of which
one waits for the other, while messages and profiles wait for a connection.
An exchange with two calls has four rows and its text, so a window of 4 can
start at each of them, and a second exchange meets the rows of the first; the
third text is what is buffered meanwhile, or separates the two. Two calls are
one whose `result` is left and one that finds it. Five chunks in batches of two
end in a batch that is not full; of four runs one creates, one fails, one loads
twice what is there, one repairs. Restarts of `ToolCalls` need no bound, since
what they lose is bounded. With limits of 1 the text and the picture go over
both, and a life longer than an event's is what lets counters renew and lapse
while it is repeated. A key can be lost between two runs of the command that
fail, so three runs bring in one that succeeds before or after. Users share
neither processors nor rows, so the passing runs have one (`window` and
`unknown` have two), and the theorems any number. The proofs cover the rest:
every safety property of a passing run is a theorem for all values.

`burst` and `quota` use symmetry over interchangeable texts and deliveries;
runs with a liveness property use none.

### Properties

Batching: `SingleFlight`, `NothingStranded`, `BatchIsPrefix`,
`EveryMessageAccounted`, `BufferedAreStored`, `UnusualCountOnlyBeyondLimit`,
`RepliesStoredTogether`, `DeliveredAnswerIsStored`, `HistoryReadsInOrder`,
`SliceRemovesTrailingBatch`, `EveryRequestReturns`, `KeepsContractSafely`,
`KeepsContract`.
Tool calls: `EveryCallAnswered`, `OutputsAreTheirOwn`,
`OrphansOnlyAtWindowStart`.
Seeding: `BatchesAreWhole`, `LoadsAddUp`, `FullSetupIsReady`.
Limiter: `CountersExpire`, `QuotaIsExact`, `QuietUserIsForgotten`,
`ReportsHeardOnce`.
Onboarding: `CompletedMeansActive`, `ActiveHasClasses`, `StandstillIsSeen`,
`KeepsEnrolment`, `FreshFormRepairs`, `EveryTaskEnds`; and `InfoFromOneForm` and
`WelcomedIsActive` as parts of `OnboardingInv`. `NeverDeactivated` has a theorem
and no run of its own: `Enrolment` has no step that it forbids.
Flow endpoint: `KeyIsHeld`, `RefetchHeals`, `AppliedOnce`, `RotationSettles`,
`FormsTakeEffect`.
The types are checked by name or within the inductive invariants
(`BatchingInv`, `OnboardingInv`, `ToolCallsInv`, `SeedInv`), which are
invariants of runs too.

`ReportsHeardOnce` is about reports that carry what their handler reads.
`handle_flow_event` raises for others (whatsapp_service.py:89), which is 500,
and they come again. There is no such property of messages: the ids of WhatsApp
are not kept, so one that is repeated within ten seconds is counted, stored and
answered again, and nothing in the repository says otherwise. The counters'
properties hold with such repetitions.

`StandstillIsSeen` allows for circles of row locks, which the code can run
into and PostgreSQL ends, and excludes what PostgreSQL could not see: a wait for
a transaction whose task is over, and a circle through the pool. `Ready(t)`
spells out what the next action of a task waits for. TLC finds, in every state of
`onboard`, that `Proceed(t)` is `ENABLED` where `Ready(t)` holds or `t` is in a
circle, and nowhere else. A submission or an error is no help that a task may
wait for, so neither is in it.

`AppliedOnce` and `FormsTakeEffect` allow a restart to lose a form between the
answer 200 and the task: the code keeps no record of what it has accepted.

`KeyIsHeld` is conditional on no run of the command having been started before
the key of the one before was deployed (`hasty`): whoever starts one then
overwrites the file.

Each property is stated in words above its definition, and each has a mutant in
PROJECT.json: a plausible slip in the code under which TLC finds it violated
(the mutated operators stand just before the ones they replace and are used
nowhere else).

### Fairness

`FairSpec` of `MessageBatching` asks weak fairness of each task: asyncpg,
httpx and the OpenAI client end every call, by a result or an exception, and
the event loop runs ready tasks. New messages and restarts are not fair:
nobody has to write. `EveryRequestReturns` therefore says that the loop of
`generate_response` stops once messages stop; with messages that never stop
the code would start over for ever, and the finite set of requests is the
bound that excludes it. `FairSpec` of `Onboarding` asks that
while some task can proceed, one does, and `Proceed` leaves out failures: a
task must be able to end without one. `FairSpec` of `FlowEndpoint` asks that
the subprocesses end, that the operator deploys a confirmed key and restarts
the process when the environment has changed; starting the command is not
fair, nor are phones. Each background task of an answered request is started:
Starlette awaits it as soon as the response is out. In `Onboarding`,
`DeadlockDetected` is part of `Proceed`, for PostgreSQL looks for circles after
`deadlock_timeout` of waiting.

### Where code and text differ

* `duplicates`: `_format_messages` says it removes duplicates; it removes the
  last n rows, and a row stored between two messages of a batch leaves a
  message in the prompt twice. `SliceRemovesTrailingBatch` is the case in
  which it does work.
* `window`: "rolling 24-hour windows" is one counter whose expiry each request
  renews; `QuietUserIsForgotten` is what does hold.
* `unknown`: being over the limit is taken for a Redis failure when the number
  has no row in `users`.
* `contact`: of two concurrent first messages the second ends in status 500,
  and is not stored.
* `replaces`: two overlapping class forms leave the union of their selections
  in `teachers_classes`, and one of them in `class_info`.

Others have no run of their own; the models do as the code does:

* A form that lists a subject without a class passes the check of
  flow_service.py:220 ("Check that at least one class is selected", line 219):
  its teacher is welcomed and gets the other classes assigned, then
  line 288 raises, and the user is never activated
  (`ReadClasses`, "notFound").
* A message that ages in the limiter is counted, then refused as outdated
  (request_service.py:31, rate_limit_service.py:67).
* A notice of a flow's health without one of the keys that `handle_flow_event`
  reads (whatsapp_service.py:89) is answered 500, and comes again.
* An outdated message is answered 400, so WhatsApp delivers it again for as
  long as it repeats anything; the rate limiter's docstring says why it takes
  care to answer 200 (rate_limit_service.py:54).
* Of several messages in one webhook only the first is read
  (whatsapp_utils.py:181), the others are acknowledged with it.
* Some error answers of `flow_service.py` give a `PlainTextResponse` a dict
  (lines 62, 100, 177, 179 and 257), which raises when the answer is built: what
  is meant to be 422 comes out as 500. A user who is not found is a ValueError
  and so 421, the status for a key that does not fit; `handle_unknown_flow` is
  called with arguments it does not take, which is 500.
* `curl` runs without `--fail` in `scripts/flows/cli.py`: a key Meta refuses
  ends the step as if taken, and only the output of the last step tells.
  Between the registration and the restart every request fails, the phone's
  second attempt too; `RefetchHeals` leaves that window out.
* What WhatsApp answers when a flow is sent is logged and no more
  (flow_utils.py:229): the user may wait for a form that never comes.
* `read_subjects` has no ORDER BY, and the numbers of the form's fields are
  made anew from it per request (flow_service.py:201): a form is read with an
  order that nothing ties to the one it was shown with. The models have the
  classes of a form without their numbers.
* "Remove processor if it's empty and unlocked" (`_cleanup_processor`) is only
  asked while the lock is held, so no processor is ever removed. `known` only
  grows until a restart.
* A buffered message returns None, which `handle_chat_message` takes for "No
  responses generated by LLM" (messaging_service.py:78): the user reads an
  apology for a message that is about to be answered.
* "With existence checking and continuation" (seed.py:169): only the resource
  is looked for, and a load always starts from the first chunk. `LoadsAddUp` is
  what does hold: each load counts every chunk it has passed once more. And
  sample data that is added twice makes every later load fail.
* The prompt of the second LLM request ends with the tool messages but lacks
  the `tool_calls` message they answer (llm_service.py:292 extends `api_messages`
  with `tool_responses` alone); a later prompt has both, from the table.
* The rows of a generation carry the time they were made, not that of their
  saving: `HistoryReadsInOrder` is what follows from that. It says nothing of
  user rows: one that is made during a generation lies between the `tool_calls`
  row and its tool messages (models.py:205), so a later prompt may
  have a user message there. And a generation that starts while the reply of
  the one before is being stored (messaging_service.py:72) does not have that
  reply in its prompt.
* A call of a tool that does not exist is answered with the output of an
  earlier call, if there was one: the second half of `OutputsAreTheirOwn`.
* The metadata of `search_knowledge` requires `query` (registry.py:32), the
  function takes `search_phrase`: a call that follows the metadata to the
  letter ends in `ToolFails`.

## 5. Proofs

`tlapm` checks every step. Assumptions: only those named in the modules (types
and positivity of constants, disjoint sets of tasks); no set of requests,
users, forms or classes needs to be finite.

**MessageBatching_proofs.** `BatchingInv` is inductive: types, `SingleFlight`,
`NothingStranded`, `BatchIsPrefix`, `EveryMessageAccounted`,
`BufferedAreStored`, `RepliesStoredTogether`, `DeliveredAnswerIsStored`, and two
strengthenings. `BufferedByAuthor` (a buffer holds its owner's messages) is
needed to know that clearing one user's buffer settles that user's messages
and nobody else's. `TaskProgress` (how far a task got tells which rows exist
and what it answered) is needed because being stored and being answered are
decided steps before anything is saved or sent. The proof goes by kinds of
steps: `StepKinds` shows that for the processors a step is quiet, an arrival,
an end or a new round of a loop, or a restart, and each group of conjuncts is
preserved by each kind. `ContractKept` then shows that every step is a step of
`ReplyContract` or a stutter under the mapping in `Contract`.

**HistoryCount_proofs** goes on from there to what counts rows of the history,
`UnusualCountOnlyBeyondLimit` and `SliceRemovesTrailingBatch`. `HistoryInv` adds
that the order of `created_at` is strict (`OrderSound`), that a row is not
constructed while it is there (`RowsFresh`, without which it would be earlier
than itself), and that no message is twice in a buffer (`BufferDistinct`), so
that a batch has as many rows as messages. The lemma in the middle is
`LatestAreMany`: unless a set is all among its latest n rows, some row that is
not has only such rows after it, and there are n of those.

The same module has the order in which a history reads (`HistoryInOrder`).
Rows are made by the task that holds the lock and saved after it is given up,
so the next generation makes rows while those of the last are in no table. The
argument is that a row that is made is later than all that have been
(`NextIsLast`), and that a user's generations hold the lock one after the other
(`SingleFlight`): the rows of one are all made before the first of the next
(`NextAfterOthers`, `ApartStep`). `RoundStep` is the order within a
generation; `AnswersStep` that a reply is made after it is decided what it
answers, all of which is stored by then. `ConversationInv` is the invariant: the
property and `RunningIsLatest`, that the rows of the generation under way are
later than those of all others of its user. `SingleFlight` and this order are
why `ToolCalls` may have one `pc` and one clock for all exchanges of a user.

**ToolCalls_proofs.** `ToolCallsInv` adds to the three properties
`NothingFromTheFuture` (a row that is constructed is the youngest, so an answer
is younger than its call), `ExchangesApart` (table, outbox and the round under
way share no call, so saving one cannot answer another's call twice),
`RoundProgress` (which calls have their tool message when the loop is at
`todo`, and where `result` comes from) and `OutboxSound`. For
`OrphansOnlyAtWindowStart` the argument is that a window of the youngest n rows
is closed upwards: a row younger than one it holds is in it, so a missing call is
older than everything there.

**SeedLoader_proofs.** `SeedInv` adds `LoadIsAhead` (the load under way is on
top of what was there, which is why no chunk is oftener there than one before
it), `LoadingInStep` (it stands at the start of a batch, so chunks of a batch
are counted together), `NoOrphanChunks` and `FullSetupProgress`.

**RateLimiter_proofs.** `RateInv` is the conjunction of the types and the four
properties. For the counters the argument is per key, for a step that counts,
a step that does not, and a tick; repetitions are requests like others. For the
reports one more fact is needed, `ReportsNoted`: a delivery of a report is idle
or noted, so a second one finds an answer of 200 and does not come.

**Onboarding_proofs.** `OnboardingInv` adds `RowMovesOn` (a copy is older than
the row, and the row only moves on: what makes late writes harmless),
`FormProgress` (what a form has chosen and assigned by the time it gets there),
`LocksHeld` (only a transaction holds rows, and a complete INSERT holds those of
its form) and `AloneIsExclusive` (nobody changes the teacher's rows or the classes in a
form's copy while it is alone), from which `FreshFormRepairs` follows.
`WelcomedIsActive` rests on `NeverDeactivated`. `RowComesFirst` (no flow is
offered and no form filled in before there is a row) is what `EnrolmentKept`
needs besides: that a choice is assigned only to a registered user, and that
registration finds none. Its proof takes the choices first (`AssignedStep`: only
a commit adds one, together with the rows; `ShownStep`: the task that updates
the user takes its own away), then the row (`ShowStep`), and puts both together
in `EnrolmentStep`.

**OnboardingWaits_proofs** shows `StandstillIsSeen`. Connections, deleted rows and
inserted pairs are waited for, and all of them are held by transactions alone
(`LocksHeld`): none survives its task, which is where `get_session` on every
path comes in. So if nobody can go on, there is a transaction, and every
transaction waits for another (`TransactionsWait`). There are finitely many of
them, though perhaps infinitely many forms (`ConnectedStep`: each step opens one
at most), so among the sets of transactions that wait for themselves there is a
smallest, and that is a circle (`CircleExists`, by well-foundedness of the
subsets of a finite set).

**FlowEndpoint_proofs.** `FlowInv` is the types, and three parts. `KeyInv`: up to
the upload Meta has the key of the environment, afterwards that or the one in
the file, and what is deployed has been confirmed. `SteadyInv`: a request that
has seen nothing but agreement is, from its second attempt on, encrypted with
the server's key. `AppliedInv`: how far a handler got tells whether its task was
queued, started or lost. The handler's actions enter through one predicate, `HandlerStep`, that
says what they may change.

Model-checked only: the liveness properties (`EveryRequestReturns`,
`EveryTaskEnds`, `RotationSettles`, `FormsTakeEffect`, and the fairness half of `KeepsContract`),
which are beyond this prover, as is what was said of `Ready(t)` and `ENABLED`.
`StandstillIsSeen` is the part of `EveryTaskEnds` that is not about fairness.

## 6. Not modelled

Ciphers and signatures themselves, prompt and string handling, markdown and
payload construction, retrieval and embedding: functions of one request without
state. The verification of the webhook's address (a GET, constant). The states
`blocked`, `rate_limited` and `onboarding`: no code sets them.
`handle_new_dummy`: only in the local environment. The commands of
`scripts/` that print a token or upload a file, and the migrations, which are
run by hand on an idle system. The retries of `llm_utils.py` are one action
that ends in an answer or an error. That a prompt holds the reply before it,
and that replies are sent in order, is not stated: `MessageBatching` takes the
steps that violate both, and no line of the repository promises either. What
the history says in the end is in `HistoryReadsInOrder`.
