----------------------------- MODULE RateLimiter -----------------------------
(***************************************************************************)
(* A request to webhook_post (app/main.py) in production and staging: what *)
(* get_request_type takes it for, the rate limit of                        *)
(* app/services/rate_limit_service.py it passes if it carries a message,   *)
(* and the status it ends with, on which depends whether WhatsApp delivers *)
(* the same event again.  Two counters in Redis, one per user and one for  *)
(* everybody, live as long as somebody keeps touching them; the requests   *)
(* that pass them are asyncio tasks that interleave at every await.        *)
(*                                                                         *)
(* Time advances by ticks.  Nothing in a state depends on absolute time:   *)
(* a key has a remaining time to live and an event an age.                 *)
(***************************************************************************)
EXTENDS Naturals, FiniteSets

CONSTANTS
    Users, Requests, Sender,    \* as in MessageBatching
    Events,                     \* what WhatsApp has to report
    Carries,                    \* Carries[r]: the event that r delivers
    Body,                       \* Body[e]: what the JSON body of e contains
    GlobalKey,                  \* RedisKeys.GLOBAL_RATE
    UserLimit, GlobalLimit,     \* settings.user/global_message_limit
    TimeToLive,                 \* settings.time_to_live, in ticks
    OutdatedAfter               \* age at which a message is outdated, in ticks

Positive == Nat \ {0}

\* "details": whatever handle_flow_event reads of such an event; "contacts": the
\* sender of a message; "text": a text or a button.  A message that WhatsApp
\* sends without text is a picture, a reaction, an empty line.
Parts == {"event", "details", "statuses", "flow_token", "messages", "contacts",
          "text"}

ASSUME RateSenderAssumption == Sender \in [Requests -> Users]
ASSUME EventsAssumption ==
    /\ Carries \in [Requests -> Events] /\ Body \in [Events -> SUBSET Parts]
    /\ \A q, r \in Requests : Carries[q] = Carries[r] => Sender[q] = Sender[r]
ASSUME GlobalKeyAssumption  == GlobalKey \notin Users
ASSUME RateLimitsAssumption ==
    /\ UserLimit \in Positive /\ GlobalLimit \in Positive
    /\ TimeToLive \in Positive /\ OutdatedAfter \in Positive

VARIABLES
    pc,         \* pc[r]: the await at which the task of request r is suspended,
                \* "idle" while WhatsApp has not delivered the request
    age,        \* age[e]: ticks since WhatsApp stamped the event e
    count,      \* count[k]: value of the Redis key k, 0 when there is none
    ttl,        \* ttl[k]: ticks until Redis deletes k
    registered, \* users that have a row in the users table
    exceeded,   \* requests that were told a limit is exceeded
    failed,     \* requests for which Redis or the database raised
    passed,     \* passed[k]: requests let past k since k was created
    lost,       \* lost[k]: counted by Redis since then, but the answer was lost
    since       \* since[r]: ticks since r incremented its user's key

keyVars == <<count, ttl, passed, lost>>
vars == <<pc, age, keyVars, registered, exceeded, failed, since>>

Keys     == Users \cup {GlobalKey}
Limit(k) == IF k = GlobalKey THEN GlobalLimit ELSE UserLimit

InTransit    == {"user", "userLimited", "global", "globalLimited", "admitted"}
Acknowledged == {"noted", "refused", "handled"}         \* status 200
Declined     == {"outdated", "late", "rejected",        \* status 400
                 "invalid",                             \* status 404
                 "unreadable", "error"}                 \* status 500
Labels       == {"idle"} \cup InTransit \cup Acknowledged \cup Declined

Smaller(a, b) == IF a < b THEN a ELSE b

\* is_message_outdated: asked before the limiter and again by handle_request.
\* Greater ages than OutdatedAfter are as good as that one.
Outdated(a) == a >= OutdatedAfter

\* get_request_type, whose tests come in this order; extract_message_info
\* raises if a message comes without its sender.
RequestTypeInvalidFirst(has, a) ==
    IF "messages" \notin has         THEN "INVALID_MESSAGE"
    ELSE IF "event" \in has          THEN "FLOW_EVENT"
    ELSE IF "statuses" \in has       THEN "MESSAGE_STATUS_UPDATE"
    ELSE IF "flow_token" \in has     THEN "FLOW_COMPLETE"
    ELSE IF "contacts" \notin has    THEN "raises"
    ELSE IF Outdated(a) THEN "OUTDATED" ELSE "VALID_MESSAGE"
RequestType(has, a) ==
    IF "event" \in has               THEN "FLOW_EVENT"
    ELSE IF "statuses" \in has       THEN "MESSAGE_STATUS_UPDATE"
    ELSE IF "flow_token" \in has     THEN "FLOW_COMPLETE"
    ELSE IF "messages" \notin has    THEN "INVALID_MESSAGE"
    ELSE IF "contacts" \notin has    THEN "raises"
    ELSE IF Outdated(a) THEN "OUTDATED" ELSE "VALID_MESSAGE"

\* Only a valid message goes through the limiter.  handle_request answers the
\* other types at once; what get_request_type or handle_flow_event raises, for
\* a part they read and do not find, ends in status 500.
EntryPoint(has, a) ==
    CASE RequestType(has, a) = "FLOW_EVENT" ->
           IF "details" \in has THEN "noted" ELSE "unreadable"
      [] RequestType(has, a) \in {"MESSAGE_STATUS_UPDATE", "FLOW_COMPLETE"} ->
           "noted"
      [] RequestType(has, a) = "INVALID_MESSAGE" -> "invalid"
      [] RequestType(has, a) = "raises"          -> "unreadable"
      [] RequestType(has, a) = "OUTDATED"        -> "outdated"
      [] RequestType(has, a) = "VALID_MESSAGE"   -> "user"

\* count > limit, on the value that INCR returned.
IsExceededTooSoon(k) == count[k] + 1 >= Limit(k)
IsExceeded(k) == count[k] + 1 > Limit(k)

\* INCR and EXPIRE travel in one MULTI/EXEC.
IncrWithoutExpire(k) ==
    /\ count' = [count EXCEPT ![k] = count[k] + 1]
    /\ ttl' = ttl
IncrAndExtend(k) ==
    /\ count' = [count EXCEPT ![k] = count[k] + 1]
    /\ ttl' = [ttl EXCEPT ![k] = ttl[k] + TimeToLive]
IncrAndExpire(k) ==
    /\ count' = [count EXCEPT ![k] = count[k] + 1]
    /\ ttl' = [ttl EXCEPT ![k] = TimeToLive]

Init ==
    /\ pc = [r \in Requests |-> "idle"]
    /\ age = [e \in Events |-> 0]
    /\ count = [k \in Keys |-> 0]
    /\ ttl = [k \in Keys |-> 0]
    /\ registered \in SUBSET Users
    /\ exceeded = {}
    /\ failed = {}
    /\ passed = [k \in Keys |-> 0]
    /\ lost = [k \in Keys |-> 0]
    /\ since = [r \in Requests |-> TimeToLive]

\* WhatsApp delivers an event of any age; again, whenever no delivery has been
\* answered with status 200, be it under way or refused.
Repeats(r) == {q \in Requests \ {r} : Carries[q] = Carries[r] /\ pc[q] # "idle"}
Delivers(r) ==
    \/ /\ Repeats(r) = {}
       /\ \E a \in 0 .. OutdatedAfter : age' = [age EXCEPT ![Carries[r]] = a]
    \/ /\ Repeats(r) # {}
       /\ \A q \in Repeats(r) : pc[q] \notin Acknowledged
       /\ UNCHANGED age

\* webhook_post, up to the first await of rate_limit.
Arrive(r) ==
    /\ pc[r] = "idle"
    /\ Delivers(r)
    /\ pc' = [pc EXCEPT ![r] =
                EntryPoint(Body[Carries[r]], age'[Carries[r]])]
    /\ UNCHANGED <<keyVars, registered, exceeded, failed, since>>

\* check_rate_limit(key, limit), then whichever await comes next.
CheckRateLimit(r, k, overLimit, underLimit) ==
    /\ IncrAndExpire(k)
    /\ \/ /\ IsExceeded(k)
          /\ pc' = [pc EXCEPT ![r] = overLimit]
          /\ exceeded' = exceeded \cup {r}
          /\ UNCHANGED passed
       \/ /\ ~IsExceeded(k)
          /\ pc' = [pc EXCEPT ![r] = underLimit]
          /\ passed' = [passed EXCEPT ![k] = passed[k] + 1]
          /\ UNCHANGED exceeded
    /\ UNCHANGED <<age, lost, registered, failed>>

\* The user's own limit comes first, so that a refused user does not use up
\* the global quota.
CheckUser(r) ==
    /\ pc[r] = "user"
    /\ CheckRateLimit(r, Sender[r], "userLimited", "global")
    /\ since' = [since EXCEPT ![r] = 0]

CheckGlobal(r) ==
    /\ pc[r] = "global"
    /\ CheckRateLimit(r, GlobalKey, "globalLimited", "admitted")
    /\ UNCHANGED since

\* send_rate_limit_message, then RateLimitResponse.  For a number that is not
\* in the users table it raises an HTTPException instead, which the last
\* except clause of rate_limit takes for a Redis error.
SendRateLimitMessage(r) ==
    /\ pc[r] \in {"userLimited", "globalLimited"}
    /\ \/ /\ Sender[r] \in registered
          /\ pc' = [pc EXCEPT ![r] = "refused"]
       \/ /\ Sender[r] \notin registered
          /\ pc' = [pc EXCEPT ![r] = "admitted"]
    /\ UNCHANGED <<age, keyVars, registered, exceeded, failed, since>>

\* "Don't block requests if Redis fails": any error of the limiter, Redis or
\* database, lets the request through.
ErrorIsCaught(r) ==
    /\ pc' = [pc EXCEPT ![r] = "admitted"]
    /\ failed' = failed \cup {r}
    /\ UNCHANGED <<age, registered, exceeded>>

LimiterFails(r) ==
    /\ pc[r] \in {"user", "userLimited", "global", "globalLimited"}
    /\ ErrorIsCaught(r)
    /\ UNCHANGED <<keyVars, since>>

\* The error may also come after Redis has run the transaction.
AnswerIsLost(r, k) ==
    /\ ErrorIsCaught(r)
    /\ IncrAndExpire(k)
    /\ lost' = [lost EXCEPT ![k] = lost[k] + 1]
    /\ UNCHANGED passed

CheckUserFails(r) ==
    /\ pc[r] = "user"
    /\ AnswerIsLost(r, Sender[r])
    /\ since' = [since EXCEPT ![r] = 0]

CheckGlobalFails(r) ==
    /\ pc[r] = "global"
    /\ AnswerIsLost(r, GlobalKey)
    /\ UNCHANGED since

\* handle_request: the time spent in the limiter counts.  A message that is
\* still fresh is handled, which registers its sender; one without text is
\* rejected or raises; and handle_valid_message may raise at any await, before
\* or after it has stored sender and message.
HandleRequest(r) ==
    LET e == Carries[r] IN
    /\ pc[r] = "admitted"
    /\ \/ /\ RequestType(Body[e], age[e]) = "OUTDATED"
          /\ pc' = [pc EXCEPT ![r] = "late"]
          /\ UNCHANGED registered
       \/ /\ RequestType(Body[e], age[e]) = "VALID_MESSAGE"
          /\ "text" \notin Body[e]
          /\ \E label \in {"rejected", "error"} : pc' = [pc EXCEPT ![r] = label]
          /\ UNCHANGED registered
       \/ /\ RequestType(Body[e], age[e]) = "VALID_MESSAGE"
          /\ "text" \in Body[e]
          /\ \/ /\ pc' = [pc EXCEPT ![r] = "handled"]
                /\ registered' = registered \cup {Sender[r]}
             \/ /\ pc' = [pc EXCEPT ![r] = "error"]
                /\ registered' \in {registered, registered \cup {Sender[r]}}
    /\ UNCHANGED <<age, keyVars, exceeded, failed, since>>

\* One tick: events age, keys come closer to their end and Redis deletes those
\* that reach it.
Tick ==
    /\ age' = [e \in Events |->
                 IF \E r \in Requests : Carries[r] = e /\ pc[r] # "idle"
                 THEN Smaller(age[e] + 1, OutdatedAfter) ELSE age[e]]
    /\ ttl' = [k \in Keys |-> IF ttl[k] > 0 THEN ttl[k] - 1 ELSE 0]
    /\ count' = [k \in Keys |-> IF ttl[k] = 1 THEN 0 ELSE count[k]]
    /\ passed' = [k \in Keys |-> IF ttl[k] = 1 THEN 0 ELSE passed[k]]
    /\ lost' = [k \in Keys |-> IF ttl[k] = 1 THEN 0 ELSE lost[k]]
    /\ since' = [r \in Requests |-> Smaller(since[r] + 1, TimeToLive)]
    /\ UNCHANGED <<pc, registered, exceeded, failed>>

Next ==
    \/ \E r \in Requests :
         \/ Arrive(r) \/ CheckUser(r) \/ CheckGlobal(r)
         \/ SendRateLimitMessage(r) \/ HandleRequest(r)
         \/ LimiterFails(r) \/ CheckUserFails(r) \/ CheckGlobalFails(r)
    \/ Tick

Spec == Init /\ [][Next]_vars

-----------------------------------------------------------------------------
(* What must hold.                                                         *)

TypeOK ==
    /\ pc \in [Requests -> Labels]
    /\ age \in [Events -> 0 .. OutdatedAfter]
    /\ count \in [Keys -> Nat]
    /\ ttl \in [Keys -> 0 .. TimeToLive]
    /\ registered \subseteq Users
    /\ exceeded \subseteq Requests
    /\ failed \subseteq Requests
    /\ passed \in [Keys -> Nat]
    /\ lost \in [Keys -> Nat]
    /\ since \in [Requests -> 0 .. TimeToLive]

\* A key that counts will be deleted: nobody is locked out for ever by a key
\* that lost its expiry.
CountersExpire == \A k \in Keys : count[k] > 0 <=> ttl[k] > 0

\* However the tasks interleave, the first Limit(k) requests that reach a key
\* during its life get past it and no other does: no quota is exceeded, and
\* none is wasted but by an answer of Redis that was lost.
QuotaIsExact ==
    \A k \in Keys :
        /\ passed[k] <= Smaller(count[k], Limit(k))
        /\ passed[k] + lost[k] >= Smaller(count[k], Limit(k))

\* A user who stays quiet for TimeToLive starts again with a full quota: while
\* the key exists, one of the user's requests touched it within that time.
QuietUserIsForgotten ==
    \A u \in Users : count[u] > 0 =>
        \E r \in Requests : Sender[r] = u /\ since[r] + ttl[u] = TimeToLive

\* A report that carries no message is taken for what it is before anything
\* asks it for one: if it has the parts that its handler reads, WhatsApp hears
\* 200 and repeats it to nobody.
IsReport(e) ==
    /\ Body[e] \cap {"event", "statuses"} # {}
    /\ "event" \in Body[e] => "details" \in Body[e]
ReportsHeardOnce ==
    \A q, r \in Requests :
        q # r /\ Carries[q] = Carries[r] /\ IsReport(Carries[r])
          => pc[q] = "idle" \/ pc[r] = "idle"

\* The inductive invariant.
RateInv ==
    /\ TypeOK
    /\ CountersExpire
    /\ QuotaIsExact
    /\ QuietUserIsForgotten
    /\ ReportsHeardOnce

(***************************************************************************)
(* What the repository says and the code does not do.                      *)
(***************************************************************************)
\* rate_limit: "rate limiting WhatsApp messages using rolling 24-hour
\* windows": a request is over its user's limit only if UserLimit requests of
\* that user were counted within the last TimeToLive.
RecentRequests(u) ==
    {q \in Requests : Sender[q] = u /\ since[q] < TimeToLive}
RollingWindow ==
    [][\A r \in Requests :
         pc[r] = "user" /\ pc'[r] = "userLimited"
           => Cardinality(RecentRequests(Sender[r])) >= UserLimit]_vars

\* rate_limit: "Don't block requests if Redis fails", and otherwise "Returns
\* 200 status code even when rate limited": a request over a limit is let
\* through only when something failed.
OverLimitIsRefused ==
    \A r \in exceeded \ failed : pc[r] \notin {"handled", "rejected", "error"}
=============================================================================
