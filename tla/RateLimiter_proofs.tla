------------------------- MODULE RateLimiter_proofs -------------------------
(***************************************************************************)
(* The invariant of RateLimiter, for any number of users, requests and     *)
(* ticks and for all positive limits.                                      *)
(***************************************************************************)
EXTENDS RateLimiter, TLAPS

USE RateSenderAssumption, EventsAssumption, GlobalKeyAssumption,
    RateLimitsAssumption

\* Every request counts on its sender's key and on the global key, and both
\* have a limit.
LEMMA KeyTypes ==
    /\ \A r \in Requests : Sender[r] \in Keys /\ Sender[r] \in Users
    /\ GlobalKey \in Keys
    /\ \A k \in Keys : Limit(k) \in Positive
  BY DEF Keys, Limit, Positive

\* The part of the invariant that is about one Redis key.
KeyOK(k) ==
    /\ count[k] > 0 <=> ttl[k] > 0
    /\ passed[k] <= Smaller(count[k], Limit(k))
    /\ passed[k] + lost[k] >= Smaller(count[k], Limit(k))
KeyType ==
    /\ count \in [Keys -> Nat]
    /\ ttl \in [Keys -> 0 .. TimeToLive]
    /\ passed \in [Keys -> Nat]
    /\ lost \in [Keys -> Nat]

\* RateInv, with its three statements about keys gathered key by key.
LEMMA InvByKey ==
    ASSUME TypeOK
    PROVE  CountersExpire /\ QuotaIsExact <=> \A k \in Keys : KeyOK(k)
  BY DEF CountersExpire, QuotaIsExact, KeyOK

\* A report that carries no message has been answered with status 200 since
\* it arrived: what ReportsHeardOnce rests on.
ReportsNoted ==
    \A r \in Requests : IsReport(Carries[r]) => pc[r] \in {"idle", "noted"}

\* The inductive invariant, complete.
RateIInv == RateInv /\ ReportsNoted

\* The initial counters are consistent, and nothing was delivered yet.
LEMMA InitInv == Init => RateIInv
<1> SUFFICES ASSUME Init PROVE RateIInv
  OBVIOUS
<1>0. \A r \in Requests : pc[r] = "idle"
  BY DEF Init
<1>4. ReportsHeardOnce /\ ReportsNoted
  BY <1>0 DEF ReportsHeardOnce, ReportsNoted
<1>1. TypeOK
  BY DEF Init, TypeOK, Labels, Positive
<1>2. \A k \in Keys : KeyOK(k)
  <2> TAKE k \in Keys
  <2>1. count[k] = 0 /\ ttl[k] = 0 /\ passed[k] = 0 /\ lost[k] = 0
    BY DEF Init
  <2> QED
    BY <2>1, KeyTypes DEF KeyOK, Smaller, Positive
<1>3. QuietUserIsForgotten
  <2> SUFFICES ASSUME NEW u \in Users, count[u] > 0
               PROVE  FALSE
    BY DEF QuietUserIsForgotten
  <2>1. u \in Keys
    BY DEF Keys
  <2>2. count[u] = 0
    BY <2>1 DEF Init
  <2> QED
    BY <2>2
<1> QED
  BY <1>1, <1>2, <1>3, <1>4, InvByKey DEF RateInv, RateIInv

-----------------------------------------------------------------------------
\* INCR and EXPIRE, and the verdict or its loss, keep every key consistent.
LEMMA CountingKeepsKeys ==
    ASSUME KeyType, \A k \in Keys : KeyOK(k), NEW j \in Keys,
           IncrAndExpire(j),
           \/ IsExceeded(j) /\ UNCHANGED <<passed, lost>>
           \/ ~IsExceeded(j) /\ passed' = [passed EXCEPT ![j] = passed[j] + 1]
                             /\ UNCHANGED lost
           \/ lost' = [lost EXCEPT ![j] = lost[j] + 1] /\ UNCHANGED passed
    PROVE  KeyType' /\ \A k \in Keys : KeyOK(k)'
<1>1. KeyType'
  BY DEF KeyType, IncrAndExpire, Positive
<1>2. ASSUME NEW k \in Keys
      PROVE  KeyOK(k)'
  <2>0. /\ count[k] \in Nat /\ passed[k] \in Nat /\ lost[k] \in Nat
        /\ Limit(k) \in Nat /\ Limit(k) > 0 /\ TimeToLive > 0
        /\ TimeToLive \in Nat
    BY KeyTypes DEF KeyType, Positive
  <2>1. CASE k # j
    <3>1. count'[k] = count[k] /\ ttl'[k] = ttl[k]
      BY <2>1 DEF IncrAndExpire, KeyType
    <3>2. passed'[k] = passed[k] /\ lost'[k] = lost[k]
      BY <2>1 DEF KeyType
    <3> QED
      BY <3>1, <3>2 DEF KeyOK, Limit
  <2>2. CASE k = j
    <3>1. count'[k] = count[k] + 1 /\ ttl'[k] = TimeToLive
      BY <2>2 DEF IncrAndExpire, KeyType
    <3>2. \/ count[k] + 1 > Limit(k) /\ passed'[k] = passed[k]
                                     /\ lost'[k] = lost[k]
          \/ ~(count[k] + 1 > Limit(k)) /\ passed'[k] = passed[k] + 1
                                        /\ lost'[k] = lost[k]
          \/ passed'[k] = passed[k] /\ lost'[k] = lost[k] + 1
      BY <2>2 DEF IsExceeded, KeyType
    <3>3. /\ passed[k] <= Smaller(count[k], Limit(k))
          /\ passed[k] + lost[k] >= Smaller(count[k], Limit(k))
      BY DEF KeyOK
    <3>4. /\ passed'[k] <= Smaller(count[k] + 1, Limit(k))
          /\ passed'[k] + lost'[k] >= Smaller(count[k] + 1, Limit(k))
      BY <2>0, <3>2, <3>3 DEF Smaller
    <3> QED
      BY <2>0, <3>1, <3>4 DEF KeyOK, Limit
  <2> QED
    BY <2>1, <2>2
<1> QED
  BY <1>1, <1>2

\* A tick keeps every key consistent, the ones that expire included.
LEMMA TickKeepsKeys ==
    ASSUME KeyType, \A k \in Keys : KeyOK(k), Tick
    PROVE  KeyType' /\ \A k \in Keys : KeyOK(k)'
<1>1. KeyType'
  BY DEF KeyType, Tick, Positive
<1>2. ASSUME NEW k \in Keys
      PROVE  KeyOK(k)'
  <2>0. /\ count[k] \in Nat /\ passed[k] \in Nat /\ lost[k] \in Nat
        /\ ttl[k] \in Nat /\ Limit(k) \in Nat /\ Limit(k) > 0
    BY KeyTypes DEF KeyType, Positive
  <2>1. /\ ttl'[k] = IF ttl[k] > 0 THEN ttl[k] - 1 ELSE 0
        /\ count'[k] = IF ttl[k] = 1 THEN 0 ELSE count[k]
        /\ passed'[k] = IF ttl[k] = 1 THEN 0 ELSE passed[k]
        /\ lost'[k] = IF ttl[k] = 1 THEN 0 ELSE lost[k]
    BY DEF Tick
  <2>2. KeyOK(k)
    OBVIOUS
  <2>3. CASE ttl[k] = 1
    BY <2>0, <2>1, <2>3 DEF KeyOK, Limit, Smaller
  <2>4. CASE ttl[k] # 1
    BY <2>0, <2>1, <2>2, <2>4 DEF KeyOK, Limit, Smaller
  <2> QED
    BY <2>3, <2>4
<1> QED
  BY <1>1, <1>2

-----------------------------------------------------------------------------
\* A check, with or without an answer, of key k by request r: what it does to
\* the counters.
Counting(j) ==
    /\ IncrAndExpire(j)
    /\ \/ IsExceeded(j) /\ UNCHANGED <<passed, lost>>
       \/ ~IsExceeded(j) /\ passed' = [passed EXCEPT ![j] = passed[j] + 1]
                         /\ UNCHANGED lost
       \/ lost' = [lost EXCEPT ![j] = lost[j] + 1] /\ UNCHANGED passed

\* What a step does to the counters and to the time since the last touch.
LEMMA StepKinds ==
    ASSUME TypeOK, [Next]_vars
    PROVE  \/ UNCHANGED <<keyVars, since>>
           \/ \E r \in Requests : /\ Counting(Sender[r])
                                  /\ since' = [since EXCEPT ![r] = 0]
           \/ Counting(GlobalKey) /\ UNCHANGED since
           \/ Tick
<1>1. CASE UNCHANGED vars
  BY <1>1 DEF vars
<1>2. CASE Tick
  BY <1>2
<1>3. ASSUME NEW r \in Requests,
             Arrive(r) \/ SendRateLimitMessage(r) \/ HandleRequest(r)
               \/ LimiterFails(r)
      PROVE  UNCHANGED <<keyVars, since>>
  BY <1>3 DEF Arrive, SendRateLimitMessage, HandleRequest, LimiterFails
<1>4. ASSUME NEW r \in Requests, CheckUser(r) \/ CheckUserFails(r)
      PROVE  Counting(Sender[r]) /\ since' = [since EXCEPT ![r] = 0]
  BY <1>4 DEF CheckUser, CheckUserFails, CheckRateLimit, AnswerIsLost, Counting
<1>5. ASSUME NEW r \in Requests, CheckGlobal(r) \/ CheckGlobalFails(r)
      PROVE  Counting(GlobalKey) /\ UNCHANGED since
  BY <1>5 DEF CheckGlobal, CheckGlobalFails, CheckRateLimit, AnswerIsLost,
              Counting
<1> QED
  BY <1>1, <1>2, <1>3, <1>4, <1>5 DEF Next

\* Where a request goes on arrival, and that a report goes to status 200.
LEMMA EntryPoints ==
    ASSUME NEW e, NEW a
    PROVE  /\ EntryPoint(Body[e], a) \in
                {"noted", "invalid", "unreadable", "outdated", "user"}
           /\ IsReport(e) => EntryPoint(Body[e], a) = "noted"
  BY DEF EntryPoint, RequestType, IsReport

\* A request that arrives: where it goes, and that no other moves.
LEMMA ArriveStep ==
    ASSUME TypeOK, NEW r \in Requests, Arrive(r)
    PROVE  /\ pc[r] = "idle"
           /\ IsReport(Carries[r]) => pc'[r] = "noted"
           /\ \A q \in Requests \ {r} : pc'[q] = pc[q]
           /\ pc' \in [Requests -> Labels]
<1>1. pc' = [pc EXCEPT ![r] =
                EntryPoint(Body[Carries[r]], age'[Carries[r]])]
  BY DEF Arrive
<1>2. pc'[r] = EntryPoint(Body[Carries[r]], age'[Carries[r]])
  BY <1>1 DEF TypeOK
<1>3. /\ pc'[r] \in {"noted", "invalid", "unreadable", "outdated", "user"}
      /\ IsReport(Carries[r]) => pc'[r] = "noted"
  BY <1>2, EntryPoints
<1>4. pc'[r] \in Labels
  BY <1>3 DEF Labels, InTransit, Acknowledged, Declined
<1>5. pc' \in [Requests -> Labels]
  BY <1>1, <1>2, <1>4 DEF TypeOK
<1> QED
  BY <1>1, <1>3, <1>5 DEF Arrive, TypeOK

\* Every step but an arrival moves a request that is in the limiter, if any.
LEMMA PcSteps ==
    ASSUME TypeOK, [Next]_vars
    PROVE  \/ \E r \in Requests : Arrive(r)
           \/ \A r \in Requests :
                /\ pc[r] \in {"idle", "noted"} => pc'[r] = pc[r]
                /\ pc'[r] = "idle" => pc[r] = "idle"
<1>1. CASE UNCHANGED pc
  BY <1>1
<1>2. ASSUME NEW q \in Requests, pc[q] \in InTransit,
             \E label \in Labels \ {"idle"} : pc' = [pc EXCEPT ![q] = label]
      PROVE  \A r \in Requests :
                /\ pc[r] \in {"idle", "noted"} => pc'[r] = pc[r]
                /\ pc'[r] = "idle" => pc[r] = "idle"
  BY <1>2 DEF TypeOK, InTransit
<1>3. ASSUME NEW q \in Requests,
             \/ CheckUser(q) \/ CheckGlobal(q) \/ SendRateLimitMessage(q)
             \/ HandleRequest(q) \/ LimiterFails(q)
             \/ CheckUserFails(q) \/ CheckGlobalFails(q)
      PROVE  /\ pc[q] \in InTransit
             /\ \E label \in Labels \ {"idle"} : pc' = [pc EXCEPT ![q] = label]
  <2> USE DEF Labels, InTransit, Acknowledged, Declined
  <2>1. CASE CheckUser(q) \/ CheckGlobal(q)
    BY <2>1 DEF CheckUser, CheckGlobal, CheckRateLimit
  <2>2. CASE SendRateLimitMessage(q)
    BY <2>2 DEF SendRateLimitMessage
  <2>3. CASE HandleRequest(q)
    BY <2>3 DEF HandleRequest
  <2>4. CASE LimiterFails(q) \/ CheckUserFails(q) \/ CheckGlobalFails(q)
    BY <2>4 DEF LimiterFails, CheckUserFails, CheckGlobalFails, AnswerIsLost,
                ErrorIsCaught
  <2> QED
    BY <1>3, <2>1, <2>2, <2>3, <2>4
<1>4. CASE UNCHANGED vars \/ Tick
  BY <1>1, <1>4 DEF vars, Tick
<1> QED
  BY <1>2, <1>3, <1>4 DEF Next

\* No report comes a second time, and reports stay answered.
LEMMA DeliveryStep ==
    ASSUME RateIInv, [Next]_vars
    PROVE  ReportsHeardOnce' /\ ReportsNoted'
<1> USE DEF RateIInv, RateInv
<1>1. CASE \E r \in Requests : Arrive(r)
  <2> PICK r \in Requests : Arrive(r)
    BY <1>1
  <2>1. /\ IsReport(Carries[r]) => pc'[r] = "noted"
        /\ \A q \in Requests \ {r} : pc'[q] = pc[q]
    BY ArriveStep
  <2>2. ASSUME NEW q \in Requests \ {r}, Carries[q] = Carries[r],
               pc[q] # "idle"
        PROVE  pc[q] \notin Acknowledged
    BY <2>2 DEF Arrive, Delivers, Repeats
  <2>3. ReportsHeardOnce'
    <3> SUFFICES ASSUME NEW p \in Requests, NEW q \in Requests, p # q,
                        Carries[p] = Carries[q], IsReport(Carries[q]),
                        pc'[p] # "idle", pc'[q] # "idle"
                 PROVE  FALSE
      BY DEF ReportsHeardOnce, IsReport
    <3>1. p = r \/ q = r
      BY <2>1 DEF ReportsHeardOnce
    <3>2. PICK o \in {p, q} : o # r
      OBVIOUS
    <3>3. pc[o] # "idle" /\ Carries[o] = Carries[r] /\ IsReport(Carries[o])
      BY <2>1, <3>1, <3>2
    <3>4. pc[o] \in Acknowledged
      BY <3>2, <3>3 DEF ReportsNoted, Acknowledged
    <3> QED
      BY <2>2, <3>2, <3>3, <3>4
  <2>4. ReportsNoted'
    BY <2>1 DEF ReportsNoted, IsReport
  <2> QED
    BY <2>3, <2>4
<1>2. CASE ~\E r \in Requests : Arrive(r)
  <2>1. \A r \in Requests :
          /\ pc[r] \in {"idle", "noted"} => pc'[r] = pc[r]
          /\ pc'[r] = "idle" => pc[r] = "idle"
    BY <1>2, PcSteps
  <2> QED
    BY <2>1 DEF ReportsHeardOnce, ReportsNoted, IsReport
<1> QED
  BY <1>1, <1>2

\* Every step keeps the variables in their types.
LEMMA TypeStep ==
    ASSUME TypeOK, [Next]_vars, KeyType'
    PROVE  TypeOK'
<1>1. CASE UNCHANGED vars
  BY <1>1 DEF vars, keyVars, TypeOK
<1>2. CASE Tick
  <2>1. age' \in [Events -> 0 .. OutdatedAfter]
    BY <1>2 DEF Tick, TypeOK, Smaller, Positive
  <2>2. since' \in [Requests -> 0 .. TimeToLive]
    BY <1>2 DEF Tick, TypeOK, Smaller, Positive
  <2> QED
    BY <1>2, <2>1, <2>2 DEF Tick, TypeOK, KeyType
<1>3. ASSUME NEW r \in Requests, Arrive(r)
      PROVE  TypeOK'
  <2>1. pc' \in [Requests -> Labels]
    BY <1>3, ArriveStep
  <2>2. age' \in [Events -> 0 .. OutdatedAfter]
    BY <1>3 DEF Arrive, Delivers, TypeOK, Positive
  <2> QED
    BY <1>3, <2>1, <2>2 DEF Arrive, TypeOK, KeyType, keyVars
<1>4. ASSUME NEW r \in Requests, SendRateLimitMessage(r)
      PROVE  TypeOK'
  BY <1>4 DEF SendRateLimitMessage, TypeOK, KeyType, keyVars, Labels,
              InTransit, Acknowledged
<1>5. ASSUME NEW r \in Requests, HandleRequest(r)
      PROVE  TypeOK'
  BY <1>5, KeyTypes DEF HandleRequest, TypeOK, KeyType, keyVars, Labels,
                        Acknowledged, Declined
<1>6. ASSUME NEW r \in Requests,
             LimiterFails(r) \/ CheckUserFails(r) \/ CheckGlobalFails(r)
      PROVE  TypeOK'
  <2>1. pc' \in [Requests -> Labels] /\ failed' \subseteq Requests
    BY <1>6 DEF LimiterFails, CheckUserFails, CheckGlobalFails, AnswerIsLost,
                ErrorIsCaught, TypeOK, Labels, InTransit
  <2>2. UNCHANGED <<age, registered, exceeded>>
    BY <1>6 DEF LimiterFails, CheckUserFails, CheckGlobalFails, AnswerIsLost,
                ErrorIsCaught
  <2>3. since' \in [Requests -> 0 .. TimeToLive]
    BY <1>6 DEF LimiterFails, CheckUserFails, CheckGlobalFails, TypeOK, Positive
  <2> QED
    BY <2>1, <2>2, <2>3 DEF TypeOK, KeyType
<1>7. ASSUME NEW r \in Requests, CheckUser(r) \/ CheckGlobal(r)
      PROVE  TypeOK'
  <2>1. pc' \in [Requests -> Labels] /\ exceeded' \subseteq Requests
    BY <1>7 DEF CheckUser, CheckGlobal, CheckRateLimit, TypeOK, Labels,
                InTransit
  <2>2. UNCHANGED <<age, registered, failed>>
    BY <1>7 DEF CheckUser, CheckGlobal, CheckRateLimit
  <2>3. since' \in [Requests -> 0 .. TimeToLive]
    BY <1>7 DEF CheckUser, CheckGlobal, TypeOK, Positive
  <2> QED
    BY <2>1, <2>2, <2>3 DEF TypeOK, KeyType
<1> QED
  BY <1>1, <1>2, <1>3, <1>4, <1>5, <1>6, <1>7 DEF Next

\* A user's key is always as old as the last touch by one of the user's
\* requests.
LEMMA QuietStep ==
    ASSUME RateInv, [Next]_vars
    PROVE  QuietUserIsForgotten'
<1> USE DEF RateInv
<1> SUFFICES ASSUME NEW u \in Users, count'[u] > 0
             PROVE  \E r \in Requests :
                      Sender[r] = u /\ since'[r] + ttl'[u] = TimeToLive
  BY DEF QuietUserIsForgotten
<1>0. u \in Keys /\ TimeToLive \in Nat /\ ttl[u] \in Nat /\ u # GlobalKey
  BY DEF Keys, TypeOK, Positive
<1>w. ASSUME count[u] > 0
      PROVE  \E r \in Requests : /\ Sender[r] = u
                                 /\ since[r] + ttl[u] = TimeToLive
  BY <1>w DEF QuietUserIsForgotten
<1>1. CASE UNCHANGED <<keyVars, since>>
  BY <1>1, <1>w DEF keyVars
<1>2. ASSUME NEW r \in Requests, Counting(Sender[r]),
             since' = [since EXCEPT ![r] = 0]
      PROVE  \E q \in Requests :
                Sender[q] = u /\ since'[q] + ttl'[u] = TimeToLive
  <2>1. CASE Sender[r] = u
    <3>1. since'[r] = 0 /\ ttl'[u] = TimeToLive
      BY <1>0, <1>2, <2>1 DEF Counting, IncrAndExpire, TypeOK
    <3> QED
      BY <1>0, <2>1, <3>1
  <2>2. CASE Sender[r] # u
    <3>1. count'[u] = count[u] /\ ttl'[u] = ttl[u]
      BY <1>0, <1>2, <2>2, KeyTypes DEF Counting, IncrAndExpire, TypeOK
    <3>2. PICK q \in Requests : Sender[q] = u /\ since[q] + ttl[u] = TimeToLive
      BY <3>1, <1>w
    <3>3. since'[q] = since[q]
      BY <1>2, <2>2, <3>2 DEF TypeOK
    <3> QED
      BY <3>1, <3>2, <3>3
  <2> QED
    BY <2>1, <2>2
<1>3. CASE Counting(GlobalKey) /\ UNCHANGED since
  <2>1. count'[u] = count[u] /\ ttl'[u] = ttl[u]
    BY <1>0, <1>3, KeyTypes DEF Counting, IncrAndExpire, TypeOK
  <2> QED
    BY <1>3, <2>1, <1>w
<1>4. CASE Tick
  <2>1. /\ ttl'[u] = IF ttl[u] > 0 THEN ttl[u] - 1 ELSE 0
        /\ count'[u] = IF ttl[u] = 1 THEN 0 ELSE count[u]
    BY <1>0, <1>4 DEF Tick
  <2>2. count[u] > 0 /\ ttl[u] # 1
    BY <2>1, <1>0 DEF TypeOK
  <2>3. ttl[u] > 0
    BY <1>0, <2>2 DEF CountersExpire
  <2>4. PICK q \in Requests : Sender[q] = u /\ since[q] + ttl[u] = TimeToLive
    BY <2>2, <1>w
  <2>5. since'[q] = Smaller(since[q] + 1, TimeToLive) /\ since[q] \in Nat
    BY <1>4 DEF Tick, TypeOK
  <2>6. since'[q] = since[q] + 1
    BY <1>0, <2>3, <2>4, <2>5 DEF Smaller
  <2> QED
    BY <1>0, <2>1, <2>3, <2>4, <2>5, <2>6
<1> QED
  BY <1>1, <1>2, <1>3, <1>4, StepKinds

\* RateIInv is inductive.
LEMMA InvStep == RateIInv /\ [Next]_vars => RateIInv'
<1> SUFFICES ASSUME RateIInv, [Next]_vars
             PROVE  RateIInv'
  OBVIOUS
<1>1. TypeOK /\ KeyType /\ \A k \in Keys : KeyOK(k)
  BY InvByKey DEF RateIInv, RateInv, TypeOK, KeyType
<1>2. KeyType' /\ \A k \in Keys : KeyOK(k)'
  <2>1. CASE UNCHANGED <<keyVars, since>>
    BY <1>1, <2>1 DEF keyVars, KeyType, KeyOK, Limit
  <2>2. CASE \E j \in Keys : Counting(j)
    BY <1>1, <2>2, CountingKeepsKeys DEF Counting
  <2>3. CASE Tick
    BY <1>1, <2>3, TickKeepsKeys
  <2> QED
    BY <1>1, <2>1, <2>2, <2>3, StepKinds, KeyTypes
<1>3. TypeOK'
  BY <1>1, <1>2, TypeStep
<1>4. CountersExpire' /\ QuotaIsExact'
  BY <1>2 DEF KeyOK, CountersExpire, QuotaIsExact
<1>5. QuietUserIsForgotten'
  BY QuietStep DEF RateIInv
<1>6. ReportsHeardOnce' /\ ReportsNoted'
  BY DeliveryStep
<1> QED
  BY <1>3, <1>4, <1>5, <1>6 DEF RateInv, RateIInv

-----------------------------------------------------------------------------
\* The rate limiter keeps its counters, their expiry and its verdicts in
\* agreement, whatever the limits and however the requests interleave.
THEOREM RateInvariant == Spec => []RateInv
<1>1. RateIInv => RateInv
  BY DEF RateIInv
<1> QED
  BY <1>1, InitInv, InvStep, PTL DEF Spec

\* Every variable of the limiter keeps its type.
THEOREM RateTypes == Spec => []TypeOK
<1>1. RateInv => TypeOK
  BY DEF RateInv
<1> QED
  BY <1>1, RateInvariant, PTL

\* check_rate_limit never leaves a counter without an expiry: nobody is
\* limited for ever.
THEOREM CountersAlwaysExpire == Spec => []CountersExpire
<1>1. RateInv => CountersExpire
  BY DEF RateInv
<1> QED
  BY <1>1, RateInvariant, PTL

\* check_rate_limit lets past a key exactly as many requests as the limit
\* allows, whatever the interleaving of the requests that count on it.
THEOREM QuotasAreExact == Spec => []QuotaIsExact
<1>1. RateInv => QuotaIsExact
  BY DEF RateInv
<1> QED
  BY <1>1, RateInvariant, PTL

\* A user who sends nothing for TimeToLive has a full quota again.
THEOREM QuietUsersForgotten == Spec => []QuietUserIsForgotten
<1>1. RateInv => QuietUserIsForgotten
  BY DEF RateInv
<1> QED
  BY <1>1, RateInvariant, PTL

\* No report that carries no message, but the parts its handler reads, is
\* delivered a second time.
THEOREM ReportsAreHeardOnce == Spec => []ReportsHeardOnce
<1>1. RateInv => ReportsHeardOnce
  BY DEF RateInv
<1> QED
  BY <1>1, RateInvariant, PTL
=============================================================================
