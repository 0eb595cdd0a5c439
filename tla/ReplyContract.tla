---------------------------- MODULE ReplyContract ----------------------------
(***************************************************************************)
(* What message batching promises the people who write to Twiga, without   *)
(* locks, buffers, prompts or rows: an accepted message is pending until   *)
(* one reply covers it or it is given up.  A reply covers everything its   *)
(* author has pending, so nobody is answered on half of what they wrote;   *)
(* giving up is just as total.                                             *)
(***************************************************************************)
CONSTANTS
    Users,
    Messages,
    Author      \* Author[m] \in Users wrote message m

VARIABLES
    pending,    \* messages waiting for a reply
    answered,   \* messages covered by a reply
    abandoned   \* messages given up because of an error or a restart

contractVars == <<pending, answered, abandoned>>

PendingOf(u) == {m \in pending : Author[m] = u}

Init == pending = {} /\ answered = {} /\ abandoned = {}

Accept(m) ==
    /\ m \notin pending \cup answered \cup abandoned
    /\ pending' = pending \cup {m}
    /\ UNCHANGED <<answered, abandoned>>

Answer(u) ==
    /\ PendingOf(u) # {}
    /\ pending' = pending \ PendingOf(u)
    /\ answered' = answered \cup PendingOf(u)
    /\ UNCHANGED abandoned

\* An error gives up what one user has pending, a restart what anyone has.
Abandon(S) ==
    LET P == UNION {PendingOf(u) : u \in S} IN
    /\ P # {}
    /\ pending' = pending \ P
    /\ abandoned' = abandoned \cup P
    /\ UNCHANGED answered

Settle(u) == Answer(u) \/ \E S \in SUBSET Users : u \in S /\ Abandon(S)

Next ==
    \/ \E m \in Messages : Accept(m)
    \/ \E u \in Users : Answer(u)
    \/ \E S \in SUBSET Users : Abandon(S)

SafeSpec == Init /\ [][Next]_contractVars

\* A message does not stay pending for ever.
Spec == SafeSpec /\ \A u \in Users : WF_contractVars(Settle(u))
=============================================================================
