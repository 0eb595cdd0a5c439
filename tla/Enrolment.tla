------------------------------ MODULE Enrolment ------------------------------
(***************************************************************************)
(* What onboarding promises about one user, without forms, copies or       *)
(* transactions: whoever has registered may choose classes any number of   *)
(* times.  A choice first enters the classes that the user teaches and     *)
(* then, unless it is forgotten, the user's profile, which makes the user  *)
(* active for good.                                                        *)
(***************************************************************************)
CONSTANT Classes

VARIABLES
    state,      \* "absent", "new" or "active"
    taught,     \* classes that the user teaches
    profile,    \* classes that the user's profile shows
    assigned    \* choices that are taught and may still enter the profile

enrolmentVars == <<state, taught, profile, assigned>>

Init == state = "absent" /\ taught = {} /\ profile = {} /\ assigned = {}

Register ==
    /\ state = "absent"
    /\ state' = "new"
    /\ UNCHANGED <<taught, profile, assigned>>

\* What was taught before need not go: two choices may be made at a time.
Assign(C) ==
    /\ state # "absent"
    /\ \E kept \in SUBSET taught : taught' = kept \cup C
    /\ assigned' = assigned \cup {C}
    /\ UNCHANGED <<state, profile>>

\* A choice that the user made before may leave the profile as it is.
Show(C) ==
    /\ C \in assigned
    /\ state' = "active"
    /\ profile' = C \/ (profile # {} /\ profile' = profile)
    /\ assigned' \in {assigned, assigned \ {C}}
    /\ UNCHANGED taught

Forget ==
    /\ assigned' \in SUBSET assigned
    /\ UNCHANGED <<state, taught, profile>>

Next ==
    \/ Register
    \/ \E C \in (SUBSET Classes) \ {{}} : Assign(C) \/ Show(C)
    \/ Forget

Spec == Init /\ [][Next]_enrolmentVars
=============================================================================
