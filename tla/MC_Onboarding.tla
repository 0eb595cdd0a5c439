---------------------------- MODULE MC_Onboarding ----------------------------
(***************************************************************************)
(* Small instances of Onboarding: messages m1 and m2, profile forms p1 and *)
(* p2, the settings form s, class forms c1, c2 and c3, classes os1 and os2.*)
(***************************************************************************)
EXTENDS Onboarding, TLC

CONSTANTS m1, m2, p1, p2, s, c1, c2, c3, os1, os2

KindOf == [f \in Forms |-> CASE f \in {p1, p2} -> "profile"
                             [] f = s -> "settings"
                             [] OTHER -> "classes"]

\* What the user does, of three ways, each besides m1, p1, c1 and c2: a second
\* profile form, filled in late; a second message, and settings changed later;
\* or a third class form, without which no DELETE ever has to wait.
Others   == {m2, p2, s, c3}
UserDoes == {t \in Others : pc[t] # "idle"} \in {{}, {p2}, {m2}, {s}, {m2, s}, {c3}}
=============================================================================
