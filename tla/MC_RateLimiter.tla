--------------------------- MODULE MC_RateLimiter ---------------------------
(***************************************************************************)
(* Small instances of RateLimiter: amina writes a text, a picture and       *)
(* another text, baraka one text; WhatsApp may deliver amina's first text   *)
(* and its report that a message was read twice each.  Its notice of a      *)
(* flow's health lacks a key that the handler reads.                        *)
(***************************************************************************)
EXTENDS RateLimiter, TLC

CONSTANTS amina, baraka, r1, r1again, r2, r3, r4, n1, n1again, f1,
          text1, text2, text3, picture, report, notice

CarriesOf == r1 :> text1 @@ r1again :> text1 @@ r2 :> picture @@ r3 :> text2
               @@ r4 :> text3 @@ n1 :> report @@ n1again :> report
               @@ f1 :> notice
BodyOf == [e \in Events |->
             CASE e = report  -> {"statuses"}
               [] e = notice  -> {"event"}
               [] e = picture -> {"messages", "contacts"}
               [] OTHER       -> {"messages", "contacts", "text"}]
SenderOf == [r \in Requests |-> IF r = r4 THEN baraka ELSE amina]
EventsOf == {CarriesOf[r] : r \in Requests}
CarriesIn == [r \in Requests |-> CarriesOf[r]]

\* Two deliveries of one event are alike.
Repeated == Permutations({r1, r1again}) \cup Permutations({n1, n1again})
=============================================================================
