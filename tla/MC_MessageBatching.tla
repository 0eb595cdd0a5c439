------------------------ MODULE MC_MessageBatching ------------------------
(***************************************************************************)
(* Small instances of MessageBatching: request c1 carries a command, m1,   *)
(* m2 and m3 carry free text.                                              *)
(***************************************************************************)
EXTENDS MessageBatching, TLC

CONSTANTS u1, m1, m2, m3, c1

\* One user, three messages in a row.
OneUserRequests == {m1, m2, m3}
OneUserSender   == [r \in OneUserRequests |-> u1]

\* One user who types "help" between two messages.
CommandRequests == {m1, m2, c1}
CommandChats    == {m1, m2}
CommandSender   == [r \in CommandRequests |-> u1]

\* The messages of one user are interchangeable.
OneUserSymmetry == Permutations({m1, m2, m3})
=============================================================================
