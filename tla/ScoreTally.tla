------------------------------ MODULE ScoreTally ------------------------------
(***************************************************************************)
(* What a leaderboard score promises: a tally of the quizzes a user has    *)
(* taken.  A quiz enters one tally, once, and never leaves it; a quiz is   *)
(* acknowledged to the client only when some tally holds it.               *)
(***************************************************************************)
EXTENDS Naturals

CONSTANTS Users, Quizzes

VARIABLES tally, acked

Tallied == UNION {tally[u] : u \in Users}

Init == tally = [u \in Users |-> {}] /\ acked = {}

\* Add new quizzes to one user's tally, and acknowledge some that are tallied.
Record(u, new, ack) ==
  /\ new \cap Tallied = {}
  /\ tally' = [tally EXCEPT ![u] = @ \cup new]
  /\ ack \subseteq Tallied \cup new
  /\ acked' = acked \cup ack

Next == \E u \in Users, new, ack \in SUBSET Quizzes : Record(u, new, ack)

Spec == Init /\ [][Next]_<<tally, acked>>
===============================================================================
