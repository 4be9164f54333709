------------------------------- MODULE MCScores -------------------------------
(* Instances of Scores for model checking.                                 *)
EXTENDS Scores, TLC

CONSTANTS u1, u2, p1, p2

\* A quiz with stats, naming no profile, an empty one or a profile; a quiz
\* without stats; another survey; a GET with and without a profile id.
FormsOf(u, ids) ==
  LET F(k, q, s, p) == [user |-> u, kind |-> k, quiz |-> q, stats |-> s, profile |-> p]
  IN  {F("post", TRUE, TRUE, p) : p \in ids \cup {Absent}}
      \cup {F("post", TRUE, FALSE, Absent), F("post", FALSE, TRUE, Absent),
            F("get", TRUE, TRUE, NoProfile), F("get", TRUE, TRUE, p1)}

MCForms1 == FormsOf(u1, {NoProfile, p2})
MCForms2 == FormsOf(u1, {NoProfile, p2}) \cup FormsOf(u2, {})
MCForms3 == FormsOf(u1, {}) \cup {[user |-> u2, kind |-> "post",
              quiz |-> TRUE, stats |-> TRUE, profile |-> Absent]}
Symmetry == Permutations(Requests)
===============================================================================
