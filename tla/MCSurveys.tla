------------------------------- MODULE MCSurveys -------------------------------
(* Surveys for TLC: an anonymous or a sensitive survey; users, and request      *)
(* slots, may be swapped in every state without a difference.                   *)
EXTENDS Surveys, TLC

MCKinds ==
  {[anonymous |-> TRUE, sensitive |-> FALSE], [anonymous |-> FALSE, sensitive |-> TRUE]}

MCSymmetry == Permutations(Users) \cup Permutations(Calls)
===============================================================================
