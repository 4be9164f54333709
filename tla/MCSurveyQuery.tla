----------------------------- MODULE MCSurveyQuery -----------------------------
(* SurveyQuery for TLC: drafts with and without dates, some of which tie, and   *)
(* one list for each order that the code has.                                   *)
EXTENDS SurveyQuery, TLC

MCDraft(public, start, end, estimate) ==
  [public |-> public, archived |-> ~public, start |-> start, end |-> end,
   estimate |-> estimate]

MCDrafts ==
  {MCDraft(TRUE, 1, 2, 1), MCDraft(TRUE, NoDate, NoDate, 2), MCDraft(FALSE, 2, 1, 1)}

MCStandings ==
  {[points |-> n, named |-> TRUE] : n \in 0..3} \cup {[points |-> 3, named |-> FALSE]}

MCAll ==
  [public |-> "any", archived |-> "any", completed |-> "any",
   startAfter |-> NoDate, startBefore |-> NoDate, endAfter |-> NoDate, endBefore |-> NoDate,
   of |-> "surveys", sortByDateCreated |-> FALSE, limit |-> 1]

MCQueries ==
  {[MCAll EXCEPT !.public = "yes"],
   [MCAll EXCEPT !.public = "yes", !.completed = "no", !.archived = "no", !.limit = 2],
   [MCAll EXCEPT !.sortByDateCreated = TRUE],
   [MCAll EXCEPT !.endAfter = 2, !.completed = "yes"],
   [MCAll EXCEPT !.startBefore = 1, !.limit = 0],
   [MCAll EXCEPT !.of = "responses"],
   [MCAll EXCEPT !.of = "scores"]}

\* Once there have been changes of kinds that neither sort of property is about,
\* nothing is said of the list any more.
MCSaid ==
  \/ changes \subseteq Inserts(query) \cup Neutral(query)
  \/ changes \subseteq Removes(query) \cup Neutral(query)

MCSymmetry == Permutations(SurveyIds) \cup Permutations(ResponseIds)
===============================================================================
