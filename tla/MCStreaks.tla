------------------------------- MODULE MCStreaks -------------------------------
(* Instances of Streaks: half-days, clocks half a day or more than a day   *)
(* off, and answers that gain and that cost points.                        *)
EXTENDS Streaks

A(p, t, c) == [points |-> p, total |-> t, correct |-> c]
MCAnswers == {A(3, 7, 0), A(-2, 5, 9)}
MCZones == {-1, 1, 3}

H(travels, unscored, last, most) ==
  [travels |-> travels, unscored |-> unscored, last |-> last, responses |-> most]

\* A user who stays at home and whose responses are all scored, for eight half-days,
\* and one who travels and had responses before there were scores, for four.
MCHistories == {H(FALSE, FALSE, 12, 5), H(TRUE, TRUE, 8, 4)}

\* A user who stays at home and had responses before there were scores.
MCReplayed == {H(FALSE, TRUE, 10, 5)}
===============================================================================
