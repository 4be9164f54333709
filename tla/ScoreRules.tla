------------------------------ MODULE ScoreRules ------------------------------
(***************************************************************************)
(* How one fashion-quiz response changes a score document, and how a score *)
(* is replayed from stored responses: UpdateScore and CreateScore of       *)
(* core/app_client.go with the date helpers of utils/utils.go.             *)
(*                                                                         *)
(* Instants are natural numbers of ticks, TicksPerDay to a UTC day; 0 is   *)
(* Go's zero time.  Points are counted in units of 1/PointUnit, since      *)
(* pointsForResponse is a float64 that is cut off to a whole number only   *)
(* where it stands in for the number of correct answers.                   *)
(***************************************************************************)
EXTENDS Integers, Sequences, SequencesExt

CONSTANTS
  TicksPerDay,   \* ticks in 24 hours
  PointUnit,     \* units in one point
  Word,          \* values of a uint32 counter (2^32 in the code)
  NoTime         \* no usable local_time among the response's properties

ASSUME RulesAssumption ==
  /\ TicksPerDay \in Nat \ {0}
  /\ PointUnit \in Nat \ {0}
  /\ Word \in Nat \ {0, 1}
  /\ NoTime \notin Int

ScoreStreakMultiplier == 2
ScoreStreakMinDays    == 2

Response == [created : Nat, local : Nat \cup {NoTime},
             points : Int, total : Int, correct : Int]

Score == [score : Int, responseCount : 0..(Word - 1), prevDate : Nat,
          currentStreak : 0..(Word - 1), answerCount : 0..(Word - 1),
          correctAnswerCount : 0..(Word - 1)]

EmptyScore == [score |-> 0, responseCount |-> 0, prevDate |-> 0,
               currentStreak |-> 0, answerCount |-> 0, correctAnswerCount |-> 0]

\* A mistake: the counters are of a wider type than the document's.
AddWide(a, b) == a + b

\* uint32 addition
Add(a, b) == (a + b) % Word

Day(t) == t \div TicksPerDay

IsNextDay(current, compare) == Day(compare) = Day(current) + 1

IsPrevOrSameDay(current, compare) == Day(compare) <= Day(current)

Abs(x) == IF x < 0 THEN 0 - x ELSE x

\* The client's local_time counts if it is within 24 hours of the server's clock.
ResponseTime(resp, now) ==
  IF resp.local # NoTime /\ Abs(now - resp.local) < TicksPerDay
  THEN resp.local ELSE resp.created

\* A client that sends no number of correct answers is given its points for one.
CorrectAnswers(resp) ==
  IF resp.correct = 0 /\ resp.points >= 0 THEN resp.points \div PointUnit
                                          ELSE resp.correct

\* A mistake: a missed day keeps the streak instead of starting it again.
NextStreakNoReset(score, t) ==
  IF IsNextDay(score.prevDate, t) \/ score.prevDate = 0
  THEN Add(score.currentStreak, 1) ELSE score.currentStreak

NextStreak(score, t) ==
  CASE IsPrevOrSameDay(score.prevDate, t) -> score.currentStreak
    [] IsNextDay(score.prevDate, t)       -> Add(score.currentStreak, 1)
    [] OTHER                              -> 1

\* A mistake: the bonus starts one day late.
BonusLate(streak) == IF streak > ScoreStreakMinDays THEN ScoreStreakMultiplier ELSE 1

\* A mistake: the bonus grows with the streak.
BonusGrows(streak) == IF streak >= ScoreStreakMinDays THEN streak ELSE 1

Bonus(streak) == IF streak >= ScoreStreakMinDays THEN ScoreStreakMultiplier ELSE 1

UpdateScore(score, resp, now) ==
  LET t      == ResponseTime(resp, now)
      streak == NextStreak(score, t)
  IN  [score              |-> score.score + resp.points * Bonus(streak),
       responseCount      |-> Add(score.responseCount, 1),
       prevDate           |-> t,
       currentStreak      |-> streak,
       answerCount        |-> Add(score.answerCount, resp.total),
       correctAnswerCount |-> Add(score.correctAnswerCount, CorrectAnswers(resp))]

\* A mistake: the loop over the responses starts at 1 instead of 0.
ReplayedLate(responses) == SubSeq(Reverse(responses), 2, Len(responses))

\* GetSurveyResponses sorts by date_created, newest first.
Replayed(responses) == Reverse(responses)

\* The score after each of the responses of a list.
ScoresAfter(list, now) ==
  LET after[i \in 0..Len(list)] ==
        IF i = 0 THEN EmptyScore ELSE UpdateScore(after[i - 1], list[i], now)
  IN  after

\* The score CreateScore builds from all stored responses, oldest first here.
CreateScore(responses, now) ==
  LET list == Replayed(responses)
  IN  ScoresAfter(list, now)[Len(list)]
===============================================================================
