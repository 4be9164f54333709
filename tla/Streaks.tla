-------------------------------- MODULE Streaks --------------------------------
(***************************************************************************)
(* One user's score over the days: responses arrive as time passes, with   *)
(* or without the client's local time, and each is added to the score by   *)
(* the rules of module ScoreRules.  Handlers run one after the other here; *)
(* their interleavings are the subject of module Scores.                   *)
(***************************************************************************)
EXTENDS ScoreRules, FiniteSetsExt

CONSTANTS
  FirstInstant,  \* the server's clock at the start
  Zones,         \* offsets of the client's clock, in ticks
  NoZone,        \* a client that sends no local_time
  NoScore,       \* no score document
  Answers,       \* what the SurveyStats of a response may say
  Histories      \* the kinds of histories that a user may have

\* What may happen in a history: whether the client's offset changes, and whether
\* responses are stored without being scored; and bounds on the server's clock and
\* on the number of responses.
History == [travels : BOOLEAN, unscored : BOOLEAN, last : Nat, responses : Nat]

ASSUME StreaksAssumption ==
  /\ FirstInstant \in Nat
  /\ Zones \subseteq Int
  /\ \A z \in Zones : FirstInstant + z >= 2 * TicksPerDay
  /\ FirstInstant >= 2 * TicksPerDay
  /\ NoZone \notin Int /\ NoScore \notin Score
  /\ Answers \subseteq [points : Int, total : Int, correct : Int]
  /\ Histories \subseteq History

VARIABLES
  history,    \* which kind of history this is
  now,        \* the server's clock
  zone,       \* the client's offset from UTC, or NoZone
  responses,  \* the user's stored responses, oldest first
  score       \* the user's score document

vars == <<history, now, zone, responses, score>>

TypeOK ==
  /\ history \in Histories
  /\ now \in Nat
  /\ zone \in Zones \cup {NoZone}
  /\ responses \in Seq(Response)
  /\ score \in Score \cup {NoScore}
-------------------------------------------------------------------------------
Init ==
  /\ history \in Histories
  /\ now = FirstInstant
  /\ zone \in Zones \cup {NoZone}
  /\ responses = <<>>
  /\ score = NoScore

Tick ==
  /\ now < history.last
  /\ now' = now + 1
  /\ UNCHANGED <<history, zone, responses, score>>

\* The user's device moves to another time zone, or another device is used.
Travel ==
  /\ history.travels
  /\ zone # NoZone
  /\ zone' \in Zones \ {zone}
  /\ UNCHANGED <<history, now, responses, score>>

NewResponse(answer) ==
  [created |-> now, local |-> IF zone = NoZone THEN NoTime ELSE now + zone,
   points |-> answer.points, total |-> answer.total, correct |-> answer.correct]

\* CreateSurveyResponse for a fashion quiz: store the response, then create the
\* score from all stored responses or add this one to it.
Submit(answer) ==
  LET resp == NewResponse(answer)
  IN  /\ Len(responses) < history.responses
      /\ responses' = Append(responses, resp)
      /\ score' = IF score = NoScore THEN CreateScore(responses', now)
                                     ELSE UpdateScore(score, resp, now)
      /\ UNCHANGED <<history, now, zone>>

\* A response stored before there was a score to add it to: by a version of the
\* program without scores, or by a handler that stopped before scoring it.
SubmitUnscored(answer) ==
  /\ history.unscored
  /\ score = NoScore
  /\ Len(responses) < history.responses
  /\ responses' = Append(responses, NewResponse(answer))
  /\ UNCHANGED <<history, now, zone, score>>

\* GetScore: create the score if there is none, and show it.
View ==
  /\ score = NoScore
  /\ score' = CreateScore(responses, now)
  /\ UNCHANGED <<history, now, zone, responses>>

Next ==
  \/ Tick \/ Travel \/ View
  \/ \E answer \in Answers : Submit(answer) \/ SubmitUnscored(answer)

Spec == Init /\ [][Next]_vars
-------------------------------------------------------------------------------
(* Properties.                                                             *)

\* The day on the user's calendar when a response is sent; the server's day if
\* the client tells no time, or one that no time zone can explain.
UserDay(resp) ==
  Day(IF resp.local = NoTime \/ resp.local - resp.created \notin (1 - TicksPerDay)..(TicksPerDay - 1)
      THEN resp.created ELSE resp.local)

DaysUpTo(i) == {UserDay(responses[j]) : j \in 1..i}

\* The number of days in a row, up to the day of response i, with a response.
RunLength(i) ==
  LET last == UserDay(responses[i])
  IN  Max({n \in 1..i : \A k \in 0..(n - 1) : last - k \in DaysUpTo(i)})

\* The streak is the number of days in a row the user has responded on, by the
\* user's own calendar.  It holds for a client that keeps its time zone, as long
\* as every response is scored when it comes.
StreakIsRun ==
  ~history.travels /\ score # NoScore =>
    score.currentStreak = IF responses = <<>> THEN 0 ELSE RunLength(Len(responses))

\* The sums of the first weights of a sequence, and of all.
Sums(weights) ==
  LET sum[i \in 0..Len(weights)] == IF i = 0 THEN 0 ELSE sum[i - 1] + weights[i]
  IN  sum

SumOf(weights) == Sums(weights)[Len(weights)]

\* What responses are worth at least and at most, and with the bonus of their day.
LeastPoints(resp) == resp.points * IF resp.points < 0 THEN 2 ELSE 1

MostPoints(resp) == resp.points * IF resp.points > 0 THEN 2 ELSE 1

\* The correct answers that a response tells, or stands for if it tells none.
AnswersFor(resp) ==
  IF resp.correct = 0 /\ resp.points >= 0 THEN resp.points \div PointUnit ELSE resp.correct

PointsOnDay(i) == responses[i].points * IF RunLength(i) >= 2 THEN 2 ELSE 1

\* The score is the points of all responses, doubled from the second day of each
\* run of days on: no order of responses and days makes it lose or gain any.
ScoreIsSumOfPoints ==
  ~history.travels /\ score # NoScore =>
    score.score = SumOf([i \in 1..Len(responses) |-> PointsOnDay(i)])

\* For a client that travels, a day may come twice and the streak may grow on a day
\* that it has counted, and a replay goes back in time; still no response counts
\* for less than its points or for more than double, and no streak is longer than
\* the responses there are.
PointsBounded ==
  score # NoScore =>
    /\ score.currentStreak <= Len(responses)
    /\ score.score >= SumOf([i \in 1..Len(responses) |-> LeastPoints(responses[i])])
    /\ score.score <= SumOf([i \in 1..Len(responses) |-> MostPoints(responses[i])])

\* However a score came about, by adding responses or by replay, its counters
\* are those of all the user's responses (within the width of a uint32).
CountersComplete ==
  score # NoScore =>
    /\ score.responseCount = Len(responses) % Word
    /\ score.answerCount = SumOf([i \in 1..Len(responses) |-> responses[i].total]) % Word
    /\ score.correctAnswerCount =
         SumOf([i \in 1..Len(responses) |-> AnswersFor(responses[i])]) % Word
===============================================================================
