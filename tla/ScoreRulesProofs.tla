--------------------------- MODULE ScoreRulesProofs ----------------------------
(***************************************************************************)
(* What the rules of ScoreRules do to a score, for any lists of responses: *)
(* induction, division by a symbolic divisor, and the replay.              *)
(*                                                                         *)
(* The library's induction theorems have a predicate as a parameter, which *)
(* the provers cannot instantiate; here induction is over a set, from the  *)
(* library's theorem that < is well-founded on the natural numbers.        *)
(***************************************************************************)
EXTENDS ScoreRules, WellFoundedInduction, SequenceTheorems, TLAPS

-------------------------------------------------------------------------------
(* Induction.                                                              *)

\* A set that has 0, and the successor of each number it has, has all.
LEMMA NatSetInduction ==
  ASSUME NEW S, 0 \in S, \A n \in Nat : n \in S => n + 1 \in S
  PROVE  Nat \subseteq S
<1> DEFINE Less == OpToRel(<, Nat)
           Out  == Nat \ S
<1>1. IsWellFoundedOn(Less, Nat)
  BY NatLessThanWellFounded
<1>2. SUFFICES ASSUME Out # {} PROVE FALSE
  OBVIOUS
<1>3. PICK least \in Out : \A n \in Out : <<n, least>> \notin Less
  <2>1. Out \subseteq Nat
    OBVIOUS
  <2> HIDE DEF Less, Out
  <2> QED BY <1>1, <1>2, <2>1, WFMin
<1>4. least \in Nat /\ least # 0
  OBVIOUS
<1>5. <<least - 1, least>> \in Less
  BY <1>4 DEF OpToRel
<1>6. least - 1 \in S
  <2> HIDE DEF Less
  <2> QED BY <1>3, <1>4, <1>5
<1> QED BY <1>4, <1>6

\* The same up to a bound.
LEMMA UpToInduction ==
  ASSUME NEW m \in Nat, NEW S, 0 \in S, \A n \in 0..(m - 1) : n \in S => n + 1 \in S
  PROVE  0..m \subseteq S
<1> DEFINE T == {n \in Nat : n <= m => n \in S}
<1>1. 0 \in T
  OBVIOUS
<1>2. \A n \in Nat : n \in T => n + 1 \in T
  OBVIOUS
<1>3. Nat \subseteq T
  <2> HIDE DEF T
  <2> QED BY <1>1, <1>2, NatSetInduction
<1> QED BY <1>3
-------------------------------------------------------------------------------
(* Division, for a divisor that is no number the provers know.             *)

LEMMA DivMod ==
  ASSUME NEW d \in Nat \ {0}, NEW a \in Int
  PROVE  /\ a \div d \in Int
         /\ a % d \in 0..(d - 1)
         /\ a = d * (a \div d) + (a % d)
BY Z3

LEMMA MultiplesApart ==
  ASSUME NEW d \in Nat \ {0}, NEW p \in Int, NEW q \in Int, p < q
  PROVE  d * p + d <= d * q
<1>1. d * (q - (p + 1)) >= 0
  BY Z3
<1> QED BY <1>1, Z3

LEMMA DivUnique ==
  ASSUME NEW d \in Nat \ {0}, NEW p \in Int, NEW q \in Int,
         NEW r \in 0..(d - 1), NEW s \in 0..(d - 1), d * p + r = d * q + s
  PROVE  p = q /\ r = s
<1>1. ~(p < q)
  BY MultiplesApart, Z3
<1>2. ~(q < p)
  BY MultiplesApart, Z3
<1> QED BY <1>1, <1>2, Z3

\* Cutting off before an addition makes no difference to what is cut off after it.
LEMMA AddMod ==
  ASSUME NEW d \in Nat \ {0}, NEW a \in Int, NEW b \in Int
  PROVE  ((a % d) + b) % d = (a + b) % d
<1> DEFINE x == (a % d) + b
           y == a + b
           p == (x \div d) + (a \div d)
           q == y \div d
           r == x % d
           s == y % d
<1>1. x \in Int /\ y \in Int /\ a \div d \in Int /\ x = y - d * (a \div d)
  BY DivMod
<1>2. /\ x \div d \in Int /\ r \in 0..(d - 1) /\ x = d * (x \div d) + r
      /\ q \in Int /\ s \in 0..(d - 1) /\ y = d * q + s
  <2> HIDE DEF x, y
  <2> QED BY <1>1, DivMod
<1>3. p \in Int /\ d * p + r = d * q + s
  <2> HIDE DEF x, y, q, r, s
  <2> QED BY <1>1, <1>2
<1>4. r = s
  <2> HIDE DEF x, y, p, q, r, s
  <2> QED BY <1>2, <1>3, DivUnique
<1> QED BY <1>4

LEMMA DivMonotone ==
  ASSUME NEW d \in Nat \ {0}, NEW a \in Int, NEW b \in Int, a <= b
  PROVE  a \div d <= b \div d
<1>1. SUFFICES ASSUME b \div d < a \div d PROVE FALSE
  BY DivMod
<1>2. d * (b \div d) + d <= d * (a \div d)
  BY <1>1, DivMod, MultiplesApart
<1>3. /\ d * (b \div d) \in Int /\ d * (a \div d) \in Int
      /\ a = d * (a \div d) + (a % d) /\ b = d * (b \div d) + (b % d)
      /\ a % d \in 0..(d - 1) /\ b % d \in 0..(d - 1)
  BY DivMod
<1> QED BY <1>2, <1>3

LEMMA DivMultiple ==
  ASSUME NEW d \in Nat \ {0}, NEW q \in Int
  PROVE  (d * q) \div d = q
<1>1. d * q \in Int /\ d * q = d * q + 0
  OBVIOUS
<1>2. /\ (d * q) \div d \in Int /\ (d * q) % d \in 0..(d - 1)
      /\ d * q = d * ((d * q) \div d) + ((d * q) % d)
  BY <1>1, DivMod
<1> QED BY <1>1, <1>2, DivUnique

LEMMA SmallMod ==
  ASSUME NEW a \in Nat, a < Word
  PROVE  a % Word = a
<1>1. Word \in Nat \ {0} /\ a \in Int /\ a \in 0..(Word - 1)
  BY RulesAssumption
<1>2. a \div Word \in Int /\ a % Word \in 0..(Word - 1) /\ a = Word * (a \div Word) + (a % Word)
  BY <1>1, DivMod
<1>3. Word * 0 + a = Word * (a \div Word) + (a % Word)
  BY <1>1, <1>2
<1> QED BY <1>1, <1>2, <1>3, DivUnique

\* Days are whole numbers, in the order of their instants.
LEMMA DayType ==
  /\ \A t \in Int : Day(t) \in Int
  /\ \A t \in Nat : Day(t) \in Nat
  /\ \A t, u \in Int : t <= u => Day(t) <= Day(u)
  /\ Day(0) = 0
  /\ \A t \in Int : t >= 2 * TicksPerDay => Day(t) >= 2
<1>1. TicksPerDay \in Nat \ {0}
  BY RulesAssumption
<1>2. \A t \in Int : Day(t) \in Int
  BY <1>1, DivMod DEF Day
<1>3. \A t, u \in Int : t <= u => Day(t) <= Day(u)
  BY <1>1, DivMonotone DEF Day
<1>4. Day(0) = 0
  <2>1. (TicksPerDay * 0) \div TicksPerDay = 0
    BY <1>1, DivMultiple
  <2> QED BY <1>1, <2>1 DEF Day
<1>5. Day(2 * TicksPerDay) = 2
  <2>1. (TicksPerDay * 2) \div TicksPerDay = 2
    BY <1>1, DivMultiple
  <2>2. TicksPerDay * 2 = 2 * TicksPerDay
    BY <1>1
  <2> QED BY <2>1, <2>2 DEF Day
<1>6. \A t \in Int : t >= 2 * TicksPerDay => Day(t) >= 2
  <2>1. 2 * TicksPerDay \in Int
    BY <1>1
  <2> QED BY <1>3, <1>5, <2>1
<1> QED BY <1>2, <1>3, <1>4, <1>6
-------------------------------------------------------------------------------
(* One response.                                                           *)

LEMMA AddType ==
  ASSUME NEW a \in Int, NEW b \in Int
  PROVE  Add(a, b) \in 0..(Word - 1)
<1>1. Word \in Nat \ {0} /\ a + b \in Int
  BY RulesAssumption
<1> QED BY <1>1, DivMod DEF Add

LEMMA AddAtMost ==
  ASSUME NEW a \in Nat, NEW b \in Nat
  PROVE  Add(a, b) <= a + b
<1> DEFINE c == a + b
           q == c \div Word
           r == c % Word
<1>1. Word \in Nat \ {0} /\ c \in Nat
  BY RulesAssumption
<1>2. q \in Int /\ r \in 0..(Word - 1) /\ c = Word * q + r
  <2> HIDE DEF c
  <2> QED BY <1>1, DivMod
<1> HIDE DEF c, q, r
<1>3. ~(q < 0)
  <2>1. SUFFICES ASSUME q < 0 PROVE FALSE
    OBVIOUS
  <2>2. Word * q + Word <= Word * 0
    BY <1>1, <1>2, <2>1, MultiplesApart
  <2>3. Word * q \in Int /\ Word * 0 = 0
    BY <1>1, <1>2
  <2> QED BY <1>1, <1>2, <2>2, <2>3
<1>4. Word * q >= 0 /\ Word * q \in Int
  BY <1>1, <1>2, <1>3, Z3
<1>5. r <= c
  BY <1>1, <1>2, <1>4
<1> QED BY <1>5 DEF c, r, Add

\* Adding within the width gives the sum, cut to the width.
LEMMA AddWord ==
  ASSUME NEW a \in Int, NEW b \in Int
  PROVE  Add(a % Word, b) = (a + b) % Word
BY RulesAssumption, AddMod DEF Add

LEMMA ResponseTimeType ==
  ASSUME NEW resp \in Response, NEW now \in Nat
  PROVE  ResponseTime(resp, now) \in Nat
BY RulesAssumption DEF ResponseTime, Response

LEMMA CorrectAnswersType ==
  ASSUME NEW resp \in Response
  PROVE  CorrectAnswers(resp) \in Int
<1>1. PointUnit \in Nat \ {0} /\ resp.points \in Int /\ resp.correct \in Int
  BY RulesAssumption DEF Response
<1>2. resp.points \div PointUnit \in Int
  BY <1>1, DivMod
<1> QED BY <1>1, <1>2 DEF CorrectAnswers

\* The three cases of a streak exclude each other, and none adds more than a day.
LEMMA NextStreakType ==
  ASSUME NEW score \in Score, NEW t \in Nat
  PROVE  /\ NextStreak(score, t) \in Nat
         /\ NextStreak(score, t) \in 0..(Word - 1)
         /\ NextStreak(score, t) <= score.currentStreak + 1
<1>1. /\ score.prevDate \in Nat /\ score.currentStreak \in 0..(Word - 1)
      /\ Word \in Nat \ {0, 1}
  BY RulesAssumption DEF Score
<1>2. Day(score.prevDate) \in Nat /\ Day(t) \in Nat
  BY <1>1, DayType
<1>3. /\ Add(score.currentStreak, 1) \in 0..(Word - 1)
      /\ Add(score.currentStreak, 1) <= score.currentStreak + 1
  <2>1. score.currentStreak \in Nat /\ score.currentStreak \in Int /\ 1 \in Nat /\ 1 \in Int
    BY <1>1
  <2>2. Add(score.currentStreak, 1) <= score.currentStreak + 1
    BY <2>1, AddAtMost
  <2>3. Add(score.currentStreak, 1) \in 0..(Word - 1)
    BY <2>1, AddType
  <2> QED BY <2>2, <2>3
<1>4. \/ NextStreak(score, t) = score.currentStreak
      \/ NextStreak(score, t) = Add(score.currentStreak, 1)
      \/ NextStreak(score, t) = 1
  BY <1>2 DEF NextStreak, IsPrevOrSameDay, IsNextDay
<1> QED BY <1>1, <1>3, <1>4

LEMMA BonusType ==
  ASSUME NEW streak \in Nat
  PROVE  Bonus(streak) = IF streak >= 2 THEN 2 ELSE 1
BY DEF Bonus, ScoreStreakMultiplier, ScoreStreakMinDays

LEMMA EmptyScoreType == EmptyScore \in Score
BY RulesAssumption DEF EmptyScore, Score

LEMMA UpdateScoreType ==
  ASSUME NEW score \in Score, NEW resp \in Response, NEW now \in Nat
  PROVE  UpdateScore(score, resp, now) \in Score
<1> DEFINE t == ResponseTime(resp, now)
<1>1. t \in Nat /\ CorrectAnswers(resp) \in Int
  BY ResponseTimeType, CorrectAnswersType
<1>2. NextStreak(score, t) \in 0..(Word - 1) /\ NextStreak(score, t) \in Nat
  <2> HIDE DEF t
  <2> QED BY <1>1, NextStreakType
<1>3. Bonus(NextStreak(score, t)) \in {1, 2}
  <2> HIDE DEF t
  <2> QED BY <1>2, BonusType
<1>4. /\ score.score \in Int /\ resp.points \in Int /\ resp.total \in Int
      /\ score.responseCount \in Int /\ score.answerCount \in Int
      /\ score.correctAnswerCount \in Int
  BY RulesAssumption DEF Score, Response
<1>5. score.score + resp.points * Bonus(NextStreak(score, t)) \in Int
  BY <1>3, <1>4
<1>6. /\ Add(score.responseCount, 1) \in 0..(Word - 1)
      /\ Add(score.answerCount, resp.total) \in 0..(Word - 1)
      /\ Add(score.correctAnswerCount, CorrectAnswers(resp)) \in 0..(Word - 1)
  <2>1. 1 \in Int
    OBVIOUS
  <2> QED BY <1>1, <1>4, <2>1, AddType
<1> HIDE DEF t
<1> QED BY <1>1, <1>2, <1>5, <1>6 DEF UpdateScore, Score, t
\* Every response adds its points, doubled in a streak, and to each counter.
LEMMA UpdateScoreEffect ==
  ASSUME NEW score \in Score, NEW resp \in Response, NEW now \in Nat
  PROVE  LET updated == UpdateScore(score, resp, now)
         IN  /\ updated.score = score.score
                                + resp.points * (IF updated.currentStreak >= 2 THEN 2 ELSE 1)
             /\ updated.prevDate = ResponseTime(resp, now)
             /\ updated.currentStreak = NextStreak(score, ResponseTime(resp, now))
             /\ updated.currentStreak <= score.currentStreak + 1
             /\ updated.responseCount = Add(score.responseCount, 1)
             /\ updated.answerCount = Add(score.answerCount, resp.total)
             /\ updated.correctAnswerCount = Add(score.correctAnswerCount, CorrectAnswers(resp))
<1> DEFINE t == ResponseTime(resp, now)
<1>1. t \in Nat
  BY ResponseTimeType
<1> HIDE DEF t
<1>2. NextStreak(score, t) \in Nat /\ NextStreak(score, t) <= score.currentStreak + 1
  BY <1>1, NextStreakType
<1>3. Bonus(NextStreak(score, t)) = IF NextStreak(score, t) >= 2 THEN 2 ELSE 1
  BY <1>2, BonusType
<1> QED BY <1>2, <1>3 DEF UpdateScore, t
-------------------------------------------------------------------------------
(* A list of responses.                                                    *)

\* The recursion of ScoresAfter has a solution, which it therefore is.
LEMMA ScoresAfterDef ==
  ASSUME NEW list, Len(list) \in Nat, NEW now
  PROVE  ScoresAfter(list, now) =
           [i \in 0..Len(list) |->
              IF i = 0 THEN EmptyScore
                       ELSE UpdateScore(ScoresAfter(list, now)[i - 1], list[i], now)]
<1> DEFINE Solves(k, f) ==
             f = [i \in 0..k |-> IF i = 0 THEN EmptyScore
                                          ELSE UpdateScore(f[i - 1], list[i], now)]
           Solved == {k \in Nat : \E f : Solves(k, f)}
<1>1. 0 \in Solved
  <2>1. Solves(0, [i \in 0..0 |-> EmptyScore])
    OBVIOUS
  <2> QED BY <2>1
<1>2. ASSUME NEW k \in Nat, k \in Solved PROVE k + 1 \in Solved
  <2>1. PICK f : Solves(k, f)
    BY <1>2
  <2> DEFINE g == [i \in 0..(k + 1) |-> IF i = k + 1 THEN UpdateScore(f[k], list[i], now)
                                                     ELSE f[i]]
  <2>2. \A i \in 0..(k + 1) :
          g[i] = IF i = 0 THEN EmptyScore ELSE UpdateScore(g[i - 1], list[i], now)
    <3> TAKE i \in 0..(k + 1)
    <3>1. CASE i = k + 1
      BY <3>1
    <3>2. CASE i # k + 1
      <4>1. i \in 0..k /\ g[i] = f[i] /\ (i # 0 => g[i - 1] = f[i - 1])
        BY <3>2
      <4> HIDE DEF g
      <4> QED BY <2>1, <4>1
    <3> QED BY <3>1, <3>2
  <2>3. Solves(k + 1, g)
    BY <2>2
  <2> HIDE DEF g, Solves
  <2> QED BY <2>3
<1>3. Nat \subseteq Solved
  <2> HIDE DEF Solved
  <2> QED BY <1>1, <1>2, NatSetInduction
<1>4. PICK f : Solves(Len(list), f)
  BY <1>3
<1> QED BY <1>4 DEF ScoresAfter

\* A replay goes through the responses from the last to the first, each score being
\* that before it with one more response.
LEMMA Replay ==
  ASSUME NEW responses \in Seq(Response), NEW now \in Nat
  PROVE  LET after == ScoresAfter(Replayed(responses), now)
             last  == Len(responses)
         IN  /\ CreateScore(responses, now) = after[last]
             /\ after[0] = EmptyScore
             /\ \A i \in 1..last :
                  after[i] = UpdateScore(after[i - 1], responses[last - i + 1], now)
             /\ \A i \in 0..last : after[i] \in Score
<1> DEFINE list  == Replayed(responses)
           after == ScoresAfter(list, now)
           last  == Len(responses)
<1>1. last \in Nat /\ responses \in [1..last -> Response]
  BY LenProperties
<1>2. /\ list = [i \in 1..last |-> responses[last - i + 1]]
      /\ list \in [1..last -> Response]
  BY <1>1 DEF Replayed, Reverse
<1>3. Len(list) = last
  BY <1>1, <1>2, IsASeq, LenProperties
<1>4. after = [i \in 0..last |-> IF i = 0 THEN EmptyScore
                                          ELSE UpdateScore(after[i - 1], list[i], now)]
  <2> HIDE DEF list
  <2> QED BY <1>1, <1>3, ScoresAfterDef
<1>5. CreateScore(responses, now) = after[last]
  BY <1>3 DEF CreateScore
<1> HIDE DEF list, after, last
<1>6. after[0] = EmptyScore
  BY <1>1, <1>4
<1>7. \A i \in 1..last :
        /\ responses[last - i + 1] \in Response
        /\ after[i] = UpdateScore(after[i - 1], responses[last - i + 1], now)
  <2> TAKE i \in 1..last
  <2>1. last - i + 1 \in 1..last /\ list[i] = responses[last - i + 1]
    BY <1>1, <1>2
  <2>2. after[i] = UpdateScore(after[i - 1], list[i], now)
    BY <1>1, <1>4
  <2> QED BY <1>1, <2>1, <2>2
<1>8. \A i \in 0..last : after[i] \in Score
  <2> DEFINE Typed == {i \in 0..last : after[i] \in Score}
  <2>1. 0 \in Typed
    BY <1>1, <1>6, EmptyScoreType
  <2>2. \A i \in 0..(last - 1) : i \in Typed => i + 1 \in Typed
    <3> SUFFICES ASSUME NEW i \in 0..(last - 1), after[i] \in Score
                 PROVE  after[i + 1] \in Score
      BY <1>1
    <3>1. i + 1 \in 1..last /\ (i + 1) - 1 = i
      BY <1>1
    <3> QED BY <1>7, <3>1, UpdateScoreType
  <2> HIDE DEF Typed
  <2>3. 0..last \subseteq Typed
    BY <1>1, <2>1, <2>2, UpToInduction
  <2> QED BY <2>3 DEF Typed
<1> QED BY <1>5, <1>6, <1>7, <1>8 DEF list, after, last
===============================================================================
