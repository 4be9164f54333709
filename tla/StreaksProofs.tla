---------------------------- MODULE StreaksProofs -----------------------------
(***************************************************************************)
(* Theorems about Streaks, for histories of any length.                    *)
(***************************************************************************)
EXTENDS Streaks, ScoreRulesProofs

-------------------------------------------------------------------------------
(* Sums.                                                                   *)

\* The recursion of Sums has a solution, which it therefore is.
LEMMA SumsDef ==
  ASSUME NEW w, Len(w) \in Nat
  PROVE  Sums(w) = [i \in 0..Len(w) |-> IF i = 0 THEN 0 ELSE Sums(w)[i - 1] + w[i]]
<1> DEFINE Solves(k, f) == f = [i \in 0..k |-> IF i = 0 THEN 0 ELSE f[i - 1] + w[i]]
           Solved == {k \in Nat : \E f : Solves(k, f)}
<1>1. 0 \in Solved
  <2>1. Solves(0, [i \in 0..0 |-> 0])
    OBVIOUS
  <2> QED BY <2>1
<1>2. ASSUME NEW k \in Nat, k \in Solved PROVE k + 1 \in Solved
  <2>1. PICK f : Solves(k, f)
    BY <1>2
  <2> DEFINE g == [i \in 0..(k + 1) |-> IF i = k + 1 THEN f[k] + w[i] ELSE f[i]]
  <2>2. \A i \in 0..(k + 1) : g[i] = IF i = 0 THEN 0 ELSE g[i - 1] + w[i]
    <3> TAKE i \in 0..(k + 1)
    <3>1. CASE i = k + 1
      BY <3>1
    <3>2. CASE i # k + 1
      <4>1. i \in 0..k /\ g[i] = f[i] /\ (i # 0 => g[i - 1] = f[i - 1])
        BY <3>2
      <4> HIDE DEF g
      <4> QED BY <2>1, <4>1
    <3> QED BY <3>1, <3>2
  <2>3. Solves(k + 1, g)
    BY <2>2
  <2> HIDE DEF g, Solves
  <2> QED BY <2>3
<1>3. Nat \subseteq Solved
  <2> HIDE DEF Solved
  <2> QED BY <1>1, <1>2, NatSetInduction
<1>4. PICK f : Solves(Len(w), f)
  BY <1>3
<1> QED BY <1>4 DEF Sums

LEMMA SumsType ==
  ASSUME NEW n \in Nat, NEW w \in [1..n -> Int]
  PROVE  /\ Len(w) = n /\ SumOf(w) = Sums(w)[n]
         /\ Sums(w)[0] = 0
         /\ \A i \in 1..n : Sums(w)[i] = Sums(w)[i - 1] + w[i]
         /\ \A i \in 0..n : Sums(w)[i] \in Int
<1>1. Len(w) = n
  BY IsASeq, LenProperties
<1> DEFINE s == Sums(w)
<1>2. s = [i \in 0..n |-> IF i = 0 THEN 0 ELSE s[i - 1] + w[i]]
  BY <1>1, SumsDef
<1> HIDE DEF s
<1>3. s[0] = 0 /\ \A i \in 1..n : s[i] = s[i - 1] + w[i]
  BY <1>2
<1>4. \A i \in 0..n : s[i] \in Int
  <2> DEFINE Typed == {i \in 0..n : s[i] \in Int}
  <2>1. 0 \in Typed
    BY <1>3
  <2>2. \A i \in 0..(n - 1) : i \in Typed => i + 1 \in Typed
    <3> SUFFICES ASSUME NEW i \in 0..(n - 1), s[i] \in Int PROVE s[i + 1] \in Int
      OBVIOUS
    <3>1. i + 1 \in 1..n /\ (i + 1) - 1 = i /\ w[i + 1] \in Int
      OBVIOUS
    <3> QED BY <1>3, <3>1
  <2> HIDE DEF Typed
  <2>3. 0..n \subseteq Typed
    BY <2>1, <2>2, UpToInduction
  <2> QED BY <2>3 DEF Typed
<1> QED BY <1>1, <1>3, <1>4 DEF s, SumOf

\* The sums s of the first weights.
IsSums(n, w, s) ==
  /\ s[0] = 0 /\ SumOf(w) = s[n]
  /\ \A i \in 1..n : s[i] = s[i - 1] + w[i]
  /\ \A i \in 0..n : s[i] \in Int

LEMMA SumsAreSums ==
  ASSUME NEW n \in Nat, NEW w \in [1..n -> Int]
  PROVE  IsSums(n, w, Sums(w))
BY SumsType DEF IsSums

\* One more weight adds itself to the sum.
LEMMA SumOfMore ==
  ASSUME NEW n \in Nat, NEW w \in [1..n -> Int], NEW v \in [1..(n + 1) -> Int],
         \A i \in 1..n : v[i] = w[i]
  PROVE  SumOf(v) = SumOf(w) + v[n + 1]
<1> DEFINE s == Sums(w)
           u == Sums(v)
           Same == {i \in 0..n : u[i] = s[i]}
<1>1. IsSums(n, w, s) /\ IsSums(n + 1, v, u)
  <2>1. n + 1 \in Nat
    OBVIOUS
  <2> QED BY <2>1, SumsAreSums
<1> HIDE DEF s, u
<1>2. /\ s[0] = 0 /\ SumOf(w) = s[n] /\ u[0] = 0 /\ SumOf(v) = u[n + 1]
      /\ \A i \in 1..n : s[i] = s[i - 1] + w[i]
      /\ \A i \in 1..(n + 1) : u[i] = u[i - 1] + v[i]
  BY <1>1 DEF IsSums
<1>3. 0 \in Same
  BY <1>2
<1>4. \A i \in 0..(n - 1) : i \in Same => i + 1 \in Same
  <2> SUFFICES ASSUME NEW i \in 0..(n - 1), u[i] = s[i] PROVE u[i + 1] = s[i + 1]
    OBVIOUS
  <2>1. i + 1 \in 1..n /\ i + 1 \in 1..(n + 1) /\ (i + 1) - 1 = i
    OBVIOUS
  <2>2. u[i + 1] = u[i] + v[i + 1] /\ s[i + 1] = s[i] + w[i + 1]
    BY <1>2, <2>1
  <2> QED BY <2>1, <2>2
<1> HIDE DEF Same
<1>5. 0..n \subseteq Same
  BY <1>3, <1>4, UpToInduction
<1>6. u[n] = s[n]
  BY <1>5 DEF Same
<1>7. u[n + 1] = u[n] + v[n + 1]
  <2>1. n + 1 \in 1..(n + 1) /\ (n + 1) - 1 = n
    OBVIOUS
  <2> QED BY <1>2, <2>1
<1> QED BY <1>2, <1>6, <1>7

\* What grows by at least the weights, from the last weight to the first, comes to at
\* least their sum; and so for at most.
LEMMA SumBelow ==
  ASSUME NEW n \in Nat, NEW w \in [1..n -> Int], NEW x, \A i \in 0..n : x[i] \in Int,
         x[0] = 0, \A i \in 1..n : x[i] >= x[i - 1] + w[n - i + 1]
  PROVE  x[n] >= SumOf(w)
<1> DEFINE s == Sums(w)
           Above == {i \in 0..n : x[i] >= s[n] - s[n - i]}
<1>1. /\ s[0] = 0 /\ SumOf(w) = s[n]
      /\ \A i \in 1..n : s[i] = s[i - 1] + w[i]
      /\ \A i \in 0..n : s[i] \in Int
  <2>1. IsSums(n, w, s)
    BY SumsAreSums
  <2> HIDE DEF s
  <2> QED BY <2>1 DEF IsSums
<1> HIDE DEF s
<1>2. 0 \in Above
  BY <1>1
<1>3. \A i \in 0..(n - 1) : i \in Above => i + 1 \in Above
  <2> SUFFICES ASSUME NEW i \in 0..(n - 1), x[i] >= s[n] - s[n - i]
               PROVE  x[i + 1] >= s[n] - s[n - (i + 1)]
    OBVIOUS
  <2> DEFINE j == n - i
  <2>1. /\ j \in 1..n /\ j - 1 \in 0..n /\ n - (i + 1) = j - 1 /\ n - (i + 1) + 1 = j
        /\ i + 1 \in 1..n /\ (i + 1) - 1 = i /\ j \in 0..n /\ n \in 0..n
    OBVIOUS
  <2> HIDE DEF j
  <2>2. x[i + 1] >= x[i] + w[j] /\ s[j] = s[j - 1] + w[j]
    BY <1>1, <2>1
  <2>3. /\ w[j] \in Int /\ s[j] \in Int /\ s[j - 1] \in Int /\ s[n] \in Int
        /\ x[i] \in Int /\ x[i + 1] \in Int
    BY <1>1, <2>1
  <2>4. x[i] >= s[n] - s[j]
    BY DEF j
  <2> DEFINE xi == x[i]
             xj == x[i + 1]
             wj == w[j]
             sj == s[j]
             sk == s[j - 1]
             sn == s[n]
  <2>5. /\ xi \in Int /\ xj \in Int /\ wj \in Int /\ sj \in Int /\ sk \in Int /\ sn \in Int
        /\ xj >= xi + wj /\ sj = sk + wj /\ xi >= sn - sj
    BY <2>2, <2>3, <2>4
  <2>6. xj >= sn - sk
    <3> HIDE DEF xi, xj, wj, sj, sk, sn
    <3> QED BY <2>5
  <2> QED BY <2>1, <2>6
<1> HIDE DEF Above
<1>4. n \in 0..n /\ 0..n \subseteq Above
  <2>1. 0..n \subseteq Above
    BY <1>2, <1>3, UpToInduction
  <2> QED BY <2>1
<1>5. x[n] >= s[n] - s[n - n] /\ n - n = 0
  BY <1>4 DEF Above
<1> QED BY <1>1, <1>4, <1>5

LEMMA SumAbove ==
  ASSUME NEW n \in Nat, NEW w \in [1..n -> Int], NEW x, \A i \in 0..n : x[i] \in Int,
         x[0] = 0, \A i \in 1..n : x[i] <= x[i - 1] + w[n - i + 1]
  PROVE  x[n] <= SumOf(w)
<1> DEFINE s == Sums(w)
           Below == {i \in 0..n : x[i] <= s[n] - s[n - i]}
<1>1. /\ s[0] = 0 /\ SumOf(w) = s[n]
      /\ \A i \in 1..n : s[i] = s[i - 1] + w[i]
      /\ \A i \in 0..n : s[i] \in Int
  <2>1. IsSums(n, w, s)
    BY SumsAreSums
  <2> HIDE DEF s
  <2> QED BY <2>1 DEF IsSums
<1> HIDE DEF s
<1>2. 0 \in Below
  BY <1>1
<1>3. \A i \in 0..(n - 1) : i \in Below => i + 1 \in Below
  <2> SUFFICES ASSUME NEW i \in 0..(n - 1), x[i] <= s[n] - s[n - i]
               PROVE  x[i + 1] <= s[n] - s[n - (i + 1)]
    OBVIOUS
  <2> DEFINE j == n - i
  <2>1. /\ j \in 1..n /\ j - 1 \in 0..n /\ n - (i + 1) = j - 1 /\ n - (i + 1) + 1 = j
        /\ i + 1 \in 1..n /\ (i + 1) - 1 = i /\ j \in 0..n /\ n \in 0..n
    OBVIOUS
  <2> HIDE DEF j
  <2>2. x[i + 1] <= x[i] + w[j] /\ s[j] = s[j - 1] + w[j]
    BY <1>1, <2>1
  <2>3. /\ w[j] \in Int /\ s[j] \in Int /\ s[j - 1] \in Int /\ s[n] \in Int
        /\ x[i] \in Int /\ x[i + 1] \in Int
    BY <1>1, <2>1
  <2>4. x[i] <= s[n] - s[j]
    BY DEF j
  <2> DEFINE xi == x[i]
             xj == x[i + 1]
             wj == w[j]
             sj == s[j]
             sk == s[j - 1]
             sn == s[n]
  <2>5. /\ xi \in Int /\ xj \in Int /\ wj \in Int /\ sj \in Int /\ sk \in Int /\ sn \in Int
        /\ xj <= xi + wj /\ sj = sk + wj /\ xi <= sn - sj
    BY <2>2, <2>3, <2>4
  <2>6. xj <= sn - sk
    <3> HIDE DEF xi, xj, wj, sj, sk, sn
    <3> QED BY <2>5
  <2> QED BY <2>1, <2>6
<1> HIDE DEF Below
<1>4. n \in 0..n /\ 0..n \subseteq Below
  <2>1. 0..n \subseteq Below
    BY <1>2, <1>3, UpToInduction
  <2> QED BY <2>1
<1>5. x[n] <= s[n] - s[n - n] /\ n - n = 0
  BY <1>4 DEF Below
<1> QED BY <1>1, <1>4, <1>5

\* A counter that adds the weights within its width ends up with their sum, cut to it.
LEMMA SumModulo ==
  ASSUME NEW n \in Nat, NEW w \in [1..n -> Int], NEW x,
         x[0] = 0, \A i \in 1..n : x[i] = Add(x[i - 1], w[n - i + 1])
  PROVE  x[n] = SumOf(w) % Word
<1> DEFINE s == Sums(w)
           Equal == {i \in 0..n : x[i] = (s[n] - s[n - i]) % Word}
<1>1. /\ s[0] = 0 /\ SumOf(w) = s[n]
      /\ \A i \in 1..n : s[i] = s[i - 1] + w[i]
      /\ \A i \in 0..n : s[i] \in Int
  <2>1. IsSums(n, w, s)
    BY SumsAreSums
  <2> HIDE DEF s
  <2> QED BY <2>1 DEF IsSums
<1> HIDE DEF s
<1>2. 0 \in Equal
  <2>1. s[n] - s[n - 0] = 0 /\ 0 % Word = 0
    BY <1>1, SmallMod, RulesAssumption
  <2> QED BY <2>1
<1>3. \A i \in 0..(n - 1) : i \in Equal => i + 1 \in Equal
  <2> SUFFICES ASSUME NEW i \in 0..(n - 1), x[i] = (s[n] - s[n - i]) % Word
               PROVE  x[i + 1] = (s[n] - s[n - (i + 1)]) % Word
    OBVIOUS
  <2> DEFINE j == n - i
             a == s[n] - s[j]
  <2>1. /\ j \in 1..n /\ j - 1 \in 0..n /\ n - (i + 1) = j - 1 /\ n - (i + 1) + 1 = j
        /\ i + 1 \in 1..n /\ (i + 1) - 1 = i /\ j \in 0..n /\ n \in 0..n
    OBVIOUS
  <2>2. x[i] = a % Word
    OBVIOUS
  <2> HIDE DEF j
  <2>3. x[i + 1] = Add(x[i], w[j]) /\ s[j] = s[j - 1] + w[j]
    BY <1>1, <2>1
  <2>4. /\ w[j] \in Int /\ s[j] \in Int /\ s[j - 1] \in Int /\ s[n] \in Int
    BY <1>1, <2>1
  <2>6. a \in Int /\ a + w[j] = s[n] - s[j - 1]
    <3> DEFINE wj == w[j]
               sj == s[j]
               sk == s[j - 1]
               sn == s[n]
    <3>1. wj \in Int /\ sj \in Int /\ sk \in Int /\ sn \in Int /\ sj = sk + wj
      BY <2>3, <2>4
    <3>2. sn - sj \in Int /\ (sn - sj) + wj = sn - sk
      <4> HIDE DEF wj, sj, sk, sn
      <4> QED BY <3>1
    <3> QED BY <3>2
  <2> HIDE DEF a
  <2>5. Add(a % Word, w[j]) = (a + w[j]) % Word
    BY <2>4, <2>6, AddWord
  <2> QED BY <2>1, <2>2, <2>3, <2>5, <2>6
<1> HIDE DEF Equal
<1>4. n \in 0..n /\ 0..n \subseteq Equal
  <2>1. 0..n \subseteq Equal
    BY <1>2, <1>3, UpToInduction
  <2> QED BY <2>1
<1>5. x[n] = (s[n] - s[n - n]) % Word /\ n - n = 0
  BY <1>4 DEF Equal
<1>6. s[n] - s[n - n] = s[n]
  BY <1>1, <1>4, <1>5
<1> QED BY <1>1, <1>5, <1>6
-------------------------------------------------------------------------------
(* Points and counters of a score, whatever the order and the clocks.      *)

Least(rs) == [i \in 1..Len(rs) |-> LeastPoints(rs[i])]
Most(rs)  == [i \in 1..Len(rs) |-> MostPoints(rs[i])]

Totals(rs)  == [i \in 1..Len(rs) |-> rs[i].total]
Correct(rs) == [i \in 1..Len(rs) |-> AnswersFor(rs[i])]
Ones(rs)    == [i \in 1..Len(rs) |-> 1]

\* What PointsBounded and CountersComplete say of a score and the responses in it.
Bounded(s, rs) ==
  /\ s.currentStreak <= Len(rs)
  /\ s.score >= SumOf(Least(rs))
  /\ s.score <= SumOf(Most(rs))

Complete(s, rs) ==
  /\ s.responseCount = Len(rs) % Word
  /\ s.answerCount = SumOf(Totals(rs)) % Word
  /\ s.correctAnswerCount = SumOf(Correct(rs)) % Word

LEMMA WeightTypes ==
  ASSUME NEW rs \in Seq(Response)
  PROVE  /\ Len(rs) \in Nat
         /\ Least(rs) \in [1..Len(rs) -> Int] /\ Most(rs) \in [1..Len(rs) -> Int]
         /\ Totals(rs) \in [1..Len(rs) -> Int] /\ Correct(rs) \in [1..Len(rs) -> Int]
         /\ Ones(rs) \in [1..Len(rs) -> Int]
         /\ \A i \in 1..Len(rs) : AnswersFor(rs[i]) = CorrectAnswers(rs[i])
<1>1. Len(rs) \in Nat /\ \A i \in 1..Len(rs) : rs[i] \in Response
  BY LenProperties
<1>2. \A i \in 1..Len(rs) : AnswersFor(rs[i]) = CorrectAnswers(rs[i]) /\ AnswersFor(rs[i]) \in Int
  BY <1>1, CorrectAnswersType DEF AnswersFor, CorrectAnswers
<1>3. \A r \in Response : r.points \in Int /\ r.total \in Int
  BY DEF Response
<1>4. \A r \in Response : LeastPoints(r) \in Int /\ MostPoints(r) \in Int
  BY <1>3 DEF LeastPoints, MostPoints
<1>5. \A i \in 1..Len(rs) : LeastPoints(rs[i]) \in Int /\ MostPoints(rs[i]) \in Int /\ rs[i].total \in Int
  BY <1>1, <1>3, <1>4
<1>6. Least(rs) \in [1..Len(rs) -> Int] /\ Most(rs) \in [1..Len(rs) -> Int]
  BY <1>5, Zenon DEF Least, Most
<1>7. Totals(rs) \in [1..Len(rs) -> Int]
  BY <1>5, Zenon DEF Totals
<1>8. Correct(rs) \in [1..Len(rs) -> Int]
  BY <1>2, Zenon DEF Correct
<1>9. Ones(rs) \in [1..Len(rs) -> Int]
  BY DEF Ones
<1> QED BY <1>1, <1>2, <1>6, <1>7, <1>8, <1>9

\* A response is worth its points or twice its points.
LEMMA PointsBetween ==
  ASSUME NEW resp \in Response, NEW b \in {1, 2}
  PROVE  LeastPoints(resp) <= resp.points * b /\ resp.points * b <= MostPoints(resp)
<1>1. resp.points \in Int
  BY DEF Response
<1> QED BY <1>1 DEF LeastPoints, MostPoints

\* The sums of as many ones as there are responses.
LEMMA SumOfOnes ==
  ASSUME NEW rs \in Seq(Response)
  PROVE  SumOf(Ones(rs)) = Len(rs)
<1> DEFINE n == Len(rs)
           w == Ones(rs)
           s == Sums(w)
           Counted == {i \in 0..n : s[i] = i}
<1>1. n \in Nat /\ w \in [1..n -> Int] /\ \A i \in 1..n : w[i] = 1
  BY WeightTypes DEF Ones
<1>2. s[0] = 0 /\ SumOf(w) = s[n] /\ \A i \in 1..n : s[i] = s[i - 1] + w[i]
  <2> HIDE DEF n, w
  <2> QED BY <1>1, SumsType
<1> HIDE DEF n, w, s
<1>3. 0 \in Counted
  BY <1>1, <1>2
<1>4. \A i \in 0..(n - 1) : i \in Counted => i + 1 \in Counted
  <2> SUFFICES ASSUME NEW i \in 0..(n - 1), s[i] = i PROVE s[i + 1] = i + 1
    BY <1>1
  <2>1. i + 1 \in 1..n /\ (i + 1) - 1 = i
    BY <1>1
  <2> QED BY <1>1, <1>2, <2>1
<1> HIDE DEF Counted
<1>5. 0..n \subseteq Counted
  BY <1>1, <1>3, <1>4, UpToInduction
<1>6. s[n] = n
  BY <1>1, <1>5 DEF Counted
<1> QED BY <1>2, <1>6 DEF n, w

\* A replay of all responses gives each its points, once or twice, and counts all.
LEMMA CreateCounts ==
  ASSUME NEW rs \in Seq(Response), NEW t \in Nat
  PROVE  /\ CreateScore(rs, t) \in Score
         /\ Bounded(CreateScore(rs, t), rs)
         /\ Complete(CreateScore(rs, t), rs)
<1> DEFINE n     == Len(rs)
           after == ScoresAfter(Replayed(rs), t)
<1>1. /\ n \in Nat /\ \A i \in 1..n : rs[i] \in Response
      /\ \A i \in 1..n : AnswersFor(rs[i]) = CorrectAnswers(rs[i])
  BY WeightTypes, LenProperties
<1>2. /\ CreateScore(rs, t) = after[n] /\ after[0] = EmptyScore
      /\ \A i \in 1..n : after[i] = UpdateScore(after[i - 1], rs[n - i + 1], t)
      /\ \A i \in 0..n : after[i] \in Score
  BY Replay
<1> HIDE DEF after
<1>3. ASSUME NEW i \in 1..n
      PROVE  LET resp == rs[n - i + 1]
             IN  /\ after[i].score >= after[i - 1].score + LeastPoints(resp)
                 /\ after[i].score <= after[i - 1].score + MostPoints(resp)
                 /\ after[i].currentStreak <= after[i - 1].currentStreak + 1
                 /\ after[i].responseCount = Add(after[i - 1].responseCount, 1)
                 /\ after[i].answerCount = Add(after[i - 1].answerCount, resp.total)
                 /\ after[i].correctAnswerCount =
                      Add(after[i - 1].correctAnswerCount, AnswersFor(resp))
  <2> DEFINE resp == rs[n - i + 1]
             old  == after[i - 1]
             new  == after[i]
             b    == IF new.currentStreak >= 2 THEN 2 ELSE 1
  <2>1. n - i + 1 \in 1..n /\ i - 1 \in 0..n /\ i \in 0..n
    BY <1>1
  <2>2. resp \in Response /\ old \in Score /\ new \in Score /\ new = UpdateScore(old, resp, t)
    BY <1>1, <1>2, <2>1
  <2>3. AnswersFor(resp) = CorrectAnswers(resp)
    BY <1>1, <2>1
  <2> HIDE DEF resp, old, new
  <2>4. /\ new.score = old.score + resp.points * b
        /\ new.currentStreak <= old.currentStreak + 1
        /\ new.responseCount = Add(old.responseCount, 1)
        /\ new.answerCount = Add(old.answerCount, resp.total)
        /\ new.correctAnswerCount = Add(old.correctAnswerCount, AnswersFor(resp))
    BY <2>2, <2>3, UpdateScoreEffect
  <2>5. LeastPoints(resp) <= resp.points * b /\ resp.points * b <= MostPoints(resp)
    BY <2>2, PointsBetween
  <2>6. /\ old.score \in Int /\ new.score \in Int /\ resp.points * b \in Int
        /\ LeastPoints(resp) \in Int /\ MostPoints(resp) \in Int
    <3>1. old.score \in Int /\ new.score \in Int
      BY <2>2 DEF Score
    <3>2. resp.points \in Int
      BY <2>2 DEF Response
    <3>3. resp.points * b \in Int /\ LeastPoints(resp) \in Int /\ MostPoints(resp) \in Int
      BY <3>2 DEF LeastPoints, MostPoints
    <3> QED BY <3>1, <3>3
  <2> HIDE DEF b
  <2>7. new.score >= old.score + LeastPoints(resp) /\ new.score <= old.score + MostPoints(resp)
    BY <2>4, <2>5, <2>6
  <2> QED BY <2>4, <2>7 DEF resp, old, new
<1>4. /\ EmptyScore.score = 0 /\ EmptyScore.currentStreak = 0 /\ EmptyScore.responseCount = 0
      /\ EmptyScore.answerCount = 0 /\ EmptyScore.correctAnswerCount = 0
  BY DEF EmptyScore
<1>5. /\ Least(rs) \in [1..n -> Int] /\ Most(rs) \in [1..n -> Int]
      /\ Totals(rs) \in [1..n -> Int] /\ Correct(rs) \in [1..n -> Int]
      /\ Ones(rs) \in [1..n -> Int]
  BY WeightTypes
<1>6. \A i \in 1..n : n - i + 1 \in 1..n
  BY <1>1
<1>7. after[n].score >= SumOf(Least(rs))
  <2> DEFINE x == [i \in 0..n |-> after[i].score]
             w == Least(rs)
  <2>1. \A i \in 0..n : x[i] \in Int
    BY <1>2 DEF Score
  <2>2. x[0] = 0 /\ \A i \in 1..n : x[i] >= x[i - 1] + w[n - i + 1]
    BY <1>1, <1>2, <1>3, <1>4, <1>6 DEF Least
  <2>3. x[n] = after[n].score
    BY <1>1
  <2> HIDE DEF x, w
  <2>4. x[n] >= SumOf(w)
    BY <1>1, <1>5, <2>1, <2>2, SumBelow DEF w
  <2> QED BY <2>3, <2>4 DEF w
<1>8. after[n].score <= SumOf(Most(rs))
  <2> DEFINE x == [i \in 0..n |-> after[i].score]
             w == Most(rs)
  <2>1. \A i \in 0..n : x[i] \in Int
    BY <1>2 DEF Score
  <2>2. x[0] = 0 /\ \A i \in 1..n : x[i] <= x[i - 1] + w[n - i + 1]
    BY <1>1, <1>2, <1>3, <1>4, <1>6 DEF Most
  <2>3. x[n] = after[n].score
    BY <1>1
  <2> HIDE DEF x, w
  <2>4. x[n] <= SumOf(w)
    BY <1>1, <1>5, <2>1, <2>2, SumAbove DEF w
  <2> QED BY <2>3, <2>4 DEF w
<1>9. after[n].currentStreak <= n
  <2> DEFINE x == [i \in 0..n |-> after[i].currentStreak]
             w == Ones(rs)
  <2>1. \A i \in 0..n : x[i] \in Int
    BY <1>2, RulesAssumption DEF Score
  <2>2. x[0] = 0 /\ \A i \in 1..n : x[i] <= x[i - 1] + w[n - i + 1]
    <3>1. x[0] = 0
      BY <1>1, <1>2, <1>4
    <3>2. ASSUME NEW i \in 1..n PROVE x[i] <= x[i - 1] + w[n - i + 1]
      <4>1. w[n - i + 1] = 1
        BY <1>6 DEF Ones
      <4>2. x[i] = after[i].currentStreak /\ x[i - 1] = after[i - 1].currentStreak
        BY <1>1
      <4>3. after[i].currentStreak <= after[i - 1].currentStreak + 1
        BY <1>3
      <4> HIDE DEF x, w
      <4> QED BY <4>1, <4>2, <4>3
    <3> QED BY <3>1, <3>2
  <2>3. x[n] = after[n].currentStreak
    BY <1>1
  <2> HIDE DEF x, w
  <2>4. x[n] <= SumOf(w)
    BY <1>1, <1>5, <2>1, <2>2, SumAbove DEF w
  <2> QED BY <2>3, <2>4, SumOfOnes DEF w
<1>10. after[n].responseCount = n % Word
  <2> DEFINE x == [i \in 0..n |-> after[i].responseCount]
             w == Ones(rs)
  <2>1. x[0] = 0 /\ \A i \in 1..n : x[i] = Add(x[i - 1], w[n - i + 1])
    BY <1>1, <1>2, <1>3, <1>4, <1>6 DEF Ones
  <2>2. x[n] = after[n].responseCount
    BY <1>1
  <2> HIDE DEF x, w
  <2>3. x[n] = SumOf(w) % Word
    BY <1>1, <1>5, <2>1, SumModulo DEF w
  <2> QED BY <2>2, <2>3, SumOfOnes DEF w
<1>11. after[n].answerCount = SumOf(Totals(rs)) % Word
  <2> DEFINE x == [i \in 0..n |-> after[i].answerCount]
             w == Totals(rs)
  <2>1. x[0] = 0 /\ \A i \in 1..n : x[i] = Add(x[i - 1], w[n - i + 1])
    BY <1>1, <1>2, <1>3, <1>4, <1>6 DEF Totals
  <2>2. x[n] = after[n].answerCount
    BY <1>1
  <2> HIDE DEF x, w
  <2>3. x[n] = SumOf(w) % Word
    BY <1>1, <1>5, <2>1, SumModulo DEF w
  <2> QED BY <2>2, <2>3 DEF w
<1>12. after[n].correctAnswerCount = SumOf(Correct(rs)) % Word
  <2> DEFINE x == [i \in 0..n |-> after[i].correctAnswerCount]
             w == Correct(rs)
  <2>1. x[0] = 0 /\ \A i \in 1..n : x[i] = Add(x[i - 1], w[n - i + 1])
    BY <1>1, <1>2, <1>3, <1>4, <1>6 DEF Correct
  <2>2. x[n] = after[n].correctAnswerCount
    BY <1>1
  <2> HIDE DEF x, w
  <2>3. x[n] = SumOf(w) % Word
    BY <1>1, <1>5, <2>1, SumModulo DEF w
  <2> QED BY <2>2, <2>3 DEF w
<1>13. after[n] \in Score
  BY <1>1, <1>2
<1> QED BY <1>2, <1>7, <1>8, <1>9, <1>10, <1>11, <1>12, <1>13 DEF Bounded, Complete

\* So does adding one more response to a score that has all those before it.
LEMMA UpdateCounts ==
  ASSUME NEW rs \in Seq(Response), NEW resp \in Response, NEW t \in Nat,
         NEW s \in Score, Bounded(s, rs), Complete(s, rs)
  PROVE  /\ UpdateScore(s, resp, t) \in Score
         /\ Bounded(UpdateScore(s, resp, t), Append(rs, resp))
         /\ Complete(UpdateScore(s, resp, t), Append(rs, resp))
<1> DEFINE n   == Len(rs)
           all == Append(rs, resp)
           new == UpdateScore(s, resp, t)
           b   == IF new.currentStreak >= 2 THEN 2 ELSE 1
<1>1. /\ n \in Nat /\ all \in Seq(Response) /\ Len(all) = n + 1 /\ all[n + 1] = resp
      /\ \A i \in 1..n : all[i] = rs[i] /\ rs[i] \in Response
      /\ AnswersFor(resp) = CorrectAnswers(resp)
  BY AppendProperties, LenProperties DEF AnswersFor, CorrectAnswers
<1> HIDE DEF all
<1>2. /\ Least(rs) \in [1..n -> Int] /\ Most(rs) \in [1..n -> Int]
      /\ Totals(rs) \in [1..n -> Int] /\ Correct(rs) \in [1..n -> Int]
      /\ Least(all) \in [1..(n + 1) -> Int] /\ Most(all) \in [1..(n + 1) -> Int]
      /\ Totals(all) \in [1..(n + 1) -> Int] /\ Correct(all) \in [1..(n + 1) -> Int]
  BY <1>1, WeightTypes
<1>3. /\ new \in Score
      /\ new.score = s.score + resp.points * b
      /\ new.currentStreak <= s.currentStreak + 1
      /\ new.responseCount = Add(s.responseCount, 1)
      /\ new.answerCount = Add(s.answerCount, resp.total)
      /\ new.correctAnswerCount = Add(s.correctAnswerCount, AnswersFor(resp))
  <2>1. /\ new.score = s.score + resp.points * b
        /\ new.currentStreak <= s.currentStreak + 1
        /\ new.responseCount = Add(s.responseCount, 1)
        /\ new.answerCount = Add(s.answerCount, resp.total)
        /\ new.correctAnswerCount = Add(s.correctAnswerCount, CorrectAnswers(resp))
    BY UpdateScoreEffect
  <2>2. new \in Score
    BY UpdateScoreType
  <2> HIDE DEF new
  <2> QED BY <1>1, <2>1, <2>2
<1> HIDE DEF new
<1>4. \A i \in 1..n : i \in 1..Len(all) /\ i \in 1..Len(rs) /\ all[i] = rs[i]
  BY <1>1
<1>5. n + 1 \in 1..Len(all)
  BY <1>1
<1>6. SumOf(Least(all)) = SumOf(Least(rs)) + LeastPoints(resp)
  <2>1. /\ \A i \in 1..n : Least(all)[i] = Least(rs)[i]
        /\ Least(all)[n + 1] = LeastPoints(resp)
    BY <1>1, <1>4, <1>5 DEF Least
  <2> QED BY <1>1, <1>2, <2>1, SumOfMore
<1>7. SumOf(Most(all)) = SumOf(Most(rs)) + MostPoints(resp)
  <2>1. /\ \A i \in 1..n : Most(all)[i] = Most(rs)[i]
        /\ Most(all)[n + 1] = MostPoints(resp)
    BY <1>1, <1>4, <1>5 DEF Most
  <2> QED BY <1>1, <1>2, <2>1, SumOfMore
<1>8. SumOf(Totals(all)) = SumOf(Totals(rs)) + resp.total
  <2>1. /\ \A i \in 1..n : Totals(all)[i] = Totals(rs)[i]
        /\ Totals(all)[n + 1] = resp.total
    BY <1>1, <1>4, <1>5 DEF Totals
  <2> QED BY <1>1, <1>2, <2>1, SumOfMore
<1>9. SumOf(Correct(all)) = SumOf(Correct(rs)) + AnswersFor(resp)
  <2>1. /\ \A i \in 1..n : Correct(all)[i] = Correct(rs)[i]
        /\ Correct(all)[n + 1] = AnswersFor(resp)
    BY <1>1, <1>4, <1>5 DEF Correct
  <2> QED BY <1>1, <1>2, <2>1, SumOfMore
<1>10. /\ SumOf(Least(rs)) \in Int /\ SumOf(Most(rs)) \in Int
       /\ SumOf(Totals(rs)) \in Int /\ SumOf(Correct(rs)) \in Int
  <2>1. \A w \in [1..n -> Int] : SumOf(w) \in Int
    <3> TAKE w \in [1..n -> Int]
    <3>1. SumOf(w) = Sums(w)[n] /\ \A i \in 0..n : Sums(w)[i] \in Int
      BY <1>1, SumsType
    <3> QED BY <1>1, <3>1
  <2> QED BY <1>2, <2>1
<1>11. Bounded(new, all)
  <2>1. /\ s.score \in Int /\ new.score \in Int
        /\ s.currentStreak \in Int /\ new.currentStreak \in Int
    BY <1>3, RulesAssumption DEF Score
  <2>2. resp.points \in Int
    BY DEF Response
  <2>3. /\ resp.points * b \in Int /\ LeastPoints(resp) \in Int /\ MostPoints(resp) \in Int
        /\ LeastPoints(resp) <= resp.points * b /\ resp.points * b <= MostPoints(resp)
    BY <2>2, PointsBetween DEF LeastPoints, MostPoints
  <2>4. /\ s.currentStreak <= n
        /\ s.score >= SumOf(Least(rs)) /\ s.score <= SumOf(Most(rs))
    BY DEF Bounded
  <2> DEFINE extra == resp.points * b
  <2>5. /\ new.score = s.score + extra
        /\ extra \in Int /\ LeastPoints(resp) <= extra /\ extra <= MostPoints(resp)
    BY <1>3, <2>3
  <2> HIDE DEF b, extra
  <2>6. new.currentStreak <= Len(all)
    BY <1>1, <1>3, <2>1, <2>4
  <2>7. new.score >= SumOf(Least(all))
    BY <1>6, <1>10, <2>1, <2>3, <2>4, <2>5
  <2>8. new.score <= SumOf(Most(all))
    BY <1>7, <1>10, <2>1, <2>3, <2>4, <2>5
  <2> QED BY <2>6, <2>7, <2>8 DEF Bounded
<1>12. Complete(new, all)
  <2>1. resp.total \in Int /\ AnswersFor(resp) \in Int /\ n \in Int /\ 1 \in Int
    BY <1>1, CorrectAnswersType DEF Response
  <2>2. /\ s.responseCount = n % Word /\ s.answerCount = SumOf(Totals(rs)) % Word
        /\ s.correctAnswerCount = SumOf(Correct(rs)) % Word
    BY DEF Complete
  <2>3. /\ Add(n % Word, 1) = (n + 1) % Word
        /\ Add(SumOf(Totals(rs)) % Word, resp.total) = (SumOf(Totals(rs)) + resp.total) % Word
        /\ Add(SumOf(Correct(rs)) % Word, AnswersFor(resp)) =
             (SumOf(Correct(rs)) + AnswersFor(resp)) % Word
    BY <1>10, <2>1, AddWord
  <2> QED BY <1>1, <1>3, <1>8, <1>9, <2>2, <2>3 DEF Complete
<1> QED BY <1>3, <1>11, <1>12 DEF new, all
-------------------------------------------------------------------------------
(* The invariant.                                                          *)

StreaksInv ==
  /\ TypeOK
  /\ now >= FirstInstant
  /\ PointsBounded
  /\ CountersComplete

\* A response of now is one the rules can work with.
LEMMA NewResponseType ==
  ASSUME TypeOK, now >= FirstInstant, NEW answer \in Answers
  PROVE  NewResponse(answer) \in Response
<1>1. now \in Nat /\ FirstInstant \in Nat /\ TicksPerDay \in Nat
  BY StreaksAssumption, RulesAssumption DEF TypeOK
<1>2. zone # NoZone => now + zone \in Nat
  BY <1>1, StreaksAssumption DEF TypeOK
<1>3. answer.points \in Int /\ answer.total \in Int /\ answer.correct \in Int
  BY StreaksAssumption
<1> QED BY <1>1, <1>2, <1>3 DEF NewResponse, Response

LEMMA InvMeaning ==
  /\ PointsBounded <=> (score # NoScore => Bounded(score, responses))
  /\ CountersComplete <=> (score # NoScore => Complete(score, responses))
BY DEF PointsBounded, CountersComplete, Bounded, Complete, Least, Most, Totals, Correct

LEMMA InvMeaningNext ==
  /\ PointsBounded' <=> (score' # NoScore => Bounded(score', responses'))
  /\ CountersComplete' <=> (score' # NoScore => Complete(score', responses'))
<1>1. (/\ PointsBounded <=> (score # NoScore => Bounded(score, responses))
       /\ CountersComplete <=> (score # NoScore => Complete(score, responses)))'
  BY InvMeaning, PTL
<1> QED BY <1>1

LEMMA StreaksInit == Init => StreaksInv
BY StreaksAssumption DEF Init, StreaksInv, TypeOK, PointsBounded, CountersComplete

LEMMA StreaksStep == StreaksInv /\ [Next]_vars => StreaksInv'
<1> SUFFICES ASSUME StreaksInv, [Next]_vars PROVE StreaksInv'
  OBVIOUS
<1>1. TypeOK /\ now >= FirstInstant /\ now \in Nat /\ FirstInstant \in Nat
  BY StreaksAssumption DEF StreaksInv, TypeOK
<1>2. score # NoScore => score \in Score /\ Bounded(score, responses) /\ Complete(score, responses)
  BY InvMeaning DEF StreaksInv, TypeOK
<1>3. SUFFICES /\ TypeOK' /\ now' >= FirstInstant
               /\ score' # NoScore => Bounded(score', responses') /\ Complete(score', responses')
  BY InvMeaningNext DEF StreaksInv
<1>4. CASE Tick
  BY <1>1, <1>2, <1>4 DEF Tick, TypeOK
<1>5. CASE Travel
  BY <1>1, <1>2, <1>5 DEF Travel, TypeOK
<1>6. CASE View
  <2>1. CreateScore(responses, now) \in Score /\ Bounded(CreateScore(responses, now), responses)
        /\ Complete(CreateScore(responses, now), responses)
    BY <1>1, CreateCounts DEF TypeOK
  <2> QED BY <1>1, <1>6, <2>1 DEF View, TypeOK
<1>7. ASSUME NEW answer \in Answers, Submit(answer)
      PROVE  /\ TypeOK' /\ now' >= FirstInstant
             /\ score' # NoScore => Bounded(score', responses') /\ Complete(score', responses')
  <2> DEFINE resp == NewResponse(answer)
             all  == Append(responses, resp)
  <2>1. resp \in Response /\ responses \in Seq(Response)
    BY <1>1, NewResponseType DEF TypeOK
  <2>2. all \in Seq(Response)
    BY <2>1
  <2>3. /\ responses' = all
        /\ score' = IF score = NoScore THEN CreateScore(all, now)
                                       ELSE UpdateScore(score, resp, now)
        /\ history' = history /\ now' = now /\ zone' = zone
    BY <1>7 DEF Submit
  <2> HIDE DEF resp
  <2>4. score' \in Score /\ Bounded(score', responses') /\ Complete(score', responses')
    <3>1. CASE score = NoScore
      <4> HIDE DEF all
      <4> QED BY <1>1, <2>2, <2>3, <3>1, CreateCounts
    <3>2. CASE score # NoScore
      BY <1>1, <1>2, <2>1, <2>3, <3>2, UpdateCounts
    <3> QED BY <3>1, <3>2
  <2> QED BY <1>1, <2>2, <2>3, <2>4 DEF TypeOK
<1>8. ASSUME NEW answer \in Answers, SubmitUnscored(answer)
      PROVE  /\ TypeOK' /\ now' >= FirstInstant
             /\ score' # NoScore => Bounded(score', responses') /\ Complete(score', responses')
  <2>1. NewResponse(answer) \in Response /\ responses \in Seq(Response)
    BY <1>1, NewResponseType DEF TypeOK
  <2>2. Append(responses, NewResponse(answer)) \in Seq(Response)
    BY <2>1
  <2> QED BY <1>1, <1>8, <2>2 DEF SubmitUnscored, TypeOK
<1>9. CASE UNCHANGED vars
  BY <1>1, <1>2, <1>9 DEF vars, TypeOK
<1> QED BY <1>4, <1>5, <1>6, <1>7, <1>8, <1>9 DEF Next

LEMMA StreaksInvariant == Spec => []StreaksInv
BY StreaksInit, StreaksStep, PTL DEF Spec

\* Type correctness of the clocks, the responses and the score of UpdateScore and
\* CreateScore, whose counters are a uint32.
THEOREM StreaksTypeCorrect == Spec => []TypeOK
<1>1. StreaksInv => TypeOK
  BY DEF StreaksInv
<1> QED BY <1>1, StreaksInvariant, PTL

\* However clients travel, and whether responses are added by UpdateScore or replayed
\* by CreateScore, each counts for its points, once or twice.
THEOREM PointsStayBounded == Spec => []PointsBounded
<1>1. StreaksInv => PointsBounded
  BY DEF StreaksInv
<1> QED BY <1>1, StreaksInvariant, PTL

\* The counters of UpdateScore are those of all responses, within their width.
THEOREM CountersStayComplete == Spec => []CountersComplete
<1>1. StreaksInv => CountersComplete
  BY DEF StreaksInv
<1> QED BY <1>1, StreaksInvariant, PTL
-------------------------------------------------------------------------------
(* A user who keeps the time zone and has every response scored.           *)

\* Histories without travel have all responses scored, and fewer than a streak can count.
HomeIsScored == \A h \in Histories : h.travels \/ (~h.unscored /\ h.responses < Word)

\* What the client's clock adds to the server's for the rules.
Shift == IF zone = NoZone \/ zone \notin (1 - TicksPerDay)..(TicksPerDay - 1) THEN 0 ELSE zone

\* The n days up to that of response i have responses, and the day before has none.
IsRun(i, n) ==
  /\ n \in 1..i
  /\ \A k \in 0..(n - 1) : UserDay(responses[i]) - k \in DaysUpTo(i)
  /\ UserDay(responses[i]) - n \notin DaysUpTo(i)

\* The score is that of the last response's day, counts a run that ends on it, and has
\* the points of each response with the bonus of its day.
AtHome ==
  ~history.travels =>
    /\ Len(responses) <= history.responses
    /\ \A i \in 1..Len(responses) : /\ responses[i].created <= now
                                    /\ responses[i].created <= responses[Len(responses)].created
                                    /\ UserDay(responses[i]) = Day(responses[i].created + Shift)
    /\ score = NoScore => responses = <<>>
    /\ score # NoScore /\ responses = <<>> => score = EmptyScore
    /\ score # NoScore /\ responses # <<>> =>
         /\ Day(score.prevDate) = UserDay(responses[Len(responses)])
         /\ IsRun(Len(responses), score.currentStreak)
    /\ score # NoScore => score.score = SumOf([i \in 1..Len(responses) |-> PointsOnDay(i)])

HomeInv == HomeIsScored /\ TypeOK /\ now >= FirstInstant /\ AtHome

\* Instants of responses have whole days, which move with the clock.
LEMMA HomeDays ==
  ASSUME TypeOK, now >= FirstInstant
  PROVE  /\ Shift \in Int /\ now + Shift \in Nat /\ now + Shift >= 2 * TicksPerDay
         /\ \A i \in 1..Len(responses) :
              responses[i].created \in Nat /\ Day(responses[i].created + Shift) \in Int
         /\ \A i \in 1..Len(responses) : responses[i].created <= now =>
              Day(responses[i].created + Shift) <= Day(now + Shift)
         /\ \A i, j \in 1..Len(responses) : responses[i].created <= responses[j].created =>
              Day(responses[i].created + Shift) <= Day(responses[j].created + Shift)
<1>1. /\ now \in Nat /\ FirstInstant \in Nat /\ TicksPerDay \in Nat \ {0}
      /\ FirstInstant >= 2 * TicksPerDay
      /\ zone # NoZone => zone \in Int /\ FirstInstant + zone >= 2 * TicksPerDay
  BY StreaksAssumption, RulesAssumption DEF TypeOK
<1>2. Shift \in Int /\ FirstInstant + Shift >= 2 * TicksPerDay
  BY <1>1 DEF Shift
<1>3. 2 * TicksPerDay \in Nat
  BY <1>1
<1>4. now + Shift \in Nat /\ now + Shift >= 2 * TicksPerDay
  BY <1>1, <1>2, <1>3
<1>5. \A i \in 1..Len(responses) : responses[i].created \in Nat
  <2>1. \A i \in 1..Len(responses) : responses[i] \in Response
    BY LenProperties DEF TypeOK
  <2> QED BY <2>1 DEF Response
<1>6. ASSUME NEW i \in 1..Len(responses)
      PROVE  Day(responses[i].created + Shift) \in Int
  <2> DEFINE t == responses[i].created + Shift
  <2>1. t \in Int
    BY <1>2, <1>5
  <2> HIDE DEF t
  <2>2. Day(t) \in Int
    BY <2>1, DayType
  <2> QED BY <2>2 DEF t
<1>7. ASSUME NEW i \in 1..Len(responses), responses[i].created <= now
      PROVE  Day(responses[i].created + Shift) <= Day(now + Shift)
  <2> DEFINE t == responses[i].created + Shift
             u == now + Shift
  <2>1. t \in Int /\ u \in Int /\ t <= u
    BY <1>1, <1>2, <1>5, <1>7
  <2> HIDE DEF t, u
  <2>2. Day(t) <= Day(u)
    BY <2>1, DayType
  <2> QED BY <2>2 DEF t, u
<1>8. ASSUME NEW i \in 1..Len(responses), NEW j \in 1..Len(responses),
             responses[i].created <= responses[j].created
      PROVE  Day(responses[i].created + Shift) <= Day(responses[j].created + Shift)
  <2> DEFINE t == responses[i].created + Shift
             u == responses[j].created + Shift
  <2>1. t \in Int /\ u \in Int /\ t <= u
    BY <1>2, <1>5, <1>8
  <2> HIDE DEF t, u
  <2>2. Day(t) <= Day(u)
    BY <2>1, DayType
  <2> QED BY <2>2 DEF t, u
<1> QED BY <1>2, <1>4, <1>5, <1>6, <1>7, <1>8

\* The rules take a response of a client at home for one of the user's day.
LEMMA NewResponseDay ==
  ASSUME TypeOK, now >= FirstInstant, NEW answer \in Answers
  PROVE  LET resp == NewResponse(answer)
         IN  /\ UserDay(resp) = Day(now + Shift)
             /\ ResponseTime(resp, now) = now + Shift
             /\ resp.created = now
<1>1. /\ now \in Nat /\ TicksPerDay \in Nat \ {0} /\ NoTime \notin Int
      /\ zone # NoZone => zone \in Int
  BY StreaksAssumption, RulesAssumption DEF TypeOK
<1> DEFINE resp == NewResponse(answer)
<1>2. resp.created = now /\ resp.local = IF zone = NoZone THEN NoTime ELSE now + zone
  BY DEF NewResponse
<1> HIDE DEF resp
<1>3. CASE zone = NoZone
  <2>1. resp.local = NoTime /\ Shift = 0 /\ now + Shift = now
    BY <1>1, <1>2, <1>3 DEF Shift
  <2> QED BY <1>2, <2>1 DEF UserDay, ResponseTime, resp
<1>4. CASE zone # NoZone
  <2>1. resp.local = now + zone /\ resp.local # NoTime /\ resp.local - resp.created = zone
        /\ now - resp.local = 0 - zone /\ zone \in Int
    BY <1>1, <1>2, <1>4
  <2>2. Abs(0 - zone) < TicksPerDay <=> zone \in (1 - TicksPerDay)..(TicksPerDay - 1)
    BY <1>1, <2>1 DEF Abs
  <2>3. CASE zone \in (1 - TicksPerDay)..(TicksPerDay - 1)
    <3>1. Shift = zone
      BY <1>4, <2>3 DEF Shift
    <3>2. UserDay(resp) = Day(now + zone)
      BY <2>1, <2>3 DEF UserDay
    <3>3. ResponseTime(resp, now) = now + zone
      BY <2>1, <2>2, <2>3 DEF ResponseTime
    <3> QED BY <1>2, <3>1, <3>2, <3>3 DEF resp
  <2>4. CASE zone \notin (1 - TicksPerDay)..(TicksPerDay - 1)
    <3>1. Shift = 0 /\ now + Shift = now
      BY <1>1, <2>4 DEF Shift
    <3>2. UserDay(resp) = Day(now)
      BY <1>2, <2>1, <2>4 DEF UserDay
    <3>3. ResponseTime(resp, now) = now
      BY <1>2, <2>1, <2>2, <2>4 DEF ResponseTime
    <3> QED BY <1>2, <3>1, <3>2, <3>3 DEF resp
  <2> QED BY <2>3, <2>4
<1> QED BY <1>3, <1>4

\* What IsRun describes is the longest run.
LEMMA RunIsLongest ==
  \A i \in Nat, n \in Nat : IsRun(i, n) => RunLength(i) = n
<1> SUFFICES ASSUME NEW i \in Nat, NEW n \in Nat, IsRun(i, n) PROVE RunLength(i) = n
  OBVIOUS
<1> DEFINE last == UserDay(responses[i])
           Runs == {m \in 1..i : \A k \in 0..(m - 1) : last - k \in DaysUpTo(i)}
<1>1. n \in Runs
  BY DEF IsRun
<1>2. \A m \in Runs : n >= m
  <2> SUFFICES ASSUME NEW m \in Runs, m > n PROVE FALSE
    OBVIOUS
  <2>1. n \in 0..(m - 1)
    OBVIOUS
  <2>2. last - n \in DaysUpTo(i)
    BY <2>1
  <2> QED BY <2>2 DEF IsRun
<1>3. \A m \in Runs : m \in Int
  OBVIOUS
<1>4. RunLength(i) = Max(Runs)
  BY DEF RunLength
<1> HIDE DEF Runs
<1>5. Max(Runs) \in Runs /\ \A m \in Runs : Max(Runs) >= m
  BY <1>1, <1>2 DEF Max
<1>6. Max(Runs) = n
  <2> DEFINE longest == Max(Runs)
  <2>1. longest \in Int /\ n >= longest /\ longest >= n
    BY <1>1, <1>2, <1>3, <1>5
  <2> HIDE DEF longest
  <2>2. longest = n
    BY <2>1
  <2> QED BY <2>2 DEF longest
<1> QED BY <1>4, <1>6

LEMMA RunIsLongestNext ==
  \A i \in Nat, n \in Nat : IsRun(i, n)' => (RunLength(i) = n)'
<1>1. (\A i \in Nat, n \in Nat : IsRun(i, n) => RunLength(i) = n)'
  BY RunIsLongest, PTL
<1> QED BY <1>1

\* One more response leaves what was said of those before it, and adds its day.
LEMMA DaysGrow ==
  ASSUME TypeOK, NEW resp \in Response, responses' = Append(responses, resp),
         NEW last \in Nat, last = Len(responses)
  PROVE  /\ Len(responses') = last + 1 /\ responses'[last + 1] = resp
         /\ \A i \in 1..last : /\ responses'[i] = responses[i]
                               /\ PointsOnDay(i)' = PointsOnDay(i)
         /\ DaysUpTo(last + 1)' = DaysUpTo(last) \cup {UserDay(resp)}
<1>1. /\ Len(responses') = last + 1 /\ responses'[last + 1] = resp
      /\ \A i \in 1..last : responses'[i] = responses[i]
  BY AppendProperties, LenProperties DEF TypeOK
<1>2. \A i \in 0..last : DaysUpTo(i)' = DaysUpTo(i)
  BY <1>1 DEF DaysUpTo
<1>3. ASSUME NEW i \in 1..last PROVE PointsOnDay(i)' = PointsOnDay(i)
  <2>1. responses'[i] = responses[i] /\ DaysUpTo(i)' = DaysUpTo(i)
    BY <1>1, <1>2
  <2>2. RunLength(i)' = RunLength(i)
    BY <2>1 DEF RunLength
  <2> QED BY <2>1, <2>2 DEF PointsOnDay
<1>4. DaysUpTo(last + 1)' = DaysUpTo(last) \cup {UserDay(resp)}
  <2>1. 1..(last + 1) = (1..last) \cup {last + 1}
    BY <1>1
  <2> QED BY <1>1, <2>1 DEF DaysUpTo
<1> QED BY <1>1, <1>3, <1>4

\* The score that the next response is added to: the stored one, or an empty one.
Base == IF score = NoScore THEN EmptyScore ELSE score

\* UpdateScore starts a run, goes on with one, or leaves it on the same day.
LEMMA StreakFollowsRun ==
  ASSUME HomeInv, ~history.travels, NEW answer \in Answers,
         NEW last \in Nat, last = Len(responses), last < history.responses,
         responses' = Append(responses, NewResponse(answer)),
         score' = UpdateScore(Base, NewResponse(answer), now)
  PROVE  /\ Day(score'.prevDate) = UserDay(NewResponse(answer))
         /\ IsRun(Len(responses), score.currentStreak)'
<1> DEFINE resp == NewResponse(answer)
           t    == now + Shift
           old  == Base.currentStreak
           new  == score'.currentStreak
<1>1. /\ TypeOK /\ now >= FirstInstant /\ resp \in Response /\ Base \in Score
      /\ Word \in Nat \ {0, 1} /\ last + 1 < Word
  <2>1. TypeOK /\ now >= FirstInstant /\ resp \in Response
    BY NewResponseType DEF HomeInv
  <2>2. Base \in Score
    BY <2>1, EmptyScoreType DEF Base, TypeOK
  <2>3. history.responses \in Nat /\ history.responses < Word
    BY <2>1, StreaksAssumption DEF HomeInv, HomeIsScored, TypeOK, History
  <2> QED BY <2>1, <2>2, <2>3, RulesAssumption
<1>2. t \in Nat /\ UserDay(resp) = Day(t) /\ ResponseTime(resp, now) = t /\ Day(t) \in Int /\ Day(t) >= 2
  BY <1>1, HomeDays, NewResponseDay, DayType
<1>3. score'.prevDate = t /\ new = NextStreak(Base, t)
  <2>1. /\ score'.prevDate = ResponseTime(resp, now)
        /\ new = NextStreak(Base, ResponseTime(resp, now))
    BY <1>1, UpdateScoreEffect DEF TypeOK
  <2> HIDE DEF resp, t, new
  <2> QED BY <1>2, <2>1
<1>4. /\ Len(responses') = last + 1 /\ responses'[last + 1] = resp
      /\ DaysUpTo(last + 1)' = DaysUpTo(last) \cup {Day(t)}
  BY <1>1, <1>2, DaysGrow
<1>5. SUFFICES /\ new \in 1..(last + 1)
               /\ \A k \in 0..(new - 1) : Day(t) - k \in DaysUpTo(last) \cup {Day(t)}
               /\ Day(t) - new \notin DaysUpTo(last) \cup {Day(t)}
  <2> HIDE DEF t, resp
  <2>1. /\ Len(responses)' = last + 1 /\ UserDay(responses[last + 1])' = Day(t)
        /\ (score.currentStreak)' = new
    BY <1>2, <1>4
  <2> QED BY <1>2, <1>3, <1>4, <2>1 DEF IsRun
<1>6. CASE last = 0
  <2>1. Base = EmptyScore
    BY <1>1, <1>6, EmptySeq DEF HomeInv, AtHome, Base, TypeOK
  <2>2. Day(Base.prevDate) = 0
    BY <2>1, DayType DEF EmptyScore
  <2>3. new = 1
    <3> HIDE DEF t, new
    <3> QED BY <1>2, <1>3, <2>2 DEF NextStreak, IsPrevOrSameDay, IsNextDay
  <2>4. DaysUpTo(last) = {}
    BY <1>6 DEF DaysUpTo
  <2> HIDE DEF t, new
  <2> QED BY <1>1, <1>2, <2>3, <2>4
<1>7. CASE last # 0
  <2> DEFINE d    == UserDay(responses[last])
             days == DaysUpTo(last)
  <2>1. score # NoScore /\ responses # <<>> /\ Base = score
    BY <1>1, <1>7, EmptySeq DEF HomeInv, AtHome, Base, TypeOK
  <2>2. Day(Base.prevDate) = d /\ IsRun(last, old)
    BY <2>1 DEF HomeInv, AtHome
  <2>3. /\ old \in 1..last /\ \A k \in 0..(old - 1) : d - k \in days
        /\ d - old \notin days
    BY <2>2 DEF IsRun
  <2>4. d \in Int /\ d <= Day(t) /\ \A x \in days : x \in Int /\ x <= Day(t)
    <3>1. ASSUME NEW i \in 1..last
          PROVE  UserDay(responses[i]) \in Int /\ UserDay(responses[i]) <= Day(t)
      BY <1>1, HomeDays DEF HomeInv, AtHome
    <3>2. last \in 1..last
      BY <1>1, <1>7
    <3> QED BY <3>1, <3>2 DEF DaysUpTo
  <2>5. Add(old, 1) = old + 1
    <3>1. old \in Nat /\ old + 1 < Word
      BY <1>1, <2>3
    <3> QED BY <1>1, <3>1, SmallMod DEF Add
  <2> HIDE DEF t, new, d, days, old
  <2>6. new = CASE Day(t) <= d    -> old
                [] Day(t) = d + 1 -> Add(old, 1)
                [] OTHER          -> 1
    BY <1>3, <2>2 DEF NextStreak, IsPrevOrSameDay, IsNextDay, old
  <2>7. old \in 1..last /\ old \in Int /\ d \in days
    <3>1. 0 \in 0..(old - 1) /\ d - 0 = d
      BY <1>1, <2>3, <2>4
    <3> QED BY <1>1, <2>3, <3>1
  <2>8. CASE Day(t) = d
    <3>1. new = old
      BY <1>2, <2>4, <2>6, <2>8
    <3>2. days \cup {Day(t)} = days
      BY <2>7, <2>8
    <3> QED BY <1>1, <2>3, <2>8, <3>1, <3>2 DEF days
  <2>9. CASE Day(t) = d + 1
    <3>1. new = old + 1
      BY <1>2, <2>4, <2>5, <2>6, <2>9
    <3>2. ASSUME NEW k \in 0..(new - 1) PROVE Day(t) - k \in days \cup {Day(t)}
      <4>1. CASE k = 0
        BY <1>2, <4>1
      <4>2. CASE k # 0
        <5>1. k - 1 \in 0..(old - 1) /\ Day(t) - k = d - (k - 1)
          BY <2>4, <2>7, <2>9, <3>1, <4>2
        <5> QED BY <2>3, <5>1
      <4> QED BY <4>1, <4>2
    <3>3. Day(t) - new = d - old /\ d - old # Day(t)
      BY <2>4, <2>7, <2>9, <3>1
    <3>4. new \in 1..(last + 1)
      BY <1>1, <2>7, <3>1
    <3> QED BY <2>3, <3>2, <3>3, <3>4 DEF days
  <2>10. CASE Day(t) > d + 1
    <3>1. new = 1
      BY <1>2, <2>4, <2>6, <2>10
    <3>2. \A x \in days : x <= d
      <4>1. ASSUME NEW i \in 1..last PROVE UserDay(responses[i]) <= d
        <5>1. last \in 1..last
          BY <1>1, <1>7
        <5> QED BY <1>1, <5>1, HomeDays DEF HomeInv, AtHome, d
      <4> QED BY <4>1 DEF DaysUpTo, days
    <3>3. Day(t) - 1 \notin days /\ Day(t) - 1 # Day(t)
      BY <1>2, <2>4, <2>10, <3>2
    <3>4. \A k \in 0..(new - 1) : Day(t) - k = Day(t)
      BY <1>2, <3>1
    <3> QED BY <1>1, <3>1, <3>3, <3>4 DEF days
  <2> QED BY <1>2, <2>4, <2>8, <2>9, <2>10
<1> QED BY <1>1, <1>6, <1>7

\* The weights that ScoreIsSumOfPoints sums up.
Weights == [i \in 1..Len(responses) |-> PointsOnDay(i)]

LEMMA WeightsType ==
  ASSUME TypeOK
  PROVE  Len(responses) \in Nat /\ Weights \in [1..Len(responses) -> Int]
<1>1. Len(responses) \in Nat /\ \A i \in 1..Len(responses) : responses[i].points \in Int
  <2>1. Len(responses) \in Nat /\ \A i \in 1..Len(responses) : responses[i] \in Response
    BY LenProperties DEF TypeOK
  <2> QED BY <2>1 DEF Response
<1> QED BY <1>1 DEF Weights, PointsOnDay

LEMMA WeightsTypeNext ==
  TypeOK' => Weights' \in [1..Len(responses') -> Int]
<1>1. TypeOK => Weights \in [1..Len(responses) -> Int]
  BY WeightsType
<1>2. (TypeOK => Weights \in [1..Len(responses) -> Int])'
  BY <1>1, PTL
<1> QED BY <1>2

\* What does not change the responses, the client's clock or the score keeps AtHome.
LEMMA AtHomeStays ==
  ASSUME TypeOK, AtHome, UNCHANGED <<history, zone, responses, score>>,
         now' \in Nat, now' >= now
  PROVE  AtHome'
<1>1. \A i \in 1..Len(responses) : responses[i].created \in Nat
  <2>1. \A i \in 1..Len(responses) : responses[i] \in Response
    BY LenProperties DEF TypeOK
  <2> QED BY <2>1 DEF Response
<1>2. now \in Nat
  BY DEF TypeOK
<1>3. \A i, n : IsRun(i, n)' <=> IsRun(i, n)
  BY DEF IsRun, DaysUpTo
<1>4. \A i : PointsOnDay(i)' = PointsOnDay(i)
  BY DEF PointsOnDay, RunLength, DaysUpTo
<1>5. Shift' = Shift
  BY DEF Shift
<1>6. [i \in 1..Len(responses) |-> PointsOnDay(i)]' = [i \in 1..Len(responses) |-> PointsOnDay(i)]
  BY <1>4
<1> QED BY <1>1, <1>2, <1>3, <1>5, <1>6 DEF AtHome

\* A score made when there are no responses is empty.
LEMMA CreateEmpty ==
  ASSUME NEW t \in Nat
  PROVE  CreateScore(<<>>, t) = EmptyScore
<1>1. <<>> \in Seq(Response) /\ Len(<<>>) = 0
  OBVIOUS
<1> QED BY <1>1, Replay

\* A score made of a single response is an empty one with that response.
LEMMA CreateFirst ==
  ASSUME NEW t \in Nat, NEW rs \in Seq(Response), Len(rs) = 1
  PROVE  CreateScore(rs, t) = UpdateScore(EmptyScore, rs[1], t)
<1> DEFINE after == ScoresAfter(Replayed(rs), t)
<1>1. /\ CreateScore(rs, t) = after[Len(rs)] /\ after[0] = EmptyScore
      /\ \A i \in 1..Len(rs) : after[i] = UpdateScore(after[i - 1], rs[Len(rs) - i + 1], t)
  BY Replay
<1> HIDE DEF after
<1>2. 1 \in 1..Len(rs) /\ 1 - 1 = 0 /\ Len(rs) - 1 + 1 = 1
  OBVIOUS
<1>3. after[1] = UpdateScore(after[0], rs[1], t)
  BY <1>1, <1>2
<1> QED BY <1>1, <1>3

LEMMA HomeInit == HomeIsScored /\ Init => HomeInv
<1> SUFFICES ASSUME HomeIsScored, Init PROVE HomeInv
  OBVIOUS
<1>1. TypeOK /\ now >= FirstInstant
  BY StreaksInit DEF StreaksInv
<1>2. history.responses \in Nat
  BY <1>1, StreaksAssumption DEF TypeOK, History
<1>3. Len(responses) = 0 /\ score = NoScore /\ responses = <<>>
  BY DEF Init
<1> QED BY <1>1, <1>2, <1>3 DEF HomeInv, AtHome

LEMMA HomeStep == HomeInv /\ StreaksInv' /\ [Next]_vars => HomeInv'
<1> SUFFICES ASSUME HomeInv, StreaksInv', [Next]_vars, ~history.travels PROVE AtHome'
  <2>1. HomeInv /\ StreaksInv' => HomeIsScored /\ TypeOK' /\ now' >= FirstInstant
    BY StreaksAssumption DEF HomeInv, HomeIsScored, StreaksInv
  <2>2. [Next]_vars => history' = history
    BY DEF Next, Tick, Travel, View, Submit, SubmitUnscored, vars
  <2>3. HomeIsScored' <=> HomeIsScored
    BY DEF HomeIsScored
  <2> QED BY <2>1, <2>2, <2>3 DEF HomeInv, AtHome
<1>1. /\ TypeOK /\ now >= FirstInstant /\ AtHome /\ TypeOK'
      /\ now \in Nat /\ now' \in Nat /\ responses \in Seq(Response)
  BY DEF HomeInv, StreaksInv, TypeOK
<1>2. CASE Tick
  BY <1>1, <1>2, AtHomeStays DEF Tick
<1>3. CASE Travel
  BY <1>3 DEF Travel
<1>4. CASE View
  <2>1. responses = <<>> /\ responses' = <<>> /\ score' = EmptyScore
    BY <1>1, <1>4, CreateEmpty DEF View, AtHome
  <2>2. /\ Len(responses') = 0 /\ score'.score = 0 /\ score' # NoScore
        /\ history' = history /\ history.responses \in Nat
    BY <1>1, <1>4, <2>1, EmptyScoreType, StreaksAssumption DEF View, EmptyScore, TypeOK, History
  <2>3. Weights' \in [1..0 -> Int]
    BY <2>2 DEF Weights
  <2>4. SumOf(Weights') = 0
    <3>1. 0 \in Nat
      OBVIOUS
    <3> HIDE DEF Weights
    <3> QED BY <2>3, <3>1, SumsType
  <2> QED BY <2>1, <2>2, <2>4 DEF AtHome, Weights
<1>5. ASSUME NEW answer \in Answers, Submit(answer) PROVE AtHome'
  <2> DEFINE resp == NewResponse(answer)
  <2> SUFFICES ASSUME NEW last \in Nat, last = Len(responses) PROVE AtHome'
    BY <1>1, LenProperties
  <2>1. /\ responses' = Append(responses, resp) /\ last < history.responses
        /\ history' = history /\ now' = now /\ zone' = zone
        /\ score' = IF score = NoScore THEN CreateScore(responses', now)
                                       ELSE UpdateScore(score, resp, now)
    BY <1>5 DEF Submit
  <2>2. resp \in Response
    BY <1>1, NewResponseType
  <2>3. /\ Len(responses') = last + 1 /\ responses'[last + 1] = resp
        /\ \A i \in 1..last : /\ responses'[i] = responses[i]
                              /\ PointsOnDay(i)' = PointsOnDay(i)
    BY <1>1, <2>1, <2>2, DaysGrow
  <2>4. score' = UpdateScore(Base, resp, now)
    <3>1. CASE score = NoScore
      <4>1. last = 0 /\ responses' \in Seq(Response)
        BY <1>1, <3>1 DEF AtHome, TypeOK
      <4>2. Len(responses') = 1 /\ responses'[1] = resp
        BY <2>3, <4>1
      <4>3. CreateScore(responses', now) = UpdateScore(EmptyScore, responses'[1], now)
        BY <1>1, <4>1, <4>2, CreateFirst
      <4> HIDE DEF resp
      <4> QED BY <2>1, <3>1, <4>2, <4>3 DEF Base
    <3>2. CASE score # NoScore
      BY <2>1, <3>2 DEF Base
    <3> QED BY <3>1, <3>2
  <2>5. Day(score'.prevDate) = UserDay(resp) /\ IsRun(Len(responses), score.currentStreak)'
    BY <2>1, <2>4, StreakFollowsRun
  <2>6. /\ Shift' = Shift /\ UserDay(resp) = Day(now + Shift) /\ resp.created = now
    BY <1>1, <2>1, NewResponseDay DEF Shift
  <2>7. \A i \in 1..(last + 1) :
          /\ responses'[i].created <= now' /\ responses'[i].created <= responses'[last + 1].created
          /\ UserDay(responses'[i]) = Day(responses'[i].created + Shift')
    <3> TAKE i \in 1..(last + 1)
    <3>1. CASE i = last + 1
      BY <1>1, <2>1, <2>3, <2>6, <3>1
    <3>2. CASE i # last + 1
      <4>1. i \in 1..last /\ responses'[i] = responses[i]
        BY <2>3, <3>2
      <4>2. responses[i].created <= now /\ UserDay(responses[i]) = Day(responses[i].created + Shift)
        BY <1>1, <4>1 DEF AtHome
      <4> QED BY <2>1, <2>3, <2>6, <4>1, <4>2
    <3> QED BY <3>1, <3>2
  <2>8. score' # NoScore /\ score' \in Score
    BY <2>4, <1>1, <2>2, UpdateScoreType, EmptyScoreType, StreaksAssumption DEF Base, TypeOK
  <2>9. score'.score = SumOf(Weights')
    <3> SUFFICES ASSUME NEW streak \in Nat, streak = score'.currentStreak
                 PROVE  score'.score = SumOf(Weights')
      BY <2>8, RulesAssumption DEF Score
    <3>1. /\ Base \in Score /\ Base.score = SumOf(Weights)
      <4>1. CASE score = NoScore
        <5>1. last = 0 /\ Base = EmptyScore
          BY <1>1, <4>1 DEF AtHome, Base
        <5>2. Weights \in [1..0 -> Int] /\ 0 \in Nat
          BY <1>1, <5>1, WeightsType
        <5>3. SumOf(Weights) = 0
          BY <5>2, SumsType
        <5> QED BY <5>1, <5>3, EmptyScoreType DEF EmptyScore
      <4>2. CASE score # NoScore
        BY <1>1, <4>2 DEF AtHome, Base, TypeOK, Weights
      <4> QED BY <4>1, <4>2
    <3>2. score'.score = Base.score + resp.points * (IF streak >= 2 THEN 2 ELSE 1)
      BY <1>1, <2>2, <2>4, <3>1, UpdateScoreEffect
    <3>3. RunLength(last + 1)' = streak
      <4>1. IsRun(last + 1, streak)' /\ streak \in Nat /\ last + 1 \in Nat
        BY <2>3, <2>5 DEF IsRun, DaysUpTo
      <4> QED BY <4>1, RunIsLongestNext
    <3>4. PointsOnDay(last + 1)' = resp.points * (IF streak >= 2 THEN 2 ELSE 1)
      BY <2>3, <3>3 DEF PointsOnDay
    <3>5. /\ Weights \in [1..last -> Int] /\ Weights' \in [1..(last + 1) -> Int]
          /\ \A i \in 1..last : Weights'[i] = Weights[i]
          /\ Weights'[last + 1] = PointsOnDay(last + 1)'
      <4>1. Weights \in [1..last -> Int]
        BY <1>1, WeightsType
      <4>2. Weights' \in [1..(last + 1) -> Int]
        BY <2>3, WeightsTypeNext, <1>1
      <4>3. \A i \in 1..last : i \in 1..(last + 1) /\ Weights'[i] = Weights[i]
        BY <2>3 DEF Weights
      <4>4. Weights'[last + 1] = PointsOnDay(last + 1)'
        BY <2>3 DEF Weights
      <4> QED BY <4>1, <4>2, <4>3, <4>4
    <3>6. SumOf(Weights') = SumOf(Weights) + Weights'[last + 1]
      BY <3>5, SumOfMore
    <3> QED BY <3>1, <3>2, <3>4, <3>5, <3>6
  <2>10. last + 1 \in Nat /\ last + 1 <= history'.responses /\ responses' # <<>>
    BY <1>1, <2>1, <2>3, StreaksAssumption DEF TypeOK, History
  <2> QED BY <2>3, <2>5, <2>7, <2>8, <2>9, <2>10 DEF AtHome, Weights
<1>6. ASSUME NEW answer \in Answers, SubmitUnscored(answer) PROVE FALSE
  BY <1>1, <1>6 DEF SubmitUnscored, HomeInv, HomeIsScored, TypeOK
<1>7. CASE UNCHANGED vars
  BY <1>1, <1>7, AtHomeStays DEF vars
<1> QED BY <1>2, <1>3, <1>4, <1>5, <1>6, <1>7 DEF Next

LEMMA HomeInvariant == HomeIsScored /\ Spec => []HomeInv
<1>1. HomeIsScored /\ Init => HomeInv
  BY HomeInit
<1>2. HomeInv /\ StreaksInv' /\ [Next]_vars => HomeInv'
  BY HomeStep
<1> QED BY <1>1, <1>2, StreaksInvariant, PTL DEF Spec

\* For a user who keeps the time zone and whose responses are all scored when they
\* come, the streak of UpdateScore is the number of days in a row with a response.
THEOREM HomeStreakIsRun == HomeIsScored /\ Spec => []StreakIsRun
<1>1. HomeInv => StreakIsRun
  <2> SUFFICES ASSUME HomeInv, ~history.travels, score # NoScore
               PROVE  score.currentStreak = IF responses = <<>> THEN 0
                                            ELSE RunLength(Len(responses))
    BY DEF StreakIsRun
  <2>1. CASE responses = <<>>
    BY <2>1 DEF HomeInv, AtHome, EmptyScore
  <2>2. CASE responses # <<>>
    <3>1. IsRun(Len(responses), score.currentStreak)
      BY <2>2 DEF HomeInv, AtHome
    <3>2. Len(responses) \in Nat /\ score.currentStreak \in Nat
      BY <3>1, LenProperties DEF IsRun, HomeInv, TypeOK
    <3> QED BY <2>2, <3>1, <3>2, RunIsLongest
  <2> QED BY <2>1, <2>2
<1> QED BY <1>1, HomeInvariant, PTL

\* For such a user the score is the sum of the points of all responses, doubled from
\* the second day of each run on, by the rules of UpdateScore.
THEOREM HomeScoreIsSum == HomeIsScored /\ Spec => []ScoreIsSumOfPoints
<1>1. HomeInv => ScoreIsSumOfPoints
  BY DEF HomeInv, AtHome, ScoreIsSumOfPoints
<1> QED BY <1>1, HomeInvariant, PTL
===============================================================================
