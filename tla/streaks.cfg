SPECIFICATION Spec
CONSTANTS
  TicksPerDay = 2
  PointUnit = 2
  Word = 16
  NoTime = NoTime
  FirstInstant = 5
  Zones <- MCZones
  NoZone = NoZone
  NoScore = NoScore
  Answers <- MCAnswers
  Histories <- MCHistories
INVARIANTS
  TypeOK
  StreakIsRun
  ScoreIsSumOfPoints
  PointsBounded
  CountersComplete
\* Time and the number of responses are bounded.
CHECK_DEADLOCK FALSE
