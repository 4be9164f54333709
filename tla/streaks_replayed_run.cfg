SPECIFICATION Spec
CONSTANTS
  TicksPerDay = 2
  PointUnit = 2
  Word = 16
  NoTime = NoTime
  FirstInstant = 5
  Zones <- MCZones
  NoZone = NoZone
  NoScore = NoScore
  Answers <- MCAnswers
  Histories <- MCReplayed
INVARIANTS
  StreakIsRun
\* Time and the number of responses are bounded.
CHECK_DEADLOCK FALSE
