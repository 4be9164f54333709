SPECIFICATION Spec
CONSTANTS
  SurveyIds = {s1, s2, s3}
  ResponseIds = {r1, r2}
  ScoreIds = {p1, p2, p3}
  Standings <- MCStandings
  Drafts <- MCDrafts
  Queries <- MCQueries
  NoDate = NoDate
  Unborn = Unborn
  Gone = Gone
  Age = 2
  LastTime = 6
CONSTRAINT MCSaid
SYMMETRY MCSymmetry
INVARIANTS
  TypeOK
  NothingMissed
  NothingTwice
  PagesInOrder
CHECK_DEADLOCK FALSE
