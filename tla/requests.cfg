SPECIFICATION MCSpec
CONSTANTS
  Unborn = Unborn
  Gone = Gone
  ContactIds = {c1, c2, c3}
  k1 = k1
  k2 = k2
  x1 = x1
  x2 = x2
  ContactKeys = {k1, k2}
  Addresses = {x1, x2}
  NoAddress = NoAddress
  Drafts <- MCContactDrafts
  MaxAttempts = 2
  MaxChanges = 1
  MaxFaults = 2
  Users = {me, other}
  Me = me
  SurveyIds = {s1}
  ResponseIds = {r1, r2}
  Quiz = Quiz
  UserType = UserType
  NoType = NoType
  NoAnswer = NoAnswer
  NoScore = NoScore
  NotRead = NotRead
  MaxWrites = 4
  MaxReads = 1
  AnswerIds = {a1, a2}
  NoInstant = NoInstant
  Offsets = {1, 2}
  NoRequest = NoRequest
  LastHour = 5
  MaxRefusals = 1
INVARIANTS
  TypeOK
  MailedOnce
  AllMailed
  MailedToContacts
  DataIsCurrent
  ScoreFollowsCopies
  CollectedOnce
  MissedOnlyInFlight
SYMMETRY MCSymmetry
CHECK_DEADLOCK FALSE
