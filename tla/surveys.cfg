SPECIFICATION Spec
CONSTANTS
  Users = {u1, u2}
  Events = {e1}
  SurveyIds = {s1}
  ResponseIds = {r1}
  Calls = {c1, c2}
  OrgID = OrgID
  AppID = AppID
  NoEvent = NoEvent
  NoForm = NoForm
  NoID = NoID
  Unborn = Unborn
  Gone = Gone
  NoCall = NoCall
  Kinds <- MCKinds
  MaxEditions = 1
  MaxRequests = 3
  Faults = TRUE
INVARIANTS
  TypeOK
  NamesHidden
  ShownToEntitled
PROPERTIES
  DeletedByEntitled
  AnsweredByAttendees
  FormIsCurrent
SYMMETRY MCSymmetry
CHECK_DEADLOCK FALSE
