SPECIFICATION Spec
CONSTANTS
  u1 = u1
  u2 = u2
  p1 = p1
  p2 = p2
  Users = {u1, u2}
  Requests = {r1, r2, r3}
  ProfileIds = {p1, p2}
  NoProfile = NoProfile
  Absent = Absent
  NoScore = NoScore
  Forms <- MCForms3
  OneAtATime = FALSE
  MaxFaults = 1
SYMMETRY Symmetry
INVARIANTS
  AtMostTwice
  OwnQuizzesOnly
PROPERTIES
  CountedWhenAcked
\* Every request ends, and the model has only so many.
CHECK_DEADLOCK FALSE
