SPECIFICATION FairSpec
CONSTANTS
  Profile = {p1, p2}
  Key = {k1, k2}
  Absent = Absent
INVARIANTS
  SessionIsSafe
  BrowserIsTold
PROPERTIES
  EverythingEnds
CHECK_DEADLOCK TRUE
