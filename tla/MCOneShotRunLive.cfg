SPECIFICATION FairSpec
CONSTANTS
  Call = {c1, c2}
  Source = {v1}
  Absent = Absent
  Torn = Torn
  MaxDisturbances = 2
PROPERTIES
  ClaimedEndsOrBlocks
CHECK_DEADLOCK TRUE
