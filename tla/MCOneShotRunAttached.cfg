SPECIFICATION Spec
CONSTANTS
  Call = {c1}
  Source = {v1}
  Absent = Absent
  Torn = Torn
  MaxDisturbances = 2
INVARIANTS
  OwnAttachmentAccepted
CHECK_DEADLOCK TRUE
