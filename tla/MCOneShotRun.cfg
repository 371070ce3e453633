SPECIFICATION Spec
CONSTANTS
  Call = {c1, c2}
  Source = {v1, v2}
  Absent = Absent
  Torn = Torn
  MaxDisturbances = 2
INVARIANTS
  IInv
  AtMostOneLaunch
  ApprovedScriptRuns
  NoReturnToPython
  TruthfulMessages
  OneAnswerInPlace
PROPERTIES
  WebReturnDurable
CHECK_DEADLOCK TRUE
