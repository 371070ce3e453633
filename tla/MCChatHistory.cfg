SPECIFICATION Spec
CONSTANTS
  Message = {a, b}
  Absent = Absent
  TailLimit = 2
  MaxBatch = 2
  MaxCount = 4
  MaxRevision = 5
  MaxDisturbances = 2
  Faults = {"tornAppend", "shortFlush", "cutClear"}
INVARIANTS
  IInv
  ReadsAreConsistent
  SuccessIsListed
  WholeNeverLocked
PROPERTIES
  ImplementsChatLog
CHECK_DEADLOCK TRUE
