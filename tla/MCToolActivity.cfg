SPECIFICATION FairSpec
CONSTANTS
  Tool = {python_run, web_search}
  Python = python_run
  None = None
  Keep = 2
  MaxLines = 3
  Callers = {"prompt"}
  Outcomes = {"succeeded", "failed"}
  Faults = {"tornAppend", "shortFlush"}
  MaxSequence = 4
  MaxDisturbances = 2
INVARIANTS
  IInv
  JournalReads
  WholeFinishAccepted
  ShownAsEnded
  RecentShown
PROPERTIES
  OwedIsSettled
CHECK_DEADLOCK TRUE
