SPECIFICATION ServicesSpec
CONSTANTS
  Content = {d1, d2, d3}
  Missing = Missing
  Torn = Torn
  NoRequest = NoRequest
  None = None
  Old = Old
  New = New
  Part = Part
  Theirs = Theirs
  Browser = {b1, b2}
  Wrap = 6
  LockTicks = 1
  LifeTicks = 2
  BeatTicks = 1
  MaxFailures = 2
  MaxMessages = 4
  Sizes = {1, 4}
  Budget = 3
  TailMessages = 3
  RetainedMessages = 1
  Refusals = TRUE
  Name = {n1, n2}
  Doc = {1, 2}
  QuietFlush = FALSE
  MaxOps = 2
  MaxFaults = 2
  MaxResets = 2
  MaxEdits = 1
  MaxSaves = 2
  Few = 1
  MinSamples = 1
  MaxSamples = 1
  Pieces = 4
  Chunks = 2
  Segments = 2
  MaxTakes = 2
  MaxQuestions = 1
  MaxPieces = 1
  MaxAttempts = 2
  MaxRounds = 2
  Version = {1, 2, 3, 4}
INVARIANTS
  IInv
  BothCopiesDuringCommit
  RequestsAreRight
  SettingsAreAsTold
  VoiceIsFaithful
  FilesAreAsTold
  AnswersAreWhole
PROPERTIES
  ImplementsRegister
  SessionsAreGuarded
  UpdateIsSafe
  CleanupsSettle
  OthersStay
CHECK_DEADLOCK FALSE
