SPECIFICATION Spec
CONSTANTS
  p1 = p1
  p2 = p2
  c1 = c1
  c2 = c2
  f1 = f1
  None = None
  Project = {p1, p2}
  Chat = {c1, c2}
  File = {f1}
  Legacy = {c1}
  MaxOps = 3
  MaxFaults = 1
INVARIANTS
  IndexesAreTrue
PROPERTIES
  CommitsEverything
CHECK_DEADLOCK FALSE
