SPECIFICATION Spec
CONSTANTS
  Slots = 2
  Url = {1, 2}
  Key = {1, 2}
  MaxOps = 3
  MaxFaults = 1
  MaxResets = 1
INVARIANTS
  ProfilesAreAtomic
CHECK_DEADLOCK FALSE
