SPECIFICATION Spec
CONSTANTS
  p1 = p1
  MaxProfiles = 2
  Id = {p1, Legacy}
  Legacy = Legacy
  Card = Card
  None = None
  MaxFaults = 1
INVARIANTS
  ProfilesKeepTheirOwn
CHECK_DEADLOCK FALSE
