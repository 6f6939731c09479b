SPECIFICATION ListingSpec
CONSTANTS
  Peers = {p1, p2}
  Owner = p1
  NLists = 2
  NTrackDrives = 1
  DirCycles = 1
  HealInclude = 2
  MaxCycle = 2
  LongCycle = 4
  MaxChanges = 1
  MaxTrackMishaps = 0
CHECK_DEADLOCK FALSE
INVARIANTS
  ListingTypeOK
  NoChangeMissed
  ListingsSound
