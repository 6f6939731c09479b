SPECIFICATION SetsSpec
CONSTANTS
  Disks = {d1, d2, d3, d4}
  DataBlocks = 3
  Times = {1}
  Tags = {0, 1}
  Absent = Absent
  Offline = Offline
  Procs = {p1}
  Pair = {p1, p2}
  SetTimes = {1, 2}
  NoProc = NoProc
  Faults = TRUE
  HealRemove = FALSE
SYMMETRY DriveSymmetry
INVARIANTS
  ReadsLatest
  NoFalseNotFound
  AckedDurable
  AcknowledgedKept
