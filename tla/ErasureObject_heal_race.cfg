CONSTANTS
  Disks = {d1, d2, d3, d4}
  DataBlocks = 2
  Times = {1}
  Tags = {0}
  Absent = Absent
  Offline = Offline
  Procs = {p1, p2}
  NoProc = NoProc
  Faults = FALSE
  HealRemove = TRUE
SYMMETRY Symmetry
SPECIFICATION Spec
INVARIANTS
  AckedDurable
