SPECIFICATION Spec
CONSTANTS
  Clients = {w1, r1}
  Readers = {r1}
  Nodes = {n1, n2}
  MaxAttempts = 2
  OneShot = {w1}
  MaxFaults = 1
SYMMETRY NodeSymmetry
CHECK_DEADLOCK FALSE
INVARIANTS
  Exclusion
  OwnerKeepsEntries
  NothingLeftBehind
PROPERTIES
  NoFalseLoss
