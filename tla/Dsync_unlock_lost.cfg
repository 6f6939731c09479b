SPECIFICATION FairSpec
CONSTANTS
  Clients = {w1}
  Readers = {}
  Nodes = {n1, n2}
  MaxAttempts = 1
  OneShot = {}
  MaxFaults = 1
CHECK_DEADLOCK FALSE
PROPERTIES
  UnlockReturns
