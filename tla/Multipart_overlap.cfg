CONSTANTS
  Parts = {1, 2}
  Putters = {r1}
  Completers = {c1, c2}
  MaxSent = 2
  MaxFails = 0
  Overlap = TRUE
SPECIFICATION MPSpec
INVARIANT CompletedIntact
CHECK_DEADLOCK FALSE
