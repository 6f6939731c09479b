SPECIFICATION RepSpec
CONSTANTS
  RepWorkers = {w1, w2}
  NVersions = 2
  NRequests = 2
  RepQueueSize = 2
  MaxRepMishaps = 0
  RepRequests = {"put", "marker"}
CHECK_DEADLOCK FALSE
INVARIANT MarkersOnTarget
