SPECIFICATION FairSpec
CONSTANTS
  Procs = {p1, p2, p3}
  Paths <- MCPaths
  Objs = {o1, o2}
  NoObj = NoObj
INVARIANTS
  MutualExclusion
  NoPanic
  RefCountExact
PROPERTIES
  SomeoneGetsLock
