SPECIFICATION ClusterSpec
CONSTANTS
  UIDs = {"w1", "w2", "r1", "r2"}
  Writers = {"w1", "w2"}
  Resources = {"a", "b"}
  ResOf <- MCResOf
  FirstOf <- MCFirstOf
  MaxEntries = 4
  Paths <- HealPaths
  Admins = {a1, a2}
  MaxSeqs = 2
  MaxItems = 2
  MaxPending = 1
  MaxStops = 1
  NBuckets = 3
  NObjects = 3
  Before = 2
  MaxRestarts = 2
  MaxErrors = 1
  Sets = {s1, s2}
  Drives = {d1, d2}
  ChanCap = 1
  AggCap = 1
  ListCap = 1
  MaxPartials = 3
  MaxOutages = 2
  NEvents = 4
  EntryLimit = 2
  MaxTargetOutages = 2
  MaxMishaps = 2
  Callers = {k1, k2}
  LogSize = 4
  Durations = {4}
  FirstTimeout = 8
  Minimum = 5
  MaxTimeout = 9
  MaxLogged = 8
  Nodes = {n1, n2}
  MaxActive = 2
  NChanges = 3
  KindSets = {{"make", "delete", "policy"}, {"versioning", "replication"}, {"rules"}}
  LegacyAtStart = TRUE
  MaxMissed = 1
SYMMETRY AdminSymmetry
CHECK_DEADLOCK FALSE
INVARIANTS
  ClusterTypeOK
  SequencesSound
  ListSound
  QueueSound
  TimeoutAdapts
  SettingsSound
PROPERTIES
  LocksKept
  TrackerSound
