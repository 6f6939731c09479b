SPECIFICATION ProgressSpec
CONSTANTS
  MaxUploads = 2
  MaxFaults = 1
  Parts = {1}
  Putters = {r1}
  Completers = {c1}
  MaxSent = 2
  MaxFails = 1
  Overlap = FALSE
  RepWorkers = {1, 2}
  NVersions = 2
  NRequests = 2
  RepQueueSize = 1
  MaxRepMishaps = 1
  RepRequests = {"put", "tags", "marker", "purge"}
  Servers = {v1}
  Requests = {1, 2}
  Kinds = {"get", "put", "delete", "tags", "copy"}
  PreExisting = FALSE
  MaxFSFaults = 1
  NReaders = 3
  DataBlocks = 2
  NParts = 1
  NBlocks = 2
  MaxSick = 2
  MaxBad = 2
  Paths <- HealPaths
  Admins = {a1}
  MaxSeqs = 1
  MaxItems = 1
  MaxPending = 1
  MaxStops = 1
  NBuckets = 2
  NObjects = 2
  Before = 1
  MaxRestarts = 2
  MaxErrors = 1
  Sets = {s1, s2}
  Drives = {d1}
  ChanCap = 1
  AggCap = 1
  ListCap = 1
  MaxPartials = 2
  MaxOutages = 2
  NEvents = 3
  EntryLimit = 2
  MaxTargetOutages = 1
  MaxMishaps = 1
  Peers = {p1, p2}
  Owner = p1
  NLists = 2
  NTrackDrives = 1
  DirCycles = 1
  HealInclude = 2
  MaxCycle = 1
  MaxChanges = 0
  MaxTrackMishaps = 1
CHECK_DEADLOCK FALSE
PROPERTIES
  TierEnds
  UploadEnds
  ReplicationEnds
  RequestsAnswered
  HealsEnd
  ReplayedWhileOpen
  LockEnds
  
