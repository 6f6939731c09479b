SPECIFICATION ObjectsSpec
CONSTANTS
  MaxOps = 5
  MaxUploads = 2
  MaxFaults = 3
  Parts = {1, 2}
  Putters = {r1, r2}
  Completers = {c1}
  MaxSent = 3
  MaxFails = 1
  Overlap = FALSE
  RepWorkers = {w1, w2}
  NVersions = 2
  NRequests = 3
  RepQueueSize = 1
  MaxRepMishaps = 1
  RepRequests = {"put", "tags", "marker", "purge"}
  Servers = {v1}
  Requests = {q1, q2, q3}
  Kinds = {"get", "put", "delete", "tags", "copy"}
  PreExisting = FALSE
  MaxFSFaults = 1
  NReaders = 4
  DataBlocks = 2
  NParts = 2
  NBlocks = 2
  MaxSick = 2
  MaxBad = 3
  NPools = 2
  PoolRequests = {m1, m2, m3}
  PoolReaders = {m3}
  FirstFree = {1, 4}
  KeepFree = 1
CHECK_DEADLOCK FALSE
INVARIANTS
  ObjectsTypeOK
  JournalSound
  TierSound
  UploadSound
  CompletedOnTarget
  FilesSound
  ReadSound
PROPERTIES
  HistoryKept
  PoolsAsOne
