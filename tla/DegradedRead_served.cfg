SPECIFICATION ReadSpec
CONSTANTS
    NReaders = 4
    DataBlocks = 2
    NParts = 2
    NBlocks = 2
    MaxSick = 2
    MaxBad = 1
INVARIANT ServedAll
CHECK_DEADLOCK FALSE
