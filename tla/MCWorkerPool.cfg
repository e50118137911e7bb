\* Two workers, two writes and a read of one file; every allocation, thread
\* creation and file operation may fail.
CONSTANTS
    w1 = w1
    w2 = w2
    wr1 = wr1
    wr2 = wr2
    rd1 = rd1
    p1 = p1
    Workers <- MCWorkers
    Tasks <- MCTasks
    Paths <- MCPaths
    Kind <- MCKind
    Path <- MCPath
    InitCap = 1
    AllocMayFail = TRUE
    IOMayFail = TRUE
SPECIFICATION FairSpec
INVARIANTS
    CallbackOwnership
    CalledOnceAfterIO
    NoUseAfterFree
    ShutdownDrains
    ChainedIOKeepsOrder
PROPERTIES
    PoolFinishes
