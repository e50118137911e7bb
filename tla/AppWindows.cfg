CONSTANTS
    MaxWindows = 2
    FailAt = {"renderer", "bridge", "runtime", "events", "wrapper"}
SPECIFICATION FairSpec
INVARIANTS
    Lifetimes
    ActiveIsLive
    TeardownFreesWindows
PROPERTIES
    LoopProgress
CHECK_DEADLOCK FALSE
