\* Three timers, two animation frame callbacks, two promise jobs.
CONSTANTS
    MaxTimers = 3
    MaxRafs = 2
    MaxJobs = 2
    MaxDelay = 1
SPECIFICATION FairSpec
INVARIANTS
    CallbackRefs
    WalksAreComplete
PROPERTIES
    CalledWhenOwed
    CallbacksRun
