\* Two threads, two URLs and room for one entry; the second version of a has a
\* shorter body than the first, b has one version with an empty body.
CONSTANTS
    t1 = t1
    t2 = t2
    a = a
    b = b
    Threads <- MCThreads
    Urls <- MCUrls
    BodyLen <- MCBodyLen
    Headers <- MCHeaders
    Cut <- MCCut
    MAX_ENTRIES = 1
    HeuristicAge = 1
    MaxNow = 1
    MaxFetches = 3
    MaxFaults = 1
SPECIFICATION Spec
INVARIANTS
    CacheIsSound
    EntryIsOneResponse
    NotModifiedMeansThisBody
PROPERTIES
    ReadsNeverGoBack
SYMMETRY Symmetry
CHECK_DEADLOCK FALSE
