\* Three children, so that a callback can start one while the pump is at the
\* second, and an array that has to grow for the third.
CONSTANTS
    MaxKids = 3
    MaxOut = 1
    MaxListeners = 1
    Hideable = {2}
    InitCap = 2
SPECIFICATION FairSpec
INVARIANTS
    ChildrenOwned
    EndIsLast
PROPERTIES
    EndsAreSeen
CHECK_DEADLOCK FALSE
