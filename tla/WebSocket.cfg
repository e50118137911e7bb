\* Three frames of the peer and its answer to a close frame; a data frame may
\* be larger than the buffer.
CONSTANTS
    RBUF = 2
    Frames <- MCFrames
    Lengths = {6, 7}
    MaxFrames = 3
    MaxSkip = 2
SPECIFICATION WsFairSpec
INVARIANTS
    EventsInOrder

    
    
    
CHECK_DEADLOCK FALSE
