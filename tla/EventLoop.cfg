CONSTANTS
    MaxItems = 5
    MaxFrames = 3
SPECIFICATION FairSpec
INVARIANTS
    CallbacksInTurn
PROPERTIES
    TasksRunInOrder
