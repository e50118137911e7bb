CONSTANTS
    Events = {e1, e2}
    MaxListeners = 4
    MaxEmits = 2
SPECIFICATION EmitterSpec
INVARIANTS
    EmitIsExact
PROPERTIES
    NoneLost
CHECK_DEADLOCK FALSE
