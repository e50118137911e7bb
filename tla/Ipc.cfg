\* Two renderers, two sends and two requests, one message may be lost.
CONSTANTS
    Renderers = {1, 2}
    MaxSends = 2
    MaxInvokes = 2
    MaxDrops = 1
SPECIFICATION Spec
INVARIANTS
    Accounted
    InOrder
    SettledByOwnAnswer
