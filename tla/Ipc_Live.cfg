\* Liveness of requests: no sends.
CONSTANTS
    Renderers = {1, 2}
    MaxSends = 0
    MaxInvokes = 2
    MaxDrops = 1
SPECIFICATION FairSpec
PROPERTY InvokesSettle
