SPECIFICATION FairSpec
CONSTANTS
    Sessions = {m1, m2}
    NoSession = NoSession
    Depth = 1
    MaxSeg = 2
    MaxRev = 2
    MaxWork = 2
    AbandonedStops = TRUE
INVARIANTS QueueInv DurableInOrder NoInterimOutlivesItsFinal
PROPERTIES QueueDrains
