SPECIFICATION TimelineSpec
CONSTANTS
    MaxFrames = 4
    MaxSegment = 3
    Preroll = 2
    MaxPauses = 1
    MaxDrops = 1
    MaxLosses = 1
    MaxCrashes = 2
    MaxAttempts = 3
INVARIANTS TimelineIsTrue RecoveryIsExact
