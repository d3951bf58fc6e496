SPECIFICATION ArchiveSpec
CONSTANTS
    Sources = {"system", "microphone"}
    Rate <- MCRate
    PacketSizes = {441, 448}
    MaxPackets = 5
    MaxFailures = 2
INVARIANTS GapsInOrder ArchiveTells AlignedWithinDrift
