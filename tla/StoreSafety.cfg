SPECIFICATION Spec
CONSTANTS
    Meetings = {m1}
    Segments = {s1, s2}
    Texts = {t1, t2}
    Clients = {c1, c2}
    Depth = 1
    MaxSequence = 2
    MaxCrashes = 1
SYMMETRY StoreSymmetry
INVARIANTS StoreInv
PROPERTIES ImplementsDurableTranscript
