SPECIFICATION Spec
CONSTANTS
    ann = ann
    bob = bob
    doc = doc
    pic = pic
    Threads <- One
    Paths <- TwoPaths
    Chunks <- MCChunks
    Modes <- OneWrites
    Original <- TwoFiles
    MaxFd = 4
    MaxChunks = 2
    max_size = 2
CHECK_DEADLOCK FALSE
INVARIANTS
    CapacityHolds
