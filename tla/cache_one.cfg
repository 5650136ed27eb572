SPECIFICATION Spec
CONSTANTS
    ann = ann
    bob = bob
    doc = doc
    pic = pic
    Threads <- One
    Paths <- TwoPaths
    Chunks <- MCChunks
    Modes <- OneCalls
    Original <- OneFile
    MaxFd = 5
    MaxChunks = 2
    max_size = 2
CHECK_DEADLOCK FALSE
INVARIANTS
    TypeOK
    CountsAreRight
    HeldFilesStay
PROPERTIES
    FreshOnOpen
    LastCloseWins
