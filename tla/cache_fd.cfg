SPECIFICATION Spec
CONSTANTS
    ann = ann
    bob = bob
    doc = doc
    pic = pic
    Threads <- Two
    Paths <- OnePath
    Chunks <- MCChunks
    Modes <- TwoRead
    Original <- OneFile
    MaxFd = 4
    MaxChunks = 1
    max_size = 2
CHECK_DEADLOCK FALSE
INVARIANTS
    UniqueFds
