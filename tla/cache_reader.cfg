SPECIFICATION Spec
CONSTANTS
    ann = ann
    bob = bob
    doc = doc
    pic = pic
    Threads <- One
    Paths <- OnePath
    Chunks <- MCChunks
    Modes <- OneOpens
    Original <- OneFile
    MaxFd = 5
    MaxChunks = 1
    max_size = 4
CHECK_DEADLOCK FALSE
PROPERTIES
    ReadersSeeOneVersion
