SPECIFICATION Spec
CONSTANTS
    c1 = c1
    c2 = c2
    a = a
    b = b
    a1 = a1
    a2 = a2
    b1 = b1
    k1 = k1
    k2 = k2
    Commits <- MCCommits
    Nodes <- MCNodes
    Images <- MCImages
    Names <- MCNames
    Owner <- MCOwner
    Sources <- Contended
    FileName <- TwoNames
    Faults = {}
    MaxFaults = 0
CHECK_DEADLOCK FALSE
INVARIANTS
    NoImageSoldTwice
