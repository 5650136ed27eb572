SPECIFICATION FairSpec
CONSTANTS
    Docs = {"p2", "p4"}
    Wishes <- MCWishes
    MIN_RESULTS = 1
    MAX_RESULTS = 4
    Tables <- MCTables
    columns = 2
    Positions = {0, 1, 2}
    MaxEntries = 3
    MaxPending = 2
CHECK_DEADLOCK FALSE
INVARIANTS
    TypeOK
    ResultsAreCurrent
    ListedOnce
    BestFirst
    
    WatermarkNotSearched
    LinksExist
    
    Striped
    SettledIsSaved
PROPERTIES
    ClosedStaysClosed
    BackRestores
    LoadingEnds
