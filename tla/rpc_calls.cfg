SPECIFICATION FairSpec
CONSTANTS
  Clients = {"p", "q"}
  Files = {"f"}
  Inodes = {"i", "j"}
  Tree <- TheTree
  Entries <- TheEntries
  Fds = {0, 1}
  Calls <- AllCalls
  Contents <- TheContents
  MaxCalls <- SomeCalls
  Mortals = {"q"}
  OFFSET = 3
  MAXMSGLEN = 2
INVARIANTS TypeOK Aligned OneMessage
PROPERTIES Implements CallsReturn ChildrenEnd
CHECK_DEADLOCK FALSE
