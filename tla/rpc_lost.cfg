SPECIFICATION FairSpec
CONSTANTS
  Clients = {"p", "q"}
  Files = {"f"}
  Inodes = {"i", "j"}
  Tree <- TheTree
  Entries <- TheEntries
  Fds = {0, 1}
  Calls <- LostCalls
  Contents <- TheContents
  MaxCalls <- SomeCalls
  Mortals = {"q"}
  OFFSET = 3
  MAXMSGLEN = 2
PROPERTIES GetdirtreeReturns
CHECK_DEADLOCK FALSE
