CONSTANTS
  NServers = 1
  connect_count = 1
  Resolvable = {0}
  Contains <- SameServer
  NSessions = 3
  Threads = {"heart"}
  MaxLost = 1
  MaxFaults = 1
  MaxCallbacks = 0
SPECIFICATION Spec
INVARIANTS
  AtMostConnectCount
