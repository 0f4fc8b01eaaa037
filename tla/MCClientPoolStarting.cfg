CONSTANTS
  NServers = 3
  connect_count = 1
  Resolvable = {0, 1}
  Contains <- PortPrefix
  NSessions = 7
  Threads = {"main", "heart"}
  MaxLost = 1
  MaxFaults = 1
  MaxCallbacks = 0
SPECIFICATION Spec
PROPERTIES
  PoolHeals
  ListKept
