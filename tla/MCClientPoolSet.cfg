CONSTANTS
  NServers = 1
  connect_count = 2
  Resolvable = {0}
  Contains <- SameServer
  NSessions = 5
  Threads = {"main", "heart"}
  MaxLost = 0
  MaxFaults = 1
  MaxCallbacks = 0
SPECIFICATION Spec
INVARIANTS
  ListMatchesMap
