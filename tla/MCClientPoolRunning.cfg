CONSTANTS
  NServers = 1
  connect_count = 1
  Resolvable = {0}
  Contains <- SameServer
  NSessions = 5
  Threads = {"heart", "zk"}
  MaxLost = 1
  MaxFaults = 3
  MaxCallbacks = 1
SPECIFICATION Spec
INVARIANTS
  TypeOK
  EntryWatched
  ListMatchesMap
PROPERTIES
  PoolHeals
