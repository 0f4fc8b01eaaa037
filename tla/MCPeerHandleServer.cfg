CONSTANTS
  Callers = {main, t1, t2}
  Main = main
  PoolSize = 2
  Workers = {w1}
  Addresses = {a}
  MaxConnections = 2
  MaxErrors = 1
SPECIFICATION ServerSpec
INVARIANTS
  ServerTypeOK
  AcceptChain
  EntryLive
  FinalizeAlone
PROPERTIES
  RoundRobin
  ClientServed
  MapDrains
  SignalExits
CHECK_DEADLOCK FALSE
