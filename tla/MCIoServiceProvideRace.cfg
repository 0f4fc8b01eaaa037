CONSTANTS
  Callers = {accept, heart}
  PoolSize = 3
SPECIFICATION Spec
INVARIANTS
  IndexInPool
