CONSTANTS
  Chunks = 2
  MaxWrites = 3
  MaxFrames = 2
SPECIFICATION Spec
INVARIANTS
  TypeOK
  WireIntact
  FrontInFlight
  NothingStranded
  OneRead
PROPERTIES
  Flushes
  LossNoticed
  Drains
CHECK_DEADLOCK FALSE
