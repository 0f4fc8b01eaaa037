CONSTANTS
  w1 = w1
  w2 = w2
  p1 = p1
  p2 = p2
  Workers <- MCWorkers
  Producers <- MCProducers
  task_queue_max = 1
  MaxPush = 4
SPECIFICATION Spec
INVARIANTS
  TypeOK
  EachMessageOnce
  NoLostWakeup
  NoSleeperAtJoin
  SlipOnce
PROPERTIES
  ImplementsChannel
  ShutdownCompletes
