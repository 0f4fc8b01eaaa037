CONSTANTS
  Workers = {w1, w2}
  Links = {"a", "b"}
  Servers = {"s1", "s2"}
  Guests = {"g"}
  Users = {1, 2}
  task_queue_max = 1
  MaxRequests = 2
  ServerOf <- MCServerOf
  Caches <- MCCaches
  Requests <- MCRequests
SPECIFICATION Spec
INVARIANTS
  TypeOK
  AnswerFits
  PushComplete
PROPERTIES
  Answered
