-------------------------- MODULE IoServiceProvide --------------------------
(***************************************************************************)
(* io_service_provide::get_io_service (src/include/io_service_provide.h):  *)
(* the round robin over the pool of io_services.  It takes no lock, and    *)
(* its callers are different threads: the accept handler, the heart beat   *)
(* thread, the zookeeper callback and main.  Each access to                *)
(* next_io_service_ is a step.                                             *)
(***************************************************************************)
EXTENDS Integers

CONSTANTS
  Callers,   \* threads that call get_io_service
  PoolSize   \* io_services_.size(): io_pool_size, or the number of cores

ASSUME PoolSizeAssumption == PoolSize \in Nat \ {0}

VARIABLES
  next_io_service_,  \* the index of the next io_service
  pc,                \* where each caller is
  reg,               \* the value a caller has loaded for ++
  got,               \* the index a caller has taken its io_service from
  last               \* history: the index taken last, by any caller

vars == <<next_io_service_, pc, reg, got, last>>

Init ==
  /\ next_io_service_ = 0
  /\ pc = [c \in Callers |-> "index"]
  /\ reg = [c \in Callers |-> 0]
  /\ got = [c \in Callers |-> 0]
  /\ last = PoolSize - 1

\* *io_services_[next_io_service_]
Index(c) ==
  /\ pc[c] = "index"
  /\ got' = [got EXCEPT ![c] = next_io_service_]
  /\ last' = next_io_service_
  /\ pc' = [pc EXCEPT ![c] = "load"]
  /\ UNCHANGED <<next_io_service_, reg>>

\* ++next_io_service_: the load.
Load(c) ==
  /\ pc[c] = "load"
  /\ reg' = [reg EXCEPT ![c] = next_io_service_]
  /\ pc' = [pc EXCEPT ![c] = "store"]
  /\ UNCHANGED <<next_io_service_, got, last>>

\* ++next_io_service_: the store.
Store(c) ==
  /\ pc[c] = "store"
  /\ next_io_service_' = reg[c] + 1
  /\ reg' = [reg EXCEPT ![c] = reg[c] + 1]
  /\ pc' = [pc EXCEPT ![c] = "compare"]
  /\ UNCHANGED <<got, last>>

\* The call returns: c has what it came for.
Return(c) ==
  /\ pc' = [pc EXCEPT ![c] = "index"]
  /\ reg' = [reg EXCEPT ![c] = 0]
  /\ got' = [got EXCEPT ![c] = 0]

\* The value v that is compared is the size of the pool, or not.
Compared(c, v, size) ==
  \/ v = size /\ pc' = [pc EXCEPT ![c] = "reset"] /\ UNCHANGED <<reg, got>>
  \/ v # size /\ Return(c)

\* Fault: the comparison is off by one.
CompareLate(c) ==
  /\ pc[c] = "compare"
  /\ Compared(c, reg[c], PoolSize + 1)
  /\ UNCHANGED <<next_io_service_, last>>

\* if (next_io_service_ == io_services_.size()): of the value in memory or of
\* the one still in the register, as the compiler likes.
Compare(c) ==
  /\ pc[c] = "compare"
  /\ \E v \in {next_io_service_, reg[c]} : Compared(c, v, PoolSize)
  /\ UNCHANGED <<next_io_service_, last>>

\* next_io_service_ = 0, and the caller returns.
Reset(c) ==
  /\ pc[c] = "reset"
  /\ next_io_service_' = 0
  /\ Return(c)
  /\ UNCHANGED last

Next == \E c \in Callers : Index(c) \/ Load(c) \/ Store(c) \/ Compare(c) \/ Reset(c)

Spec == Init /\ [][Next]_vars

----------------------------------------------------------------------------

\* Every io_service handed out is one of the pool: io_services_ is never read
\* past its end.
IndexInPool == \A c \in Callers : got[c] < PoolSize

\* The io_services are handed out in turn, none twice in a row and none
\* skipped.
RoundRobin ==
  [][\A c \in Callers : pc[c] = "index" /\ pc'[c] = "load" =>
       last' = (last + 1) % PoolSize]_vars
=============================================================================
