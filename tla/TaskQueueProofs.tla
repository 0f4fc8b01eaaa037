-------------------------- MODULE TaskQueueProofs --------------------------
(***************************************************************************)
(* Theorems about TaskQueue for any set of workers and producers, any      *)
(* queue limit and any number of messages.                                 *)
(***************************************************************************)
EXTENDS TaskQueue, TLAPS

(* What the safety properties rest on.                                      *)

\* Between the wait test and the wait the worker, and only it, has mutex_,
\* so push cannot fill the queue there.
MutexInv ==
  /\ \A w \in Workers : pc[w] = "block" <=> mutex_ = w
  /\ mutex_ # NoOne => deque_ = <<>>

\* What stop has done so far; a worker it interrupted is not asleep, since
\* either the broadcast woke it or the pending interrupt keeps it from
\* entering the wait.
StopInv ==
  /\ stop_ <=> stopper # "run"
  /\ interrupted # {} => stop_
  /\ \A w \in Workers : pc[w] = "exited" => stop_
  /\ \A w \in interrupted : pc[w] # "wait"
  /\ stopper \in {"join_all", "joined"} => interrupted = Workers

\* A worker that let a message through is past the wait, and comes back to
\* it only through a try_pop that found the queue empty.
SlipInv ==
  /\ SlipOnce
  /\ deque_ = <<>> => \A w \in Workers : slipped[w] = 0
  /\ \A w \in Workers :
        slipped[w] # 0 => pc[w] \notin {"wait_and_pop", "block", "wait", "woken"}

\* A worker carries a message exactly while it is in do_work; the model
\* pushes no more than MaxPush messages.
OnceInv ==
  /\ EachMessageOnce
  /\ \A w \in Workers : hand[w] # 0 <=> pc[w] = "work"
  /\ pushed <= MaxPush

----------------------------------------------------------------------------

USE DEF history

\* Taking the front of a non-empty queue keeps the types of what it changes.
LEMMA TakeFrontTypes ==
  ASSUME TypeOK, NEW w \in Workers, NEW mark, deque_ # <<>>, TakeFront(w, mark)
  PROVE  /\ deque_' \in Seq(Nat)
         /\ hand' \in [Workers -> Nat]
         /\ popped' \in Nat
         /\ pc' \in [Workers -> {"loop", "try", "wait_and_pop", "block", "wait",
                                "woken", "work", "exited"}]
         /\ busy' \subseteq Nat
         /\ slipped' \in [Workers -> Nat]
<1> USE DEF TypeOK, TakeFront
<1>1. Head(deque_) \in Nat /\ Tail(deque_) \in Seq(Nat)
  OBVIOUS
<1>2. busy' \subseteq Nat
  BY <1>1
<1>3. slipped' \in [Workers -> Nat]
  OBVIOUS
<1> QED
  BY <1>1, <1>2, <1>3

\* The state of task_base always has the types its declarations give it.
THEOREM TypeCorrect == Spec => []TypeOK
<1>1. Init => TypeOK
  <2>1. Init => stop_ \in BOOLEAN
    BY Zenon DEF Init
  <2> QED
    BY <2>1 DEF Init, TypeOK
<1>2. TypeOK /\ [Next]_vars => TypeOK'
  <2> SUFFICES ASSUME TypeOK, [Next]_vars PROVE TypeOK'
    OBVIOUS
  <2> USE DEF TypeOK
  <2>1. ASSUME NEW p \in Producers, Push(p) PROVE TypeOK'
    BY <2>1 DEF Push
  <2>2. ASSUME NEW p \in Producers, NotifyOne(p) PROVE TypeOK'
    BY <2>2 DEF NotifyOne, Released, Waiters
  <2>3. ASSUME NEW w \in Workers, LoopTop(w) PROVE TypeOK'
    BY <2>3 DEF LoopTop, Exit
  <2>4. ASSUME NEW w \in Workers, TryPopEmpty(w) PROVE TypeOK'
    BY <2>4 DEF TryPopEmpty
  <2>5. ASSUME NEW w \in Workers, TryPop(w) PROVE TypeOK'
    BY <2>5, TakeFrontTypes DEF TryPop
  <2>6. ASSUME NEW w \in Workers, DecideToWait(w) PROVE TypeOK'
    BY <2>6 DEF DecideToWait
  <2>7. ASSUME NEW w \in Workers, EnterWait(w) PROVE TypeOK'
    BY <2>7 DEF EnterWait, Exit
  <2>8. ASSUME NEW w \in Workers, WaitStopped(w) PROVE TypeOK'
    BY <2>8 DEF WaitStopped, Exit
  <2>9. ASSUME NEW w \in Workers, WaitInterrupted(w) PROVE TypeOK'
    BY <2>9 DEF WaitInterrupted, Exit
  <2>10. ASSUME NEW w \in Workers, WaitAndPop(w) PROVE TypeOK'
    BY <2>10, TakeFrontTypes DEF WaitAndPop
  <2>11. ASSUME NEW w \in Workers, DoWork(w) PROVE TypeOK'
    BY <2>11 DEF DoWork
  <2>12. ASSUME NEW w \in Workers, SpuriousWakeup(w) PROVE TypeOK'
    BY <2>12 DEF SpuriousWakeup, Released
  <2>13. CASE SetStop
    BY <2>13 DEF SetStop
  <2>14. CASE NotifyAll
    BY <2>14 DEF NotifyAll, Released
  <2>15. ASSUME NEW w \in Workers, Interrupt(w) PROVE TypeOK'
    BY <2>15 DEF Interrupt, Released
  <2>16. CASE StartJoin
    BY <2>16 DEF StartJoin
  <2>17. CASE JoinAll
    BY <2>17 DEF JoinAll
  <2>18. CASE UNCHANGED vars
    BY <2>18 DEF vars
  <2> QED
    BY <2>1, <2>2, <2>3, <2>4, <2>5, <2>6, <2>7, <2>8, <2>9, <2>10, <2>11,
       <2>12, <2>13, <2>14, <2>15, <2>16, <2>17, <2>18
    DEF Next, WorkerStep, StopperStep, Terminated
<1> QED
  BY <1>1, <1>2, PTL DEF Spec
\* The window between the wait test and the wait is closed to push.
THEOREM MutexHeld == Spec => []MutexInv
<1>1. Init => MutexInv
  BY WorkersAssumption DEF Init, MutexInv
<1>2. TypeOK /\ MutexInv /\ [Next]_vars => MutexInv'
  <2> SUFFICES ASSUME TypeOK, MutexInv, [Next]_vars PROVE MutexInv'
    OBVIOUS
  <2> USE WorkersAssumption DEF TypeOK, MutexInv
  <2>1. ASSUME NEW p \in Producers, Push(p) PROVE MutexInv'
    BY <2>1 DEF Push
  <2>2. ASSUME NEW p \in Producers, NotifyOne(p) PROVE MutexInv'
    BY <2>2 DEF NotifyOne, Released, Waiters
  <2>3. ASSUME NEW w \in Workers, LoopTop(w) PROVE MutexInv'
    BY <2>3 DEF LoopTop, Exit
  <2>4. ASSUME NEW w \in Workers, TryPopEmpty(w) PROVE MutexInv'
    BY <2>4 DEF TryPopEmpty
  <2>5. ASSUME NEW w \in Workers, TryPop(w) PROVE MutexInv'
    BY <2>5 DEF TryPop, TakeFront
  <2>6. ASSUME NEW w \in Workers, DecideToWait(w) PROVE MutexInv'
    BY <2>6 DEF DecideToWait, AtWaitTest
  <2>7. ASSUME NEW w \in Workers, EnterWait(w) PROVE MutexInv'
    BY <2>7 DEF EnterWait, Exit
  <2>8. ASSUME NEW w \in Workers, WaitStopped(w) PROVE MutexInv'
    BY <2>8 DEF WaitStopped, AtWaitTest, Exit
  <2>9. ASSUME NEW w \in Workers, WaitInterrupted(w) PROVE MutexInv'
    BY <2>9 DEF WaitInterrupted, Exit
  <2>10. ASSUME NEW w \in Workers, WaitAndPop(w) PROVE MutexInv'
    BY <2>10 DEF WaitAndPop, AtWaitTest, TakeFront
  <2>11. ASSUME NEW w \in Workers, DoWork(w) PROVE MutexInv'
    BY <2>11 DEF DoWork
  <2>12. ASSUME NEW w \in Workers, SpuriousWakeup(w) PROVE MutexInv'
    BY <2>12 DEF SpuriousWakeup, Released
  <2>13. CASE SetStop
    BY <2>13 DEF SetStop
  <2>14. CASE NotifyAll
    BY <2>14 DEF NotifyAll, Released, Waiters
  <2>15. ASSUME NEW w \in Workers, Interrupt(w) PROVE MutexInv'
    BY <2>15 DEF Interrupt, Released, Waiters
  <2>16. CASE StartJoin
    BY <2>16 DEF StartJoin
  <2>17. CASE JoinAll
    BY <2>17 DEF JoinAll
  <2>18. CASE UNCHANGED vars
    BY <2>18 DEF vars
  <2> QED
    BY <2>1, <2>2, <2>3, <2>4, <2>5, <2>6, <2>7, <2>8, <2>9, <2>10,
       <2>11, <2>12, <2>13, <2>14, <2>15, <2>16, <2>17, <2>18
    DEF Next, WorkerStep, StopperStep, Terminated
<1> QED
  BY <1>1, <1>2, TypeCorrect, PTL DEF Spec

\* Shutdown reaches every worker: the bookkeeping of io_service_provide::stop.
THEOREM StopProgress == Spec => []StopInv
<1>1. Init => StopInv
  BY Zenon DEF Init, StopInv
<1>2. TypeOK /\ StopInv /\ [Next]_vars => StopInv'
  <2> SUFFICES ASSUME TypeOK, StopInv, [Next]_vars PROVE StopInv'
    OBVIOUS
  <2> USE DEF TypeOK, StopInv
  <2>1. ASSUME NEW p \in Producers, Push(p) PROVE StopInv'
    BY <2>1 DEF Push
  <2>2. ASSUME NEW p \in Producers, NotifyOne(p) PROVE StopInv'
    BY <2>2 DEF NotifyOne, Released, Waiters
  <2>3. ASSUME NEW w \in Workers, LoopTop(w) PROVE StopInv'
    BY <2>3 DEF LoopTop, Exit
  <2>4. ASSUME NEW w \in Workers, TryPopEmpty(w) PROVE StopInv'
    BY <2>4 DEF TryPopEmpty
  <2>5. ASSUME NEW w \in Workers, TryPop(w) PROVE StopInv'
    BY <2>5 DEF TryPop, TakeFront
  <2>6. ASSUME NEW w \in Workers, DecideToWait(w) PROVE StopInv'
    BY <2>6 DEF DecideToWait, AtWaitTest
  <2>7. ASSUME NEW w \in Workers, EnterWait(w) PROVE StopInv'
    BY <2>7 DEF EnterWait, Exit
  <2>8. ASSUME NEW w \in Workers, WaitStopped(w) PROVE StopInv'
    BY <2>8 DEF WaitStopped, AtWaitTest, Exit
  <2>9. ASSUME NEW w \in Workers, WaitInterrupted(w) PROVE StopInv'
    BY <2>9 DEF WaitInterrupted, Exit
  <2>10. ASSUME NEW w \in Workers, WaitAndPop(w) PROVE StopInv'
    BY <2>10 DEF WaitAndPop, AtWaitTest, TakeFront
  <2>11. ASSUME NEW w \in Workers, DoWork(w) PROVE StopInv'
    BY <2>11 DEF DoWork
  <2>12. ASSUME NEW w \in Workers, SpuriousWakeup(w) PROVE StopInv'
    BY <2>12 DEF SpuriousWakeup, Released
  <2>13. CASE SetStop
    BY <2>13 DEF SetStop
  <2>14. CASE NotifyAll
    BY <2>14 DEF NotifyAll, Released, Waiters
  <2>15. ASSUME NEW w \in Workers, Interrupt(w) PROVE StopInv'
    BY <2>15 DEF Interrupt, Released, Waiters
  <2>16. CASE StartJoin
    BY <2>16 DEF StartJoin
  <2>17. CASE JoinAll
    BY <2>17 DEF JoinAll
  <2>18. CASE UNCHANGED vars
    BY <2>18 DEF vars
  <2> QED
    BY <2>1, <2>2, <2>3, <2>4, <2>5, <2>6, <2>7, <2>8, <2>9, <2>10,
       <2>11, <2>12, <2>13, <2>14, <2>15, <2>16, <2>17, <2>18
    DEF Next, WorkerStep, StopperStep, Terminated
<1> QED
  BY <1>1, <1>2, TypeCorrect, PTL DEF Spec
\* When stop joins the workers none of them sleeps on condition_.
THEOREM NoSleeper == Spec => []NoSleeperAtJoin
<1>1. StopInv => NoSleeperAtJoin
  BY DEF StopInv, NoSleeperAtJoin
<1> QED
  BY <1>1, StopProgress, PTL

\* No wakeup is lost: while the server runs, a message in the queue always has
\* a worker that will look at the queue, or a notify_one that is still to come.
THEOREM WakeupKept == Spec => []NoLostWakeup
<1>1. Init => NoLostWakeup
  BY Zenon DEF Init, NoLostWakeup
<1>2. TypeOK /\ MutexInv /\ StopInv /\ NoLostWakeup /\ [Next]_vars => NoLostWakeup'
  <2> SUFFICES ASSUME TypeOK, MutexInv, StopInv, NoLostWakeup, [Next]_vars PROVE NoLostWakeup'
    OBVIOUS
  <2> USE WorkersAssumption DEF TypeOK, MutexInv, StopInv, NoLostWakeup
  <2>1. ASSUME NEW p \in Producers, Push(p) PROVE NoLostWakeup'
    BY <2>1 DEF Push
  <2>2. ASSUME NEW p \in Producers, NotifyOne(p) PROVE NoLostWakeup'
    <3>1. CASE Waiters = {}
      <4>1. ~stop_ /\ deque_ # <<>> =>
              \A w \in Workers : pc[w] \notin {"block", "wait", "exited"}
        BY <3>1 DEF Waiters
      <4>2. UNCHANGED <<pc, stop_, deque_>>
        BY <2>2, <3>1 DEF NotifyOne
      <4> QED
        BY <4>1, <4>2
    <3>2. CASE Waiters # {}
      <4>1. PICK w \in Workers : pc' = Released({w})
        BY <2>2, <3>2 DEF NotifyOne, Waiters
      <4>2. pc'[w] = "woken"
        BY <4>1 DEF Released
      <4> QED
        BY <4>2
    <3> QED
      BY <3>1, <3>2
  <2>3. ASSUME NEW w \in Workers, LoopTop(w) PROVE NoLostWakeup'
    BY <2>3 DEF LoopTop, Exit
  <2>4. ASSUME NEW w \in Workers, TryPopEmpty(w) PROVE NoLostWakeup'
    BY <2>4 DEF TryPopEmpty
  <2>5. ASSUME NEW w \in Workers, TryPop(w) PROVE NoLostWakeup'
    BY <2>5 DEF TryPop, TakeFront
  <2>6. ASSUME NEW w \in Workers, DecideToWait(w) PROVE NoLostWakeup'
    BY <2>6 DEF DecideToWait, AtWaitTest
  <2>7. ASSUME NEW w \in Workers, EnterWait(w) PROVE NoLostWakeup'
    BY <2>7 DEF EnterWait, Exit
  <2>8. ASSUME NEW w \in Workers, WaitStopped(w) PROVE NoLostWakeup'
    BY <2>8 DEF WaitStopped, AtWaitTest, Exit
  <2>9. ASSUME NEW w \in Workers, WaitInterrupted(w) PROVE NoLostWakeup'
    BY <2>9 DEF WaitInterrupted, Exit
  <2>10. ASSUME NEW w \in Workers, WaitAndPop(w) PROVE NoLostWakeup'
    BY <2>10 DEF WaitAndPop, AtWaitTest, TakeFront
  <2>11. ASSUME NEW w \in Workers, DoWork(w) PROVE NoLostWakeup'
    BY <2>11 DEF DoWork
  <2>12. ASSUME NEW w \in Workers, SpuriousWakeup(w) PROVE NoLostWakeup'
    BY <2>12 DEF SpuriousWakeup, Released
  <2>13. CASE SetStop
    BY <2>13 DEF SetStop
  <2>14. CASE NotifyAll
    BY <2>14 DEF NotifyAll, Released, Waiters
  <2>15. ASSUME NEW w \in Workers, Interrupt(w) PROVE NoLostWakeup'
    BY <2>15 DEF Interrupt, Released, Waiters
  <2>16. CASE StartJoin
    BY <2>16 DEF StartJoin
  <2>17. CASE JoinAll
    BY <2>17 DEF JoinAll
  <2>18. CASE UNCHANGED vars
    BY <2>18 DEF vars
  <2> QED
    BY <2>1, <2>2, <2>3, <2>4, <2>5, <2>6, <2>7, <2>8, <2>9, <2>10,
       <2>11, <2>12, <2>13, <2>14, <2>15, <2>16, <2>17, <2>18
    DEF Next, WorkerStep, StopperStep, Terminated
<1> QED
  BY <1>1, <1>2, TypeCorrect, MutexHeld, StopProgress, PTL DEF Spec

\* The unmarked overload pops of wait_and_pop are at most one per worker
\* between two moments at which the queue is empty.
THEOREM SlipBounded == Spec => []SlipInv
<1>1. Init => SlipInv
  BY DEF Init, SlipInv, SlipOnce
<1>2. TypeOK /\ SlipInv /\ [Next]_vars => SlipInv'
  <2> SUFFICES ASSUME TypeOK, SlipInv, [Next]_vars PROVE SlipInv'
    OBVIOUS
  <2> USE DEF TypeOK, SlipInv, SlipOnce
  <2>1. ASSUME NEW p \in Producers, Push(p) PROVE SlipInv'
    BY <2>1 DEF Push
  <2>2. ASSUME NEW p \in Producers, NotifyOne(p) PROVE SlipInv'
    BY <2>2 DEF NotifyOne, Released, Waiters
  <2>3. ASSUME NEW w \in Workers, LoopTop(w) PROVE SlipInv'
    BY <2>3 DEF LoopTop, Exit
  <2>4. ASSUME NEW w \in Workers, TryPopEmpty(w) PROVE SlipInv'
    BY <2>4 DEF TryPopEmpty
  <2>5. ASSUME NEW w \in Workers, TryPop(w) PROVE SlipInv'
    BY <2>5 DEF TryPop, TakeFront
  <2>6. ASSUME NEW w \in Workers, DecideToWait(w) PROVE SlipInv'
    BY <2>6 DEF DecideToWait, AtWaitTest
  <2>7. ASSUME NEW w \in Workers, EnterWait(w) PROVE SlipInv'
    BY <2>7 DEF EnterWait, Exit
  <2>8. ASSUME NEW w \in Workers, WaitStopped(w) PROVE SlipInv'
    BY <2>8 DEF WaitStopped, AtWaitTest, Exit
  <2>9. ASSUME NEW w \in Workers, WaitInterrupted(w) PROVE SlipInv'
    BY <2>9 DEF WaitInterrupted, Exit
  <2>10. ASSUME NEW w \in Workers, WaitAndPop(w) PROVE SlipInv'
    BY <2>10 DEF WaitAndPop, AtWaitTest, TakeFront
  <2>11. ASSUME NEW w \in Workers, DoWork(w) PROVE SlipInv'
    BY <2>11 DEF DoWork
  <2>12. ASSUME NEW w \in Workers, SpuriousWakeup(w) PROVE SlipInv'
    BY <2>12 DEF SpuriousWakeup, Released
  <2>13. CASE SetStop
    BY <2>13 DEF SetStop
  <2>14. CASE NotifyAll
    BY <2>14 DEF NotifyAll, Released, Waiters
  <2>15. ASSUME NEW w \in Workers, Interrupt(w) PROVE SlipInv'
    BY <2>15 DEF Interrupt, Released, Waiters
  <2>16. CASE StartJoin
    BY <2>16 DEF StartJoin
  <2>17. CASE JoinAll
    BY <2>17 DEF JoinAll
  <2>18. CASE UNCHANGED vars
    BY <2>18 DEF vars
  <2> QED
    BY <2>1, <2>2, <2>3, <2>4, <2>5, <2>6, <2>7, <2>8, <2>9, <2>10,
       <2>11, <2>12, <2>13, <2>14, <2>15, <2>16, <2>17, <2>18
    DEF Next, WorkerStep, StopperStep, Terminated
<1> QED
  BY <1>1, <1>2, TypeCorrect, PTL DEF Spec

\* The bound itself, for every worker in every reachable state.
THEOREM SlipOnceAlways == Spec => []SlipOnce
<1>1. SlipInv => SlipOnce
  BY DEF SlipInv
<1> QED
  BY <1>1, SlipBounded, PTL

\* The front of the queue is the oldest message not yet popped, and taking it
\* adds exactly that message to the workers' hands.
LEMMA TakeFrontHands ==
  ASSUME TypeOK, OnceInv, NEW w \in Workers, NEW mark, pc[w] # "work",
         deque_ # <<>>, TakeFront(w, mark)
  PROVE  /\ Head(deque_) = popped + 1
         /\ hand' = [hand EXCEPT ![w] = popped + 1]
         /\ Hands' = Hands \cup {popped + 1}
<1>1. Len(deque_) >= 1 /\ Head(deque_) = deque_[1]
  BY DEF TypeOK
<1>2. Head(deque_) = popped + 1
  BY <1>1 DEF TypeOK, OnceInv, EachMessageOnce
<1>3. hand' = [hand EXCEPT ![w] = popped + 1]
  BY <1>2 DEF TakeFront
<1>4. hand[w] = 0
  BY DEF OnceInv
<1>5. Hands' = Hands \cup {popped + 1}
  BY <1>3, <1>4 DEF Hands, TypeOK
<1> QED
  BY <1>2, <1>3, <1>5

\* Either way of popping keeps every message in one place.
LEMMA TakeFrontOnce ==
  ASSUME TypeOK, OnceInv, NEW w \in Workers, NEW mark, pc[w] # "work",
         deque_ # <<>>, TakeFront(w, mark), UNCHANGED <<pushed, handled>>
  PROVE  OnceInv'
<1> USE DEF TypeOK
<1>1. popped' = popped + 1 /\ handled' = handled
  BY DEF TakeFront
<1>h. /\ hand' = [hand EXCEPT ![w] = popped + 1]
      /\ Hands' = Hands \cup {popped + 1}
  BY TakeFrontHands
<1>2. /\ Len(deque_') = pushed' - popped'
      /\ \A i \in 1..Len(deque_') : deque_'[i] = popped' + i
  <2>1. Len(Tail(deque_)) = Len(deque_) - 1
    OBVIOUS
  <2>2. \A i \in 1..Len(Tail(deque_)) : Tail(deque_)[i] = deque_[i + 1]
    OBVIOUS
  <2> QED
    BY <1>1, <2>1, <2>2 DEF TakeFront, OnceInv, EachMessageOnce
<1>3. handled' \cup Hands' = 1..popped'
  BY <1>1, <1>h DEF OnceInv, EachMessageOnce
<1>4. handled' \cap Hands' = {}
  BY <1>1, <1>h DEF OnceInv, EachMessageOnce
<1>5. \A u \in Workers : hand[u] # popped + 1
  BY DEF OnceInv, EachMessageOnce, Hands
<1>6. \A u, v \in Workers : u # v /\ hand'[u] = hand'[v] => hand'[u] = 0
  BY <1>5, <1>h DEF OnceInv, EachMessageOnce
<1>7. \A u \in Workers : hand'[u] # 0 <=> pc'[u] = "work"
  BY <1>h DEF TakeFront, OnceInv
<1>8. pushed' <= MaxPush
  BY DEF OnceInv
<1> QED
  BY <1>2, <1>3, <1>4, <1>6, <1>7, <1>8 DEF OnceInv, EachMessageOnce

\* Messages are neither lost, repeated nor reordered by the queue.
THEOREM OnceInvariant == Spec => []OnceInv
<1>1. Init => OnceInv
  BY BoundsAssumption DEF Init, OnceInv, EachMessageOnce, Hands
<1>2. TypeOK /\ OnceInv /\ [Next]_vars => OnceInv'
  <2> SUFFICES ASSUME TypeOK, OnceInv, [Next]_vars PROVE OnceInv'
    OBVIOUS
  <2>1. ASSUME NEW p \in Producers, Push(p) PROVE OnceInv'
    <3>1. Len(deque_') = Len(deque_) + 1
      BY <2>1 DEF Push, TypeOK
    <3>2. \A i \in 1..Len(deque_) : deque_'[i] = deque_[i]
      BY <2>1 DEF Push, TypeOK
    <3>3. deque_'[Len(deque_) + 1] = pushed + 1
      BY <2>1 DEF Push, TypeOK
    <3>4. pushed' = pushed + 1 /\ UNCHANGED <<popped, hand, handled, pc>>
      BY <2>1 DEF Push
    <3>5. Hands' = Hands
      BY <3>4 DEF Hands
    <3>6. /\ Len(deque_') = pushed' - popped'
          /\ \A i \in 1..Len(deque_') : deque_'[i] = popped' + i
      <4>1. /\ Len(deque_) = pushed - popped /\ Len(deque_) \in Nat
            /\ pushed \in Nat /\ popped \in Nat
        BY DEF TypeOK, OnceInv, EachMessageOnce
      <4>2. \A i \in 1..Len(deque_') :
               i \in 1..Len(deque_) \/ i = Len(deque_) + 1
        BY <3>1, <4>1
      <4>3. \A i \in 1..Len(deque_) : deque_[i] = popped + i
        BY DEF OnceInv, EachMessageOnce
      <4>4. ASSUME NEW i \in 1..Len(deque_') PROVE deque_'[i] = popped + i
        <5>1. CASE i \in 1..Len(deque_)
          BY <3>2, <4>3, <5>1
        <5>2. CASE i = Len(deque_) + 1
          BY <3>3, <4>1, <5>2
        <5> QED
          BY <4>2, <5>1, <5>2
      <4> QED
        BY <3>1, <3>4, <4>1, <4>4
    <3>7. pushed' <= MaxPush
      BY <2>1, BoundsAssumption DEF Push, TypeOK
    <3> QED
      BY <3>4, <3>5, <3>6, <3>7 DEF OnceInv, EachMessageOnce
  <2> USE DEF TypeOK, OnceInv, EachMessageOnce, Hands
  <2>2. ASSUME NEW p \in Producers, NotifyOne(p) PROVE OnceInv'
    BY <2>2 DEF NotifyOne, Released, Waiters
  <2>3. ASSUME NEW w \in Workers, LoopTop(w) PROVE OnceInv'
    BY <2>3 DEF LoopTop, Exit
  <2>4. ASSUME NEW w \in Workers, TryPopEmpty(w) PROVE OnceInv'
    BY <2>4 DEF TryPopEmpty
  <2>5. ASSUME NEW w \in Workers, TryPop(w) PROVE OnceInv'
    BY <2>5, TakeFrontOnce DEF TryPop
  <2>6. ASSUME NEW w \in Workers, DecideToWait(w) PROVE OnceInv'
    BY <2>6 DEF DecideToWait, AtWaitTest
  <2>7. ASSUME NEW w \in Workers, EnterWait(w) PROVE OnceInv'
    BY <2>7 DEF EnterWait, Exit
  <2>8. ASSUME NEW w \in Workers, WaitStopped(w) PROVE OnceInv'
    BY <2>8 DEF WaitStopped, AtWaitTest, Exit
  <2>9. ASSUME NEW w \in Workers, WaitInterrupted(w) PROVE OnceInv'
    BY <2>9 DEF WaitInterrupted, Exit
  <2>10. ASSUME NEW w \in Workers, WaitAndPop(w) PROVE OnceInv'
    BY <2>10, TakeFrontOnce DEF WaitAndPop, AtWaitTest
  <2>11. ASSUME NEW w \in Workers, DoWork(w) PROVE OnceInv'
    BY <2>11 DEF DoWork
  <2>12. ASSUME NEW w \in Workers, SpuriousWakeup(w) PROVE OnceInv'
    BY <2>12 DEF SpuriousWakeup, Released
  <2>13. CASE SetStop
    BY <2>13 DEF SetStop
  <2>14. CASE NotifyAll
    BY <2>14 DEF NotifyAll, Released, Waiters
  <2>15. ASSUME NEW w \in Workers, Interrupt(w) PROVE OnceInv'
    BY <2>15 DEF Interrupt, Released, Waiters
  <2>16. CASE StartJoin
    BY <2>16 DEF StartJoin
  <2>17. CASE JoinAll
    BY <2>17 DEF JoinAll
  <2>18. CASE UNCHANGED vars
    BY <2>18 DEF vars
  <2> QED
    BY <2>1, <2>2, <2>3, <2>4, <2>5, <2>6, <2>7, <2>8, <2>9, <2>10,
       <2>11, <2>12, <2>13, <2>14, <2>15, <2>16, <2>17, <2>18
    DEF Next, WorkerStep, StopperStep, Terminated
<1> QED
  BY <1>1, <1>2, TypeCorrect, PTL DEF Spec
\* Messages are neither lost, repeated nor reordered by the queue.
THEOREM EachMessageOnceAlways == Spec => []EachMessageOnce
<1>1. OnceInv => EachMessageOnce
  BY DEF OnceInv
<1> QED
  BY <1>1, OnceInvariant, PTL

----------------------------------------------------------------------------
(* TaskQueue implements TaskChannel: the safety half of ImplementsChannel   *)
(* (its fairness is checked by TLC).                                        *)

\* What a pop by either way is in the channel: the front message is served.
LEMMA TakeFrontIsGet ==
  ASSUME TypeOK, OnceInv, NEW w \in Workers, NEW mark, pc[w] # "work",
         deque_ # <<>>, TakeFront(w, mark), UNCHANGED <<handled, stop_>>
  PROVE  Channel!Get
<1>1. /\ Head(deque_) = popped + 1
      /\ Hands' = Hands \cup {popped + 1}
  BY TakeFrontHands
<1>2. popped + 1 \notin Hands \cup handled
  BY DEF OnceInv, EachMessageOnce, TypeOK
<1> QED
  BY <1>1, <1>2 DEF Channel!Get, TakeFront

\* Every step of the queue is a step of the FIFO channel or changes nothing
\* the channel shows.
THEOREM ChannelRefinement == Spec => Channel!Safety
<1>1. Init => Channel!Init
  BY DEF Init, Channel!Init, Hands
<1>2. TypeOK /\ OnceInv /\ [Next]_vars => [Channel!Next]_Channel!chan
  <2> SUFFICES ASSUME TypeOK, OnceInv, [Next]_vars
               PROVE  Channel!Next \/ UNCHANGED Channel!chan
    BY DEF Channel!chan
  <2>1. ASSUME NEW p \in Producers, Push(p) PROVE Channel!Next
    <3>1. pushed + 1 \in 1..MaxPush
      BY <2>1, BoundsAssumption DEF Push, TypeOK
    <3>2. pushed + 1 \notin Channel!Queued
      BY DEF Channel!Queued, OnceInv, EachMessageOnce, TypeOK
    <3>3. pushed + 1 \notin Hands \cup handled
      <4>1. popped <= pushed
        BY DEF OnceInv, EachMessageOnce, TypeOK
      <4> QED
        BY <4>1 DEF OnceInv, EachMessageOnce, TypeOK
    <3>4. Channel!Put(pushed + 1)
      BY <2>1, <3>2, <3>3 DEF Push, Channel!Put, Hands
    <3> QED
      BY <3>1, <3>4 DEF Channel!Next
  <2>2. ASSUME NEW w \in Workers, TryPop(w) PROVE Channel!Next
    BY <2>2, TakeFrontIsGet DEF TryPop, Channel!Next
  <2>3. ASSUME NEW w \in Workers, WaitAndPop(w) PROVE Channel!Next
    BY <2>3, TakeFrontIsGet DEF WaitAndPop, AtWaitTest, Channel!Next
  <2>4. ASSUME NEW w \in Workers, DoWork(w) PROVE Channel!Next
    <3>1. hand[w] \in Hands /\ hand[w] # 0
      BY <2>4 DEF DoWork, OnceInv, Hands
    <3>2. hand[w] \in 1..MaxPush
      <4>1. popped <= MaxPush
        BY BoundsAssumption DEF OnceInv, EachMessageOnce, TypeOK
      <4> QED
        BY <3>1, <4>1, BoundsAssumption DEF OnceInv, EachMessageOnce, TypeOK
    <3>3. Hands' = Hands \ {hand[w]}
      BY <2>4, <3>1 DEF DoWork, Hands, OnceInv, EachMessageOnce, TypeOK
    <3>4. Channel!Finish(hand[w])
      BY <2>4, <3>1, <3>3 DEF DoWork, Channel!Finish
    <3> QED
      BY <3>2, <3>4 DEF Channel!Next
  <2>5. CASE SetStop
    BY <2>5 DEF SetStop, Channel!Next, Channel!Close, Hands
  <2>6. ASSUME UNCHANGED <<deque_, hand, handled, stop_>>
        PROVE  UNCHANGED Channel!chan
    BY <2>6 DEF Channel!chan, Hands
  <2> QED
    BY <2>1, <2>2, <2>3, <2>4, <2>5, <2>6
    DEF Next, WorkerStep, StopperStep, Terminated, vars, NotifyOne, LoopTop, TryPopEmpty,
        DecideToWait, EnterWait, WaitStopped, WaitInterrupted, SpuriousWakeup,
        NotifyAll, Interrupt, StartJoin, JoinAll
<1> QED
  BY <1>1, <1>2, TypeCorrect, OnceInvariant, PTL DEF Spec, Channel!Safety
=============================================================================
