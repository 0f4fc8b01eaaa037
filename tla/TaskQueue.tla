----------------------------- MODULE TaskQueue -----------------------------
(***************************************************************************)
(* The queue between the network threads and the worker threads:           *)
(* task_base (src/src/task_base.cpp), the overload mark of session_task    *)
(* (src/src/session_task.cpp) and the shutdown of the workers by           *)
(* io_service_provide::stop (src/include/io_service_provide.h).            *)
(*                                                                         *)
(* Producers are the threads that run session handlers (they reach push    *)
(* through after_body_get); workers run task_base::work; one stopper       *)
(* thread runs io_service_provide::stop.  The n-th pushed message is the   *)
(* number n.                                                               *)
(*                                                                         *)
(* Critical sections that neither block nor read stop_ in the middle are   *)
(* single steps guarded by a free mutex_.  The one that matters, from the  *)
(* test of the wait loop to the atomic "release and wait", is two steps    *)
(* with mutex_ held in between: stop_ is written without the mutex and     *)
(* can change there.                                                       *)
(***************************************************************************)
EXTENDS Integers, Sequences

CONSTANTS Workers,         \* threads of io_service_provide::task_
          Producers,       \* threads that call task_base::push
          task_queue_max,  \* configuration: size above which requests are marked
          MaxPush          \* bound of the model: messages pushed in a behaviour

NoOne == "no one"

\* main.cpp creates thread_cout() workers; with none the queue is never served.
ASSUME WorkersAssumption == Workers # {} /\ NoOne \notin Workers
ASSUME BoundsAssumption == task_queue_max \in Nat /\ MaxPush \in Nat

VARIABLES
  deque_,       \* task_base::deque_
  mutex_,       \* holder of task_base::mutex_ between two steps
  stop_,        \* task_base::stop_, written without mutex_
  pc,           \* where each worker is in work / try_pop / wait_and_pop
  hand,         \* the message a worker carries into do_work, 0 for none
  interrupted,  \* workers with a pending boost::thread::interrupt
  producer,     \* "idle", or "notify" between unlock and notify_one in push
  stopper,      \* progress of io_service_provide::stop
  pushed,       \* history: number of messages pushed
  popped,       \* history: number of messages popped
  handled,      \* history: messages whose do_work returned
  busy,         \* history: messages whose head was rewritten to cmd 1010
  slipped       \* history: overload pops each worker left unmarked since the
                \* queue was last empty

vars == <<deque_, mutex_, stop_, pc, hand, interrupted, producer, stopper,
          pushed, popped, handled, busy, slipped>>

history == <<pushed, popped, handled, busy, slipped>>

Overfull == Len(deque_) > task_queue_max

Init ==
  /\ deque_ = <<>>
  /\ mutex_ = NoOne
  /\ stop_ = FALSE
  /\ pc = [w \in Workers |-> "loop"]
  /\ hand = [w \in Workers |-> 0]
  /\ interrupted = {}
  /\ producer = [p \in Producers |-> "idle"]
  /\ stopper = "run"
  /\ pushed = 0
  /\ popped = 0
  /\ handled = {}
  /\ busy = {}
  /\ slipped = [w \in Workers |-> 0]

----------------------------------------------------------------------------
(* condition_ : a waiter leaves the wait set when it is notified and then   *)
(* competes for mutex_ again.                                               *)

Waiters == {w \in Workers : pc[w] = "wait"}

\* pc after the threads of S, all waiting, have been released from the wait.
Released(S) == [w \in Workers |-> IF w \in S THEN "woken" ELSE pc[w]]

----------------------------------------------------------------------------
(* Producers.                                                               *)

\* push: the append under mutex_.
Push(p) ==
  /\ producer[p] = "idle"
  /\ mutex_ = NoOne
  /\ pushed < MaxPush
  /\ deque_' = Append(deque_, pushed + 1)
  /\ pushed' = pushed + 1
  /\ producer' = [producer EXCEPT ![p] = "notify"]
  /\ UNCHANGED <<mutex_, stop_, pc, hand, interrupted, stopper,
                 popped, handled, busy, slipped>>

\* push: notify_one after the unlock; it is lost when nobody waits.
NotifyOne(p) ==
  /\ producer[p] = "notify"
  /\ producer' = [producer EXCEPT ![p] = "idle"]
  /\ \/ Waiters = {} /\ UNCHANGED pc
     \/ \E w \in Waiters : pc' = Released({w})
  /\ UNCHANGED <<deque_, mutex_, stop_, hand, interrupted, stopper, history>>

----------------------------------------------------------------------------
(* Workers.                                                                 *)

Exit(w) == pc' = [pc EXCEPT ![w] = "exited"]

\* work: the loop condition and the interruption point behind it.
LoopTop(w) ==
  /\ pc[w] = "loop"
  /\ IF stop_ \/ w \in interrupted
       THEN Exit(w)
       ELSE pc' = [pc EXCEPT ![w] = "try"]
  /\ UNCHANGED <<deque_, mutex_, stop_, hand, interrupted, producer, stopper,
                 history>>

\* Fault: try_pop reads front() after pop_front, garbage on the last message.
TakeFrontReadLate(w, mark) ==
  /\ hand' = [hand EXCEPT ![w] = IF Len(deque_) > 1 THEN deque_[2] ELSE -1]
  /\ deque_' = Tail(deque_)
  /\ popped' = popped + 1
  /\ pc' = [pc EXCEPT ![w] = "work"]
  /\ UNCHANGED <<busy, slipped>>

\* Fault: the pop_front is forgotten.
TakeFrontKept(w, mark) ==
  /\ hand' = [hand EXCEPT ![w] = Head(deque_)]
  /\ popped' = popped + 1
  /\ pc' = [pc EXCEPT ![w] = "work"]
  /\ UNCHANGED <<deque_, busy, slipped>>

\* The front message leaves the queue in w's hand, its head rewritten to
\* cmd 1010 if mark.
TakeFront(w, mark) ==
  /\ hand' = [hand EXCEPT ![w] = Head(deque_)]
  /\ deque_' = Tail(deque_)
  /\ popped' = popped + 1
  /\ pc' = [pc EXCEPT ![w] = "work"]
  /\ busy' = IF mark THEN busy \cup {Head(deque_)} ELSE busy
  /\ slipped' = [v \in Workers |->
                   IF Tail(deque_) = <<>> THEN 0
                   ELSE IF v = w /\ Overfull /\ ~mark THEN slipped[v] + 1
                   ELSE slipped[v]]

\* try_pop on an empty queue returns false.
TryPopEmpty(w) ==
  /\ pc[w] = "try"
  /\ mutex_ = NoOne
  /\ deque_ = <<>>
  /\ pc' = [pc EXCEPT ![w] = "wait_and_pop"]
  /\ UNCHANGED <<deque_, mutex_, stop_, hand, interrupted, producer, stopper,
                 history>>

\* Fault: try_pop, like wait_and_pop, never looks at task_queue_max.
TryPopUnmarked(w) ==
  /\ pc[w] = "try"
  /\ mutex_ = NoOne
  /\ deque_ # <<>>
  /\ TakeFront(w, FALSE)
  /\ UNCHANGED <<mutex_, stop_, interrupted, producer, stopper, pushed, handled>>

\* try_pop: the front message, marked by full_queue_event when the queue,
\* this message included, is longer than task_queue_max.
TryPop(w) ==
  /\ pc[w] = "try"
  /\ mutex_ = NoOne
  /\ deque_ # <<>>
  /\ TakeFront(w, Overfull)
  /\ UNCHANGED <<mutex_, stop_, interrupted, producer, stopper, pushed, handled>>

\* Has w the mutex in wait_and_pop, at the test of the loop?  A woken thread
\* passes the interruption point at the end of condition_.wait first.
AtWaitTest(w) ==
  /\ mutex_ = NoOne
  /\ \/ pc[w] = "wait_and_pop"
     \/ pc[w] = "woken" /\ w \notin interrupted

\* Fault: the mutex is released between the test and the wait.
DecideToWaitUnlocked(w) ==
  /\ AtWaitTest(w)
  /\ deque_ = <<>> /\ ~stop_
  /\ pc' = [pc EXCEPT ![w] = "block"]
  /\ UNCHANGED <<deque_, mutex_, stop_, hand, interrupted, producer, stopper,
                 history>>

\* wait_and_pop: the loop test holds; the mutex is kept until the wait.
DecideToWait(w) ==
  /\ AtWaitTest(w)
  /\ deque_ = <<>> /\ ~stop_
  /\ mutex_' = w
  /\ pc' = [pc EXCEPT ![w] = "block"]
  /\ UNCHANGED <<deque_, stop_, hand, interrupted, producer, stopper, history>>

\* Fault: the wait ignores an interrupt that is already pending.
EnterWaitUninterruptible(w) ==
  /\ pc[w] = "block"
  /\ mutex_' = NoOne
  /\ pc' = [pc EXCEPT ![w] = "wait"]
  /\ UNCHANGED <<deque_, stop_, hand, interrupted, producer, stopper, history>>

\* condition_.wait: entering it is an interruption point; otherwise the mutex
\* is released and the thread joins the waiters in one step.
EnterWait(w) ==
  /\ pc[w] = "block"
  /\ mutex_' = NoOne
  /\ IF w \in interrupted
       THEN Exit(w)
       ELSE pc' = [pc EXCEPT ![w] = "wait"]
  /\ UNCHANGED <<deque_, stop_, hand, interrupted, producer, stopper, history>>

\* wait_and_pop: stop_ is seen, the runtime_error ends work.
WaitStopped(w) ==
  /\ AtWaitTest(w)
  /\ stop_
  /\ Exit(w)
  /\ UNCHANGED <<deque_, mutex_, stop_, hand, interrupted, producer, stopper,
                 history>>

\* condition_.wait throws thread_interrupted once it has the mutex again.
WaitInterrupted(w) ==
  /\ pc[w] = "woken" /\ w \in interrupted
  /\ mutex_ = NoOne
  /\ Exit(w)
  /\ UNCHANGED <<deque_, mutex_, stop_, hand, interrupted, producer, stopper,
                 history>>

\* wait_and_pop: the front message, never compared with task_queue_max.
WaitAndPop(w) ==
  /\ AtWaitTest(w)
  /\ deque_ # <<>> /\ ~stop_
  /\ TakeFront(w, FALSE)
  /\ UNCHANGED <<mutex_, stop_, interrupted, producer, stopper, pushed, handled>>

\* Fault: what a responder throws reaches work, whose handler ends the thread.
DoWorkThrows(w) ==
  /\ pc[w] = "work"
  /\ handled' = handled \cup {hand[w]}
  /\ hand' = [hand EXCEPT ![w] = 0]
  /\ Exit(w)
  /\ UNCHANGED <<deque_, mutex_, stop_, interrupted, producer, stopper,
                 pushed, popped, busy, slipped>>

\* do_work returns: what a responder throws is caught inside it
\* (logic_deal_processing::do_work), so the worker always loops.
DoWork(w) ==
  /\ pc[w] = "work"
  /\ handled' = handled \cup {hand[w]}
  /\ hand' = [hand EXCEPT ![w] = 0]
  /\ pc' = [pc EXCEPT ![w] = "loop"]
  /\ UNCHANGED <<deque_, mutex_, stop_, interrupted, producer, stopper,
                 pushed, popped, busy, slipped>>

\* pthread_cond_wait may return without a notification.
SpuriousWakeup(w) ==
  /\ pc[w] = "wait"
  /\ pc' = Released({w})
  /\ UNCHANGED <<deque_, mutex_, stop_, hand, interrupted, producer, stopper,
                 history>>

----------------------------------------------------------------------------
(* The stopper: io_service_provide::stop.                                   *)

SetStop ==
  /\ stopper = "run"
  /\ stop_' = TRUE
  /\ stopper' = "notifiy_all"
  /\ UNCHANGED <<deque_, mutex_, pc, hand, interrupted, producer, history>>

NotifyAll ==
  /\ stopper = "notifiy_all"
  /\ pc' = Released(Waiters)
  /\ stopper' = "interrupt_all"
  /\ UNCHANGED <<deque_, mutex_, stop_, hand, interrupted, producer, history>>

\* boost::thread::interrupt on one worker of the group: the request is
\* recorded, and a worker inside condition_.wait has the condition broadcast.
Interrupt(w) ==
  /\ stopper = "interrupt_all"
  /\ w \notin interrupted
  /\ interrupted' = interrupted \cup {w}
  /\ pc' = IF pc[w] = "wait" THEN Released(Waiters) ELSE pc
  /\ UNCHANGED <<deque_, mutex_, stop_, hand, producer, stopper, history>>

\* Fault: stop joins after notifiy_all, without interrupt_all.
StartJoinAtOnce ==
  /\ stopper = "interrupt_all"
  /\ stopper' = "join_all"
  /\ UNCHANGED <<deque_, mutex_, stop_, pc, hand, interrupted, producer, history>>

\* interrupt_all has been through the whole group.
StartJoin ==
  /\ stopper = "interrupt_all"
  /\ interrupted = Workers
  /\ stopper' = "join_all"
  /\ UNCHANGED <<deque_, mutex_, stop_, pc, hand, interrupted, producer, history>>

JoinAll ==
  /\ stopper = "join_all"
  /\ \A w \in Workers : pc[w] = "exited"
  /\ stopper' = "joined"
  /\ UNCHANGED <<deque_, mutex_, stop_, pc, hand, interrupted, producer, history>>

----------------------------------------------------------------------------

WorkerStep(w) ==
  \/ LoopTop(w) \/ TryPopEmpty(w) \/ TryPop(w)
  \/ DecideToWait(w) \/ EnterWait(w) \/ WaitStopped(w) \/ WaitInterrupted(w)
  \/ WaitAndPop(w) \/ DoWork(w)

StopperStep == NotifyAll \/ (\E w \in Workers : Interrupt(w)) \/ StartJoin \/ JoinAll

\* After the join the process exits; until then some thread can always move.
Terminated == stopper = "joined" /\ UNCHANGED vars

Next ==
  \/ \E p \in Producers : Push(p) \/ NotifyOne(p)
  \/ \E w \in Workers : WorkerStep(w) \/ SpuriousWakeup(w)
  \/ SetStop
  \/ StopperStep
  \/ Terminated

\* Threads that can run do run; a responder returns from do_work.  Nothing
\* forces a message to arrive, a stop to be asked for or a spurious wakeup.
Fairness ==
  /\ \A p \in Producers : WF_vars(NotifyOne(p))
  /\ \A w \in Workers : WF_vars(WorkerStep(w))
  /\ WF_vars(StopperStep)

Spec == Init /\ [][Next]_vars /\ Fairness

----------------------------------------------------------------------------
(* Properties.                                                              *)

\* The types of the queue, of the threads and of what has happened so far.
TypeOK ==
  /\ deque_ \in Seq(Nat)
  /\ mutex_ \in Workers \cup {NoOne}
  /\ stop_ \in BOOLEAN
  /\ pc \in [Workers -> {"loop", "try", "wait_and_pop", "block", "wait",
                         "woken", "work", "exited"}]
  /\ hand \in [Workers -> Nat]
  /\ interrupted \subseteq Workers
  /\ producer \in [Producers -> {"idle", "notify"}]
  /\ stopper \in {"run", "notifiy_all", "interrupt_all", "join_all", "joined"}
  /\ pushed \in Nat /\ popped \in Nat
  /\ handled \subseteq Nat /\ busy \subseteq Nat
  /\ slipped \in [Workers -> Nat]

Hands == {hand[w] : w \in Workers} \ {0}

\* Messages leave the queue in the order push received them, and every popped
\* message is in exactly one worker's hand or has been handled exactly once:
\* neither the two ways of popping (try_pop, wait_and_pop) nor a spurious
\* wakeup loses, repeats or reorders one.
EachMessageOnce ==
  /\ Len(deque_) = pushed - popped
  /\ \A i \in 1..Len(deque_) : deque_[i] = popped + i
  /\ handled \cup Hands = 1..popped
  /\ handled \cap Hands = {}
  /\ \A v, w \in Workers : v # w /\ hand[v] = hand[w] => hand[v] = 0

\* While the server runs, a non-empty queue is never left with every worker
\* asleep and no notify_one on its way, although push notifies after the
\* unlock and the notification is lost when nobody waits.
NoLostWakeup ==
  ~stop_ /\ deque_ # <<>> =>
    \/ \E w \in Workers : pc[w] \notin {"block", "wait", "exited"}
    \/ \E p \in Producers : producer[p] = "notify"

\* Once io_service_provide::stop joins the workers no worker is asleep on
\* condition_: stop_ is written without mutex_, so notifiy_all alone can fall
\* between a worker's test of stop_ and its wait.
NoSleeperAtJoin ==
  stopper \in {"join_all", "joined"} => \A w \in Workers : pc[w] # "wait"

\* wait_and_pop skips the overload check of try_pop.  Until the queue has
\* been empty again, each worker lets at most one message of an overfull
\* queue through without the busy mark.
SlipOnce == \A w \in Workers : slipped[w] <= 1

\* Seen through this mapping task_base is the many-server FIFO channel of
\* TaskChannel: pushes enter at the end, a worker serves the front, what is
\* served finishes once, and an accepted message is served unless stopped.
Channel == INSTANCE TaskChannel
             WITH Message <- 1..MaxPush, queue <- deque_, serving <- Hands,
                  done <- handled, closed <- stop_

ImplementsChannel == Channel!Spec

\* A stop that was asked for joins all workers.
ShutdownCompletes == stop_ ~> (stopper = "joined")
=============================================================================
