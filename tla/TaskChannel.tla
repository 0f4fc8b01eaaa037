---------------------------- MODULE TaskChannel ----------------------------
(***************************************************************************)
(* What task_base promises to the sessions that push into it, without its  *)
(* mutex, condition variable, overload path or thread shutdown: a first-in *)
(* first-out channel with several servers.  TaskQueue implements it.       *)
(***************************************************************************)
EXTENDS Naturals, Sequences

CONSTANT Message

VARIABLES queue,    \* accepted messages nobody serves yet, oldest first
          serving,  \* messages being served
          done,     \* messages served
          closed    \* the server is being stopped; nothing is promised then

chan == <<queue, serving, done, closed>>

Init == queue = <<>> /\ serving = {} /\ done = {} /\ closed = FALSE

Queued == {queue[i] : i \in 1..Len(queue)}

Put(m) ==
  /\ m \notin Queued \cup serving \cup done
  /\ queue' = Append(queue, m)
  /\ UNCHANGED <<serving, done, closed>>

Get ==
  /\ queue # <<>>
  /\ Head(queue) \notin serving \cup done
  /\ serving' = serving \cup {Head(queue)}
  /\ queue' = Tail(queue)
  /\ UNCHANGED <<done, closed>>

Finish(m) ==
  /\ m \in serving
  /\ serving' = serving \ {m}
  /\ done' = done \cup {m}
  /\ UNCHANGED <<queue, closed>>

Close == closed' = TRUE /\ UNCHANGED <<queue, serving, done>>

Next == (\E m \in Message : Put(m) \/ Finish(m)) \/ Get \/ Close

Fairness ==
  /\ WF_chan(Get /\ ~closed)
  /\ \A m \in Message : WF_chan(Finish(m))

Safety == Init /\ [][Next]_chan

Spec == Safety /\ Fairness
=============================================================================
