------------------------ MODULE MCRequestProcessing ------------------------
(* RequestProcessing for TLC: every command, with the requests that take    *)
(* different ways through do_work, on two connections to one server and on  *)
(* an accepted one; users may also be on a server there is no link to.      *)
EXTENDS RequestProcessing

MCServerOf == [l \in Links |-> "s1"]

On(id, c, s, p) == [id |-> id, cmd |-> c, wrap |-> s, packet |-> p]

MCRequests ==
  {On("a", 200, "full", p) : p \in {23, 27}}
    \cup {On("b", 200, "garbled", 0), On("b", 7818, "full", 29), On("a", 8000, "full", 31)}
    \cup {On("b", 1, "full", 0), On("b", 301, "full", 0)}
    \cup {On("g", 6666, "full", 0), On("g", 6666, "bare", 0)}

\* Both zookeeper and mongo are there when a worker starts, or neither is.
MCCaches == {{}, {"sess", "mongo"}}

\* Requests that fill the queue.
BusyRequests == {On("a", 200, "full", p) : p \in {21, 23}}
=============================================================================
