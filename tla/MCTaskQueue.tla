---------------------------- MODULE MCTaskQueue ----------------------------
(* TaskQueue for TLC: two workers and a queue limit of one, so that the     *)
(* overload mark, both ways of popping and all races with stop happen.      *)
EXTENDS TaskQueue

CONSTANTS w1, w2, p1, p2

MCWorkers == {w1, w2}
MCProducers == {p1, p2}
=============================================================================
