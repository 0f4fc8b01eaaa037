---------------------------- MODULE SessionBase ----------------------------
(***************************************************************************)
(* One connection: session_base (src/src/session_base.cpp) with the head   *)
(* and body hooks of server_session and client_session.                    *)
(*                                                                         *)
(* Writers on any thread append to write_msgs_ under mutex_; at most one   *)
(* composed async_write may be outstanding, because a second one would     *)
(* interleave its bytes with the first.  inter_lock_ is what the code uses *)
(* for that.  Reads form a chain: header, body, header, ...                *)
(*                                                                         *)
(* A frame is named by the place its write call got in write_msgs_, and    *)
(* goes to the socket in Chunks pieces, since async_write is a loop of     *)
(* async_write_some.  write and handle_write hold mutex_ from beginning to *)
(* end and are single steps.  The socket and the peer are external.        *)
(***************************************************************************)
EXTENDS Integers, Sequences

CONSTANTS Chunks,     \* pieces in which a frame reaches the socket
          MaxWrites,  \* bound of the model: write calls in a behaviour
          MaxFrames   \* bound of the model: frames the peer sends

ASSUME ChunksAssumption == Chunks \in Nat \ {0}
ASSUME SessionBoundsAssumption == MaxWrites \in Nat /\ MaxFrames \in Nat

VARIABLES
  write_msgs_,  \* session_base::write_msgs_
  inter_lock_,  \* session_base::inter_lock_
  calls,        \* calls of write that have not got mutex_ yet, posted ones too
  called,       \* write calls made so far
  accepted,     \* write calls that have appended their frame
  ops,          \* outstanding async_writes: [op, frame, sent, st]
  nextOp,       \* number of the next async_write
  wire,         \* what the socket has taken: <<frame, chunk>>
  phase,        \* of session_base::start: "new", "opened", "started"
  reads,        \* outstanding async_reads of each kind
  inbound,      \* what the peer has sent and nobody has read
  frames,       \* number of frames the peer has sent
  delivered,    \* frames given to do_body
  peer,         \* "up", "eof" (it sends no more) or "reset" (it is gone)
  shut          \* the socket has been shut down by close

writeVars == <<write_msgs_, inter_lock_, calls, called, accepted, ops, nextOp, wire>>
readVars == <<phase, reads, inbound, frames, delivered>>
vars == <<writeVars, readVars, peer, shut>>

NoReads == [header |-> 0, body |-> 0]

Init ==
  /\ write_msgs_ = <<>>
  /\ inter_lock_ = FALSE
  /\ calls = 0 /\ called = 0 /\ accepted = 0
  /\ ops = {} /\ nextOp = 1
  /\ wire = <<>>
  /\ phase = "new"
  /\ reads = NoReads
  /\ inbound = <<>> /\ frames = 0 /\ delivered = 0
  /\ peer = "up" /\ shut = FALSE

----------------------------------------------------------------------------
(* Writing.                                                                 *)

\* async_write of frame f.
AsyncWrite(f) ==
  /\ ops' = ops \cup {[op |-> nextOp, frame |-> f, sent |-> 0, st |-> "running"]}
  /\ nextOp' = nextOp + 1

NoAsyncWrite == UNCHANGED <<ops, nextOp>>

\* A thread calls write (a worker, dispatching) or post_write (heartbeat,
\* registration); either way the body of write runs later.  Nobody else has
\* the session before open.
PostWrite ==
  /\ phase # "new"
  /\ called < MaxWrites
  /\ called' = called + 1
  /\ calls' = calls + 1
  /\ UNCHANGED <<write_msgs_, inter_lock_, accepted, ops, nextOp, wire, readVars,
                 peer, shut>>

\* Fault: write does not test inter_lock_ before it starts an async_write.
WriteUnguarded ==
  /\ calls > 0
  /\ calls' = calls - 1
  /\ accepted' = accepted + 1
  /\ write_msgs_' = Append(write_msgs_, accepted + 1)
  /\ inter_lock_' = TRUE
  /\ AsyncWrite(Head(write_msgs_'))
  /\ UNCHANGED <<called, wire, readVars, peer, shut>>

\* write
Write ==
  /\ calls > 0
  /\ calls' = calls - 1
  /\ accepted' = accepted + 1
  /\ write_msgs_' = Append(write_msgs_, accepted + 1)
  /\ IF ~inter_lock_
       THEN inter_lock_' = TRUE /\ AsyncWrite(Head(write_msgs_'))
       ELSE UNCHANGED inter_lock_ /\ NoAsyncWrite
  /\ UNCHANGED <<called, wire, readVars, peer, shut>>

\* The socket takes one more piece of an outstanding write.
SendSome(o) ==
  /\ o \in ops /\ o.st = "running"
  /\ peer # "reset" /\ ~shut
  /\ wire' = Append(wire, <<o.frame, o.sent + 1>>)
  /\ ops' = (ops \ {o}) \cup
       {[op |-> o.op, frame |-> o.frame, sent |-> o.sent + 1,
         st |-> IF o.sent + 1 = Chunks THEN "ok" ELSE "running"]}
  /\ UNCHANGED <<write_msgs_, inter_lock_, calls, called, accepted, nextOp,
                 readVars, peer, shut>>

\* An outstanding write fails, part of the frame possibly sent.
SendFails(o) ==
  /\ o \in ops /\ o.st = "running"
  /\ peer # "up" \/ shut
  /\ ops' = (ops \ {o}) \cup {[o EXCEPT !.st = "error"]}
  /\ UNCHANGED <<write_msgs_, inter_lock_, calls, called, accepted, nextOp,
                 wire, readVars, peer, shut>>

\* Fault: inter_lock_ is released after every frame.
HandleWriteReleases(o) ==
  /\ o \in ops /\ o.st = "ok"
  /\ write_msgs_' = Tail(write_msgs_)
  /\ inter_lock_' = FALSE
  /\ ops' = ops \ {o}
  /\ UNCHANGED <<calls, called, accepted, nextOp, wire, readVars, peer, shut>>

\* Fault: the next async_write takes the front before pop_front.
HandleWritePopsLate(o) ==
  /\ o \in ops /\ o.st = "ok"
  /\ write_msgs_' = Tail(write_msgs_)
  /\ IF write_msgs_' # <<>>
       THEN /\ ops' = (ops \ {o}) \cup
                 {[op |-> nextOp, frame |-> Head(write_msgs_), sent |-> 0,
                   st |-> "running"]}
            /\ nextOp' = nextOp + 1
            /\ UNCHANGED inter_lock_
       ELSE /\ ops' = ops \ {o}
            /\ inter_lock_' = FALSE
            /\ UNCHANGED nextOp
  /\ UNCHANGED <<calls, called, accepted, wire, readVars, peer, shut>>

\* handle_write without error: the next frame, or the lock is released.
HandleWrite(o) ==
  /\ o \in ops /\ o.st = "ok"
  /\ write_msgs_' = Tail(write_msgs_)
  /\ IF write_msgs_' # <<>>
       THEN /\ ops' = (ops \ {o}) \cup
                 {[op |-> nextOp, frame |-> Head(write_msgs_'), sent |-> 0,
                   st |-> "running"]}
            /\ nextOp' = nextOp + 1
            /\ UNCHANGED inter_lock_
       ELSE /\ ops' = ops \ {o}
            /\ inter_lock_' = FALSE
            /\ UNCHANGED nextOp
  /\ UNCHANGED <<calls, called, accepted, wire, readVars, peer, shut>>

\* handle_write with an error: close; the frame stays in front, inter_lock_
\* stays taken.
HandleWriteError(o) ==
  /\ o \in ops /\ o.st = "error"
  /\ ops' = ops \ {o}
  /\ shut' = TRUE
  /\ UNCHANGED <<write_msgs_, inter_lock_, calls, called, accepted, nextOp,
                 wire, readVars, peer>>

----------------------------------------------------------------------------
(* Reading.  A bodyless frame is <<"empty">>, one with a body <<"head",     *)
(* "body">>, one whose header decode_header rejects <<"bad">>.              *)

Frames == {<<"empty">>, <<"head", "body">>, <<"bad">>}

\* Fault: every completed read is taken for one of a body.
RearmAsBody(k, next) ==
  [r \in {"header", "body"} |->
     reads[r] - (IF r = "body" THEN 1 ELSE 0) + (IF r = next THEN 1 ELSE 0)]

\* The reads outstanding after k, which has completed, arms the next ones.
Rearm(k, next) ==
  [r \in {"header", "body"} |->
     reads[r] - (IF r = k THEN 1 ELSE 0) + (IF r = next THEN 1 ELSE 0)]

\* start: open has put the session into the peer map, where writers find it.
Open ==
  /\ phase = "new"
  /\ phase' = "opened"
  /\ UNCHANGED <<writeVars, reads, inbound, frames, delivered, peer, shut>>

\* start: the first header read.
ArmFirstRead ==
  /\ phase = "opened"
  /\ phase' = "started"
  /\ reads' = [reads EXCEPT !.header = @ + 1]
  /\ UNCHANGED <<writeVars, inbound, frames, delivered, peer, shut>>

\* start: open refused the session (client_session::open, pool full) and it
\* is closed; handle_connect returns 0 all the same, so the registration
\* message is still posted.
OpenRefused ==
  /\ phase = "new"
  /\ phase' = "started"
  /\ shut' = TRUE
  /\ UNCHANGED <<writeVars, reads, inbound, frames, delivered, peer>>

\* The peer sends a frame.
PeerSends ==
  /\ frames < MaxFrames /\ peer = "up"
  /\ frames' = frames + 1
  /\ \E f \in Frames : inbound' = inbound \o f
  /\ UNCHANGED <<writeVars, phase, reads, delivered, peer, shut>>

\* handle_read_header, header with a body: read_msg_ now expects the body.
HandleHeader ==
  /\ reads.header > 0 /\ inbound # <<>> /\ Head(inbound) = "head"
  /\ inbound' = Tail(inbound)
  /\ reads' = Rearm("header", "body")
  /\ UNCHANGED <<writeVars, phase, frames, delivered, peer, shut>>

\* Fault: without the return behind handle_read_body a body read is armed too.
HandleHeaderEmptyFallsThrough ==
  /\ reads.header > 0 /\ inbound # <<>> /\ Head(inbound) = "empty"
  /\ inbound' = Tail(inbound)
  /\ delivered' = delivered + 1
  /\ reads' = [reads EXCEPT !.body = @ + 1]
  /\ UNCHANGED <<writeVars, phase, frames, peer, shut>>

\* handle_read_header with body_length 0: handle_read_body at once, which
\* delivers the frame and arms the next header read.
HandleHeaderEmpty ==
  /\ reads.header > 0 /\ inbound # <<>> /\ Head(inbound) = "empty"
  /\ inbound' = Tail(inbound)
  /\ delivered' = delivered + 1
  /\ reads' = Rearm("header", "header")
  /\ UNCHANGED <<writeVars, phase, frames, peer, shut>>

\* handle_read_header, do_head returns -1: close, the chain of reads ends.
HandleHeaderBad ==
  /\ reads.header > 0 /\ inbound # <<>> /\ Head(inbound) = "bad"
  /\ inbound' = Tail(inbound)
  /\ reads' = Rearm("header", "none")
  /\ shut' = TRUE
  /\ UNCHANGED <<writeVars, phase, frames, delivered, peer>>

\* Fault: the chain of reads ends when do_body has run.
HandleBodyStops ==
  /\ reads.body > 0 /\ inbound # <<>> /\ Head(inbound) = "body"
  /\ inbound' = Tail(inbound)
  /\ delivered' = delivered + 1
  /\ reads' = Rearm("body", "none")
  /\ UNCHANGED <<writeVars, phase, frames, peer, shut>>

\* handle_read_body: do_body gets the frame and returns 0.
HandleBody ==
  /\ reads.body > 0 /\ inbound # <<>> /\ Head(inbound) = "body"
  /\ inbound' = Tail(inbound)
  /\ delivered' = delivered + 1
  /\ reads' = Rearm("body", "header")
  /\ UNCHANGED <<writeVars, phase, frames, peer, shut>>

\* A read ends with an error: at the end of the peer's data, after a reset,
\* or because the socket was shut down.
ReadError(k) ==
  /\ reads[k] > 0
  /\ (peer = "eof" /\ inbound = <<>>) \/ peer = "reset" \/ shut

\* Fault: the error path arms a new header read.
ReadFailsRearms(k) ==
  /\ ReadError(k)
  /\ reads' = Rearm(k, "header")
  /\ shut' = TRUE
  /\ UNCHANGED <<writeVars, phase, inbound, frames, delivered, peer>>

\* handle_read_header or handle_read_body with an error: close.
ReadFails(k) ==
  /\ ReadError(k)
  /\ reads' = Rearm(k, "none")
  /\ shut' = TRUE
  /\ UNCHANGED <<writeVars, phase, inbound, frames, delivered, peer>>

\* The peer closes its side, or the connection is lost.
PeerGoes ==
  /\ \/ peer = "up" /\ peer' = "eof"
     \/ peer # "reset" /\ peer' = "reset"
  /\ UNCHANGED <<writeVars, readVars, shut>>

----------------------------------------------------------------------------

ReadStep ==
  \/ HandleHeader \/ HandleHeaderEmpty \/ HandleHeaderBad \/ HandleBody
  \/ \E k \in {"header", "body"} : ReadFails(k)

WriteStep ==
  \/ \E o \in ops : SendSome(o) \/ SendFails(o)
  \/ \E o \in ops : HandleWrite(o) \/ HandleWriteError(o)

Next ==
  \/ PostWrite \/ Write \/ WriteStep
  \/ Open \/ OpenRefused \/ ArmFirstRead
  \/ PeerSends \/ ReadStep \/ PeerGoes

\* Threads that reached write get mutex_; the io_service threads run the
\* completions; an operation on a lost or shut socket completes.
Fairness ==
  /\ WF_vars(Write) /\ WF_vars(WriteStep) /\ WF_vars(ReadStep)
  /\ WF_vars(ArmFirstRead)

Spec == Init /\ [][Next]_vars /\ Fairness

----------------------------------------------------------------------------
(* Properties.                                                              *)

\* The types of both halves of a session; no buffer starts before its frame.
TypeOK ==
  /\ write_msgs_ \in Seq(Nat)
  /\ inter_lock_ \in BOOLEAN
  /\ calls \in Nat /\ called \in Nat /\ accepted \in Nat /\ nextOp \in Nat
  /\ ops \subseteq [op : Nat, frame : Nat, sent : 0..Chunks,
                    st : {"running", "ok", "error"}]
  /\ wire \in Seq(Nat \X Nat)
  /\ phase \in {"new", "opened", "started"}
  /\ reads \in [{"header", "body"} -> Nat]
  /\ inbound \in Seq({"empty", "head", "body", "bad"})
  /\ frames \in Nat /\ delivered \in Nat
  /\ peer \in {"up", "eof", "reset"} /\ shut \in BOOLEAN

\* The piece that follows <<frame, chunk>> in an undamaged stream.
Succ(c) == IF c[2] < Chunks THEN <<c[1], c[2] + 1>> ELSE <<c[1] + 1, 1>>

\* The peer receives whole frames, in the order in which write appended them,
\* except that the last one may be cut: however writers, completions and
\* failures interleave, no piece of another frame follows a partial one.
WireIntact ==
  /\ wire # <<>> => wire[1] = <<1, 1>>
  /\ \A i \in 1..(Len(wire) - 1) : wire[i + 1] = Succ(wire[i])

\* The buffer of every outstanding async_write is the front of write_msgs_,
\* so pop_front never frees memory that asio still reads, and there is only
\* one such write.
FrontInFlight ==
  /\ \A o \in ops : write_msgs_ # <<>> /\ o.frame = Head(write_msgs_)
  /\ \A o, p \in ops : o = p

\* A frame in write_msgs_ is never left without a write in progress, unless a
\* write failed and the session has been closed.
NothingStranded == write_msgs_ # <<>> /\ ~shut => ops # {}

\* At most one async_read is outstanding, so header and body bytes are never
\* taken by the wrong read.
OneRead ==
  /\ reads.header + reads.body <= 1
  /\ inbound # <<>> /\ reads.body > 0 => Head(inbound) = "body"
  /\ inbound # <<>> /\ reads.header > 0 => Head(inbound) # "body"

\* Every accepted frame is sent in full, unless the connection is lost or
\* closed.
Flushes ==
  \A f \in 1..MaxWrites :
    (accepted >= f) ~> (shut \/ peer # "up" \/ \E i \in 1..Len(wire) : wire[i] = <<f, Chunks>>)

\* A lost connection is noticed and closed, even if nobody writes to it.
LossNoticed == (phase # "new" /\ peer # "up") ~> shut

\* After close all outstanding operations end for good, so that the last
\* shared_ptr to the session goes away.
Drains == shut ~> [](ops = {} /\ reads.header + reads.body = 0 /\ calls = 0)
=============================================================================
