------------------------- MODULE SessionBaseProofs -------------------------
(***************************************************************************)
(* Theorems about SessionBase for any number of pieces per frame, of       *)
(* writes and of inbound frames.                                           *)
(***************************************************************************)
EXTENDS SessionBase, TLAPS

\* The last piece the socket took; <<0, Chunks>> stands before the first.
Tip == IF wire = <<>> THEN <<0, Chunks>> ELSE wire[Len(wire)]

\* write_msgs_ holds the last accepted frames, in order.
QueueInv ==
  /\ Len(write_msgs_) <= accepted
  /\ \A i \in 1..Len(write_msgs_) :
        write_msgs_[i] = accepted - Len(write_msgs_) + i

\* inter_lock_ free means nothing to send; an outstanding write continues
\* exactly where the wire stands.
LockInv ==
  /\ ~inter_lock_ => write_msgs_ = <<>> /\ ops = {} /\ Tip = <<accepted, Chunks>>
  /\ \A o \in ops :
       /\ o.st = "running" => o.sent < Chunks
       /\ o.st = "ok" => o.sent = Chunks
       /\ Tip = IF o.sent = 0 THEN <<o.frame - 1, Chunks>> ELSE <<o.frame, o.sent>>

WInv == QueueInv /\ LockInv /\ FrontInFlight /\ WireIntact

Op == [op : Nat, frame : Nat, sent : 0..Chunks, st : {"running", "ok", "error"}]

\* The two halves of TypeOK.
WriteTypes ==
  /\ write_msgs_ \in Seq(Nat) /\ inter_lock_ \in BOOLEAN
  /\ calls \in Nat /\ called \in Nat /\ accepted \in Nat /\ nextOp \in Nat
  /\ ops \subseteq Op /\ wire \in Seq(Nat \X Nat)

ReadTypes ==
  /\ phase \in {"new", "opened", "started"}
  /\ reads \in [{"header", "body"} -> Nat]
  /\ inbound \in Seq({"empty", "head", "body", "bad"})
  /\ frames \in Nat /\ delivered \in Nat
  /\ peer \in {"up", "eof", "reset"} /\ shut \in BOOLEAN

----------------------------------------------------------------------------

USE DEF writeVars, readVars

LEMMA TypeHalves == TypeOK <=> WriteTypes /\ ReadTypes
BY DEF TypeOK, WriteTypes, ReadTypes, Op

\* An operation that leaves the write half alone keeps its types.
LEMMA ReadTypesStep ==
  ASSUME ReadTypes, [Next]_vars
  PROVE  ReadTypes'
<1> USE DEF ReadTypes
<1>1. CASE UNCHANGED <<readVars, peer, shut>>
  BY <1>1
<1>2. ASSUME NEW o \in ops, HandleWriteError(o) PROVE ReadTypes'
  BY <1>2 DEF HandleWriteError
<1>3. CASE Open
  BY <1>3 DEF Open
<1>4. CASE OpenRefused
  BY <1>4 DEF OpenRefused
<1>5. CASE ArmFirstRead
  BY <1>5 DEF ArmFirstRead
<1>6. CASE PeerSends
  <2> DEFINE T == {"empty", "head", "body", "bad"}
  <2>1. ASSUME NEW f \in Frames PROVE f \in Seq(T)
    <3>1. "empty" \in T /\ "head" \in T /\ "body" \in T /\ "bad" \in T
      OBVIOUS
    <3> HIDE DEF T
    <3>2. <<"empty">> \in Seq(T) /\ <<"head", "body">> \in Seq(T) /\ <<"bad">> \in Seq(T)
      BY <3>1
    <3> QED
      BY <3>2 DEF Frames
  <2>2. inbound' \in Seq({"empty", "head", "body", "bad"})
    BY <1>6, <2>1 DEF PeerSends
  <2> QED
    BY <1>6, <2>2 DEF PeerSends
<1>7. CASE HandleHeader
  BY <1>7 DEF HandleHeader, Rearm
<1>8. CASE HandleHeaderEmpty
  BY <1>8 DEF HandleHeaderEmpty, Rearm
<1>9. CASE HandleHeaderBad
  BY <1>9 DEF HandleHeaderBad, Rearm
<1>10. CASE HandleBody
  BY <1>10 DEF HandleBody, Rearm
<1>11. ASSUME NEW k \in {"header", "body"}, ReadFails(k) PROVE ReadTypes'
  BY <1>11 DEF ReadFails, ReadError, Rearm
<1>12. CASE PeerGoes
  BY <1>12 DEF PeerGoes
<1> QED
  BY <1>1, <1>2, <1>3, <1>4, <1>5, <1>6, <1>7, <1>8, <1>9, <1>10, <1>11, <1>12
  DEF Next, WriteStep, ReadStep, vars, PostWrite, Write, SendSome, SendFails,
      HandleWrite
\* Steps that touch neither write_msgs_, the lock, the writes nor the wire.
LEMMA WriteUntouched ==
  ASSUME WriteTypes, WInv, calls' \in Nat, called' \in Nat,
         UNCHANGED <<write_msgs_, inter_lock_, accepted, ops, nextOp, wire>>
  PROVE  WriteTypes' /\ WInv'
BY DEF WriteTypes, WInv, QueueInv, LockInv, FrontInFlight, WireIntact, Tip, Succ

\* write
LEMMA WriteKeeps ==
  ASSUME WriteTypes, WInv, Write
  PROVE  WriteTypes' /\ WInv'
<1>1. /\ write_msgs_ \in Seq(Nat) /\ accepted \in Nat /\ accepted + 1 \in Nat
      /\ write_msgs_' = Append(write_msgs_, accepted + 1)
      /\ accepted' = accepted + 1
      /\ wire' = wire /\ called' = called /\ calls' \in Nat
  BY DEF Write, WriteTypes
<1>2. /\ write_msgs_' \in Seq(Nat)
      /\ Len(write_msgs_') = Len(write_msgs_) + 1
      /\ \A i \in 1..Len(write_msgs_) : write_msgs_'[i] = write_msgs_[i]
      /\ write_msgs_'[Len(write_msgs_) + 1] = accepted + 1
  BY <1>1
<1>3. Len(write_msgs_) \in Nat
  BY <1>1
<1>4. QueueInv'
  <2>1. ASSUME NEW i \in 1..Len(write_msgs_')
        PROVE  write_msgs_'[i] = accepted' - Len(write_msgs_') + i
    <3>1. CASE i \in 1..Len(write_msgs_)
      BY <1>1, <1>2, <1>3, <3>1 DEF WInv, QueueInv
    <3>2. CASE i = Len(write_msgs_) + 1
      BY <1>1, <1>2, <1>3, <3>2
    <3> QED
      BY <1>2, <1>3, <3>1, <3>2
  <2>2. Len(write_msgs_') <= accepted'
    BY <1>1, <1>2, <1>3 DEF WInv, QueueInv
  <2> QED
    BY <2>1, <2>2 DEF QueueInv
<1>5. WireIntact' /\ Tip' = Tip
  BY <1>1 DEF WInv, WireIntact, Tip, Succ
<1>6. CASE inter_lock_
  <2>1. inter_lock_' /\ ops' = ops /\ nextOp' = nextOp
    BY <1>6 DEF Write, NoAsyncWrite
  <2>2. FrontInFlight'
    <3>1. ASSUME NEW o \in ops PROVE write_msgs_' # <<>> /\ o.frame = Head(write_msgs_')
      <4>1. write_msgs_ # <<>> /\ o.frame = Head(write_msgs_)
        BY DEF WInv, FrontInFlight
      <4> QED
        BY <1>1, <4>1
    <3> QED
      BY <2>1, <3>1 DEF WInv, FrontInFlight
  <2>3. LockInv'
    BY <1>5, <2>1 DEF WInv, LockInv
  <2> QED
    BY <1>1, <1>2, <1>4, <1>5, <2>1, <2>2, <2>3 DEF WInv, WriteTypes
<1>7. CASE ~inter_lock_
  <2>1. /\ write_msgs_ = <<>> /\ ops = {} /\ Tip = <<accepted, Chunks>>
    BY <1>7 DEF WInv, LockInv
  <2>2. Head(write_msgs_') = accepted + 1 /\ write_msgs_' # <<>>
    BY <1>1, <2>1
  <2>3. /\ inter_lock_' = TRUE
        /\ ops' = {[op |-> nextOp, frame |-> accepted + 1, sent |-> 0, st |-> "running"]}
        /\ nextOp' = nextOp + 1
    BY <1>7, <2>1, <2>2 DEF Write, AsyncWrite
  <2>4. FrontInFlight'
    BY <2>2, <2>3 DEF FrontInFlight
  <2>5. LockInv'
    BY <1>1, <1>5, <2>1, <2>3, ChunksAssumption DEF LockInv
  <2>6. ops' \subseteq Op /\ nextOp' \in Nat
    BY <1>1, <2>3, ChunksAssumption DEF Op, WriteTypes
  <2> QED
    BY <1>1, <1>2, <1>4, <1>5, <2>3, <2>4, <2>5, <2>6 DEF WInv, WriteTypes
<1> QED
  BY <1>6, <1>7

\* One more piece of the outstanding write.
LEMMA SendSomeKeeps ==
  ASSUME WriteTypes, WInv, NEW o \in ops, SendSome(o)
  PROVE  WriteTypes' /\ WInv'
<1> DEFINE n == [op |-> o.op, frame |-> o.frame, sent |-> o.sent + 1,
                 st |-> IF o.sent + 1 = Chunks THEN "ok" ELSE "running"]
           piece == <<o.frame, o.sent + 1>>
<1>1. /\ o \in Op /\ o.frame \in Nat /\ o.sent \in 0..Chunks /\ o.st = "running"
      /\ o.sent < Chunks /\ o.sent + 1 \in 0..Chunks
  <2>1. o \in Op
    BY DEF WriteTypes
  <2>2. o.frame \in Nat /\ o.sent \in 0..Chunks
    BY <2>1 DEF Op
  <2>3. o.st = "running"
    BY DEF SendSome
  <2>4. o.sent < Chunks
    BY <2>3 DEF WInv, LockInv
  <2> QED
    BY <2>1, <2>2, <2>3, <2>4, ChunksAssumption
<1>2. ops = {o} /\ ops' = {n}
  BY DEF WInv, FrontInFlight, SendSome
<1>3. n \in Op /\ n.frame = o.frame /\ n.sent = o.sent + 1
      /\ (n.st = "running" => n.sent < Chunks) /\ (n.st = "ok" => n.sent = Chunks)
  BY <1>1, ChunksAssumption DEF Op
<1>4. /\ wire \in Seq(Nat \X Nat) /\ wire' = Append(wire, piece)
      /\ piece \in Nat \X Nat /\ Len(wire) \in Nat
  <2>1. wire \in Seq(Nat \X Nat) /\ wire' = Append(wire, piece)
    BY DEF WriteTypes, SendSome
  <2>2. piece \in Nat \X Nat
    BY <1>1, ChunksAssumption
  <2> QED
    BY <2>1, <2>2
<1> HIDE DEF n, piece
<1>5. /\ wire' \in Seq(Nat \X Nat) /\ Len(wire') = Len(wire) + 1
      /\ wire'[Len(wire) + 1] = piece
      /\ \A i \in 1..Len(wire) : wire'[i] = wire[i]
  BY <1>4
<1>6. Tip' = piece /\ piece = <<o.frame, o.sent + 1>>
  <2>1. wire' # <<>>
    BY <1>4, <1>5
  <2>2. Tip' = wire'[Len(wire')]
    BY <2>1 DEF Tip
  <2> QED
    BY <1>5, <2>2 DEF piece
<1>7. Tip = IF o.sent = 0 THEN <<o.frame - 1, Chunks>> ELSE <<o.frame, o.sent>>
  BY DEF WInv, LockInv
<1>8. piece = Succ(Tip)
  BY <1>1, <1>6, <1>7, ChunksAssumption DEF Succ
<1>9. WireIntact'
  <2>1. CASE wire = <<>>
    <3>1. Tip = <<0, Chunks>> /\ Succ(Tip) = <<1, 1>>
      BY <2>1, ChunksAssumption DEF Tip, Succ
    <3>2. Len(wire') = 1 /\ wire'[1] = <<1, 1>>
      BY <1>5, <1>8, <2>1, <3>1
    <3> QED
      BY <3>2 DEF WireIntact
  <2>2. CASE wire # <<>>
    <3>1. Len(wire) >= 1 /\ Tip = wire[Len(wire)]
      BY <1>4, <2>2 DEF Tip
    <3>2. wire'[1] = <<1, 1>>
      BY <1>5, <2>2, <3>1, <1>4 DEF WInv, WireIntact
    <3>3. ASSUME NEW i \in 1..(Len(wire') - 1) PROVE wire'[i + 1] = Succ(wire'[i])
      <4>1. CASE i = Len(wire)
        BY <1>5, <1>8, <3>1, <1>4, <4>1
      <4>2. CASE i # Len(wire)
        <5>1. i \in 1..(Len(wire) - 1) /\ i \in 1..Len(wire) /\ i + 1 \in 1..Len(wire)
          BY <1>4, <1>5, <4>2
        <5> QED
          BY <1>5, <5>1 DEF WInv, WireIntact
      <4> QED
        BY <4>1, <4>2
    <3> QED
      BY <3>2, <3>3 DEF WireIntact
  <2> QED
    BY <2>1, <2>2
<1>10. UNCHANGED <<write_msgs_, inter_lock_, calls, called, accepted, nextOp>>
  BY DEF SendSome
<1>11. inter_lock_
  BY <1>2 DEF WInv, LockInv
<1>12. QueueInv' /\ FrontInFlight'
  BY <1>2, <1>3, <1>10 DEF WInv, QueueInv, FrontInFlight
<1>13. LockInv'
  BY <1>1, <1>2, <1>3, <1>6, <1>10, <1>11 DEF LockInv
<1> QED
  BY <1>2, <1>3, <1>5, <1>9, <1>10, <1>12, <1>13 DEF WInv, WriteTypes
\* The outstanding write fails.
LEMMA SendFailsKeeps ==
  ASSUME WriteTypes, WInv, NEW o \in ops, SendFails(o)
  PROVE  WriteTypes' /\ WInv'
<1> DEFINE n == [o EXCEPT !.st = "error"]
<1>1. o \in Op
  BY DEF WriteTypes
<1>2. ops = {o} /\ ops' = {n}
  BY DEF WInv, FrontInFlight, SendFails
<1>3. n \in Op /\ n.frame = o.frame /\ n.sent = o.sent /\ n.st = "error"
  BY <1>1 DEF Op
<1> HIDE DEF n
<1>4. UNCHANGED <<write_msgs_, inter_lock_, calls, called, accepted, nextOp, wire>>
  BY DEF SendFails
<1>5. WireIntact' /\ Tip' = Tip /\ QueueInv'
  BY <1>4 DEF WInv, WireIntact, Tip, Succ, QueueInv
<1>6. LockInv' /\ FrontInFlight'
  BY <1>2, <1>3, <1>4, <1>5 DEF WInv, LockInv, FrontInFlight
<1> QED
  BY <1>2, <1>3, <1>4, <1>5, <1>6 DEF WInv, WriteTypes

\* handle_write without error: the next front continues the wire.
LEMMA HandleWriteKeeps ==
  ASSUME WriteTypes, WInv, NEW o \in ops, HandleWrite(o)
  PROVE  WriteTypes' /\ WInv'
<1>1. o \in Op /\ ops = {o} /\ inter_lock_
  BY DEF WriteTypes, WInv, FrontInFlight, LockInv
<1>2. /\ write_msgs_ \in Seq(Nat) /\ write_msgs_ # <<>>
      /\ o.frame = write_msgs_[1] /\ Len(write_msgs_) \in Nat /\ Len(write_msgs_) >= 1
  BY DEF WriteTypes, WInv, FrontInFlight
<1>3. /\ o.sent = Chunks /\ Tip = <<o.frame, Chunks>>
  BY ChunksAssumption DEF HandleWrite, WInv, LockInv
<1>4. accepted \in Nat /\ o.frame = accepted - Len(write_msgs_) + 1
  BY <1>2 DEF WriteTypes, WInv, QueueInv
<1>5. /\ write_msgs_' = Tail(write_msgs_)
      /\ UNCHANGED <<calls, called, accepted, wire>>
  BY DEF HandleWrite
<1>6. /\ write_msgs_' \in Seq(Nat) /\ Len(write_msgs_') = Len(write_msgs_) - 1
      /\ \A i \in 1..Len(write_msgs_') : write_msgs_'[i] = write_msgs_[i + 1]
  BY <1>2, <1>5
<1>7. QueueInv'
  <2>1. ASSUME NEW i \in 1..Len(write_msgs_')
        PROVE  write_msgs_'[i] = accepted' - Len(write_msgs_') + i
    <3>1. i + 1 \in 1..Len(write_msgs_) /\ i \in Nat
      BY <1>2, <1>6
    <3>2. write_msgs_[i + 1] = accepted - Len(write_msgs_) + (i + 1)
      BY <3>1 DEF WInv, QueueInv
    <3> QED
      BY <1>2, <1>4, <1>5, <1>6, <3>1, <3>2
  <2>2. Len(write_msgs_') <= accepted'
    BY <1>2, <1>4, <1>5, <1>6 DEF WInv, QueueInv
  <2> QED
    BY <2>1, <2>2 DEF QueueInv
<1>8. WireIntact' /\ Tip' = Tip
  BY <1>5 DEF WInv, WireIntact, Tip, Succ
<1>9. CASE write_msgs_' = <<>>
  <2>0. Len(write_msgs_') = 0
    BY <1>9
  <2>1. o.frame = accepted
    <3>1. Len(write_msgs_) = 1
      BY <1>2, <1>6, <2>0
    <3> QED
      BY <1>4, <3>1
  <2>2. ops' = {} /\ inter_lock_' = FALSE /\ nextOp' = nextOp
    BY <1>1, <1>9 DEF HandleWrite
  <2>3. LockInv' /\ FrontInFlight'
    BY <1>3, <1>5, <1>8, <1>9, <2>1, <2>2 DEF LockInv, FrontInFlight
  <2> QED
    BY <1>5, <1>6, <1>7, <1>8, <2>2, <2>3 DEF WInv, WriteTypes
<1>10. CASE write_msgs_' # <<>>
  <2> DEFINE h == Head(write_msgs_')
  <2>1. h \in Nat /\ h = write_msgs_'[1] /\ Len(write_msgs_') >= 1
    BY <1>6, <1>10
  <2>2. h = o.frame + 1
    BY <1>2, <1>4, <1>5, <1>6, <1>7, <2>1 DEF QueueInv
  <2>3. /\ ops' = {[op |-> nextOp, frame |-> h, sent |-> 0, st |-> "running"]}
        /\ inter_lock_' = inter_lock_ /\ nextOp' = nextOp + 1
    <3>1. ops \ {o} = {}
      BY <1>1
    <3> QED
      BY <1>10, <3>1, Zenon DEF HandleWrite
  <2>4. FrontInFlight'
    BY <1>10, <2>3 DEF FrontInFlight
  <2> HIDE DEF h
  <2>5. h - 1 = o.frame
    BY <1>4, <2>2, <1>2
  <2>6. LockInv'
    BY <1>1, <1>3, <1>8, <2>3, <2>5, ChunksAssumption DEF LockInv
  <2>7. ops' \subseteq Op /\ nextOp' \in Nat
    BY <2>1, <2>3, ChunksAssumption DEF Op, WriteTypes
  <2>8. inter_lock_' \in BOOLEAN
    BY <2>3 DEF WriteTypes
  <2> QED
    BY <1>5, <1>6, <1>7, <1>8, <2>4, <2>6, <2>7, <2>8 DEF WInv, WriteTypes
<1> QED
  BY <1>9, <1>10

\* handle_write with an error: inter_lock_ stays taken, so no write follows.
LEMMA HandleWriteErrorKeeps ==
  ASSUME WriteTypes, WInv, NEW o \in ops, HandleWriteError(o)
  PROVE  WriteTypes' /\ WInv'
<1>1. inter_lock_ /\ ops' = {}
  BY DEF WInv, FrontInFlight, LockInv, HandleWriteError
<1>2. UNCHANGED <<write_msgs_, inter_lock_, calls, called, accepted, nextOp, wire>>
  BY DEF HandleWriteError
<1>3. WireIntact' /\ QueueInv'
  BY <1>2 DEF WInv, WireIntact, Succ, QueueInv
<1>4. LockInv' /\ FrontInFlight'
  BY <1>1, <1>2 DEF LockInv, FrontInFlight
<1> QED
  BY <1>1, <1>2, <1>3, <1>4 DEF WInv, WriteTypes

----------------------------------------------------------------------------

\* Types and write discipline are one inductive invariant: pop_front is typed
\* only because the outstanding write keeps write_msgs_ non-empty.
LEMMA SessionInductive == Spec => [](TypeOK /\ WInv)
<1>1. Init => TypeOK /\ WInv
  <2> SUFFICES ASSUME Init PROVE TypeOK /\ WInv
    OBVIOUS
  <2>1. inter_lock_ \in BOOLEAN /\ shut \in BOOLEAN
    BY Zenon DEF Init
  <2>2. TypeOK
    BY <2>1, ChunksAssumption DEF Init, TypeOK, NoReads
  <2>3. wire = <<>> /\ write_msgs_ = <<>> /\ ops = {} /\ accepted = 0
    BY DEF Init
  <2>4. Tip = <<0, Chunks>>
    BY <2>3 DEF Tip
  <2>5. LockInv
    BY <2>3, <2>4 DEF LockInv
  <2>6. QueueInv /\ FrontInFlight /\ WireIntact
    BY <2>3 DEF QueueInv, FrontInFlight, WireIntact
  <2> QED
    BY <2>2, <2>5, <2>6 DEF WInv
<1>2. TypeOK /\ WInv /\ [Next]_vars => (TypeOK /\ WInv)'
  <2> SUFFICES ASSUME WriteTypes, ReadTypes, WInv, [Next]_vars
               PROVE  WriteTypes' /\ WInv'
    <3>1. TypeOK <=> WriteTypes /\ ReadTypes
      BY TypeHalves
    <3>2. TypeOK' <=> WriteTypes' /\ ReadTypes'
      BY DEF TypeOK, WriteTypes, ReadTypes, Op
    <3> QED
      BY <3>1, <3>2, ReadTypesStep
  <2>1. CASE PostWrite
    BY <2>1, WriteUntouched DEF PostWrite, WriteTypes
  <2>2. CASE Write
    BY <2>2, WriteKeeps
  <2>3. ASSUME NEW o \in ops, SendSome(o) PROVE WriteTypes' /\ WInv'
    BY <2>3, SendSomeKeeps
  <2>4. ASSUME NEW o \in ops, SendFails(o) PROVE WriteTypes' /\ WInv'
    BY <2>4, SendFailsKeeps
  <2>5. ASSUME NEW o \in ops, HandleWrite(o) PROVE WriteTypes' /\ WInv'
    BY <2>5, HandleWriteKeeps
  <2>6. ASSUME NEW o \in ops, HandleWriteError(o) PROVE WriteTypes' /\ WInv'
    BY <2>6, HandleWriteErrorKeeps
  <2>7. CASE UNCHANGED writeVars
    BY <2>7, WriteUntouched DEF WriteTypes
  <2> QED
    BY <2>1, <2>2, <2>3, <2>4, <2>5, <2>6, <2>7
    DEF Next, WriteStep, ReadStep, vars, Open, OpenRefused, ArmFirstRead,
        PeerSends, HandleHeader, HandleHeaderEmpty, HandleHeaderBad, HandleBody,
        ReadFails, PeerGoes
<1> QED
  BY <1>1, <1>2, PTL DEF Spec

\* The session's members keep the types of their declarations.
THEOREM SessionTypes == Spec => []TypeOK
BY SessionInductive, PTL

\* The peer receives whole frames in order, the last one possibly cut.
THEOREM WireAlwaysIntact == Spec => []WireIntact
<1>1. WInv => WireIntact
  BY DEF WInv
<1> QED
  BY <1>1, SessionInductive, PTL

\* There is one outstanding async_write at most, and its buffer is the front.
THEOREM FrontAlwaysInFlight == Spec => []FrontInFlight
<1>1. WInv => FrontInFlight
  BY DEF WInv
<1> QED
  BY <1>1, SessionInductive, PTL

----------------------------------------------------------------------------

\* While inter_lock_ is taken in an open session, a write is outstanding.
LockHeld == inter_lock_ /\ ~shut => ops # {}

\* A frame in write_msgs_ always has a write in progress, until a write fails
\* and closes the session: inter_lock_ is given back only with nothing to send.
THEOREM NeverStranded == Spec => []NothingStranded
<1>1. Init => LockHeld
  BY DEF Init, LockHeld
<1>2. LockHeld /\ [Next]_vars => LockHeld'
  <2> SUFFICES ASSUME LockHeld, [Next]_vars PROVE LockHeld'
    OBVIOUS
  <2>1. CASE Write
    <3>1. inter_lock_ => ops' = ops /\ shut' = shut
      BY <2>1 DEF Write, NoAsyncWrite
    <3>2. ~inter_lock_ => ops' # {}
      BY <2>1 DEF Write, AsyncWrite
    <3> QED BY <3>1, <3>2 DEF LockHeld
  <2>2. ASSUME NEW o \in ops, SendSome(o) \/ SendFails(o) PROVE LockHeld'
    BY <2>2 DEF SendSome, SendFails, LockHeld
  <2>3. ASSUME NEW o \in ops, HandleWrite(o) PROVE LockHeld'
    <3>1. ops' # {} \/ inter_lock_' = FALSE
      BY <2>3 DEF HandleWrite
    <3> QED BY <3>1 DEF LockHeld
  <2>4. CASE shut' = TRUE
    BY <2>4 DEF LockHeld
  <2>5. CASE UNCHANGED <<inter_lock_, ops, shut>>
    BY <2>5 DEF LockHeld
  <2>6. \/ Write \/ shut' = TRUE \/ UNCHANGED <<inter_lock_, ops, shut>>
        \/ \E o \in ops : SendSome(o) \/ SendFails(o) \/ HandleWrite(o)
    BY DEF Next, WriteStep, ReadStep, vars, PostWrite, HandleWriteError, Open, OpenRefused,
           ArmFirstRead, PeerSends, HandleHeader, HandleHeaderEmpty, HandleHeaderBad,
           HandleBody, ReadFails, PeerGoes
  <2> QED BY <2>1, <2>2, <2>3, <2>4, <2>5, <2>6
<1>3. WInv /\ LockHeld => NothingStranded
  BY DEF WInv, LockInv, LockHeld, NothingStranded
<1> QED
  BY <1>1, <1>2, <1>3, SessionInductive, PTL DEF Spec

----------------------------------------------------------------------------

\* What the peer has sent is a run of frames, of which the first may lack its
\* header, and then only a body read is outstanding or none is.
ReadInv ==
  /\ reads.header + reads.body <= 1
  /\ phase # "started" => reads.header = 0 /\ reads.body = 0
  /\ phase # "started" \/ reads.header > 0 => inbound = <<>> \/ inbound[1] # "body"
  /\ reads.body > 0 => inbound # <<>> /\ inbound[1] = "body"
  /\ inbound # <<>> => inbound[Len(inbound)] # "head"
  /\ \A i \in 1..Len(inbound) : i > 1 => (inbound[i] = "body" <=> inbound[i - 1] = "head")

\* The sequence without elements.
LEMMA NoneIsEmpty ==
  ASSUME NEW S, NEW s \in Seq(S)
  PROVE  s = <<>> <=> Len(s) = 0
OBVIOUS

\* The run of frames without the part that has been read.
LEMMA ReadTail ==
  ASSUME ReadTypes, ReadInv, inbound # <<>>, inbound' = Tail(inbound)
  PROVE  /\ inbound' # <<>> => inbound'[Len(inbound')] # "head"
         /\ \A i \in 1..Len(inbound') :
              i > 1 => (inbound'[i] = "body" <=> inbound'[i - 1] = "head")
         /\ inbound[1] = "head" => inbound' # <<>> /\ inbound'[1] = "body"
         /\ inbound[1] # "head" => inbound' = <<>> \/ inbound'[1] # "body"
<1>1. inbound \in Seq({"empty", "head", "body", "bad"})
  BY DEF ReadTypes
<1>2. /\ Len(inbound) \in Nat /\ Len(inbound) > 0 /\ Len(inbound') = Len(inbound) - 1
      /\ \A i \in 1..Len(inbound') : inbound'[i] = inbound[i + 1]
  BY <1>1
<1>3. inbound' # <<>> <=> Len(inbound) > 1
  <2>1. inbound' \in Seq({"empty", "head", "body", "bad"})
    BY <1>1
  <2>2. inbound' = <<>> <=> Len(inbound') = 0
    BY <2>1, NoneIsEmpty
  <2> QED BY <1>2, <2>2
<1>4. inbound' # <<>> => inbound'[Len(inbound')] # "head"
  <2> SUFFICES ASSUME inbound' # <<>> PROVE inbound'[Len(inbound')] # "head"
    OBVIOUS
  <2>1. Len(inbound') \in 1..Len(inbound') /\ Len(inbound') + 1 = Len(inbound)
    BY <1>2, <1>3
  <2>2. inbound'[Len(inbound')] = inbound[Len(inbound)]
    BY <1>2, <2>1
  <2> QED BY <2>2 DEF ReadInv
<1>5. ASSUME NEW i \in 1..Len(inbound'), i > 1
      PROVE  inbound'[i] = "body" <=> inbound'[i - 1] = "head"
  <2>1. /\ i + 1 \in 1..Len(inbound) /\ i + 1 > 1 /\ i - 1 \in 1..Len(inbound')
        /\ (i + 1) - 1 = i /\ (i - 1) + 1 = i
    BY <1>2, <1>5
  <2>2. inbound'[i] = inbound[i + 1] /\ inbound'[i - 1] = inbound[i]
    BY <1>2, <2>1
  <2> QED BY <2>1, <2>2 DEF ReadInv
<1>6. Len(inbound) > 1 => inbound'[1] = inbound[2] /\ (inbound[2] = "body" <=> inbound[1] = "head")
  <2> SUFFICES ASSUME Len(inbound) > 1
               PROVE  inbound'[1] = inbound[2] /\ (inbound[2] = "body" <=> inbound[1] = "head")
    OBVIOUS
  <2>1. 1 \in 1..Len(inbound') /\ 2 \in 1..Len(inbound) /\ 2 > 1 /\ 2 - 1 = 1 /\ 1 + 1 = 2
    BY <1>2
  <2> QED BY <1>2, <2>1 DEF ReadInv
<1>7. inbound[1] = "head" => Len(inbound) > 1
  BY <1>2 DEF ReadInv
<1> QED BY <1>3, <1>4, <1>5, <1>6, <1>7

\* A completed read is replaced by at most one other.
LEMMA RearmCounts ==
  ASSUME ReadTypes, ReadInv, NEW k \in {"header", "body"}, NEW next, reads[k] > 0,
         reads' = Rearm(k, next)
  PROVE  /\ reads'.header = IF next = "header" THEN 1 ELSE 0
         /\ reads'.body = IF next = "body" THEN 1 ELSE 0
         /\ phase = "started"
<1>1. reads.header \in Nat /\ reads.body \in Nat /\ reads[k] \in Nat
  BY DEF ReadTypes
<1>2. CASE k = "header"
  <2>1. reads.header = 1 /\ reads.body = 0
    BY <1>1, <1>2 DEF ReadInv
  <2> QED BY <1>2, <2>1 DEF Rearm, ReadInv
<1>3. CASE k = "body"
  <2>1. reads.header = 0 /\ reads.body = 1
    BY <1>1, <1>3 DEF ReadInv
  <2> QED BY <1>3, <2>1 DEF Rearm, ReadInv
<1> QED BY <1>2, <1>3

\* The peer's next frame follows the run of frames.
LEMMA ReadAppend ==
  ASSUME ReadTypes, ReadInv, NEW f \in Frames, inbound' = inbound \o f,
         UNCHANGED <<phase, reads>>
  PROVE  ReadInv'
<1>1. inbound \in Seq({"empty", "head", "body", "bad"}) /\ Len(inbound) \in Nat
  BY DEF ReadTypes
<1>2. /\ f \in Seq({"empty", "head", "body", "bad"}) /\ Len(f) \in {1, 2}
      /\ f[1] # "body" /\ f[Len(f)] # "head"
      /\ Len(f) = 2 => f[1] = "head" /\ f[2] = "body"
  <2>1. CASE f = <<"empty">>
    BY <2>1
  <2>2. CASE f = <<"head", "body">>
    BY <2>2
  <2>3. CASE f = <<"bad">>
    BY <2>3
  <2> QED BY <2>1, <2>2, <2>3 DEF Frames
<1>3. /\ Len(inbound') = Len(inbound) + Len(f)
      /\ \A i \in 1..Len(inbound) : inbound'[i] = inbound[i]
      /\ \A i \in 1..Len(f) : inbound'[Len(inbound) + i] = f[i]
      /\ inbound' \in Seq({"empty", "head", "body", "bad"})
  BY <1>1, <1>2
<1>4. inbound' # <<>>
  BY <1>1, <1>2, <1>3
<1>5. inbound'[Len(inbound')] # "head"
  <2>1. Len(f) \in 1..Len(f)
    BY <1>2
  <2> QED BY <1>2, <1>3, <2>1
<1>6. inbound = <<>> => inbound'[1] = f[1]
  <2> SUFFICES ASSUME inbound = <<>> PROVE inbound'[1] = f[1]
    OBVIOUS
  <2>1. Len(inbound) = 0 /\ 1 \in 1..Len(f) /\ 0 + 1 = 1
    BY <1>2
  <2> QED BY <1>3, <2>1
<1>7. inbound # <<>> => Len(inbound) > 0 /\ inbound'[1] = inbound[1]
  <2> SUFFICES ASSUME inbound # <<>> PROVE Len(inbound) > 0 /\ inbound'[1] = inbound[1]
    OBVIOUS
  <2>1. Len(inbound) > 0
    BY <1>1, NoneIsEmpty
  <2>2. 1 \in 1..Len(inbound)
    BY <1>1, <2>1
  <2> QED BY <1>3, <2>1, <2>2
<1>8. ASSUME NEW i \in 1..Len(inbound'), i > 1
      PROVE  inbound'[i] = "body" <=> inbound'[i - 1] = "head"
  <2>1. CASE i <= Len(inbound)
    <3>1. i \in 1..Len(inbound) /\ i - 1 \in 1..Len(inbound)
      BY <1>1, <1>8, <2>1
    <3>2. inbound'[i] = inbound[i] /\ inbound'[i - 1] = inbound[i - 1]
      BY <1>3, <3>1
    <3> QED BY <1>8, <3>1, <3>2 DEF ReadInv
  <2>2. CASE i = Len(inbound) + 1
    <3>1. Len(inbound) > 0 /\ i - 1 = Len(inbound) /\ Len(inbound) \in 1..Len(inbound)
          /\ 1 \in 1..Len(f)
      BY <1>1, <1>2, <1>8, <2>2
    <3>2. inbound # <<>>
      BY <1>1, <3>1, NoneIsEmpty
    <3>3. inbound'[i] = f[1] /\ inbound'[i - 1] = inbound[Len(inbound)]
      BY <1>3, <2>2, <3>1
    <3> QED BY <1>2, <3>2, <3>3 DEF ReadInv
  <2>3. CASE i = Len(inbound) + 2
    <3>1. Len(f) = 2 /\ i - 1 = Len(inbound) + 1 /\ 1 \in 1..Len(f) /\ 2 \in 1..Len(f)
      BY <1>1, <1>2, <1>3, <1>8, <2>3
    <3>2. inbound'[i] = f[2] /\ inbound'[i - 1] = f[1]
      BY <1>3, <2>3, <3>1
    <3> QED BY <1>2, <3>1, <3>2
  <2>4. i <= Len(inbound) \/ i = Len(inbound) + 1 \/ i = Len(inbound) + 2
    <3>1. i \in Int /\ i <= Len(inbound')
      BY <1>1, <1>2, <1>3
    <3>2. Len(inbound') = Len(inbound) + 1 \/ Len(inbound') = Len(inbound) + 2
      BY <1>2, <1>3
    <3> QED BY <1>1, <3>1, <3>2
  <2> QED BY <2>1, <2>2, <2>3, <2>4
<1>9. /\ phase' # "started" \/ reads'.header > 0 => inbound' = <<>> \/ inbound'[1] # "body"
      /\ reads'.body > 0 => inbound' # <<>> /\ inbound'[1] = "body"
  BY <1>2, <1>4, <1>6, <1>7 DEF ReadInv
<1> QED BY <1>5, <1>8, <1>9 DEF ReadInv

\* A completed read that takes the front of what the peer has sent.
LEMMA ReadTakes ==
  ASSUME ReadTypes, ReadInv, NEW k \in {"header", "body"}, NEW next, reads[k] > 0,
         inbound # <<>>, inbound' = Tail(inbound), reads' = Rearm(k, next), phase' = phase,
         inbound[1] = "head" => next = "body",
         inbound[1] # "head" => next # "body"
  PROVE  ReadInv'
<1>1. /\ inbound' # <<>> => inbound'[Len(inbound')] # "head"
      /\ \A i \in 1..Len(inbound') :
           i > 1 => (inbound'[i] = "body" <=> inbound'[i - 1] = "head")
      /\ inbound[1] = "head" => inbound' # <<>> /\ inbound'[1] = "body"
      /\ inbound[1] # "head" => inbound' = <<>> \/ inbound'[1] # "body"
  BY ReadTail
<1>2. /\ reads'.header = IF next = "header" THEN 1 ELSE 0
      /\ reads'.body = IF next = "body" THEN 1 ELSE 0
      /\ phase = "started"
  BY RearmCounts
<1>3. reads'.header + reads'.body <= 1
  BY <1>2
<1>4. reads'.header > 0 => next = "header"
  BY <1>2
<1>5. reads'.body > 0 => next = "body"
  BY <1>2
<1> QED BY <1>1, <1>2, <1>3, <1>4, <1>5 DEF ReadInv

\* However frames arrive and reads complete or fail, one read at most is
\* outstanding, and it is the one that the next bytes are meant for.
THEOREM OneReadAlways == Spec => []OneRead
<1>1. Init => ReadInv
  BY DEF Init, ReadInv, NoReads
<1>2. ReadTypes /\ ReadInv /\ [Next]_vars => ReadInv'
  <2> SUFFICES ASSUME ReadTypes, ReadInv, [Next]_vars PROVE ReadInv'
    OBVIOUS
  <2>0. /\ reads.header \in Nat /\ reads.body \in Nat
        /\ inbound \in Seq({"empty", "head", "body", "bad"})
        /\ inbound # <<>> => Head(inbound) = inbound[1]
        /\ reads["header"] = reads.header /\ reads["body"] = reads.body
    BY DEF ReadTypes
  <2>1. CASE HandleHeader
    BY <2>0, <2>1, ReadTakes DEF HandleHeader
  <2>2. CASE HandleHeaderEmpty
    BY <2>0, <2>2, ReadTakes DEF HandleHeaderEmpty
  <2>3. CASE HandleHeaderBad
    BY <2>0, <2>3, ReadTakes DEF HandleHeaderBad
  <2>4. CASE HandleBody
    BY <2>0, <2>4, ReadTakes DEF HandleBody
  <2>5. ASSUME NEW k \in {"header", "body"}, ReadFails(k) PROVE ReadInv'
    <3>1. reads'.header = 0 /\ reads'.body = 0 /\ phase = "started"
      BY <2>5, RearmCounts DEF ReadFails, ReadError
    <3>2. phase' = phase /\ inbound' = inbound
      BY <2>5 DEF ReadFails
    <3> QED BY <3>1, <3>2 DEF ReadInv
  <2>6. CASE ArmFirstRead
    <3>1. reads.header = 0 /\ reads.body = 0 /\ (inbound = <<>> \/ inbound[1] # "body")
      BY <2>6 DEF ArmFirstRead, ReadInv
    <3>2. reads'.header = 1 /\ reads'.body = 0 /\ phase' = "started" /\ inbound' = inbound
      BY <2>6, <3>1 DEF ArmFirstRead, ReadTypes
    <3> QED BY <3>1, <3>2 DEF ReadInv
  <2>7. CASE PeerSends
    BY <2>7, ReadAppend DEF PeerSends
  <2>8. CASE Open \/ OpenRefused
    <3>1. UNCHANGED <<reads, inbound>> /\ phase = "new" /\ phase' \in {"opened", "started"}
      BY <2>8 DEF Open, OpenRefused
    <3> QED BY <3>1 DEF ReadInv
  <2>9. CASE UNCHANGED readVars
    BY <2>9 DEF readVars, ReadInv
  <2> QED
    BY <2>1, <2>2, <2>3, <2>4, <2>5, <2>6, <2>7, <2>8, <2>9
    DEF Next, WriteStep, ReadStep, vars, PostWrite, Write, SendSome, SendFails, HandleWrite,
        HandleWriteError, PeerGoes
<1>3. TypeOK => ReadTypes
  BY TypeHalves
<1>4. ReadTypes /\ ReadInv => OneRead
  <2>1. ReadTypes /\ inbound # <<>> => Head(inbound) = inbound[1]
    BY DEF ReadTypes
  <2> QED BY <2>1 DEF ReadInv, OneRead
<1> QED
  BY <1>1, <1>2, <1>3, <1>4, SessionTypes, PTL DEF Spec
=============================================================================
