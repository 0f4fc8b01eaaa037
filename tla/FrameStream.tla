----------------------------- MODULE FrameStream -----------------------------
(***************************************************************************)
(* The stream of frames a session reads: header and body arrive one after  *)
(* the other into its one read_msg_, decode_header decides between them,   *)
(* and what was read is copied into the queue a worker takes it from       *)
(* (src/src/session_base.cpp, src/src/message_format.cpp).                 *)
(*                                                                         *)
(* Any number of frames with any length in their headers.  ServiceMessages *)
(* fills the frames with the messages of the program.                      *)
(***************************************************************************)
EXTENDS Integers, Sequences, MessageFormat

CONSTANTS Cells,  \* the chars of a body
          Fill0   \* what resize fills a body with

ASSUME CellsAssumption == Fill0 \in Cells

VARIABLES
  sent,       \* what the peer has sent: [cmd, text, len]
  toServer,   \* frames on their way to the server
  read_msg_,  \* the session's message_format
  arriving,   \* the cells behind the header that was read last
  reading,    \* what the session waits for: "header", "body", "closed"
  deque_      \* messages queued: [n, mf], n its place in sent

readVars == <<read_msg_, arriving, reading>>
streamVars == <<sent, toServer, readVars, deque_>>

StreamInit ==
  /\ sent = <<>> /\ toServer = <<>>
  /\ read_msg_ = NewFormat /\ arriving = <<>> /\ reading = "header"
  /\ deque_ = <<>>

\* A frame: the cells its length promises follow the header.  A length below
\* that of a header promises nothing.
Frames ==
  {f \in [cmd : Int, text : Seq(Cells), len : IntRange] :
     f.len >= HeadLen => Len(f.text) = f.len - HeadLen}

\* The peer sends the frame f.
Transmit(f) ==
  /\ sent' = Append(sent, f)
  /\ toServer' = Append(toServer, [head |-> Header(f.len, f.cmd), body |-> f.text])

----------------------------------------------------------------------------
(* The session reads.                                                       *)

\* The number of the frame whose header was read last.
Current == Len(sent) - Len(toServer)

\* Fault: read_msg_ is flushed, before do_body copies it.
BodyReadFlushed(n, mf) ==
  /\ read_msg_' = [mf EXCEPT !.body_length = 0]
  /\ deque_' = IF mf.head.cmd = 1 THEN deque_ ELSE Append(deque_, [n |-> n, mf |-> read_msg_'])
  /\ reading' = "header"

\* do_body, after_body_get: the message is copied into the queue unless it
\* answers a heartbeat, and the next header is read.  read_msg_flush does
\* nothing: read_msg_ keeps the body and its length until the next header.
BodyRead(n, mf) ==
  /\ read_msg_' = mf
  /\ deque_' = IF mf.head.cmd = 1 THEN deque_ ELSE Append(deque_, [n |-> n, mf |-> mf])
  /\ reading' = "header"

\* handle_read_header, do_head, decode_header.
HandleHeader ==
  /\ reading = "header" /\ toServer # <<>>
  /\ toServer' = Tail(toServer)
  /\ arriving' = Head(toServer).body
  /\ \E d \in Minus(Head(toServer).head.len) :
       LET r == decode_header([read_msg_ EXCEPT !.head = Head(toServer).head], d, Fill0)
       IN  \/ /\ ~r.ok
              /\ reading' = "closed" /\ read_msg_' = r.mf
              /\ UNCHANGED deque_
           \/ /\ r.ok /\ r.mf.body_length = 0
              /\ BodyRead(Current + 1, r.mf)
           \/ /\ r.ok /\ r.mf.body_length > 0
              /\ reading' = "body" /\ read_msg_' = r.mf
              /\ UNCHANGED deque_
  /\ UNCHANGED sent

\* handle_read_body
HandleBody ==
  /\ reading = "body"
  /\ BodyRead(Current, ReadBody(read_msg_, arriving))
  /\ arriving' = <<>>
  /\ UNCHANGED <<sent, toServer>>

\* A worker takes the first message.
TakeMessage ==
  /\ deque_ # <<>>
  /\ deque_' = Tail(deque_)
  /\ UNCHANGED <<sent, toServer, readVars>>

----------------------------------------------------------------------------

\* The peer sends one of what it will have sent.
Sends ==
  /\ \E i \in DOMAIN sent' : sent'[i] \in Frames /\ Transmit(sent'[i])
  /\ UNCHANGED <<readVars, deque_>>

StreamNext == Sends \/ HandleHeader \/ HandleBody \/ TakeMessage

\* What the reading side of any connection does.
StreamSpec == StreamInit /\ [][StreamNext]_streamVars

----------------------------------------------------------------------------
(* Properties.                                                              *)

Headers == [len : IntRange, cmd : Int]

Formats == [head : Headers, body : Seq(Cells), body_length : 0..SizeMax - 1]

\* The frames on their way, read_msg_ and the queue; body_length_ is a size_t
\* whatever length was received.
StreamTypeOK ==
  /\ sent \in Seq(Frames)
  /\ toServer \in Seq([head : Headers, body : Seq(Cells)]) /\ Len(toServer) <= Len(sent)
  /\ read_msg_ \in Formats
  /\ arriving \in Seq(Cells)
  /\ reading \in {"header", "body", "closed"}
  /\ deque_ \in Seq([n : 1..Len(sent), mf : Formats])

\* decode_header refuses a frame, and handle_read_header closes the session,
\* exactly when the length in it is not one of a body of 0 to MaxBody cells,
\* negative and overflowing lengths included, though its test for a negative
\* length can never be true; and a body read never runs past body_.
LengthRefused ==
  /\ reading = "closed" => sent[Current].len \notin HeadLen..(HeadLen + MaxBody)
  /\ reading = "body" =>
       /\ read_msg_.body_length = sent[Current].len - HeadLen
       /\ read_msg_.body_length \in 1..MaxBody
       /\ read_msg_.body_length <= Len(read_msg_.body)

\* What a worker takes from the queue (try_pop) is the frame the peer sent,
\* in order, with nothing of an earlier and longer message, which read_msg_
\* still holds when the next header comes.
Delivered ==
  \A i \in DOMAIN deque_ :
    LET s == sent[deque_[i].n]
    IN  /\ Data(deque_[i].mf) = s.text /\ deque_[i].mf.head = Header(s.len, s.cmd)
        /\ \A j \in DOMAIN deque_ : i < j => deque_[i].n < deque_[j].n
==============================================================================
