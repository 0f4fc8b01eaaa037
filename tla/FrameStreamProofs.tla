-------------------------- MODULE FrameStreamProofs --------------------------
(***************************************************************************)
(* What message_format does with a length and a body, for every width of   *)
(* an int and every limit, and what the session that reads a stream of     *)
(* frames into one message_format delivers.                                *)
(***************************************************************************)
EXTENDS FrameStream, SequenceTheorems, TLAPS

\* The residue of a number that is less than one modulus away.
LEMMA ModNear ==
  ASSUME NEW b \in Nat, b > 0, NEW a \in Int
  PROVE  /\ (0 <= a /\ a < b) => a % b = a
         /\ (-b <= a /\ a < 0) => a % b = a + b
  OBVIOUS

\* Storing a number in an int changes nothing when it fits, and wraps once
\* when it is less than one turn too small.
LEMMA ToIntNear ==
  ASSUME NEW n \in Int
  PROVE  /\ n \in IntRange => ToInt(n) = n
         /\ (-3 * IntMax <= n /\ n < -IntMax) => ToInt(n) = n + 2 * IntMax
<1>1. 2 * IntMax \in Nat /\ 2 * IntMax > 0 /\ IntMax \in Nat /\ n + IntMax \in Int
  BY WidthAssumption
<1>2. ASSUME n \in IntRange PROVE ToInt(n) = n
  <2>1. 0 <= n + IntMax /\ n + IntMax < 2 * IntMax
    BY <1>1, <1>2 DEF IntRange
  <2>2. (n + IntMax) % (2 * IntMax) = n + IntMax
    BY <1>1, <2>1, ModNear
  <2> QED BY <1>1, <2>2 DEF ToInt
<1>3. ASSUME -3 * IntMax <= n, n < -IntMax PROVE ToInt(n) = n + 2 * IntMax
  <2>1. -(2 * IntMax) <= n + IntMax /\ n + IntMax < 0
    BY <1>1, <1>3
  <2>2. (n + IntMax) % (2 * IntMax) = n + IntMax + 2 * IntMax
    BY <1>1, <2>1, ModNear
  <2> QED BY <1>1, <2>2 DEF ToInt
<1> QED BY <1>2, <1>3

\* What becomes of a length in decode_header: either it is one of a body
\* within the limit, and body_length_ is that, or body_length_ is a number
\* above the limit, however the subtraction behaves where it overflows.
LEMMA LengthCases ==
  ASSUME NEW len \in IntRange, NEW d \in Minus(len)
  PROVE  IF len \in HeadLen..(HeadLen + MaxBody)
           THEN d = len - HeadLen /\ ToSize(d) = len - HeadLen
           ELSE ToSize(d) \in Nat /\ ToSize(d) > MaxBody
<1> DEFINE x == len - HeadLen
<1>1. /\ len \in Int /\ HeadLen \in Nat /\ HeadLen > 0 /\ MaxBody \in Nat
      /\ IntMax \in Nat /\ SizeMax \in Nat
      /\ HeadLen + MaxBody < IntMax /\ 4 * IntMax <= SizeMax
      /\ -IntMax <= len /\ len < IntMax
  BY WidthAssumption DEF IntRange
<1>2. x \in Int /\ -2 * IntMax <= x /\ x < IntMax
  BY <1>1
<1>3. d = x \/ (x < -IntMax /\ d = x + 2 * IntMax)
  <2>1. CASE x \in IntRange
    BY <2>1, <1>2, ToIntNear DEF Minus
  <2>2. CASE x \notin IntRange
    <3>1. x < -IntMax /\ -3 * IntMax <= x
      BY <2>2, <1>1, <1>2 DEF IntRange
    <3>2. ToInt(x) = x + 2 * IntMax
      BY <3>1, <1>2, ToIntNear
    <3> QED BY <3>1, <3>2 DEF Minus
  <2> QED BY <2>1, <2>2
<1>4. CASE len \in HeadLen..(HeadLen + MaxBody)
  <2>1. x >= 0
    BY <1>1, <1>4
  <2>2. d = x
    BY <1>1, <1>3, <2>1
  <2> QED BY <1>4, <2>1, <2>2 DEF ToSize
<1>5. CASE len \notin HeadLen..(HeadLen + MaxBody)
  <2>1. x < 0 \/ x > MaxBody
    BY <1>1, <1>5
  <2>2. CASE d = x
    BY <1>1, <1>2, <1>5, <2>1, <2>2 DEF ToSize
  <2>3. CASE x < -IntMax /\ d = x + 2 * IntMax
    <3>1. x + 2 * IntMax > MaxBody
      BY <1>1
    <3> QED BY <1>1, <1>2, <1>5, <2>3, <3>1 DEF ToSize
  <2> QED BY <1>3, <2>2, <2>3
<1> QED BY <1>4, <1>5

\* decode_header accepts a header exactly when its length is one of a body of
\* 0 to MaxBody cells: a negative length and one whose difference overflows
\* are refused although "body_length_ < 0" is never true.
THEOREM AcceptsExactly ==
  ASSUME NEW len \in IntRange, NEW d \in Minus(len), NEW mf, NEW fill
  PROVE  decode_header(mf, d, fill).ok <=> len \in HeadLen..(HeadLen + MaxBody)
<1>1. HeadLen \in Nat /\ MaxBody \in Nat /\ len \in Int
  BY WidthAssumption DEF IntRange
<1>2. decode_header(mf, d, fill).ok = ~(ToSize(d) < 0 \/ ToSize(d) > MaxBody)
  BY DEF decode_header
<1>3. CASE len \in HeadLen..(HeadLen + MaxBody)
  <2>1. ToSize(d) = len - HeadLen
    BY <1>3, LengthCases
  <2>2. ~(ToSize(d) < 0 \/ ToSize(d) > MaxBody)
    BY <1>1, <1>3, <2>1
  <2> QED BY <1>2, <1>3, <2>2
<1>4. CASE len \notin HeadLen..(HeadLen + MaxBody)
  BY <1>1, <1>2, <1>4, LengthCases
<1> QED BY <1>3, <1>4

\* body_length_ is a size_t.
LEMMA SizeTyped ==
  ASSUME NEW len \in IntRange, NEW d \in Minus(len)
  PROVE  ToSize(d) \in 0..SizeMax - 1
<1> DEFINE x == len - HeadLen
<1>1. /\ len \in Int /\ HeadLen \in Nat /\ HeadLen > 0 /\ MaxBody \in Nat
      /\ IntMax \in Nat /\ SizeMax \in Nat
      /\ HeadLen + MaxBody < IntMax /\ 4 * IntMax <= SizeMax
      /\ -IntMax <= len /\ len < IntMax
  BY WidthAssumption DEF IntRange
<1>2. x \in Int /\ -2 * IntMax <= x /\ x < IntMax
  BY <1>1
<1>3. d = x \/ d = x + 2 * IntMax
  <2>1. CASE x \in IntRange
    BY <2>1, <1>2, ToIntNear DEF Minus
  <2>2. CASE x \notin IntRange
    <3>1. x < -IntMax /\ -3 * IntMax <= x
      BY <2>2, <1>1, <1>2 DEF IntRange
    <3> QED BY <3>1, <1>2, ToIntNear DEF Minus
  <2> QED BY <2>1, <2>2
<1>4. d \in Int /\ -2 * IntMax <= d /\ d < 3 * IntMax
  BY <1>1, <1>2, <1>3
<1> QED BY <1>1, <1>4 DEF ToSize

\* A header h that is read over what mf holds: read_msg_ stays a
\* message_format, and behind an accepted header body_ has room for the body.
LEMMA HeaderRead ==
  ASSUME NEW mf \in Formats, NEW h \in Headers, NEW d \in Minus(h.len)
  PROVE  LET r == decode_header([mf EXCEPT !.head = h], d, Fill0)
         IN  /\ r.mf \in Formats /\ r.mf.head = h
             /\ r.ok <=> h.len \in HeadLen..(HeadLen + MaxBody)
             /\ r.ok => /\ r.mf.body_length = h.len - HeadLen
                        /\ Len(r.mf.body) = HeadLen + r.mf.body_length
<1> DEFINE start == [mf EXCEPT !.head = h]
           r == decode_header(start, d, Fill0)
           n == ToSize(d)
           cells == Resize(mf.body, HeadLen + n, Fill0)
<1>1. h.len \in IntRange /\ HeadLen \in Nat /\ MaxBody \in Nat
  BY WidthAssumption DEF Headers
<1>2. n \in 0..SizeMax - 1 /\ n \in Nat
  BY <1>1, SizeTyped
<1>3. r.ok <=> h.len \in HeadLen..(HeadLen + MaxBody)
  BY <1>1, AcceptsExactly
<1>4. r.ok => n = h.len - HeadLen
  BY <1>1, <1>3, LengthCases
<1>5. start = [head |-> h, body |-> mf.body, body_length |-> mf.body_length]
  BY DEF Formats
<1>6. mf.body \in Seq(Cells)
  BY DEF Formats
<1> HIDE DEF n
<1>7. cells \in [1..(HeadLen + n) -> Cells] /\ HeadLen + n \in Nat
  <2>1. HeadLen + n \in Nat
    BY <1>1, <1>2
  <2>2. mf.body \in [1..Len(mf.body) -> Cells] /\ Len(mf.body) \in Nat
    BY <1>6, LenProperties
  <2>3. ASSUME NEW i \in 1..(HeadLen + n)
        PROVE  (IF i <= Len(mf.body) THEN mf.body[i] ELSE Fill0) \in Cells
    <3>1. i \in Nat /\ i >= 1
      OBVIOUS
    <3>2. i <= Len(mf.body) => i \in 1..Len(mf.body)
      BY <3>1, <2>2
    <3> QED BY <2>2, <3>2, CellsAssumption
  <2> QED BY <2>1, <2>3 DEF Resize
<1>8. cells \in Seq(Cells) /\ Len(cells) = HeadLen + n
  <2> HIDE DEF cells
  <2> QED BY <1>7, SeqDef
<1> HIDE DEF cells
<1>9. r.mf = [head |-> h, body |-> IF r.ok THEN cells ELSE mf.body, body_length |-> n]
  <2> HIDE DEF start
  <2>1. start.body = mf.body
    BY <1>5
  <2>2. r.mf = [start EXCEPT !.body_length = n, !.body = IF r.ok THEN cells ELSE mf.body]
    BY <2>1 DEF decode_header, n, cells
  <2> HIDE DEF r
  <2> QED BY <1>5, <2>2
<1> HIDE DEF r
<1>10. r.mf \in Formats
  BY <1>2, <1>6, <1>8, <1>9 DEF Formats
<1>11. r.mf.head = h /\ r.mf.body_length = n /\ (r.ok => r.mf.body = cells)
  BY <1>9
<1>12. /\ r.mf \in Formats /\ r.mf.head = h
       /\ r.ok <=> h.len \in HeadLen..(HeadLen + MaxBody)
       /\ r.ok => /\ r.mf.body_length = h.len - HeadLen
                  /\ Len(r.mf.body) = HeadLen + r.mf.body_length
  BY <1>3, <1>4, <1>8, <1>10, <1>11
<1> QED BY <1>12 DEF r, start

\* The first n cells of a longer sequence that starts with the n cells c.
LEMMA FrontIs ==
  ASSUME NEW c \in Seq(Cells), NEW m \in Nat, NEW q \in [1..m -> Cells], Len(c) <= m,
         \A i \in 1..Len(c) : q[i] = c[i]
  PROVE  SubSeq(q, 1, Len(c)) = c
<1> DEFINE n == Len(c)
<1>1. n \in Nat
  BY LenProperties
<1>2. \A i \in 1..n : i \in 1..m /\ q[i] \in Cells
  BY <1>1
<1> HIDE DEF n
<1>3. /\ SubSeq(q, 1, n) \in Seq(Cells)
      /\ Len(SubSeq(q, 1, n)) = IF 1 <= n THEN n - 1 + 1 ELSE 0
      /\ \A i \in 1 .. n - 1 + 1 : SubSeq(q, 1, n)[i] = q[1 + i - 1]
  BY <1>1, <1>2, SubSeqProperties
<1>4. Len(SubSeq(q, 1, n)) = n
  BY <1>1, <1>3
<1>5. \A i \in 1..n : SubSeq(q, 1, n)[i] = c[i]
  <2> TAKE i \in 1..n
  <2>1. i \in 1 .. n - 1 + 1 /\ 1 + i - 1 = i
    BY <1>1
  <2> QED BY <1>3, <2>1 DEF n
<1> QED BY <1>3, <1>4, <1>5, SeqEqual DEF n

\* A body that is read into a message_format with room for it: a worker will
\* take exactly the cells that arrived.
LEMMA BodyFilled ==
  ASSUME NEW mf \in Formats, NEW cells \in Seq(Cells), Len(cells) = mf.body_length,
         mf.body_length <= Len(mf.body)
  PROVE  /\ ReadBody(mf, cells) \in Formats /\ ReadBody(mf, cells).head = mf.head
         /\ Data(ReadBody(mf, cells)) = cells
<1> DEFINE n == mf.body_length
           m == Len(mf.body)
           after == [i \in 1..m |-> IF i <= n THEN cells[i] ELSE mf.body[i]]
<1>1. /\ mf = [head |-> mf.head, body |-> mf.body, body_length |-> n]
      /\ mf.head \in Headers /\ n \in 0..SizeMax - 1 /\ mf.body \in Seq(Cells)
  BY DEF Formats
<1>2. /\ mf.body \in [1..m -> Cells] /\ m \in Nat /\ DOMAIN mf.body = 1..m
      /\ cells \in [1..n -> Cells] /\ n \in Nat
  BY <1>1, LenProperties
<1>3. ReadBody(mf, cells) = [head |-> mf.head, body |-> after, body_length |-> n]
  <2>1. ReadBody(mf, cells) = [mf EXCEPT !.body = after]
    BY <1>2 DEF ReadBody
  <2> HIDE DEF after
  <2> QED BY <1>1, <2>1
<1> HIDE DEF n, m
<1>4. after \in [1..m -> Cells] /\ \A i \in 1..n : after[i] = cells[i]
  <2>1. n <= m
    BY DEF n, m
  <2>2. ASSUME NEW i \in 1..m
        PROVE  (IF i <= n THEN cells[i] ELSE mf.body[i]) \in Cells
    BY <1>2
  <2>3. \A i \in 1..n : i \in 1..m /\ i <= n
    BY <1>2, <2>1
  <2> QED BY <2>2, <2>3
<1> HIDE DEF after
<1>5. after \in Seq(Cells)
  BY <1>2, <1>4, SeqDef
<1>6. ReadBody(mf, cells) \in Formats /\ ReadBody(mf, cells).head = mf.head
  BY <1>1, <1>3, <1>5 DEF Formats
<1>7. Data(ReadBody(mf, cells)) = SubSeq(after, 1, n)
  <2>1. ReadBody(mf, cells).body = after /\ ReadBody(mf, cells).body_length = n
    BY <1>3
  <2> QED BY <2>1, Zenon DEF Data
<1>8. Len(cells) = n /\ n <= m
  BY DEF n, m
<1>9. SubSeq(after, 1, Len(cells)) = cells
  BY <1>2, <1>4, <1>8, FrontIs
<1> QED BY <1>6, <1>7, <1>8, <1>9

\* A body within the limit that encode_header frames is what a worker takes
\* from the message_format it was read into, whatever that object held
\* before: no cell of an earlier message remains, none is lost.
THEOREM FrameDelivered ==
  ASSUME NEW mf \in Formats, NEW cmd \in Int, NEW body \in Seq(Cells), Len(body) <= MaxBody,
         NEW d \in Minus(encode_header(cmd, body).head.len)
  PROVE  LET r == decode_header([mf EXCEPT !.head = encode_header(cmd, body).head], d, Fill0)
         IN  r.ok /\ Data(ReadBody(r.mf, body)) = body
<1> DEFINE h == encode_header(cmd, body).head
           r == decode_header([mf EXCEPT !.head = h], d, Fill0)
           n == Len(body)
<1>1. /\ HeadLen \in Nat /\ HeadLen > 0 /\ MaxBody \in Nat /\ IntMax \in Nat
      /\ HeadLen + MaxBody < IntMax /\ n \in Nat
  BY WidthAssumption
<1>2. HeadLen + n \in IntRange /\ HeadLen + n \in HeadLen..(HeadLen + MaxBody)
  BY <1>1 DEF IntRange
<1>3. h.len = HeadLen + n /\ h \in Headers
  BY <1>1, <1>2, ToIntNear DEF encode_header, Header, Headers
<1> HIDE DEF h
<1>4. r.mf \in Formats /\ r.ok /\ r.mf.body_length = n /\ Len(r.mf.body) = HeadLen + n
  <2>1. d \in Minus(h.len)
    BY DEF h
  <2>2. /\ r.mf \in Formats
        /\ r.ok <=> h.len \in HeadLen..(HeadLen + MaxBody)
        /\ r.ok => /\ r.mf.body_length = h.len - HeadLen
                   /\ Len(r.mf.body) = HeadLen + r.mf.body_length
    BY <1>3, <2>1, HeaderRead
  <2> HIDE DEF r, n
  <2> QED BY <1>1, <1>2, <1>3, <2>2
<1> HIDE DEF r
<1>5. Data(ReadBody(r.mf, body)) = body
  BY <1>1, <1>4, BodyFilled
<1> QED BY <1>4, <1>5 DEF r, h

----------------------------------------------------------------------------
(* The stream.                                                              *)

\* The frame f on its way.
OnWire(f) == [head |-> Header(f.len, f.cmd), body |-> f.text]

\* The frames on their way are the last ones sent.
WireInv == \A i \in 1..Len(toServer) : toServer[i] = OnWire(sent[Current + i])

\* What has been read of the current frame.
ReadInv ==
  /\ reading = "body" =>
       /\ Current >= 1
       /\ arriving = sent[Current].text
       /\ read_msg_.head = Header(sent[Current].len, sent[Current].cmd)
       /\ sent[Current].len \in HeadLen..(HeadLen + MaxBody)
       /\ read_msg_.body_length = sent[Current].len - HeadLen
       /\ read_msg_.body_length > 0
       /\ Len(read_msg_.body) = HeadLen + read_msg_.body_length
  /\ reading = "closed" =>
       /\ Current >= 1
       /\ sent[Current].len \notin HeadLen..(HeadLen + MaxBody)

\* The message e is the frame f.
Fits(e, f) == Data(e.mf) = f.text /\ e.mf.head = Header(f.len, f.cmd)

\* The queue holds whole frames, in order, none twice, none that is still
\* being read.
QueuedInv ==
  /\ \A i \in 1..Len(deque_) :
       /\ Fits(deque_[i], sent[deque_[i].n])
       /\ deque_[i].n <= Current
       /\ reading = "body" => deque_[i].n < Current
  /\ \A i, j \in 1..Len(deque_) : i < j => deque_[i].n < deque_[j].n

StreamInv == StreamTypeOK /\ WireInv /\ ReadInv /\ QueuedInv

\* The number of the current frame.
LEMMA CurrentTyped ==
  ASSUME StreamTypeOK
  PROVE  /\ Len(sent) \in Nat /\ Len(toServer) \in Nat /\ Current \in 0..Len(sent)
         /\ Current + Len(toServer) = Len(sent)
BY DEF StreamTypeOK, Current

\* The elements of a sequence are of its set.
LEMMA SeqElements ==
  ASSUME NEW S, NEW q \in Seq(S)
  PROVE  \A i \in 1..Len(q) : q[i] \in S
  OBVIOUS

LEMMA SeqWidens ==
  ASSUME NEW S, NEW T, S \subseteq T, NEW q \in Seq(S)
  PROVE  q \in Seq(T)
<1>1. q \in [1..Len(q) -> T] /\ Len(q) \in Nat
  BY SeqElements
<1> QED BY <1>1, SeqDef

\* The messages queued have numbers of frames.
LEMMA QueueTyped ==
  ASSUME StreamTypeOK
  PROVE  \A i \in 1..Len(deque_) : deque_[i].n \in 1..Len(sent) /\ deque_[i].n \in Int
<1> DEFINE E == [n : 1..Len(sent), mf : Formats]
<1>1. deque_ \in Seq(E)
  BY DEF StreamTypeOK
<1>2. \A e \in E : e.n \in 1..Len(sent) /\ e.n \in Int
  OBVIOUS
<1> HIDE DEF E
<1> QED BY <1>1, <1>2, SeqElements

\* A frame as it is sent.
LEMMA FrameTyped ==
  ASSUME NEW f \in Frames
  PROVE  /\ f.len \in IntRange /\ f.cmd \in Int /\ f.text \in Seq(Cells)
         /\ Header(f.len, f.cmd) \in Headers
         /\ OnWire(f) \in [head : Headers, body : Seq(Cells)]
         /\ OnWire(f).head = Header(f.len, f.cmd) /\ OnWire(f).body = f.text
         /\ f.len >= HeadLen => Len(f.text) = f.len - HeadLen
BY DEF Frames, Headers, Header, OnWire

LEMMA StreamStarts == StreamInit => StreamInv
<1> SUFFICES ASSUME StreamInit PROVE StreamInv
  OBVIOUS
<1>1. /\ sent = <<>> /\ toServer = <<>> /\ arriving = <<>> /\ deque_ = <<>>
      /\ reading = "header" /\ read_msg_ = NewFormat
  BY DEF StreamInit
<1>2. Len(sent) = 0 /\ Len(toServer) = 0 /\ Len(deque_) = 0
  BY <1>1
<1>3. NewFormat \in Formats
  <2>1. 0 \in IntRange /\ 0 \in 0..SizeMax - 1
    BY WidthAssumption DEF IntRange
  <2> QED BY <2>1 DEF NewFormat, Formats, Headers, Header
<1>4. StreamTypeOK
  BY <1>1, <1>2, <1>3 DEF StreamTypeOK
<1>5. WireInv /\ ReadInv /\ QueuedInv
  BY <1>1, <1>2 DEF WireInv, ReadInv, QueuedInv
<1> QED BY <1>4, <1>5 DEF StreamInv

\* Sending a frame changes nothing of those before it.
LEMMA SendsKeeps ==
  ASSUME StreamInv, Sends
  PROVE  StreamInv'
<1>0. StreamTypeOK /\ WireInv /\ ReadInv /\ QueuedInv
  BY DEF StreamInv
<1>1. PICK f \in Frames : sent' = Append(sent, f) /\ toServer' = Append(toServer, OnWire(f))
  BY DEF Sends, Transmit, OnWire
<1>2. UNCHANGED <<read_msg_, arriving, reading, deque_>>
  BY DEF Sends, readVars
<1>3. /\ sent \in Seq(Frames) /\ toServer \in Seq([head : Headers, body : Seq(Cells)])
      /\ OnWire(f) \in [head : Headers, body : Seq(Cells)]
  BY <1>0, FrameTyped DEF StreamTypeOK
<1>4. /\ Len(sent) \in Nat /\ Len(toServer) \in Nat /\ Current \in 0..Len(sent)
      /\ Current + Len(toServer) = Len(sent)
  BY <1>0, CurrentTyped
<1>5. /\ sent' \in Seq(Frames) /\ Len(sent') = Len(sent) + 1
      /\ \A i \in 1..Len(sent) : sent'[i] = sent[i]
      /\ sent'[Len(sent) + 1] = f
  BY <1>1, <1>3
<1>6. /\ toServer' \in Seq([head : Headers, body : Seq(Cells)])
      /\ Len(toServer') = Len(toServer) + 1
      /\ \A i \in 1..Len(toServer) : toServer'[i] = toServer[i]
      /\ toServer'[Len(toServer) + 1] = OnWire(f)
  BY <1>1, <1>3
<1>7. Current' = Current
  BY <1>4, <1>5, <1>6 DEF Current
<1>8. StreamTypeOK'
  <2>1. deque_ \in Seq([n : 1..Len(sent'), mf : Formats])
    <3>1. deque_ \in Seq([n : 1..Len(sent), mf : Formats])
      BY <1>0 DEF StreamTypeOK
    <3>2. [n : 1..Len(sent), mf : Formats] \subseteq [n : 1..Len(sent'), mf : Formats]
      BY <1>4, <1>5
    <3> QED BY <3>1, <3>2, SeqWidens
  <2> QED BY <1>0, <1>2, <1>4, <1>5, <1>6, <2>1 DEF StreamTypeOK
<1>9. WireInv'
  <2>1. ASSUME NEW i \in 1..Len(toServer') PROVE toServer'[i] = OnWire(sent'[Current' + i])
    <3>1. CASE i \in 1..Len(toServer)
      <4>1. Current + i \in 1..Len(sent)
        BY <1>4, <3>1
      <4>2. toServer[i] = OnWire(sent[Current + i])
        BY <1>0, <3>1 DEF WireInv
      <4> QED BY <1>5, <1>6, <1>7, <3>1, <4>1, <4>2
    <3>2. CASE i = Len(toServer) + 1
      <4>1. Current + i = Len(sent) + 1
        BY <1>4, <3>2
      <4> QED BY <1>5, <1>6, <1>7, <3>2, <4>1
    <3> QED BY <1>4, <1>6, <2>1, <3>1, <3>2
  <2> QED BY <2>1 DEF WireInv
<1>10. ReadInv'
  <2>1. Current >= 1 => Current \in 1..Len(sent)
    BY <1>4
  <2> QED BY <1>0, <1>2, <1>5, <1>7, <2>1 DEF ReadInv
<1>11. QueuedInv'
  <2>1. \A i \in 1..Len(deque_) : deque_[i].n \in 1..Len(sent)
    BY <1>0, QueueTyped
  <2> QED BY <1>0, <1>2, <1>5, <1>7, <2>1 DEF QueuedInv
<1> QED BY <1>8, <1>9, <1>10, <1>11 DEF StreamInv

\* A worker that takes a message leaves the others in order.
LEMMA TakeKeeps ==
  ASSUME StreamInv, TakeMessage
  PROVE  StreamInv'
<1>0. StreamTypeOK /\ WireInv /\ ReadInv /\ QueuedInv
  BY DEF StreamInv
<1>1. /\ deque_ # <<>> /\ deque_' = Tail(deque_)
      /\ UNCHANGED <<sent, toServer, read_msg_, arriving, reading>>
  BY DEF TakeMessage, readVars
<1>2. deque_ \in Seq([n : 1..Len(sent), mf : Formats])
  BY <1>0 DEF StreamTypeOK
<1>3. /\ deque_' \in Seq([n : 1..Len(sent), mf : Formats])
      /\ Len(deque_) \in Nat /\ Len(deque_') = Len(deque_) - 1
      /\ \A i \in 1..Len(deque_') : deque_'[i] = deque_[i + 1]
  BY <1>1, <1>2
<1>4. Current' = Current
  BY <1>1 DEF Current
<1>5. StreamTypeOK' /\ WireInv' /\ ReadInv'
  BY <1>0, <1>1, <1>3, <1>4 DEF StreamTypeOK, WireInv, ReadInv
<1>6. \A i \in 1..Len(deque_') : i + 1 \in 1..Len(deque_)
  BY <1>3
<1>7. \A i, j \in 1..Len(deque_') : i < j => i + 1 < j + 1
  BY <1>3
<1>8. QueuedInv'
  BY <1>0, <1>1, <1>3, <1>4, <1>6, <1>7 DEF QueuedInv
<1> QED BY <1>5, <1>8 DEF StreamInv

\* The frame number c, whole in mf, is queued or was a heartbeat's answer: all
\* that is queued came before it.
LEMMA BodyReadKeeps ==
  ASSUME StreamTypeOK, NEW c \in 1..Len(sent), NEW mf \in Formats,
         Data(mf) = sent[c].text, mf.head = Header(sent[c].len, sent[c].cmd),
         BodyRead(c, mf), sent' = sent,
         \A i \in 1..Len(deque_) :
           Fits(deque_[i], sent[deque_[i].n]) /\ deque_[i].n < c,
         \A i, j \in 1..Len(deque_) : i < j => deque_[i].n < deque_[j].n,
         Current' = c
  PROVE  /\ deque_' \in Seq([n : 1..Len(sent), mf : Formats])
         /\ QueuedInv'
<1> DEFINE e == [n |-> c, mf |-> mf]
           E == [n : 1..Len(sent), mf : Formats]
<1>1. deque_ \in Seq(E) /\ e \in E /\ e.n = c /\ e.mf = mf
  BY DEF StreamTypeOK
<1>2. reading' = "header" /\ (deque_' = deque_ \/ deque_' = Append(deque_, e))
  BY DEF BodyRead
<1>3. c \in Int /\ \A i \in 1..Len(deque_) : deque_[i].n \in Int
  BY QueueTyped
<1>4. Fits(e, sent[c])
  BY <1>1 DEF Fits
<1> HIDE DEF e, E
<1>5. CASE deque_' = deque_
  BY <1>1, <1>2, <1>3, <1>5 DEF QueuedInv, E
<1>6. CASE deque_' = Append(deque_, e)
  <2>1. /\ deque_' \in Seq(E) /\ Len(deque_) \in Nat /\ Len(deque_') = Len(deque_) + 1
        /\ \A i \in 1..Len(deque_) : deque_'[i] = deque_[i]
        /\ deque_'[Len(deque_) + 1] = e
    BY <1>1, <1>6
  <2>2. \A i \in 1..Len(deque_') : i \in 1..Len(deque_) \/ i = Len(deque_) + 1
    BY <2>1
  <2>3. \A i \in 1..Len(deque_') :
          Fits(deque_'[i], sent'[deque_'[i].n]) /\ deque_'[i].n <= Current'
    BY <1>1, <1>3, <1>4, <2>1, <2>2
  <2>4. ASSUME NEW i \in 1..Len(deque_'), NEW j \in 1..Len(deque_'), i < j
        PROVE  deque_'[i].n < deque_'[j].n
    <3>1. i \in 1..Len(deque_)
      BY <2>1, <2>4
    <3> QED BY <1>1, <2>1, <2>2, <2>4, <3>1
  <2> QED BY <1>2, <2>1, <2>3, <2>4 DEF QueuedInv, E
<1> QED BY <1>2, <1>5, <1>6

\* A header: the session goes on with a message_format that has room for the
\* body, queues a message without one, or closes.
LEMMA HeaderKeeps ==
  ASSUME StreamInv, HandleHeader
  PROVE  StreamInv'
<1> DEFINE c == Current + 1
           f == sent[c]
           h == Header(f.len, f.cmd)
<1>0. StreamTypeOK /\ WireInv /\ ReadInv /\ QueuedInv
  BY DEF StreamInv
<1>1. /\ Len(sent) \in Nat /\ Len(toServer) \in Nat /\ Current \in 0..Len(sent)
      /\ Current + Len(toServer) = Len(sent)
  BY <1>0, CurrentTyped
<1>2. /\ reading = "header" /\ toServer # <<>> /\ toServer' = Tail(toServer)
      /\ arriving' = Head(toServer).body /\ sent' = sent
  BY DEF HandleHeader
<1>3. /\ Len(toServer) >= 1 /\ Head(toServer) = toServer[1]
      /\ toServer' \in Seq([head : Headers, body : Seq(Cells)])
      /\ Len(toServer') = Len(toServer) - 1
      /\ \A i \in 1..Len(toServer') : toServer'[i] = toServer[i + 1]
  BY <1>0, <1>1, <1>2 DEF StreamTypeOK
<1>4. c \in 1..Len(sent) /\ f \in Frames /\ read_msg_ \in Formats
  BY <1>0, <1>1, <1>3 DEF StreamTypeOK
<1>5. Current' = c
  BY <1>1, <1>2, <1>3 DEF Current
<1>6. toServer[1] = OnWire(f)
  BY <1>0, <1>1, <1>3 DEF WireInv
<1> HIDE DEF c, f
<1>7. Head(toServer).head = h /\ Head(toServer).body = f.text /\ h \in Headers /\ h.len = f.len
  BY <1>3, <1>4, <1>6, FrameTyped DEF Header
<1>8. WireInv'
  <2>1. ASSUME NEW i \in 1..Len(toServer') PROVE toServer'[i] = OnWire(sent'[Current' + i])
    <3>1. i + 1 \in 1..Len(toServer) /\ Current + (i + 1) = c + i
      BY <1>1, <1>3 DEF c
    <3>2. toServer[i + 1] = OnWire(sent[Current + (i + 1)])
      BY <1>0, <3>1 DEF WireInv
    <3> QED BY <1>2, <1>3, <1>5, <3>1, <3>2
  <2> QED BY <2>1 DEF WireInv
<1> HIDE DEF h
<1>9. PICK d \in Minus(h.len) :
        LET r == decode_header([read_msg_ EXCEPT !.head = h], d, Fill0)
        IN  \/ ~r.ok /\ reading' = "closed" /\ read_msg_' = r.mf /\ deque_' = deque_
            \/ r.ok /\ r.mf.body_length = 0 /\ BodyRead(Current + 1, r.mf)
            \/ /\ r.ok /\ r.mf.body_length > 0
               /\ reading' = "body" /\ read_msg_' = r.mf /\ deque_' = deque_
  BY <1>7 DEF HandleHeader
<1> DEFINE r == decode_header([read_msg_ EXCEPT !.head = h], d, Fill0)
<1>10. /\ r.mf \in Formats /\ r.mf.head = h
       /\ r.ok <=> f.len \in HeadLen..(HeadLen + MaxBody)
       /\ r.ok => /\ r.mf.body_length = f.len - HeadLen
                  /\ Len(r.mf.body) = HeadLen + r.mf.body_length
  BY <1>4, <1>7, HeaderRead
<1>11. \/ ~r.ok /\ reading' = "closed" /\ read_msg_' = r.mf /\ deque_' = deque_
       \/ r.ok /\ r.mf.body_length = 0 /\ BodyRead(c, r.mf)
       \/ r.ok /\ r.mf.body_length > 0 /\ reading' = "body" /\ read_msg_' = r.mf /\ deque_' = deque_
  BY <1>9 DEF c
<1> HIDE DEF r
<1>12. /\ read_msg_' \in Formats /\ reading' \in {"header", "body", "closed"}
       /\ arriving' \in Seq(Cells) /\ Len(toServer') <= Len(sent)
  BY <1>1, <1>2, <1>3, <1>4, <1>7, <1>10, <1>11, FrameTyped DEF BodyRead
<1>13. \A i \in 1..Len(deque_) : deque_[i].n \in Int /\ deque_[i].n < c
  BY <1>0, <1>1, QueueTyped DEF c, QueuedInv
<1>14. ASSUME deque_' \in Seq([n : 1..Len(sent), mf : Formats]) PROVE StreamTypeOK'
  BY <1>0, <1>2, <1>3, <1>12, <1>14 DEF StreamTypeOK
<1>15. CASE ~r.ok /\ reading' = "closed" /\ deque_' = deque_
  <2>1. ReadInv'
    BY <1>1, <1>2, <1>4, <1>5, <1>10, <1>15 DEF ReadInv, f
  <2>2. QueuedInv'
    BY <1>0, <1>2, <1>4, <1>5, <1>13, <1>15 DEF QueuedInv
  <2>3. StreamTypeOK'
    BY <1>0, <1>14, <1>15 DEF StreamTypeOK
  <2> QED BY <1>8, <2>1, <2>2, <2>3 DEF StreamInv
<1>16. CASE r.ok /\ r.mf.body_length = 0 /\ BodyRead(c, r.mf)
  <2>1. f.text \in Seq(Cells) /\ Len(f.text) = 0
    BY <1>4, <1>10, <1>16, FrameTyped, WidthAssumption
  <2>2. Data(r.mf) = f.text
    <3>1. r.mf.body \in Seq(Cells) /\ Data(r.mf) = SubSeq(r.mf.body, 1, 0)
      BY <1>10, <1>16 DEF Formats, Data
    <3>2. SubSeq(r.mf.body, 1, 0) = <<>>
      BY <3>1
    <3>3. f.text = <<>>
      BY <2>1
    <3> QED BY <3>1, <3>2, <3>3
  <2>3. QueuedInv' /\ deque_' \in Seq([n : 1..Len(sent), mf : Formats])
    BY <1>0, <1>2, <1>4, <1>5, <1>10, <1>13, <1>16, <2>2, BodyReadKeeps DEF f, h, QueuedInv
  <2>4. ReadInv'
    BY <1>16 DEF ReadInv, BodyRead
  <2> QED BY <1>8, <1>14, <2>3, <2>4 DEF StreamInv
<1>17. CASE r.ok /\ r.mf.body_length > 0 /\ reading' = "body" /\ read_msg_' = r.mf
            /\ deque_' = deque_
  <2>1. ReadInv'
    BY <1>1, <1>2, <1>4, <1>5, <1>7, <1>10, <1>17 DEF ReadInv, f, h
  <2>2. QueuedInv'
    BY <1>0, <1>2, <1>4, <1>5, <1>13, <1>17 DEF QueuedInv
  <2>3. StreamTypeOK'
    BY <1>0, <1>14, <1>17 DEF StreamTypeOK
  <2> QED BY <1>8, <2>1, <2>2, <2>3 DEF StreamInv
<1> QED BY <1>11, <1>15, <1>16, <1>17

\* A body: the message is whole and goes into the queue.
LEMMA BodyKeeps ==
  ASSUME StreamInv, HandleBody
  PROVE  StreamInv'
<1> DEFINE c == Current
           mf == ReadBody(read_msg_, arriving)
<1>0. StreamTypeOK /\ WireInv /\ ReadInv /\ QueuedInv
  BY DEF StreamInv
<1>1. /\ reading = "body" /\ BodyRead(c, mf) /\ arriving' = <<>>
      /\ UNCHANGED <<sent, toServer>>
  BY DEF HandleBody
<1>2. /\ Len(sent) \in Nat /\ c \in 1..Len(sent) /\ sent[c] \in Frames
      /\ read_msg_ \in Formats /\ HeadLen \in Nat /\ read_msg_.body_length \in Nat
  BY <1>0, <1>1, CurrentTyped, WidthAssumption DEF ReadInv, StreamTypeOK, Formats
<1>3. /\ arriving = sent[c].text
      /\ read_msg_.head = Header(sent[c].len, sent[c].cmd)
      /\ sent[c].len \in HeadLen..(HeadLen + MaxBody)
      /\ read_msg_.body_length = sent[c].len - HeadLen
      /\ Len(read_msg_.body) = HeadLen + read_msg_.body_length
  BY <1>0, <1>1 DEF ReadInv
<1>4. Current' = c
  BY <1>1 DEF Current
<1> HIDE DEF c
<1>5. /\ arriving \in Seq(Cells) /\ Len(arriving) = read_msg_.body_length
      /\ read_msg_.body_length <= Len(read_msg_.body)
  BY <1>2, <1>3, FrameTyped
<1>6. mf \in Formats /\ mf.head = read_msg_.head /\ Data(mf) = arriving
  BY <1>2, <1>5, BodyFilled
<1> HIDE DEF mf
<1>7. QueuedInv' /\ deque_' \in Seq([n : 1..Len(sent), mf : Formats])
  <2>1. \A i \in 1..Len(deque_) : Fits(deque_[i], sent[deque_[i].n]) /\ deque_[i].n < c
    BY <1>0, <1>1 DEF QueuedInv, c
  <2> QED BY <1>0, <1>1, <1>2, <1>3, <1>4, <1>6, <2>1, BodyReadKeeps DEF QueuedInv
<1>8. ReadInv' /\ read_msg_' = mf /\ reading' = "header"
  BY <1>1 DEF ReadInv, BodyRead
<1>9. WireInv'
  BY <1>0, <1>1, <1>4 DEF WireInv, c
<1>10. StreamTypeOK'
  <2>1. <<>> \in Seq(Cells)
    OBVIOUS
  <2> QED BY <1>0, <1>1, <1>6, <1>7, <1>8, <2>1 DEF StreamTypeOK
<1> QED BY <1>7, <1>8, <1>9, <1>10 DEF StreamInv

LEMMA StreamKeeps == StreamInv /\ [StreamNext]_streamVars => StreamInv'
<1> SUFFICES ASSUME StreamInv, [StreamNext]_streamVars PROVE StreamInv'
  OBVIOUS
<1>1. CASE UNCHANGED streamVars
  BY <1>1 DEF streamVars, readVars, StreamInv, StreamTypeOK, WireInv, ReadInv, QueuedInv,
              Current
<1> QED BY <1>1, SendsKeeps, HeaderKeeps, BodyKeeps, TakeKeeps DEF StreamNext

LEMMA StreamInductive == StreamSpec => []StreamInv
  BY StreamKeeps, StreamStarts, PTL DEF StreamSpec

\* The frames, read_msg_ and the queue keep their types whatever lengths are
\* received: body_length_ is a size_t, never a negative number.
THEOREM StreamTyped == StreamSpec => []StreamTypeOK
<1>1. StreamInv => StreamTypeOK
  BY DEF StreamInv
<1> QED BY <1>1, StreamInductive, PTL

\* The session closes exactly at a header whose length is not one of a body of
\* 0 to MaxBody, and the body read behind any other header fits into body_,
\* for every width of int and size_t and any number of frames before it.
THEOREM BadLengthsRefused == StreamSpec => []LengthRefused
<1>1. StreamInv => LengthRefused
  <2> SUFFICES ASSUME StreamInv PROVE LengthRefused
    OBVIOUS
  <2>1. HeadLen \in Nat /\ MaxBody \in Nat
    BY WidthAssumption
  <2> QED BY <2>1 DEF StreamInv, StreamTypeOK, Formats, ReadInv, LengthRefused
<1> QED BY <1>1, StreamInductive, PTL

\* What try_pop takes out of the queue is a frame the peer sent, whole, in the
\* order it was sent and with no cell of the frames that were read into the
\* same read_msg_ before it.
THEOREM FramesDelivered == StreamSpec => []Delivered
<1>1. StreamInv => Delivered
  <2> SUFFICES ASSUME StreamInv PROVE Delivered
    OBVIOUS
  <2>1. DOMAIN deque_ = 1..Len(deque_)
    BY DEF StreamInv, StreamTypeOK
  <2> QED BY <2>1 DEF StreamInv, QueuedInv, Fits, Delivered
<1> QED BY <1>1, StreamInductive, PTL
==============================================================================
