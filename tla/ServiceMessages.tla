--------------------------- MODULE ServiceMessages ---------------------------
(***************************************************************************)
(* One connection between the server and a connect server, the peer, seen  *)
(* from the texts that travel on it: the peer puts a message together with *)
(* the generated classes (ProtoMessage), it is framed (MessageFormat) and  *)
(* read by the session (FrameStream), a worker parses the text and answers *)
(* with the text of another message.                                       *)
(*                                                                         *)
(* A cell of a body is one serialized field.  Who runs when, and the write *)
(* queue, are in TaskQueue, SessionBase and RequestProcessing; here a      *)
(* request is taken and answered in one step.                              *)
(*                                                                         *)
(* The peer is another program, built from the same .proto files, perhaps  *)
(* later ones and by another implementation: it may send fields this       *)
(* program does not know, in another order, or leave out required ones.    *)
(***************************************************************************)
EXTENDS Integers, Sequences, SequencesExt, ProtoMessage, FrameStream

CONSTANTS MaxSet,      \* bound of the model: accessor calls on a message
          MaxMessages  \* bound of the model: frames the peer sends

ASSUME BoundAssumption == MaxSet \in Nat /\ MaxMessages \in Nat

VARIABLES
  draft,      \* peer: message being put together, [class, obj, calls]
  meant,      \* what it has sent, as messages: [class, obj]
  toPeer,     \* frames on their way to the peer: [re, mf]
  last        \* what the peer received last: [re, cmd, text]

vars == <<draft, meant, streamVars, toPeer, last>>

NothingYet == [re |-> 0, cmd |-> 0, text |-> <<>>]

\* The class of what is no message.
NoClass == "none"

NoDraft == [class |-> NoClass, obj |-> NoObject, calls |-> 0]

Init ==
  /\ StreamInit
  /\ draft = NoDraft /\ meant = <<>>
  /\ toPeer = <<>> /\ last = NothingYet

----------------------------------------------------------------------------
(* The peer puts a message together and sends it.                           *)

\* Names of texts: a serial number, a session, a user, data of some kind.
Sn == Text(1)
Sessid == Text(2)
Cid == Text(3)
Contents == Text(4)
HttpAnswer == Text(5)
MongoAnswer == Text(6)
MongoError == Text(7)
PythonAnswer == Text(8)
PythonError == Text(9)
JsonPush == Text(10)
Foreign == Unit(15, VARINT, 1, <<>>)

\* A message without messages in it, all fields set.
FilledLeaf(m) ==
  [bits |-> {m.bit[f] : f \in Fields(m)},
   val |-> [f \in Fields(m) |->
              IF f = "cid" THEN StrVal(Cid)
              ELSE IF WireType(TypeOf(m, f)) = LENGTH_DELIMITED THEN StrVal(Contents)
              ELSE IntVal(7)],
   unknown |-> <<>>]

\* The values the peer gives a field: its default and another one.
ValuesOf(m, f) ==
  IF IsMessage(m, f)
    THEN {SubVal(NewLeaf(m.sub[f])), SubVal(FilledLeaf(m.sub[f]))}
  ELSE IF WireType(TypeOf(m, f)) = LENGTH_DELIMITED THEN {StrVal(<<>>), StrVal(Contents)}
  ELSE {IntVal(0), IntVal(7)}

\* A message put together call by call is the only one in a behaviour.
Begin(m) ==
  /\ draft = NoDraft /\ sent = <<>> /\ toPeer = <<>> /\ last = NothingYet
  /\ draft' = [class |-> m, obj |-> New(ClassOf[m]), calls |-> 0]
  /\ UNCHANGED <<meant, streamVars, toPeer, last>>

\* One call of an accessor gives the object o.
Call(o) ==
  /\ draft # NoDraft /\ draft.calls < MaxSet
  /\ draft' = [draft EXCEPT !.obj = o, !.calls = @ + 1]
  /\ UNCHANGED <<meant, streamVars, toPeer, last>>

\* The class of the draft.
DraftClass == ClassOf[draft.class]

SetField(f) == \E v \in ValuesOf(DraftClass, f) : Call(set(DraftClass, draft.obj, f, v))

ClearField(f) ==
  /\ has(DraftClass, draft.obj, f)
  /\ Call(clear(DraftClass, draft.obj, f))

\* A field of a later version.
AddForeign ==
  /\ draft.obj.unknown = <<>>
  /\ Call([draft.obj EXCEPT !.unknown = <<Foreign>>])

\* Every field is set.
Fill ==
  /\ draft.calls = 0
  /\ LET m == DraftClass
     IN  Call([draft.obj EXCEPT
                 !.bits = {m.bit[f] : f \in Fields(m)},
                 !.val = [f \in Fields(m) |->
                            CHOOSE v \in ValuesOf(m, f) : v # DefaultOf(m, f)]])

\* Frame i is a draft; nothing follows it.
Drafted(i) == sent[i].cmd = 100 /\ meant[i].class # NoClass

\* A message of this class, or of none, goes out with this text and length.
SendFrame(class, obj, cmd, text, len) ==
  /\ Len(sent) < MaxMessages
  /\ \A i \in DOMAIN sent : ~Drafted(i)
  /\ meant' = Append(meant, [class |-> class, obj |-> obj])
  /\ Transmit([cmd |-> cmd, text |-> text, len |-> len])
  /\ UNCHANGED <<readVars, deque_, toPeer, last>>

Encoded(cmd, class, obj, text) ==
  SendFrame(class, obj, cmd, text, encode_header(cmd, text).head.len)

\* The draft goes out under a command no responder is for.
Send ==
  /\ draft # NoDraft
  /\ LET text == Serialize(DraftClass, draft.obj)
     IN  \E t \in {text, Reverse(text)} : Encoded(100, draft.class, draft.obj, t)
  /\ draft' = NoDraft

\* The field of ServicePacket that carries a request, and its answer.
RequestField(t) ==
  CASE t = 21 -> "reply_request" [] t = 23 -> "post_topic_request"
    [] t = 25 -> "public_service_request" [] t = 27 -> "group_lbs_near_request"
    [] t = 29 -> "group_city_request" [] OTHER -> "python_core_request"
ResponseField(t) ==
  CASE t = 21 -> "reply_response" [] t = 23 -> "post_topic_response"
    [] t = 25 -> "public_service_response" [] t = 27 -> "group_lbs_near_response"
    [] t = 29 -> "group_city_response" [] OTHER -> "python_core_response"

\* A new object on which set_f has been called for the fields of vals.
Made(m, vals) ==
  [bits |-> {m.bit[f] : f \in DOMAIN vals},
   val |-> [f \in Fields(m) |-> IF f \in DOMAIN vals THEN vals[f] ELSE DefaultOf(m, f)],
   unknown |-> <<>>]

Types == {21, 23, 25, 27, 29, 31}

TypedPacket(t) == Made(ServicePacket, [type |-> IntVal(t)])

FullPacket(t) ==
  LET f == RequestField(t)
  IN  set(ServicePacket, TypedPacket(t), f, SubVal(FilledLeaf(ServicePacket.sub[f])))

\* Texts a peer may put into the payload: requests of every type with and
\* without their message, a type nobody serves, no type, no packet at all.
Packets ==
  {TypedPacket(t) : t \in Types \cup {22}} \cup {FullPacket(t) : t \in Types}
    \cup {New(ServicePacket)}

Payloads == {Serialize(ServicePacket, p) : p \in Packets} \cup {Contents}

ServiceRequestOf(type) ==
  Made(ServiceRequest, [sn |-> StrVal(Sn), sessid |-> StrVal(Sessid), service_type |-> IntVal(type)])

WithPayload(o, p) == set(ServiceRequest, o, "payload", StrVal(p))

ServiceRequests ==
  {WithPayload(ServiceRequestOf(600), p) : p \in Payloads}
  \cup {ServiceRequestOf(600),
        WithPayload(ServiceRequestOf(7), Contents),
        clear(ServiceRequest, ServiceRequestOf(600), "sn")}

\* The units of the messages the peer puts together, and of its other texts.
UnitsOf(m, o) ==
  {FieldUnit(m, m.serialize[i], get(o, m.serialize[i].field)) : i \in 1..Len(m.serialize)}

DraftUnits(m) ==
  UNION {{FieldUnit(m, m.serialize[i], v) : v \in ValuesOf(m, m.serialize[i].field)} :
           i \in 1..Len(m.serialize)}

PeerUnits ==
  (UNION {DraftUnits(ClassOf[c]) : c \in Classes})
  \cup (UNION {UnitsOf(ServiceRequest, o) : o \in ServiceRequests})
  \cup {Foreign, Contents[1], JsonPush[1]}

\* These are cells, no message is so long that its length leaves the range of
\* an int and comes back to it, and that of a ServiceResponse is within it.
ASSUME PeerAssumption ==
  /\ PeerUnits \subseteq Cells
  /\ \A c \in Classes : HeadLen + Len(ClassOf[c].serialize) + 1 < 2 * IntMax
  /\ HeadLen + Len(ServiceResponse.serialize) < IntMax

\* A request; only the shortest ones follow another frame.
Ask ==
  /\ draft = NoDraft
  /\ \E cmd \in {200, 7818, 8000}, o \in ServiceRequests :
       /\ sent # <<>> => o = ServiceRequestOf(600) /\ cmd = 200
       /\ Encoded(cmd, "ServiceRequest", o, Serialize(ServiceRequest, o))
  /\ UNCHANGED draft

\* The answer to a heartbeat, and a push in JSON, complete or not.
SendOther ==
  /\ draft = NoDraft
  /\ \/ Encoded(1, NoClass, NoObject, <<>>)
     \/ \E text \in {JsonPush, Contents} : Encoded(6666, NoClass, NoObject, text)
  /\ UNCHANGED draft

\* Another program's header, with any length in it.
SendHeader(len) ==
  /\ draft = NoDraft
  /\ SendFrame(NoClass, NoObject, 100,
               [i \in 1..(IF len > HeadLen THEN len - HeadLen ELSE 0) |-> Contents[1]], len)
  /\ UNCHANGED draft

\* The session reads.
ReadStep ==
  /\ HandleHeader \/ HandleBody
  /\ UNCHANGED <<draft, meant, toPeer, last>>

----------------------------------------------------------------------------
(* A worker answers.  The responders return a set: what the HTTP server,    *)
(* mongo or Python may have made of the request.                            *)

Respond(t, vals) ==
  LET f == ResponseField(t)
  IN  set(ServicePacket, TypedPacket(t + 1), f, SubVal(Made(ServicePacket.sub[f], vals)))

\* What the accessor of the request's field gives, set or not.
RequestIn(packet) == get(packet, RequestField(get(packet, "type").int)).obj

\* do_reply_request, do_post_topic_request: the request is copied; a failed
\* exchange gives an empty text.
do_reply_request(packet, t) ==
  LET m == ServicePacket.sub[RequestField(t)]
      rr == CopyFrom(m, RequestIn(packet))
  IN  {Respond(t, [cid |-> get(rr, "cid"), type |-> get(rr, "type"), data |-> StrVal(s)]) :
         s \in {HttpAnswer, <<>>}}

\* do_public_service_request; the clock shows 1.
do_public_service_request(packet, t) ==
  LET psr == RequestIn(packet)
  IN  {Respond(t, [cid |-> get(psr, "cid"), service_id |-> get(psr, "service_id"),
                   time |-> IntVal(1), data |-> StrVal(s)]) : s \in {HttpAnswer, <<>>}}

\* parser_group_near_request, parser_group_city_request: an error leaves a
\* packet too, which is not sent.
parser_group_request(packet, t) ==
  {[status |-> IF s = MongoError THEN -1 ELSE 0,
    packet |-> Respond(t, [cid |-> get(RequestIn(packet), "cid"),
                           status |-> IntVal(IF s = MongoError THEN -1 ELSE 0),
                           data |-> StrVal(s)])] : s \in {MongoAnswer, MongoError}}

Result(status, text) == [status |-> status, text |-> text]

\* service_package_responser::parser
service_package_responser(data) ==
  LET p == ParseFromString(ServicePacket, data)
      t == get(p.obj, "type").int
      Written(packets) == {Result(0, Serialize(ServicePacket, o)) : o \in packets}
  IN  IF ~p.ok THEN {Result(0, <<>>)}
      ELSE IF t \in {21, 23} THEN Written(do_reply_request(p.obj, t))
      ELSE IF t = 25 THEN Written(do_public_service_request(p.obj, t))
      ELSE IF t \in {27, 29} THEN
        {Result(g.status, Serialize(ServicePacket, g.packet)) : g \in parser_group_request(p.obj, t)}
      ELSE Written({New(ServicePacket)})

\* group_responser::parser refuses every packet.
group_responser(data) == {Result(-1, <<>>)}

\* python_func_service_responser::parser
python_func_service_responser(data) ==
  LET p == ParseFromString(ServicePacket, data)
      Answer(status, s) ==
        Respond(31, [cid |-> get(RequestIn(p.obj), "cid"), status |-> IntVal(status),
                     json_response |-> StrVal(s)])
  IN  IF ~p.ok \/ get(p.obj, "type").int # 31 THEN {Result(0, <<>>)}
      ELSE {Result(0, Serialize(ServicePacket, o)) :
              o \in {Answer(1, PythonAnswer), Answer(0, PythonError)}}

Task(cmd, data) ==
  IF cmd = 200 THEN service_package_responser(data)
  ELSE IF cmd = 7818 THEN group_responser(data)
  ELSE python_func_service_responser(data)

\* Fault: the session the answer is for is left out.
WrapWithoutSession(sr, text) ==
  Made(ServiceResponse, [sn |-> get(sr, "sn"), service_type |-> get(sr, "service_type"),
                         status |-> IntVal(0), payload |-> StrVal(text)])

\* The ServiceResponse around the packet of an answer.
Wrap(sr, text) ==
  Made(ServiceResponse, [sn |-> get(sr, "sn"), sessid |-> get(sr, "sessid"),
                         service_type |-> get(sr, "service_type"),
                         status |-> IntVal(0), payload |-> StrVal(text)])

\* What is sent for the result r of a task: after an error, nothing.
AnswerFor(sr, r) ==
  IF r.status = 0 THEN Serialize(ServiceResponse, Wrap(sr, r.text)) ELSE <<>>

\* parser of server_service_responser and of group_service_request_responser.
parser(cmd, data) ==
  LET sr == ParseFromString(ServiceRequest, data)
  IN  IF ~sr.ok \/ get(sr.obj, "service_type").int # 600 \/ ~has(ServiceRequest, sr.obj, "payload")
        THEN {<<>>}
        ELSE {AnswerFor(sr.obj, r) : r \in Task(cmd, get(sr.obj, "payload").str)}

\* server_service_response_responser::parser: a ServiceResponse for every
\* session the user has; status is never set.
PushTexts(data) ==
  LET psr == Respond(25, [cid |-> StrVal(Cid), service_id |-> StrVal(Contents),
                          data |-> StrVal(Contents)])
      srp == [sn |-> StrVal(Sn), service_type |-> IntVal(600),
              payload |-> StrVal(Serialize(ServicePacket, psr))]
      ForSession(s) ==
        Serialize(ServiceResponse, set(ServiceResponse, Made(ServiceResponse, srp), "sessid", StrVal(s)))
  IN  IF data # JsonPush THEN {<<>>}
      ELSE {<<>>, <<ForSession(Sessid)>>, <<ForSession(Sessid), ForSession(Contents)>>}

Written(n, cmd, text) == [re |-> n, mf |-> encode_header(cmd, text)]

\* dispatch_to_server, for each of the texts of a push.
Pushed(n, texts) == [i \in DOMAIN texts |-> Written(n, 6667, texts[i])]

\* try_pop, do_work: parse, response or dispatch_to_server.
Work ==
  /\ TakeMessage
  /\ LET n == Head(deque_).n
         cmd == Head(deque_).mf.head.cmd
         data == Data(Head(deque_).mf)
     IN  \/ /\ cmd \in {200, 7818, 8000}
            /\ \E text \in parser(cmd, data) : toPeer' = Append(toPeer, Written(n, cmd + 1, text))
         \/ /\ cmd = 6666
            /\ \E texts \in PushTexts(data) : toPeer' = toPeer \o Pushed(n, texts)
         \/ /\ cmd \notin {200, 6666, 7818, 8000}
            /\ UNCHANGED toPeer
  /\ UNCHANGED <<draft, meant, last>>

\* peer_handle_client::registe
Registe ==
  /\ draft = NoDraft /\ sent = <<>> /\ toPeer = <<>> /\ last = NothingYet
  /\ LET srr == Made(SvRegRequest, [service_type |-> IntVal(600)])
     IN  toPeer' = <<Written(0, 300, Serialize(SvRegRequest, srr))>>
  /\ UNCHANGED <<draft, meant, streamVars, last>>

\* The peer reads a frame: as many cells as its header says.
PeerReads ==
  /\ toPeer # <<>>
  /\ toPeer' = Tail(toPeer)
  /\ LET f == Head(toPeer)
     IN  last' = [re |-> f.re, cmd |-> f.mf.head.cmd,
                  text |-> SubSeq(f.mf.body, 1, f.mf.head.len - HeadLen)]
  /\ UNCHANGED <<draft, meant, streamVars>>

----------------------------------------------------------------------------

Compose ==
  \/ \E m \in Classes : Begin(m)
  \/ /\ draft # NoDraft
     /\ \/ \E f \in Fields(DraftClass) : SetField(f) \/ ClearField(f)
        \/ AddForeign \/ Fill

Next ==
  \/ Compose \/ Send \/ Ask \/ SendOther
  \/ \E len \in IntRange : SendHeader(len)
  \/ ReadStep \/ Work
  \/ Registe \/ PeerReads

Spec == Init /\ [][Next]_vars

----------------------------------------------------------------------------
(* Properties.                                                              *)

\* The state of read_msg_ and of both directions.
TypeOK ==
  /\ StreamTypeOK
  /\ draft = NoDraft \/ (draft.class \in Classes /\ draft.calls \in 0..MaxSet)
  /\ Len(sent) <= MaxMessages /\ DOMAIN meant = DOMAIN sent
  /\ \A i \in DOMAIN toPeer : toPeer[i].re \in {0} \cup DOMAIN sent

\* A message of any of the generated classes, whatever accessors made it and
\* in whatever order its fields were written, is parsed to the same message,
\* fields of a later version included; ParseFromString refuses it exactly
\* when a required field was never set.
RoundTrip ==
  \A i \in DOMAIN deque_ :
    LET s == meant[deque_[i].n]
        m == ClassOf[s.class]
        r == ParseFromString(m, Data(deque_[i].mf))
    IN  s.class # NoClass => r.obj = s.obj /\ (r.ok <=> IsInitialized(m, s.obj))

\* The parts of a generated class agree: ByteSize counts exactly the bytes
\* SerializeWithCachedSizes writes (the buffer is made that large), and
\* CopyFrom, which do_reply_request uses, copies the whole object.
WholeObject ==
  draft # NoDraft =>
    /\ ByteSize(DraftClass, draft.obj) = SizeOf(Serialize(DraftClass, draft.obj))
    /\ CopyFrom(DraftClass, draft.obj) = draft.obj

\* Whether a request is one the wrapper passes on to a responder.
Acceptable(o) ==
  /\ IsInitialized(ServiceRequest, o)
  /\ get(o, "service_type").int = 600 /\ has(ServiceRequest, o, "payload")

\* The packet parsed as a answers the one parsed as p.
Follows(p, a) ==
  LET t == get(p.obj, "type").int
  IN  /\ p.ok /\ a.ok /\ get(a.obj, "type").int = t + 1
      /\ has(ServicePacket, a.obj, ResponseField(t))
      /\ get(get(a.obj, ResponseField(t)).obj, "cid") = get(get(p.obj, RequestField(t)).obj, "cid")

\* Command and text are an answer to the request q, sent under command asked.
Echoes(q, asked, cmd, text) ==
  LET r == ParseFromString(ServiceResponse, text)
      p == ParseFromString(ServicePacket, get(q, "payload").str)
      a == ParseFromString(ServicePacket, get(r.obj, "payload").str)
  IN  /\ cmd = asked + 1
      /\ text = <<>> => ~Acceptable(q) \/ cmd = 7819 \/ get(p.obj, "type").int \in {27, 29}
      /\ text # <<>> =>
           /\ r.ok /\ Acceptable(q)
           /\ \A f \in {"sn", "sessid", "service_type"} : get(r.obj, f) = get(q, f)
           /\ get(r.obj, "payload").str # <<>> => Follows(p, a)

\* What the peer gets for a request parses as a complete ServiceResponse with
\* the request's own sn, sessid and service_type, and a payload that is empty
\* or a packet of the following type that echoes the user's cid; an answer
\* without a body is given only to a request that is no ServiceRequest of
\* type 600 with a payload, for an error of mongo, and to command 7818.
AnswerEchoes ==
  last.re > 0 /\ last.cmd \in {201, 7819, 8001} =>
    Echoes(meant[last.re].obj, sent[last.re].cmd, last.cmd, last.text)

\* A push (command 6667) is a ServiceResponse, so its receiver can parse it:
\* connect_server.pb.h declares status required.  The push responder never
\* sets it.
PushAccepted ==
  last.cmd = 6667 => ParseFromString(ServiceResponse, last.text).ok
=============================================================================
