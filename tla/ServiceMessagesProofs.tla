------------------------ MODULE ServiceMessagesProofs ------------------------
(***************************************************************************)
(* The generated classes and the connection that carries their texts.      *)
(*                                                                         *)
(* First the tables of a class agree (ClassesAgree).  From that alone: a   *)
(* text with the fields of an object in any order is parsed to the object, *)
(* its size is what ByteSize says, and a copy is the whole of it.  Then    *)
(* the invariant of the connection: every frame spells a message the peer  *)
(* put together, and every answer on its way is one to the request whose   *)
(* number it bears.                                                        *)
(***************************************************************************)
EXTENDS ServiceMessages, FrameStreamProofs, LeastNumber, TLAPS

----------------------------------------------------------------------------
(* The loops of the generated classes, from one turn to the next.           *)

\* MergeFrom goes through the fields in order.
LEMMA CopiesAre ==
  ASSUME NEW m, NEW o, NEW from, NEW vals, Len(m.fields) \in Nat
  PROVE  /\ Copies(m, o, from, vals)[0] = o
         /\ \A i \in 1..Len(m.fields) : Copies(m, o, from, vals)[i] =
              IF has(m, from, m.fields[i]) THEN set(m, Copies(m, o, from, vals)[i - 1], m.fields[i], vals[m.fields[i]])
              ELSE Copies(m, o, from, vals)[i - 1]
<1> DEFINE G(N, f) == f = [i \in 0..N |-> IF i = 0 THEN o ELSE
                             IF has(m, from, m.fields[i]) THEN set(m, f[i - 1], m.fields[i], vals[m.fields[i]])
              ELSE f[i - 1]]
           S == {N \in Nat : \E f : G(N, f)}
<1>1. G(0, [i \in 0..0 |-> o])
  OBVIOUS
<1>2. ASSUME NEW N \in Nat, NEW f, G(N, f)
      PROVE  \E g : G(N + 1, g)
  <2> DEFINE turn(i) == IF i = 0 THEN o ELSE
                     IF has(m, from, m.fields[i]) THEN set(m, f[i - 1], m.fields[i], vals[m.fields[i]])
              ELSE f[i - 1]
             g == [i \in 0..(N + 1) |-> turn(i)]
  <2>0. f = [i \in 0..N |-> turn(i)]
    BY <1>2
  <2>1. \A i \in 0..N : g[i] = f[i]
    <3> HIDE DEF turn
    <3>1. \A i \in 0..N : i \in 0..(N + 1)
      OBVIOUS
    <3> QED BY <2>0, <3>1
  <2>2. ASSUME NEW i \in 0..(N + 1), i # 0 PROVE f[i - 1] = g[i - 1]
    <3>1. i - 1 \in 0..N
      BY <2>2
    <3> HIDE DEF g
    <3> QED BY <3>1, <2>1
  <2>3. G(N + 1, g)
    BY <2>2
  <2> QED BY <2>3
<1> HIDE DEF G
<1>3. 0 \in S /\ \A N \in Nat : N \in S => N + 1 \in S
  BY <1>1, <1>2
<1> HIDE DEF S
<1>4. Len(m.fields) \in S
  BY <1>3, NumbersInduct
<1>5. PICK f : G(Len(m.fields), f)
  BY <1>4 DEF S
<1>6. G(Len(m.fields), Copies(m, o, from, vals))
  BY <1>5, Zenon DEF Copies, G
<1> QED BY <1>6 DEF G

\* SerializeWithCachedSizes goes through the fields in order.
LEMMA WritesAre ==
  ASSUME NEW m, NEW o, NEW units, Len(m.serialize) \in Nat
  PROVE  /\ Writes(m, o, units)[0] = <<>>
         /\ \A i \in 1..Len(m.serialize) : Writes(m, o, units)[i] =
              IF has(m, o, m.serialize[i].field) THEN Append(Writes(m, o, units)[i - 1], units[i]) ELSE Writes(m, o, units)[i - 1]
<1> DEFINE Put(b, i) == IF has(m, o, m.serialize[i].field) THEN Append(b, units[i]) ELSE b
           G(N, f) == f = [i \in 0..N |-> IF i = 0 THEN <<>> ELSE
                             Put(f[i - 1], i)]
           S == {N \in Nat : \E f : G(N, f)}
<1> HIDE DEF Put
<1>1. G(0, [i \in 0..0 |-> <<>>])
  OBVIOUS
<1>2. ASSUME NEW N \in Nat, NEW f, G(N, f)
      PROVE  \E g : G(N + 1, g)
  <2> DEFINE turn(i) == IF i = 0 THEN <<>> ELSE
                     Put(f[i - 1], i)
             g == [i \in 0..(N + 1) |-> turn(i)]
  <2>0. f = [i \in 0..N |-> turn(i)]
    BY <1>2
  <2>1. \A i \in 0..N : g[i] = f[i]
    <3> HIDE DEF turn
    <3>1. \A i \in 0..N : i \in 0..(N + 1)
      OBVIOUS
    <3> QED BY <2>0, <3>1
  <2>2. ASSUME NEW i \in 0..(N + 1), i # 0 PROVE f[i - 1] = g[i - 1]
    <3>1. i - 1 \in 0..N
      BY <2>2
    <3> HIDE DEF g
    <3> QED BY <3>1, <2>1
  <2>3. G(N + 1, g)
    BY <2>2
  <2> QED BY <2>3
<1> HIDE DEF G
<1>3. 0 \in S /\ \A N \in Nat : N \in S => N + 1 \in S
  BY <1>1, <1>2
<1> HIDE DEF S
<1>4. Len(m.serialize) \in S
  BY <1>3, NumbersInduct
<1>5. PICK f : G(Len(m.serialize), f)
  BY <1>4 DEF S
<1>6. G(Len(m.serialize), Writes(m, o, units))
  BY <1>5, Zenon DEF Writes, G, Put
<1>7. /\ Writes(m, o, units)[0] = <<>>
      /\ \A i \in 1..Len(m.serialize) : Writes(m, o, units)[i] = Put(Writes(m, o, units)[i - 1], i)
  BY <1>6 DEF G
<1> QED BY <1>7, Zenon DEF Put

\* The size of a text, unit by unit.
LEMMA SizesAre ==
  ASSUME NEW units, Len(units) \in Nat
  PROVE  /\ Sizes(units)[0] = 0
         /\ \A i \in 1..Len(units) : Sizes(units)[i] =
              Sizes(units)[i - 1] + UnitSize(units[i])
<1> DEFINE G(N, f) == f = [i \in 0..N |-> IF i = 0 THEN 0 ELSE
                             f[i - 1] + UnitSize(units[i])]
           S == {N \in Nat : \E f : G(N, f)}
<1>1. G(0, [i \in 0..0 |-> 0])
  OBVIOUS
<1>2. ASSUME NEW N \in Nat, NEW f, G(N, f)
      PROVE  \E g : G(N + 1, g)
  <2> DEFINE turn(i) == IF i = 0 THEN 0 ELSE
                     f[i - 1] + UnitSize(units[i])
             g == [i \in 0..(N + 1) |-> turn(i)]
  <2>0. f = [i \in 0..N |-> turn(i)]
    BY <1>2
  <2>1. \A i \in 0..N : g[i] = f[i]
    <3> HIDE DEF turn
    <3>1. \A i \in 0..N : i \in 0..(N + 1)
      OBVIOUS
    <3> QED BY <2>0, <3>1
  <2>2. ASSUME NEW i \in 0..(N + 1), i # 0 PROVE f[i - 1] = g[i - 1]
    <3>1. i - 1 \in 0..N
      BY <2>2
    <3> HIDE DEF g
    <3> QED BY <3>1, <2>1
  <2>3. G(N + 1, g)
    BY <2>2
  <2> QED BY <2>3
<1> HIDE DEF G
<1>3. 0 \in S /\ \A N \in Nat : N \in S => N + 1 \in S
  BY <1>1, <1>2
<1> HIDE DEF S
<1>4. Len(units) \in S
  BY <1>3, NumbersInduct
<1>5. PICK f : G(Len(units), f)
  BY <1>4 DEF S
<1>6. G(Len(units), Sizes(units))
  BY <1>5, Zenon DEF Sizes, G
<1> QED BY <1>6 DEF G

\* ByteSize goes through the fields in order.
LEMMA FieldSizesAre ==
  ASSUME NEW m, NEW o, Len(m.fields) \in Nat
  PROVE  /\ FieldSizes(m, o)[0] = 0
         /\ \A i \in 1..Len(m.fields) : FieldSizes(m, o)[i] =
              IF has(m, o, m.fields[i]) THEN FieldSizes(m, o)[i - 1] + FieldSize(m, o, m.fields[i]) ELSE FieldSizes(m, o)[i - 1]
<1> DEFINE G(N, f) == f = [i \in 0..N |-> IF i = 0 THEN 0 ELSE
                             IF has(m, o, m.fields[i]) THEN f[i - 1] + FieldSize(m, o, m.fields[i]) ELSE f[i - 1]]
           S == {N \in Nat : \E f : G(N, f)}
<1>1. G(0, [i \in 0..0 |-> 0])
  OBVIOUS
<1>2. ASSUME NEW N \in Nat, NEW f, G(N, f)
      PROVE  \E g : G(N + 1, g)
  <2> DEFINE turn(i) == IF i = 0 THEN 0 ELSE
                     IF has(m, o, m.fields[i]) THEN f[i - 1] + FieldSize(m, o, m.fields[i]) ELSE f[i - 1]
             g == [i \in 0..(N + 1) |-> turn(i)]
  <2>0. f = [i \in 0..N |-> turn(i)]
    BY <1>2
  <2>1. \A i \in 0..N : g[i] = f[i]
    <3> HIDE DEF turn
    <3>1. \A i \in 0..N : i \in 0..(N + 1)
      OBVIOUS
    <3> QED BY <2>0, <3>1
  <2>2. ASSUME NEW i \in 0..(N + 1), i # 0 PROVE f[i - 1] = g[i - 1]
    <3>1. i - 1 \in 0..N
      BY <2>2
    <3> HIDE DEF g
    <3> QED BY <3>1, <2>1
  <2>3. G(N + 1, g)
    BY <2>2
  <2> QED BY <2>3
<1> HIDE DEF G
<1>3. 0 \in S /\ \A N \in Nat : N \in S => N + 1 \in S
  BY <1>1, <1>2
<1> HIDE DEF S
<1>4. Len(m.fields) \in S
  BY <1>3, NumbersInduct
<1>5. PICK f : G(Len(m.fields), f)
  BY <1>4 DEF S
<1>6. G(Len(m.fields), FieldSizes(m, o))
  BY <1>5, Zenon DEF FieldSizes, G
<1> QED BY <1>6 DEF G

\* The parser of a class without messages takes a unit in every turn.
LEMMA LeafTurnsAre ==
  ASSUME NEW m, NEW o, NEW units, Len(units) \in Nat
  PROVE  /\ LeafTurns(m, o, units)[0] = Started(o)
         /\ \A i \in 1..Len(units) : LeafTurns(m, o, units)[i] =
              MergeUnit(m, LeafTurns(m, o, units)[i - 1], units[i], Started(NoObject))
<1> DEFINE G(N, f) == f = [i \in 0..N |-> IF i = 0 THEN Started(o) ELSE
                             MergeUnit(m, f[i - 1], units[i], Started(NoObject))]
           S == {N \in Nat : \E f : G(N, f)}
<1>1. G(0, [i \in 0..0 |-> Started(o)])
  OBVIOUS
<1>2. ASSUME NEW N \in Nat, NEW f, G(N, f)
      PROVE  \E g : G(N + 1, g)
  <2> DEFINE turn(i) == IF i = 0 THEN Started(o) ELSE
                     MergeUnit(m, f[i - 1], units[i], Started(NoObject))
             g == [i \in 0..(N + 1) |-> turn(i)]
  <2>0. f = [i \in 0..N |-> turn(i)]
    BY <1>2
  <2>1. \A i \in 0..N : g[i] = f[i]
    <3> HIDE DEF turn
    <3>1. \A i \in 0..N : i \in 0..(N + 1)
      OBVIOUS
    <3> QED BY <2>0, <3>1
  <2>2. ASSUME NEW i \in 0..(N + 1), i # 0 PROVE f[i - 1] = g[i - 1]
    <3>1. i - 1 \in 0..N
      BY <2>2
    <3> HIDE DEF g
    <3> QED BY <3>1, <2>1
  <2>3. G(N + 1, g)
    BY <2>2
  <2> QED BY <2>3
<1> HIDE DEF G
<1>3. 0 \in S /\ \A N \in Nat : N \in S => N + 1 \in S
  BY <1>1, <1>2
<1> HIDE DEF S
<1>4. Len(units) \in S
  BY <1>3, NumbersInduct
<1>5. PICK f : G(Len(units), f)
  BY <1>4 DEF S
<1>6. G(Len(units), LeafTurns(m, o, units))
  BY <1>5, Zenon DEF LeafTurns, G
<1> QED BY <1>6 DEF G

\* So does the parser of a class with messages in it.
LEMMA TurnsAre ==
  ASSUME NEW m, NEW o, NEW units, Len(units) \in Nat
  PROVE  /\ Turns(m, o, units)[0] = Started(o)
         /\ \A i \in 1..Len(units) : Turns(m, o, units)[i] =
              MergeUnit(m, Turns(m, o, units)[i - 1], units[i], InnerMerge(m, Turns(m, o, units)[i - 1], units[i]))
<1> DEFINE G(N, f) == f = [i \in 0..N |-> IF i = 0 THEN Started(o) ELSE
                             MergeUnit(m, f[i - 1], units[i], InnerMerge(m, f[i - 1], units[i]))]
           S == {N \in Nat : \E f : G(N, f)}
<1>1. G(0, [i \in 0..0 |-> Started(o)])
  OBVIOUS
<1>2. ASSUME NEW N \in Nat, NEW f, G(N, f)
      PROVE  \E g : G(N + 1, g)
  <2> DEFINE turn(i) == IF i = 0 THEN Started(o) ELSE
                     MergeUnit(m, f[i - 1], units[i], InnerMerge(m, f[i - 1], units[i]))
             g == [i \in 0..(N + 1) |-> turn(i)]
  <2>0. f = [i \in 0..N |-> turn(i)]
    BY <1>2
  <2>1. \A i \in 0..N : g[i] = f[i]
    <3> HIDE DEF turn
    <3>1. \A i \in 0..N : i \in 0..(N + 1)
      OBVIOUS
    <3> QED BY <2>0, <3>1
  <2>2. ASSUME NEW i \in 0..(N + 1), i # 0 PROVE f[i - 1] = g[i - 1]
    <3>1. i - 1 \in 0..N
      BY <2>2
    <3> HIDE DEF g
    <3> QED BY <3>1, <2>1
  <2>3. G(N + 1, g)
    BY <2>2
  <2> QED BY <2>3
<1> HIDE DEF G
<1>3. 0 \in S /\ \A N \in Nat : N \in S => N + 1 \in S
  BY <1>1, <1>2
<1> HIDE DEF S
<1>4. Len(units) \in S
  BY <1>3, NumbersInduct
<1>5. PICK f : G(Len(units), f)
  BY <1>4 DEF S
<1>6. G(Len(units), Turns(m, o, units))
  BY <1>5, Zenon DEF Turns, G
<1> QED BY <1>6 DEF G

----------------------------------------------------------------------------
(* The parts of a class agree.                                              *)

\* The four parts of the code of class m have the same fields in the same
\* order, with the same numbers and types; each field has a bit and a number
\* of its own, and ExpectTag looks for the tag of the next field.  A cid is a
\* string, and no number is number 15, which a later version may use.
PartsAgree(m) ==
  /\ Len(m.fields) \in Nat /\ Len(m.fields) > 0
  /\ Len(m.merge) = Len(m.fields) /\ DOMAIN m.merge = 1..Len(m.fields)
  /\ Len(m.serialize) = Len(m.fields)
  /\ \A i \in 1..Len(m.fields) :
       /\ m.fields[i] \in Fields(m)
       /\ m.merge[i].field = m.fields[i] /\ m.serialize[i].field = m.fields[i]
       /\ m.merge[i].num \in 1..15 /\ m.serialize[i].num = m.merge[i].num
       /\ m.serialize[i].type = m.merge[i].type
       /\ m.merge[i].expect =
            IF i = Len(m.fields) THEN 0
            ELSE 8 * m.merge[i + 1].num + WireType(m.merge[i + 1].type)
       /\ IsMessage(m, m.fields[i]) => WireType(m.merge[i].type) = LENGTH_DELIMITED
       /\ m.fields[i] = "cid" => WireType(m.merge[i].type) = LENGTH_DELIMITED
       /\ m.merge[i].num = 15 => WireType(m.merge[i].type) # VARINT
  /\ \A i, j \in 1..Len(m.fields) : i # j =>
       /\ m.fields[i] # m.fields[j] /\ m.merge[i].num # m.merge[j].num
       /\ m.bit[m.fields[i]] # m.bit[m.fields[j]]
  /\ \A f \in Fields(m) : \E i \in 1..Len(m.fields) : m.fields[i] = f

\* A class without messages in it.
IsLeafClass(m) == PartsAgree(m) /\ DOMAIN m.sub = {}

\* A class whose messages have no messages in them.
IsClass(m) == PartsAgree(m) /\ \A f \in DOMAIN m.sub : f \in Fields(m) /\ IsLeafClass(m.sub[f])

LEMMA ReplyRequestAgrees == IsLeafClass(ReplyRequest)
  BY DEF IsLeafClass, PartsAgree, ReplyRequest, ReplyRequest_Merge, ReplyRequest_Serialize,
         ReplyRequest_Copy, ReplyRequest_Has, Class, F, W, C, NoMessages, Fields,
         IsMessage, WireType, VARINT, FIXED64, LENGTH_DELIMITED

LEMMA ReplyResponseAgrees == IsLeafClass(ReplyResponse)
  BY DEF IsLeafClass, PartsAgree, ReplyResponse, ReplyResponse_Merge, ReplyResponse_Serialize,
         ReplyResponse_Copy, ReplyResponse_Has, Class, F, W, C, NoMessages, Fields,
         IsMessage, WireType, VARINT, FIXED64, LENGTH_DELIMITED

LEMMA PostTopicRequestAgrees == IsLeafClass(PostTopicRequest)
  BY DEF IsLeafClass, PartsAgree, PostTopicRequest, PostTopicRequest_Merge, PostTopicRequest_Serialize,
         PostTopicRequest_Copy, PostTopicRequest_Has, Class, F, W, C, NoMessages, Fields,
         IsMessage, WireType, VARINT, FIXED64, LENGTH_DELIMITED

LEMMA PostTopicResponseAgrees == IsLeafClass(PostTopicResponse)
  BY DEF IsLeafClass, PartsAgree, PostTopicResponse, PostTopicResponse_Merge, PostTopicResponse_Serialize,
         PostTopicResponse_Copy, PostTopicResponse_Has, Class, F, W, C, NoMessages, Fields,
         IsMessage, WireType, VARINT, FIXED64, LENGTH_DELIMITED

LEMMA PublicServiceRequestAgrees == IsLeafClass(PublicServiceRequest)
  BY DEF IsLeafClass, PartsAgree, PublicServiceRequest, PublicServiceRequest_Merge, PublicServiceRequest_Serialize,
         PublicServiceRequest_Copy, PublicServiceRequest_Has, Class, F, W, C, NoMessages, Fields,
         IsMessage, WireType, VARINT, FIXED64, LENGTH_DELIMITED

LEMMA PublicServiceResponseAgrees == IsLeafClass(PublicServiceResponse)
  BY DEF IsLeafClass, PartsAgree, PublicServiceResponse, PublicServiceResponse_Merge, PublicServiceResponse_Serialize,
         PublicServiceResponse_Copy, PublicServiceResponse_Has, Class, F, W, C, NoMessages, Fields,
         IsMessage, WireType, VARINT, FIXED64, LENGTH_DELIMITED

LEMMA GroupLBSNearRequestAgrees == IsLeafClass(GroupLBSNearRequest)
  BY DEF IsLeafClass, PartsAgree, GroupLBSNearRequest, GroupLBSNearRequest_Merge, GroupLBSNearRequest_Serialize,
         GroupLBSNearRequest_Copy, GroupLBSNearRequest_Has, Class, F, W, C, NoMessages, Fields,
         IsMessage, WireType, VARINT, FIXED64, LENGTH_DELIMITED

LEMMA GroupLBSNearResponseAgrees == IsLeafClass(GroupLBSNearResponse)
  BY DEF IsLeafClass, PartsAgree, GroupLBSNearResponse, GroupLBSNearResponse_Merge, GroupLBSNearResponse_Serialize,
         GroupLBSNearResponse_Copy, GroupLBSNearResponse_Has, Class, F, W, C, NoMessages, Fields,
         IsMessage, WireType, VARINT, FIXED64, LENGTH_DELIMITED

LEMMA GroupCityRequestAgrees == IsLeafClass(GroupCityRequest)
  BY DEF IsLeafClass, PartsAgree, GroupCityRequest, GroupCityRequest_Merge, GroupCityRequest_Serialize,
         GroupCityRequest_Copy, GroupCityRequest_Has, Class, F, W, C, NoMessages, Fields,
         IsMessage, WireType, VARINT, FIXED64, LENGTH_DELIMITED

LEMMA GroupCityResponseAgrees == IsLeafClass(GroupCityResponse)
  BY DEF IsLeafClass, PartsAgree, GroupCityResponse, GroupCityResponse_Merge, GroupCityResponse_Serialize,
         GroupCityResponse_Copy, GroupCityResponse_Has, Class, F, W, C, NoMessages, Fields,
         IsMessage, WireType, VARINT, FIXED64, LENGTH_DELIMITED

LEMMA PythonCoreRequestAgrees == IsLeafClass(PythonCoreRequest)
  BY DEF IsLeafClass, PartsAgree, PythonCoreRequest, PythonCoreRequest_Merge, PythonCoreRequest_Serialize,
         PythonCoreRequest_Copy, PythonCoreRequest_Has, Class, F, W, C, NoMessages, Fields,
         IsMessage, WireType, VARINT, FIXED64, LENGTH_DELIMITED

LEMMA PythonCoreResponseAgrees == IsLeafClass(PythonCoreResponse)
  BY DEF IsLeafClass, PartsAgree, PythonCoreResponse, PythonCoreResponse_Merge, PythonCoreResponse_Serialize,
         PythonCoreResponse_Copy, PythonCoreResponse_Has, Class, F, W, C, NoMessages, Fields,
         IsMessage, WireType, VARINT, FIXED64, LENGTH_DELIMITED

LEMMA LoginRequestAgrees == IsLeafClass(LoginRequest)
  BY DEF IsLeafClass, PartsAgree, LoginRequest, LoginRequest_Merge, LoginRequest_Serialize,
         LoginRequest_Copy, LoginRequest_Has, Class, F, W, C, NoMessages, Fields,
         IsMessage, WireType, VARINT, FIXED64, LENGTH_DELIMITED

LEMMA LoginResponseAgrees == IsLeafClass(LoginResponse)
  BY DEF IsLeafClass, PartsAgree, LoginResponse, LoginResponse_Merge, LoginResponse_Serialize,
         LoginResponse_Copy, LoginResponse_Has, Class, F, W, C, NoMessages, Fields,
         IsMessage, WireType, VARINT, FIXED64, LENGTH_DELIMITED

LEMMA ServiceRequestAgrees == IsLeafClass(ServiceRequest)
  BY DEF IsLeafClass, PartsAgree, ServiceRequest, ServiceRequest_Merge, ServiceRequest_Serialize,
         ServiceRequest_Copy, ServiceRequest_Has, Class, F, W, C, NoMessages, Fields,
         IsMessage, WireType, VARINT, FIXED64, LENGTH_DELIMITED

LEMMA ServiceResponseAgrees == IsLeafClass(ServiceResponse)
  BY DEF IsLeafClass, PartsAgree, ServiceResponse, ServiceResponse_Merge, ServiceResponse_Serialize,
         ServiceResponse_Copy, ServiceResponse_Has, Class, F, W, C, NoMessages, Fields,
         IsMessage, WireType, VARINT, FIXED64, LENGTH_DELIMITED

LEMMA SvRegRequestAgrees == IsLeafClass(SvRegRequest)
  BY DEF IsLeafClass, PartsAgree, SvRegRequest, SvRegRequest_Merge, SvRegRequest_Serialize,
         SvRegRequest_Copy, SvRegRequest_Has, Class, F, W, C, NoMessages, Fields,
         IsMessage, WireType, VARINT, FIXED64, LENGTH_DELIMITED

LEMMA SvRegResponseAgrees == IsLeafClass(SvRegResponse)
  BY DEF IsLeafClass, PartsAgree, SvRegResponse, SvRegResponse_Merge, SvRegResponse_Serialize,
         SvRegResponse_Copy, SvRegResponse_Has, Class, F, W, C, NoMessages, Fields,
         IsMessage, WireType, VARINT, FIXED64, LENGTH_DELIMITED

LEMMA KickCliRequestAgrees == IsLeafClass(KickCliRequest)
  BY DEF IsLeafClass, PartsAgree, KickCliRequest, KickCliRequest_Merge, KickCliRequest_Serialize,
         KickCliRequest_Copy, KickCliRequest_Has, Class, F, W, C, NoMessages, Fields,
         IsMessage, WireType, VARINT, FIXED64, LENGTH_DELIMITED

LEMMA ServicePacketAgrees == PartsAgree(ServicePacket)
  BY DEF PartsAgree, ServicePacket, ServicePacket_Merge, ServicePacket_Serialize,
         ServicePacket_Copy, ServicePacket_Has, Class, F, W, C, Fields,
         IsMessage, WireType, VARINT, FIXED64, LENGTH_DELIMITED

\* The messages of a ServicePacket.
LEMMA PacketFields ==
  /\ DOMAIN ServicePacket.sub \subseteq Fields(ServicePacket)
  /\ \A f \in DOMAIN ServicePacket.sub : IsLeafClass(ServicePacket.sub[f])
<1>1. DOMAIN ServicePacket.sub \subseteq Fields(ServicePacket)
  BY DEF ServicePacket, Class, Fields, ServicePacket_Has
<1>2. ASSUME NEW f \in DOMAIN ServicePacket.sub
      PROVE  ServicePacket.sub[f] \in
               {ReplyRequest, ReplyResponse, PostTopicRequest, PostTopicResponse,
                PublicServiceRequest, PublicServiceResponse, GroupLBSNearRequest,
                GroupLBSNearResponse, GroupCityRequest, GroupCityResponse,
                PythonCoreRequest, PythonCoreResponse}
  BY DEF ServicePacket, Class
<1> QED
  BY <1>1, <1>2, ReplyRequestAgrees, ReplyResponseAgrees, PostTopicRequestAgrees,
     PostTopicResponseAgrees, PublicServiceRequestAgrees, PublicServiceResponseAgrees,
     GroupLBSNearRequestAgrees, GroupLBSNearResponseAgrees, GroupCityRequestAgrees,
     GroupCityResponseAgrees, PythonCoreRequestAgrees, PythonCoreResponseAgrees

LEMMA LeafIsClass == ASSUME NEW m, IsLeafClass(m) PROVE IsClass(m)
  BY DEF IsLeafClass, IsClass

\* The parser, the serializer, the copy and the accessors of every generated
\* class of src/proto agree on its fields, their order, numbers and types.
THEOREM ClassesAgree == \A c \in Classes : IsClass(ClassOf[c])
<1> SUFFICES ASSUME NEW c \in Classes PROVE IsClass(ClassOf[c])
  OBVIOUS
<1>1. ClassOf[c] \in
        {ReplyRequest, ReplyResponse, PostTopicRequest, PostTopicResponse,
         PublicServiceRequest, PublicServiceResponse, GroupLBSNearRequest,
         GroupLBSNearResponse, GroupCityRequest, GroupCityResponse,
         PythonCoreRequest, PythonCoreResponse, ServicePacket, LoginRequest, LoginResponse,
         ServiceRequest, ServiceResponse, SvRegRequest, SvRegResponse, KickCliRequest}
  BY DEF Classes, ClassOf
<1>2. IsClass(ServicePacket)
  BY ServicePacketAgrees, PacketFields DEF IsClass
<1> QED
  BY <1>1, <1>2, LeafIsClass, ReplyRequestAgrees, ReplyResponseAgrees, PostTopicRequestAgrees,
     PostTopicResponseAgrees, PublicServiceRequestAgrees, PublicServiceResponseAgrees,
     GroupLBSNearRequestAgrees, GroupLBSNearResponseAgrees, GroupCityRequestAgrees,
     GroupCityResponseAgrees, PythonCoreRequestAgrees, PythonCoreResponseAgrees,
     LoginRequestAgrees, LoginResponseAgrees, ServiceRequestAgrees, ServiceResponseAgrees,
     SvRegRequestAgrees, SvRegResponseAgrees, KickCliRequestAgrees

----------------------------------------------------------------------------
(* The objects of a class.                                                  *)

\* A sequence, of whatever it has in it.
IsText(s) == s \in Seq({s[i] : i \in DOMAIN s})

\* A unit that no case of the parser of m is for.
NotKnown(m, u) ==
  /\ u.num \in Nat /\ Len(u.str) \in Nat
  /\ u.wt \in {VARINT, FIXED64, LENGTH_DELIMITED, FIXED32}
  /\ \A i \in 1..Len(m.fields) : m.merge[i].num = u.num => WireType(m.merge[i].type) # u.wt

\* A value of a field that is no message.
IsScalar(m, f, v) ==
  IF WireType(TypeOf(m, f)) = LENGTH_DELIMITED
    THEN v = StrVal(v.str) /\ Len(v.str) \in Nat
    ELSE v = IntVal(v.int)

\* An object of m: what is not set has its default.
HasShape(m, o) ==
  /\ o = [bits |-> o.bits, val |-> o.val, unknown |-> o.unknown]
  /\ o.bits \subseteq {m.bit[f] : f \in Fields(m)}
  /\ o.val = [f \in Fields(m) |-> o.val[f]]
  /\ \A f \in Fields(m) : ~has(m, o, f) => o.val[f] = DefaultOf(m, f)
  /\ IsText(o.unknown) /\ \A i \in 1..Len(o.unknown) : NotKnown(m, o.unknown[i])

IsLeaf(m, o) ==
  HasShape(m, o) /\ \A f \in Fields(m) : has(m, o, f) => IsScalar(m, f, o.val[f])

IsObject(m, o) ==
  /\ HasShape(m, o)
  /\ \A f \in Fields(m) : has(m, o, f) =>
       IF IsMessage(m, f)
         THEN o.val[f] = SubVal(o.val[f].obj) /\ IsLeaf(m.sub[f], o.val[f].obj)
         ELSE IsScalar(m, f, o.val[f])

\* The type of a field is that of its case.
LEMMA TypeOfField ==
  ASSUME NEW m, PartsAgree(m), NEW i \in 1..Len(m.fields)
  PROVE  TypeOf(m, m.fields[i]) = m.merge[i].type
<1>1. \A j \in DOMAIN m.merge : m.merge[j].field = m.fields[i] <=> j = i
  BY DEF PartsAgree
<1>2. i \in DOMAIN m.merge
  BY DEF PartsAgree
<1> QED BY <1>1, <1>2 DEF TypeOf

LEMMA WireTypes == \A type : WireType(type) \in {0, 1, 2}
  BY DEF WireType, VARINT, FIXED64, LENGTH_DELIMITED

LEMMA NumTyped ==
  ASSUME NEW m, PartsAgree(m), NEW i \in 1..Len(m.fields)
  PROVE  m.merge[i].num \in Nat /\ m.merge[i].num < 16
<1> DEFINE n == m.merge[i].num
<1>1. n \in 1..15
  BY DEF PartsAgree
<1> HIDE DEF n
<1>2. n \in Nat /\ n < 16
  BY <1>1
<1> QED BY <1>2 DEF n

\* Two tags are the same only if the numbers and the wire types are.
LEMMA TagsDiffer ==
  ASSUME NEW a \in Nat, NEW b \in Nat, NEW s \in 0..7, NEW t \in 0..7, 8 * a + s = 8 * b + t
  PROVE  a = b /\ s = t
  OBVIOUS

\* The tag ExpectTag looks for is that of the field of the next case.
LEMMA ExpectsNext ==
  ASSUME NEW m, PartsAgree(m), NEW at \in 1..Len(m.fields), m.merge[at].expect # 0,
         NEW u, u.num \in Nat, u.wt \in 0..7, m.merge[at].expect = Tag(u)
  PROVE  /\ at + 1 \in 1..Len(m.fields)
         /\ m.merge[at + 1].num = u.num /\ WireType(m.merge[at + 1].type) = u.wt
<1>1. at # Len(m.fields) /\ Len(m.fields) \in Nat
  BY DEF PartsAgree
<1>2. at + 1 \in 1..Len(m.fields)
  BY <1>1
<1>3. 8 * m.merge[at + 1].num + WireType(m.merge[at + 1].type) = 8 * u.num + u.wt
  BY <1>1, <1>2 DEF PartsAgree, Tag
<1>4. m.merge[at + 1].num \in Nat
  BY <1>2, NumTyped
<1>5. WireType(m.merge[at + 1].type) \in 0..7
  BY WireTypes
<1>6. m.merge[at + 1].num = u.num /\ WireType(m.merge[at + 1].type) = u.wt
  <2> DEFINE a == m.merge[at + 1].num
             w == WireType(m.merge[at + 1].type)
  <2>1. 8 * a + w = 8 * u.num + u.wt /\ a \in Nat /\ w \in 0..7
    BY <1>3, <1>4, <1>5
  <2> HIDE DEF a, w
  <2>2. a = u.num /\ w = u.wt
    BY <2>1, TagsDiffer
  <2> QED BY <2>2 DEF a, w
<1> QED BY <1>2, <1>6

\* A unit with number and wire type of a field is taken by the case of the
\* field, after whatever case it comes.
LEMMA CaseKnown ==
  ASSUME NEW m, PartsAgree(m), NEW at \in 0..Len(m.fields), NEW i \in 1..Len(m.fields),
         NEW u, u.num = m.merge[i].num, u.wt = WireType(m.merge[i].type)
  PROVE  CaseFor(m, at, u) = i
<1>1. u.num \in Nat /\ u.wt \in 0..7
  BY WireTypes, NumTyped
<1>2. {j \in DOMAIN m.merge : m.merge[j].num = u.num /\ WireType(m.merge[j].type) = u.wt} = {i}
  BY DEF PartsAgree
<1>3. CASE at > 0 /\ m.merge[at].expect # 0 /\ m.merge[at].expect = Tag(u)
  <2>1. at \in 1..Len(m.fields)
    BY <1>3 DEF PartsAgree
  <2>2. at + 1 \in 1..Len(m.fields) /\ m.merge[at + 1].num = u.num
    BY <1>1, <1>3, <2>1, ExpectsNext
  <2>3. at + 1 = i
    BY <2>2 DEF PartsAgree
  <2> QED BY <1>3, <2>3 DEF CaseFor
<1>4. CASE ~(at > 0 /\ m.merge[at].expect # 0 /\ m.merge[at].expect = Tag(u))
  BY <1>2, <1>4 DEF CaseFor
<1> QED BY <1>3, <1>4

\* Any other unit is not interpreted.
LEMMA CaseUnknown ==
  ASSUME NEW m, PartsAgree(m), NEW at \in 0..Len(m.fields), NEW u, NotKnown(m, u)
  PROVE  CaseFor(m, at, u) = 0
<1>1. u.num \in Nat /\ u.wt \in 0..7
  BY DEF NotKnown, VARINT, FIXED64, LENGTH_DELIMITED, FIXED32
<1>2. {j \in DOMAIN m.merge : m.merge[j].num = u.num /\ WireType(m.merge[j].type) = u.wt} = {}
  BY DEF PartsAgree, NotKnown
<1>3. ~(at > 0 /\ m.merge[at].expect # 0 /\ m.merge[at].expect = Tag(u))
  <2> SUFFICES ASSUME at > 0, m.merge[at].expect # 0, m.merge[at].expect = Tag(u) PROVE FALSE
    OBVIOUS
  <2>1. at \in 1..Len(m.fields)
    BY DEF PartsAgree
  <2>2. /\ at + 1 \in 1..Len(m.fields)
        /\ m.merge[at + 1].num = u.num /\ WireType(m.merge[at + 1].type) = u.wt
    BY <1>1, <2>1, ExpectsNext
  <2> QED BY <2>2 DEF NotKnown
<1> QED BY <1>2, <1>3 DEF CaseFor

----------------------------------------------------------------------------
(* Objects that have been copied or parsed in part.                         *)

\* What a new object is when the fields with these bits have been given the
\* values o has, and these unknown fields have been kept.
Part(m, o, bits, unknown) ==
  [bits |-> bits,
   val |-> [f \in Fields(m) |-> IF m.bit[f] \in bits THEN o.val[f] ELSE DefaultOf(m, f)],
   unknown |-> unknown]

LEMMA NothingYetCopied ==
  ASSUME NEW m, NEW o
  PROVE  New(m) = Part(m, o, {}, <<>>)
  BY DEF New, Part

\* The constructor of a class without messages in it.
LEMMA NewLeafIs ==
  ASSUME NEW m, IsLeafClass(m)
  PROVE  NewLeaf(m) = New(m)
  BY DEF New, NewLeaf, DefaultOf, IsMessage, IsLeafClass

LEMMA BitsDiffer ==
  ASSUME NEW m, PartsAgree(m), NEW f \in Fields(m), NEW g \in Fields(m), f # g
  PROVE  m.bit[f] # m.bit[g]
<1>1. PICK i \in 1..Len(m.fields) : m.fields[i] = f
  BY DEF PartsAgree
<1>2. PICK j \in 1..Len(m.fields) : m.fields[j] = g
  BY DEF PartsAgree
<1> QED BY <1>1, <1>2 DEF PartsAgree

\* The parts of an object after set_f, and with other unknown fields.
LEMMA SetIs ==
  ASSUME NEW m, NEW bits, NEW val, NEW unknown, NEW f, NEW v
  PROVE  set(m, [bits |-> bits, val |-> val, unknown |-> unknown], f, v) =
           [bits |-> bits \cup {m.bit[f]}, val |-> [val EXCEPT ![f] = v], unknown |-> unknown]
<1> DEFINE o == [bits |-> bits, val |-> val, unknown |-> unknown]
<1>1. set(m, o, f, v) =
        [[o EXCEPT !.bits = o.bits \cup {m.bit[f]}] EXCEPT !.val = [o.val EXCEPT ![f] = v]]
  BY DEF set
<1> QED BY <1>1

LEMMA UnknownIs ==
  ASSUME NEW bits, NEW val, NEW unknown, NEW more
  PROVE  [[bits |-> bits, val |-> val, unknown |-> unknown] EXCEPT !.unknown = @ \o more] =
           [bits |-> bits, val |-> val, unknown |-> unknown \o more]
<1> DEFINE o == [bits |-> bits, val |-> val, unknown |-> unknown]
<1>1. \A u : [o EXCEPT !.unknown = u] = [bits |-> bits, val |-> val, unknown |-> u]
  OBVIOUS
<1>2. o.unknown = unknown
  OBVIOUS
<1> HIDE DEF o
<1>3. [o EXCEPT !.unknown = @ \o more] = [o EXCEPT !.unknown = unknown \o more]
  BY <1>2
<1> QED BY <1>1, <1>3 DEF o

\* Another field is set.
LEMMA FieldCopied ==
  ASSUME NEW m, PartsAgree(m)
  PROVE  \A o, bits, unknown : \A f \in Fields(m) :
           set(m, Part(m, o, bits, unknown), f, o.val[f]) =
             Part(m, o, bits \cup {m.bit[f]}, unknown)
<1> TAKE o, bits, unknown
<1> TAKE f \in Fields(m)
<1> DEFINE before == [g \in Fields(m) |-> IF m.bit[g] \in bits THEN o.val[g] ELSE DefaultOf(m, g)]
           after == [g \in Fields(m) |->
                       IF m.bit[g] \in bits \cup {m.bit[f]} THEN o.val[g] ELSE DefaultOf(m, g)]
<1>1. [before EXCEPT ![f] = o.val[f]] = after
  BY BitsDiffer
<1> HIDE DEF before, after
<1>2. Part(m, o, bits, unknown) = [bits |-> bits, val |-> before, unknown |-> unknown]
  BY DEF Part, before
<1>3. Part(m, o, bits \cup {m.bit[f]}, unknown) =
        [bits |-> bits \cup {m.bit[f]}, val |-> after, unknown |-> unknown]
  BY DEF Part, after
<1>4. set(m, [bits |-> bits, val |-> before, unknown |-> unknown], f, o.val[f]) =
        [bits |-> bits \cup {m.bit[f]}, val |-> [before EXCEPT ![f] = o.val[f]],
         unknown |-> unknown]
  BY SetIs
<1> QED BY <1>1, <1>2, <1>3, <1>4

\* An object is what a new one becomes when all that is set in it is copied.
LEMMA AllCopied ==
  ASSUME NEW m, PartsAgree(m), NEW o, HasShape(m, o)
  PROVE  Part(m, o, o.bits, o.unknown) = o
<1>1. [f \in Fields(m) |-> IF m.bit[f] \in o.bits THEN o.val[f] ELSE DefaultOf(m, f)] =
        [f \in Fields(m) |-> o.val[f]]
  BY DEF HasShape, has
<1>2. o = [bits |-> o.bits, val |-> o.val, unknown |-> o.unknown]
      /\ o.val = [f \in Fields(m) |-> o.val[f]]
  BY DEF HasShape
<1> QED BY <1>1, <1>2 DEF Part

\* The bits of the first i fields that are set.
BitsTo(m, o, i) == {m.bit[m.fields[j]] : j \in {k \in 1..i : has(m, o, m.fields[k])}}

LEMMA BitsGrow ==
  ASSUME NEW m, NEW o, NEW i \in Nat
  PROVE  BitsTo(m, o, i + 1) = IF has(m, o, m.fields[i + 1])
                                 THEN BitsTo(m, o, i) \cup {m.bit[m.fields[i + 1]]}
                                 ELSE BitsTo(m, o, i)
<1>1. 1..i + 1 = (1..i) \cup {i + 1}
  OBVIOUS
<1> QED BY <1>1 DEF BitsTo

LEMMA BitsAll ==
  ASSUME NEW m, PartsAgree(m), NEW o, HasShape(m, o)
  PROVE  BitsTo(m, o, Len(m.fields)) = o.bits
<1>1. ASSUME NEW b \in o.bits PROVE b \in BitsTo(m, o, Len(m.fields))
  <2>1. PICK f \in Fields(m) : b = m.bit[f]
    BY DEF HasShape
  <2>2. PICK j \in 1..Len(m.fields) : m.fields[j] = f
    BY DEF PartsAgree
  <2> QED BY <2>1, <2>2 DEF BitsTo, has
<1> QED BY <1>1 DEF BitsTo, has

\* MergeFrom into a new object, field by field.
LEMMA CopiesGrow ==
  ASSUME NEW m, PartsAgree(m), NEW o, NEW vals,
         \A f \in Fields(m) : has(m, o, f) => vals[f] = o.val[f]
  PROVE  \A i \in 0..Len(m.fields) :
           Copies(m, New(m), o, vals)[i] = Part(m, o, BitsTo(m, o, i), <<>>)
<1> DEFINE c == Copies(m, New(m), o, vals)
           N == Len(m.fields)
           S == {i \in Nat : i <= N => c[i] = Part(m, o, BitsTo(m, o, i), <<>>)}
<1>1. N \in Nat
  BY DEF PartsAgree
<1>2. c[0] = New(m)
  BY <1>1, CopiesAre
<1>3. \A i \in 1..N : c[i] = IF has(m, o, m.fields[i])
                                THEN set(m, c[i - 1], m.fields[i], vals[m.fields[i]])
                                ELSE c[i - 1]
  BY <1>1, CopiesAre
<1> HIDE DEF c
<1>4. 0 \in S
  <2>1. BitsTo(m, o, 0) = {}
    BY DEF BitsTo
  <2> QED BY <1>2, <2>1, NothingYetCopied
<1>5. ASSUME NEW i \in Nat, i \in S PROVE i + 1 \in S
  <2> SUFFICES ASSUME i + 1 <= N PROVE c[i + 1] = Part(m, o, BitsTo(m, o, i + 1), <<>>)
    OBVIOUS
  <2>1. i + 1 \in 1..N /\ i + 1 - 1 = i /\ i <= N /\ i + 1 > 0 /\ i + 1 \in Nat
    BY <1>1
  <2>2. c[i] = Part(m, o, BitsTo(m, o, i), <<>>)
    BY <1>5, <2>1
  <2>3. m.fields[i + 1] \in Fields(m)
    BY <2>1 DEF PartsAgree
  <2>4. CASE has(m, o, m.fields[i + 1])
    <3>1. c[i + 1] = set(m, c[i], m.fields[i + 1], o.val[m.fields[i + 1]])
      BY <1>3, <2>1, <2>3, <2>4
    <3>2. BitsTo(m, o, i + 1) = BitsTo(m, o, i) \cup {m.bit[m.fields[i + 1]]}
      BY <2>4, BitsGrow
    <3>3. \A f \in Fields(m) : set(m, Part(m, o, BitsTo(m, o, i), <<>>), f, o.val[f]) =
            Part(m, o, BitsTo(m, o, i) \cup {m.bit[f]}, <<>>)
      BY FieldCopied
    <3> QED BY <2>2, <2>3, <3>1, <3>2, <3>3
  <2>5. CASE ~has(m, o, m.fields[i + 1])
    <3>1. c[i + 1] = c[i]
      BY <1>3, <2>1, <2>5
    <3>2. BitsTo(m, o, i + 1) = BitsTo(m, o, i)
      BY <2>5, BitsGrow
    <3> QED BY <2>2, <3>1, <3>2
  <2> QED BY <2>4, <2>5
<1> HIDE DEF S
<1>6. Nat \subseteq S
  BY <1>4, <1>5, NumbersInduct
<1>7. \A i \in 0..N : c[i] = Part(m, o, BitsTo(m, o, i), <<>>)
  BY <1>1, <1>6 DEF S
<1> QED BY <1>7 DEF c

\* MergeFrom of a whole object into a new one gives that object.
LEMMA MergedIs ==
  ASSUME NEW m, PartsAgree(m), NEW o, HasShape(m, o), NEW vals,
         \A f \in Fields(m) : has(m, o, f) => vals[f] = o.val[f]
  PROVE  Merged(m, New(m), o, vals) = o
<1>1. Len(m.fields) \in 0..Len(m.fields)
  BY DEF PartsAgree
<1>2. Copies(m, New(m), o, vals)[Len(m.fields)] = Part(m, o, o.bits, <<>>)
  BY <1>1, CopiesGrow, BitsAll
<1>3. <<>> \o o.unknown = o.unknown
  BY DEF HasShape, IsText
<1>4. [Part(m, o, o.bits, <<>>) EXCEPT !.unknown = @ \o o.unknown] =
        Part(m, o, o.bits, <<>> \o o.unknown)
  <2> DEFINE v == [f \in Fields(m) |-> IF m.bit[f] \in o.bits THEN o.val[f] ELSE DefaultOf(m, f)]
  <2>1. \A u : Part(m, o, o.bits, u) = [bits |-> o.bits, val |-> v, unknown |-> u]
    BY DEF Part
  <2> HIDE DEF v
  <2>2. [[bits |-> o.bits, val |-> v, unknown |-> <<>>] EXCEPT !.unknown = @ \o o.unknown] =
          [bits |-> o.bits, val |-> v, unknown |-> <<>> \o o.unknown]
    BY UnknownIs
  <2> QED BY <2>1, <2>2
<1> QED BY <1>2, <1>3, <1>4, AllCopied DEF Merged

LEMMA LeafCopied ==
  ASSUME NEW m, IsLeafClass(m), NEW o, HasShape(m, o)
  PROVE  MergeFromLeaf(m, NewLeaf(m), o) = o
  BY MergedIs, NewLeafIs DEF MergeFromLeaf, IsLeafClass

\* CopyFrom copies every object whole: the fields that are set with their
\* values, the messages in it, and the fields it does not know.
THEOREM CopiesWhole ==
  ASSUME NEW m, IsClass(m), NEW o, IsObject(m, o)
  PROVE  CopyFrom(m, o) = o
<1> DEFINE vals == [f \in Fields(m) |->
                      IF IsMessage(m, f)
                        THEN SubVal(MergeFromLeaf(m.sub[f], get(New(m), f).obj, get(o, f).obj))
                        ELSE get(o, f)]
<1>1. ASSUME NEW f \in Fields(m), has(m, o, f) PROVE vals[f] = o.val[f]
  <2>1. CASE ~IsMessage(m, f)
    BY <2>1 DEF get
  <2>2. CASE IsMessage(m, f)
    <3>1. IsLeafClass(m.sub[f])
      BY <2>2 DEF IsClass, IsMessage
    <3>2. get(New(m), f).obj = NewLeaf(m.sub[f])
      BY <2>2 DEF get, New, DefaultOf, SubVal
    <3>3. o.val[f] = SubVal(o.val[f].obj) /\ HasShape(m.sub[f], o.val[f].obj)
      BY <1>1, <2>2 DEF IsObject, IsLeaf
    <3>4. MergeFromLeaf(m.sub[f], NewLeaf(m.sub[f]), o.val[f].obj) = o.val[f].obj
      BY <3>1, <3>3, LeafCopied
    <3> QED BY <2>2, <3>2, <3>3, <3>4 DEF get
  <2> QED BY <2>1, <2>2
<1>2. CopyFrom(m, o) = Merged(m, New(m), o, vals)
  BY DEF CopyFrom, MergeFrom
<1> HIDE DEF vals
<1>3. PartsAgree(m) /\ HasShape(m, o)
  BY DEF IsClass, IsObject
<1> QED BY <1>1, <1>2, <1>3, MergedIs

----------------------------------------------------------------------------
(* One turn of the parser.                                                  *)

\* The parser after case at, with a part of o.
Parsed(m, o, bits, unknown, at) ==
  [obj |-> Part(m, o, bits, unknown), ok |-> TRUE, at |-> at]

\* What the parser makes of unit u, in a field with the type of case i.
ValueIn(m, i, u, inner) ==
  IF IsMessage(m, m.merge[i].field) THEN SubVal(inner.obj)
  ELSE IF WireType(m.merge[i].type) = LENGTH_DELIMITED THEN StrVal(u.str)
  ELSE IntVal(u.int)

\* What the EXCEPTs of MergeUnit give, of a state with this ok.
Excepts(s, ok, obj1, ok1, at1) ==
  /\ [s EXCEPT !.at = at1, !.obj = obj1] = [obj |-> obj1, ok |-> ok, at |-> at1]
  /\ [s EXCEPT !.at = at1, !.ok = ok1, !.obj = obj1] = [obj |-> obj1, ok |-> ok1, at |-> at1]

LEMMA ExceptsAre ==
  ASSUME NEW obj, NEW ok, NEW at, NEW s, s = [obj |-> obj, ok |-> ok, at |-> at],
         NEW obj1, NEW ok1, NEW at1
  PROVE  Excepts(s, ok, obj1, ok1, at1)
<1> DEFINE a == [s EXCEPT !.at = at1]
           b == [a EXCEPT !.ok = ok1]
<1>1. a = [obj |-> obj, ok |-> ok, at |-> at1]
  OBVIOUS
<1> HIDE DEF a
<1>2. b = [obj |-> obj, ok |-> ok1, at |-> at1]
  BY <1>1
<1> HIDE DEF b
<1>3. [a EXCEPT !.obj = obj1] = [obj |-> obj1, ok |-> ok, at |-> at1]
  BY <1>1
<1>4. [b EXCEPT !.obj = obj1] = [obj |-> obj1, ok |-> ok1, at |-> at1]
  BY <1>2
<1>5. [s EXCEPT !.at = at1, !.obj = obj1] = [a EXCEPT !.obj = obj1]
  BY Zenon DEF a
<1>6. [s EXCEPT !.at = at1, !.ok = ok1, !.obj = obj1] = [b EXCEPT !.obj = obj1]
  BY Zenon DEF a, b
<1> QED BY <1>3, <1>4, <1>5, <1>6 DEF Excepts

\* Unit u is one of the field of case i, and reads as the value o has there.
ReadsAs(m, o, i, u, inner) ==
  /\ u.num = m.merge[i].num /\ u.wt = WireType(m.merge[i].type)
  /\ o.val[m.fields[i]] = ValueIn(m, i, u, inner)
  /\ IsMessage(m, m.fields[i]) => inner.ok = TRUE

\* A unit of a field that is set in o gives the field its value.
LEMMA TurnKnown ==
  ASSUME NEW m, PartsAgree(m), NEW o, NEW bits, NEW unknown,
         NEW at \in 0..Len(m.fields), NEW i \in 1..Len(m.fields), NEW u, NEW inner,
         ReadsAs(m, o, i, u, inner)
  PROVE  MergeUnit(m, Parsed(m, o, bits, unknown, at), u, inner) =
           Parsed(m, o, bits \cup {m.bit[m.fields[i]]}, unknown, i)
<1> DEFINE f == m.fields[i]
<1>3. \A g \in Fields(m) : set(m, Part(m, o, bits, unknown), g, o.val[g]) =
                           Part(m, o, bits \cup {m.bit[g]}, unknown)
  BY FieldCopied
<1> DEFINE obj == Part(m, o, bits, unknown)
           s == [obj |-> obj, ok |-> TRUE, at |-> at]
<1>1. CaseFor(m, at, u) = i
  BY CaseKnown DEF ReadsAs
<1>2. m.merge[i].field = f /\ f \in Fields(m) /\ i # 0
  <2>1. i # 0
    OBVIOUS
  <2> QED BY <2>1 DEF PartsAgree
<1>4. o.val[f] = ValueIn(m, i, u, inner)
  BY DEF ReadsAs
<1> HIDE DEF obj
<1>0. s = [obj |-> obj, ok |-> TRUE, at |-> at]
  OBVIOUS
<1>8. IsMessage(m, f) => inner.ok = TRUE
  BY DEF ReadsAs
<1> HIDE DEF s, f
<1>5. s.obj = obj /\ s.ok = TRUE /\ s.at = at
  BY <1>0, Zenon
<1>5a. \A x : Excepts(s, TRUE, x, TRUE, i)
  BY <1>0, ExceptsAre, Zenon
<1>6. \A x : [s EXCEPT !.at = i, !.obj = x] = [obj |-> x, ok |-> TRUE, at |-> i]
  BY <1>5a, Zenon DEF Excepts
<1>7. \A x : [s EXCEPT !.at = i, !.ok = TRUE, !.obj = x] = [obj |-> x, ok |-> TRUE, at |-> i]
  BY <1>5a, Zenon DEF Excepts
<1>9. CASE IsMessage(m, f)
  <2>1. MergeUnit(m, s, u, inner) =
          [s EXCEPT !.at = i, !.ok = inner.ok, !.obj = set(m, @, f, SubVal(inner.obj))]
    BY <1>1, <1>2, <1>5, <1>9 DEF MergeUnit
  <2>2. SubVal(inner.obj) = o.val[f]
    BY <1>2, <1>4, <1>9 DEF ValueIn
  <2>3. MergeUnit(m, s, u, inner) = [obj |-> set(m, obj, f, o.val[f]), ok |-> TRUE, at |-> i]
    BY <1>5, <1>7, <1>8, <1>9, <2>1, <2>2, Zenon
  <2> QED BY <1>2, <1>3, <2>3, Zenon DEF Parsed, s, obj, f
<1>10. CASE ~IsMessage(m, f) /\ WireType(m.merge[i].type) = LENGTH_DELIMITED
  <2>1. MergeUnit(m, s, u, inner) = [s EXCEPT !.at = i, !.obj = set(m, @, f, StrVal(u.str))]
    BY <1>1, <1>2, <1>5, <1>10 DEF MergeUnit
  <2>2. StrVal(u.str) = o.val[f]
    BY <1>2, <1>4, <1>10 DEF ValueIn
  <2>3. MergeUnit(m, s, u, inner) = [obj |-> set(m, obj, f, o.val[f]), ok |-> TRUE, at |-> i]
    BY <1>5, <1>6, <2>1, <2>2, Zenon
  <2> QED BY <1>2, <1>3, <2>3, Zenon DEF Parsed, s, obj, f
<1>11. CASE ~IsMessage(m, f) /\ WireType(m.merge[i].type) # LENGTH_DELIMITED
  <2>1. MergeUnit(m, s, u, inner) = [s EXCEPT !.at = i, !.obj = set(m, @, f, IntVal(u.int))]
    BY <1>1, <1>2, <1>5, <1>11 DEF MergeUnit
  <2>2. IntVal(u.int) = o.val[f]
    BY <1>2, <1>4, <1>11 DEF ValueIn
  <2>3. MergeUnit(m, s, u, inner) = [obj |-> set(m, obj, f, o.val[f]), ok |-> TRUE, at |-> i]
    BY <1>5, <1>6, <2>1, <2>2, Zenon
  <2> QED BY <1>2, <1>3, <2>3, Zenon DEF Parsed, s, obj, f
<1> QED BY <1>9, <1>10, <1>11

\* A unit of a field that is not known is kept.
LEMMA TurnUnknown ==
  ASSUME NEW m, PartsAgree(m), NEW o, NEW bits, NEW unknown,
         NEW at \in 0..Len(m.fields), NEW u, NotKnown(m, u), NEW inner
  PROVE  MergeUnit(m, Parsed(m, o, bits, unknown, at), u, inner) =
           Parsed(m, o, bits, Append(unknown, u), 0)
<1> DEFINE v == [f \in Fields(m) |-> IF m.bit[f] \in bits THEN o.val[f] ELSE DefaultOf(m, f)]
           obj == [bits |-> bits, val |-> v, unknown |-> unknown]
           s == [obj |-> obj, ok |-> TRUE, at |-> at]
           okay == u.wt \in {VARINT, FIXED64, LENGTH_DELIMITED, FIXED32}
<1>1. CaseFor(m, at, u) = 0
  BY CaseUnknown
<1>2. okay = TRUE
  BY DEF NotKnown
<1>3. \A x : Part(m, o, bits, x) = [bits |-> bits, val |-> v, unknown |-> x]
  BY DEF Part
<1> HIDE DEF v
<1>4. \A x : [obj EXCEPT !.unknown = x] = [bits |-> bits, val |-> v, unknown |-> x]
  OBVIOUS
<1>5. obj.unknown = unknown
  OBVIOUS
<1> HIDE DEF obj
<1>0. s = [obj |-> obj, ok |-> TRUE, at |-> at]
  OBVIOUS
<1> HIDE DEF s, okay
<1>6. s.obj = obj /\ s.ok = TRUE /\ s.at = at
  BY <1>0, Zenon
<1>6a. \A x : Excepts(s, TRUE, x, TRUE, 0)
  BY <1>0, ExceptsAre, Zenon
<1>7. \A x : [s EXCEPT !.at = 0, !.ok = TRUE, !.obj = x] = [obj |-> x, ok |-> TRUE, at |-> 0]
  BY <1>6a, Zenon DEF Excepts
<1>8. MergeUnit(m, s, u, inner) =
        [s EXCEPT !.at = 0, !.ok = okay, !.obj.unknown = Append(@, u)]
  BY <1>1, <1>6 DEF MergeUnit, okay
<1>9. [s EXCEPT !.at = 0, !.ok = TRUE, !.obj.unknown = Append(@, u)] =
        [s EXCEPT !.at = 0, !.ok = TRUE, !.obj = [obj EXCEPT !.unknown = Append(unknown, u)]]
  BY <1>5, <1>6
<1>10. MergeUnit(m, s, u, inner) =
        [obj |-> [bits |-> bits, val |-> v, unknown |-> Append(unknown, u)], ok |-> TRUE, at |-> 0]
  BY <1>2, <1>4, <1>7, <1>8, <1>9, Zenon
<1> QED BY <1>3, <1>10, Zenon DEF Parsed, s, obj

----------------------------------------------------------------------------
(* A text that has every field of an object once, in any order.             *)

\* The bits of the fields that the first n units are of, where w[j] is the
\* place of the field of unit j, 0 if it is not a known one.
BitsOf(m, w, n) == {m.bit[m.fields[w[j]]] : j \in {i \in 1..n : w[i] # 0}}

\* The units of t are those of the fields w says, and those of the unknown
\* fields, which are in order; k[n] of them are among the first n units.
Spells(m, o, t, w, k) ==
  /\ Len(t) \in Nat /\ k[0] = 0 /\ k[Len(t)] = Len(o.unknown)
  /\ \A n \in 1..Len(t) :
       /\ w[n] \in 0..Len(m.fields)
       /\ w[n] # 0 => /\ has(m, o, m.fields[w[n]]) /\ k[n] = k[n - 1]
                      /\ \A j \in 1..n - 1 : w[j] # w[n]
       /\ w[n] = 0 => /\ k[n - 1] \in 0..Len(o.unknown) - 1 /\ k[n] = k[n - 1] + 1
                      /\ t[n] = o.unknown[k[n]]
  /\ \A i \in 1..Len(m.fields) :
       has(m, o, m.fields[i]) => \E n \in 1..Len(t) : w[n] = i

LEMMA SpelledBitsGrow ==
  ASSUME NEW m, NEW w, NEW n \in Nat
  PROVE  BitsOf(m, w, n + 1) = IF w[n + 1] # 0
                                 THEN BitsOf(m, w, n) \cup {m.bit[m.fields[w[n + 1]]]}
                                 ELSE BitsOf(m, w, n)
<1>1. 1..n + 1 = (1..n) \cup {n + 1}
  OBVIOUS
<1> QED BY <1>1 DEF BitsOf

LEMMA SpelledBitsAll ==
  ASSUME NEW m, PartsAgree(m), NEW o, HasShape(m, o), NEW t, NEW w, NEW k, Spells(m, o, t, w, k)
  PROVE  BitsOf(m, w, Len(t)) = o.bits
<1>1. ASSUME NEW b \in o.bits PROVE b \in BitsOf(m, w, Len(t))
  <2>1. PICK f \in Fields(m) : b = m.bit[f]
    BY DEF HasShape
  <2>2. PICK i \in 1..Len(m.fields) : m.fields[i] = f
    BY DEF PartsAgree
  <2>3. has(m, o, m.fields[i])
    BY <2>1, <2>2 DEF has
  <2>4. PICK n \in 1..Len(t) : w[n] = i
    BY <2>3 DEF Spells
  <2>5. w[n] # 0
    BY <2>4
  <2> QED BY <2>1, <2>2, <2>4, <2>5 DEF BitsOf
<1>2. ASSUME NEW b \in BitsOf(m, w, Len(t)) PROVE b \in o.bits
  <2>1. PICK n \in 1..Len(t) : w[n] # 0 /\ b = m.bit[m.fields[w[n]]]
    BY DEF BitsOf
  <2>2. has(m, o, m.fields[w[n]])
    BY <2>1 DEF Spells
  <2> QED BY <2>1, <2>2 DEF has
<1> QED BY <1>1, <1>2

\* The front of a sequence, one longer.
LEMMA FrontGrows ==
  ASSUME NEW S, NEW s \in Seq(S), NEW j \in 0..Len(s) - 1
  PROVE  SubSeq(s, 1, j + 1) = Append(SubSeq(s, 1, j), s[j + 1])
<1>1. Len(s) \in Nat /\ j \in Nat /\ j + 1 \in 1..Len(s) /\ s[j + 1] \in S
  OBVIOUS
<1>2. SubSeq(s, 1, j) \in Seq(S) /\ Len(SubSeq(s, 1, j)) = j
  BY <1>1
<1>3. \A i \in 1..j : SubSeq(s, 1, j)[i] = s[i]
  BY <1>1
<1>4. SubSeq(s, 1, j + 1) \in Seq(S) /\ Len(SubSeq(s, 1, j + 1)) = j + 1
  BY <1>1
<1>5. \A i \in 1..j + 1 : SubSeq(s, 1, j + 1)[i] = s[i]
  BY <1>1
<1> DEFINE a == SubSeq(s, 1, j)
           b == SubSeq(s, 1, j + 1)
<1> HIDE DEF a, b
<1>6. Append(a, s[j + 1]) \in Seq(S) /\ Len(Append(a, s[j + 1])) = j + 1
  BY <1>1, <1>2 DEF a
<1>7. \A i \in 1..j + 1 : Append(a, s[j + 1])[i] = s[i]
  BY <1>1, <1>2, <1>3 DEF a
<1> QED BY <1>4, <1>5, <1>6, <1>7, SeqEqual DEF a, b

\* The parser T, which reads such a text turn by turn, has the fields of the
\* units it has read, whatever their order.
LEMMA TurnsBuild ==
  ASSUME NEW m, PartsAgree(m), NEW o, HasShape(m, o), NEW t, NEW w, NEW k,
         Spells(m, o, t, w, k), NEW T, T[0] = Started(New(m)),
         \A n \in 1..Len(t), at \in 0..Len(m.fields) : \A unknown :
           T[n - 1] = Parsed(m, o, BitsOf(m, w, n - 1), unknown, at) =>
             \E inner : /\ T[n] = MergeUnit(m, T[n - 1], t[n], inner)
                        /\ w[n] # 0 => ReadsAs(m, o, w[n], t[n], inner)
  PROVE  T[Len(t)].obj = o /\ T[Len(t)].ok = TRUE
<1> DEFINE Has(n) == \E at \in 0..Len(m.fields) :
                       T[n] = Parsed(m, o, BitsOf(m, w, n), SubSeq(o.unknown, 1, k[n]), at)
           S == {n \in Nat : n <= Len(t) => Has(n)}
<1>1. Len(t) \in Nat /\ Len(m.fields) \in Nat
  BY DEF Spells, PartsAgree
<1>2. PICK E : o.unknown \in Seq(E)
  BY DEF HasShape, IsText
<1>3. Has(0)
  <2>1. BitsOf(m, w, 0) = {}
    BY DEF BitsOf
  <2>2. SubSeq(o.unknown, 1, 0) = <<>> /\ k[0] = 0
    BY <1>2 DEF Spells
  <2>3. New(m) = Part(m, o, {}, <<>>)
    BY NothingYetCopied
  <2>4. T[0] = Parsed(m, o, BitsOf(m, w, 0), SubSeq(o.unknown, 1, k[0]), 0)
    BY <2>1, <2>2, <2>3, Zenon DEF Started, Parsed
  <2>5. 0 \in 0..Len(m.fields)
    BY <1>1
  <2> QED BY <2>4, <2>5, Zenon
<1>4. ASSUME NEW n \in Nat, n + 1 <= Len(t), Has(n) PROVE Has(n + 1)
  <2>1. n + 1 \in 1..Len(t) /\ n + 1 - 1 = n
    BY <1>1, <1>4
  <2>2. PICK at \in 0..Len(m.fields) :
          T[n] = Parsed(m, o, BitsOf(m, w, n), SubSeq(o.unknown, 1, k[n]), at)
    BY <1>4
  <2>3. PICK inner : /\ T[n + 1] = MergeUnit(m, T[n], t[n + 1], inner)
                     /\ w[n + 1] # 0 => ReadsAs(m, o, w[n + 1], t[n + 1], inner)
    BY <2>1, <2>2
  <2>4. /\ w[n + 1] \in 0..Len(m.fields)
        /\ w[n + 1] # 0 => k[n + 1] = k[n]
        /\ w[n + 1] = 0 => /\ k[n] \in 0..Len(o.unknown) - 1 /\ k[n + 1] = k[n] + 1
                           /\ t[n + 1] = o.unknown[k[n + 1]]
    BY <2>1 DEF Spells
  <2>5. CASE w[n + 1] # 0
    <3>1. w[n + 1] \in 1..Len(m.fields)
      BY <1>1, <2>4, <2>5
    <3>2. T[n + 1] = Parsed(m, o, BitsOf(m, w, n) \cup {m.bit[m.fields[w[n + 1]]]},
                            SubSeq(o.unknown, 1, k[n]), w[n + 1])
      BY <2>2, <2>3, <2>5, <3>1, TurnKnown
    <3>3. BitsOf(m, w, n + 1) = BitsOf(m, w, n) \cup {m.bit[m.fields[w[n + 1]]]}
      BY <2>5, SpelledBitsGrow
    <3> QED BY <2>4, <2>5, <3>2, <3>3
  <2>6. CASE w[n + 1] = 0
    <3>1. NotKnown(m, t[n + 1])
      <4>1. k[n + 1] \in 1..Len(o.unknown)
        BY <1>2, <2>4, <2>6
      <4> QED BY <2>4, <2>6, <4>1 DEF HasShape
    <3>2. T[n + 1] = Parsed(m, o, BitsOf(m, w, n), Append(SubSeq(o.unknown, 1, k[n]), t[n + 1]), 0)
      BY <2>2, <2>3, <3>1, TurnUnknown
    <3>3. SubSeq(o.unknown, 1, k[n + 1]) = Append(SubSeq(o.unknown, 1, k[n]), t[n + 1])
      <4> DEFINE j == k[n]
      <4>1. j \in 0..Len(o.unknown) - 1 /\ k[n + 1] = j + 1 /\ t[n + 1] = o.unknown[j + 1]
        BY <2>4, <2>6
      <4> HIDE DEF j
      <4>2. SubSeq(o.unknown, 1, j + 1) = Append(SubSeq(o.unknown, 1, j), o.unknown[j + 1])
        BY <1>2, <4>1, FrontGrows
      <4> QED BY <4>1, <4>2 DEF j
    <3>4. BitsOf(m, w, n + 1) = BitsOf(m, w, n)
      BY <2>6, SpelledBitsGrow
    <3>5. 0 \in 0..Len(m.fields)
      BY <1>1
    <3> QED BY <3>2, <3>3, <3>4, <3>5
  <2> QED BY <2>5, <2>6
<1> HIDE DEF Has
<1>5. 0 \in S /\ \A n \in Nat : n \in S => n + 1 \in S
  BY <1>1, <1>3, <1>4
<1> HIDE DEF S
<1>6. Has(Len(t))
  <2>1. Len(t) \in S
    BY <1>1, <1>5, NumbersInduct
  <2> QED BY <1>1, <2>1 DEF S
<1>7. PICK at : T[Len(t)] = Parsed(m, o, BitsOf(m, w, Len(t)), SubSeq(o.unknown, 1, k[Len(t)]), at)
  BY <1>6 DEF Has
<1>8. SubSeq(o.unknown, 1, k[Len(t)]) = o.unknown
  BY <1>2 DEF Spells
<1>9. Part(m, o, BitsOf(m, w, Len(t)), SubSeq(o.unknown, 1, k[Len(t)])) = o
  BY <1>8, SpelledBitsAll, AllCopied
<1>10. T[Len(t)] = [obj |-> o, ok |-> TRUE, at |-> at]
  BY <1>7, <1>9, Zenon DEF Parsed
<1> DEFINE r == T[Len(t)]
<1>11. r = [obj |-> o, ok |-> TRUE, at |-> at]
  BY <1>10
<1> HIDE DEF r
<1>12. r.obj = o /\ r.ok = TRUE
  BY <1>11, Zenon
<1> QED BY <1>12 DEF r

----------------------------------------------------------------------------
(* What is written is read back.                                            *)

\* The units of the fields of an object.
LeafUnits(m, o) ==
  [i \in 1..Len(m.serialize) |-> LeafUnit(m.serialize[i], get(o, m.serialize[i].field))]

FieldUnits(m, o) ==
  [i \in 1..Len(m.serialize) |-> FieldUnit(m, m.serialize[i], get(o, m.serialize[i].field))]

\* t has the units of the fields of o that are set, each once, in any order,
\* and its unknown fields in theirs.
IsSpelling(m, o, units, t) ==
  \E w, k : Spells(m, o, t, w, k) /\ \A n \in 1..Len(t) : w[n] # 0 => t[n] = units[w[n]]

\* A string or a number is read as it was written.
LEMMA ScalarReads ==
  ASSUME NEW m, PartsAgree(m), NEW o, NEW i \in 1..Len(m.fields), NEW inner,
         ~IsMessage(m, m.fields[i]), IsScalar(m, m.fields[i], o.val[m.fields[i]])
  PROVE  ReadsAs(m, o, i, LeafUnit(m.serialize[i], o.val[m.fields[i]]), inner)
<1> DEFINE f == m.fields[i]
           v == o.val[f]
           u == LeafUnit(m.serialize[i], v)
<1>1. /\ m.merge[i].field = f /\ m.serialize[i].num = m.merge[i].num
      /\ m.serialize[i].type = m.merge[i].type
  BY DEF PartsAgree
<1>2. TypeOf(m, f) = m.merge[i].type
  BY TypeOfField
<1>3. /\ u.num = m.merge[i].num /\ u.wt = WireType(m.merge[i].type)
      /\ u.str = v.str /\ u.int = v.int
  BY <1>1 DEF LeafUnit, Unit
<1>4. v = IF WireType(m.merge[i].type) = LENGTH_DELIMITED THEN StrVal(v.str) ELSE IntVal(v.int)
  BY <1>2 DEF IsScalar
<1>5. ~IsMessage(m, f)
  OBVIOUS
<1> HIDE DEF u
<1>6. ValueIn(m, i, u, inner) = v
  BY <1>1, <1>3, <1>4, <1>5, Zenon DEF ValueIn
<1>7. ReadsAs(m, o, i, u, inner)
  BY <1>3, <1>5, <1>6 DEF ReadsAs
<1> QED BY <1>7 DEF u

\* A message without messages in it is parsed to itself.
LEMMA LeafRoundTrip ==
  ASSUME NEW m, IsLeafClass(m), NEW o, IsLeaf(m, o), NEW t, IsSpelling(m, o, LeafUnits(m, o), t)
  PROVE  MergeLeaf(m, NewLeaf(m), t).obj = o /\ MergeLeaf(m, NewLeaf(m), t).ok = TRUE
<1> DEFINE T == LeafTurns(m, NewLeaf(m), t)
           inner == Started(NoObject)
<1>1. PartsAgree(m) /\ HasShape(m, o) /\ NewLeaf(m) = New(m)
  BY NewLeafIs DEF IsLeafClass, IsLeaf
<1>2. PICK w, k : Spells(m, o, t, w, k) /\ \A n \in 1..Len(t) : w[n] # 0 => t[n] = LeafUnits(m, o)[w[n]]
  BY DEF IsSpelling
<1>3. Len(t) \in Nat
  BY <1>2 DEF Spells
<1>4. T[0] = Started(New(m)) /\ \A n \in 1..Len(t) : T[n] = MergeUnit(m, T[n - 1], t[n], inner)
  BY <1>1, <1>3, LeafTurnsAre
<1>5. ASSUME NEW n \in 1..Len(t), w[n] # 0 PROVE ReadsAs(m, o, w[n], t[n], inner)
  <2> DEFINE i == w[n]
  <2>1. i \in 1..Len(m.fields) /\ has(m, o, m.fields[i])
    <3>1. i \in 0..Len(m.fields) /\ i # 0 /\ has(m, o, m.fields[i])
      BY <1>2, <1>5 DEF Spells
    <3> QED BY <3>1
  <2> HIDE DEF i
  <2>2. m.fields[i] \in Fields(m) /\ m.serialize[i].field = m.fields[i] /\ Len(m.serialize) = Len(m.fields)
    BY <1>1, <2>1 DEF PartsAgree
  <2>3. IsScalar(m, m.fields[i], o.val[m.fields[i]])
    BY <2>1, <2>2 DEF IsLeaf
  <2>4. ~IsMessage(m, m.fields[i])
    BY DEF IsMessage, IsLeafClass
  <2>5. LeafUnits(m, o)[i] = LeafUnit(m.serialize[i], o.val[m.fields[i]])
    BY <2>1, <2>2 DEF LeafUnits, get
  <2>6. ReadsAs(m, o, i, LeafUnit(m.serialize[i], o.val[m.fields[i]]), inner)
    BY <1>1, <2>1, <2>3, <2>4, ScalarReads
  <2> QED BY <1>2, <1>5, <2>5, <2>6 DEF i
<1> HIDE DEF T, inner
<1>6. ASSUME NEW n \in 1..Len(t), NEW at \in 0..Len(m.fields), NEW unknown,
             T[n - 1] = Parsed(m, o, BitsOf(m, w, n - 1), unknown, at)
      PROVE  \E x : /\ T[n] = MergeUnit(m, T[n - 1], t[n], x)
                    /\ w[n] # 0 => ReadsAs(m, o, w[n], t[n], x)
  BY <1>4, <1>5
<1>7. T[Len(t)].obj = o /\ T[Len(t)].ok = TRUE
  BY <1>1, <1>2, <1>4, <1>6, TurnsBuild
<1> QED BY <1>7, Zenon DEF MergeLeaf, T

\* x has the units of the first i fields that are set, in order.
Lists(m, o, units, x, w, i) ==
  /\ x \in Seq({units[j] : j \in 1..Len(m.serialize)}) /\ Len(x) <= i
  /\ \A n \in 1..Len(x) :
       /\ w[n] \in 1..i /\ has(m, o, m.fields[w[n]]) /\ x[n] = units[w[n]]
       /\ \A j \in 1..n - 1 : w[j] < w[n]
  /\ \A j \in 1..i : has(m, o, m.fields[j]) => \E n \in 1..Len(x) : w[n] = j

\* One more if of SerializeWithCachedSizes.
LEMMA ListGrows ==
  ASSUME NEW m, NEW o, NEW units, NEW x, NEW w, NEW i \in Nat, Lists(m, o, units, x, w, i),
         i + 1 \in 1..Len(m.serialize)
  PROVE  IF has(m, o, m.fields[i + 1])
           THEN \E v : Lists(m, o, units, Append(x, units[i + 1]), v, i + 1)
           ELSE Lists(m, o, units, x, w, i + 1)
<1> DEFINE L == Len(x)
           E == {units[j] : j \in 1..Len(m.serialize)}
           c == i + 1
<1>1. /\ x \in Seq(E) /\ L \in Nat /\ L <= i /\ units[c] \in E
      /\ \A n \in 1..L : /\ w[n] \in 1..i /\ has(m, o, m.fields[w[n]]) /\ x[n] = units[w[n]]
                         /\ \A j \in 1..n - 1 : w[j] < w[n]
      /\ \A j \in 1..i : has(m, o, m.fields[j]) => \E n \in 1..L : w[n] = j
  <2>1. x \in Seq(E)
    BY DEF Lists
  <2>2. L \in Nat
    BY <2>1, LenProperties
  <2>3. units[c] \in E
    OBVIOUS
  <2> HIDE DEF E
  <2> QED BY <2>1, <2>2, <2>3 DEF Lists
<1>5. \A y, v, d : Lists(m, o, units, y, v, d) <=>
        /\ y \in Seq(E) /\ Len(y) <= d
        /\ \A n \in 1..Len(y) :
             /\ v[n] \in 1..d /\ has(m, o, m.fields[v[n]]) /\ y[n] = units[v[n]]
             /\ \A j \in 1..n - 1 : v[j] < v[n]
        /\ \A j \in 1..d : has(m, o, m.fields[j]) => \E n \in 1..Len(y) : v[n] = j
  BY DEF Lists
<1> HIDE DEF E
<1>2. /\ \A j \in 1..i : j \in 1..c /\ j < c
      /\ \A j \in 1..c : j \in 1..i \/ j = c
      /\ c \in 1..c /\ (L <= i => L <= c /\ L + 1 <= c)
  BY <1>1
<1> HIDE DEF c
<1>3. CASE ~has(m, o, m.fields[c])
  <2>1. Lists(m, o, units, x, w, c)
    BY <1>1, <1>2, <1>3, <1>5
  <2> QED BY <1>3, <2>1 DEF c
<1>4. CASE has(m, o, m.fields[c])
  <2> DEFINE y == Append(x, units[c])
             v == [n \in 1..L + 1 |-> IF n <= L THEN w[n] ELSE c]
  <2>1. y \in Seq(E) /\ Len(y) = L + 1
    BY <1>1
  <2>2. \A n \in 1..L : y[n] = x[n]
    BY <1>1
  <2>3. y[L + 1] = units[c]
    BY <1>1
  <2>4. (\A n \in 1..L : n \in 1..L + 1 /\ v[n] = w[n]) /\ v[L + 1] = c
    BY <1>1
  <2>5. \A n \in 1..L + 1 : n \in 1..L \/ n = L + 1
    BY <1>1
  <2>6. L + 1 \in 1..L + 1 /\ (L + 1) - 1 = L
    BY <1>1
  <2> HIDE DEF y, v, L
  <2>7. ASSUME NEW n \in 1..L + 1
        PROVE  /\ v[n] \in 1..c /\ has(m, o, m.fields[v[n]]) /\ y[n] = units[v[n]]
               /\ \A j \in 1..n - 1 : v[j] < v[n]
    <3>1. CASE n \in 1..L
      <4>1. \A j \in 1..n - 1 : j \in 1..L
        BY <1>1, <3>1
      <4> QED BY <1>1, <1>2, <2>2, <2>4, <3>1, <4>1
    <3>2. CASE n = L + 1
      <4>1. \A j \in 1..L : v[j] < c
        BY <1>1, <1>2, <2>4
      <4>2. v[n] = c /\ y[n] = units[c]
        BY <2>3, <2>4, <3>2
      <4>3. n - 1 = L
        BY <2>6, <3>2, Zenon
      <4> QED BY <1>2, <1>4, <4>1, <4>2, <4>3
    <3> QED BY <2>5, <3>1, <3>2
  <2>8. ASSUME NEW j \in 1..c, has(m, o, m.fields[j]) PROVE \E n \in 1..L + 1 : v[n] = j
    <3>1. CASE j \in 1..i
      BY <1>1, <2>4, <2>8, <3>1
    <3>2. CASE j = c
      BY <2>4, <2>6, <3>2
    <3> QED BY <1>2, <3>1, <3>2
  <2>9. Lists(m, o, units, y, v, c)
    <3>1. Len(y) <= c
      BY <1>1, <1>2, <2>1
    <3> QED BY <1>5, <2>1, <2>7, <2>8, <3>1
  <2> QED BY <1>4, <2>9 DEF c, y
<1> QED BY <1>3, <1>4

LEMMA WritesList ==
  ASSUME NEW m, PartsAgree(m), NEW o, NEW units
  PROVE  \E w : Lists(m, o, units, Writes(m, o, units)[Len(m.fields)], w, Len(m.fields))
<1> DEFINE x == Writes(m, o, units)
           N == Len(m.fields)
           Has(i) == \E w : Lists(m, o, units, x[i], w, i)
           S == {i \in Nat : i <= N => Has(i)}
<1>1. N \in Nat /\ Len(m.serialize) = N /\ \A i \in 1..N : m.serialize[i].field = m.fields[i]
  BY DEF PartsAgree
<1>2. x[0] = <<>> /\ \A i \in 1..N : x[i] = IF has(m, o, m.fields[i]) THEN Append(x[i - 1], units[i])
                                            ELSE x[i - 1]
  BY <1>1, WritesAre
<1> HIDE DEF x
<1>3. Lists(m, o, units, x[0], <<>>, 0)
  BY <1>2 DEF Lists
<1>4. ASSUME NEW i \in Nat, i + 1 <= N, NEW w, Lists(m, o, units, x[i], w, i)
      PROVE  \E v : Lists(m, o, units, x[i + 1], v, i + 1)
  <2>1. i + 1 \in 1..N /\ i + 1 - 1 = i /\ i + 1 \in 1..Len(m.serialize)
    BY <1>1, <1>4
  <2>2. x[i + 1] = IF has(m, o, m.fields[i + 1]) THEN Append(x[i], units[i + 1]) ELSE x[i]
    BY <1>2, <2>1
  <2>3. IF has(m, o, m.fields[i + 1])
          THEN \E v : Lists(m, o, units, Append(x[i], units[i + 1]), v, i + 1)
          ELSE Lists(m, o, units, x[i], w, i + 1)
    BY <1>4, <2>1, ListGrows
  <2> QED BY <2>2, <2>3
<1>5. Has(0) /\ \A i \in Nat : i + 1 <= N /\ Has(i) => Has(i + 1)
  BY <1>3, <1>4
<1> HIDE DEF Has
<1>6. 0 \in S /\ \A i \in Nat : i \in S => i + 1 \in S
  BY <1>1, <1>5
<1> HIDE DEF S
<1>7. N \in S
  BY <1>1, <1>6, NumbersInduct
<1> QED BY <1>1, <1>7 DEF S, Has, x

\* What is written is a spelling of the object.
LEMMA OutputSpells ==
  ASSUME NEW m, PartsAgree(m), NEW o, HasShape(m, o), NEW units
  PROVE  IsSpelling(m, o, units, Output(m, o, units)) /\ IsText(Output(m, o, units))
<1> DEFINE N == Len(m.fields)
           x == Writes(m, o, units)[N]
           L == Len(x)
           K == Len(o.unknown)
           t == x \o o.unknown
           A == {units[j] : j \in 1..N}
           B == {o.unknown[j] : j \in DOMAIN o.unknown}
<1>1. PICK w : Lists(m, o, units, x, w, N)
  BY WritesList
<1>2. N \in Nat /\ Len(m.serialize) = N
  BY DEF PartsAgree
<1>3. x \in Seq(A) /\ o.unknown \in Seq(B) /\ L \in Nat /\ K \in Nat
  BY <1>1, <1>2 DEF Lists, HasShape, IsText
<1>4. /\ \A n \in 1..L : /\ w[n] \in 1..N /\ has(m, o, m.fields[w[n]]) /\ x[n] = units[w[n]]
                         /\ \A j \in 1..n - 1 : w[j] < w[n]
      /\ \A j \in 1..N : has(m, o, m.fields[j]) => \E n \in 1..L : w[n] = j
  BY <1>1 DEF Lists
<1>5. Output(m, o, units) = t
  BY <1>2 DEF Output
<1> HIDE DEF x, A, B
<1>6. t \in Seq(A \cup B) /\ Len(t) = L + K
  BY <1>3
<1>7. \A n \in 1..L : t[n] = x[n]
  BY <1>3
<1>8. \A n \in L + 1..L + K : t[n] = o.unknown[n - L]
  BY <1>3
<1> HIDE DEF t, L, K
<1> DEFINE all == [n \in 1..L + K |-> IF n <= L THEN w[n] ELSE 0]
           k == [n \in 0..L + K |-> IF n <= L THEN 0 ELSE n - L]
<1>9. ASSUME NEW n \in 1..L
      PROVE  /\ n \in 1..L + K /\ all[n] = w[n] /\ k[n] = 0 /\ k[n - 1] = 0 /\ w[n] \in 1..N
             /\ \A j \in 1..n - 1 : j \in 1..L /\ all[j] = w[j] /\ w[j] # w[n]
  <2>1. \A j \in 1..n - 1 : j \in 1..L /\ all[j] = w[j]
    BY <1>3
  <2>2. \A j \in 1..n - 1 : w[j] < w[n] /\ w[j] \in 1..N /\ w[n] \in 1..N
    BY <1>4, <2>1
  <2>3. \A j \in 1..n - 1 : w[j] # w[n]
    BY <2>2
  <2> QED BY <1>3, <1>4, <2>1, <2>3
<1>10. \A n \in L + 1..L + K : /\ all[n] = 0 /\ k[n] = n - L /\ k[n - 1] = n - 1 - L
                               /\ n - L \in 1..K /\ n - 1 - L \in 0..K - 1
  BY <1>3
<1>11. k[0] = 0 /\ k[L + K] = K
  BY <1>3
<1>12. \A n \in 1..L + K : n \in 1..L \/ n \in L + 1..L + K
  BY <1>3
<1> HIDE DEF all, k
<1>13. ASSUME NEW n \in 1..L + K
       PROVE  /\ all[n] \in 0..N
              /\ all[n] # 0 => /\ has(m, o, m.fields[all[n]]) /\ k[n] = k[n - 1]
                             /\ \A j \in 1..n - 1 : all[j] # all[n]
              /\ all[n] = 0 => /\ k[n - 1] \in 0..K - 1 /\ k[n] = k[n - 1] + 1
                             /\ t[n] = o.unknown[k[n]]
              /\ all[n] # 0 => t[n] = units[all[n]]
  <2>1. CASE n \in 1..L
    <3>1. all[n] \in 0..N /\ all[n] # 0
      BY <1>2, <1>9, <2>1
    <3> QED BY <1>4, <1>7, <1>9, <2>1, <3>1
  <2>2. CASE n \in L + 1..L + K
    <3>1. all[n] \in 0..N /\ n - L = n - 1 - L + 1
      BY <1>2, <1>3, <1>10, <2>2
    <3> QED BY <1>8, <1>10, <2>2, <3>1
  <2> QED BY <1>12, <2>1, <2>2
<1>14. \A i \in 1..N : has(m, o, m.fields[i]) => \E n \in 1..L + K : all[n] = i
  BY <1>4, <1>9
<1>15. Spells(m, o, t, all, k)
  BY <1>3, <1>6, <1>11, <1>13, <1>14 DEF Spells, K
<1>16. IsSpelling(m, o, units, t)
  BY <1>6, <1>13, <1>15 DEF IsSpelling
<1>17. IsText(t)
  <2>1. t \in [1..Len(t) -> {t[i] : i \in DOMAIN t}] /\ Len(t) \in Nat
    BY <1>6
  <2> QED BY <2>1 DEF IsText
<1> QED BY <1>5, <1>16, <1>17

\* Read backwards it still is one, with at most one unknown field.
LEMMA ReverseSpells ==
  ASSUME NEW m, NEW o, NEW units, NEW t, IsText(t), IsSpelling(m, o, units, t),
         Len(o.unknown) \in 0..1
  PROVE  IsSpelling(m, o, units, Reverse(t)) /\ IsText(Reverse(t))
<1> DEFINE L == Len(t)
           K == Len(o.unknown)
           r == Reverse(t)
           N == Len(m.fields)
<1>1. PICK w, k : Spells(m, o, t, w, k) /\ \A n \in 1..L : w[n] # 0 => t[n] = units[w[n]]
  BY DEF IsSpelling
<1>2. L \in Nat /\ r = [i \in 1..L |-> t[(L - i) + 1]] /\ K \in 0..1
  BY <1>1 DEF Spells, Reverse
<1>3. t \in Seq({t[i] : i \in DOMAIN t}) /\ DOMAIN t = 1..L
  BY DEF IsText
<1>4. \A i \in 1..L : r[i] \in {t[j] : j \in 1..L}
  <2>1. \A i \in 1..L : (L - i) + 1 \in 1..L
    BY <1>2
  <2> HIDE DEF r, L
  <2> QED BY <1>2, <2>1
<1>5. r \in Seq({t[j] : j \in 1..L}) /\ Len(r) = L
  <2> DEFINE E == {t[j] : j \in 1..L}
  <2> HIDE DEF r, L
  <2>1. r \in [1..L -> E]
    BY <1>2, <1>4
  <2> HIDE DEF E
  <2>2. r \in Seq(E) /\ Len(r) = L
    BY <1>2, <2>1, SeqDef
  <2> QED BY <2>2 DEF E
<1> DEFINE v == [n \in 1..L |-> w[(L - n) + 1]]
           h == [n \in 0..L |-> K - k[L - n]]
<1>6. /\ k[0] = 0 /\ k[L] = K
      /\ \A p \in 1..L :
           /\ w[p] \in 0..N
           /\ w[p] # 0 => /\ has(m, o, m.fields[w[p]]) /\ k[p] = k[p - 1]
                          /\ \A j \in 1..p - 1 : w[j] # w[p]
           /\ w[p] = 0 => /\ k[p - 1] \in 0..K - 1 /\ k[p] = k[p - 1] + 1
                          /\ t[p] = o.unknown[k[p]]
      /\ \A i \in 1..N : has(m, o, m.fields[i]) => \E p \in 1..L : w[p] = i
  BY <1>1 DEF Spells
<1>7. ASSUME NEW n \in 1..L
      PROVE  /\ (L - n) + 1 \in 1..L /\ ((L - n) + 1) - 1 = L - n /\ L - (n - 1) = (L - n) + 1
             /\ n - 1 \in 0..L /\ n \in 0..L
             /\ \A j \in 1..n - 1 : /\ j \in 1..L /\ (L - j) + 1 \in 1..L
                                    /\ (L - n) + 1 \in 1..((L - j) + 1) - 1
  BY <1>2
<1> HIDE DEF L, r, N
<1>8. ASSUME NEW n \in 1..L
      PROVE  /\ v[n] \in 0..N
             /\ v[n] # 0 => /\ has(m, o, m.fields[v[n]]) /\ h[n] = h[n - 1]
                            /\ \A j \in 1..n - 1 : v[j] # v[n]
             /\ v[n] = 0 => /\ h[n - 1] \in 0..K - 1 /\ h[n] = h[n - 1] + 1
                            /\ r[n] = o.unknown[h[n]]
             /\ v[n] # 0 => r[n] = units[v[n]]
  <2> DEFINE p == (L - n) + 1
  <2>1. /\ p \in 1..L /\ v[n] = w[p] /\ r[n] = t[p]
        /\ h[n] = K - k[p - 1] /\ h[n - 1] = K - k[p]
    <3>1. p - 1 = L - n /\ L - (n - 1) = p /\ n - 1 \in 0..L /\ n \in 0..L
      BY <1>7
    <3>2. h[n] = K - k[L - n] /\ h[n - 1] = K - k[L - (n - 1)]
      BY <3>1
    <3>3. p \in 1..L /\ v[n] = w[p] /\ r[n] = t[p]
      BY <1>2, <1>7
    <3> QED BY <3>1, <3>2, <3>3
  <2>2. ASSUME v[n] # 0, NEW j \in 1..n - 1 PROVE v[j] # v[n]
    <3> DEFINE q == (L - j) + 1
    <3>1. j \in 1..L /\ q \in 1..L /\ p \in 1..q - 1
      BY <1>7
    <3>2. v[j] = w[q]
      BY <3>1
    <3> HIDE DEF p, q, v
    <3>3. w[q] # 0 => w[p] # w[q]
      BY <1>6, <3>1
    <3> QED BY <2>1, <2>2, <3>2, <3>3
  <2> HIDE DEF p, v, h, K
  <2>3. CASE v[n] # 0
    <3>1. w[p] \in 0..N /\ has(m, o, m.fields[w[p]]) /\ k[p] = k[p - 1] /\ t[p] = units[w[p]]
      BY <1>1, <1>6, <2>1, <2>3 DEF L
    <3> QED BY <2>1, <2>2, <2>3, <3>1
  <2>4. CASE v[n] = 0
    <3>1. /\ w[p] \in 0..N /\ k[p - 1] \in 0..K - 1 /\ k[p] = k[p - 1] + 1
          /\ t[p] = o.unknown[k[p]]
      BY <1>6, <2>1, <2>4
    <3>2. K = 1 /\ k[p - 1] = 0 /\ k[p] = 1
      BY <1>2, <3>1
    <3> QED BY <2>1, <2>4, <3>1, <3>2
  <2> QED BY <2>3, <2>4
<1>9. h[0] = 0 /\ h[L] = K
  <2>1. 0 \in 0..L /\ L \in 0..L /\ L - 0 = L /\ L - L = 0
    BY <1>2
  <2>2. h[0] = K - K /\ h[L] = K - 0
    BY <1>6, <2>1
  <2> HIDE DEF h, K
  <2> QED BY <1>2, <2>2
<1>10. ASSUME NEW i \in 1..N, has(m, o, m.fields[i]) PROVE \E n \in 1..L : v[n] = i
  <2>1. PICK p \in 1..L : w[p] = i
    BY <1>6, <1>10
  <2>2. (L - p) + 1 \in 1..L /\ (L - ((L - p) + 1)) + 1 = p
    BY <1>2
  <2>3. v[(L - p) + 1] = i
    BY <2>1, <2>2
  <2> QED BY <2>2, <2>3
<1> HIDE DEF v, h
<1>11. Spells(m, o, r, v, h)
  BY <1>2, <1>5, <1>8, <1>9, <1>10 DEF Spells, K, N
<1>12. IsSpelling(m, o, units, r)
  <2>1. \A n \in 1..Len(r) : v[n] # 0 => r[n] = units[v[n]]
    BY <1>5, <1>8
  <2> QED BY <1>11, <2>1, Zenon DEF IsSpelling
<1>13. IsText(r)
  <2>1. r \in [1..Len(r) -> {r[i] : i \in DOMAIN r}] /\ Len(r) \in Nat
    BY <1>5
  <2> QED BY <2>1 DEF IsText
<1> QED BY <1>12, <1>13 DEF r

\* A message in a message is read as it was written, where there was none.
LEMMA MessageReads ==
  ASSUME NEW m, IsClass(m), NEW o, IsObject(m, o), NEW i \in 1..Len(m.fields),
         IsMessage(m, m.fields[i]), has(m, o, m.fields[i]),
         NEW bits, m.bit[m.fields[i]] \notin bits, NEW unknown, NEW at \in 0..Len(m.fields),
         NEW s, s = Parsed(m, o, bits, unknown, at),
         NEW u, u = FieldUnit(m, m.serialize[i], o.val[m.fields[i]])
  PROVE  ReadsAs(m, o, i, u, InnerMerge(m, s, u))
<1> DEFINE f == m.fields[i]
           c == m.sub[f]
           x == o.val[f].obj
           text == SerializeLeaf(c, x)
           inner == InnerMerge(m, s, u)
<1>1. /\ PartsAgree(m) /\ f \in Fields(m) /\ m.merge[i].field = f /\ m.serialize[i].field = f
      /\ m.serialize[i].num = m.merge[i].num /\ m.serialize[i].type = m.merge[i].type
  BY DEF IsClass, PartsAgree
<1>2. IsLeafClass(c) /\ PartsAgree(c)
  BY DEF IsClass, IsLeafClass, IsMessage
<1>3. o.val[f] = SubVal(x) /\ IsLeaf(c, x) /\ HasShape(c, x)
  BY <1>1 DEF IsObject, IsLeaf
<1>4. /\ u.num = m.merge[i].num /\ u.wt = WireType(m.merge[i].type) /\ u.str = text
  BY <1>1 DEF FieldUnit, Unit
<1>5. CaseFor(m, at, u) = i
  BY <1>1, <1>4, CaseKnown
<1>6. s.at = at /\ s.obj = Part(m, o, bits, unknown)
  BY Zenon DEF Parsed
<1>7. get(s.obj, f).obj = NewLeaf(c)
  <2>1. Part(m, o, bits, unknown).val[f] = DefaultOf(m, f)
    BY <1>1 DEF Part
  <2>2. get(s.obj, f) = DefaultOf(m, f)
    BY <1>6, <2>1 DEF get
  <2> QED BY <2>2 DEF DefaultOf, SubVal
<1>8. inner = MergeLeaf(c, NewLeaf(c), text)
  BY <1>1, <1>4, <1>5, <1>6, <1>7 DEF InnerMerge
<1>9. IsSpelling(c, x, LeafUnits(c, x), text)
  BY <1>2, <1>3, OutputSpells DEF SerializeLeaf, LeafUnits
<1>10. inner.obj = x /\ inner.ok = TRUE
  <2> HIDE DEF inner, c, x, text, f
  <2>1. MergeLeaf(c, NewLeaf(c), text).obj = x /\ MergeLeaf(c, NewLeaf(c), text).ok = TRUE
    BY <1>2, <1>3, <1>9, LeafRoundTrip, Zenon
  <2> QED BY <1>8, <2>1, Zenon
<1> HIDE DEF inner
<1>11. ValueIn(m, i, u, inner) = o.val[f]
  BY <1>1, <1>3, <1>10 DEF ValueIn
<1>12. ReadsAs(m, o, i, u, inner)
  BY <1>4, <1>10, <1>11 DEF ReadsAs
<1> QED BY <1>12 DEF inner

\* The bit of the field of a unit is not among those of the units before it.
LEMMA BitIsNew ==
  ASSUME NEW m, PartsAgree(m), NEW o, NEW t, NEW w, NEW k, Spells(m, o, t, w, k),
         NEW n \in 1..Len(t), w[n] # 0
  PROVE  m.bit[m.fields[w[n]]] \notin BitsOf(m, w, n - 1)
<1> SUFFICES ASSUME NEW j \in 1..n - 1, w[j] # 0, m.bit[m.fields[w[j]]] = m.bit[m.fields[w[n]]]
             PROVE  FALSE
  BY DEF BitsOf
<1>1. w[n] \in 0..Len(m.fields) /\ w[j] # w[n]
  BY DEF Spells
<1>2. j \in 1..Len(t)
  BY DEF Spells
<1>3. w[j] \in 0..Len(m.fields)
  BY <1>2 DEF Spells
<1>4. w[n] \in 1..Len(m.fields) /\ w[j] \in 1..Len(m.fields)
  BY <1>1, <1>3
<1> QED BY <1>1, <1>4 DEF PartsAgree

\* The text of an object, its fields in any order, is parsed to that object,
\* and refused exactly when a required field is not set.
THEOREM ParsesBack ==
  ASSUME NEW m, IsClass(m), NEW o, IsObject(m, o), NEW t, IsSpelling(m, o, FieldUnits(m, o), t)
  PROVE  /\ ParseFromString(m, t).obj = o
         /\ ParseFromString(m, t).ok <=> IsInitialized(m, o)
<1> DEFINE T == Turns(m, New(m), t)
<1>1. PartsAgree(m) /\ HasShape(m, o)
  BY DEF IsClass, IsObject
<1>2. PICK w, k : Spells(m, o, t, w, k) /\ \A n \in 1..Len(t) : w[n] # 0 => t[n] = FieldUnits(m, o)[w[n]]
  BY DEF IsSpelling
<1>3. Len(t) \in Nat
  BY <1>2 DEF Spells
<1>4. /\ T[0] = Started(New(m))
      /\ \A n \in 1..Len(t) : T[n] = MergeUnit(m, T[n - 1], t[n], InnerMerge(m, T[n - 1], t[n]))
  BY <1>3, TurnsAre
<1> HIDE DEF T
<1>5. ASSUME NEW n \in 1..Len(t), NEW at \in 0..Len(m.fields), NEW unknown,
             T[n - 1] = Parsed(m, o, BitsOf(m, w, n - 1), unknown, at)
      PROVE  \E x : /\ T[n] = MergeUnit(m, T[n - 1], t[n], x)
                    /\ w[n] # 0 => ReadsAs(m, o, w[n], t[n], x)
  <2> DEFINE i == w[n]
             inner == InnerMerge(m, T[n - 1], t[n])
  <2>1. ASSUME w[n] # 0 PROVE ReadsAs(m, o, i, t[n], inner)
    <3>1. i \in 1..Len(m.fields) /\ has(m, o, m.fields[i])
      <4>1. i \in 0..Len(m.fields) /\ i # 0 /\ has(m, o, m.fields[i])
        BY <1>2, <2>1 DEF Spells
      <4> QED BY <4>1
    <3>2. m.bit[m.fields[i]] \notin BitsOf(m, w, n - 1)
      BY <1>1, <1>2, <2>1, BitIsNew
    <3>3. t[n] = FieldUnits(m, o)[i]
      BY <1>2, <2>1
    <3> HIDE DEF i
    <3>4. m.fields[i] \in Fields(m) /\ m.serialize[i].field = m.fields[i] /\ Len(m.serialize) = Len(m.fields)
      BY <1>1, <3>1 DEF PartsAgree
    <3>5. t[n] = FieldUnit(m, m.serialize[i], o.val[m.fields[i]])
      BY <3>1, <3>3, <3>4 DEF FieldUnits, get
    <3>6. CASE IsMessage(m, m.fields[i])
      BY <1>5, <3>1, <3>2, <3>5, <3>6, MessageReads
    <3>7. CASE ~IsMessage(m, m.fields[i])
      <4>1. IsScalar(m, m.fields[i], o.val[m.fields[i]])
        BY <3>1, <3>4, <3>7 DEF IsObject
      <4>2. t[n] = LeafUnit(m.serialize[i], o.val[m.fields[i]])
        BY <3>4, <3>5, <3>7 DEF FieldUnit
      <4> HIDE DEF inner
      <4>3. ReadsAs(m, o, i, LeafUnit(m.serialize[i], o.val[m.fields[i]]), inner)
        BY <1>1, <3>1, <3>7, <4>1, ScalarReads
      <4> QED BY <4>2, <4>3
    <3> QED BY <3>6, <3>7
  <2> QED BY <1>4, <2>1
<1>6. T[Len(t)].obj = o /\ T[Len(t)].ok = TRUE
  BY <1>1, <1>2, <1>4, <1>5, TurnsBuild
<1> DEFINE r == Merge(m, New(m), t)
<1>7. r.obj = o /\ r.ok = TRUE
  BY <1>6, Zenon DEF Merge, T
<1> HIDE DEF r
<1> DEFINE ok == r.ok /\ IsInitialized(m, r.obj)
           p == ParseFromString(m, t)
<1>8. p = [obj |-> r.obj, ok |-> ok]
  BY DEF ParseFromString, r
<1> HIDE DEF ok, p
<1>9. p.obj = r.obj /\ p.ok = ok
  BY <1>8
<1> QED BY <1>7, <1>9, Zenon DEF ok, p

----------------------------------------------------------------------------
(* The size of what is written.                                             *)

\* The size of the first units is that of the text that has only them.
LEMMA SizesOfFront ==
  ASSUME NEW x, Len(x) \in Nat, NEW y, Len(y) \in Nat, Len(x) <= Len(y),
         \A i \in 1..Len(x) : y[i] = x[i]
  PROVE  Sizes(y)[Len(x)] = SizeOf(x)
<1> DEFINE S == {i \in Nat : i <= Len(x) => Sizes(y)[i] = Sizes(x)[i]}
<1>1. Sizes(x)[0] = 0 /\ \A i \in 1..Len(x) : Sizes(x)[i] = Sizes(x)[i - 1] + UnitSize(x[i])
  BY SizesAre
<1>2. Sizes(y)[0] = 0 /\ \A i \in 1..Len(y) : Sizes(y)[i] = Sizes(y)[i - 1] + UnitSize(y[i])
  BY SizesAre
<1>3. ASSUME NEW i \in Nat, i \in S PROVE i + 1 \in S
  <2> SUFFICES ASSUME i + 1 <= Len(x) PROVE Sizes(y)[i + 1] = Sizes(x)[i + 1]
    OBVIOUS
  <2>1. i + 1 \in 1..Len(x) /\ i + 1 \in 1..Len(y) /\ (i + 1) - 1 = i
    OBVIOUS
  <2>2. Sizes(y)[i] = Sizes(x)[i]
    BY <1>3
  <2> QED BY <1>1, <1>2, <2>1, <2>2
<1>4. 0 \in S
  BY <1>1, <1>2
<1> HIDE DEF S
<1>5. Len(x) \in S
  BY <1>3, <1>4, NumbersInduct
<1> QED BY <1>5 DEF S, SizeOf

\* One unit more.
LEMMA SizeOfAppend ==
  ASSUME NEW E, NEW x \in Seq(E), NEW u
  PROVE  SizeOf(Append(x, u)) = SizeOf(x) + UnitSize(u)
<1> DEFINE y == Append(x, u)
           n == Len(x)
<1>1. n \in Nat /\ Len(y) = n + 1 /\ y[n + 1] = u /\ \A i \in 1..n : y[i] = x[i]
  <2>1. x \in Seq(E \cup {u}) /\ u \in E \cup {u}
    OBVIOUS
  <2> QED BY <2>1
<1> HIDE DEF y
<1>2. n + 1 \in 1..Len(y) /\ (n + 1) - 1 = n /\ n <= Len(y) /\ Len(y) \in Nat
  BY <1>1
<1>3. Sizes(y)[n + 1] = Sizes(y)[n] + UnitSize(u)
  BY <1>1, <1>2, SizesAre
<1>4. Sizes(y)[n] = SizeOf(x)
  BY <1>1, <1>2, SizesOfFront
<1> QED BY <1>1, <1>3, <1>4 DEF SizeOf, y

\* Two texts one after the other.
LEMMA SizeOfBoth ==
  ASSUME NEW E, NEW x \in Seq(E), NEW G, NEW y \in Seq(G), SizeOf(x) \in Int,
         \A i \in 1..Len(y) : UnitSize(y[i]) \in Int
  PROVE  SizeOf(x \o y) = SizeOf(x) + SizeOf(y)
<1> DEFINE z == x \o y
           n == Len(x)
           a == SizeOf(x)
           S == {i \in Nat : i <= Len(y) => Sizes(y)[i] \in Int /\ Sizes(z)[n + i] = a + Sizes(y)[i]}
<1>1. /\ n \in Nat /\ Len(y) \in Nat /\ Len(z) = n + Len(y)
      /\ \A i \in 1..n : z[i] = x[i]
      /\ \A i \in 1..Len(y) : z[n + i] = y[i]
  <2>1. x \in Seq(E \cup G) /\ y \in Seq(E \cup G)
    OBVIOUS
  <2> QED BY <2>1
<1> HIDE DEF z
<1>2. Sizes(y)[0] = 0 /\ \A i \in 1..Len(y) : Sizes(y)[i] = Sizes(y)[i - 1] + UnitSize(y[i])
  BY <1>1, SizesAre
<1>3. Len(z) \in Nat /\ \A i \in 1..Len(z) : Sizes(z)[i] = Sizes(z)[i - 1] + UnitSize(z[i])
  BY <1>1, SizesAre
<1>4. Sizes(z)[n] = a
  BY <1>1, <1>3, SizesOfFront
<1> HIDE DEF n, a
<1>5. 0 \in S
  BY <1>1, <1>2, <1>4 DEF a
<1>6. ASSUME NEW i \in Nat, i \in S PROVE i + 1 \in S
  <2> SUFFICES ASSUME i + 1 <= Len(y)
               PROVE  Sizes(y)[i + 1] \in Int /\ Sizes(z)[n + (i + 1)] = a + Sizes(y)[i + 1]
    OBVIOUS
  <2>1. /\ i + 1 \in 1..Len(y) /\ (i + 1) - 1 = i
        /\ n + (i + 1) \in 1..Len(z) /\ (n + (i + 1)) - 1 = n + i
    BY <1>1
  <2>2. Sizes(y)[i] \in Int /\ Sizes(z)[n + i] = a + Sizes(y)[i]
    BY <1>1, <1>6
  <2>3. Sizes(y)[i + 1] = Sizes(y)[i] + UnitSize(y[i + 1]) /\ UnitSize(y[i + 1]) \in Int
    BY <1>2, <2>1
  <2>4. Sizes(z)[n + (i + 1)] = Sizes(z)[n + i] + UnitSize(y[i + 1])
    BY <1>1, <1>3, <2>1
  <2>5. a \in Int
    BY DEF a
  <2> QED BY <2>2, <2>3, <2>4, <2>5
<1> HIDE DEF S
<1>7. Len(y) \in S
  BY <1>1, <1>5, <1>6, NumbersInduct
<1> QED BY <1>1, <1>7 DEF S, SizeOf, z, a

\* The unit of a field has one byte of tag.
LEMMA UnitSizeIs ==
  ASSUME NEW m, IsClass(m), NEW o, IsObject(m, o), NEW i \in 1..Len(m.fields),
         has(m, o, m.fields[i])
  PROVE  /\ UnitSize(FieldUnits(m, o)[i]) = FieldSize(m, o, m.fields[i])
         /\ FieldSize(m, o, m.fields[i]) \in Int
<1> DEFINE f == m.fields[i]
           v == o.val[f]
           w == m.serialize[i]
           str == IF IsMessage(m, f) THEN SerializeLeaf(m.sub[f], v.obj) ELSE v.str
<1>1. /\ PartsAgree(m) /\ f \in Fields(m) /\ w.field = f /\ w.num = m.merge[i].num
      /\ w.type = m.merge[i].type /\ Len(m.serialize) = Len(m.fields)
  BY DEF IsClass, PartsAgree
<1>2. TagSize(w.num) = 1
  BY <1>1, NumTyped DEF TagSize
<1>3. FieldUnits(m, o)[i] = FieldUnit(m, w, v)
  BY <1>1 DEF FieldUnits, get
<1>4. FieldUnit(m, w, v) = Unit(w.num, WireType(w.type), v.int, str)
  BY <1>1 DEF FieldUnit, LeafUnit
<1>5. Len(str) \in Nat
  <2>1. CASE IsMessage(m, f)
    <3>1. IsLeafClass(m.sub[f]) /\ PartsAgree(m.sub[f]) /\ HasShape(m.sub[f], v.obj)
      BY <1>1, <2>1 DEF IsClass, IsLeafClass, IsMessage, IsObject, IsLeaf
    <3>2. IsText(SerializeLeaf(m.sub[f], v.obj))
      BY <3>1, OutputSpells DEF SerializeLeaf
    <3> QED BY <2>1, <3>2 DEF IsText
  <2>2. CASE ~IsMessage(m, f)
    <3>1. IsScalar(m, f, v)
      BY <1>1, <2>2 DEF IsObject
    <3>2. CASE v = StrVal(v.str) /\ Len(v.str) \in Nat
      BY <2>2, <3>2
    <3>3. CASE v = IntVal(v.int)
      <4>1. v.str = <<>>
        BY <3>3 DEF IntVal
      <4> QED BY <2>2, <4>1
    <3> QED BY <3>1, <3>2, <3>3 DEF IsScalar
  <2> QED BY <2>1, <2>2
<1>6. FieldSize(m, o, f) = 1 + (1 + Len(str))
  BY DEF FieldSize, ContentSize, get
<1> HIDE DEF str
<1>7. UnitSize(Unit(w.num, WireType(w.type), v.int, str)) = 1 + (1 + Len(str))
  BY <1>2 DEF UnitSize, Unit, ContentSize
<1> QED BY <1>3, <1>4, <1>5, <1>6, <1>7

\* ByteSize is the size of what SerializeWithCachedSizes writes, for every
\* object of every class: the buffer it is given is neither too short nor
\* sent with bytes nobody wrote.
THEOREM SizeIsWritten ==
  ASSUME NEW m, IsClass(m), NEW o, IsObject(m, o)
  PROVE  ByteSize(m, o) = SizeOf(Serialize(m, o))
<1> DEFINE units == FieldUnits(m, o)
           N == Len(m.fields)
           x == Writes(m, o, units)
           z == FieldSizes(m, o)
           E == {units[j] : j \in 1..Len(m.serialize)}
           S == {i \in Nat : i <= N => x[i] \in Seq(E) /\ z[i] \in Int /\ SizeOf(x[i]) = z[i]}
<1>1. /\ PartsAgree(m) /\ HasShape(m, o) /\ N \in Nat /\ Len(m.serialize) = N
      /\ \A i \in 1..N : m.serialize[i].field = m.fields[i]
  BY DEF IsClass, IsObject, PartsAgree
<1>2. x[0] = <<>> /\ \A i \in 1..N : x[i] = IF has(m, o, m.fields[i]) THEN Append(x[i - 1], units[i])
                                            ELSE x[i - 1]
  BY <1>1, WritesAre
<1>3. z[0] = 0 /\ \A i \in 1..N : z[i] = IF has(m, o, m.fields[i])
                                            THEN z[i - 1] + FieldSize(m, o, m.fields[i])
                                            ELSE z[i - 1]
  BY <1>1, FieldSizesAre
<1>4. \A i \in 1..N : units[i] \in E
  BY <1>1
<1>5. \A i \in 1..N : has(m, o, m.fields[i]) =>
        UnitSize(units[i]) = FieldSize(m, o, m.fields[i]) /\ FieldSize(m, o, m.fields[i]) \in Int
  BY UnitSizeIs
<1>6. Serialize(m, o) = x[N] \o o.unknown
  BY <1>1 DEF Serialize, Output, FieldUnits
<1> HIDE DEF units, x, z, E
<1>7. 0 \in S
  <2>1. SizeOf(<<>>) = 0
    <3>1. Len(<<>>) = 0
      OBVIOUS
    <3> QED BY <3>1, SizesAre DEF SizeOf
  <2>2. <<>> \in Seq(E)
    OBVIOUS
  <2>3. x[0] \in Seq(E) /\ z[0] \in Int /\ SizeOf(x[0]) = z[0]
    BY <1>2, <1>3, <2>1, <2>2
  <2> QED BY <2>3
<1>8. ASSUME NEW i \in Nat, i \in S PROVE i + 1 \in S
  <2> DEFINE c == i + 1
  <2> SUFFICES ASSUME c <= N PROVE x[c] \in Seq(E) /\ z[c] \in Int /\ SizeOf(x[c]) = z[c]
    OBVIOUS
  <2>1. c \in 1..N /\ c - 1 = i
    BY <1>1
  <2>2. x[i] \in Seq(E) /\ z[i] \in Int /\ SizeOf(x[i]) = z[i]
    BY <1>1, <1>8
  <2> HIDE DEF c
  <2>3. CASE has(m, o, m.fields[c])
    <3>1. x[c] = Append(x[i], units[c]) /\ z[c] = z[i] + FieldSize(m, o, m.fields[c])
      BY <1>2, <1>3, <2>1, <2>3
    <3>2. SizeOf(x[c]) = SizeOf(x[i]) + UnitSize(units[c])
      BY <2>2, <3>1, SizeOfAppend
    <3>3. x[c] \in Seq(E)
      BY <1>4, <2>1, <2>2, <3>1
    <3> QED BY <1>5, <2>1, <2>2, <2>3, <3>1, <3>2, <3>3
  <2>4. CASE ~has(m, o, m.fields[c])
    BY <1>2, <1>3, <2>1, <2>2, <2>4
  <2> QED BY <2>3, <2>4
<1> HIDE DEF S
<1>9. N \in S
  BY <1>1, <1>7, <1>8, NumbersInduct
<1>10. x[N] \in Seq(E) /\ SizeOf(x[N]) \in Int /\ SizeOf(x[N]) = z[N]
  BY <1>1, <1>9 DEF S
<1>11. PICK G : o.unknown \in Seq(G)
  BY <1>1 DEF HasShape, IsText
<1>12. \A i \in 1..Len(o.unknown) : UnitSize(o.unknown[i]) \in Int
  <2>1. \A i \in 1..Len(o.unknown) : Len(o.unknown[i].str) \in Nat
    BY <1>1 DEF HasShape, NotKnown
  <2> QED BY <2>1 DEF UnitSize, TagSize, ContentSize
<1>13. SizeOf(x[N] \o o.unknown) = SizeOf(x[N]) + SizeOf(o.unknown)
  BY <1>10, <1>11, <1>12, SizeOfBoth
<1> QED BY <1>6, <1>10, <1>13 DEF ByteSize, z

----------------------------------------------------------------------------
(* Objects the program and the peer make.                                   *)

\* What is written is made of cells if the units are, and not longer than the
\* fields.
LEMMA OutputIn ==
  ASSUME NEW m, PartsAgree(m), NEW o, NEW units, NEW D, o.unknown \in Seq(D),
         \A i \in 1..Len(m.fields) : has(m, o, m.fields[i]) => units[i] \in D
  PROVE  /\ Output(m, o, units) \in Seq(D)
         /\ Len(Output(m, o, units)) <= Len(m.serialize) + Len(o.unknown)
<1> DEFINE N == Len(m.fields)
           x == Writes(m, o, units)[N]
<1>1. PICK w : Lists(m, o, units, x, w, N)
  BY WritesList
<1>2. N \in Nat /\ Len(m.serialize) = N
  BY DEF PartsAgree
<1>3. Output(m, o, units) = x \o o.unknown
  BY <1>2 DEF Output
<1> HIDE DEF x
<1>4. /\ x \in Seq({units[j] : j \in 1..Len(m.serialize)}) /\ Len(x) <= N
      /\ \A n \in 1..Len(x) : w[n] \in 1..N /\ has(m, o, m.fields[w[n]]) /\ x[n] = units[w[n]]
  BY <1>1 DEF Lists
<1>5. \A n \in 1..Len(x) : x[n] \in D
  BY <1>4
<1>6. x \in [1..Len(x) -> D] /\ Len(x) \in Nat
  <2> DEFINE E == {units[j] : j \in 1..Len(m.serialize)}
  <2>1. x \in Seq(E)
    BY <1>4
  <2> HIDE DEF E
  <2>2. Len(x) \in Nat /\ x \in [1..Len(x) -> E]
    BY <2>1, LenProperties
  <2> QED BY <1>5, <2>2
<1>7. x \in Seq(D)
  BY <1>6, SeqDef
<1>8. x \o o.unknown \in Seq(D) /\ Len(x \o o.unknown) = Len(x) + Len(o.unknown)
  BY <1>7
<1>9. Len(o.unknown) \in Nat
  OBVIOUS
<1> QED BY <1>2, <1>3, <1>4, <1>6, <1>8, <1>9

\* A value of the type of the field.
IsValue(m, f, v) ==
  IF IsMessage(m, f) THEN v = SubVal(v.obj) /\ IsLeaf(m.sub[f], v.obj)
  ELSE IsScalar(m, f, v)

LEMMA NewIsObject ==
  ASSUME NEW m
  PROVE  IsObject(m, New(m)) /\ New(m).unknown = <<>>
<1>1. New(m) = [bits |-> {}, val |-> [f \in Fields(m) |-> DefaultOf(m, f)], unknown |-> <<>>]
  BY DEF New
<1>2. \A f : ~has(m, New(m), f)
  BY <1>1 DEF has
<1>3. IsText(<<>>) /\ Len(<<>>) = 0
  BY DEF IsText
<1>4. \A f \in Fields(m) : New(m).val[f] = DefaultOf(m, f)
  BY <1>1
<1>5. New(m).unknown = <<>> /\ New(m).bits = {}
  BY <1>1
<1>6. New(m).val = [f \in Fields(m) |-> New(m).val[f]]
  BY <1>1
<1>7. New(m) = [bits |-> New(m).bits, val |-> New(m).val, unknown |-> New(m).unknown]
  BY <1>1
<1>8. HasShape(m, New(m))
  BY <1>3, <1>4, <1>5, <1>6, <1>7 DEF HasShape
<1> QED BY <1>2, <1>5, <1>8 DEF IsObject

\* set_f with a value of the type of the field.
LEMMA SetIsObject ==
  ASSUME NEW m, PartsAgree(m), NEW o, IsObject(m, o), NEW f \in Fields(m), NEW v, IsValue(m, f, v)
  PROVE  LET p == set(m, o, f, v)
         IN  /\ IsObject(m, p) /\ p.unknown = o.unknown
             /\ p.val[f] = v /\ has(m, p, f)
             /\ \A g \in Fields(m) : g # f => p.val[g] = o.val[g] /\ (has(m, p, g) <=> has(m, o, g))
<1> DEFINE p == set(m, o, f, v)
           val == [o.val EXCEPT ![f] = v]
<1>1. /\ o = [bits |-> o.bits, val |-> o.val, unknown |-> o.unknown]
      /\ o.bits \subseteq {m.bit[g] : g \in Fields(m)}
      /\ o.val = [g \in Fields(m) |-> o.val[g]]
      /\ \A g \in Fields(m) : ~has(m, o, g) => o.val[g] = DefaultOf(m, g)
      /\ IsText(o.unknown) /\ \A i \in 1..Len(o.unknown) : NotKnown(m, o.unknown[i])
  BY DEF IsObject, HasShape
<1>2. p = [bits |-> o.bits \cup {m.bit[f]}, val |-> val, unknown |-> o.unknown]
  <2>1. set(m, [bits |-> o.bits, val |-> o.val, unknown |-> o.unknown], f, v) =
          [bits |-> o.bits \cup {m.bit[f]}, val |-> [o.val EXCEPT ![f] = v], unknown |-> o.unknown]
    BY SetIs
  <2> QED BY <1>1, <2>1
<1>3. /\ val = [g \in Fields(m) |-> IF g = f THEN v ELSE o.val[g]]
  BY <1>1
<1> HIDE DEF val, p
<1>4. /\ p.bits = o.bits \cup {m.bit[f]} /\ p.val = val /\ p.unknown = o.unknown
      /\ p = [bits |-> p.bits, val |-> p.val, unknown |-> p.unknown]
  BY <1>2
<1>5. p.val[f] = v /\ \A g \in Fields(m) : g # f => p.val[g] = o.val[g]
  BY <1>3, <1>4
<1>6. p.val = [g \in Fields(m) |-> p.val[g]]
  BY <1>3, <1>4
<1>7. has(m, p, f) /\ \A g \in Fields(m) : g # f => (has(m, p, g) <=> has(m, o, g))
  BY <1>4, BitsDiffer DEF has
<1>8. HasShape(m, p)
  <2>1. p.bits \subseteq {m.bit[g] : g \in Fields(m)}
    BY <1>1, <1>4
  <2>2. \A g \in Fields(m) : ~has(m, p, g) => p.val[g] = DefaultOf(m, g)
    BY <1>1, <1>5, <1>7
  <2> QED BY <1>1, <1>4, <1>6, <2>1, <2>2 DEF HasShape
<1>9. ASSUME NEW g \in Fields(m), has(m, p, g) PROVE IsValue(m, g, p.val[g])
  <2>1. CASE g = f
    BY <1>5, <2>1
  <2>2. CASE g # f
    BY <1>5, <1>7, <1>9, <2>2 DEF IsObject, IsValue
  <2> QED BY <2>1, <2>2
<1>10. IsObject(m, p)
  BY <1>8, <1>9 DEF IsObject, IsValue
<1> QED BY <1>4, <1>5, <1>7, <1>10 DEF p

LEMMA ClearIs ==
  ASSUME NEW m, NEW bits, NEW val, NEW unknown, NEW f
  PROVE  clear(m, [bits |-> bits, val |-> val, unknown |-> unknown], f) =
           [bits |-> bits \ {m.bit[f]}, val |-> [val EXCEPT ![f] = DefaultOf(m, f)],
            unknown |-> unknown]
<1> DEFINE o == [bits |-> bits, val |-> val, unknown |-> unknown]
<1>1. clear(m, o, f) =
        [[o EXCEPT !.bits = o.bits \ {m.bit[f]}] EXCEPT !.val = [o.val EXCEPT ![f] = DefaultOf(m, f)]]
  BY DEF clear
<1> QED BY <1>1

\* clear_f, from any state of the field.
LEMMA ClearIsObject ==
  ASSUME NEW m, PartsAgree(m), NEW o, IsObject(m, o), NEW f \in Fields(m)
  PROVE  LET p == clear(m, o, f)
         IN  /\ IsObject(m, p) /\ p.unknown = o.unknown /\ ~has(m, p, f)
             /\ \A g \in Fields(m) : g # f => p.val[g] = o.val[g] /\ (has(m, p, g) <=> has(m, o, g))
<1> DEFINE p == clear(m, o, f)
           val == [o.val EXCEPT ![f] = DefaultOf(m, f)]
<1>1. /\ o = [bits |-> o.bits, val |-> o.val, unknown |-> o.unknown]
      /\ o.bits \subseteq {m.bit[g] : g \in Fields(m)}
      /\ o.val = [g \in Fields(m) |-> o.val[g]]
      /\ \A g \in Fields(m) : ~has(m, o, g) => o.val[g] = DefaultOf(m, g)
      /\ IsText(o.unknown) /\ \A i \in 1..Len(o.unknown) : NotKnown(m, o.unknown[i])
  BY DEF IsObject, HasShape
<1>2. p = [bits |-> o.bits \ {m.bit[f]}, val |-> val, unknown |-> o.unknown]
  <2>1. clear(m, [bits |-> o.bits, val |-> o.val, unknown |-> o.unknown], f) =
          [bits |-> o.bits \ {m.bit[f]}, val |-> [o.val EXCEPT ![f] = DefaultOf(m, f)],
           unknown |-> o.unknown]
    BY ClearIs
  <2> QED BY <1>1, <2>1
<1>3. val = [g \in Fields(m) |-> IF g = f THEN DefaultOf(m, f) ELSE o.val[g]]
  BY <1>1
<1> HIDE DEF val, p
<1>4. /\ p.bits = o.bits \ {m.bit[f]} /\ p.val = val /\ p.unknown = o.unknown
      /\ p = [bits |-> p.bits, val |-> p.val, unknown |-> p.unknown]
  BY <1>2
<1>5. p.val[f] = DefaultOf(m, f) /\ \A g \in Fields(m) : g # f => p.val[g] = o.val[g]
  BY <1>3, <1>4
<1>6. p.val = [g \in Fields(m) |-> p.val[g]]
  BY <1>3, <1>4
<1>7. ~has(m, p, f) /\ \A g \in Fields(m) : g # f => (has(m, p, g) <=> has(m, o, g))
  BY <1>4, BitsDiffer DEF has
<1>8. HasShape(m, p)
  <2>1. p.bits \subseteq {m.bit[g] : g \in Fields(m)}
    BY <1>1, <1>4
  <2>2. \A g \in Fields(m) : ~has(m, p, g) => p.val[g] = DefaultOf(m, g)
    BY <1>1, <1>5, <1>7
  <2> QED BY <1>1, <1>4, <1>6, <2>1, <2>2 DEF HasShape
<1>9. ASSUME NEW g \in Fields(m), has(m, p, g) PROVE IsValue(m, g, p.val[g])
  BY <1>5, <1>7, <1>9 DEF IsObject, IsValue
<1>10. IsObject(m, p)
  BY <1>8, <1>9 DEF IsObject, IsValue
<1> QED BY <1>4, <1>5, <1>7, <1>10 DEF p

\* The field of a later version is known to no class.
LEMMA ForeignNotKnown ==
  ASSUME NEW m, PartsAgree(m)
  PROVE  NotKnown(m, Foreign)
<1>1. Foreign.num = 15 /\ Foreign.wt = VARINT /\ Foreign.str = <<>>
  BY DEF Foreign, Unit
<1>2. \A i \in 1..Len(m.fields) : m.merge[i].num = 15 => WireType(m.merge[i].type) # VARINT
  BY DEF PartsAgree
<1>3. Len(<<>>) \in Nat
  OBVIOUS
<1> QED BY <1>1, <1>2, <1>3 DEF NotKnown

\* What makes an object without unknown fields.
LEMMA ObjectWithout ==
  ASSUME NEW m, NEW o, o.unknown = <<>>,
         o = [bits |-> o.bits, val |-> o.val, unknown |-> o.unknown],
         o.bits \subseteq {m.bit[f] : f \in Fields(m)},
         o.val = [f \in Fields(m) |-> o.val[f]],
         \A f \in Fields(m) : ~has(m, o, f) => o.val[f] = DefaultOf(m, f)
  PROVE  HasShape(m, o)
<1>1. IsText(<<>>) /\ Len(<<>>) = 0
  BY DEF IsText
<1> QED BY <1>1 DEF HasShape

LEMMA DefaultScalar ==
  ASSUME NEW m, NEW f, NEW n
  PROVE  /\ IsScalar(m, f, IntVal(0))
         /\ IntVal(0) = StrVal(<<>>)
         /\ WireType(TypeOf(m, f)) # LENGTH_DELIMITED => IsScalar(m, f, IntVal(n))
<1>1. IntVal(0) = StrVal(<<>>) /\ IntVal(0).str = <<>> /\ IntVal(0).int = 0 /\ IntVal(n).int = n
  BY DEF IntVal, StrVal
<1>2. Len(<<>>) \in Nat
  OBVIOUS
<1> HIDE DEF IntVal, StrVal
<1> QED BY <1>1, <1>2 DEF IsScalar

LEMMA StringScalar ==
  ASSUME NEW m, NEW f, NEW s, Len(s) \in Nat, WireType(TypeOf(m, f)) = LENGTH_DELIMITED
  PROVE  IsScalar(m, f, StrVal(s))
<1>1. StrVal(s).str = s
  BY DEF StrVal
<1> QED BY <1>1 DEF IsScalar

\* A text of the program has one unit.
LEMMA TextLen == \A n : Len(Text(n)) = 1 /\ Text(n)[1].wt = 7 /\ Text(n) # <<>>
<1> TAKE n
<1> DEFINE u == Unit(0, 7, n, <<>>)
<1>1. u.wt = 7
  BY DEF Unit
<1> HIDE DEF u
<1>2. Len(<<u>>) = 1 /\ <<u>>[1] = u /\ <<u>> # <<>>
  OBVIOUS
<1> QED BY <1>1, <1>2 DEF Text, u

LEMMA NewLeafIsLeaf ==
  ASSUME NEW m, IsLeafClass(m)
  PROVE  IsLeaf(m, NewLeaf(m))
<1>1. NewLeaf(m) = New(m)
  BY DEF NewLeaf, New, DefaultOf, IsLeafClass, IsMessage
<1>2. HasShape(m, New(m))
  BY NewIsObject DEF IsObject
<1>3. \A f : ~has(m, NewLeaf(m), f)
  BY DEF NewLeaf, has
<1> QED BY <1>1, <1>2, <1>3 DEF IsLeaf

LEMMA FilledLeafIsLeaf ==
  ASSUME NEW m, IsLeafClass(m)
  PROVE  /\ IsLeaf(m, FilledLeaf(m))
         /\ \A f \in Fields(m) : has(m, FilledLeaf(m), f)
         /\ "cid" \in Fields(m) => FilledLeaf(m).val["cid"] = StrVal(Cid)
<1> DEFINE o == FilledLeaf(m)
           V(f) == IF f = "cid" THEN StrVal(Cid)
                   ELSE IF WireType(TypeOf(m, f)) = LENGTH_DELIMITED THEN StrVal(Contents)
                   ELSE IntVal(7)
<1>1. o = [bits |-> {m.bit[f] : f \in Fields(m)}, val |-> [f \in Fields(m) |-> V(f)],
           unknown |-> <<>>]
  BY DEF FilledLeaf
<1>2. ASSUME NEW f \in Fields(m) PROVE IsScalar(m, f, V(f))
  <2>1. Len(Cid) \in Nat /\ Len(Contents) \in Nat
    BY TextLen DEF Cid, Contents
  <2>2. f = "cid" => WireType(TypeOf(m, f)) = LENGTH_DELIMITED
    <3>1. PICK i \in 1..Len(m.fields) : m.fields[i] = f
      BY DEF IsLeafClass, PartsAgree
    <3>2. TypeOf(m, f) = m.merge[i].type
      BY <3>1, TypeOfField DEF IsLeafClass
    <3> QED BY <3>1, <3>2 DEF IsLeafClass, PartsAgree
  <2>3. CASE f = "cid"
    BY <2>1, <2>2, <2>3, StringScalar
  <2>4. CASE f # "cid" /\ WireType(TypeOf(m, f)) = LENGTH_DELIMITED
    BY <2>1, <2>4, StringScalar
  <2>5. CASE f # "cid" /\ WireType(TypeOf(m, f)) # LENGTH_DELIMITED
    BY <2>5, DefaultScalar
  <2> QED BY <2>3, <2>4, <2>5
<1>3. "cid" \in Fields(m) => V("cid") = StrVal(Cid)
  OBVIOUS
<1> HIDE DEF V, o
<1>4. /\ o.bits = {m.bit[f] : f \in Fields(m)} /\ o.unknown = <<>>
      /\ o.val = [f \in Fields(m) |-> V(f)]
      /\ o = [bits |-> o.bits, val |-> o.val, unknown |-> o.unknown]
  BY <1>1
<1>5. \A f \in Fields(m) : has(m, o, f) /\ o.val[f] = V(f)
  BY <1>4 DEF has
<1>6. o.val = [f \in Fields(m) |-> o.val[f]]
  BY <1>4
<1>7. HasShape(m, o)
  BY <1>4, <1>5, <1>6, ObjectWithout
<1> QED BY <1>2, <1>3, <1>5, <1>7 DEF IsLeaf, o

\* The values the peer gives a field are of its type, and one of them is not
\* the default.
LEMMA ValuesFit ==
  ASSUME NEW m, IsClass(m), NEW f \in Fields(m)
  PROVE  /\ \A v \in ValuesOf(m, f) : IsValue(m, f, v)
         /\ \E v \in ValuesOf(m, f) : v # DefaultOf(m, f)
<1>1. CASE IsMessage(m, f)
  <2> DEFINE n == m.sub[f]
             a == NewLeaf(n)
             b == FilledLeaf(n)
  <2>1. IsLeafClass(n)
    BY <1>1 DEF IsClass, IsMessage
  <2>2. IsLeaf(n, a) /\ IsLeaf(n, b) /\ \A g \in Fields(n) : has(n, b, g)
    BY <2>1, NewLeafIsLeaf, FilledLeafIsLeaf
  <2>3. PICK g \in Fields(n) : TRUE
    BY <2>1 DEF IsLeafClass, PartsAgree
  <2>4. a.bits = {} /\ n.bit[g] \in b.bits
    BY <2>2 DEF NewLeaf, has
  <2>5. a # b
    BY <2>4
  <2>6. ValuesOf(m, f) = {SubVal(a), SubVal(b)} /\ DefaultOf(m, f) = SubVal(a)
    BY <1>1 DEF ValuesOf, DefaultOf
  <2> HIDE DEF n, a, b
  <2>7. SubVal(a).obj = a /\ SubVal(b).obj = b
    BY DEF SubVal
  <2>8. IsValue(m, f, SubVal(a)) /\ IsValue(m, f, SubVal(b))
    BY <1>1, <2>2, <2>7 DEF IsValue, n
  <2> QED BY <2>5, <2>6, <2>7, <2>8
<1>2. CASE ~IsMessage(m, f) /\ WireType(TypeOf(m, f)) = LENGTH_DELIMITED
  <2>1. ValuesOf(m, f) = {StrVal(<<>>), StrVal(Contents)} /\ DefaultOf(m, f) = StrVal(<<>>)
    BY <1>2, DefaultScalar DEF ValuesOf, DefaultOf
  <2>2. Len(<<>>) \in Nat /\ Len(Contents) \in Nat /\ Contents # <<>>
    BY TextLen DEF Contents
  <2>3. StrVal(<<>>).str = <<>> /\ StrVal(Contents).str = Contents
    BY DEF StrVal
  <2>4. IsScalar(m, f, StrVal(<<>>)) /\ IsScalar(m, f, StrVal(Contents))
    BY <1>2, <2>2, StringScalar
  <2> QED BY <1>2, <2>1, <2>2, <2>3, <2>4 DEF IsValue
<1>3. CASE ~IsMessage(m, f) /\ WireType(TypeOf(m, f)) # LENGTH_DELIMITED
  <2>1. ValuesOf(m, f) = {IntVal(0), IntVal(7)} /\ DefaultOf(m, f) = IntVal(0)
    BY <1>3 DEF ValuesOf, DefaultOf
  <2>2. IntVal(0).int = 0 /\ IntVal(7).int = 7
    BY DEF IntVal
  <2>3. IsScalar(m, f, IntVal(0)) /\ IsScalar(m, f, IntVal(7))
    BY <1>3, DefaultScalar
  <2> QED BY <1>3, <2>1, <2>2, <2>3 DEF IsValue
<1> QED BY <1>1, <1>2, <1>3

\* A new object with some fields set.
LEMMA MadeIsObject ==
  ASSUME NEW m, PartsAgree(m), NEW vals, DOMAIN vals \subseteq Fields(m),
         \A f \in DOMAIN vals : IsValue(m, f, vals[f])
  PROVE  LET o == Made(m, vals)
         IN  /\ IsObject(m, o) /\ o.unknown = <<>>
             /\ \A f \in DOMAIN vals : o.val[f] = vals[f]
             /\ \A f \in Fields(m) : has(m, o, f) <=> f \in DOMAIN vals
<1> DEFINE o == Made(m, vals)
           val == [f \in Fields(m) |-> IF f \in DOMAIN vals THEN vals[f] ELSE DefaultOf(m, f)]
           bits == {m.bit[f] : f \in DOMAIN vals}
<1>1. o = [bits |-> bits, val |-> val, unknown |-> <<>>]
  BY DEF Made
<1>2. \A f \in Fields(m) : val[f] = IF f \in DOMAIN vals THEN vals[f] ELSE DefaultOf(m, f)
  OBVIOUS
<1>3. val = [f \in Fields(m) |-> val[f]] /\ bits \subseteq {m.bit[f] : f \in Fields(m)}
  OBVIOUS
<1>4. \A f \in Fields(m) : m.bit[f] \in bits <=> f \in DOMAIN vals
  BY BitsDiffer
<1> HIDE DEF o, val, bits
<1>5. /\ o.bits = bits /\ o.val = val /\ o.unknown = <<>>
      /\ o = [bits |-> o.bits, val |-> o.val, unknown |-> o.unknown]
  BY <1>1
<1>6. \A f \in Fields(m) : has(m, o, f) <=> f \in DOMAIN vals
  BY <1>4, <1>5 DEF has
<1>7. HasShape(m, o)
  BY <1>2, <1>3, <1>5, <1>6, ObjectWithout
<1>8. \A f \in DOMAIN vals : o.val[f] = vals[f]
  BY <1>2, <1>5
<1>9. \A f \in Fields(m) : has(m, o, f) => IsValue(m, f, o.val[f])
  BY <1>6, <1>8
<1>10. IsObject(m, o)
  BY <1>7, <1>9 DEF IsObject, IsValue
<1> QED BY <1>5, <1>6, <1>8, <1>10 DEF o

----------------------------------------------------------------------------
(* The message the peer puts together.                                      *)

\* Its fields have values the peer gives them, and at most one field is of a
\* later version.
IsDraft(m, o) ==
  /\ IsObject(m, o) /\ o.unknown \in {<<>>, <<Foreign>>}
  /\ \A f \in Fields(m) : has(m, o, f) => o.val[f] \in ValuesOf(m, f)

LEMMA NewIsDraft ==
  ASSUME NEW m
  PROVE  IsDraft(m, New(m))
<1>1. \A f : ~has(m, New(m), f)
  BY DEF New, has
<1> QED BY <1>1, NewIsObject DEF IsDraft

LEMMA SetKeepsDraft ==
  ASSUME NEW m, IsClass(m), NEW o, IsDraft(m, o), NEW f \in Fields(m), NEW v \in ValuesOf(m, f)
  PROVE  IsDraft(m, set(m, o, f, v))
<1>1. IsValue(m, f, v) /\ PartsAgree(m) /\ IsObject(m, o)
  BY ValuesFit DEF IsClass, IsDraft
<1> DEFINE p == set(m, o, f, v)
<1>2. /\ IsObject(m, p) /\ p.unknown = o.unknown /\ p.val[f] = v
      /\ \A g \in Fields(m) : g # f => p.val[g] = o.val[g] /\ (has(m, p, g) <=> has(m, o, g))
  BY <1>1, SetIsObject
<1> HIDE DEF p
<1>3. \A g \in Fields(m) : has(m, p, g) => p.val[g] \in ValuesOf(m, g)
  BY <1>2 DEF IsDraft
<1>4. IsDraft(m, p)
  BY <1>2, <1>3 DEF IsDraft
<1> QED BY <1>4 DEF p

LEMMA ClearKeepsDraft ==
  ASSUME NEW m, IsClass(m), NEW o, IsDraft(m, o), NEW f \in Fields(m)
  PROVE  IsDraft(m, clear(m, o, f))
<1>1. PartsAgree(m) /\ IsObject(m, o)
  BY DEF IsClass, IsDraft
<1> DEFINE p == clear(m, o, f)
<1>2. /\ IsObject(m, p) /\ p.unknown = o.unknown /\ ~has(m, p, f)
      /\ \A g \in Fields(m) : g # f => p.val[g] = o.val[g] /\ (has(m, p, g) <=> has(m, o, g))
  BY <1>1, ClearIsObject
<1> HIDE DEF p
<1>3. \A g \in Fields(m) : has(m, p, g) => p.val[g] \in ValuesOf(m, g)
  BY <1>2 DEF IsDraft
<1>4. IsDraft(m, p)
  BY <1>2, <1>3 DEF IsDraft
<1> QED BY <1>4 DEF p

LEMMA ForeignKeepsDraft ==
  ASSUME NEW m, IsClass(m), NEW o, IsDraft(m, o)
  PROVE  IsDraft(m, [o EXCEPT !.unknown = <<Foreign>>])
<1> DEFINE p == [o EXCEPT !.unknown = <<Foreign>>]
<1>1. HasShape(m, o) /\ PartsAgree(m)
  BY DEF IsClass, IsDraft, IsObject
<1>2. p = [bits |-> o.bits, val |-> o.val, unknown |-> <<Foreign>>]
  <2>1. o = [bits |-> o.bits, val |-> o.val, unknown |-> o.unknown]
    BY <1>1 DEF HasShape
  <2> QED BY <2>1
<1> HIDE DEF p
<1>3. /\ p.bits = o.bits /\ p.val = o.val /\ p.unknown = <<Foreign>>
      /\ p = [bits |-> p.bits, val |-> p.val, unknown |-> p.unknown]
  BY <1>2
<1>4. \A f : has(m, p, f) <=> has(m, o, f)
  BY <1>3 DEF has
<1>5. IsText(p.unknown) /\ \A i \in 1..Len(p.unknown) : NotKnown(m, p.unknown[i])
  <2>1. NotKnown(m, Foreign)
    BY <1>1, ForeignNotKnown
  <2> HIDE DEF Foreign
  <2>2. /\ <<Foreign>> \in Seq({<<Foreign>>[i] : i \in DOMAIN <<Foreign>>})
        /\ \A i \in 1..Len(<<Foreign>>) : <<Foreign>>[i] = Foreign
    OBVIOUS
  <2> QED BY <1>3, <2>1, <2>2 DEF IsText
<1>6. HasShape(m, p)
  BY <1>1, <1>3, <1>4, <1>5 DEF HasShape
<1>7. IsDraft(m, p)
  BY <1>3, <1>4, <1>6 DEF IsDraft, IsObject
<1> QED BY <1>7 DEF p

LEMMA FillKeepsDraft ==
  ASSUME NEW m, IsClass(m), NEW o, IsDraft(m, o)
  PROVE  IsDraft(m, [o EXCEPT !.bits = {m.bit[f] : f \in Fields(m)},
                              !.val = [f \in Fields(m) |->
                                         CHOOSE v \in ValuesOf(m, f) : v # DefaultOf(m, f)]])
<1> DEFINE V(f) == CHOOSE v \in ValuesOf(m, f) : v # DefaultOf(m, f)
           bits == {m.bit[f] : f \in Fields(m)}
           val == [f \in Fields(m) |-> V(f)]
           p == [o EXCEPT !.bits = bits, !.val = val]
<1>1. HasShape(m, o) /\ PartsAgree(m)
  BY DEF IsClass, IsDraft, IsObject
<1>2. \A f \in Fields(m) : V(f) \in ValuesOf(m, f) /\ IsValue(m, f, V(f))
  BY ValuesFit
<1>3. \A f \in Fields(m) : val[f] = V(f) /\ m.bit[f] \in bits
  OBVIOUS
<1>4. val = [f \in Fields(m) |-> val[f]]
  OBVIOUS
<1> HIDE DEF V, val, bits
<1>5. p = [bits |-> bits, val |-> val, unknown |-> o.unknown]
  <2> DEFINE q == [o EXCEPT !.bits = bits]
  <2>1. o = [bits |-> o.bits, val |-> o.val, unknown |-> o.unknown]
    BY <1>1 DEF HasShape
  <2>2. q = [bits |-> bits, val |-> o.val, unknown |-> o.unknown]
    BY <2>1
  <2>3. p = [q EXCEPT !.val = val]
    OBVIOUS
  <2> HIDE DEF q
  <2> QED BY <2>2, <2>3
<1> HIDE DEF p
<1>6. /\ p.bits = bits /\ p.val = val /\ p.unknown = o.unknown
      /\ p = [bits |-> p.bits, val |-> p.val, unknown |-> p.unknown]
  BY <1>5
<1>7. \A f \in Fields(m) : has(m, p, f) /\ p.val[f] = V(f)
  BY <1>3, <1>6 DEF has
<1>8. HasShape(m, p)
  <2>1. bits \subseteq {m.bit[f] : f \in Fields(m)}
    BY DEF bits
  <2> QED BY <1>1, <1>4, <1>6, <1>7, <2>1 DEF HasShape
<1>9. IsDraft(m, p)
  BY <1>2, <1>6, <1>7, <1>8 DEF IsDraft, IsObject, IsValue
<1> QED BY <1>9 DEF p, val, bits, V

\* A frame with a header that encode_header made for its text: a length that
\* is too large for an int is negative in the header.
LEMMA EncodedIsFrame ==
  ASSUME NEW cmd \in Int, NEW text \in Seq(Cells), HeadLen + Len(text) < 2 * IntMax
  PROVE  [cmd |-> cmd, text |-> text, len |-> encode_header(cmd, text).head.len] \in Frames
<1> DEFINE n == HeadLen + Len(text)
           len == encode_header(cmd, text).head.len
<1>1. /\ HeadLen \in Nat /\ HeadLen > 0 /\ IntMax \in Nat /\ Len(text) \in Nat
      /\ HeadLen < IntMax
  BY WidthAssumption
<1>2. len = ToInt(n)
  BY DEF encode_header, Header
<1>3. CASE n < IntMax
  <2>1. n \in IntRange
    BY <1>1, <1>3 DEF IntRange
  <2>2. len = n
    BY <1>1, <1>2, <2>1, ToIntNear
  <2> QED BY <1>1, <2>1, <2>2 DEF Frames
<1>4. CASE n >= IntMax
  <2> DEFINE b == 2 * IntMax
             a == n + IntMax
  <2>1. b \in Nat /\ b > 0 /\ a - b \in Int /\ 0 <= a - b /\ a - b < b /\ a \in Nat
    BY <1>1, <1>4
  <2> HIDE DEF a, b
  <2>2. a % b = a - b
    BY <2>1
  <2>3. ToInt(n) = n - b
    BY <1>1, <2>2 DEF ToInt, a, b
  <2>4. len = n - b /\ n - b \in IntRange /\ n - b < 0
    BY <1>1, <1>2, <1>4, <2>3 DEF IntRange, b
  <2> HIDE DEF len, n
  <2>5. len \in IntRange /\ ~(len >= HeadLen)
    BY <1>1, <2>4 DEF IntRange
  <2>6. [cmd |-> cmd, text |-> text, len |-> len] \in [cmd : Int, text : Seq(Cells), len : IntRange]
    BY <2>5
  <2>7. [cmd |-> cmd, text |-> text, len |-> len] \in Frames
    BY <2>5, <2>6 DEF Frames
  <2> QED BY <2>7 DEF len
<1> QED BY <1>1, <1>3, <1>4

\* A sequence of cells is a text, forwards and backwards.
LEMMA ReverseIn ==
  ASSUME NEW D, NEW t \in Seq(D)
  PROVE  IsText(t) /\ Reverse(t) \in Seq(D) /\ Len(Reverse(t)) = Len(t)
<1>1. Len(t) \in Nat /\ t \in [1..Len(t) -> D] /\ DOMAIN t = 1..Len(t)
  BY LenProperties
<1>2. t \in [1..Len(t) -> {t[i] : i \in DOMAIN t}]
  BY <1>1
<1>3. \A i \in 1..Len(t) : (Len(t) - i) + 1 \in 1..Len(t)
  BY <1>1
<1>4. Reverse(t) \in [1..Len(t) -> D]
  BY <1>1, <1>3 DEF Reverse
<1>5. IsText(t)
  BY <1>1, <1>2, SeqDef DEF IsText
<1>6. Reverse(t) \in Seq(D) /\ DOMAIN Reverse(t) = 1..Len(t)
  BY <1>1, <1>4, SeqDef
<1>7. Len(Reverse(t)) = Len(t)
  BY <1>1, <1>6
<1> QED BY <1>5, <1>6, <1>7

\* The cells of the peer.
LEMMA PeerCells ==
  /\ Foreign \in Cells /\ Contents[1] \in Cells /\ JsonPush[1] \in Cells
  /\ \A c \in Classes : DraftUnits(ClassOf[c]) \subseteq Cells
  /\ \A o \in ServiceRequests : UnitsOf(ServiceRequest, o) \subseteq Cells
<1>1. /\ Foreign \in PeerUnits /\ Contents[1] \in PeerUnits /\ JsonPush[1] \in PeerUnits
      /\ \A c \in Classes : DraftUnits(ClassOf[c]) \subseteq PeerUnits
      /\ \A o \in ServiceRequests : UnitsOf(ServiceRequest, o) \subseteq PeerUnits
  <2> DEFINE A == UNION {DraftUnits(ClassOf[c]) : c \in Classes}
             B == UNION {UnitsOf(ServiceRequest, o) : o \in ServiceRequests}
             D == {Foreign, Contents[1], JsonPush[1]}
  <2>1. \A c \in Classes : DraftUnits(ClassOf[c]) \subseteq A
    BY Zenon
  <2>2. \A o \in ServiceRequests : UnitsOf(ServiceRequest, o) \subseteq B
    BY Zenon
  <2>3. Foreign \in D /\ Contents[1] \in D /\ JsonPush[1] \in D
    BY Zenon
  <2>4. PeerUnits = A \cup B \cup D
    BY Zenon DEF PeerUnits
  <2> HIDE DEF A, B, D
  <2> QED BY <2>1, <2>2, <2>3, <2>4, Zenon
<1> QED BY <1>1, PeerAssumption, Zenon

\* The text of a draft, its fields in the order of the class or in the other
\* one, is of cells and spells the draft.
LEMMA DraftText ==
  ASSUME NEW c \in Classes, NEW o, IsDraft(ClassOf[c], o),
         NEW t \in {Serialize(ClassOf[c], o), Reverse(Serialize(ClassOf[c], o))}
  PROVE  /\ t \in Seq(Cells) /\ HeadLen + Len(t) < 2 * IntMax
         /\ IsSpelling(ClassOf[c], o, FieldUnits(ClassOf[c], o), t)
<1> DEFINE m == ClassOf[c]
           units == FieldUnits(m, o)
           s == Serialize(m, o)
<1>1. IsClass(m) /\ PartsAgree(m) /\ IsObject(m, o) /\ HasShape(m, o)
  BY ClassesAgree DEF IsClass, IsDraft, IsObject
<1>2. s = Output(m, o, units)
  BY DEF Serialize, FieldUnits
<1>3. IsSpelling(m, o, units, s) /\ IsText(s)
  BY <1>1, <1>2, OutputSpells
<1>4. Len(o.unknown) \in 0..1 /\ o.unknown \in Seq(Cells)
  <2>1. Foreign \in Cells
    BY PeerCells
  <2> HIDE DEF Foreign
  <2>2. Len(<<>>) \in 0..1 /\ <<>> \in Seq(Cells) /\ Len(<<Foreign>>) \in 0..1
        /\ <<Foreign>> \in Seq(Cells)
    BY <2>1
  <2> QED BY <2>2 DEF IsDraft
<1>5. ASSUME NEW i \in 1..Len(m.fields), has(m, o, m.fields[i]) PROVE units[i] \in Cells
  <2>1. /\ m.serialize[i].field = m.fields[i] /\ m.fields[i] \in Fields(m)
        /\ i \in 1..Len(m.serialize)
    BY <1>1 DEF PartsAgree
  <2>2. o.val[m.fields[i]] \in ValuesOf(m, m.serialize[i].field)
    BY <1>5, <2>1 DEF IsDraft
  <2>3. units[i] = FieldUnit(m, m.serialize[i], o.val[m.fields[i]])
    BY <2>1 DEF FieldUnits, get
  <2>4. units[i] \in {FieldUnit(m, m.serialize[i], v) : v \in ValuesOf(m, m.serialize[i].field)}
    BY <2>2, <2>3, Zenon
  <2>5. units[i] \in DraftUnits(m)
    BY <2>1, <2>4, Zenon DEF DraftUnits
  <2> QED BY <2>5, PeerCells
<1>6. s \in Seq(Cells) /\ Len(s) <= Len(m.serialize) + Len(o.unknown)
  BY <1>1, <1>2, <1>4, <1>5, OutputIn
<1>7. IsSpelling(m, o, units, Reverse(s))
  BY <1>3, <1>4, ReverseSpells
<1>8. Reverse(s) \in Seq(Cells) /\ Len(Reverse(s)) = Len(s)
  BY <1>6, ReverseIn
<1>9. HeadLen + Len(s) < 2 * IntMax
  <2>1. HeadLen + Len(m.serialize) + 1 < 2 * IntMax
    BY PeerAssumption
  <2>2. Len(s) \in Nat /\ Len(m.serialize) \in Nat /\ HeadLen \in Nat /\ IntMax \in Nat
    BY <1>1, <1>6, WidthAssumption DEF PartsAgree
  <2> DEFINE a == Len(s)
             b == Len(m.serialize)
             k == Len(o.unknown)
             h == HeadLen
             w == 2 * IntMax
  <2>3. a \in Nat /\ b \in Nat /\ k \in 0..1 /\ a <= b + k /\ h + b + 1 < w
    BY <1>4, <1>6, <2>1, <2>2
  <2>5. h \in Nat /\ w \in Nat
    BY <2>2
  <2> HIDE DEF a, b, k, h, w
  <2>4. h + a < w
    BY <2>5, <2>3
  <2> QED BY <2>4 DEF a, h, w
<1> QED BY <1>3, <1>6, <1>7, <1>8, <1>9

----------------------------------------------------------------------------
(* The requests of the peer.                                                *)

\* f is a field of m with this type.
FieldIs(m, f, type) ==
  \E i \in 1..Len(m.fields) : m.fields[i] = f /\ m.merge[i].type = type

LEMMA FieldTyped ==
  ASSUME NEW m, PartsAgree(m), NEW f, NEW type, FieldIs(m, f, type)
  PROVE  f \in Fields(m) /\ TypeOf(m, f) = type
<1>1. PICK i \in 1..Len(m.fields) : m.fields[i] = f /\ m.merge[i].type = type
  BY DEF FieldIs
<1>2. m.fields[i] \in Fields(m)
  BY DEF PartsAgree
<1>3. TypeOf(m, m.fields[i]) = m.merge[i].type
  BY TypeOfField
<1> QED BY <1>1, <1>2, <1>3

\* A string and a number in a field of their type.
LEMMA StringFits ==
  ASSUME NEW m, PartsAgree(m), NEW f, ~IsMessage(m, f), NEW s, Len(s) \in Nat,
         FieldIs(m, f, "string") \/ FieldIs(m, f, "bytes")
  PROVE  f \in Fields(m) /\ IsValue(m, f, StrVal(s))
<1>1. f \in Fields(m) /\ TypeOf(m, f) \in {"string", "bytes"}
  BY FieldTyped
<1>2. WireType(TypeOf(m, f)) = LENGTH_DELIMITED
  BY <1>1 DEF WireType
<1> QED BY <1>1, <1>2, StringScalar DEF IsValue

LEMMA NumberFits ==
  ASSUME NEW m, PartsAgree(m), NEW f, ~IsMessage(m, f), NEW n,
         FieldIs(m, f, "int32") \/ FieldIs(m, f, "int64")
  PROVE  f \in Fields(m) /\ IsValue(m, f, IntVal(n))
<1>1. f \in Fields(m) /\ TypeOf(m, f) \in {"int32", "int64"}
  BY FieldTyped
<1>2. WireType(TypeOf(m, f)) # LENGTH_DELIMITED
  BY <1>1 DEF WireType, VARINT, LENGTH_DELIMITED
<1> QED BY <1>1, <1>2, DefaultScalar DEF IsValue

\* The fields of ServicePacket.
LEMMA PacketKnows ==
  /\ FieldIs(ServicePacket, "type", "int32") /\ ~IsMessage(ServicePacket, "type")
  /\ \A t : IsMessage(ServicePacket, RequestField(t)) /\ IsMessage(ServicePacket, ResponseField(t))
<1>1. /\ 1 \in 1..Len(ServicePacket.fields) /\ ServicePacket.fields[1] = "type"
      /\ ServicePacket.merge[1].type = "int32" /\ ~IsMessage(ServicePacket, "type")
  BY DEF ServicePacket, ServicePacket_Merge, ServicePacket_Copy, Class, F, C, IsMessage
<1>2. ASSUME NEW t
      PROVE  IsMessage(ServicePacket, RequestField(t)) /\ IsMessage(ServicePacket, ResponseField(t))
  BY DEF RequestField, ResponseField, IsMessage, ServicePacket, Class
<1> QED BY <1>1, <1>2 DEF FieldIs

LEMMA PacketIsClass ==
  /\ IsClass(ServicePacket) /\ PartsAgree(ServicePacket)
  /\ \A f : IsMessage(ServicePacket, f) =>
              f \in Fields(ServicePacket) /\ IsLeafClass(ServicePacket.sub[f])
<1>1. IsClass(ServicePacket)
  BY ServicePacketAgrees, PacketFields DEF IsClass
<1> QED BY <1>1, PacketFields DEF IsClass, IsMessage

\* A packet with a type, and with a message too.
LEMMA TypedIsObject ==
  ASSUME NEW t
  PROVE  /\ IsObject(ServicePacket, TypedPacket(t)) /\ TypedPacket(t).unknown = <<>>
         /\ TypedPacket(t).val["type"] = IntVal(t)
         /\ has(ServicePacket, TypedPacket(t), "type")
         /\ \A f \in Fields(ServicePacket) : f # "type" => ~has(ServicePacket, TypedPacket(t), f)
<1> DEFINE vals == [type |-> IntVal(t)]
<1>1. "type" \in Fields(ServicePacket) /\ IsValue(ServicePacket, "type", IntVal(t))
  BY PacketKnows, PacketIsClass, NumberFits
<1>2. DOMAIN vals = {"type"} /\ vals["type"] = IntVal(t) /\ TypedPacket(t) = Made(ServicePacket, vals)
  BY DEF TypedPacket
<1> HIDE DEF vals
<1>3. LET o == Made(ServicePacket, vals)
      IN  /\ IsObject(ServicePacket, o) /\ o.unknown = <<>>
          /\ \A f \in DOMAIN vals : o.val[f] = vals[f]
          /\ \A f \in Fields(ServicePacket) : has(ServicePacket, o, f) <=> f \in DOMAIN vals
  BY <1>1, <1>2, PacketIsClass, MadeIsObject
<1> QED BY <1>1, <1>2, <1>3

\* A packet with a message o in its field f.
LEMMA PacketWith ==
  ASSUME NEW t, NEW f, IsMessage(ServicePacket, f), NEW o, IsLeaf(ServicePacket.sub[f], o)
  PROVE  LET p == set(ServicePacket, TypedPacket(t), f, SubVal(o))
         IN  /\ IsObject(ServicePacket, p) /\ p.unknown = <<>>
             /\ p.val["type"] = IntVal(t) /\ has(ServicePacket, p, "type")
             /\ p.val[f].obj = o /\ has(ServicePacket, p, f)
             /\ \A g \in Fields(ServicePacket) :
                  g \notin {"type", f} => ~has(ServicePacket, p, g)
<1> DEFINE p == set(ServicePacket, TypedPacket(t), f, SubVal(o))
<1>1. f \in Fields(ServicePacket) /\ f # "type" /\ "type" \in Fields(ServicePacket)
  BY PacketKnows, PacketIsClass, FieldTyped
<1>2. SubVal(o).obj = o
  BY DEF SubVal
<1>3. IsValue(ServicePacket, f, SubVal(o))
  BY <1>2 DEF IsValue
<1>4. /\ IsObject(ServicePacket, p) /\ p.unknown = TypedPacket(t).unknown
      /\ p.val[f] = SubVal(o) /\ has(ServicePacket, p, f)
      /\ \A g \in Fields(ServicePacket) : g # f =>
           /\ p.val[g] = TypedPacket(t).val[g]
           /\ has(ServicePacket, p, g) <=> has(ServicePacket, TypedPacket(t), g)
  BY <1>1, <1>3, TypedIsObject, PacketIsClass, SetIsObject
<1> HIDE DEF p
<1>5. /\ IsObject(ServicePacket, p) /\ p.unknown = <<>>
      /\ p.val["type"] = IntVal(t) /\ has(ServicePacket, p, "type")
      /\ p.val[f].obj = o /\ has(ServicePacket, p, f)
      /\ \A g \in Fields(ServicePacket) : g \notin {"type", f} => ~has(ServicePacket, p, g)
  BY <1>1, <1>2, <1>4, TypedIsObject
<1> QED BY <1>5 DEF p

\* What the peer puts into the payload of a request.
LEMMA PacketsAre ==
  ASSUME NEW p \in Packets
  PROVE  IsObject(ServicePacket, p) /\ p.unknown = <<>>
<1>1. \/ \E t : p = TypedPacket(t)
      \/ \E t : p = FullPacket(t)
      \/ p = New(ServicePacket)
  BY Zenon DEF Packets
<1>2. CASE \E t : p = TypedPacket(t)
  BY <1>2, TypedIsObject
<1>3. ASSUME NEW t, p = FullPacket(t) PROVE IsObject(ServicePacket, p) /\ p.unknown = <<>>
  <2> DEFINE f == RequestField(t)
  <2>1. IsMessage(ServicePacket, f) /\ IsLeafClass(ServicePacket.sub[f])
    BY PacketKnows, PacketIsClass
  <2>2. IsLeaf(ServicePacket.sub[f], FilledLeaf(ServicePacket.sub[f]))
    BY <2>1, FilledLeafIsLeaf
  <2>3. p = set(ServicePacket, TypedPacket(t), f, SubVal(FilledLeaf(ServicePacket.sub[f])))
    BY <1>3 DEF FullPacket
  <2> HIDE DEF f
  <2> QED BY <2>1, <2>2, <2>3, PacketWith
<1>4. CASE p = New(ServicePacket)
  BY <1>4, NewIsObject
<1> QED BY <1>1, <1>2, <1>3, <1>4

\* A message without unknown fields is a sequence of units.
LEMMA SerializedIs ==
  ASSUME NEW m, PartsAgree(m), NEW o, IsObject(m, o)
  PROVE  /\ Serialize(m, o) = Output(m, o, FieldUnits(m, o))
         /\ IsSpelling(m, o, FieldUnits(m, o), Serialize(m, o))
         /\ IsText(Serialize(m, o)) /\ Len(Serialize(m, o)) \in Nat
<1>1. Serialize(m, o) = Output(m, o, FieldUnits(m, o))
  BY DEF Serialize, FieldUnits
<1>2. HasShape(m, o)
  BY DEF IsObject
<1>3. IsSpelling(m, o, FieldUnits(m, o), Serialize(m, o)) /\ IsText(Serialize(m, o))
  BY <1>1, <1>2, OutputSpells
<1>4. Len(Serialize(m, o)) \in Nat
  BY <1>3, LenProperties DEF IsText
<1> QED BY <1>1, <1>3, <1>4

LEMMA PayloadLen == \A s \in Payloads : Len(s) \in Nat
<1> TAKE s \in Payloads
<1>1. (\E p \in Packets : s = Serialize(ServicePacket, p)) \/ s = Contents
  BY Zenon DEF Payloads
<1>2. CASE s = Contents
  BY <1>2, TextLen DEF Contents
<1>3. CASE \E p \in Packets : s = Serialize(ServicePacket, p)
  BY <1>3, PacketsAre, PacketIsClass, SerializedIs
<1> QED BY <1>1, <1>2, <1>3

\* The fields of ServiceRequest.
LEMMA RequestKnows ==
  /\ FieldIs(ServiceRequest, "sessid", "string") /\ FieldIs(ServiceRequest, "sn", "string")
  /\ FieldIs(ServiceRequest, "service_type", "int32") /\ FieldIs(ServiceRequest, "payload", "bytes")
  /\ \A f : ~IsMessage(ServiceRequest, f)
  /\ PartsAgree(ServiceRequest) /\ IsClass(ServiceRequest)
<1>1. /\ 1 \in 1..Len(ServiceRequest.fields) /\ ServiceRequest.fields[1] = "sessid"
      /\ 2 \in 1..Len(ServiceRequest.fields) /\ ServiceRequest.fields[2] = "service_type"
      /\ 3 \in 1..Len(ServiceRequest.fields) /\ ServiceRequest.fields[3] = "sn"
      /\ 4 \in 1..Len(ServiceRequest.fields) /\ ServiceRequest.fields[4] = "payload"
      /\ ServiceRequest.merge[1].type = "string" /\ ServiceRequest.merge[2].type = "int32"
      /\ ServiceRequest.merge[3].type = "string" /\ ServiceRequest.merge[4].type = "bytes"
  BY DEF ServiceRequest, ServiceRequest_Merge, ServiceRequest_Copy, Class, F, C
<1>2. IsLeafClass(ServiceRequest)
  BY ServiceRequestAgrees
<1>3. \A f : ~IsMessage(ServiceRequest, f)
  BY <1>2 DEF IsLeafClass, IsMessage
<1>4. PartsAgree(ServiceRequest) /\ IsClass(ServiceRequest)
  BY <1>2, LeafIsClass DEF IsLeafClass
<1> QED BY <1>1, <1>3, <1>4, Zenon DEF FieldIs

\* A request of the peer: it has a session and a type, a serial number of its
\* own, if any, and a payload, if any, of the peer's.
IsRequest(q) ==
  /\ IsObject(ServiceRequest, q) /\ q.unknown = <<>>
  /\ has(ServiceRequest, q, "sessid") /\ q.val["sessid"] = StrVal(Sessid)
  /\ has(ServiceRequest, q, "service_type")
  /\ q.val["service_type"] \in {IntVal(600), IntVal(7)}
  /\ has(ServiceRequest, q, "sn") => q.val["sn"] = StrVal(Sn)
  /\ has(ServiceRequest, q, "payload") => \E p \in Payloads : q.val["payload"] = StrVal(p)

LEMMA BareRequestIs ==
  ASSUME NEW n \in {600, 7}
  PROVE  /\ IsRequest(ServiceRequestOf(n))
         /\ ~has(ServiceRequest, ServiceRequestOf(n), "payload")
<1> DEFINE vals == [sn |-> StrVal(Sn), sessid |-> StrVal(Sessid), service_type |-> IntVal(n)]
           o == Made(ServiceRequest, vals)
<1>1. Len(Sn) \in Nat /\ Len(Sessid) \in Nat
  BY TextLen DEF Sn, Sessid
<1>2. /\ "sn" \in Fields(ServiceRequest) /\ IsValue(ServiceRequest, "sn", StrVal(Sn))
      /\ "sessid" \in Fields(ServiceRequest) /\ IsValue(ServiceRequest, "sessid", StrVal(Sessid))
      /\ "service_type" \in Fields(ServiceRequest)
      /\ IsValue(ServiceRequest, "service_type", IntVal(n))
      /\ "payload" \in Fields(ServiceRequest)
  BY <1>1, RequestKnows, StringFits, NumberFits, FieldTyped
<1>3. /\ DOMAIN vals = {"sn", "sessid", "service_type"} /\ vals["sn"] = StrVal(Sn)
      /\ vals["sessid"] = StrVal(Sessid) /\ vals["service_type"] = IntVal(n)
  OBVIOUS
<1>4. ServiceRequestOf(n) = o
  BY DEF ServiceRequestOf
<1> HIDE DEF vals
<1>5. /\ IsObject(ServiceRequest, o) /\ o.unknown = <<>>
      /\ \A f \in DOMAIN vals : o.val[f] = vals[f]
      /\ \A f \in Fields(ServiceRequest) : has(ServiceRequest, o, f) <=> f \in DOMAIN vals
  BY <1>2, <1>3, RequestKnows, MadeIsObject
<1> HIDE DEF o
<1>6. IsRequest(o) /\ ~has(ServiceRequest, o, "payload")
  BY <1>2, <1>3, <1>5 DEF IsRequest
<1> QED BY <1>4, <1>6

LEMMA WithPayloadIs ==
  ASSUME NEW o, IsRequest(o), NEW p \in Payloads
  PROVE  IsRequest(WithPayload(o, p))
<1> DEFINE q == WithPayload(o, p)
<1>1. Len(p) \in Nat
  BY PayloadLen
<1>2. /\ "payload" \in Fields(ServiceRequest) /\ IsValue(ServiceRequest, "payload", StrVal(p))
      /\ "sn" \in Fields(ServiceRequest) /\ "sessid" \in Fields(ServiceRequest)
      /\ "service_type" \in Fields(ServiceRequest)
  BY <1>1, RequestKnows, StringFits, FieldTyped
<1>3. /\ IsObject(ServiceRequest, q) /\ q.unknown = o.unknown
      /\ q.val["payload"] = StrVal(p) /\ has(ServiceRequest, q, "payload")
      /\ \A g \in Fields(ServiceRequest) : g # "payload" =>
           q.val[g] = o.val[g] /\ (has(ServiceRequest, q, g) <=> has(ServiceRequest, o, g))
  BY <1>2, RequestKnows, SetIsObject DEF IsRequest, WithPayload
<1> HIDE DEF q
<1>4. IsRequest(q)
  BY <1>2, <1>3 DEF IsRequest
<1> QED BY <1>4 DEF q

LEMMA RequestsAre == \A q \in ServiceRequests : IsRequest(q)
<1> TAKE q \in ServiceRequests
<1>1. \/ \E p \in Payloads : q = WithPayload(ServiceRequestOf(600), p)
      \/ q = ServiceRequestOf(600)
      \/ q = WithPayload(ServiceRequestOf(7), Contents)
      \/ q = clear(ServiceRequest, ServiceRequestOf(600), "sn")
  BY Zenon DEF ServiceRequests
<1>2. IsRequest(ServiceRequestOf(600)) /\ IsRequest(ServiceRequestOf(7))
  BY BareRequestIs
<1>3. Contents \in Payloads
  BY Zenon DEF Payloads
<1>4. CASE q = clear(ServiceRequest, ServiceRequestOf(600), "sn")
  <2> DEFINE o == ServiceRequestOf(600)
  <2>1. /\ "payload" \in Fields(ServiceRequest) /\ "sn" \in Fields(ServiceRequest)
        /\ "sessid" \in Fields(ServiceRequest) /\ "service_type" \in Fields(ServiceRequest)
    BY RequestKnows, FieldTyped
  <2>2. IsRequest(o) /\ IsObject(ServiceRequest, o) /\ q = clear(ServiceRequest, o, "sn")
    BY <1>2, <1>4 DEF IsRequest
  <2> HIDE DEF o
  <2> DEFINE r == clear(ServiceRequest, o, "sn")
  <2>3. /\ IsObject(ServiceRequest, r) /\ r.unknown = o.unknown /\ ~has(ServiceRequest, r, "sn")
        /\ \A g \in Fields(ServiceRequest) : g # "sn" =>
             r.val[g] = o.val[g] /\ (has(ServiceRequest, r, g) <=> has(ServiceRequest, o, g))
    <3>1. PartsAgree(ServiceRequest)
      BY RequestKnows
    <3> QED BY <2>1, <2>2, <3>1, ClearIsObject
  <2> HIDE DEF r
  <2>4. IsRequest(r)
    BY <2>1, <2>2, <2>3 DEF IsRequest
  <2> QED BY <2>2, <2>4 DEF r
<1> QED BY <1>1, <1>2, <1>3, <1>4, WithPayloadIs

\* Its text.
LEMMA RequestText ==
  ASSUME NEW q \in ServiceRequests
  PROVE  LET t == Serialize(ServiceRequest, q)
         IN  /\ t \in Seq(Cells) /\ HeadLen + Len(t) < 2 * IntMax
             /\ IsSpelling(ServiceRequest, q, FieldUnits(ServiceRequest, q), t)
<1> DEFINE m == ServiceRequest
           units == FieldUnits(m, q)
           t == Serialize(m, q)
<1>1. PartsAgree(m) /\ IsObject(m, q) /\ q.unknown = <<>>
  BY RequestKnows, RequestsAre DEF IsRequest
<1>2. t = Output(m, q, units) /\ IsSpelling(m, q, units, t)
  BY <1>1, SerializedIs
<1>3. "ServiceRequest" \in Classes /\ ClassOf["ServiceRequest"] = m
  BY DEF Classes, ClassOf
<1>4. ASSUME NEW i \in 1..Len(m.fields) PROVE units[i] \in Cells
  <2>1. i \in 1..Len(m.serialize)
    BY <1>1 DEF PartsAgree
  <2>2. units[i] = FieldUnit(m, m.serialize[i], get(q, m.serialize[i].field))
    BY <2>1 DEF FieldUnits
  <2>3. units[i] \in UnitsOf(m, q)
    BY <2>1, <2>2, Zenon DEF UnitsOf
  <2> QED BY <2>3, PeerCells
<1>5. <<>> \in Seq(Cells) /\ Len(<<>>) = 0
  OBVIOUS
<1> HIDE DEF units, m
<1>6. t \in Seq(Cells) /\ Len(t) <= Len(m.serialize) + Len(<<>>)
  BY <1>1, <1>2, <1>4, <1>5, OutputIn
<1>7. HeadLen + Len(t) < 2 * IntMax
  <2> DEFINE a == Len(t)
             b == Len(m.serialize)
  <2>1. HeadLen + b + 1 < 2 * IntMax
    BY <1>3, PeerAssumption
  <2>2. a \in Nat /\ b \in Nat /\ HeadLen \in Nat /\ IntMax \in Nat /\ a <= b + 0
    BY <1>1, <1>5, <1>6, WidthAssumption DEF PartsAgree
  <2> HIDE DEF a, b
  <2>3. HeadLen + a < 2 * IntMax
    BY <2>1, <2>2
  <2> QED BY <2>3 DEF a
<1> QED BY <1>2, <1>6, <1>7 DEF m, units

----------------------------------------------------------------------------
(* The invariant of the connection.                                         *)

\* The draft is a message of its class.
DraftInv ==
  \/ draft = NoDraft
  \/ /\ draft = [class |-> draft.class, obj |-> draft.obj, calls |-> draft.calls]
     /\ draft.class \in Classes /\ draft.calls \in 0..MaxSet
     /\ IsDraft(DraftClass, draft.obj)

\* A text spells the message s it was sent for.
Means(s, text) ==
  s.class # NoClass =>
    /\ s.class \in Classes /\ IsObject(ClassOf[s.class], s.obj)
    /\ IsSpelling(ClassOf[s.class], s.obj, FieldUnits(ClassOf[s.class], s.obj), text)

\* A command with a responder carries a request.
Asks(s, cmd) ==
  cmd \in {200, 7818, 8000} => s.class = "ServiceRequest" /\ s.obj \in ServiceRequests

\* Every frame spells what the peer meant.
MeantInv ==
  /\ Len(sent) <= MaxMessages
  /\ IsText(meant) /\ Len(meant) = Len(sent)
  /\ \A i \in 1..Len(sent) : Means(meant[i], sent[i].text) /\ Asks(meant[i], sent[i].cmd)

\* Every frame to the peer answers one of its own, or none.
AnswersInv ==
  /\ IsText(toPeer)
  /\ \A i \in 1..Len(toPeer) : toPeer[i].re \in {0} \cup 1..Len(sent)
  /\ last.re \in {0} \cup 1..Len(sent)

MessagesInv == StreamInv /\ DraftInv /\ MeantInv /\ AnswersInv

\* Sequences grow and shrink.
LEMMA TextGrows ==
  ASSUME NEW s, IsText(s), NEW e
  PROVE  /\ IsText(Append(s, e)) /\ Len(s) \in Nat /\ Len(Append(s, e)) = Len(s) + 1
         /\ \A i \in 1..Len(s) : Append(s, e)[i] = s[i]
         /\ Append(s, e)[Len(s) + 1] = e
<1> DEFINE D == {s[i] : i \in DOMAIN s} \cup {e}
           t == Append(s, e)
<1>1. s \in Seq({s[i] : i \in DOMAIN s}) /\ {s[i] : i \in DOMAIN s} \subseteq D /\ e \in D
  BY DEF IsText
<1>2. s \in Seq(D)
  BY <1>1, SeqWidens
<1> HIDE DEF D
<1>3. /\ t \in Seq(D) /\ Len(s) \in Nat /\ Len(t) = Len(s) + 1
      /\ \A i \in 1..Len(s) : t[i] = s[i]
      /\ t[Len(s) + 1] = e
  BY <1>1, <1>2
<1>4. IsText(t)
  BY <1>3, ReverseIn
<1> QED BY <1>3, <1>4

LEMMA TextsJoin ==
  ASSUME NEW s, IsText(s), NEW r, IsText(r)
  PROVE  /\ IsText(s \o r) /\ Len(s) \in Nat /\ Len(r) \in Nat
         /\ Len(s \o r) = Len(s) + Len(r)
         /\ \A i \in 1..Len(s) : (s \o r)[i] = s[i]
         /\ \A i \in 1..Len(s \o r) : i > Len(s) => i - Len(s) \in 1..Len(r) /\ (s \o r)[i] = r[i - Len(s)]
<1> DEFINE A == {s[i] : i \in DOMAIN s}
           B == {r[i] : i \in DOMAIN r}
           D == A \cup B
           t == s \o r
<1>1. s \in Seq(A) /\ r \in Seq(B)
  BY DEF IsText
<1>2. A \subseteq D /\ B \subseteq D
  OBVIOUS
<1> HIDE DEF A, B, D
<1>3. s \in Seq(D) /\ r \in Seq(D)
  BY <1>1, <1>2, SeqWidens
<1>4. /\ t \in Seq(D) /\ Len(s) \in Nat /\ Len(r) \in Nat /\ Len(t) = Len(s) + Len(r)
      /\ \A i \in 1..Len(s) : t[i] = s[i]
      /\ \A i \in 1..Len(t) : i > Len(s) => i - Len(s) \in 1..Len(r) /\ t[i] = r[i - Len(s)]
  BY <1>3
<1>5. IsText(t)
  BY <1>4, ReverseIn
<1> QED BY <1>4, <1>5

LEMMA TailIs ==
  ASSUME NEW s, IsText(s), s # <<>>
  PROVE  /\ IsText(Tail(s)) /\ Len(s) \in Nat /\ Len(s) > 0 /\ Len(Tail(s)) = Len(s) - 1
         /\ Head(s) = s[1]
         /\ \A i \in 1..Len(Tail(s)) : i + 1 \in 1..Len(s) /\ Tail(s)[i] = s[i + 1]
<1> DEFINE D == {s[i] : i \in DOMAIN s}
<1>1. s \in Seq(D)
  BY DEF IsText
<1> HIDE DEF D
<1>2. /\ Tail(s) \in Seq(D) /\ Len(s) \in Nat /\ Len(s) > 0 /\ Len(Tail(s)) = Len(s) - 1
      /\ Head(s) = s[1]
      /\ \A i \in 1..Len(Tail(s)) : i + 1 \in 1..Len(s) /\ Tail(s)[i] = s[i + 1]
  BY <1>1
<1>3. IsText(Tail(s))
  BY <1>2, ReverseIn
<1> QED BY <1>2, <1>3

LEMMA MessagesStart == Init => MessagesInv
<1> SUFFICES ASSUME Init PROVE MessagesInv
  OBVIOUS
<1>1. /\ StreamInit /\ draft = NoDraft /\ meant = <<>> /\ toPeer = <<>> /\ last = NothingYet
      /\ sent = <<>>
  BY DEF Init, StreamInit
<1>2. StreamInv
  BY <1>1, StreamStarts
<1>3. IsText(<<>>) /\ Len(<<>>) = 0
  BY DEF IsText
<1>4. MeantInv
  BY <1>1, <1>3, BoundAssumption DEF MeantInv
<1>5. last.re = 0
  BY <1>1 DEF NothingYet
<1>6. AnswersInv
  BY <1>1, <1>3, <1>5 DEF AnswersInv
<1> QED BY <1>1, <1>2, <1>4, <1>6 DEF MessagesInv, DraftInv

\* A call of an accessor.
LEMMA CallKeeps ==
  ASSUME MessagesInv, NEW o, Call(o), IsDraft(DraftClass, o)
  PROVE  DraftInv' /\ UNCHANGED <<meant, streamVars, toPeer, last>>
<1>1. /\ draft # NoDraft /\ draft.calls < MaxSet
      /\ draft' = [draft EXCEPT !.obj = o, !.calls = @ + 1]
      /\ UNCHANGED <<meant, streamVars, toPeer, last>>
  BY DEF Call
<1>2. /\ draft = [class |-> draft.class, obj |-> draft.obj, calls |-> draft.calls]
      /\ draft.class \in Classes /\ draft.calls \in 0..MaxSet
  BY <1>1 DEF MessagesInv, DraftInv
<1>3. draft' = [class |-> draft.class, obj |-> o, calls |-> draft.calls + 1]
  BY <1>1, <1>2
<1>4. /\ draft'.class = draft.class /\ draft'.obj = o /\ draft'.calls = draft.calls + 1
      /\ draft' = [class |-> draft'.class, obj |-> draft'.obj, calls |-> draft'.calls]
  BY <1>3
<1>5. draft'.calls \in 0..MaxSet
  BY <1>1, <1>2, <1>4, BoundAssumption
<1>6. DraftClass' = DraftClass
  BY <1>4 DEF DraftClass
<1>7. DraftInv'
  BY <1>2, <1>4, <1>5, <1>6 DEF DraftInv
<1> QED BY <1>1, <1>7

\* Every draft is a message of its class after it, whatever is called.
LEMMA ComposeKeeps ==
  ASSUME MessagesInv, Compose
  PROVE  DraftInv' /\ UNCHANGED <<meant, streamVars, toPeer, last>>
<1> DEFINE m == DraftClass
<1>1. ASSUME NEW c \in Classes, Begin(c)
      PROVE  DraftInv' /\ UNCHANGED <<meant, streamVars, toPeer, last>>
  <2>1. /\ draft' = [class |-> c, obj |-> New(ClassOf[c]), calls |-> 0]
        /\ UNCHANGED <<meant, streamVars, toPeer, last>>
    BY <1>1 DEF Begin
  <2>2. /\ draft'.class = c /\ draft'.obj = New(ClassOf[c]) /\ draft'.calls = 0
        /\ draft' = [class |-> draft'.class, obj |-> draft'.obj, calls |-> draft'.calls]
    BY <2>1
  <2>3. IsDraft(DraftClass', draft'.obj)
    BY <2>2, NewIsDraft DEF DraftClass
  <2> QED BY <2>1, <2>2, <2>3, BoundAssumption DEF DraftInv
<1>2. ASSUME draft # NoDraft PROVE IsClass(m) /\ IsDraft(m, draft.obj)
  BY <1>2, ClassesAgree DEF MessagesInv, DraftInv, DraftClass
<1>3. ASSUME draft # NoDraft, NEW f \in Fields(m), SetField(f)
      PROVE  DraftInv' /\ UNCHANGED <<meant, streamVars, toPeer, last>>
  <2>1. PICK v \in ValuesOf(m, f) : Call(set(m, draft.obj, f, v))
    BY <1>3 DEF SetField
  <2>2. IsDraft(m, set(m, draft.obj, f, v))
    BY <1>2, <1>3, SetKeepsDraft
  <2> QED BY <2>1, <2>2, CallKeeps
<1>4. ASSUME draft # NoDraft, NEW f \in Fields(m), ClearField(f)
      PROVE  DraftInv' /\ UNCHANGED <<meant, streamVars, toPeer, last>>
  <2>1. Call(clear(m, draft.obj, f))
    BY <1>4 DEF ClearField
  <2>2. IsDraft(m, clear(m, draft.obj, f))
    BY <1>2, <1>4, ClearKeepsDraft
  <2> QED BY <2>1, <2>2, CallKeeps
<1>5. ASSUME draft # NoDraft, AddForeign
      PROVE  DraftInv' /\ UNCHANGED <<meant, streamVars, toPeer, last>>
  <2>1. Call([draft.obj EXCEPT !.unknown = <<Foreign>>])
    BY <1>5 DEF AddForeign
  <2>2. IsDraft(m, [draft.obj EXCEPT !.unknown = <<Foreign>>])
    BY <1>2, <1>5, ForeignKeepsDraft
  <2> QED BY <2>1, <2>2, CallKeeps
<1>6. ASSUME draft # NoDraft, Fill
      PROVE  DraftInv' /\ UNCHANGED <<meant, streamVars, toPeer, last>>
  <2> DEFINE o == [draft.obj EXCEPT !.bits = {m.bit[f] : f \in Fields(m)},
                                    !.val = [f \in Fields(m) |->
                                               CHOOSE v \in ValuesOf(m, f) : v # DefaultOf(m, f)]]
  <2>1. Call(o)
    BY <1>6, Zenon DEF Fill
  <2>2. IsDraft(m, o)
    BY <1>2, <1>6, FillKeepsDraft
  <2> HIDE DEF o
  <2> QED BY <2>1, <2>2, CallKeeps
<1> QED BY <1>1, <1>3, <1>4, <1>5, <1>6 DEF Compose

\* A frame that spells what it is meant to be.
LEMMA SendFrameKeeps ==
  ASSUME MessagesInv, NEW class, NEW obj, NEW cmd, NEW text, NEW len,
         SendFrame(class, obj, cmd, text, len),
         [cmd |-> cmd, text |-> text, len |-> len] \in Frames,
         Means([class |-> class, obj |-> obj], text), Asks([class |-> class, obj |-> obj], cmd)
  PROVE  Sends /\ MeantInv' /\ AnswersInv'
<1> DEFINE f == [cmd |-> cmd, text |-> text, len |-> len]
           s == [class |-> class, obj |-> obj]
<1>1. /\ Len(sent) < MaxMessages /\ meant' = Append(meant, s) /\ Transmit(f)
      /\ UNCHANGED <<readVars, deque_, toPeer, last>>
  BY DEF SendFrame
<1>2. sent' = Append(sent, f)
  BY <1>1 DEF Transmit
<1>3. f.text = text /\ f.cmd = cmd
  OBVIOUS
<1>4. f \in Frames /\ Means(s, text) /\ Asks(s, cmd)
  OBVIOUS
<1> HIDE DEF f, s
<1>5. /\ sent \in Seq(Frames) /\ IsText(meant) /\ Len(meant) = Len(sent)
      /\ \A i \in 1..Len(sent) : Means(meant[i], sent[i].text) /\ Asks(meant[i], sent[i].cmd)
  BY DEF MessagesInv, StreamInv, StreamTypeOK, MeantInv
<1>6. /\ sent' \in Seq(Frames) /\ Len(sent) \in Nat /\ Len(sent') = Len(sent) + 1
      /\ \A i \in 1..Len(sent) : sent'[i] = sent[i]
      /\ sent'[Len(sent) + 1] = f /\ DOMAIN sent' = 1..Len(sent')
  BY <1>2, <1>4, <1>5
<1>7. /\ IsText(meant') /\ Len(meant') = Len(meant) + 1
      /\ \A i \in 1..Len(meant) : meant'[i] = meant[i]
      /\ meant'[Len(meant) + 1] = s
  BY <1>1, <1>5, TextGrows
<1>8. Sends
  <2>1. Len(sent) + 1 \in DOMAIN sent' /\ sent'[Len(sent) + 1] \in Frames
        /\ Transmit(sent'[Len(sent) + 1])
    BY <1>1, <1>4, <1>6
  <2> QED BY <1>1, <2>1 DEF Sends
<1>9. \A i \in 1..Len(sent') : i \in 1..Len(sent) \/ i = Len(sent) + 1
  BY <1>6
<1>10. \A i \in 1..Len(sent') : Means(meant'[i], sent'[i].text) /\ Asks(meant'[i], sent'[i].cmd)
  BY <1>3, <1>4, <1>5, <1>6, <1>7, <1>9
<1>11. MeantInv'
  BY <1>1, <1>5, <1>6, <1>7, <1>10, BoundAssumption DEF MeantInv
<1>12. AnswersInv'
  <2>1. \A n \in {0} \cup 1..Len(sent) : n \in {0} \cup 1..Len(sent')
    BY <1>6
  <2> QED BY <1>1, <2>1 DEF MessagesInv, AnswersInv
<1> QED BY <1>8, <1>11, <1>12

LEMMA SendKeeps ==
  ASSUME MessagesInv, Send
  PROVE  Sends /\ MeantInv' /\ AnswersInv' /\ DraftInv'
<1> DEFINE c == draft.class
           m == DraftClass
           o == draft.obj
<1>1. draft # NoDraft /\ draft' = NoDraft
  BY DEF Send
<1>2. c \in Classes /\ m = ClassOf[c] /\ IsDraft(m, o)
  BY <1>1 DEF MessagesInv, DraftInv, DraftClass
<1>3. PICK t \in {Serialize(m, o), Reverse(Serialize(m, o))} : Encoded(100, c, o, t)
  BY DEF Send
<1>4. /\ t \in Seq(Cells) /\ HeadLen + Len(t) < 2 * IntMax
      /\ IsSpelling(m, o, FieldUnits(m, o), t)
  BY <1>2, DraftText
<1>5. [cmd |-> 100, text |-> t, len |-> encode_header(100, t).head.len] \in Frames
  BY <1>4, EncodedIsFrame
<1>6. SendFrame(c, o, 100, t, encode_header(100, t).head.len)
  BY <1>3 DEF Encoded
<1>7. [class |-> c, obj |-> o].class = c /\ [class |-> c, obj |-> o].obj = o
  OBVIOUS
<1>8. Means([class |-> c, obj |-> o], t) /\ Asks([class |-> c, obj |-> o], 100)
  BY <1>2, <1>4, <1>7 DEF Means, Asks, IsDraft
<1> HIDE DEF c, o, m
<1>9. Sends /\ MeantInv' /\ AnswersInv'
  BY <1>5, <1>6, <1>8, SendFrameKeeps
<1> QED BY <1>1, <1>9 DEF DraftInv

LEMMA AskKeeps ==
  ASSUME MessagesInv, Ask
  PROVE  Sends /\ MeantInv' /\ AnswersInv' /\ DraftInv'
<1> DEFINE m == ServiceRequest
           c == "ServiceRequest"
<1>1. PICK cmd \in {200, 7818, 8000}, o \in ServiceRequests : Encoded(cmd, c, o, Serialize(m, o))
  BY DEF Ask
<1> DEFINE t == Serialize(m, o)
<1>2. /\ t \in Seq(Cells) /\ HeadLen + Len(t) < 2 * IntMax
      /\ IsSpelling(m, o, FieldUnits(m, o), t)
  BY RequestText
<1>3. [cmd |-> cmd, text |-> t, len |-> encode_header(cmd, t).head.len] \in Frames
  BY <1>2, EncodedIsFrame
<1>4. SendFrame(c, o, cmd, t, encode_header(cmd, t).head.len)
  BY <1>1 DEF Encoded
<1>5. c \in Classes /\ ClassOf[c] = m
  BY DEF Classes, ClassOf
<1>6. IsObject(m, o)
  BY RequestsAre DEF IsRequest
<1>7. [class |-> c, obj |-> o].class = c /\ [class |-> c, obj |-> o].obj = o
  OBVIOUS
<1> HIDE DEF m, t
<1>8. Means([class |-> c, obj |-> o], t) /\ Asks([class |-> c, obj |-> o], cmd)
  BY <1>2, <1>5, <1>6, <1>7 DEF Means, Asks
<1>9. Sends /\ MeantInv' /\ AnswersInv'
  BY <1>3, <1>4, <1>8, SendFrameKeeps
<1>10. draft' = NoDraft
  BY DEF Ask
<1> QED BY <1>9, <1>10 DEF DraftInv

\* A frame of another kind: a few cells, meant to be no message.
LEMMA OtherKeeps ==
  ASSUME MessagesInv, NEW cmd \in {1, 100, 6666}, NEW text, NEW len,
         SendFrame(NoClass, NoObject, cmd, text, len),
         [cmd |-> cmd, text |-> text, len |-> len] \in Frames
  PROVE  Sends /\ MeantInv' /\ AnswersInv'
<1>1. [class |-> NoClass, obj |-> NoObject].class = NoClass
  OBVIOUS
<1>2. Means([class |-> NoClass, obj |-> NoObject], text) /\ Asks([class |-> NoClass, obj |-> NoObject], cmd)
  BY <1>1 DEF Means, Asks
<1> QED BY <1>2, SendFrameKeeps

LEMMA ShortKeeps ==
  ASSUME MessagesInv, NEW cmd \in {1, 6666}, NEW t \in Seq(Cells), Len(t) \in 0..1,
         Encoded(cmd, NoClass, NoObject, t)
  PROVE  Sends /\ MeantInv' /\ AnswersInv'
<1>1. HeadLen + Len(t) < 2 * IntMax
  <2> DEFINE a == Len(t)
  <2>1. HeadLen \in Nat /\ IntMax \in Nat /\ HeadLen < IntMax /\ a \in 0..1
    BY WidthAssumption
  <2> HIDE DEF a
  <2>2. HeadLen + a < 2 * IntMax
    BY <2>1
  <2> QED BY <2>2 DEF a
<1>2. [cmd |-> cmd, text |-> t, len |-> encode_header(cmd, t).head.len] \in Frames
  BY <1>1, EncodedIsFrame
<1>3. SendFrame(NoClass, NoObject, cmd, t, encode_header(cmd, t).head.len)
  BY DEF Encoded
<1> QED BY <1>2, <1>3, OtherKeeps

\* A text of one cell.
LEMMA TextCell ==
  ASSUME NEW n, Text(n)[1] \in Cells
  PROVE  Text(n) \in Seq(Cells) /\ Len(Text(n)) \in 0..1
<1> DEFINE u == Unit(0, 7, n, <<>>)
<1>1. Text(n) = <<u>>
  BY DEF Text
<1> HIDE DEF u
<1>2. u \in Cells
  BY <1>1
<1> QED BY <1>1, <1>2

LEMMA SendOtherKeeps ==
  ASSUME MessagesInv, SendOther
  PROVE  Sends /\ MeantInv' /\ AnswersInv' /\ DraftInv'
<1>1. \/ Encoded(1, NoClass, NoObject, <<>>)
      \/ Encoded(6666, NoClass, NoObject, JsonPush)
      \/ Encoded(6666, NoClass, NoObject, Contents)
  BY DEF SendOther
<1>2. Text(10)[1] \in Cells /\ Text(4)[1] \in Cells
  BY PeerCells DEF JsonPush, Contents
<1>3. CASE Encoded(1, NoClass, NoObject, <<>>)
  <2> DEFINE t == <<>>
  <2>1. t \in Seq(Cells) /\ Len(t) \in 0..1
    OBVIOUS
  <2>2. Encoded(1, NoClass, NoObject, t)
    BY <1>3
  <2> HIDE DEF t
  <2>3. Sends /\ MeantInv' /\ AnswersInv'
    BY <2>1, <2>2, ShortKeeps
  <2> QED BY <2>3 DEF SendOther, DraftInv
<1>4. CASE Encoded(6666, NoClass, NoObject, JsonPush)
  <2>1. JsonPush \in Seq(Cells) /\ Len(JsonPush) \in 0..1
    BY <1>2, TextCell DEF JsonPush
  <2> QED BY <1>4, <2>1, ShortKeeps DEF SendOther, DraftInv
<1>5. CASE Encoded(6666, NoClass, NoObject, Contents)
  <2>1. Contents \in Seq(Cells) /\ Len(Contents) \in 0..1
    BY <1>2, TextCell DEF Contents
  <2> QED BY <1>5, <2>1, ShortKeeps DEF SendOther, DraftInv
<1> QED BY <1>1, <1>3, <1>4, <1>5

LEMMA SendHeaderKeeps ==
  ASSUME MessagesInv, NEW len \in IntRange, SendHeader(len)
  PROVE  Sends /\ MeantInv' /\ AnswersInv' /\ DraftInv'
<1> DEFINE n == IF len > HeadLen THEN len - HeadLen ELSE 0
           t == [i \in 1..n |-> Contents[1]]
<1>1. SendFrame(NoClass, NoObject, 100, t, len) /\ draft' = NoDraft
  BY DEF SendHeader
<1>2. len \in Int /\ HeadLen \in Nat
  BY WidthAssumption DEF IntRange
<1>3. n \in Nat /\ (len >= HeadLen => n = len - HeadLen)
  BY <1>2
<1> HIDE DEF n
<1>4. t \in [1..n -> Cells]
  BY PeerCells
<1> HIDE DEF t
<1>5. t \in Seq(Cells) /\ Len(t) = n
  BY <1>3, <1>4, SeqDef
<1>6. [cmd |-> 100, text |-> t, len |-> len] \in Frames
  BY <1>3, <1>5 DEF Frames
<1>7. Sends /\ MeantInv' /\ AnswersInv'
  BY <1>1, <1>6, OtherKeeps
<1> QED BY <1>1, <1>7 DEF DraftInv

\* What a worker adds to the frames on their way to the peer.
LEMMA WorkAdds ==
  ASSUME MessagesInv, Work
  PROVE  LET n == Head(deque_).n
             cmd == Head(deque_).mf.head.cmd
             data == Data(Head(deque_).mf)
         IN  /\ n \in 1..Len(sent) /\ data = sent[n].text /\ cmd = sent[n].cmd
             /\ IsText(toPeer')
             /\ \A i \in 1..Len(toPeer') :
                  \/ i \in 1..Len(toPeer) /\ toPeer'[i] = toPeer[i]
                  \/ /\ cmd \in {200, 7818, 8000}
                     /\ \E text \in parser(cmd, data) : toPeer'[i] = Written(n, cmd + 1, text)
                  \/ \E text : toPeer'[i] = Written(n, 6667, text)
<1> DEFINE n == Head(deque_).n
           cmd == Head(deque_).mf.head.cmd
           data == Data(Head(deque_).mf)
<1>1. deque_ # <<>>
  BY DEF Work, TakeMessage
<1>2. deque_ \in Seq([n : 1..Len(sent), mf : Formats]) /\ QueuedInv /\ StreamTypeOK
  BY DEF MessagesInv, StreamInv, StreamTypeOK
<1>3. Head(deque_) = deque_[1] /\ 1 \in 1..Len(deque_)
  BY <1>1, <1>2
<1>4. Fits(deque_[1], sent[deque_[1].n])
  BY <1>2, <1>3 DEF QueuedInv
<1>5. n \in 1..Len(sent)
  BY <1>2, <1>3, QueueTyped
<1>6. data = sent[n].text /\ cmd = sent[n].cmd
  BY <1>3, <1>4 DEF Fits, Header
<1>7. \/ /\ cmd \in {200, 7818, 8000}
         /\ \E text \in parser(cmd, data) : toPeer' = Append(toPeer, Written(n, cmd + 1, text))
      \/ \E texts \in PushTexts(data) : toPeer' = toPeer \o Pushed(n, texts)
      \/ toPeer' = toPeer
  BY DEF Work
<1> HIDE DEF n, cmd, data
<1> DEFINE Added(i) ==
             \/ i \in 1..Len(toPeer) /\ toPeer'[i] = toPeer[i]
             \/ /\ cmd \in {200, 7818, 8000}
                /\ \E text \in parser(cmd, data) : toPeer'[i] = Written(n, cmd + 1, text)
             \/ \E text : toPeer'[i] = Written(n, 6667, text)
<1>8. IsText(toPeer)
  BY DEF MessagesInv, AnswersInv
<1>9. ASSUME cmd \in {200, 7818, 8000}, NEW text \in parser(cmd, data),
             toPeer' = Append(toPeer, Written(n, cmd + 1, text))
      PROVE  IsText(toPeer') /\ \A i \in 1..Len(toPeer') : Added(i)
  <2> DEFINE w == Written(n, cmd + 1, text)
  <2>1. /\ IsText(toPeer') /\ Len(toPeer) \in Nat /\ Len(toPeer') = Len(toPeer) + 1
        /\ \A i \in 1..Len(toPeer) : toPeer'[i] = toPeer[i]
        /\ toPeer'[Len(toPeer) + 1] = w
    BY <1>8, <1>9, TextGrows
  <2> HIDE DEF w
  <2>2. \A i \in 1..Len(toPeer') : i \in 1..Len(toPeer) \/ i = Len(toPeer) + 1
    BY <2>1
  <2> QED BY <1>9, <2>1, <2>2 DEF w
<1>10. ASSUME NEW texts \in PushTexts(data), toPeer' = toPeer \o Pushed(n, texts)
       PROVE  IsText(toPeer') /\ \A i \in 1..Len(toPeer') : Added(i)
  <2> DEFINE r == Pushed(n, texts)
  <2>1. \E k \in Nat : DOMAIN texts = 1..k
    <3>1. \/ texts = <<>>
          \/ \E a : texts = <<a>>
          \/ \E a, b : texts = <<a, b>>
      BY DEF PushTexts
    <3>2. DOMAIN <<>> = 1..0 /\ (\A a : DOMAIN <<a>> = 1..1) /\ \A a, b : DOMAIN <<a, b>> = 1..2
      OBVIOUS
    <3> QED BY <3>1, <3>2
  <2>2. PICK k \in Nat : DOMAIN texts = 1..k
    BY <2>1
  <2>3. r \in [1..k -> {r[i] : i \in DOMAIN r}] /\ DOMAIN r = 1..k
    BY <2>2 DEF Pushed
  <2>4. \A i \in 1..k : r[i] = Written(n, 6667, texts[i])
    BY <2>2 DEF Pushed
  <2> HIDE DEF r
  <2>5. IsText(r) /\ Len(r) = k
    BY <2>3, SeqDef DEF IsText
  <2>6. /\ IsText(toPeer') /\ Len(toPeer) \in Nat
        /\ \A i \in 1..Len(toPeer) : toPeer'[i] = toPeer[i]
        /\ \A i \in 1..Len(toPeer') : i > Len(toPeer) =>
             i - Len(toPeer) \in 1..Len(r) /\ toPeer'[i] = r[i - Len(toPeer)]
    <3>1. toPeer' = toPeer \o r
      BY <1>10 DEF r
    <3> QED BY <1>8, <2>5, <3>1, TextsJoin
  <2>7. \A i \in 1..Len(toPeer') : i \in 1..Len(toPeer) \/ i > Len(toPeer)
    BY <2>6
  <2>8. ASSUME NEW i \in 1..Len(toPeer') PROVE Added(i)
    <3>1. CASE i \in 1..Len(toPeer)
      BY <2>6, <3>1
    <3>2. CASE i > Len(toPeer)
      BY <2>4, <2>5, <2>6, <3>2
    <3> QED BY <2>7, <3>1, <3>2
  <2> QED BY <2>6, <2>8
<1>11. ASSUME toPeer' = toPeer
       PROVE  IsText(toPeer') /\ \A i \in 1..Len(toPeer') : Added(i)
  BY <1>8, <1>11
<1> HIDE DEF Added
<1>12. IsText(toPeer') /\ \A i \in 1..Len(toPeer') : Added(i)
  BY <1>7, <1>9, <1>10, <1>11
<1> QED BY <1>5, <1>6, <1>12 DEF n, cmd, data, Added

LEMMA WorkKeeps ==
  ASSUME MessagesInv, Work
  PROVE  TakeMessage /\ DraftInv' /\ MeantInv' /\ AnswersInv'
<1> DEFINE n == Head(deque_).n
<1>1. TakeMessage /\ UNCHANGED <<draft, meant, last, sent>>
  BY DEF Work, TakeMessage
<1>2. DraftInv' /\ MeantInv'
  BY <1>1 DEF MessagesInv, DraftInv, MeantInv, DraftClass
<1>3. /\ n \in 1..Len(sent) /\ IsText(toPeer')
      /\ \A i \in 1..Len(toPeer') :
           \/ i \in 1..Len(toPeer) /\ toPeer'[i] = toPeer[i]
           \/ \E cmd, text : toPeer'[i] = Written(n, cmd, text)
  BY WorkAdds
<1>4. \A cmd, text : Written(n, cmd, text).re = n
  BY DEF Written
<1> HIDE DEF n
<1>5. AnswersInv'
  BY <1>1, <1>3, <1>4 DEF MessagesInv, AnswersInv
<1> QED BY <1>1, <1>2, <1>5

LEMMA RegisteKeeps ==
  ASSUME MessagesInv, Registe
  PROVE  UNCHANGED streamVars /\ DraftInv' /\ MeantInv' /\ AnswersInv'
<1>1. UNCHANGED <<draft, meant, streamVars, last, sent>>
  BY DEF Registe, streamVars
<1>2. DraftInv' /\ MeantInv'
  BY <1>1 DEF MessagesInv, DraftInv, MeantInv, DraftClass
<1>3. PICK w : toPeer' = <<w>> /\ w.re = 0
  BY DEF Registe, Written
<1>4. Len(<<w>>) = 1 /\ <<w>>[1] = w /\ IsText(<<w>>)
  BY DEF IsText
<1>5. AnswersInv'
  BY <1>1, <1>3, <1>4 DEF MessagesInv, AnswersInv
<1> QED BY <1>1, <1>2, <1>5

LEMMA PeerReadsKeeps ==
  ASSUME MessagesInv, PeerReads
  PROVE  UNCHANGED streamVars /\ DraftInv' /\ MeantInv' /\ AnswersInv'
<1>1. /\ UNCHANGED <<draft, meant, streamVars, sent>> /\ toPeer # <<>> /\ toPeer' = Tail(toPeer)
      /\ last'.re = Head(toPeer).re
  BY DEF PeerReads, streamVars
<1>2. DraftInv' /\ MeantInv'
  BY <1>1 DEF MessagesInv, DraftInv, MeantInv, DraftClass
<1>3. /\ IsText(toPeer') /\ Len(toPeer) \in Nat /\ Len(toPeer) > 0 /\ Head(toPeer) = toPeer[1]
      /\ \A i \in 1..Len(toPeer') : i + 1 \in 1..Len(toPeer) /\ toPeer'[i] = toPeer[i + 1]
  BY <1>1, TailIs DEF MessagesInv, AnswersInv
<1>4. 1 \in 1..Len(toPeer)
  BY <1>3
<1>5. AnswersInv'
  BY <1>1, <1>3, <1>4 DEF MessagesInv, AnswersInv
<1> QED BY <1>1, <1>2, <1>5

LEMMA ReadStepKeeps ==
  ASSUME MessagesInv, ReadStep
  PROVE  (HandleHeader \/ HandleBody) /\ DraftInv' /\ MeantInv' /\ AnswersInv'
<1>1. (HandleHeader \/ HandleBody) /\ UNCHANGED <<draft, meant, toPeer, last, sent>>
  BY DEF ReadStep, HandleHeader, HandleBody
<1> QED BY <1>1 DEF MessagesInv, DraftInv, MeantInv, AnswersInv, DraftClass

\* Every step of the connection is a step of the stream of frames, and what
\* has been sent keeps spelling what was meant.
LEMMA MessagesKeep ==
  ASSUME MessagesInv, [Next]_vars
  PROVE  MessagesInv' /\ [StreamNext]_streamVars
<1>1. /\ [StreamNext]_streamVars
      /\ DraftInv' /\ MeantInv' /\ AnswersInv'
  <2>1. CASE Compose
    <3>1. DraftInv' /\ UNCHANGED <<meant, streamVars, toPeer, last, sent>>
      BY <2>1, ComposeKeeps DEF streamVars
    <3> QED BY <3>1 DEF MessagesInv, MeantInv, AnswersInv
  <2>2. CASE Send
    BY <2>2, SendKeeps DEF StreamNext
  <2>3. CASE Ask
    BY <2>3, AskKeeps DEF StreamNext
  <2>4. CASE SendOther
    BY <2>4, SendOtherKeeps DEF StreamNext
  <2>5. ASSUME NEW len \in IntRange, SendHeader(len)
        PROVE  [StreamNext]_streamVars /\ DraftInv' /\ MeantInv' /\ AnswersInv'
    BY <2>5, SendHeaderKeeps DEF StreamNext
  <2>6. CASE ReadStep
    BY <2>6, ReadStepKeeps DEF StreamNext
  <2>7. CASE Work
    BY <2>7, WorkKeeps DEF StreamNext
  <2>8. CASE Registe
    BY <2>8, RegisteKeeps
  <2>9. CASE PeerReads
    BY <2>9, PeerReadsKeeps
  <2>10. CASE UNCHANGED vars
    <3>1. UNCHANGED <<draft, meant, streamVars, toPeer, last, sent>>
      BY <2>10 DEF vars, streamVars
    <3> QED BY <3>1 DEF MessagesInv, DraftInv, MeantInv, AnswersInv, DraftClass
  <2> QED BY <2>1, <2>2, <2>3, <2>4, <2>5, <2>6, <2>7, <2>8, <2>9, <2>10 DEF Next
<1>2. StreamInv'
  BY <1>1, StreamKeeps DEF MessagesInv
<1> QED BY <1>1, <1>2 DEF MessagesInv

LEMMA MessagesInductive == Spec => []MessagesInv
<1>1. MessagesInv /\ [Next]_vars => MessagesInv'
  BY MessagesKeep
<1> QED BY <1>1, MessagesStart, PTL DEF Spec

\* The connection implements the stream of frames: whatever the peer puts
\* together and sends, in a class of its own or not, its frames are ones the
\* stream knows, and every other step reads or takes one or leaves the stream
\* alone.
THEOREM ConnectionStreams == Spec => StreamSpec
<1>1. Init => StreamInit
  BY DEF Init
<1>2. MessagesInv /\ [Next]_vars => [StreamNext]_streamVars
  BY MessagesKeep
<1> QED BY <1>1, <1>2, MessagesInductive, PTL DEF Spec, StreamSpec

\* What is read of these frames: no length makes the session read past body_
\* or close at a length it should accept, and a worker takes whole frames in
\* the order they were sent.
THEOREM ConnectionDelivers == Spec => [](LengthRefused /\ Delivered)
  BY ConnectionStreams, BadLengthsRefused, FramesDelivered, PTL

\* The state of both directions: an answer is for a frame that was sent, and
\* there is a message, or none, for every frame.
THEOREM MessagesTyped == Spec => []TypeOK
<1>1. MessagesInv => TypeOK
  <2> SUFFICES ASSUME MessagesInv PROVE TypeOK
    OBVIOUS
  <2>1. StreamTypeOK /\ Len(sent) <= MaxMessages /\ Len(meant) = Len(sent)
    BY DEF MessagesInv, StreamInv, MeantInv
  <2>2. DOMAIN sent = 1..Len(sent)
    BY <2>1 DEF StreamTypeOK
  <2>3. \A s : IsText(s) => DOMAIN s = 1..Len(s)
    BY DEF IsText
  <2>4. DOMAIN meant = 1..Len(meant) /\ DOMAIN toPeer = 1..Len(toPeer)
    BY <2>3 DEF MessagesInv, MeantInv, AnswersInv
  <2>5. \A i \in DOMAIN toPeer : toPeer[i].re \in {0} \cup DOMAIN sent
    BY <2>2, <2>4 DEF MessagesInv, AnswersInv
  <2>6. draft = NoDraft \/ (draft.class \in Classes /\ draft.calls \in 0..MaxSet)
    BY DEF MessagesInv, DraftInv
  <2> QED BY <2>1, <2>2, <2>4, <2>5, <2>6 DEF TypeOK
<1> QED BY <1>1, MessagesInductive, PTL

\* ParseFromString gives back every message of every class that the peer
\* sends, from the frame a worker takes, and refuses it exactly when a
\* required field is not set: for every limit of accessor calls and of frames,
\* and behind any frames that were read into the same message_format.
THEOREM MessagesRoundTrip == Spec => []RoundTrip
<1>1. MessagesInv => RoundTrip
  <2> SUFFICES ASSUME MessagesInv, NEW i \in DOMAIN deque_,
                      meant[deque_[i].n].class # NoClass
               PROVE  LET s == meant[deque_[i].n]
                          m == ClassOf[s.class]
                          r == ParseFromString(m, Data(deque_[i].mf))
                      IN  r.obj = s.obj /\ (r.ok <=> IsInitialized(m, s.obj))
    BY DEF RoundTrip
  <2> DEFINE n == deque_[i].n
             s == meant[n]
             m == ClassOf[s.class]
  <2>1. i \in 1..Len(deque_) /\ StreamTypeOK /\ QueuedInv
    BY DEF MessagesInv, StreamInv, StreamTypeOK
  <2>2. n \in 1..Len(sent)
    BY <2>1, QueueTyped
  <2>3. Data(deque_[i].mf) = sent[n].text
    BY <2>1 DEF QueuedInv, Fits
  <2>4. Means(s, sent[n].text)
    BY <2>2 DEF MessagesInv, MeantInv
  <2>5. /\ s.class \in Classes /\ IsObject(m, s.obj)
        /\ IsSpelling(m, s.obj, FieldUnits(m, s.obj), sent[n].text)
    BY <2>4 DEF Means
  <2>6. IsClass(m)
    BY <2>5, ClassesAgree
  <2> HIDE DEF n, s, m
  <2>7. /\ ParseFromString(m, sent[n].text).obj = s.obj
        /\ ParseFromString(m, sent[n].text).ok <=> IsInitialized(m, s.obj)
    BY <2>5, <2>6, ParsesBack
  <2> QED BY <2>3, <2>7 DEF n, s, m
<1> QED BY <1>1, MessagesInductive, PTL

\* Whatever accessors are called on a message, and in whatever order, ByteSize
\* is the size of what is written and CopyFrom gives the same message.
THEOREM DraftsWhole == Spec => []WholeObject
<1>1. MessagesInv => WholeObject
  <2> SUFFICES ASSUME MessagesInv, draft # NoDraft
               PROVE  /\ ByteSize(DraftClass, draft.obj) = SizeOf(Serialize(DraftClass, draft.obj))
                      /\ CopyFrom(DraftClass, draft.obj) = draft.obj
    BY DEF WholeObject
  <2>1. IsClass(DraftClass) /\ IsObject(DraftClass, draft.obj)
    BY ClassesAgree DEF MessagesInv, DraftInv, DraftClass, IsDraft
  <2> QED BY <2>1, SizeIsWritten, CopiesWhole
<1> QED BY <1>1, MessagesInductive, PTL

----------------------------------------------------------------------------
(* The answers.                                                             *)

\* A string of an object, set or not.
LEMMA StringIn ==
  ASSUME NEW m, PartsAgree(m), NEW o, IsLeaf(m, o), NEW f, ~IsMessage(m, f),
         FieldIs(m, f, "string") \/ FieldIs(m, f, "bytes")
  PROVE  f \in Fields(m) /\ o.val[f] = StrVal(o.val[f].str) /\ Len(o.val[f].str) \in Nat
<1>1. f \in Fields(m) /\ TypeOf(m, f) \in {"string", "bytes"}
  BY FieldTyped
<1>2. WireType(TypeOf(m, f)) = LENGTH_DELIMITED
  BY <1>1 DEF WireType
<1>3. ~has(m, o, f) => o.val[f] = IntVal(0)
  BY <1>1 DEF IsLeaf, HasShape, DefaultOf
<1>4. IsScalar(m, f, o.val[f])
  BY <1>1, <1>3, DefaultScalar DEF IsLeaf
<1> QED BY <1>1, <1>2, <1>4 DEF IsScalar

\* What the accessor of a message field gives is a message of its class.
LEMMA MessageIn ==
  ASSUME NEW o, IsObject(ServicePacket, o), NEW f, IsMessage(ServicePacket, f)
  PROVE  IsLeaf(ServicePacket.sub[f], o.val[f].obj)
<1> DEFINE n == ServicePacket.sub[f]
<1>1. f \in Fields(ServicePacket) /\ IsLeafClass(n)
  BY PacketIsClass
<1>2. CASE has(ServicePacket, o, f)
  BY <1>1, <1>2 DEF IsObject
<1>3. CASE ~has(ServicePacket, o, f)
  <2>1. o.val[f] = SubVal(NewLeaf(n))
    BY <1>1, <1>3 DEF IsObject, HasShape, DefaultOf
  <2>2. SubVal(NewLeaf(n)).obj = NewLeaf(n)
    BY DEF SubVal
  <2>3. IsLeaf(n, NewLeaf(n))
    BY <1>1, NewLeafIsLeaf
  <2> HIDE DEF n
  <2> QED BY <2>1, <2>2, <2>3 DEF n
<1> QED BY <1>2, <1>3

\* A message without messages in it is one of its class.
LEMMA LeafIsObject ==
  ASSUME NEW m, IsLeafClass(m), NEW o, IsLeaf(m, o)
  PROVE  IsObject(m, o)
  BY DEF IsLeafClass, IsLeaf, IsObject, IsMessage

\* The fields the responders use, in the classes of requests and of answers.
LEMMA ResponderFields ==
  \A t \in Types :
    /\ FieldIs(ServicePacket.sub[RequestField(t)], "cid", "string")
    /\ FieldIs(ServicePacket.sub[ResponseField(t)], "cid", "string")
<1>1. \A m \in {ReplyRequest, PostTopicRequest, PublicServiceRequest, GroupLBSNearRequest,
                GroupCityRequest, PythonCoreRequest, ReplyResponse, PostTopicResponse,
                PublicServiceResponse, GroupLBSNearResponse, GroupCityResponse, PythonCoreResponse} :
        1 \in 1..Len(m.fields) /\ m.fields[1] = "cid" /\ m.merge[1].type = "string"
  <2>1. /\ ReplyRequest.fields[1] = "cid" /\ ReplyRequest.merge[1].type = "string"
        /\ 1 \in 1..Len(ReplyRequest.fields)
    BY DEF ReplyRequest, ReplyRequest_Merge, ReplyRequest_Copy, Class, F, C
  <2>2. /\ PostTopicRequest.fields[1] = "cid" /\ PostTopicRequest.merge[1].type = "string"
        /\ 1 \in 1..Len(PostTopicRequest.fields)
    BY DEF PostTopicRequest, PostTopicRequest_Merge, PostTopicRequest_Copy, Class, F, C
  <2>3. /\ PublicServiceRequest.fields[1] = "cid" /\ PublicServiceRequest.merge[1].type = "string"
        /\ 1 \in 1..Len(PublicServiceRequest.fields)
    BY DEF PublicServiceRequest, PublicServiceRequest_Merge, PublicServiceRequest_Copy, Class, F, C
  <2>4. /\ GroupLBSNearRequest.fields[1] = "cid" /\ GroupLBSNearRequest.merge[1].type = "string"
        /\ 1 \in 1..Len(GroupLBSNearRequest.fields)
    BY DEF GroupLBSNearRequest, GroupLBSNearRequest_Merge, GroupLBSNearRequest_Copy, Class, F, C
  <2>5. /\ GroupCityRequest.fields[1] = "cid" /\ GroupCityRequest.merge[1].type = "string"
        /\ 1 \in 1..Len(GroupCityRequest.fields)
    BY DEF GroupCityRequest, GroupCityRequest_Merge, GroupCityRequest_Copy, Class, F, C
  <2>6. /\ PythonCoreRequest.fields[1] = "cid" /\ PythonCoreRequest.merge[1].type = "string"
        /\ 1 \in 1..Len(PythonCoreRequest.fields)
    BY DEF PythonCoreRequest, PythonCoreRequest_Merge, PythonCoreRequest_Copy, Class, F, C
  <2>7. /\ ReplyResponse.fields[1] = "cid" /\ ReplyResponse.merge[1].type = "string"
        /\ 1 \in 1..Len(ReplyResponse.fields)
    BY DEF ReplyResponse, ReplyResponse_Merge, ReplyResponse_Copy, Class, F, C
  <2>8. /\ PostTopicResponse.fields[1] = "cid" /\ PostTopicResponse.merge[1].type = "string"
        /\ 1 \in 1..Len(PostTopicResponse.fields)
    BY DEF PostTopicResponse, PostTopicResponse_Merge, PostTopicResponse_Copy, Class, F, C
  <2>9. /\ PublicServiceResponse.fields[1] = "cid" /\ PublicServiceResponse.merge[1].type = "string"
        /\ 1 \in 1..Len(PublicServiceResponse.fields)
    BY DEF PublicServiceResponse, PublicServiceResponse_Merge, PublicServiceResponse_Copy, Class, F, C
  <2>10. /\ GroupLBSNearResponse.fields[1] = "cid" /\ GroupLBSNearResponse.merge[1].type = "string"
         /\ 1 \in 1..Len(GroupLBSNearResponse.fields)
    BY DEF GroupLBSNearResponse, GroupLBSNearResponse_Merge, GroupLBSNearResponse_Copy, Class, F, C
  <2>11. /\ GroupCityResponse.fields[1] = "cid" /\ GroupCityResponse.merge[1].type = "string"
         /\ 1 \in 1..Len(GroupCityResponse.fields)
    BY DEF GroupCityResponse, GroupCityResponse_Merge, GroupCityResponse_Copy, Class, F, C
  <2>12. /\ PythonCoreResponse.fields[1] = "cid" /\ PythonCoreResponse.merge[1].type = "string"
         /\ 1 \in 1..Len(PythonCoreResponse.fields)
    BY DEF PythonCoreResponse, PythonCoreResponse_Merge, PythonCoreResponse_Copy, Class, F, C
  <2> QED BY <2>1, <2>2, <2>3, <2>4, <2>5, <2>6, <2>7, <2>8, <2>9, <2>10, <2>11, <2>12
<1>2. \A t \in Types :
        /\ ServicePacket.sub[RequestField(t)] \in
             {ReplyRequest, PostTopicRequest, PublicServiceRequest, GroupLBSNearRequest,
              GroupCityRequest, PythonCoreRequest}
        /\ ServicePacket.sub[ResponseField(t)] \in
             {ReplyResponse, PostTopicResponse, PublicServiceResponse, GroupLBSNearResponse,
              GroupCityResponse, PythonCoreResponse}
  BY DEF ServicePacket, Class, RequestField, ResponseField, Types
<1> QED BY <1>1, <1>2 DEF FieldIs

\* The other fields.
LEMMA ReplyFields ==
  \A t \in {21, 23} :
    LET q == ServicePacket.sub[RequestField(t)]
        r == ServicePacket.sub[ResponseField(t)]
    IN  FieldIs(q, "type", "string") /\ FieldIs(r, "type", "string") /\ FieldIs(r, "data", "bytes")
<1>1. /\ ReplyRequest.fields[2] = "type" /\ ReplyRequest.merge[2].type = "string"
      /\ 2 \in 1..Len(ReplyRequest.fields)
  BY DEF ReplyRequest, ReplyRequest_Merge, ReplyRequest_Copy, Class, F, C
<1>2. /\ PostTopicRequest.fields[2] = "type" /\ PostTopicRequest.merge[2].type = "string"
      /\ 2 \in 1..Len(PostTopicRequest.fields)
  BY DEF PostTopicRequest, PostTopicRequest_Merge, PostTopicRequest_Copy, Class, F, C
<1>3. /\ ReplyResponse.fields[2] = "type" /\ ReplyResponse.merge[2].type = "string"
      /\ ReplyResponse.fields[3] = "data" /\ ReplyResponse.merge[3].type = "bytes"
      /\ 2 \in 1..Len(ReplyResponse.fields) /\ 3 \in 1..Len(ReplyResponse.fields)
  BY DEF ReplyResponse, ReplyResponse_Merge, ReplyResponse_Copy, Class, F, C
<1>4. /\ PostTopicResponse.fields[2] = "type" /\ PostTopicResponse.merge[2].type = "string"
      /\ PostTopicResponse.fields[3] = "data" /\ PostTopicResponse.merge[3].type = "bytes"
      /\ 2 \in 1..Len(PostTopicResponse.fields) /\ 3 \in 1..Len(PostTopicResponse.fields)
  BY DEF PostTopicResponse, PostTopicResponse_Merge, PostTopicResponse_Copy, Class, F, C
<1>5. /\ ServicePacket.sub[RequestField(21)] = ReplyRequest
      /\ ServicePacket.sub[RequestField(23)] = PostTopicRequest
      /\ ServicePacket.sub[ResponseField(21)] = ReplyResponse
      /\ ServicePacket.sub[ResponseField(23)] = PostTopicResponse
  BY DEF ServicePacket, Class, RequestField, ResponseField
<1>6. /\ FieldIs(ReplyRequest, "type", "string") /\ FieldIs(PostTopicRequest, "type", "string")
      /\ FieldIs(ReplyResponse, "type", "string") /\ FieldIs(ReplyResponse, "data", "bytes")
      /\ FieldIs(PostTopicResponse, "type", "string") /\ FieldIs(PostTopicResponse, "data", "bytes")
  BY <1>1, <1>2, <1>3, <1>4 DEF FieldIs
<1> QED BY <1>5, <1>6

LEMMA PublicFields ==
  LET q == ServicePacket.sub[RequestField(25)]
      r == ServicePacket.sub[ResponseField(25)]
  IN  /\ FieldIs(q, "service_id", "string") /\ FieldIs(r, "service_id", "string")
      /\ FieldIs(r, "data", "string") /\ FieldIs(r, "time", "int64")
<1>1. /\ PublicServiceRequest.fields[2] = "service_id" /\ PublicServiceRequest.merge[2].type = "string"
      /\ 2 \in 1..Len(PublicServiceRequest.fields)
  BY DEF PublicServiceRequest, PublicServiceRequest_Merge, PublicServiceRequest_Copy, Class, F, C
<1>2. /\ PublicServiceResponse.fields[2] = "service_id"
      /\ PublicServiceResponse.merge[2].type = "string"
      /\ PublicServiceResponse.fields[3] = "data" /\ PublicServiceResponse.merge[3].type = "string"
      /\ PublicServiceResponse.fields[4] = "time" /\ PublicServiceResponse.merge[4].type = "int64"
      /\ \A i \in {2, 3, 4} : i \in 1..Len(PublicServiceResponse.fields)
  BY DEF PublicServiceResponse, PublicServiceResponse_Merge, PublicServiceResponse_Copy, Class, F, C
<1>3. /\ ServicePacket.sub[RequestField(25)] = PublicServiceRequest
      /\ ServicePacket.sub[ResponseField(25)] = PublicServiceResponse
  BY DEF ServicePacket, Class, RequestField, ResponseField
<1>4. /\ FieldIs(PublicServiceRequest, "service_id", "string")
      /\ FieldIs(PublicServiceResponse, "service_id", "string")
      /\ FieldIs(PublicServiceResponse, "data", "string")
      /\ FieldIs(PublicServiceResponse, "time", "int64")
  BY <1>1, <1>2 DEF FieldIs
<1> QED BY <1>3, <1>4

LEMMA GroupFields ==
  /\ \A t \in {27, 29} :
       LET r == ServicePacket.sub[ResponseField(t)]
       IN  FieldIs(r, "status", "int32") /\ FieldIs(r, "data", "string")
  /\ LET r == ServicePacket.sub[ResponseField(31)]
     IN  FieldIs(r, "status", "int32") /\ FieldIs(r, "json_response", "string")
<1>1. /\ GroupLBSNearResponse.fields[2] = "status" /\ GroupLBSNearResponse.merge[2].type = "int32"
      /\ GroupLBSNearResponse.fields[3] = "data" /\ GroupLBSNearResponse.merge[3].type = "string"
      /\ \A i \in {2, 3} : i \in 1..Len(GroupLBSNearResponse.fields)
  BY DEF GroupLBSNearResponse, GroupLBSNearResponse_Merge, GroupLBSNearResponse_Copy, Class, F, C
<1>2. /\ GroupCityResponse.fields[2] = "status" /\ GroupCityResponse.merge[2].type = "int32"
      /\ GroupCityResponse.fields[3] = "data" /\ GroupCityResponse.merge[3].type = "string"
      /\ \A i \in {2, 3} : i \in 1..Len(GroupCityResponse.fields)
  BY DEF GroupCityResponse, GroupCityResponse_Merge, GroupCityResponse_Copy, Class, F, C
<1>3. /\ PythonCoreResponse.fields[2] = "json_response" /\ PythonCoreResponse.merge[2].type = "string"
      /\ PythonCoreResponse.fields[3] = "status" /\ PythonCoreResponse.merge[3].type = "int32"
      /\ \A i \in {2, 3} : i \in 1..Len(PythonCoreResponse.fields)
  BY DEF PythonCoreResponse, PythonCoreResponse_Merge, PythonCoreResponse_Copy, Class, F, C
<1>4. /\ ServicePacket.sub[ResponseField(27)] = GroupLBSNearResponse
      /\ ServicePacket.sub[ResponseField(29)] = GroupCityResponse
      /\ ServicePacket.sub[ResponseField(31)] = PythonCoreResponse
  BY DEF ServicePacket, Class, ResponseField
<1>5. /\ FieldIs(GroupLBSNearResponse, "status", "int32") /\ FieldIs(GroupLBSNearResponse, "data", "string")
      /\ FieldIs(GroupCityResponse, "status", "int32") /\ FieldIs(GroupCityResponse, "data", "string")
      /\ FieldIs(PythonCoreResponse, "status", "int32")
      /\ FieldIs(PythonCoreResponse, "json_response", "string")
  BY <1>1, <1>2, <1>3 DEF FieldIs
<1> QED BY <1>4, <1>5

\* The packet a answers the packet p of type t: it has the following type and
\* a message of the answer's class, with the cid of the request in p.
AnswersPacket(p, t, a) ==
  /\ IsObject(ServicePacket, a) /\ has(ServicePacket, a, "type") /\ a.val["type"] = IntVal(t + 1)
  /\ has(ServicePacket, a, ResponseField(t))
  /\ a.val[ResponseField(t)].obj.val["cid"] = p.val[RequestField(t)].obj.val["cid"]

\* The class of the answers of type t.
ResponseClass(t) == ServicePacket.sub[ResponseField(t)]

\* What a responder makes of the fields of vals is an answer to the packet
\* whose cid it copied.
LEMMA RespondAnswers ==
  ASSUME NEW p, IsObject(ServicePacket, p), NEW t \in Types, NEW vals,
         "cid" \in DOMAIN vals, vals["cid"] = p.val[RequestField(t)].obj.val["cid"],
         DOMAIN vals \subseteq Fields(ResponseClass(t)),
         \A f \in DOMAIN vals \ {"cid"} : IsValue(ResponseClass(t), f, vals[f])
  PROVE  AnswersPacket(p, t, Respond(t, vals))
<1> DEFINE q == RequestField(t)
           f == ResponseField(t)
           m == ResponseClass(t)
           o == Made(m, vals)
           a == Respond(t, vals)
           c == p.val[q].obj.val["cid"]
<1>1. /\ IsMessage(ServicePacket, q) /\ IsMessage(ServicePacket, f)
      /\ IsLeafClass(ServicePacket.sub[q]) /\ IsLeafClass(m)
  BY PacketKnows, PacketIsClass DEF ResponseClass
<1>2. FieldIs(ServicePacket.sub[q], "cid", "string") /\ FieldIs(m, "cid", "string")
  BY ResponderFields DEF ResponseClass
<1>3. c = StrVal(c.str) /\ Len(c.str) \in Nat
  <2>1. IsLeaf(ServicePacket.sub[q], p.val[q].obj)
    BY <1>1, MessageIn
  <2>2. PartsAgree(ServicePacket.sub[q]) /\ ~IsMessage(ServicePacket.sub[q], "cid")
    BY <1>1 DEF IsLeafClass, IsMessage
  <2> QED BY <1>2, <2>1, <2>2, StringIn
<1>4. PartsAgree(m) /\ \A g : ~IsMessage(m, g)
  BY <1>1 DEF IsLeafClass, IsMessage
<1>5. IsValue(m, "cid", StrVal(c.str))
  BY <1>2, <1>3, <1>4, StringFits
<1>6. \A g \in DOMAIN vals : IsValue(m, g, vals[g])
  BY <1>3, <1>5
<1>7. IsObject(m, o) /\ \A g \in DOMAIN vals : o.val[g] = vals[g]
  BY <1>4, <1>6, MadeIsObject
<1>8. IsLeaf(m, o)
  BY <1>4, <1>7 DEF IsObject, IsLeaf
<1>9. a = set(ServicePacket, TypedPacket(t + 1), f, SubVal(o))
  BY DEF Respond, ResponseClass
<1> HIDE DEF o, c, f, q
<1>10. LET r == set(ServicePacket, TypedPacket(t + 1), f, SubVal(o))
       IN  /\ IsObject(ServicePacket, r)
           /\ r.val["type"] = IntVal(t + 1) /\ has(ServicePacket, r, "type")
           /\ r.val[f].obj = o /\ has(ServicePacket, r, f)
  <2>1. IsLeaf(ServicePacket.sub[f], o)
    BY <1>8 DEF ResponseClass, f
  <2> QED BY <1>1, <2>1, PacketWith
<1> HIDE DEF a, m
<1>11. o.val["cid"] = c
  BY <1>7 DEF c, q
<1>12. /\ IsObject(ServicePacket, a) /\ a.val["type"] = IntVal(t + 1) /\ has(ServicePacket, a, "type")
       /\ a.val[f].obj = o /\ has(ServicePacket, a, f)
  BY <1>9, <1>10
<1> QED BY <1>11, <1>12 DEF AnswersPacket, a, f, q, c

\* A packet is complete when it has a type.
LEMMA PacketComplete ==
  \A o : IsInitialized(ServicePacket, o) <=> has(ServicePacket, o, "type")
<1>1. ServicePacket.mask = {1} /\ ServicePacket.bit["type"] = 1
  BY DEF ServicePacket, ServicePacket_Copy, ServicePacket_Has, Class, C
<1> QED BY <1>1 DEF IsInitialized, has

\* The text of an object is empty exactly when nothing is set and nothing
\* unknown.
LEMMA EmptyText ==
  ASSUME NEW m, PartsAgree(m), NEW o, IsObject(m, o), o.unknown = <<>>
  PROVE  Serialize(m, o) = <<>> <=> \A f \in Fields(m) : ~has(m, o, f)
<1> DEFINE t == Serialize(m, o)
<1>1. IsSpelling(m, o, FieldUnits(m, o), t) /\ IsText(t) /\ Len(t) \in Nat
  BY SerializedIs
<1> HIDE DEF t
<1>2. PICK w, k : Spells(m, o, t, w, k)
  BY <1>1 DEF IsSpelling
<1>3. ASSUME t = <<>>, NEW f \in Fields(m), has(m, o, f) PROVE FALSE
  <2>1. PICK i \in 1..Len(m.fields) : m.fields[i] = f
    BY DEF PartsAgree
  <2>2. \E n \in 1..Len(t) : w[n] = i
    BY <1>2, <1>3, <2>1 DEF Spells
  <2>3. Len(t) = 0
    BY <1>3
  <2> QED BY <2>2, <2>3
<1>4. ASSUME \A f \in Fields(m) : ~has(m, o, f) PROVE t = <<>>
  <2>1. ASSUME NEW n \in 1..Len(t) PROVE FALSE
    <3>1. Len(o.unknown) = 0
      OBVIOUS
    <3>2. /\ w[n] \in 0..Len(m.fields)
          /\ w[n] # 0 => has(m, o, m.fields[w[n]])
          /\ w[n] = 0 => k[n - 1] \in 0..Len(o.unknown) - 1
      BY <1>2 DEF Spells
    <3>3. w[n] # 0 => m.fields[w[n]] \in Fields(m)
      BY <3>2 DEF PartsAgree
    <3>4. 0..Len(o.unknown) - 1 = {}
      BY <3>1
    <3> QED BY <1>4, <3>2, <3>3, <3>4
  <2>2. Len(t) = 0
    BY <1>1, <2>1
  <2> QED BY <1>1, <2>2 DEF IsText
<1> QED BY <1>3, <1>4 DEF t

\* An answer is parsed by the peer, and has a text.
LEMMA AnswerParses ==
  ASSUME NEW p, NEW t, NEW a, AnswersPacket(p, t, a)
  PROVE  LET x == ParseFromString(ServicePacket, Serialize(ServicePacket, a))
         IN  x.ok /\ x.obj = a /\ Len(Serialize(ServicePacket, a)) \in Nat
<1> DEFINE s == Serialize(ServicePacket, a)
<1>1. IsObject(ServicePacket, a) /\ IsInitialized(ServicePacket, a)
  BY PacketComplete DEF AnswersPacket
<1>2. IsSpelling(ServicePacket, a, FieldUnits(ServicePacket, a), s) /\ Len(s) \in Nat
  BY <1>1, PacketIsClass, SerializedIs
<1> HIDE DEF s
<1>3. /\ ParseFromString(ServicePacket, s).obj = a
      /\ ParseFromString(ServicePacket, s).ok <=> IsInitialized(ServicePacket, a)
  BY <1>1, <1>2, PacketIsClass, ParsesBack
<1> QED BY <1>1, <1>2, <1>3 DEF s

\* Text that is no message is refused.
LEMMA ContentsRefused == ParseFromString(ServicePacket, Contents).ok = FALSE
<1> DEFINE m == ServicePacket
           u == Contents[1]
           T == Turns(m, New(m), Contents)
           s == Started(New(m))
<1>1. Len(Contents) = 1 /\ u.wt = 7 /\ u.num = 0
  <2>1. Len(Contents) = 1 /\ u.wt = 7
    BY TextLen DEF Contents
  <2>2. \A n : Text(n)[1].num = 0
    <3> TAKE n
    <3> DEFINE v == Unit(0, 7, n, <<>>)
    <3>1. v.num = 0 /\ Text(n) = <<v>>
      BY DEF Unit, Text
    <3> HIDE DEF v
    <3> QED BY <3>1
  <2> QED BY <2>1, <2>2 DEF Contents
<1>2. /\ T[0] = s
      /\ \A n \in 1..Len(Contents) :
           T[n] = MergeUnit(m, T[n - 1], Contents[n], InnerMerge(m, T[n - 1], Contents[n]))
  BY <1>1, TurnsAre
<1>3. T[1] = MergeUnit(m, s, u, InnerMerge(m, s, u))
  <2>1. 1 \in 1..Len(Contents) /\ 1 - 1 = 0
    BY <1>1
  <2> QED BY <1>2, <2>1
<1>4. s.at = 0 /\ s.ok = TRUE
  BY DEF Started
<1>5. CaseFor(m, s.at, u) = 0
  <2>1. {i \in DOMAIN m.merge : m.merge[i].num = u.num /\ WireType(m.merge[i].type) = u.wt} = {}
    <3>1. ASSUME NEW i \in DOMAIN m.merge PROVE m.merge[i].num # 0
      <4> DEFINE k == m.merge[i].num
      <4>1. PartsAgree(m)
        BY PacketIsClass
      <4> HIDE DEF m
      <4>2. k \in 1..15
        BY <4>1 DEF PartsAgree
      <4> HIDE DEF k
      <4>3. k # 0
        BY <4>2
      <4> QED BY <4>3 DEF k
    <3> HIDE DEF u
    <3> QED BY <1>1, <3>1
  <2> HIDE DEF s, u
  <2> QED BY <1>4, <2>1 DEF CaseFor
<1> HIDE DEF s, u
<1>6. ~(u.wt \in {VARINT, FIXED64, LENGTH_DELIMITED, FIXED32})
  BY <1>1 DEF VARINT, FIXED64, LENGTH_DELIMITED, FIXED32
<1> HIDE DEF T
<1> DEFINE okay == u.wt \in {VARINT, FIXED64, LENGTH_DELIMITED, FIXED32}
           obj == s.obj
           y == [obj EXCEPT !.unknown = Append(obj.unknown, u)]
<1>7. T[1] = [s EXCEPT !.at = 0, !.ok = okay, !.obj.unknown = Append(@, u)]
  BY <1>3, <1>4, <1>5, Zenon DEF MergeUnit
<1>8. T[1].ok = FALSE
  <2>1. s = [obj |-> obj, ok |-> TRUE, at |-> 0]
    BY DEF s, Started
  <2>2. T[1] = [s EXCEPT !.at = 0, !.ok = okay, !.obj = y]
    BY <1>7
  <2>3. okay = FALSE
    BY <1>6
  <2> HIDE DEF okay, obj, y
  <2>4. Excepts(s, TRUE, y, okay, 0)
    BY <2>1, ExceptsAre, Zenon
  <2>5. T[1] = [obj |-> y, ok |-> okay, at |-> 0]
    BY <2>2, <2>4, Zenon DEF Excepts
  <2>6. \A x : [obj |-> y, ok |-> x, at |-> 0].ok = x
    BY Zenon
  <2>7. T[1].ok = okay
    BY <2>5, <2>6, Zenon
  <2> QED BY <2>3, <2>7, Zenon
<1>9. Merge(m, New(m), Contents) = T[1]
  BY <1>1 DEF Merge, T
<1> QED BY <1>8, <1>9 DEF ParseFromString

\* The responders answer the packet p, of the type t they are for.
LEMMA ReplyAnswers ==
  ASSUME NEW p, IsObject(ServicePacket, p), NEW t \in {21, 23}, p.val["type"].int = t,
         NEW a \in do_reply_request(p, t)
  PROVE  AnswersPacket(p, t, a)
<1> DEFINE q == RequestField(t)
           n == ServicePacket.sub[q]
           m == ResponseClass(t)
           x == p.val[q].obj
<1>1. /\ t \in Types /\ IsMessage(ServicePacket, q) /\ IsMessage(ServicePacket, ResponseField(t))
      /\ IsLeafClass(n) /\ IsLeafClass(m)
  BY PacketKnows, PacketIsClass DEF ResponseClass, Types
<1>2. /\ FieldIs(n, "cid", "string") /\ FieldIs(m, "cid", "string")
      /\ FieldIs(n, "type", "string") /\ FieldIs(m, "type", "string") /\ FieldIs(m, "data", "bytes")
  BY <1>1, ResponderFields, ReplyFields DEF ResponseClass
<1>3. IsLeaf(n, x)
  BY <1>1, MessageIn
<1>4. RequestIn(p) = x
  BY DEF RequestIn, get
<1>5. CopyFrom(n, x) = x
  BY <1>1, <1>3, LeafIsObject, LeafIsClass, CopiesWhole
<1> DEFINE Vals(s) == [cid |-> get(x, "cid"), type |-> get(x, "type"), data |-> StrVal(s)]
<1>6. PICK s \in {HttpAnswer, <<>>} : a = Respond(t, Vals(s))
  BY <1>4, <1>5, Zenon DEF do_reply_request
<1>7. Len(s) \in Nat
  <2>1. Len(HttpAnswer) \in Nat /\ Len(<<>>) \in Nat
    BY TextLen DEF HttpAnswer
  <2> QED BY <2>1
<1>8. /\ PartsAgree(n) /\ PartsAgree(m) /\ \A f : ~IsMessage(n, f) /\ ~IsMessage(m, f)
  BY <1>1 DEF IsLeafClass, IsMessage
<1>9. x.val["type"] = StrVal(x.val["type"].str) /\ Len(x.val["type"].str) \in Nat
  <2>1. ~IsMessage(n, "type") /\ FieldIs(n, "type", "string") /\ PartsAgree(n) /\ IsLeaf(n, x)
    BY <1>2, <1>3, <1>8
  <2> HIDE DEF n, x
  <2> QED BY <2>1, StringIn
<1> DEFINE vals == Vals(s)
<1>10. /\ DOMAIN vals = {"cid", "type", "data"} /\ vals["cid"] = x.val["cid"]
       /\ vals["type"] = x.val["type"] /\ vals["data"] = StrVal(s) /\ a = Respond(t, vals)
  BY <1>6 DEF get
<1> HIDE DEF vals, m, n, x
<1>11. /\ "cid" \in Fields(m) /\ "type" \in Fields(m) /\ "data" \in Fields(m)
       /\ IsValue(m, "data", StrVal(s)) /\ IsValue(m, "type", StrVal(x.val["type"].str))
  BY <1>2, <1>7, <1>8, <1>9, StringFits, FieldTyped
<1>12. DOMAIN vals \subseteq Fields(m) /\ \A f \in DOMAIN vals \ {"cid"} : IsValue(m, f, vals[f])
  BY <1>9, <1>10, <1>11
<1>13. AnswersPacket(p, t, Respond(t, vals))
  BY <1>1, <1>10, <1>12, RespondAnswers DEF m, x
<1> QED BY <1>10, <1>13

LEMMA PublicAnswers ==
  ASSUME NEW p, IsObject(ServicePacket, p), p.val["type"].int = 25,
         NEW a \in do_public_service_request(p, 25)
  PROVE  AnswersPacket(p, 25, a)
<1> DEFINE q == RequestField(25)
           n == ServicePacket.sub[q]
           m == ResponseClass(25)
           x == p.val[q].obj
<1>1. /\ 25 \in Types /\ IsMessage(ServicePacket, q) /\ IsMessage(ServicePacket, ResponseField(25))
      /\ IsLeafClass(n) /\ IsLeafClass(m)
  BY PacketKnows, PacketIsClass DEF ResponseClass, Types
<1>2. /\ FieldIs(m, "cid", "string") /\ FieldIs(n, "service_id", "string")
      /\ FieldIs(m, "service_id", "string") /\ FieldIs(m, "data", "string")
      /\ FieldIs(m, "time", "int64")
  BY <1>1, ResponderFields, PublicFields DEF ResponseClass
<1>3. IsLeaf(n, x)
  BY <1>1, MessageIn
<1>4. RequestIn(p) = x
  BY DEF RequestIn, get
<1> DEFINE Vals(s) == [cid |-> get(x, "cid"), service_id |-> get(x, "service_id"),
                       time |-> IntVal(1), data |-> StrVal(s)]
<1>5. PICK s \in {HttpAnswer, <<>>} : a = Respond(25, Vals(s))
  BY <1>4, Zenon DEF do_public_service_request
<1>6. Len(s) \in Nat
  <2>1. Len(HttpAnswer) \in Nat /\ Len(<<>>) \in Nat
    BY TextLen DEF HttpAnswer
  <2> QED BY <2>1
<1>7. /\ PartsAgree(n) /\ PartsAgree(m) /\ \A f : ~IsMessage(n, f) /\ ~IsMessage(m, f)
  BY <1>1 DEF IsLeafClass, IsMessage
<1>8. x.val["service_id"] = StrVal(x.val["service_id"].str) /\ Len(x.val["service_id"].str) \in Nat
  BY <1>2, <1>3, <1>7, StringIn
<1> DEFINE vals == Vals(s)
<1>9. /\ DOMAIN vals = {"cid", "service_id", "time", "data"} /\ vals["cid"] = x.val["cid"]
      /\ vals["service_id"] = x.val["service_id"] /\ vals["time"] = IntVal(1)
      /\ vals["data"] = StrVal(s) /\ a = Respond(25, vals)
  BY <1>5 DEF get
<1> HIDE DEF vals, m, n, x
<1>10. /\ "cid" \in Fields(m) /\ "service_id" \in Fields(m) /\ "time" \in Fields(m)
       /\ "data" \in Fields(m) /\ IsValue(m, "data", StrVal(s)) /\ IsValue(m, "time", IntVal(1))
       /\ IsValue(m, "service_id", StrVal(x.val["service_id"].str))
  BY <1>2, <1>6, <1>7, <1>8, StringFits, NumberFits, FieldTyped
<1>11. DOMAIN vals \subseteq Fields(m) /\ \A f \in DOMAIN vals \ {"cid"} : IsValue(m, f, vals[f])
  BY <1>8, <1>9, <1>10
<1>12. AnswersPacket(p, 25, Respond(25, vals))
  BY <1>1, <1>9, <1>11, RespondAnswers DEF m, x
<1> QED BY <1>9, <1>12

LEMMA GroupAnswers ==
  ASSUME NEW p, IsObject(ServicePacket, p), NEW t \in {27, 29}, p.val["type"].int = t,
         NEW g \in parser_group_request(p, t)
  PROVE  AnswersPacket(p, t, g.packet)
<1> DEFINE q == RequestField(t)
           m == ResponseClass(t)
           x == p.val[q].obj
<1>1. /\ t \in Types /\ IsMessage(ServicePacket, ResponseField(t)) /\ IsLeafClass(m)
  BY PacketKnows, PacketIsClass DEF ResponseClass, Types
<1>2. FieldIs(m, "cid", "string") /\ FieldIs(m, "status", "int32") /\ FieldIs(m, "data", "string")
  BY <1>1, ResponderFields, GroupFields DEF ResponseClass
<1>3. RequestIn(p) = x
  BY DEF RequestIn, get
<1> DEFINE St(s) == IF s = MongoError THEN -1 ELSE 0
           Vals(s) == [cid |-> get(x, "cid"), status |-> IntVal(St(s)), data |-> StrVal(s)]
<1>4. PICK s \in {MongoAnswer, MongoError} : g = [status |-> St(s), packet |-> Respond(t, Vals(s))]
  BY <1>3, Zenon DEF parser_group_request
<1>5. Len(s) \in Nat
  BY TextLen DEF MongoAnswer, MongoError
<1>6. PartsAgree(m) /\ \A f : ~IsMessage(m, f)
  BY <1>1 DEF IsLeafClass, IsMessage
<1> DEFINE vals == Vals(s)
           st == St(s)
<1> HIDE DEF St
<1>7. /\ DOMAIN vals = {"cid", "status", "data"} /\ vals["cid"] = x.val["cid"]
      /\ vals["status"] = IntVal(st) /\ vals["data"] = StrVal(s)
  BY DEF get
<1> HIDE DEF vals, m, x, st
<1>8. g.packet = Respond(t, vals)
  BY <1>4 DEF vals
<1>9. /\ "cid" \in Fields(m) /\ "status" \in Fields(m) /\ "data" \in Fields(m)
      /\ IsValue(m, "data", StrVal(s)) /\ IsValue(m, "status", IntVal(st))
  BY <1>2, <1>5, <1>6, StringFits, NumberFits, FieldTyped
<1>10. DOMAIN vals \subseteq Fields(m) /\ \A f \in DOMAIN vals \ {"cid"} : IsValue(m, f, vals[f])
  BY <1>7, <1>9
<1>11. AnswersPacket(p, t, Respond(t, vals))
  BY <1>1, <1>7, <1>10, RespondAnswers DEF m, x
<1> QED BY <1>8, <1>11

LEMMA PythonAnswers ==
  ASSUME NEW p, IsObject(ServicePacket, p), p.val["type"].int = 31, NEW st, NEW s, Len(s) \in Nat
  PROVE  AnswersPacket(p, 31, Respond(31, [cid |-> get(RequestIn(p), "cid"), status |-> IntVal(st),
                                           json_response |-> StrVal(s)]))
<1> DEFINE q == RequestField(31)
           m == ResponseClass(31)
           x == p.val[q].obj
<1>1. /\ 31 \in Types /\ IsMessage(ServicePacket, ResponseField(31)) /\ IsLeafClass(m)
  BY PacketKnows, PacketIsClass DEF ResponseClass, Types
<1>2. /\ FieldIs(m, "cid", "string") /\ FieldIs(m, "status", "int32")
      /\ FieldIs(m, "json_response", "string")
  BY <1>1, ResponderFields, GroupFields DEF ResponseClass
<1>3. RequestIn(p) = x
  BY DEF RequestIn, get
<1>4. PartsAgree(m) /\ \A f : ~IsMessage(m, f)
  BY <1>1 DEF IsLeafClass, IsMessage
<1> DEFINE vals == [cid |-> get(RequestIn(p), "cid"), status |-> IntVal(st), json_response |-> StrVal(s)]
<1>5. /\ DOMAIN vals = {"cid", "status", "json_response"} /\ vals["cid"] = x.val["cid"]
      /\ vals["status"] = IntVal(st) /\ vals["json_response"] = StrVal(s)
  BY <1>3 DEF get
<1> HIDE DEF vals, m, x
<1>6. /\ "cid" \in Fields(m) /\ "status" \in Fields(m) /\ "json_response" \in Fields(m)
      /\ IsValue(m, "json_response", StrVal(s)) /\ IsValue(m, "status", IntVal(st))
  BY <1>2, <1>4, StringFits, NumberFits, FieldTyped
<1>7. DOMAIN vals \subseteq Fields(m) /\ \A f \in DOMAIN vals \ {"cid"} : IsValue(m, f, vals[f])
  BY <1>5, <1>6
<1>8. AnswersPacket(p, 31, Respond(31, vals))
  BY <1>1, <1>5, <1>7, RespondAnswers DEF m, x
<1> QED BY <1>8 DEF vals

\* r is a result of the responder of a command for the payload data: where it
\* has a text, that is the answer to the packet in data.
Results(cmd, data, r) ==
  LET p == ParseFromString(ServicePacket, data)
      t == p.obj.val["type"].int
  IN  /\ Len(r.text) \in Nat
      /\ r.status # 0 => cmd = 7818 \/ t \in {27, 29}
      /\ r.text # <<>> => /\ p.ok
                          /\ \E a : AnswersPacket(p.obj, t, a) /\ r.text = Serialize(ServicePacket, a)

\* The packet in a payload of the peer.
LEMMA PayloadParsed ==
  ASSUME NEW s \in Payloads, ParseFromString(ServicePacket, s).ok
  PROVE  IsObject(ServicePacket, ParseFromString(ServicePacket, s).obj)
<1>1. s # Contents
  BY ContentsRefused
<1>2. PICK p \in Packets : s = Serialize(ServicePacket, p)
  BY <1>1, Zenon DEF Payloads
<1>3. IsObject(ServicePacket, p)
  BY PacketsAre
<1>4. IsSpelling(ServicePacket, p, FieldUnits(ServicePacket, p), s)
  BY <1>2, <1>3, PacketIsClass, SerializedIs
<1>5. ParseFromString(ServicePacket, s).obj = p
  BY <1>3, <1>4, PacketIsClass, ParsesBack
<1> QED BY <1>3, <1>5

LEMMA ResultIs ==
  ASSUME NEW st, NEW s
  PROVE  Result(st, s).status = st /\ Result(st, s).text = s
  BY DEF Result

\* A responder gives no text, or that of an answer.
LEMMA NoText ==
  ASSUME NEW cmd, NEW data, NEW st, st # 0 => cmd = 7818
  PROVE  Results(cmd, data, Result(st, <<>>))
<1> DEFINE e == <<>>
<1>1. Len(e) \in Nat /\ e = <<>>
  OBVIOUS
<1> HIDE DEF e
<1>2. Result(st, e).status = st /\ Result(st, e).text = e
  BY ResultIs
<1> DEFINE r == Result(st, e)
<1> HIDE DEF r
<1>3. Results(cmd, data, r)
  BY <1>1, <1>2 DEF Results, r
<1> QED BY <1>1, <1>3 DEF r

LEMMA SomeText ==
  ASSUME NEW cmd, NEW data, NEW a, NEW st,
         ParseFromString(ServicePacket, data).ok,
         AnswersPacket(ParseFromString(ServicePacket, data).obj,
                       ParseFromString(ServicePacket, data).obj.val["type"].int, a),
         st # 0 => ParseFromString(ServicePacket, data).obj.val["type"].int \in {27, 29}
  PROVE  Results(cmd, data, Result(st, Serialize(ServicePacket, a)))
<1> DEFINE s == Serialize(ServicePacket, a)
           r == Result(st, s)
<1>1. Len(s) \in Nat
  BY AnswerParses
<1>2. r.status = st /\ r.text = s
  BY ResultIs
<1> HIDE DEF r
<1>3. Results(cmd, data, r)
  BY <1>1, <1>2 DEF Results
<1> QED BY <1>3 DEF r

LEMMA PackageResults ==
  ASSUME NEW data \in Payloads, NEW r \in service_package_responser(data)
  PROVE  Results(200, data, r)
<1> DEFINE p == ParseFromString(ServicePacket, data)
           t == p.obj.val["type"].int
<1>1. \/ r = Result(0, <<>>)
      \/ /\ p.ok /\ t \in {21, 23}
         /\ \E a \in do_reply_request(p.obj, t) : r = Result(0, Serialize(ServicePacket, a))
      \/ /\ p.ok /\ t = 25
         /\ \E a \in do_public_service_request(p.obj, t) : r = Result(0, Serialize(ServicePacket, a))
      \/ /\ p.ok /\ t \in {27, 29}
         /\ \E g \in parser_group_request(p.obj, t) :
              r = Result(g.status, Serialize(ServicePacket, g.packet))
      \/ r = Result(0, Serialize(ServicePacket, New(ServicePacket)))
  BY Zenon DEF service_package_responser, get
<1>2. p.ok => IsObject(ServicePacket, p.obj)
  BY PayloadParsed
<1>3. Serialize(ServicePacket, New(ServicePacket)) = <<>>
  <2> DEFINE o == New(ServicePacket)
  <2>1. IsObject(ServicePacket, o) /\ o.unknown = <<>>
    BY NewIsObject
  <2>2. \A f : ~has(ServicePacket, o, f)
    BY DEF New, has
  <2> HIDE DEF o
  <2>3. Serialize(ServicePacket, o) = <<>>
    BY <2>1, <2>2, PacketIsClass, EmptyText
  <2> QED BY <2>3 DEF o
<1>4. CASE r = Result(0, <<>>)
  BY <1>4, NoText
<1>5. ASSUME p.ok, t \in {21, 23}, NEW a \in do_reply_request(p.obj, t),
             r = Result(0, Serialize(ServicePacket, a))
      PROVE  Results(200, data, r)
  <2>1. AnswersPacket(p.obj, t, a)
    BY <1>2, <1>5, ReplyAnswers
  <2> QED BY <1>5, <2>1, SomeText
<1>6. ASSUME p.ok, t = 25, NEW a \in do_public_service_request(p.obj, t),
             r = Result(0, Serialize(ServicePacket, a))
      PROVE  Results(200, data, r)
  <2>1. AnswersPacket(p.obj, t, a)
    BY <1>2, <1>6, PublicAnswers
  <2> QED BY <1>6, <2>1, SomeText
<1>7. ASSUME p.ok, t \in {27, 29}, NEW g \in parser_group_request(p.obj, t),
             r = Result(g.status, Serialize(ServicePacket, g.packet))
      PROVE  Results(200, data, r)
  <2>1. AnswersPacket(p.obj, t, g.packet)
    BY <1>2, <1>7, GroupAnswers
  <2> QED BY <1>7, <2>1, SomeText
<1> HIDE DEF p, t
<1> QED BY <1>1, <1>3, <1>4, <1>5, <1>6, <1>7

LEMMA PythonResults ==
  ASSUME NEW data \in Payloads, NEW r \in python_func_service_responser(data)
  PROVE  Results(8000, data, r)
<1> DEFINE p == ParseFromString(ServicePacket, data)
           t == p.obj.val["type"].int
           Answer(st, s) == Respond(31, [cid |-> get(RequestIn(p.obj), "cid"), status |-> IntVal(st),
                                         json_response |-> StrVal(s)])
<1>1. \/ r = Result(0, <<>>)
      \/ /\ p.ok /\ t = 31
         /\ \/ r = Result(0, Serialize(ServicePacket, Answer(1, PythonAnswer)))
            \/ r = Result(0, Serialize(ServicePacket, Answer(0, PythonError)))
  BY Zenon DEF python_func_service_responser, get
<1>2. p.ok => IsObject(ServicePacket, p.obj)
  BY PayloadParsed
<1>3. Len(PythonAnswer) \in Nat /\ Len(PythonError) \in Nat
  BY TextLen DEF PythonAnswer, PythonError
<1>4. CASE r = Result(0, <<>>)
  BY <1>4, NoText
<1>5. ASSUME p.ok, t = 31
      PROVE  AnswersPacket(p.obj, t, Answer(1, PythonAnswer)) /\ AnswersPacket(p.obj, t, Answer(0, PythonError))
  BY <1>2, <1>3, <1>5, PythonAnswers
<1> HIDE DEF Answer
<1>6. ASSUME p.ok, t = 31
      PROVE  /\ Results(8000, data, Result(0, Serialize(ServicePacket, Answer(1, PythonAnswer))))
             /\ Results(8000, data, Result(0, Serialize(ServicePacket, Answer(0, PythonError))))
  BY <1>5, <1>6, SomeText
<1> HIDE DEF p, t
<1> QED BY <1>1, <1>4, <1>6

LEMMA TaskResults ==
  ASSUME NEW cmd \in {200, 7818, 8000}, NEW data \in Payloads, NEW r \in Task(cmd, data)
  PROVE  Results(cmd, data, r)
<1>1. CASE cmd = 200
  BY <1>1, PackageResults DEF Task
<1>2. CASE cmd = 7818
  <2>1. r = Result(-1, <<>>)
    BY <1>2 DEF Task, group_responser
  <2> QED BY <1>2, <2>1, NoText
<1>3. CASE cmd = 8000
  BY <1>3, PythonResults DEF Task
<1> QED BY <1>1, <1>2, <1>3

\* The fields of ServiceResponse, and when it and a request are complete.
LEMMA ResponseKnows ==
  /\ FieldIs(ServiceResponse, "sessid", "string") /\ FieldIs(ServiceResponse, "sn", "string")
  /\ FieldIs(ServiceResponse, "service_type", "int32") /\ FieldIs(ServiceResponse, "status", "int32")
  /\ FieldIs(ServiceResponse, "payload", "bytes")
  /\ \A f : ~IsMessage(ServiceResponse, f)
  /\ PartsAgree(ServiceResponse) /\ IsClass(ServiceResponse)
<1>1. /\ 1 \in 1..Len(ServiceResponse.fields) /\ ServiceResponse.fields[1] = "sessid"
      /\ 2 \in 1..Len(ServiceResponse.fields) /\ ServiceResponse.fields[2] = "service_type"
      /\ 3 \in 1..Len(ServiceResponse.fields) /\ ServiceResponse.fields[3] = "sn"
      /\ 4 \in 1..Len(ServiceResponse.fields) /\ ServiceResponse.fields[4] = "status"
      /\ 5 \in 1..Len(ServiceResponse.fields) /\ ServiceResponse.fields[5] = "payload"
      /\ ServiceResponse.merge[1].type = "string" /\ ServiceResponse.merge[2].type = "int32"
      /\ ServiceResponse.merge[3].type = "string" /\ ServiceResponse.merge[4].type = "int32"
      /\ ServiceResponse.merge[5].type = "bytes"
  BY DEF ServiceResponse, ServiceResponse_Merge, ServiceResponse_Copy, Class, F, C
<1>2. IsLeafClass(ServiceResponse)
  BY ServiceResponseAgrees
<1>3. \A f : ~IsMessage(ServiceResponse, f)
  BY <1>2 DEF IsLeafClass, IsMessage
<1>4. PartsAgree(ServiceResponse) /\ IsClass(ServiceResponse)
  BY <1>2, LeafIsClass DEF IsLeafClass
<1> QED BY <1>1, <1>3, <1>4, Zenon DEF FieldIs

LEMMA RequestComplete ==
  \A o : IsInitialized(ServiceRequest, o) <=>
           \A f \in {"sessid", "service_type", "sn"} : has(ServiceRequest, o, f)
<1>1. /\ ServiceRequest.mask = {1, 2, 4} /\ ServiceRequest.bit["sessid"] = 1
      /\ ServiceRequest.bit["service_type"] = 2 /\ ServiceRequest.bit["sn"] = 4
  BY DEF ServiceRequest, ServiceRequest_Copy, ServiceRequest_Has, Class, C
<1> QED BY <1>1 DEF IsInitialized, has

LEMMA ResponseComplete ==
  \A o : IsInitialized(ServiceResponse, o) <=>
           \A f \in {"sessid", "service_type", "sn", "status"} : has(ServiceResponse, o, f)
<1>1. /\ ServiceResponse.mask = {1, 2, 4, 8} /\ ServiceResponse.bit["sessid"] = 1
      /\ ServiceResponse.bit["service_type"] = 2 /\ ServiceResponse.bit["sn"] = 4
      /\ ServiceResponse.bit["status"] = 8
  BY DEF ServiceResponse, ServiceResponse_Copy, ServiceResponse_Has, Class, C
<1> QED BY <1>1 DEF IsInitialized, has

\* The text of a complete response around the text w, with what the request q
\* is known by.
Wraps(q, text, w) ==
  LET r == ParseFromString(ServiceResponse, text)
  IN  /\ text # <<>> /\ r.ok /\ r.obj.val["payload"] = StrVal(w)
      /\ \A f \in {"sn", "sessid", "service_type"} : r.obj.val[f] = q.val[f]

\* The response around a text is complete, says whose answer it is, and its
\* own text is no longer than its fields are many.
LEMMA WrapIs ==
  ASSUME NEW q, IsRequest(q), has(ServiceRequest, q, "sn"), NEW text, Len(text) \in Nat
  PROVE  LET s == Serialize(ServiceResponse, Wrap(q, text))
         IN  IsText(s) /\ Len(s) <= Len(ServiceResponse.serialize) /\ Wraps(q, s, text)
<1> DEFINE m == ServiceResponse
           vals == [sn |-> get(q, "sn"), sessid |-> get(q, "sessid"),
                    service_type |-> get(q, "service_type"), status |-> IntVal(0),
                    payload |-> StrVal(text)]
           o == Made(m, vals)
           s == Serialize(m, o)
           r == ParseFromString(m, s)
<1>1. Len(Sn) \in Nat /\ Len(Sessid) \in Nat
  BY TextLen DEF Sn, Sessid
<1>2. /\ q.val["sn"] = StrVal(Sn) /\ q.val["sessid"] = StrVal(Sessid)
      /\ q.val["service_type"] \in {IntVal(600), IntVal(7)}
  BY DEF IsRequest
<1>3. /\ {"sn", "sessid", "service_type", "status", "payload"} \subseteq Fields(m)
      /\ IsValue(m, "sn", StrVal(Sn)) /\ IsValue(m, "sessid", StrVal(Sessid))
      /\ IsValue(m, "service_type", IntVal(600)) /\ IsValue(m, "service_type", IntVal(7))
      /\ IsValue(m, "status", IntVal(0)) /\ IsValue(m, "payload", StrVal(text))
  <2> HIDE DEF m
  <2>1. /\ FieldIs(m, "sessid", "string") /\ FieldIs(m, "sn", "string")
        /\ FieldIs(m, "service_type", "int32") /\ FieldIs(m, "status", "int32")
        /\ FieldIs(m, "payload", "bytes") /\ PartsAgree(m) /\ \A f : ~IsMessage(m, f)
    BY ResponseKnows DEF m
  <2> QED BY <1>1, <2>1, StringFits, NumberFits
<1>4. /\ DOMAIN vals = {"sn", "sessid", "service_type", "status", "payload"}
      /\ vals["sn"] = q.val["sn"] /\ vals["sessid"] = q.val["sessid"]
      /\ vals["service_type"] = q.val["service_type"] /\ vals["status"] = IntVal(0)
      /\ vals["payload"] = StrVal(text)
  BY DEF get
<1>5. Wrap(q, text) = o /\ PartsAgree(m) /\ IsClass(m)
  BY ResponseKnows DEF Wrap
<1> HIDE DEF vals
<1>6. DOMAIN vals \subseteq Fields(m) /\ \A f \in DOMAIN vals : IsValue(m, f, vals[f])
  BY <1>2, <1>3, <1>4
<1>7. /\ IsObject(m, o) /\ o.unknown = <<>>
      /\ \A f \in DOMAIN vals : o.val[f] = vals[f]
      /\ \A f \in Fields(m) : has(m, o, f) <=> f \in DOMAIN vals
  BY <1>5, <1>6, MadeIsObject
<1> HIDE DEF o
<1>8. IsInitialized(m, o)
  BY <1>3, <1>4, <1>7, ResponseComplete
<1> DEFINE units == FieldUnits(m, o)
<1>9. s = Output(m, o, units) /\ IsSpelling(m, o, units, s) /\ IsText(s) /\ Len(s) \in Nat
  BY <1>5, <1>7, SerializedIs
<1>10. s # <<>>
  <2>1. has(m, o, "sn") /\ "sn" \in Fields(m)
    BY <1>3, <1>4, <1>7
  <2> HIDE DEF m, s
  <2> QED BY <1>5, <1>7, <2>1, EmptyText DEF s
<1> HIDE DEF m
<1>11. Len(s) <= Len(m.serialize)
  <2> DEFINE D == {units[i] : i \in 1..Len(m.fields)}
  <2>1. \A i \in 1..Len(m.fields) : units[i] \in D
    OBVIOUS
  <2>2. <<>> \in Seq(D) /\ Len(<<>>) = 0
    OBVIOUS
  <2> HIDE DEF D, units
  <2>3. Len(Output(m, o, units)) <= Len(m.serialize) + Len(o.unknown)
    BY <1>5, <1>7, <2>1, <2>2, OutputIn
  <2>4. Len(s) \in Nat /\ Len(m.serialize) \in Nat
    BY <1>5, <1>9 DEF PartsAgree
  <2> QED BY <1>7, <1>9, <2>2, <2>3, <2>4
<1> HIDE DEF s
<1>12. r.obj = o /\ (r.ok <=> IsInitialized(m, o))
  BY <1>5, <1>7, <1>9, ParsesBack
<1> HIDE DEF r, units
<1>13. /\ IsText(s) /\ s # <<>> /\ Len(s) <= Len(m.serialize)
       /\ r.ok /\ r.obj.val["payload"] = StrVal(text)
       /\ \A f \in {"sn", "sessid", "service_type"} : r.obj.val[f] = q.val[f]
  BY <1>4, <1>7, <1>8, <1>9, <1>10, <1>11, <1>12
<1>14. s = Serialize(ServiceResponse, Wrap(q, text)) /\ r = ParseFromString(ServiceResponse, s)
  <2>1. s = Serialize(ServiceResponse, Wrap(q, text))
    BY <1>5 DEF s, m
  <2> QED BY <2>1 DEF r, m
<1> HIDE DEF s
<1>15. Wraps(q, s, text)
  BY <1>13, <1>14 DEF Wraps
<1> QED BY <1>13, <1>14, <1>15 DEF m

\* An answer without a body, and one with.
LEMMA EchoesEmpty ==
  ASSUME NEW q, NEW asked,
         \/ ~Acceptable(q) \/ asked + 1 = 7819
         \/ ParseFromString(ServicePacket, q.val["payload"].str).obj.val["type"].int \in {27, 29}
  PROVE  Echoes(q, asked, asked + 1, <<>>)
  BY DEF Echoes, get

LEMMA EchoesFull ==
  ASSUME NEW q, Acceptable(q), NEW cmd, NEW r, Results(cmd, q.val["payload"].str, r),
         NEW text, Wraps(q, text, r.text)
  PROVE  Echoes(q, cmd, cmd + 1, text)
<1> DEFINE w == r.text
           x == ParseFromString(ServiceResponse, text)
           p == ParseFromString(ServicePacket, q.val["payload"].str)
           t == p.obj.val["type"].int
           y == ParseFromString(ServicePacket, w)
<1>1. x.obj.val["payload"].str = w
  BY DEF StrVal, Wraps
<1>2. ASSUME w # <<>> PROVE Follows(p, y)
  <2>1. PICK a : AnswersPacket(p.obj, t, a) /\ w = Serialize(ServicePacket, a)
    BY <1>2 DEF Results
  <2>2. p.ok
    BY <1>2 DEF Results
  <2>3. y.ok /\ y.obj = a
    BY <2>1, AnswerParses
  <2>4. \A n : IntVal(n).int = n
    BY DEF IntVal
  <2> HIDE DEF p, t, y
  <2>5. /\ y.obj.val["type"].int = t + 1 /\ has(ServicePacket, y.obj, ResponseField(t))
        /\ y.obj.val[ResponseField(t)].obj.val["cid"] = p.obj.val[RequestField(t)].obj.val["cid"]
    BY <2>1, <2>3, <2>4 DEF AnswersPacket
  <2> QED BY <2>2, <2>3, <2>5 DEF Follows, get, t
<1>3. /\ text # <<>> /\ x.ok
      /\ \A f \in {"sn", "sessid", "service_type"} : get(x.obj, f) = get(q, f)
  BY DEF Wraps, get
<1>4. get(x.obj, "payload").str # <<>> =>
        Follows(p, ParseFromString(ServicePacket, get(x.obj, "payload").str))
  BY <1>1, <1>2 DEF get
<1>5. p = ParseFromString(ServicePacket, get(q, "payload").str)
  BY DEF get
<1>6. x = ParseFromString(ServiceResponse, text)
  OBVIOUS
<1> HIDE DEF p, x
<1> QED BY <1>3, <1>4, <1>5, <1>6 DEF Echoes

\* What the parser makes of the text of a request is an answer to it.
LEMMA ParserEchoes ==
  ASSUME NEW q \in ServiceRequests, NEW cmd \in {200, 7818, 8000}, NEW data,
         IsSpelling(ServiceRequest, q, FieldUnits(ServiceRequest, q), data),
         NEW text \in parser(cmd, data)
  PROVE  Echoes(q, cmd, cmd + 1, text) /\ IsText(text) /\ Len(text) <= Len(ServiceResponse.serialize)
<1> DEFINE sr == ParseFromString(ServiceRequest, data)
           d == q.val["payload"].str
<1>1. IsRequest(q) /\ IsObject(ServiceRequest, q)
  BY RequestsAre DEF IsRequest
<1>2. sr.obj = q /\ (sr.ok <=> IsInitialized(ServiceRequest, q))
  BY <1>1, RequestKnows, ParsesBack
<1>3. IsText(<<>>) /\ Len(<<>>) = 0
  BY DEF IsText
<1>4. Len(ServiceResponse.serialize) \in Nat
  BY ResponseKnows DEF PartsAgree
<1>5. \/ ~Acceptable(q) /\ text = <<>>
      \/ Acceptable(q) /\ \E r \in Task(cmd, d) : text = AnswerFor(q, r)
  <2> DEFINE refused == ~sr.ok \/ get(sr.obj, "service_type").int # 600
                          \/ ~has(ServiceRequest, sr.obj, "payload")
  <2>1. refused <=> ~Acceptable(q)
    BY <1>2 DEF Acceptable
  <2>2. \/ refused /\ text = <<>>
        \/ ~refused /\ \E r \in Task(cmd, get(sr.obj, "payload").str) : text = AnswerFor(sr.obj, r)
    <3> DEFINE Answers == {AnswerFor(sr.obj, r) : r \in Task(cmd, get(sr.obj, "payload").str)}
    <3>1. CASE refused
      <4>1. parser(cmd, data) = {<<>>}
        BY <3>1 DEF parser
      <4> QED BY <3>1, <4>1
    <3>2. CASE ~refused
      <4>1. parser(cmd, data) = Answers
        BY <3>2 DEF parser
      <4>2. \E r \in Task(cmd, get(sr.obj, "payload").str) : text = AnswerFor(sr.obj, r)
        BY <4>1
      <4> QED BY <3>2, <4>2
    <3> QED BY <3>1, <3>2
  <2>3. get(sr.obj, "payload").str = d
    BY <1>2 DEF get
  <2> HIDE DEF refused, sr, d
  <2> QED BY <1>2, <2>1, <2>2, <2>3
<1>6. ASSUME ~Acceptable(q), text = <<>>
      PROVE  Echoes(q, cmd, cmd + 1, text) /\ IsText(text) /\ Len(text) <= Len(ServiceResponse.serialize)
  BY <1>3, <1>4, <1>6, EchoesEmpty
<1>7. ASSUME Acceptable(q), NEW r \in Task(cmd, d), text = AnswerFor(q, r)
      PROVE  Echoes(q, cmd, cmd + 1, text) /\ IsText(text) /\ Len(text) <= Len(ServiceResponse.serialize)
  <2>1. has(ServiceRequest, q, "sn") /\ has(ServiceRequest, q, "payload")
    BY <1>7, RequestComplete DEF Acceptable
  <2>2. d \in Payloads
    <3>1. PICK p \in Payloads : q.val["payload"] = StrVal(p)
      BY <1>1, <2>1 DEF IsRequest
    <3>2. StrVal(p).str = p
      BY DEF StrVal
    <3> QED BY <3>1, <3>2
  <2>3. Results(cmd, d, r)
    BY <1>7, <2>2, TaskResults
  <2>4. CASE r.status = 0
    <3> DEFINE w == r.text
    <3>1. Len(w) \in Nat
      BY <2>3 DEF Results
    <3>2. text = Serialize(ServiceResponse, Wrap(q, w))
      BY <1>7, <2>4 DEF AnswerFor
    <3> HIDE DEF w
    <3>3. IsText(text) /\ Len(text) <= Len(ServiceResponse.serialize) /\ Wraps(q, text, w)
      BY <1>1, <2>1, <3>1, <3>2, WrapIs
    <3>4. Echoes(q, cmd, cmd + 1, text)
      BY <1>7, <2>3, <3>3, EchoesFull DEF w, d
    <3> QED BY <3>3, <3>4
  <2>5. CASE r.status # 0
    <3>1. text = <<>>
      BY <1>7, <2>5 DEF AnswerFor
    <3>2. cmd = 7818 \/ ParseFromString(ServicePacket, d).obj.val["type"].int \in {27, 29}
      BY <2>3, <2>5 DEF Results
    <3>3. Echoes(q, cmd, cmd + 1, <<>>)
      BY <3>2, EchoesEmpty
    <3> QED BY <1>3, <1>4, <3>1, <3>3
  <2> QED BY <2>4, <2>5
<1> QED BY <1>5, <1>6, <1>7

\* What the peer reads of a frame: as many cells as its header says.
Received(f) == SubSeq(f.mf.body, 1, f.mf.head.len - HeadLen)

\* Of an answer that is all of it: its length is within the range of an int.
LEMMA ReceivedWhole ==
  ASSUME NEW n, NEW cmd, NEW text, IsText(text), Len(text) <= Len(ServiceResponse.serialize)
  PROVE  Received(Written(n, cmd, text)) = text
<1> DEFINE k == Len(text)
           z == Len(ServiceResponse.serialize)
           D == {text[i] : i \in DOMAIN text}
<1>1. text \in Seq(D) /\ k \in Nat /\ k <= z
  BY LenProperties DEF IsText
<1>2. z \in Nat /\ HeadLen \in Nat /\ IntMax \in Nat /\ HeadLen + z < IntMax
  BY ResponseKnows, WidthAssumption, PeerAssumption DEF PartsAgree
<1>3. Written(n, cmd, text).mf.body = text /\ Written(n, cmd, text).mf.head.len = ToInt(HeadLen + k)
  BY DEF Written, encode_header, Header
<1>4. SubSeq(text, 1, k) = text
  <2> HIDE DEF D
  <2> QED BY <1>1
<1> HIDE DEF k, z
<1>5. HeadLen + k \in IntRange /\ HeadLen + k \in Int
  BY <1>1, <1>2 DEF IntRange
<1>6. ToInt(HeadLen + k) - HeadLen = k
  BY <1>1, <1>2, <1>5, ToIntNear
<1> QED BY <1>3, <1>4, <1>6 DEF Received

\* Every frame to the peer that answers one of its own, and the last one it
\* received, is an answer to the request in that frame.
EchoInv ==
  /\ \A i \in 1..Len(toPeer) :
       toPeer[i].re > 0 /\ toPeer[i].mf.head.cmd \in {201, 7819, 8001} =>
         Echoes(meant[toPeer[i].re].obj, sent[toPeer[i].re].cmd, toPeer[i].mf.head.cmd,
                Received(toPeer[i]))
  /\ AnswerEchoes

LEMMA EchoStarts == Init => EchoInv
<1> SUFFICES ASSUME Init PROVE EchoInv
  OBVIOUS
<1>1. toPeer = <<>> /\ last = NothingYet
  BY DEF Init
<1>2. Len(toPeer) = 0 /\ last.re = 0
  BY <1>1 DEF NothingYet
<1> QED BY <1>2 DEF EchoInv, AnswerEchoes

\* A frame that is sent leaves the ones before it, and what they mean.
Leaves ==
  /\ UNCHANGED <<toPeer, last>>
  /\ \A i \in 1..Len(sent) : sent'[i] = sent[i] /\ meant'[i] = meant[i]

LEMMA FrameLeaves ==
  ASSUME MessagesInv, NEW class, NEW obj, NEW cmd, NEW text, NEW len,
         SendFrame(class, obj, cmd, text, len)
  PROVE  Leaves
<1> DEFINE f == [cmd |-> cmd, text |-> text, len |-> len]
           s == [class |-> class, obj |-> obj]
<1>1. UNCHANGED <<toPeer, last>> /\ sent' = Append(sent, f) /\ meant' = Append(meant, s)
  BY DEF SendFrame, Transmit
<1> HIDE DEF f, s
<1>2. sent \in Seq(Frames) /\ IsText(meant) /\ Len(meant) = Len(sent)
  BY DEF MessagesInv, StreamInv, StreamTypeOK, MeantInv
<1>3. IsText(sent)
  BY <1>2, ReverseIn
<1> QED BY <1>1, <1>2, <1>3, TextGrows DEF Leaves

LEMMA EncodedLeaves ==
  ASSUME MessagesInv, NEW cmd, NEW class, NEW obj, NEW text, Encoded(cmd, class, obj, text)
  PROVE  Leaves
<1> DEFINE len == encode_header(cmd, text).head.len
<1>1. SendFrame(class, obj, cmd, text, len)
  BY DEF Encoded
<1> HIDE DEF len
<1> QED BY <1>1, FrameLeaves

LEMMA SendLeaves ==
  ASSUME MessagesInv, Send \/ Ask \/ SendOther \/ \E len \in IntRange : SendHeader(len)
  PROVE  Leaves
<1>1. CASE Send
  <2> DEFINE c == draft.class
             o == draft.obj
  <2>1. PICK t : Encoded(100, c, o, t)
    BY <1>1 DEF Send
  <2> HIDE DEF c, o
  <2> QED BY <2>1, EncodedLeaves
<1>2. CASE Ask
  <2>1. PICK cmd, o : Encoded(cmd, "ServiceRequest", o, Serialize(ServiceRequest, o))
    BY <1>2 DEF Ask
  <2> QED BY <2>1, EncodedLeaves
<1>3. CASE SendOther
  <2>1. PICK cmd, text : Encoded(cmd, NoClass, NoObject, text)
    BY <1>3 DEF SendOther
  <2> QED BY <2>1, EncodedLeaves
<1>4. ASSUME NEW len \in IntRange, SendHeader(len) PROVE Leaves
  <2>1. PICK text : SendFrame(NoClass, NoObject, 100, text, len)
    BY <1>4 DEF SendHeader
  <2> QED BY <2>1, FrameLeaves
<1> QED BY <1>1, <1>2, <1>3, <1>4

\* Where frames and what they mean stay, and nothing new is on its way.
LEMMA EchoStays ==
  ASSUME MessagesInv, EchoInv, Leaves
  PROVE  EchoInv'
<1>1. \A i \in 1..Len(toPeer) : toPeer[i].re > 0 => toPeer[i].re \in 1..Len(sent)
  BY DEF MessagesInv, AnswersInv
<1>2. last.re > 0 => last.re \in 1..Len(sent)
  BY DEF MessagesInv, AnswersInv
<1>3. AnswerEchoes'
  BY <1>2 DEF EchoInv, AnswerEchoes, Leaves
<1> QED BY <1>1, <1>3 DEF EchoInv, Leaves

LEMMA WorkEchoes ==
  ASSUME MessagesInv, EchoInv, Work
  PROVE  EchoInv'
<1> DEFINE n == Head(deque_).n
           cmd == Head(deque_).mf.head.cmd
           data == Data(Head(deque_).mf)
<1>1. UNCHANGED <<meant, last, sent>>
  BY DEF Work, TakeMessage
<1>2. /\ n \in 1..Len(sent) /\ data = sent[n].text /\ cmd = sent[n].cmd
      /\ \A i \in 1..Len(toPeer') :
           \/ i \in 1..Len(toPeer) /\ toPeer'[i] = toPeer[i]
           \/ /\ cmd \in {200, 7818, 8000}
              /\ \E text \in parser(cmd, data) : toPeer'[i] = Written(n, cmd + 1, text)
           \/ \E text : toPeer'[i] = Written(n, 6667, text)
  BY WorkAdds
<1>3. \A c, text : Written(n, c, text).re = n /\ Written(n, c, text).mf.head.cmd = c
  BY DEF Written, encode_header, Header
<1> HIDE DEF n, cmd, data
<1>4. ASSUME cmd \in {200, 7818, 8000}, NEW text \in parser(cmd, data)
      PROVE  Echoes(meant[n].obj, cmd, cmd + 1, Received(Written(n, cmd + 1, text)))
  <2> DEFINE q == meant[n].obj
  <2>1. meant[n].class = "ServiceRequest" /\ q \in ServiceRequests
    BY <1>2, <1>4 DEF MessagesInv, MeantInv, Asks
  <2>2. Means(meant[n], data)
    BY <1>2 DEF MessagesInv, MeantInv
  <2>3. "ServiceRequest" # NoClass /\ ClassOf["ServiceRequest"] = ServiceRequest
    BY DEF NoClass, ClassOf
  <2>4. IsSpelling(ServiceRequest, q, FieldUnits(ServiceRequest, q), data)
    BY <2>1, <2>2, <2>3 DEF Means
  <2> HIDE DEF q
  <2>5. /\ Echoes(q, cmd, cmd + 1, text) /\ IsText(text)
        /\ Len(text) <= Len(ServiceResponse.serialize)
    BY <1>4, <2>1, <2>4, ParserEchoes
  <2>6. Received(Written(n, cmd + 1, text)) = text
    BY <2>5, ReceivedWhole
  <2> QED BY <2>5, <2>6 DEF q
<1> DEFINE Good(f) == f.re > 0 /\ f.mf.head.cmd \in {201, 7819, 8001} =>
                        Echoes(meant[f.re].obj, sent[f.re].cmd, f.mf.head.cmd, Received(f))
<1>5. ASSUME NEW i \in 1..Len(toPeer') PROVE Good(toPeer'[i])
  <2>1. CASE i \in 1..Len(toPeer) /\ toPeer'[i] = toPeer[i]
    BY <2>1 DEF EchoInv
  <2>2. ASSUME cmd \in {200, 7818, 8000}, NEW text \in parser(cmd, data),
               toPeer'[i] = Written(n, cmd + 1, text)
        PROVE  Good(toPeer'[i])
    BY <1>2, <1>3, <1>4, <2>2
  <2>3. ASSUME NEW text, toPeer'[i] = Written(n, 6667, text)
        PROVE  Good(toPeer'[i])
    BY <1>3, <2>3
  <2> QED BY <1>2, <2>1, <2>2, <2>3
<1>6. AnswerEchoes'
  BY <1>1 DEF EchoInv, AnswerEchoes
<1> QED BY <1>1, <1>5, <1>6 DEF EchoInv

LEMMA PeerReadsEchoes ==
  ASSUME MessagesInv, EchoInv, PeerReads
  PROVE  EchoInv'
<1> DEFINE f == Head(toPeer)
<1>1. /\ UNCHANGED <<meant, sent>> /\ toPeer # <<>> /\ toPeer' = Tail(toPeer)
      /\ last' = [re |-> f.re, cmd |-> f.mf.head.cmd, text |-> Received(f)]
  BY DEF PeerReads, streamVars, Received
<1>2. /\ Len(toPeer) \in Nat /\ Len(toPeer) > 0 /\ Head(toPeer) = toPeer[1]
      /\ \A i \in 1..Len(toPeer') : i + 1 \in 1..Len(toPeer) /\ toPeer'[i] = toPeer[i + 1]
  BY <1>1, TailIs DEF MessagesInv, AnswersInv
<1>3. 1 \in 1..Len(toPeer) /\ f = toPeer[1]
  BY <1>2
<1> HIDE DEF f
<1>4. last'.re = f.re /\ last'.cmd = f.mf.head.cmd /\ last'.text = Received(f)
  BY <1>1
<1>5. AnswerEchoes'
  BY <1>1, <1>3, <1>4 DEF EchoInv, AnswerEchoes
<1> QED BY <1>1, <1>2, <1>5 DEF EchoInv

LEMMA EchoKeeps ==
  ASSUME MessagesInv, EchoInv, [Next]_vars
  PROVE  EchoInv'
<1>1. CASE Send \/ Ask \/ SendOther \/ \E len \in IntRange : SendHeader(len)
  BY <1>1, SendLeaves, EchoStays
<1>2. CASE Compose \/ ReadStep \/ UNCHANGED vars
  <2>1. UNCHANGED <<toPeer, last, meant, sent>>
    <3>1. CASE Compose
      BY <3>1, ComposeKeeps DEF streamVars
    <3>2. CASE ReadStep
      BY <3>2 DEF ReadStep, HandleHeader, HandleBody
    <3>3. CASE UNCHANGED vars
      BY <3>3 DEF vars, streamVars
    <3> QED BY <1>2, <3>1, <3>2, <3>3
  <2> QED BY <2>1, EchoStays DEF Leaves
<1>3. CASE Registe
  <2>1. UNCHANGED <<meant, sent, last>>
    BY <1>3 DEF Registe, streamVars
  <2>2. PICK w : toPeer' = <<w>> /\ w.re = 0
    BY <1>3 DEF Registe, Written
  <2>3. \A i \in 1..Len(toPeer') : toPeer'[i].re = 0
    BY <2>2
  <2>4. AnswerEchoes'
    BY <2>1 DEF EchoInv, AnswerEchoes
  <2> QED BY <2>3, <2>4 DEF EchoInv
<1> QED BY <1>1, <1>2, <1>3, WorkEchoes, PeerReadsEchoes DEF Next

\* What the peer receives for a request, whatever it put into it and whatever
\* the HTTP server, mongo or Python made of it, is an answer to that request:
\* a complete ServiceResponse with its sn, sessid and service_type around
\* nothing or a packet of the following type with the user's cid.
THEOREM AnswersEcho == Spec => []AnswerEchoes
<1>1. EchoInv => AnswerEchoes
  BY DEF EchoInv
<1>2. MessagesInv /\ EchoInv /\ [Next]_vars => EchoInv'
  BY EchoKeeps
<1> QED BY <1>1, <1>2, EchoStarts, MessagesInductive, PTL DEF Spec
==============================================================================
