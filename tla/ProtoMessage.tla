---------------------------- MODULE ProtoMessage ----------------------------
(***************************************************************************)
(* What a generated message class (src/proto) does, for every class of     *)
(* ProtoTables.  A message object is its has-bits, the values of all its   *)
(* fields, set or not, and the fields it did not know when it was parsed.  *)
(*                                                                         *)
(* Serialized text is a sequence of units, one for each field: its number, *)
(* its wire type, and its number value or its contents.  Varints, lengths  *)
(* and bytes below that are libprotobuf's.  A text that is no message is a *)
(* unit no parser accepts.                                                 *)
(***************************************************************************)
EXTENDS Integers, Sequences, ProtoTables

\* Wire types.
VARINT == 0
FIXED64 == 1
LENGTH_DELIMITED == 2
FIXED32 == 5

WireType(type) ==
  IF type \in {"int32", "int64"} THEN VARINT
  ELSE IF type = "double" THEN FIXED64
  ELSE LENGTH_DELIMITED

Unit(num, wt, int, str) == [num |-> num, wt |-> wt, int |-> int, str |-> str]

Tag(u) == 8 * u.num + u.wt

\* A text of its own, which is not a serialized message.
Text(n) == <<Unit(0, 7, n, <<>>)>>

Fields(m) == DOMAIN m.bit

\* How the parser of m reads field f.
TypeOf(m, f) ==
  LET i == CHOOSE i \in DOMAIN m.merge : m.merge[i].field = f
  IN  m.merge[i].type

IsMessage(m, f) == f \in DOMAIN m.sub

NoObject == [bits |-> {}, val |-> <<>>, unknown |-> <<>>]

IntVal(n) == [int |-> n, str |-> <<>>, obj |-> NoObject]
StrVal(s) == [int |-> 0, str |-> s, obj |-> NoObject]
SubVal(o) == [int |-> 0, str |-> <<>>, obj |-> o]

\* SharedCtor of a class without messages in it, and of any class.
NewLeaf(m) == [bits |-> {}, val |-> [f \in Fields(m) |-> IntVal(0)], unknown |-> <<>>]

DefaultOf(m, f) ==
  IF IsMessage(m, f) THEN SubVal(NewLeaf(m.sub[f])) ELSE IntVal(0)

New(m) == [bits |-> {}, val |-> [f \in Fields(m) |-> DefaultOf(m, f)],
           unknown |-> <<>>]

----------------------------------------------------------------------------
(* Accessors.  _has_bits_[0] is the set of its bits that are one.           *)

has(m, o, f) == m.bit[f] \in o.bits

\* set_f, and for a message field mutable_f with what is done to it.
set(m, o, f, v) == [o EXCEPT !.bits = @ \cup {m.bit[f]}, !.val[f] = v]

\* Fault: only the bit is cleared.
clear_bit_only(m, o, f) == [o EXCEPT !.bits = @ \ {m.bit[f]}]

\* clear_f
clear(m, o, f) == [o EXCEPT !.bits = @ \ {m.bit[f]}, !.val[f] = DefaultOf(m, f)]

\* f() gives the value whether it has been set or not.
get(o, f) == o.val[f]

\* IsInitialized
IsInitialized(m, o) == m.mask \subseteq o.bits

----------------------------------------------------------------------------
(* Copying.  Messages in messages have none in them, so what a class does   *)
(* with its messages is written once for a class without any (Leaf) and     *)
(* once for a class that uses those.                                        *)

\* MergeFrom: the object after each of its ifs.  A field that is set in from
\* is set, to the value vals has for it.
Copies(m, o, from, vals) ==
  LET copy[i \in 0..Len(m.fields)] ==
        IF i = 0 THEN o
        ELSE IF has(m, from, m.fields[i])
          THEN set(m, copy[i - 1], m.fields[i], vals[m.fields[i]])
          ELSE copy[i - 1]
  IN  copy

\* The fields, then the unknown ones.
Merged(m, o, from, vals) ==
  [Copies(m, o, from, vals)[Len(m.fields)] EXCEPT !.unknown = @ \o from.unknown]

MergeFromLeaf(m, o, from) == Merged(m, o, from, from.val)

\* A message field is merged into the one there.
MergeFrom(m, o, from) ==
  Merged(m, o, from,
         [f \in Fields(m) |->
            IF IsMessage(m, f)
              THEN SubVal(MergeFromLeaf(m.sub[f], get(o, f).obj, get(from, f).obj))
              ELSE get(from, f)])

\* CopyFrom: Clear, then MergeFrom.
CopyFrom(m, from) == MergeFrom(m, New(m), from)

----------------------------------------------------------------------------
(* Serializing.                                                             *)

\* SerializeWithCachedSizes: what has been written after each of its ifs,
\* where units are the fields in the form Write<type> gives them.
Writes(m, o, units) ==
  LET out[i \in 0..Len(m.serialize)] ==
        IF i = 0 THEN <<>>
        ELSE IF has(m, o, m.serialize[i].field) THEN Append(out[i - 1], units[i])
        ELSE out[i - 1]
  IN  out

\* The fields that are set, then the unknown ones.
Output(m, o, units) == Writes(m, o, units)[Len(m.serialize)] \o o.unknown

\* The unit of the value v of the field with entry w.
LeafUnit(w, v) == Unit(w.num, WireType(w.type), v.int, v.str)

SerializeLeaf(m, o) ==
  Output(m, o, [i \in 1..Len(m.serialize) |->
                   LeafUnit(m.serialize[i], get(o, m.serialize[i].field))])

FieldUnit(m, w, v) ==
  IF IsMessage(m, w.field)
    THEN Unit(w.num, WireType(w.type), v.int, SerializeLeaf(m.sub[w.field], v.obj))
    ELSE LeafUnit(w, v)

Serialize(m, o) ==
  Output(m, o, [i \in 1..Len(m.serialize) |->
                   FieldUnit(m, m.serialize[i], get(o, m.serialize[i].field))])

\* Bytes of a tag, and of a unit when every value takes one byte and its
\* contents.
TagSize(num) == IF num < 16 THEN 1 ELSE 2

ContentSize(int, str) == 1 + Len(str)

UnitSize(u) == TagSize(u.num) + ContentSize(u.int, u.str)

\* The size of the first i units.
Sizes(units) ==
  LET size[i \in 0..Len(units)] == IF i = 0 THEN 0 ELSE size[i - 1] + UnitSize(units[i])
  IN  size

SizeOf(units) == Sizes(units)[Len(units)]

\* ByteSize: a tag of one byte for every field that is set.
FieldSize(m, o, f) ==
  LET v == get(o, f)
  IN  1 + ContentSize(v.int, IF IsMessage(m, f) THEN SerializeLeaf(m.sub[f], v.obj) ELSE v.str)

FieldSizes(m, o) ==
  LET size[i \in 0..Len(m.fields)] ==
        IF i = 0 THEN 0
        ELSE IF has(m, o, m.fields[i]) THEN size[i - 1] + FieldSize(m, o, m.fields[i])
        ELSE size[i - 1]
  IN  size

ByteSize(m, o) == FieldSizes(m, o)[Len(m.fields)] + SizeOf(o.unknown)

----------------------------------------------------------------------------
(* Parsing.                                                                 *)

\* The case that takes unit u after case at: the one ExpectTag jumps to, or
\* the one the switch finds by number if the wire type is the right one; 0
\* for handle_uninterpreted.
CaseFor(m, at, u) ==
  LET cases == m.merge
      found == {i \in DOMAIN cases : cases[i].num = u.num /\ WireType(cases[i].type) = u.wt}
  IN  IF at > 0 /\ cases[at].expect # 0 /\ cases[at].expect = Tag(u) THEN at + 1
      ELSE IF found = {} THEN 0 ELSE CHOOSE i \in found : TRUE

\* One turn of the loop, with inner what becomes of a message field.  A string
\* or number replaces the old one, a message is merged into the old one, a
\* field that is not known is kept aside; a wire type that SkipField does not
\* know is an error.
MergeUnit(m, s, u, inner) ==
  LET i == CaseFor(m, s.at, u)
      e == m.merge[i]
  IN  IF ~s.ok THEN s
      ELSE IF i = 0 THEN
        [s EXCEPT !.at = 0, !.ok = u.wt \in {VARINT, FIXED64, LENGTH_DELIMITED, FIXED32},
                  !.obj.unknown = Append(@, u)]
      ELSE IF IsMessage(m, e.field) THEN
        [s EXCEPT !.at = i, !.ok = inner.ok, !.obj = set(m, @, e.field, SubVal(inner.obj))]
      ELSE IF WireType(e.type) = LENGTH_DELIMITED THEN
        [s EXCEPT !.at = i, !.obj = set(m, @, e.field, StrVal(u.str))]
      ELSE [s EXCEPT !.at = i, !.obj = set(m, @, e.field, IntVal(u.int))]

\* MergePartialFromCodedStream of units into o: what it has after each turn.
Started(o) == [obj |-> o, ok |-> TRUE, at |-> 0]

LeafTurns(m, o, units) ==
  LET turn[n \in 0..Len(units)] ==
        IF n = 0 THEN Started(o) ELSE MergeUnit(m, turn[n - 1], units[n], Started(NoObject))
  IN  turn

MergeLeaf(m, o, units) == LeafTurns(m, o, units)[Len(units)]

\* What becomes of the message field that unit u is for, merged into the one
\* there.
InnerMerge(m, s, u) ==
  LET f == m.merge[CaseFor(m, s.at, u)].field
  IN  MergeLeaf(m.sub[f], get(s.obj, f).obj, u.str)

Turns(m, o, units) ==
  LET turn[n \in 0..Len(units)] ==
        IF n = 0 THEN Started(o)
        ELSE MergeUnit(m, turn[n - 1], units[n], InnerMerge(m, turn[n - 1], units[n]))
  IN  turn

Merge(m, o, units) == Turns(m, o, units)[Len(units)]

\* ParseFromString: Clear, merge, and refuse what is not complete.
ParseFromString(m, units) ==
  LET r == Merge(m, New(m), units)
  IN  [obj |-> r.obj, ok |-> r.ok /\ IsInitialized(m, r.obj)]
=============================================================================
