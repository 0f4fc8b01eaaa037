---------------------------- MODULE MessageFormat ----------------------------
(***************************************************************************)
(* message_format (src/src/message_format.cpp): a header of HeadLen cells  *)
(* and a body.  A cell is a char; what the chars of a body are is left to  *)
(* the modules that use this one.                                          *)
(*                                                                         *)
(* The length field is an int and body_length_ a size_t, so the "< 0" of   *)
(* decode_header is never true: a length below HeadLen is refused because  *)
(* it becomes a large number, which exceeds MaxBody.                       *)
(***************************************************************************)
EXTENDS Integers, Sequences

CONSTANTS HeadLen,   \* message_head_length
          MaxBody,   \* 1024*1024
          IntMax,    \* 2^31: an int is -IntMax..IntMax-1
          SizeMax    \* 2^64: a size_t is 0..SizeMax-1

\* A size_t is wider than an int, and the largest body stays far from both.
ASSUME WidthAssumption ==
  /\ HeadLen \in Nat \ {0} /\ MaxBody \in Nat
  /\ IntMax \in Nat /\ SizeMax \in Nat
  /\ HeadLen + MaxBody < IntMax
  /\ 4 * IntMax <= SizeMax

IntRange == -IntMax .. IntMax - 1

\* A number stored in an int, and an int assigned to a size_t.
ToInt(n) == ((n + IntMax) % (2 * IntMax)) - IntMax

\* Fault: body_length_ is an int like the length in the header.
ToSizeSigned(i) == i

ToSize(i) == IF i >= 0 THEN i ELSE i + SizeMax

\* What h.len - message_head_length gives: where it leaves the range of int
\* the behaviour is undefined, and the build gives the true difference or
\* the wrapped one.
Minus(len) == {len - HeadLen, ToInt(len - HeadLen)}

Header(len, cmd) == [len |-> len, cmd |-> cmd]

\* The constructor.
NewFormat == [head |-> Header(0, 0), body |-> <<>>, body_length |-> 0]

\* vector::resize: cut, or filled up.
Resize(s, n, fill) == [i \in 1..n |-> IF i <= Len(s) THEN s[i] ELSE fill]

\* Fault: the comparison is made with the length that includes the header.
decode_header_len(mf, d, fill) ==
  LET bl == ToSize(d)
      ok == ~(ToSize(mf.head.len) > MaxBody)
  IN  [ok |-> ok,
       mf |-> [mf EXCEPT !.body_length = bl,
                         !.body = IF ok THEN Resize(@, HeadLen + bl, fill) ELSE @]]

\* decode_header, with d the outcome of the subtraction: body_length_ is set
\* even when the header is refused, body_ only when it is not.
decode_header(mf, d, fill) ==
  LET bl == ToSize(d)
      ok == ~(bl < 0 \/ bl > MaxBody)
  IN  [ok |-> ok,
       mf |-> [mf EXCEPT !.body_length = bl,
                         !.body = IF ok THEN Resize(@, HeadLen + bl, fill) ELSE @]]

\* Fault: the length in the header is that of the body.
encode_header_body(cmd, body) ==
  [head |-> Header(ToInt(Len(body)), cmd), body |-> body, body_length |-> Len(body)]

\* encode_header, which knows no upper limit, then body_combine: head_ and
\* body_, and what length() makes session_base send of them.
encode_header(cmd, body) ==
  [head |-> Header(ToInt(HeadLen + Len(body)), cmd), body |-> body,
   body_length |-> Len(body)]

\* async_read of the body, body_length cells into the front of body_.
ReadBody(mf, cells) ==
  [mf EXCEPT !.body = [i \in DOMAIN @ |-> IF i <= mf.body_length THEN cells[i] ELSE @[i]]]

\* try_pop, wait_and_pop: data.assign(body().data(), ... + body_length()).
Data(mf) == SubSeq(mf.body, 1, mf.body_length)
==============================================================================
