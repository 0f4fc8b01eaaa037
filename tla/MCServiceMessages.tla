------------------------ MODULE MCServiceMessages ------------------------
(* ServiceMessages with every class, header of two cells, bodies up to ten. *)
EXTENDS ServiceMessages

\* Units with a text of cells of S in them.
UnitsOver(S) == [num : Nat, wt : Nat, int : Int, str : Seq(S)]

\* The units of a message in the payload of another: a text, in a message,
\* in a packet, in a payload.
Units == UnitsOver(UnitsOver(UnitsOver(UnitsOver({}))))

\* What resize fills with, a unit no parser accepts.
Zero == Unit(0, 7, 0, <<>>)
==========================================================================
