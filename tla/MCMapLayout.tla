---------------------------- MODULE MCMapLayout ----------------------------
(***************************************************************************)
(* A small address space of 32 bytes behind a 4-byte bus.  The maps: the   *)
(* README's uart (two registers aliased at one offset), an array between   *)
(* two scalars, an array declared with constants, one of length zero, and  *)
(* arrays whose end is just at, or beyond, the end of the address space.   *)
(***************************************************************************)
EXTENDS MapLayout

Entry(offset, count, access, literal) ==
  [offset |-> offset, count |-> count, access |-> access, literal |-> literal]

MCDeclarations ==
  { {},
    {Entry(0, 1, "ro", TRUE), Entry(0, 1, "wo", TRUE)},
    {Entry(0, 1, "ro", TRUE), Entry(4, 2, "rw", TRUE), Entry(12, 1, "wo", TRUE)},
    {Entry(8, 3, "rw", FALSE), Entry(0, 0, "ro", FALSE)},
    {Entry(0, 7, "rw", TRUE)},
    {Entry(0, 8, "rw", TRUE)},
    {Entry(0, 1, "rw", TRUE), Entry(4, 9, "ro", TRUE)},
    {Entry(4, 8, "rw", FALSE)} }

MCSizes   == {1, 2, 4}
MCLengths == {0, 3, 4, 13, 16, 20, 28, 31}
MCOffsets == 0 .. 31
=============================================================================
