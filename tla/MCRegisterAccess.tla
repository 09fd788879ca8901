-------------------------- MODULE MCRegisterAccess --------------------------
(***************************************************************************)
(* Small instances of RegisterAccess.                                      *)
(*                                                                         *)
(* The rw register is the README's interrupt register: two w1c flags, a wo *)
(* command bit, a two-bit mode field, one bit of a ro status field, and    *)
(* above its type an undeclared bus bit.  The wo register is the README's  *)
(* command register, with a w1c flag added.                                *)
(***************************************************************************)
EXTENDS RegisterAccess

Field(lo, hi, access) == [lo |-> lo, hi |-> hi, access |-> access]

RwWord     == 0 .. 6
RwTypeBits == 0 .. 5
RwFields   == {Field(0, 0, "w1c"), Field(1, 1, "w1c"), Field(2, 2, "wo"),
               Field(3, 4, "inherit"), Field(5, 5, "ro")}
RwFlags    == {0, 1}
RwCommands == {2}
RwStatus   == {5}

WoWord     == 0 .. 5
WoFields   == {Field(0, 0, "inherit"), Field(1, 1, "wo"), Field(2, 3, "inherit"),
               Field(4, 4, "w1c")}
WoFlags    == {4}
WoCommands == {0, 1}

NoBits == {}

(* 0, 1 and 15: the last one fits no field of the instances, so its upper  *)
(* bits must not reach the neighbours.                                     *)
MCFieldValues == {{}, {0}, 0 .. 3}
MCRegValues   == {{}, {0, 3}}

MCClosures == {"keep", "flip3", "zero"}
MCApply(c, w) == CASE c = "keep"  -> w
                   [] c = "flip3" -> (w \ {3}) \cup ({3} \ w)
                   [] c = "zero"  -> {}
=============================================================================
