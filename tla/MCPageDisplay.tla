---------------------------- MODULE MCPageDisplay ----------------------------
(***************************************************************************)
(* A small instance of PageDisplay: a register with a field of two bits,   *)
(* of whose four encodings two have a variant.  Flags and commands are in  *)
(* the instances of WebPage.                                               *)
(***************************************************************************)
EXTENDS PageDisplay

Field(lo, hi, access) == [lo |-> lo, hi |-> hi, access |-> access]

MCWord      == 0 .. 1
MCSelected  == Field(0, 1, "inherit")
MCFields    == {MCSelected}
MCVariants  == <<{}, {1}>>
MCValues    == {{}, {1}}
MCRegValues == {{1}}
MCName      == [f \in MCFields |-> "speed"]
MCLookup    == [n \in {"speed"} |-> MCSelected]
Nothing     == {}

MCClosures == {"keep"}
MCApply(c, w) == w
=============================================================================
