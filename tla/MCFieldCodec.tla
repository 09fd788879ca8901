--------------------------- MODULE MCFieldCodec ---------------------------
(***************************************************************************)
(* Integer types of 2, 3, 4 and 5 bits stand for u8, usize, u16 and u64.   *)
(* Every position in and just beyond a 4-bit register is declared, as a    *)
(* literal and as a constant, with every type of field, on a bus of known  *)
(* and of unknown width; a u32 counts to 8, so that constants wrap, and a  *)
(* JSON number has 3 exact bits.                                           *)
(***************************************************************************)
EXTENDS FieldCodec

LOCAL INSTANCE FiniteSetsExt

MCWidth == [k \in {"u8", "u16", "u64", "usize"} |->
              CASE k = "u8" -> 2 [] k = "usize" -> 3 [] k = "u16" -> 4 [] k = "u64" -> 5]

(* The nearest of two doubles, the even one of two as near.                *)
Rounded ==
  LET Num(n)  == MapThenSumSet(LAMBDA b : 2^b, n)
      Off(n, e) == IF Num(n) < Num(e) THEN Num(e) - Num(n) ELSE Num(n) - Num(e)
      Low(e)  == IF e = {} THEN 0 ELSE Min(e)
      Doubles == {e \in SUBSET (0 .. 5) : \A b, c \in e : b - c < Precision}
  IN [n \in SUBSET (0 .. 4) |->
        CHOOSE e \in Doubles : \A f \in Doubles :
          \/ Off(n, e) < Off(n, f)
          \/ Off(n, e) = Off(n, f) /\ Low(e) >= Low(f)]

MCNumber(n) == Rounded[n]

Lit(value)   == [value |-> value, literal |-> TRUE]
Const(value) == [value |-> value, literal |-> FALSE]

(* Values 0, 1, 2 and 4, and 8 and 9, which are one JSON number; a later   *)
(* variant may be the zero one.                                            *)
Enums == { <<Lit({}), Lit({0})>>, <<Lit({0}), Lit({1}), Lit({})>>, <<Lit({2})>>,
           <<Lit({0}), Const({1})>>, <<Lit({0}), Lit({0})>>, <<Lit({3}), Lit({0, 3})>> }

Typed(as, int, inline, variants) ==
  [as |-> as, int |-> int, inline |-> inline, variants |-> variants]

(* Enums declared inline belong to a register of one of the types ints.    *)
Types(ints) ==
  {Typed(as, "u8", FALSE, <<>>) : as \in {"raw", "bool", "custom"}}
    \cup {Typed("int", int, FALSE, <<>>) : int \in {"u8", "u16", "usize"}}
    \cup {Typed("enum", "u8", FALSE, vs) : vs \in Enums \cup {<<>>}}
    \cup {Typed("enum", int, TRUE, vs) : int \in ints, vs \in Enums}

Positions(bus, types) ==
  [bus : {bus}, ty : {"u8", "u16", "usize"}, reg : {"rw"}, access : {"inherit"},
   lo : {0, 1, 3}, hi : {0, 1, 3, 4}, literal : BOOLEAN, type : types, beside : {{}}]

(* Positions beyond a u32; some wrap to bits of the register.              *)
FarPositions ==
  [bus : {"u16"}, ty : {"u8", "u16", "usize"}, reg : {"rw"}, access : {"inherit"},
   lo : {1, 8, 9}, hi : {1, 8, 9, 11}, literal : BOOLEAN, beside : {{}},
   type : {Typed(as, "u8", FALSE, <<Lit({}), Lit({0})>>) : as \in {"raw", "bool", "int", "enum"}}]

Beside(lo, hi, access, literal) ==
  [lo |-> lo, hi |-> hi, access |-> access, literal |-> literal]

(* Flags and commands by literals, by constants and mixed, below a field   *)
(* at bit 1 and across it; a plain field; positions that do not exist; and *)
(* a constant that wraps.                                                  *)
Neighbours ==
  { {Beside(0, 0, "w1c", TRUE)}, {Beside(0, 0, "w1c", FALSE)},
    {Beside(0, 0, "w1c", FALSE), Beside(1, 1, "wo", TRUE)},
    {Beside(0, 1, "wo", FALSE), Beside(0, 0, "inherit", TRUE)},
    {Beside(0, 0, "ro", TRUE)}, {Beside(2, 3, "w1c", TRUE)}, {Beside(1, 0, "wo", FALSE)},
    {Beside(8, 8, "w1c", FALSE)} }

MCDeclarations ==
  Positions("u16", Types({"u8", "u16"}))
    \cup Positions("usize", Types({"u8", "usize"}))
    \cup FarPositions
    \cup [bus : {"u16"}, ty : {"u8"}, reg : Access, access : FieldAccess, lo : {1}, hi : {1},
          literal : BOOLEAN, type : Types({"u8"}), beside : {{}}]
    \cup [bus : {"u16"}, ty : {"u8", "usize"}, reg : Access, access : FieldAccess,
          lo : {1}, hi : {1}, literal : BOOLEAN, beside : Neighbours,
          type : {Typed(as, "u8", FALSE, <<Lit({}), Lit({0})>>) : as \in {"raw", "bool", "enum"}}]
=============================================================================
