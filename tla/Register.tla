------------------------------ MODULE Register ------------------------------
(***************************************************************************)
(* One declared register: its declaration, the operations the map          *)
(* generates for it, and the device register behind it.                    *)
(*                                                                         *)
(* The device is outside the repository; it is modelled from what the      *)
(* documentation and the comments say of the bits each access kind is for: *)
(* writing 1 to a flag acknowledges it, writing 1 to a command bit starts  *)
(* the command, status bits ignore writes, and the rest is storage.        *)
(***************************************************************************)
EXTENDS RegisterWord

CONSTANTS
  Word,         \* bit positions of the bus word
  TypeBits,     \* those of the register's type, which may be narrower
  RegAccess,    \* access kind of the register
  Fields,       \* its declared bitfields
  FieldValues,  \* values callers pass to set_<reg>_<field>
  RegValues,    \* values callers pass to set_<reg>
  Closures,     \* what callers pass to modify_<reg> ...
  Apply(_, _),  \* ... and what each makes of the value it sees
  Flags,        \* device bits that are raised by hardware, cleared by a 1
  Commands,     \* device bits where a 1 starts a command; busy reads as 1
  Status        \* device bits driven by hardware alone

(* The first conjunct is what validation and compiler ensure, as           *)
(* FieldCodec shows (CompiledIsSound); the rest is typing of callers.      *)
ASSUME DeclarationAssumption ==
  /\ Declares(Word, TypeBits, RegAccess, Fields)
  /\ FieldValues \subseteq SUBSET Nat
  /\ RegValues \subseteq SUBSET TypeBits
  /\ \A c \in Closures, w \in SUBSET TypeBits : Apply(c, w) \in SUBSET TypeBits

Storage == Word \ (Flags \cup Commands \cup Status)

(* The declaration says of each bit what the device does with it: the w1c  *)
(* and wo fields of a readable register cover its flags and commands, and  *)
(* no storage.  A wo register is never read, so there any field may hold   *)
(* either.                                                                 *)
ASSUME DeviceAssumption ==
  /\ Flags \subseteq Word /\ Commands \subseteq Word /\ Status \subseteq Word
  /\ Flags \cap Commands = {}
  /\ Status \cap (Flags \cup Commands) = {}
  /\ CanRead(RegAccess) => /\ Flags \cup Commands \subseteq ForceZero(Fields)
                           /\ ForceZero(Fields) \cap Storage = {}

-----------------------------------------------------------------------------
(* The generated methods that write.                                       *)

Settable  == {f \in Fields : FieldCanWrite(f.access, RegAccess) /\ f.access # "w1c"}
Clearable == {f \in Fields : FieldCanWrite(f.access, RegAccess) /\ f.access = "w1c"}

SetFieldOps == [kind : {"set_field"}, field : Settable, value : FieldValues]
ClearOps    == [kind : {"clear_field"}, field : Clearable]
SetRegOps   == IF CanWrite(RegAccess) THEN [kind : {"set_reg"}, value : RegValues] ELSE {}
ModifyOps   == IF CanRead(RegAccess) /\ CanWrite(RegAccess)
                 THEN [kind : {"modify_reg"}, closure : Closures] ELSE {}
WriterOps   == IF RegAccess = "wo" /\ Fields # {} THEN [kind : {"write_reg"}] ELSE {}

Ops == SetFieldOps \cup ClearOps \cup SetRegOps \cup ModifyOps \cup WriterOps

-----------------------------------------------------------------------------
(* The device's answer to one bus write of w.                              *)

AfterWrite(reg, w) ==
  ((reg \cap Flags) \ w) \cup ((reg \cup w) \cap Commands)
    \cup (reg \cap Status) \cup (w \cap Storage)

Triggered(w) == w \cap Commands
=============================================================================
