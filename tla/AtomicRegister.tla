--------------------------- MODULE AtomicRegister ---------------------------
(***************************************************************************)
(* What the generated accessors promise: every operation takes effect on   *)
(* the device in one step and touches only its own bits.  There is no      *)
(* lock, no bus read and no force-zero mask here; RegisterAccess           *)
(* implements this specification with them.                                *)
(***************************************************************************)
EXTENDS Register

VARIABLES
  reg,    \* the bits of the device register that read as 1
  fired   \* the commands the last bus write started

vars == <<reg, fired>>

Init == /\ reg \in SUBSET Word
        /\ fired = {}

(* The bits mask takes the value bits; a 1 on a flag acknowledges it, a 1  *)
(* on a command starts it, and no bit outside mask is affected.            *)
Touch(mask, bits) ==
  /\ reg' = (reg \ ((mask \cap Storage) \cup (bits \cap Flags)))
              \cup (bits \cap (Storage \cup Commands))
  /\ fired' = bits \cap Commands

SetField(f, v) ==
  Touch(IF CanRead(RegAccess) THEN FieldMask(f) ELSE Word, Insert(v, f))

ClearField(f) ==
  Touch(IF CanRead(RegAccess) THEN FieldMask(f) ELSE Word, FieldMask(f))

SetReg(v) == Touch(Word, v)

(* The closure sees the storage bits as they are, and of the pending flags *)
(* those that were pending already when it looked.                         *)
ModifyReg(c) ==
  \E seen \in SUBSET Word :
    /\ seen \cap Storage = reg \cap Storage
    /\ seen \cap Flags \subseteq reg
    /\ Touch(Word, Apply(c, seen \cap TypeBits))

(* write_<reg> leaves zero in every bit no writable field covers.          *)
WriteReg ==
  \E w \in SUBSET UNION {FieldMask(f) : f \in Settable \cup Clearable} : Touch(Word, w)

Operation ==
  \/ \E o \in SetFieldOps : SetField(o.field, o.value)
  \/ \E o \in ClearOps : ClearField(o.field)
  \/ \E o \in SetRegOps : SetReg(o.value)
  \/ \E o \in ModifyOps : ModifyReg(o.closure)
  \/ WriterOps # {} /\ WriteReg

(* Hardware raises flags, ends commands and drives the status bits.        *)
Hardware ==
  /\ \E s \in SUBSET Word :
       /\ s \cap Storage = reg \cap Storage
       /\ reg \cap Flags \subseteq s
       /\ s \cap Commands \subseteq reg
       /\ reg' = s
  /\ UNCHANGED fired

Next == Operation \/ Hardware

Spec == Init /\ [][Next]_vars
=============================================================================
