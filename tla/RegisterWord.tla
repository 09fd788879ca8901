---------------------------- MODULE RegisterWord ----------------------------
(***************************************************************************)
(* Access kinds and bit masks of a register, as `register_map!` computes   *)
(* them.  A bus word, and a mask, is the SET of the positions of its 1     *)
(* bits: `a | b` is a \cup b, `a & b` is a \cap b and `a & !b` is a \ b.   *)
(* A bitfield is a record [lo, hi, access].                                *)
(***************************************************************************)
EXTENDS Integers

Access      == {"rw", "ro", "wo"}
FieldAccess == {"inherit", "ro", "wo", "w1c"}

CanRead(acc)  == acc \in {"rw", "ro"}
CanWrite(acc) == acc \in {"rw", "wo"}

(* What a field's modifier leaves of the access kind of its register.      *)
FieldCanRead(fa, acc)  == CanRead(acc) /\ fa # "wo"
FieldCanWrite(fa, acc) == CanWrite(acc) /\ fa # "ro"

(* The fields every read-modify-write of another field writes as zero.     *)
ForcedZero(fa) == fa \in {"wo", "w1c"}

(* The mask of a field, shifted into position.                             *)
FieldMask(f) == f.lo .. f.hi

ForceZero(fields) == UNION {FieldMask(f) : f \in {g \in fields : ForcedZero(g.access)}}

(* Mutant of Insert: the value is shifted but not masked.                  *)
InsertUnmasked(value, f) == {b + f.lo : b \in value}

(* `(value & mask) << lo`: the bits of value that do not fit are dropped.  *)
Insert(value, f) == {b + f.lo : b \in value} \cap FieldMask(f)

(* `(word >> lo) & mask`                                                   *)
Extract(word, f) == {b - f.lo : b \in word \cap FieldMask(f)}

(* The word __update writes back: `(old & !mask) | bits`.                  *)
Update(old, mask, bits) == (old \ mask) \cup bits

-----------------------------------------------------------------------------
(* A register of access kind acc with these fields.                        *)

(* What the accessors rely on: the fields lie inside the register's type,  *)
(* and the type inside the bus word.                                       *)
Declares(word, type, acc, fields) ==
  /\ word \subseteq Nat
  /\ type \subseteq word
  /\ acc \in Access
  /\ fields \subseteq [lo : Nat, hi : Nat, access : FieldAccess]
  /\ \A f \in fields : FieldMask(f) \subseteq type

(* Mutant of SetWord: the force-zero mask is left out.                     *)
SetWordUnforced(acc, fields, f, v, seen) ==
  IF CanRead(acc) THEN Update(seen, FieldMask(f), Insert(v, f)) ELSE Insert(v, f)

(* What set_<reg>_<field> writes when it has read seen.                    *)
SetWord(acc, fields, f, v, seen) ==
  IF CanRead(acc) THEN Update(seen, ForceZero(fields) \cup FieldMask(f), Insert(v, f))
  ELSE Insert(v, f)

(* Mutants of ClearWord: the flag is or-ed into what was read; and on a wo *)
(* register the whole force-zero mask is written.                          *)
ClearWordOr(acc, fields, f, seen) == seen \cup FieldMask(f)

ClearWordAll(acc, fields, f, seen) ==
  IF CanRead(acc) THEN Update(seen, ForceZero(fields), FieldMask(f)) ELSE ForceZero(fields)

(* What clear_<reg>_<field> writes when it has read seen.                  *)
ClearWord(acc, fields, f, seen) ==
  IF CanRead(acc) THEN Update(seen, ForceZero(fields), FieldMask(f)) ELSE FieldMask(f)
=============================================================================
