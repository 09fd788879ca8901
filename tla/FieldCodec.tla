----------------------------- MODULE FieldCodec -----------------------------
(***************************************************************************)
(* One bitfield, from its declaration to the words on the bus: the checks  *)
(* of validate.rs, the const assertions that stand in where the macro does *)
(* not know a number, and the arithmetic of getter and setter.             *)
(*                                                                         *)
(* A word is the set of its 1 bits, as in RegisterWord.  A declaration is  *)
(* a record:                                                               *)
(*   bus, ty    the types of the map's bus and of the register             *)
(*   reg        the access kind of the register                            *)
(*   lo, hi     the field's bits; literal: whether they are literals and   *)
(*              stay what they are as u32                                  *)
(*   access     the field's modifier                                       *)
(*   type       what the field is read and written as, a record:           *)
(*     as         "raw", "bool", "int", "enum" or "custom" (a FieldValue)  *)
(*     int        the type an "int" is cast to; for an enum declared       *)
(*                inline, the type of the register it is declared in       *)
(*     inline     whether an enum is declared in a field                   *)
(*     variants   the enum's variants, records [value, literal]            *)
(*   beside     the other fields of its register, records [lo, hi, access,  *)
(*              literal]; each is a declaration of its own as well          *)
(***************************************************************************)
EXTENDS RegisterWord, Sequences

CONSTANTS
  Width,        \* Width[k]: the bits of integer type k on the target
  PosLimit,     \* positions are u32: numbers below 2^32
  Declarations, \* the declared fields
  Precision,    \* numbers of so many bits are exact as JSON numbers (53)
  Number(_),    \* the number JavaScript makes of a JSON number, as a BigInt ...
  Digits(_)     \* ... and the one it makes of that number's decimal digits

Kinds == DOMAIN Width

Bits(k) == 0 .. Width[k] - 1

ASSUME WidthAssumption ==
  /\ {"usize", "u64"} \subseteq Kinds
  /\ \A k \in Kinds : Width[k] \in Nat \ {0} /\ Width[k] <= Width["u64"]
  /\ PosLimit \in Nat /\ Width["u64"] <= PosLimit

(* What a JSON number loses above its precision is left to JavaScript.     *)
ASSUME PrecisionAssumption ==
  /\ Precision \in Nat \ {0}
  /\ \A n \in SUBSET Bits("u64") :
       n \subseteq 0 .. Precision - 1 => Number(n) = n /\ Digits(n) = n

(* What the parser lets through.                                           *)
Syntax ==
  [bus : Kinds, ty : Kinds, reg : Access, access : FieldAccess,
   lo : Nat, hi : Nat, literal : BOOLEAN,
   type : [as : {"raw", "bool", "int", "enum", "custom"}, int : Kinds, inline : BOOLEAN,
           variants : Seq([value : SUBSET Nat, literal : BOOLEAN])],
   beside : SUBSET [lo : Nat, hi : Nat, access : FieldAccess, literal : BOOLEAN]]

ASSUME SyntaxAssumption == Declarations \subseteq Syntax

VARIABLES
  d,       \* the declared field; since it was compiled, as the code has it
  status,  \* "written", "expanded" by the macro, "compiled", or "refused"
  word,    \* the bits the register was last written with, or changed to
  set      \* <<v>> when v was set and nothing has written since, or <<>>

vars == <<d, status, word, set>>

(* `value as k`                                                            *)
Cast(value, k) == value \cap Bits(k)

ShiftLeft(value, n, k) == Cast({b + n : b \in value}, k)
ShiftRight(value, n)   == {b - n : b \in {c \in value : c >= n}}

-----------------------------------------------------------------------------
(* What the macro checks.  It knows no width of usize, and neither the     *)
(* positions nor the variant values that are not literals.                 *)

Known(k) == k # "usize"

FieldWidth == d.hi - d.lo + 1

TypeFitsBus == Known(d.ty) /\ Known(d.bus) => Width[d.ty] <= Width[d.bus]

(* All fields of the register.                                             *)
AllFields == d.beside \cup {d}

Narrows(f, acc) == /\ f.access = "ro" => CanRead(acc)
                   /\ f.access \in {"wo", "w1c"} => CanWrite(acc)

(* Mutant: the last bit of the type is taken for one too many.             *)
RangeValidShort(f, ty) == f.literal => f.lo <= f.hi /\ (Known(ty) => f.hi + 1 < Width[ty])

RangeValid(f, ty) == f.literal => f.lo <= f.hi /\ (Known(ty) => f.hi < Width[ty])

(* The raw type of an enum: the bus's, or that of the register it is       *)
(* declared in.                                                            *)
RawType == IF d.type.inline THEN d.type.int ELSE d.bus

LiteralVariants == {i \in DOMAIN d.type.variants : d.type.variants[i].literal}

EnumValid ==
  /\ d.type.variants # <<>>
  /\ \A i \in LiteralVariants :
       ~d.type.inline /\ Known(RawType) => d.type.variants[i].value \subseteq Bits(RawType)
  /\ \A i, j \in LiteralVariants :
       i # j => d.type.variants[i].value # d.type.variants[j].value

(* Mutant: only an inline enum is compared with its field.                 *)
FieldTypeValidInline ==
  d.literal =>
    /\ d.type.as = "bool" => FieldWidth = 1
    /\ d.type.as = "int" /\ Known(d.type.int) => Width[d.type.int] >= FieldWidth
    /\ d.type.as = "enum" /\ d.type.inline =>
         \A i \in LiteralVariants : d.type.variants[i].value \subseteq 0 .. FieldWidth - 1

FieldTypeValid ==
  d.literal =>
    /\ d.type.as = "bool" => FieldWidth = 1
    /\ d.type.as = "int" /\ Known(d.type.int) => Width[d.type.int] >= FieldWidth
    /\ d.type.as = "enum" =>
         \A i \in LiteralVariants : d.type.variants[i].value \subseteq 0 .. FieldWidth - 1

Validates == /\ TypeFitsBus
             /\ \A f \in AllFields : Narrows(f, d.reg) /\ RangeValid(f, d.ty)
             /\ FieldTypeValid
             /\ d.type.as = "enum" => EnumValid

(* What the compiler makes of positions it is left with: `lo as u32` and   *)
(* `hi as u32`.  A literal is not changed by that if validate knew the     *)
(* width of the register.                                                  *)
Placed(f) == [f EXCEPT !.lo = @ % PosLimit,
                       !.hi = @ % PosLimit,
                       !.literal = @ /\ f.lo < PosLimit /\ f.hi < PosLimit]

PlacedDeclaration == [Placed(d) EXCEPT !.beside = {Placed(f) : f \in @}]

(* What the compiler checks, of the positions it made: the generated       *)
(* assertions, that literals fit their type, and that names are in scope.  *)

(* FieldPos::Const: masks are left to the compiler.                        *)
LeftOpen(f, ty) == ~(f.literal /\ Known(ty))

Deferred == LeftOpen(d, d.ty)

(* Mutant: for positions that are not literals, but not for literals in a  *)
(* usize register.                                                         *)
PositionAssertedNotUsize(f, ty) == ~f.literal => f.lo <= f.hi /\ f.hi < Width[ty]

PositionAsserted(f, ty) == LeftOpen(f, ty) => f.lo <= f.hi /\ f.hi < Width[ty]

BoolAsserted == Deferred /\ d.type.as = "bool" => d.lo = d.hi

WidthAsserted == ~(Known(d.ty) /\ Known(d.bus)) => Width[d.ty] <= Width[d.bus]

LiteralsTyped ==
  d.type.as = "enum" =>
    \A i \in LiteralVariants : d.type.variants[i].value \subseteq Bits(RawType)

(* The builder of a wo register names the constants of its fields as its   *)
(* own, but they are those of the map.                                     *)
WriterInScope ==
  d.reg = "wo" => \A f \in AllFields : FieldCanWrite(f.access, d.reg) => ~LeftOpen(f, d.ty)

Compiles == /\ \A f \in AllFields : PositionAsserted(f, d.ty)
            /\ BoolAsserted /\ WidthAsserted /\ LiteralsTyped /\ WriterInScope

-----------------------------------------------------------------------------
(* The arithmetic of the generated code.                                   *)

FullBus == ~Deferred /\ d.lo = 0 /\ Known(d.bus) /\ FieldWidth = Width[d.bus]

LowBits == 0 .. FieldWidth - 1

MaskOf(f, ty, bus) ==
  IF LeftOpen(f, ty)
    THEN ShiftLeft(IF f.hi - f.lo + 1 >= Width[bus] THEN Bits(bus) ELSE 0 .. f.hi - f.lo,
                   f.lo, bus)
    ELSE FieldMask(f)

Mask == MaskOf(d, d.ty, d.bus)

Forced == {f \in AllFields : ForcedZero(f.access)}

(* Mutant: beside the mask of a constant, those of literals are dropped.   *)
ForceZeroMaskOpen ==
  LET open == {f \in Forced : LeftOpen(f, d.ty)}
  IN UNION {MaskOf(f, d.ty, d.bus) : f \in IF open = {} THEN Forced ELSE open}

(* The masks of all forced fields, literal and constant, or-ed.            *)
ForceZeroMask == UNION {MaskOf(f, d.ty, d.bus) : f \in Forced}

(* Mutant: the field is shifted down and not masked.                       *)
ExtractedUnmasked == ShiftRight(word, d.lo)

Extracted == IF FullBus THEN word
             ELSE IF Deferred THEN ShiftRight(word \cap Mask, d.lo)
             ELSE ShiftRight(word, d.lo) \cap LowBits

TestBit == word \cap (IF Deferred THEN Mask ELSE {d.lo}) # {}

(* masked is false when the value is known to fit.                         *)
Positioned(value, masked) ==
  IF Deferred THEN ShiftLeft(value, d.lo, d.bus) \cap Mask
  ELSE ShiftLeft(IF masked /\ ~FullBus THEN value \cap LowBits ELSE value, d.lo, d.bus)

AllLiteral == LiteralVariants = DOMAIN d.type.variants

(* The raw value of a variant, as k.                                       *)
ToRaw(i, k) == IF d.type.variants[i].literal THEN d.type.variants[i].value
               ELSE Cast(d.type.variants[i].value, k)

(* Mutant: the match also leaves out the second variant.                   *)
DecodedSkipsTwo(raw, k) ==
  LET hits == {i \in DOMAIN d.type.variants : /\ AllLiteral => i > 2
                                              /\ ToRaw(i, k) = raw}
  IN IF hits = {} THEN 1 ELSE CHOOSE i \in hits : \A j \in hits : i <= j

(* A match on the second and later variants if all values are literals, a  *)
(* chain of comparisons otherwise; anything else is the first variant.     *)
Decoded(raw, k) ==
  LET hits == {i \in DOMAIN d.type.variants : /\ AllLiteral => i > 1
                                              /\ ToRaw(i, k) = raw}
  IN IF hits = {} THEN 1 ELSE CHOOSE i \in hits : \A j \in hits : i <= j

(* Whether the enum converts from the register's values itself, or as a    *)
(* FieldValue, through u64.                                                *)
Direct == RawType \in {d.bus, d.ty}

(* The value of the getter.                                                *)
Got == CASE d.type.as = "raw"    -> Cast(Extracted, d.ty)
         [] d.type.as = "bool"   -> TestBit
         [] d.type.as = "int"    -> Cast(Extracted, d.type.int)
         [] d.type.as = "enum"   -> IF Direct THEN Decoded(Cast(Extracted, RawType), RawType)
                                             ELSE Decoded(Extracted, "u64")
         [] d.type.as = "custom" -> Extracted

(* The values the setter takes, a variant by its number.                   *)
Values == CASE d.type.as = "raw"    -> SUBSET Bits(d.ty)
            [] d.type.as = "bool"   -> BOOLEAN
            [] d.type.as = "int"    -> SUBSET Bits(d.type.int)
            [] d.type.as = "enum"   -> DOMAIN d.type.variants
            [] d.type.as = "custom" -> SUBSET Bits("u64")

(* The bits of a value, in position.                                       *)
FieldBits(v) ==
  CASE d.type.as = "bool" -> Positioned(IF v THEN {0} ELSE {}, FALSE)
    [] d.type.as = "enum" -> Positioned(Cast(ToRaw(v, RawType), d.bus),
                                       ~AllLiteral \/ Deferred)
    [] OTHER              -> Positioned(Cast(v, d.bus), TRUE)

(* The words on the bus, given what the register reads as.                 *)
SetterWord(v) ==
  IF CanRead(d.reg) THEN Update(word, ForceZeroMask \cup Mask, FieldBits(v)) ELSE FieldBits(v)

ClearerWord == IF CanRead(d.reg) THEN Update(word, ForceZeroMask, Mask) ELSE Mask

(* One call on the builder of write_<reg> that has the bits of word: the   *)
(* method of a field, and that of a flag.                                  *)
BuilderWord(v) == Update(word, Mask, FieldBits(v))
BuilderClear   == word \cup Mask

-----------------------------------------------------------------------------
(* What the web page makes of the same field.  Its numbers have no width.  *)

(* The values it is sent as variants, in JSON; those of a custom type are  *)
(* external.                                                               *)
PageVariants == CASE d.type.as = "bool" -> <<{}, {0}>>
                  [] d.type.as = "enum" -> [i \in DOMAIN d.type.variants |-> ToRaw(i, "u64")]
                  [] OTHER              -> <<>>

(* Mutant: the mask is one bit short.                                      *)
PageFieldShort == ShiftRight(word, d.lo) \cap 0 .. d.hi - d.lo - 1

PageField == ShiftRight(word, d.lo) \cap LowBits

(* The variants it would show; find takes the first.                       *)
PageShows == {i \in DOMAIN PageVariants : Number(PageVariants[i]) = PageField}

PageMask == {b + d.lo : b \in LowBits}

(* The bits it writes into the field.                                      *)
PageBits(value) == {b + d.lo : b \in value} \cap PageMask

(* The number in the dropdown or the input for a value of the setter.      *)
PageEntry(v) == CASE d.type.as = "bool" -> Digits(PageVariants[IF v THEN 2 ELSE 1])
                  [] d.type.as = "enum" -> Digits(PageVariants[v])
                  [] OTHER              -> v

-----------------------------------------------------------------------------
Init == /\ d \in Declarations
        /\ status = "written"
        /\ word = {}
        /\ set = <<>>

Expand == /\ status = "written"
          /\ status' = IF Validates THEN "expanded" ELSE "refused"
          /\ UNCHANGED <<d, word, set>>

(* Mutant: the assertions are in constants nothing evaluates.              *)
CompileUnasserted == /\ status = "expanded"
                     /\ d' = PlacedDeclaration
                     /\ status' = IF LiteralsTyped' THEN "compiled" ELSE "refused"
                     /\ UNCHANGED <<word, set>>

Compile == /\ status = "expanded"
           /\ d' = PlacedDeclaration
           /\ status' = IF Compiles' THEN "compiled" ELSE "refused"
           /\ UNCHANGED <<word, set>>

(* set_<reg>_<field>: __update, or __write if the register is write-only.  *)
SetField(v) ==
  /\ status = "compiled"
  /\ FieldCanWrite(d.access, d.reg) /\ d.access # "w1c"
  /\ word' = SetterWord(v)
  /\ set' = <<v>>
  /\ UNCHANGED <<d, status>>

(* clear_<reg>_<field>                                                     *)
ClearField ==
  /\ status = "compiled"
  /\ FieldCanWrite(d.access, d.reg) /\ d.access = "w1c"
  /\ word' = ClearerWord
  /\ set' = <<>>
  /\ UNCHANGED <<d, status>>

(* The register changes by itself, bit by bit.                             *)
Hardware(b) == /\ status = "compiled"
               /\ word' = IF b \in word THEN word \ {b} ELSE word \cup {b}
               /\ set' = <<>>
               /\ UNCHANGED <<d, status>>

Next == \/ Expand
        \/ Compile
        \/ ClearField
        \/ \E v \in Values : SetField(v)
        \/ \E b \in Bits(d.bus) : Hardware(b)

Spec == Init /\ [][Next]_vars

-----------------------------------------------------------------------------
(* Properties.                                                             *)

(* Type invariant; what is compiled passed the macro and the compiler,     *)
(* with the positions the generated code has.                              *)
TypeOK == /\ d \in Syntax
          /\ status \in {"written", "expanded", "compiled", "refused"}
          /\ word \subseteq Bits(d.bus)
          /\ \/ set = <<>>
             \/ /\ status = "compiled"
                /\ \E v \in Values : set = <<v>>
          /\ status \in {"expanded", "compiled"} => Validates
          /\ status = "compiled" => Compiles

Bare(f) == [lo |-> f.lo, hi |-> f.hi, access |-> f.access]
Fields  == {Bare(f) : f \in AllFields}

(* A register that compiles is, in the positions its code has, declared as *)
(* the accessors and the web page assume (DeclarationAssumption): its      *)
(* fields lie inside its type and the type inside the bus, and a bool is   *)
(* one bit, whoever knew the numbers: validate or the assertions field_pos *)
(* generates.  A constant of 2^32 or more may have landed on other bits    *)
(* than it says (`as u32`); it never lands outside the register.           *)
CompiledIsSound ==
  status = "compiled" =>
    /\ Declares(Bits(d.bus), Bits(d.ty), d.reg, Fields)
    /\ \A f \in AllFields : f.lo <= f.hi
    /\ d.type.as = "bool" => d.lo = d.hi

(* A setter changes no bit outside its field but those forced to zero,     *)
(* although the setters of bools and of enums with literal values do not   *)
(* mask (field_write_expr): validate must have rejected whatever does not  *)
(* fit.                                                                    *)
OnlyItsBits ==
  [][set' # <<>> =>
       word' \ FieldMask(d)
         = IF CanRead(d.reg) THEN (word \ ForceZero(Fields)) \ FieldMask(d) ELSE {}]_vars

(* The declarations the macro can judge: no position, value or cast type   *)
(* is left to the compiler.                                                *)
Judged == /\ d.literal /\ AllLiteral
          /\ d.type.as = "int" => Known(d.type.int)

(* The field holds exactly what its type distinguishes.                    *)
NoMisfit ==
  /\ d.type.as = "int" => Width[d.type.int] >= FieldWidth
  /\ d.type.as = "enum" =>
       \A i \in DOMAIN d.type.variants : d.type.variants[i].value \subseteq LowBits

Decodable ==
  \/ Judged
  \/ /\ NoMisfit
     /\ \A i \in DOMAIN d.type.variants :
          /\ d.type.variants[i].value \subseteq Bits(RawType)
          /\ \A j \in DOMAIN d.type.variants :
               i # j => d.type.variants[i].value # d.type.variants[j].value

(* What a field means: its bits, or the variant that has them as value, or *)
(* the first variant.                                                      *)
Meaning ==
  LET bits == Extract(word, d)
      same == {i \in DOMAIN d.type.variants : d.type.variants[i].value = bits}
  IN CASE d.type.as = "bool" -> bits # {}
       [] d.type.as = "enum" -> IF same = {} THEN 1 ELSE CHOOSE i \in same : TRUE
       [] OTHER         -> bits

(* A getter returns what the field's bits mean, for any word the hardware  *)
(* may hold: casts, shifts at full width, the `_` arm of from_raw, and an  *)
(* enum of another register's type going through u64 lose nothing.  What   *)
(* the macro judged needs no other condition; the rest must fit.           *)
GetterIsExact == status = "compiled" /\ Decodable => Got = Meaning

(* What was set is read back: the variant, the bool, or as many bits of an *)
(* integer as the field has.                                               *)
SetIsRead ==
  status = "compiled" /\ Decodable /\ set # <<>> =>
    Got = IF d.type.as \in {"bool", "enum"} THEN set[1] ELSE set[1] \cap LowBits

(* The bits of a value, as the callers of the accessors mean it.           *)
Encoded(v) == CASE d.type.as = "bool" -> IF v THEN {0} ELSE {}
                [] d.type.as = "enum" -> d.type.variants[v].value
                [] OTHER              -> v

(* Whichever masks are literals and whichever are constants, cut and       *)
(* shifted by the macro or by the compiler, the methods of a register      *)
(* write the words that RegisterAccess takes them to write; so do those of *)
(* the builder where there is one.                                         *)
WordsAgree ==
  status = "compiled" /\ Decodable =>
    /\ ClearerWord = ClearWord(d.reg, Fields, Bare(d), word)
    /\ d.reg = "wo" => BuilderClear = word \cup FieldMask(d)
    /\ \A v \in Values :
         /\ SetterWord(v) = SetWord(d.reg, Fields, Bare(d), Encoded(v), word)
         /\ d.reg = "wo" => BuilderWord(v) = Update(word, FieldMask(d), Insert(Encoded(v), d))

(* The page receives the values of the variants unharmed.                  *)
Precise == d.type.as = "enum" =>
             \A i \in DOMAIN d.type.variants : d.type.variants[i].value \subseteq 0 .. Precision - 1

(* The page and the accessors are two implementations of one field, in     *)
(* JavaScript and in what the macro generates: the page shows the variant  *)
(* or the number the getter returns (extractBits), and a Set with a value  *)
(* puts the same bits into the field as the setter (writeBitfield).  Of    *)
(* enums that holds if JSON numbers are exact for all their values.        *)
PageAgrees ==
  status = "compiled" /\ Decodable /\ Precise =>
    /\ d.type.as = "bool" => (2 \in PageShows <=> Got) /\ (1 \in PageShows <=> ~Got)
    /\ d.type.as = "enum" => IF PageShows = {} THEN Got = 1 ELSE PageShows = {Got}
    /\ d.type.as \notin {"bool", "enum"} => Got = PageField
    /\ \A v \in Values : FieldBits(v) = PageBits(PageEntry(v))

(* What the documentation asks of a register, its fields and their types.  *)
Legal ==
  /\ Width[d.ty] <= Width[d.bus]
  /\ \A f \in AllFields : Narrows(f, d.reg) /\ f.lo <= f.hi /\ f.hi < Width[d.ty]
  /\ d.type.as = "bool" => d.lo = d.hi
  /\ NoMisfit
  /\ d.type.as = "enum" =>
       /\ d.type.variants # <<>>
       /\ \A i \in DOMAIN d.type.variants :
            /\ d.type.variants[i].value \subseteq Bits(RawType)
            /\ \A j \in DOMAIN d.type.variants :
                 i # j => d.type.variants[i].value # d.type.variants[j].value

(* The checks of validate and the assertions of field_pos, made by two     *)
(* parties of whom neither knows all, refuse nothing that is legal, but    *)
(* for what the builder of a wo register cannot name (expand_writer): its  *)
(* fields at positions that are constants, or in a usize register.         *)
LegalAccepted ==
  status = "refused" /\ Legal => d.reg = "wo" /\ \E f \in AllFields : LeftOpen(f, d.ty)

(* "enum values that don't fit a field using them, casts narrower than the *)
(* field [...] are reported as compile errors.  Checks that depend on the  *)
(* target (`usize` widths, non-literal expressions) are enforced by        *)
(* generated `const` assertions." (lib.rs:279-285)                         *)
MisfitsRefused == status = "compiled" => NoMisfit
=============================================================================
