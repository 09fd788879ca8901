--------------------------- MODULE FieldCodecProofs ---------------------------
(***************************************************************************)
(* Theorems about FieldCodec, for every width of the integer types and     *)
(* every declaration: what compiles is sound, and no setter leaves its     *)
(* field, masked or not.                                                   *)
(***************************************************************************)
EXTENDS FieldCodec, TLAPS

(* The typing facts of one declaration.                                    *)
LEMMA DeclaredTypes ==
  ASSUME d \in Syntax
  PROVE  /\ {d.bus, d.ty, d.type.int, "u64", RawType} \subseteq Kinds
         /\ d.lo \in Nat /\ d.hi \in Nat /\ d.literal \in BOOLEAN
         /\ d.type.as \in {"raw", "bool", "int", "enum", "custom"}
         /\ \A k \in Kinds : Width[k] \in Nat \ {0}
BY WidthAssumption DEF RawType, Syntax

(* Every field of the register, of which the declared one is one.          *)
LEMMA FieldsTyped ==
  ASSUME d \in Syntax, NEW f \in AllFields
  PROVE  f.lo \in Nat /\ f.hi \in Nat /\ f.access \in FieldAccess /\ f.literal \in BOOLEAN
<1>1. CASE f = d
  BY <1>1 DEF Syntax
<1>2. CASE f \in d.beside
  BY <1>2 DEF Syntax
<1> QED BY <1>1, <1>2 DEF AllFields

(* Between them, validate and the assertions make every check, for the     *)
(* fields declared beside this one as well.                                *)
LEMMA ChecksAreComplete ==
  ASSUME d \in Syntax, Validates, Compiles
  PROVE  /\ d.lo <= d.hi /\ d.hi < Width[d.ty] /\ Width[d.ty] <= Width[d.bus]
         /\ d.type.as = "bool" => d.lo = d.hi
         /\ \A f \in AllFields : f.lo <= f.hi /\ f.hi < Width[d.ty]
<1>1. ASSUME NEW f \in AllFields PROVE f.lo <= f.hi /\ f.hi < Width[d.ty]
  <2>1. RangeValid(f, d.ty) /\ PositionAsserted(f, d.ty)
    BY DEF Validates, Compiles
  <2>2. f.literal \in BOOLEAN
    BY FieldsTyped
  <2> QED BY <2>1, <2>2 DEF RangeValid, PositionAsserted, LeftOpen
<1>2. d \in AllFields
  BY DEF AllFields
<1>3. Width[d.ty] <= Width[d.bus]
  BY DEF Validates, Compiles, TypeFitsBus, WidthAsserted
<1>4. ASSUME d.type.as = "bool" PROVE d.lo = d.hi
  <2>1. CASE d.literal
    BY <1>4, <2>1, DeclaredTypes DEF Validates, FieldTypeValid, FieldWidth
  <2>2. CASE ~d.literal
    BY <1>4, <2>2 DEF Compiles, BoolAsserted, Deferred, LeftOpen
  <2> QED BY <2>1, <2>2
<1> QED BY <1>1, <1>2, <1>3, <1>4

(* Both ways of computing a mask give the bits lo to hi, also where the    *)
(* field is as wide as the bus.                                            *)
LEMMA MaskOfIsField ==
  ASSUME d \in Syntax, Validates, Compiles, NEW f \in AllFields
  PROVE  MaskOf(f, d.ty, d.bus) = f.lo .. f.hi
<1> DEFINE W == Width[d.bus]
           M == MaskOf(f, d.ty, d.bus)
<1>1. f.lo \in Nat /\ f.hi \in Nat /\ f.lo <= f.hi
  BY FieldsTyped, ChecksAreComplete
<1>2. W \in Nat /\ f.hi < W
  <2>1. W \in Nat /\ Width[d.ty] \in Nat
    BY DeclaredTypes
  <2> QED BY <1>1, <2>1, ChecksAreComplete
<1>3. CASE ~LeftOpen(f, d.ty)
  BY <1>3 DEF MaskOf, FieldMask
<1>4. CASE LeftOpen(f, d.ty) /\ f.hi - f.lo + 1 >= W
  <2>1. f.lo = 0 /\ f.hi = W - 1
    BY <1>1, <1>2, <1>4
  <2>2. M = {b + f.lo : b \in 0 .. W - 1} \cap 0 .. W - 1
    BY <1>4 DEF MaskOf, ShiftLeft, Cast, Bits
  <2> QED BY <1>1, <1>2, <2>1, <2>2
<1>5. CASE LeftOpen(f, d.ty) /\ ~(f.hi - f.lo + 1 >= W)
  <2>1. M = {b + f.lo : b \in 0 .. f.hi - f.lo} \cap 0 .. W - 1
    BY <1>5 DEF MaskOf, ShiftLeft, Cast, Bits
  <2>2. ASSUME NEW b \in f.lo .. f.hi PROVE b \in M
    <3>1. b - f.lo \in 0 .. f.hi - f.lo /\ b = (b - f.lo) + f.lo /\ b \in 0 .. W - 1
      BY <1>1, <1>2
    <3> QED BY <2>1, <3>1
  <2>3. ASSUME NEW b \in M PROVE b \in f.lo .. f.hi
    BY <1>1, <2>1
  <2> QED BY <2>2, <2>3
<1> QED BY <1>3, <1>4, <1>5

LEMMA MaskIsField ==
  ASSUME d \in Syntax, Validates, Compiles
  PROVE  Mask = d.lo .. d.hi
BY MaskOfIsField DEF Mask, AllFields

(* Masks that are literals and masks that are constants, or-ed, are the    *)
(* bits of all flags and commands of the register.                         *)
LEMMA ForcedIsForceZero ==
  ASSUME d \in Syntax, Validates, Compiles
  PROVE  ForceZeroMask = ForceZero(Fields)
<1> DEFINE M(f) == MaskOf(f, d.ty, d.bus)
<1>1. ASSUME NEW f \in AllFields
      PROVE  /\ M(f) = FieldMask(Bare(f)) /\ Bare(f) \in Fields
             /\ f \in Forced <=> ForcedZero(Bare(f).access)
  <2>1. M(f) = f.lo .. f.hi
    BY MaskOfIsField
  <2> QED BY <2>1 DEF FieldMask, Bare, Fields, Forced
<1>2. ASSUME NEW b \in ForceZeroMask PROVE b \in ForceZero(Fields)
  <2>1. PICK f \in Forced : b \in M(f)
    BY DEF ForceZeroMask
  <2>2. f \in AllFields
    BY <2>1 DEF Forced
  <2> QED BY <1>1, <2>1, <2>2 DEF ForceZero
<1>3. ASSUME NEW b \in ForceZero(Fields) PROVE b \in ForceZeroMask
  <2>1. PICK g \in Fields : ForcedZero(g.access) /\ b \in FieldMask(g)
    BY DEF ForceZero
  <2>2. PICK f \in AllFields : g = Bare(f)
    BY DEF Fields
  <2>3. b \in M(f) /\ f \in Forced
    BY <1>1, <2>1, <2>2
  <2> QED BY <2>3 DEF ForceZeroMask
<1> QED BY <1>2, <1>3

(* A value in the low bits of the field lands in the field, and so does    *)
(* any value of the bus that is masked.                                    *)
LEMMA PositionedInField ==
  ASSUME d \in Syntax, Validates, Compiles,
         NEW value, NEW masked \in BOOLEAN,
         value \subseteq Bits(d.bus),
         masked \/ Deferred \/ value \subseteq LowBits
  PROVE  Positioned(value, masked) \subseteq d.lo .. d.hi
<1>1. /\ d.lo \in Nat /\ d.hi \in Nat /\ Width[d.bus] \in Nat
      /\ d.lo <= d.hi /\ d.hi < Width[d.bus]
  BY DeclaredTypes, ChecksAreComplete
<1>2. CASE Deferred
  BY <1>2, MaskIsField DEF Positioned
<1>3. CASE ~Deferred
  <2> DEFINE core == IF masked /\ ~FullBus THEN value \cap LowBits ELSE value
  <2>1. core \subseteq LowBits
    <3>1. FullBus => Bits(d.bus) = LowBits
      BY DEF FullBus, Bits, LowBits
    <3> QED BY <1>3, <3>1
  <2>2. Positioned(value, masked) \subseteq {b + d.lo : b \in core}
    BY <1>3 DEF Positioned, ShiftLeft, Cast
  <2>3. \A b \in core : b + d.lo \in d.lo .. d.hi
    <3>1. FieldWidth - 1 = d.hi - d.lo
      BY <1>1 DEF FieldWidth
    <3>2. \A b \in 0 .. d.hi - d.lo : b + d.lo \in d.lo .. d.hi
      BY <1>1
    <3> QED BY <2>1, <3>1, <3>2 DEF LowBits
  <2> QED BY <2>2, <2>3
<1> QED BY <1>2, <1>3

(* The bits of a value lie in the field; the setters that do not mask rely *)
(* on what validate rejected.                                              *)
LEMMA ValueInField ==
  ASSUME d \in Syntax, Validates, Compiles, NEW v \in Values
  PROVE  FieldBits(v) \subseteq d.lo .. d.hi
<1>1. /\ d.lo \in Nat /\ d.hi \in Nat /\ Width[d.bus] \in Nat \ {0}
      /\ d.lo <= d.hi
      /\ d.type.as \in {"raw", "bool", "int", "enum", "custom"}
  BY DeclaredTypes, ChecksAreComplete
<1>2. CASE d.type.as = "bool"
  <2> DEFINE bit == IF v THEN {0} ELSE {}
  <2>1. FieldBits(v) = Positioned(bit, FALSE)
    BY <1>2 DEF FieldBits
  <2>2. bit \subseteq Bits(d.bus) /\ bit \subseteq LowBits
    BY <1>1 DEF Bits, LowBits, FieldWidth
  <2> QED BY <2>1, <2>2, PositionedInField
<1>3. CASE d.type.as = "enum"
  <2> DEFINE bits == Cast(ToRaw(v, RawType), d.bus)
             masked == ~AllLiteral \/ Deferred
  <2>1. FieldBits(v) = Positioned(bits, masked)
    BY <1>3 DEF FieldBits
  <2>2. bits \subseteq Bits(d.bus)
    BY DEF Cast
  <2>3. ASSUME ~masked PROVE bits \subseteq LowBits
    <3>1. v \in DOMAIN d.type.variants /\ v \in LiteralVariants
      BY <1>3, <2>3 DEF Values, AllLiteral
    <3>2. d.type.variants[v].value \subseteq LowBits
      BY <1>3, <2>3, <3>1 DEF Validates, FieldTypeValid, Deferred, LeftOpen, LowBits
    <3> QED BY <3>1, <3>2 DEF ToRaw, Cast, LiteralVariants
  <2>4. masked \in BOOLEAN
    OBVIOUS
  <2> HIDE DEF bits, masked
  <2>5. masked \/ bits \subseteq LowBits
    BY <2>3
  <2> QED BY <2>1, <2>2, <2>4, <2>5, PositionedInField
<1>4. CASE d.type.as \in {"raw", "int", "custom"}
  <2>1. FieldBits(v) = Positioned(Cast(v, d.bus), TRUE)
    BY <1>4 DEF FieldBits
  <2>2. Cast(v, d.bus) \subseteq Bits(d.bus)
    BY DEF Cast
  <2> QED BY <2>1, <2>2, PositionedInField
<1> QED BY <1>1, <1>2, <1>3, <1>4

(* Setters, clearers and the hardware write no bit the bus does not have.  *)
LEMMA WordsFitBus ==
  ASSUME d \in Syntax, Validates, Compiles, word \subseteq Bits(d.bus)
  PROVE  /\ ClearerWord \subseteq Bits(d.bus)
         /\ \A v \in Values : SetterWord(v) \subseteq Bits(d.bus)
<1>1. d.lo .. d.hi \subseteq Bits(d.bus)
  <2>1. /\ d.lo \in Nat /\ d.hi \in Nat /\ Width[d.bus] \in Nat
        /\ d.lo <= d.hi /\ d.hi < Width[d.bus]
    BY DeclaredTypes, ChecksAreComplete
  <2> QED BY <2>1 DEF Bits
<1>2. Mask \subseteq Bits(d.bus)
  BY <1>1, MaskIsField
<1>3. \A v \in Values : FieldBits(v) \subseteq Bits(d.bus)
  BY <1>1, ValueInField
<1>4. ClearerWord \subseteq Bits(d.bus)
  BY <1>2 DEF ClearerWord, Update
<1> QED BY <1>3, <1>4 DEF SetterWord, Update

(* What depends on the declaration alone does not change with the state.   *)
LEMMA DeclarationFixed ==
  ASSUME UNCHANGED d
  PROVE  /\ Validates' = Validates /\ Compiles' = Compiles /\ Values' = Values
         /\ Bits(d.bus)' = Bits(d.bus)
<1>1. /\ RawType' = RawType /\ LiteralVariants' = LiteralVariants /\ Deferred' = Deferred
      /\ FieldWidth' = FieldWidth /\ AllFields' = AllFields
  BY DEF RawType, LiteralVariants, Deferred, LeftOpen, FieldWidth, AllFields
<1>2. Validates' = Validates
  BY <1>1 DEF Validates, TypeFitsBus, Narrows, RangeValid, FieldTypeValid, EnumValid, Bits
<1>3. Compiles' = Compiles
  BY <1>1 DEF Compiles, PositionAsserted, LeftOpen, BoolAsserted, WidthAsserted,
              LiteralsTyped, WriterInScope, Bits
<1>4. Values' = Values
  BY DEF Values, Bits
<1> QED BY <1>2, <1>3, <1>4 DEF Bits

-----------------------------------------------------------------------------
(* What the compiler makes of a number.                                    *)
LEMMA PlacedNumber ==
  ASSUME NEW n \in Nat
  PROVE  /\ n % PosLimit \in Nat
         /\ n < PosLimit => n % PosLimit = n
<1>1. PosLimit \in Nat \ {0}
  BY WidthAssumption DEF Kinds
<1> QED BY <1>1

(* What it makes of the positions of another field of the register ...     *)
LEMMA PlacedField ==
  ASSUME NEW f \in [lo : Nat, hi : Nat, access : FieldAccess, literal : BOOLEAN]
  PROVE  /\ Placed(f) \in [lo : Nat, hi : Nat, access : FieldAccess, literal : BOOLEAN]
         /\ Placed(f).access = f.access
         /\ Placed(f).literal => f.literal /\ Placed(f).lo = f.lo /\ Placed(f).hi = f.hi
<1> DEFINE lo == f.lo % PosLimit
           hi == f.hi % PosLimit
           literal == f.literal /\ f.lo < PosLimit /\ f.hi < PosLimit
<1>1. /\ lo \in Nat /\ hi \in Nat /\ literal \in BOOLEAN
      /\ literal => f.literal /\ lo = f.lo /\ hi = f.hi
  BY PlacedNumber
<1>2. Placed(f) = [f EXCEPT !.lo = lo, !.hi = hi, !.literal = literal]
  BY DEF Placed
<1> HIDE DEF lo, hi, literal
<1>3. Placed(f) \in [lo : Nat, hi : Nat, access : FieldAccess, literal : BOOLEAN]
  BY <1>1, <1>2
<1>4. Placed(f).lo = lo /\ Placed(f).hi = hi /\ Placed(f).access = f.access
  BY <1>1, <1>2
<1>5. Placed(f).literal => literal
  BY <1>1, <1>2
<1> QED BY <1>1, <1>3, <1>4, <1>5

(* ... and of a declaration: only positions change, and no literal.        *)
LEMMA PlacedTypes ==
  ASSUME d \in Syntax, d' = PlacedDeclaration
  PROVE  /\ d' \in Syntax
         /\ d'.bus = d.bus /\ d'.ty = d.ty /\ d'.reg = d.reg
         /\ d'.access = d.access /\ d'.type = d.type
         /\ d'.literal => d.literal /\ d'.lo = d.lo /\ d'.hi = d.hi
         /\ d'.beside = {Placed(f) : f \in d.beside}
<1> DEFINE lo == d.lo % PosLimit
           hi == d.hi % PosLimit
           literal == d.literal /\ d.lo < PosLimit /\ d.hi < PosLimit
           beside == {Placed(f) : f \in d.beside}
           p == Placed(d)
<1>1. /\ lo \in Nat /\ hi \in Nat /\ literal \in BOOLEAN
      /\ literal => d.literal /\ lo = d.lo /\ hi = d.hi
  BY PlacedNumber DEF Syntax
<1>2. beside \in SUBSET [lo : Nat, hi : Nat, access : FieldAccess, literal : BOOLEAN]
  BY PlacedField DEF Syntax
<1>3. p = [d EXCEPT !.lo = lo, !.hi = hi, !.literal = literal]
  BY DEF Placed
<1> HIDE DEF lo, hi, literal, p
<1>4. p \in Syntax
  BY <1>1, <1>3 DEF Syntax
<1>5. /\ p.bus = d.bus /\ p.ty = d.ty /\ p.reg = d.reg /\ p.access = d.access
      /\ p.type = d.type /\ p.beside = d.beside /\ p.lo = lo /\ p.hi = hi
  BY <1>1, <1>3 DEF Syntax
<1>6. p.literal => literal
  BY <1>1, <1>3 DEF Syntax
<1>7. d' = [p EXCEPT !.beside = beside]
  BY <1>5 DEF PlacedDeclaration, p
<1> HIDE DEF beside
<1>8. d' \in Syntax
  BY <1>2, <1>4, <1>7 DEF Syntax
<1>9. /\ d'.bus = p.bus /\ d'.ty = p.ty /\ d'.reg = p.reg /\ d'.access = p.access
      /\ d'.type = p.type /\ d'.beside = beside /\ d'.lo = p.lo /\ d'.hi = p.hi
      /\ d'.literal = p.literal
  BY <1>4, <1>7 DEF Syntax
<1> QED BY <1>1, <1>5, <1>6, <1>8, <1>9 DEF beside

(* What validate accepted it would accept as well of the positions the     *)
(* code has.                                                               *)
LEMMA PlacedValidates ==
  ASSUME d \in Syntax, Validates, d' = PlacedDeclaration
  PROVE  Validates'
<1>1. /\ d'.bus = d.bus /\ d'.ty = d.ty /\ d'.reg = d.reg
      /\ d'.access = d.access /\ d'.type = d.type
      /\ d'.literal => d.literal /\ d'.lo = d.lo /\ d'.hi = d.hi
      /\ d'.beside = {Placed(f) : f \in d.beside}
  BY PlacedTypes
<1>2. ASSUME NEW g \in AllFields' PROVE Narrows(g, d'.reg) /\ RangeValid(g, d'.ty)
  <2>1. CASE g = d'
    <3>1. Narrows(d, d.reg) /\ RangeValid(d, d.ty)
      BY DEF Validates, AllFields
    <3> QED BY <1>1, <2>1, <3>1 DEF Narrows, RangeValid
  <2>2. CASE g \in d'.beside
    <3>1. PICK f \in d.beside : g = Placed(f)
      BY <1>1, <2>2
    <3>2. /\ g.access = f.access
          /\ g.literal => f.literal /\ g.lo = f.lo /\ g.hi = f.hi
      BY <3>1, PlacedField DEF Syntax
    <3>3. Narrows(f, d.reg) /\ RangeValid(f, d.ty)
      BY DEF Validates, AllFields
    <3> QED BY <1>1, <3>2, <3>3 DEF Narrows, RangeValid
  <2> QED BY <2>1, <2>2 DEF AllFields
<1>3. RawType' = RawType /\ LiteralVariants' = LiteralVariants
  BY <1>1 DEF RawType, LiteralVariants
<1>4. TypeFitsBus' /\ (d'.type.as = "enum" => EnumValid')
  BY <1>1, <1>3 DEF Validates, TypeFitsBus, EnumValid, Bits
<1>5. FieldTypeValid'
  <2>1. d'.literal => FieldWidth' = FieldWidth
    BY <1>1 DEF FieldWidth
  <2> QED BY <1>1, <1>3, <2>1 DEF Validates, FieldTypeValid
<1> QED BY <1>2, <1>4, <1>5 DEF Validates

(* The type invariant is inductive as it stands.                           *)
LEMMA StepKeepsTypes == TypeOK /\ [Next]_vars => TypeOK'
<1> SUFFICES ASSUME TypeOK, [Next]_vars PROVE TypeOK'
  OBVIOUS
<1>1. CASE Expand
  <2>1. UNCHANGED <<d, word, set>> /\ set = <<>>
        /\ status' = IF Validates THEN "expanded" ELSE "refused"
    BY <1>1 DEF Expand, TypeOK
  <2> QED BY <2>1, DeclarationFixed DEF TypeOK
<1>2. CASE Compile
  <2>1. /\ UNCHANGED <<word, set>> /\ set = <<>> /\ status = "expanded"
        /\ d' = PlacedDeclaration
        /\ status' = IF Compiles' THEN "compiled" ELSE "refused"
    BY <1>2 DEF Compile, TypeOK
  <2>2. d' \in Syntax /\ Validates' /\ d'.bus = d.bus
    BY <2>1, PlacedTypes, PlacedValidates DEF TypeOK
  <2>3. word' \subseteq Bits(d'.bus)
    BY <2>1, <2>2 DEF TypeOK
  <2> QED BY <2>1, <2>2, <2>3 DEF TypeOK
<1>3. ASSUME NEW v \in Values, SetField(v) PROVE TypeOK'
  <2>1. UNCHANGED d /\ UNCHANGED status /\ status = "compiled" /\ set' = <<v>>
    BY <1>3 DEF SetField
  <2>2. word' \subseteq Bits(d.bus)
    BY <1>3, <2>1, WordsFitBus DEF SetField, TypeOK
  <2> QED BY <2>1, <2>2, DeclarationFixed DEF TypeOK
<1>4. ASSUME NEW b \in Bits(d.bus), Hardware(b) PROVE TypeOK'
  <2>1. UNCHANGED d /\ UNCHANGED status /\ set' = <<>>
    BY <1>4 DEF Hardware
  <2>2. word' \subseteq Bits(d.bus)
    BY <1>4 DEF Hardware, TypeOK
  <2> QED BY <2>1, <2>2, DeclarationFixed DEF TypeOK
<1>5. CASE ClearField
  <2>1. UNCHANGED d /\ UNCHANGED status /\ status = "compiled" /\ set' = <<>>
    BY <1>5 DEF ClearField
  <2>2. word' \subseteq Bits(d.bus)
    BY <1>5, <2>1, WordsFitBus DEF ClearField, TypeOK
  <2> QED BY <2>1, <2>2, DeclarationFixed DEF TypeOK
<1>6. CASE UNCHANGED vars
  BY <1>6, DeclarationFixed DEF vars, TypeOK
<1> QED BY <1>1, <1>2, <1>3, <1>4, <1>5, <1>6 DEF Next

(* The type invariant holds in every reachable state: what compiled passed *)
(* both checks, and a word never has a bit the bus does not have.          *)
THEOREM TypeCorrect == Spec => []TypeOK
<1>1. Init => TypeOK
  BY SyntaxAssumption DEF Init, TypeOK
<1> QED BY <1>1, StepKeepsTypes, PTL DEF Spec

(* Every field of a register that compiles lies inside its type and the    *)
(* type inside the bus, whichever numbers the macro knew: what             *)
(* DeclarationAssumption asks of the registers that RegisterAccess and     *)
(* WebPage are proved about.                                               *)
THEOREM Sound == Spec => []CompiledIsSound
<1>1. ASSUME d \in Syntax, Validates, Compiles
      PROVE  Declares(Bits(d.bus), Bits(d.ty), d.reg, Fields)
  <2>1. Width[d.bus] \in Nat /\ Width[d.ty] \in Nat /\ Width[d.ty] <= Width[d.bus]
    BY <1>1, DeclaredTypes, ChecksAreComplete
  <2>2. Bits(d.bus) \subseteq Nat /\ Bits(d.ty) \subseteq Bits(d.bus)
    BY <2>1 DEF Bits
  <2>3. d.reg \in Access
    BY <1>1 DEF Syntax
  <2>4. ASSUME NEW f \in AllFields
        PROVE  /\ Bare(f) \in [lo : Nat, hi : Nat, access : FieldAccess]
               /\ FieldMask(Bare(f)) \subseteq Bits(d.ty)
    <3>1. f.lo \in Nat /\ f.hi \in Nat /\ f.access \in FieldAccess
      BY <1>1, FieldsTyped
    <3>2. f.lo .. f.hi \subseteq Bits(d.ty)
      BY <1>1, <2>1, <3>1, ChecksAreComplete DEF Bits
    <3> QED BY <3>1, <3>2 DEF Bare, FieldMask
  <2> QED BY <2>2, <2>3, <2>4 DEF Declares, Fields
<1>2. TypeOK => CompiledIsSound
  BY <1>1, ChecksAreComplete DEF TypeOK, CompiledIsSound
<1> QED BY <1>2, TypeCorrect, PTL

(* No setter changes a bit outside its field but the flags and commands it *)
(* forces to zero, although those of bools and of enums with literal       *)
(* values do not mask.                                                     *)
THEOREM NoSpill == Spec => OnlyItsBits
<1>1. TypeOK /\ [Next]_vars =>
        [set' # <<>> =>
           word' \ FieldMask(d)
             = IF CanRead(d.reg) THEN (word \ ForceZero(Fields)) \ FieldMask(d) ELSE {}]_vars
  <2> SUFFICES ASSUME TypeOK, Next, set' # <<>>
               PROVE  word' \ FieldMask(d)
                        = IF CanRead(d.reg) THEN (word \ ForceZero(Fields)) \ FieldMask(d)
                          ELSE {}
    OBVIOUS
  <2>1. PICK v \in Values : SetField(v)
    BY DEF Next, Expand, Compile, ClearField, Hardware, TypeOK
  <2>2. d \in Syntax /\ Validates /\ Compiles
    BY <2>1 DEF SetField, TypeOK
  <2>3. /\ Mask = FieldMask(d) /\ FieldBits(v) \subseteq FieldMask(d)
        /\ ForceZeroMask = ForceZero(Fields)
    BY <2>2, MaskIsField, ValueInField, ForcedIsForceZero DEF FieldMask
  <2> QED BY <2>1, <2>3 DEF SetField, SetterWord, Update
<1> QED BY <1>1, TypeCorrect, PTL DEF Spec, OnlyItsBits

-----------------------------------------------------------------------------
(* The numbers of a declaration that compiles.                             *)
LEMMA Geometry ==
  ASSUME d \in Syntax, Validates, Compiles
  PROVE  /\ d.lo \in Nat /\ d.hi \in Nat /\ d.lo <= d.hi
         /\ Width[d.ty] \in Nat /\ Width[d.bus] \in Nat /\ Width["u64"] \in Nat
         /\ d.hi < Width[d.ty] /\ Width[d.ty] <= Width[d.bus] /\ Width[d.bus] <= Width["u64"]
         /\ FieldWidth = d.hi - d.lo + 1
         /\ LowBits = 0 .. d.hi - d.lo
         /\ FieldMask(d) = d.lo .. d.hi
<1>1. /\ d.lo \in Nat /\ d.hi \in Nat /\ d.lo <= d.hi
      /\ Width[d.ty] \in Nat /\ Width[d.bus] \in Nat /\ Width["u64"] \in Nat
      /\ d.hi < Width[d.ty] /\ Width[d.ty] <= Width[d.bus]
  BY DeclaredTypes, ChecksAreComplete
<1>2. Width[d.bus] <= Width["u64"]
  BY DeclaredTypes, WidthAssumption
<1>3. FieldWidth = d.hi - d.lo + 1 /\ FieldWidth - 1 = d.hi - d.lo
  BY <1>1 DEF FieldWidth
<1> QED BY <1>1, <1>2, <1>3 DEF LowBits, FieldMask

(* What is shifted down, with either mask and at full width, is the field. *)
LEMMA ExtractedIsField ==
  ASSUME d \in Syntax, Validates, Compiles, word \subseteq Bits(d.bus)
  PROVE  /\ Extracted = Extract(word, d)
         /\ Extracted \subseteq LowBits
<1> USE Geometry
<1>1. Extract(word, d) = {b - d.lo : b \in word \cap (d.lo .. d.hi)}
  BY DEF Extract
<1>2. Extract(word, d) \subseteq LowBits
  BY <1>1
<1>3. CASE FullBus
  <2>1. d.lo = 0 /\ d.hi = Width[d.bus] - 1 /\ Extracted = word
    BY <1>3 DEF FullBus, Extracted
  <2>2. word \subseteq 0 .. d.hi
    BY <2>1 DEF Bits
  <2>3. \A b \in word : b \in Int /\ b - d.lo = b /\ b \in d.lo .. d.hi
    BY <2>1, <2>2
  <2>4. Extract(word, d) = word
    BY <1>1, <2>3
  <2> QED BY <2>1, <2>4, <1>2
<1>4. CASE ~FullBus /\ Deferred
  <2>1. Extracted = ShiftRight(word \cap (d.lo .. d.hi), d.lo)
    BY <1>4, MaskIsField DEF Extracted
  <2>2. \A b \in word \cap (d.lo .. d.hi) : b >= d.lo
    OBVIOUS
  <2>3. Extracted = Extract(word, d)
    BY <1>1, <2>1, <2>2 DEF ShiftRight
  <2> QED BY <2>3, <1>2
<1>5. CASE ~FullBus /\ ~Deferred
  <2>1. Extracted = {b - d.lo : b \in {c \in word : c >= d.lo}} \cap (0 .. d.hi - d.lo)
    BY <1>5 DEF Extracted, ShiftRight
  <2>2. \A b \in word : b \in Nat
    BY DEF Bits
  <2>3. \A b \in word : b >= d.lo /\ b - d.lo \in 0 .. d.hi - d.lo <=> b \in d.lo .. d.hi
    BY <2>2
  <2>4. Extracted \subseteq Extract(word, d)
    BY <2>1, <2>3, <1>1
  <2>5. Extract(word, d) \subseteq Extracted
    BY <2>1, <2>2, <2>3, <1>1
  <2> QED BY <2>4, <2>5, <1>2
<1> QED BY <1>3, <1>4, <1>5

(* What the checks leave of a field's type.                                *)
LEMMA TypeHolds ==
  ASSUME d \in Syntax, Validates, Compiles, Decodable
  PROVE  NoMisfit
<1>1. CASE Judged
  <2>1. d.literal /\ LiteralVariants = DOMAIN d.type.variants
    BY <1>1 DEF Judged, AllLiteral
  <2>2. d.type.as = "int" => Width[d.type.int] >= FieldWidth
    BY <1>1, <2>1 DEF Judged, Validates, FieldTypeValid
  <2>3. d.type.as = "enum" =>
          \A i \in DOMAIN d.type.variants : d.type.variants[i].value \subseteq LowBits
    BY <2>1 DEF Validates, FieldTypeValid, LowBits
  <2> QED BY <2>2, <2>3 DEF NoMisfit
<1> QED BY <1>1 DEF Decodable

(* What the run misfits finds compiled although it does not fit needs a    *)
(* constant: the macro refuses every misfit among the declarations it can  *)
(* judge by itself.                                                        *)
THEOREM JudgedRefused == Spec => [](Judged => MisfitsRefused)
<1>1. TypeOK => (Judged => MisfitsRefused)
  BY TypeHolds DEF TypeOK, MisfitsRefused, Decodable
<1> QED BY <1>1, TypeCorrect, PTL

(* The variants of an enum that can be decoded: their values are told      *)
(* apart and no cast changes them.                                         *)
LEMMA VariantsDiffer ==
  ASSUME d \in Syntax, Validates, Compiles, Decodable, d.type.as = "enum"
  PROVE  /\ DOMAIN d.type.variants \subseteq Nat /\ 1 \in DOMAIN d.type.variants
         /\ \A i \in DOMAIN d.type.variants :
              /\ ToRaw(i, RawType) = d.type.variants[i].value
              /\ ToRaw(i, "u64") = d.type.variants[i].value
              /\ \A j \in DOMAIN d.type.variants :
                   d.type.variants[i].value = d.type.variants[j].value => i = j
<1> DEFINE V == d.type.variants
<1>1. V \in Seq([value : SUBSET Nat, literal : BOOLEAN]) /\ V # <<>>
  BY DEF Syntax, Validates, EnumValid
<1>2. DOMAIN V \subseteq Nat /\ 1 \in DOMAIN V
  BY <1>1
<1>3. CASE Judged
  <2>1. \A i \in DOMAIN V : V[i].literal /\ i \in LiteralVariants
    BY <1>3 DEF Judged, AllLiteral, LiteralVariants
  <2>2. \A i, j \in DOMAIN V : i # j => V[i].value # V[j].value
    BY <2>1 DEF Validates, EnumValid
  <2> QED BY <1>2, <2>1, <2>2 DEF ToRaw
<1>4. CASE ~Judged
  <2>1. \A i \in DOMAIN V :
          /\ V[i].value \subseteq Bits(RawType)
          /\ \A j \in DOMAIN V : i # j => V[i].value # V[j].value
    BY <1>4 DEF Decodable
  <2>2. Bits(RawType) \subseteq Bits("u64")
    <3>1. /\ Width[RawType] \in Nat /\ Width["u64"] \in Nat
          /\ Width[RawType] <= Width["u64"]
      BY DeclaredTypes, WidthAssumption
    <3> QED BY <3>1 DEF Bits
  <2>3. \A i \in DOMAIN V : Cast(V[i].value, RawType) = V[i].value
                            /\ Cast(V[i].value, "u64") = V[i].value
    BY <2>1, <2>2 DEF Cast
  <2> QED BY <1>2, <2>1, <2>3 DEF ToRaw
<1> QED BY <1>3, <1>4

(* The match and the chain of comparisons give the variant with the bits   *)
(* as its value, or the first one.                                         *)
LEMMA DecodedIsVariant ==
  ASSUME d \in Syntax, Validates, Compiles, Decodable, d.type.as = "enum",
         NEW raw, NEW k \in {RawType, "u64"}
  PROVE  Decoded(raw, k) =
           LET same == {i \in DOMAIN d.type.variants : d.type.variants[i].value = raw}
           IN IF same = {} THEN 1 ELSE CHOOSE i \in same : TRUE
<1> DEFINE V == d.type.variants
           same == {i \in DOMAIN V : V[i].value = raw}
           hits == {i \in DOMAIN V : (AllLiteral => i > 1) /\ ToRaw(i, k) = raw}
<1>1. hits = {i \in same : AllLiteral => i > 1}
  BY VariantsDiffer
<1>2. same \subseteq DOMAIN V /\ DOMAIN V \subseteq Nat /\ \A i, j \in same : i = j
  BY VariantsDiffer
<1>3. Decoded(raw, k) = IF hits = {} THEN 1 ELSE CHOOSE i \in hits : \A j \in hits : i <= j
  BY DEF Decoded
<1> HIDE DEF same, hits
<1>4. CASE hits # {}
  <2>1. PICK n \in hits : TRUE
    BY <1>4
  <2>2. n \in Nat /\ same = {n} /\ hits = {n}
    BY <1>1, <1>2, <2>1
  <2>3. (CHOOSE i \in hits : \A j \in hits : i <= j) = n
    BY <2>2
  <2>4. (CHOOSE i \in same : TRUE) = n
    BY <2>2
  <2> QED BY <1>3, <1>4, <2>2, <2>3, <2>4 DEF same
<1>5. CASE hits = {} /\ same = {}
  BY <1>3, <1>5 DEF same
<1>6. CASE hits = {} /\ same # {}
  <2>1. PICK n \in same : TRUE
    BY <1>6
  <2>2. n \in DOMAIN V /\ n \in Nat /\ ~(n > 1)
    BY <1>1, <1>2, <1>6, <2>1
  <2>3. n = 1
    <3>1. V \in Seq([value : SUBSET Nat, literal : BOOLEAN])
      BY DEF Syntax
    <3>2. n >= 1
      BY <2>2, <3>1
    <3> QED BY <2>2, <3>2
  <2>4. same = {1}
    BY <1>2, <2>1, <2>3
  <2>5. (CHOOSE i \in same : TRUE) = 1
    BY <2>4
  <2> QED BY <1>3, <1>6, <2>5 DEF same
<1> QED BY <1>4, <1>5, <1>6

(* A getter returns what the bits of its field mean.                       *)
LEMMA GetterMeans ==
  ASSUME TypeOK, status = "compiled", Decodable
  PROVE  Got = Meaning
<1>1. d \in Syntax /\ Validates /\ Compiles /\ word \subseteq Bits(d.bus)
  BY DEF TypeOK
<1> DEFINE bits == Extract(word, d)
<1>2. Extracted = bits /\ bits \subseteq LowBits
  BY <1>1, ExtractedIsField
<1>3. ASSUME NEW k, Width[k] \in Nat, Width[k] >= FieldWidth PROVE Cast(bits, k) = bits
  <2>1. LowBits \subseteq Bits(k)
    BY <1>1, <1>3, Geometry DEF Bits
  <2> QED BY <1>2, <2>1 DEF Cast
<1>4. /\ Width[d.ty] \in Nat /\ Width[d.ty] >= FieldWidth
      /\ Width[d.bus] \in Nat /\ Width[d.bus] >= FieldWidth
  BY <1>1, Geometry
<1>5. CASE d.type.as = "raw"
  <2>1. Got = Cast(Extracted, d.ty) /\ Meaning = bits
    BY <1>5 DEF Got, Meaning
  <2> QED BY <2>1, <1>2, <1>3, <1>4
<1>6. CASE d.type.as = "custom"
  <2>1. Got = Extracted /\ Meaning = bits
    BY <1>6 DEF Got, Meaning
  <2> QED BY <2>1, <1>2
<1>7. CASE d.type.as = "int"
  <2>1. Got = Cast(Extracted, d.type.int) /\ Meaning = bits
    BY <1>7 DEF Got, Meaning
  <2>2. Width[d.type.int] \in Nat /\ Width[d.type.int] >= FieldWidth
    BY <1>1, <1>7, DeclaredTypes, TypeHolds DEF NoMisfit
  <2> QED BY <2>1, <2>2, <1>2, <1>3
<1>8. CASE d.type.as = "bool"
  <2>1. Got = TestBit /\ Meaning = (bits # {})
    BY <1>8 DEF Got, Meaning
  <2>2. d.lo = d.hi /\ Mask = d.lo .. d.hi /\ d.lo \in Nat
    BY <1>1, <1>8, ChecksAreComplete, MaskIsField, Geometry
  <2>3. d.lo .. d.hi = {d.lo} /\ FieldMask(d) = {d.lo}
    BY <1>1, <2>2, Geometry
  <2>4. TestBit = (word \cap {d.lo} # {})
    BY <2>2, <2>3 DEF TestBit
  <2>5. (bits # {}) = (word \cap {d.lo} # {})
    BY <2>3 DEF Extract
  <2> QED BY <2>1, <2>4, <2>5
<1>9. CASE d.type.as = "enum"
  <2> DEFINE Variant(k) == Decoded(bits, k)
  <2>1. Got = IF Direct THEN Decoded(Cast(Extracted, RawType), RawType)
                        ELSE Decoded(Extracted, "u64")
    BY <1>9 DEF Got
  <2>2. Meaning = LET same == {i \in DOMAIN d.type.variants : d.type.variants[i].value = bits}
                  IN IF same = {} THEN 1 ELSE CHOOSE i \in same : TRUE
    BY <1>9 DEF Meaning
  <2>3. Direct => Cast(Extracted, RawType) = bits
    BY <1>2, <1>3, <1>4 DEF Direct
  <2>4. \A k \in {RawType, "u64"} : Decoded(bits, k) = Meaning
    BY <1>1, <1>9, <2>2, DecodedIsVariant
  <2> QED BY <2>1, <2>3, <2>4, <1>2
<1> QED BY <1>1, <1>5, <1>6, <1>7, <1>8, <1>9, DeclaredTypes

(* The getter of every type of field returns exactly what the field's bits *)
(* mean, whatever the hardware put there.                                  *)
THEOREM GetterExact == Spec => []GetterIsExact
<1>1. TypeOK => GetterIsExact
  BY GetterMeans DEF GetterIsExact
<1> QED BY <1>1, TypeCorrect, PTL

-----------------------------------------------------------------------------
(* What depends on the declaration alone, continued.                       *)
LEMMA BitsFixed ==
  ASSUME UNCHANGED d, NEW v
  PROVE  FieldBits(v)' = FieldBits(v) /\ FieldMask(d)' = FieldMask(d)
<1>1. /\ RawType' = RawType /\ LiteralVariants' = LiteralVariants
      /\ Deferred' = Deferred /\ FieldWidth' = FieldWidth
  BY DEF RawType, LiteralVariants, Deferred, LeftOpen, FieldWidth
<1>2. AllLiteral' = AllLiteral /\ LowBits' = LowBits /\ FullBus' = FullBus
  BY <1>1 DEF AllLiteral, LowBits, FullBus
<1>3. Mask' = Mask
  BY DEF Mask, MaskOf, LeftOpen, FieldMask, ShiftLeft, Cast, Bits
<1>4. ASSUME NEW value, NEW masked
      PROVE  Positioned(value, masked)' = Positioned(value, masked)
  BY <1>1, <1>2, <1>3 DEF Positioned, ShiftLeft, Cast, Bits
<1>5. Cast(ToRaw(v, RawType), d.bus)' = Cast(ToRaw(v, RawType), d.bus)
  BY <1>1 DEF ToRaw, Cast, Bits
<1>6. Cast(v, d.bus)' = Cast(v, d.bus)
  BY DEF Cast, Bits
<1>7. FieldBits(v)' = FieldBits(v)
  <2>1. CASE d.type.as = "bool"
    BY <2>1, <1>4 DEF FieldBits
  <2>2. CASE d.type.as = "enum"
    BY <2>2, <1>1, <1>2, <1>4, <1>5 DEF FieldBits
  <2>3. CASE d.type.as \notin {"bool", "enum"}
    BY <2>3, <1>4, <1>6 DEF FieldBits
  <2> QED BY <2>1, <2>2, <2>3
<1> QED BY <1>7 DEF FieldMask

(* While nothing has written since, the field holds the bits of what was   *)
(* set.                                                                    *)
SetIsInField ==
  \A v \in Values : set = <<v>> => word \cap FieldMask(d) = FieldBits(v)

LEMMA SetStaysInField == TypeOK /\ SetIsInField /\ [Next]_vars => SetIsInField'
<1> SUFFICES ASSUME TypeOK, SetIsInField, [Next]_vars PROVE SetIsInField'
  OBVIOUS
<1>1. CASE Expand \/ Compile \/ ClearField
  <2>1. set' = <<>>
    BY <1>1 DEF Expand, Compile, ClearField, TypeOK
  <2> QED BY <2>1 DEF SetIsInField
<1>2. ASSUME NEW v \in Values, SetField(v) PROVE SetIsInField'
  <2>1. /\ d' = d /\ status = "compiled" /\ set' = <<v>>
        /\ word' = SetterWord(v)
    BY <1>2 DEF SetField
  <2>2. d \in Syntax /\ Validates /\ Compiles
    BY <2>1 DEF TypeOK
  <2>3. Mask = FieldMask(d) /\ FieldBits(v) \subseteq FieldMask(d)
    BY <2>2, MaskIsField, ValueInField, Geometry
  <2>4. word' \cap FieldMask(d) = FieldBits(v)
    BY <2>1, <2>3 DEF SetterWord, Update
  <2>5. FieldBits(v)' = FieldBits(v) /\ FieldMask(d)' = FieldMask(d)
    BY <2>1, BitsFixed
  <2>6. \A u : set' = <<u>> => u = v
    BY <2>1
  <2> QED BY <2>4, <2>5, <2>6 DEF SetIsInField
<1>3. ASSUME NEW b \in Bits(d.bus), Hardware(b) PROVE SetIsInField'
  <2>1. set' = <<>>
    BY <1>3 DEF Hardware
  <2> QED BY <2>1 DEF SetIsInField
<1>4. CASE UNCHANGED vars
  <2>1. d' = d /\ word' = word /\ set' = set
    BY <1>4 DEF vars
  <2>2. \A v : FieldBits(v)' = FieldBits(v) /\ FieldMask(d)' = FieldMask(d)
    BY <2>1, BitsFixed
  <2>3. Values' = Values
    BY <2>1, DeclarationFixed
  <2> QED BY <2>1, <2>2, <2>3 DEF SetIsInField
<1> QED BY <1>1, <1>2, <1>3, <1>4 DEF Next

(* What a setter positions are the low bits of the value, shifted up.      *)
LEMMA PositionedBits ==
  ASSUME d \in Syntax, Validates, Compiles,
         NEW value, NEW masked \in BOOLEAN,
         value \subseteq Bits(d.bus),
         masked \/ Deferred \/ value \subseteq LowBits
  PROVE  Positioned(value, masked) = {b + d.lo : b \in value \cap LowBits}
<1> DEFINE P == Positioned(value, masked)
<1>1. /\ d.lo \in Nat /\ d.hi \in Nat /\ Width[d.bus] \in Nat
      /\ d.lo <= d.hi /\ d.hi < Width[d.bus]
      /\ LowBits = 0 .. d.hi - d.lo
  <2>1. d.lo \in Nat /\ d.hi \in Nat /\ d.lo <= d.hi
    BY Geometry
  <2>2. Width[d.ty] \in Nat /\ Width[d.bus] \in Nat
    BY Geometry
  <2>3. d.hi < Width[d.ty] /\ Width[d.ty] <= Width[d.bus]
    BY Geometry
  <2>4. LowBits = 0 .. d.hi - d.lo
    BY Geometry
  <2> QED BY <2>1, <2>2, <2>3, <2>4
<1>2. \A b \in value : b \in Nat
  BY <1>1 DEF Bits
<1>3. P \subseteq d.lo .. d.hi
  BY PositionedInField
<1>4. ASSUME NEW c \in P PROVE \E b \in value \cap LowBits : c = b + d.lo
  <2>1. PICK b \in value : c = b + d.lo
    BY DEF Positioned, ShiftLeft, Cast
  <2>2. b \in Nat /\ c \in d.lo .. d.hi
    BY <1>2, <1>3
  <2>3. b \in 0 .. d.hi - d.lo
    BY <1>1, <2>1, <2>2
  <2> QED BY <1>1, <2>1, <2>3
<1>5. ASSUME NEW b \in value \cap LowBits PROVE b + d.lo \in P
  <2>1. b \in 0 .. d.hi - d.lo
    BY <1>1
  <2>2. b + d.lo \in d.lo .. d.hi /\ b + d.lo \in 0 .. Width[d.bus] - 1
    BY <1>1, <2>1
  <2>3. b + d.lo \in Bits(d.bus)
    BY <2>2 DEF Bits
  <2>4. Deferred => b + d.lo \in Mask
    BY <2>2, MaskIsField
  <2> QED BY <2>3, <2>4 DEF Positioned, ShiftLeft, Cast
<1> QED BY <1>4, <1>5

(* A value shifted into the field and down again has lost the bits above   *)
(* the field, and no other.                                                *)
LEMMA PositionedComesBack ==
  ASSUME d \in Syntax, Validates, Compiles,
         NEW value, NEW masked \in BOOLEAN,
         value \subseteq Bits(d.bus),
         masked \/ Deferred \/ value \subseteq LowBits
  PROVE  {b - d.lo : b \in Positioned(value, masked)} = value \cap LowBits
<1> DEFINE P == Positioned(value, masked)
<1>1. P = {b + d.lo : b \in value \cap LowBits}
  BY PositionedBits
<1>2. \A b \in value \cap LowBits : (b + d.lo) - d.lo = b
  BY Geometry
<1> HIDE DEF P
<1> QED BY <1>1, <1>2 DEF P

(* The bits of a value, shifted down: the value, as far as the field       *)
(* reaches.                                                                *)
LEMMA ValueComesBack ==
  ASSUME d \in Syntax, Validates, Compiles, Decodable, NEW v \in Values
  PROVE  LET bits == {b - d.lo : b \in FieldBits(v)}
         IN /\ d.type.as = "bool" => (bits # {}) = v
            /\ d.type.as = "enum" => bits = d.type.variants[v].value
            /\ d.type.as \notin {"bool", "enum"} => bits = v \cap LowBits
<1> DEFINE bits == {b - d.lo : b \in FieldBits(v)}
<1>1. /\ LowBits \subseteq Bits(d.bus) /\ 0 \in LowBits /\ LowBits \subseteq Bits(d.ty)
  BY Geometry DEF Bits
<1>2. ASSUME d.type.as = "bool" PROVE (bits # {}) = v
  <2> DEFINE one == IF v THEN {0} ELSE {}
  <2>1. FieldBits(v) = Positioned(one, FALSE)
    BY <1>2 DEF FieldBits
  <2>2. one \subseteq Bits(d.bus) /\ one \subseteq LowBits
    BY <1>1
  <2>3. bits = one \cap LowBits
    BY <2>1, <2>2, PositionedComesBack
  <2>4. v \in BOOLEAN
    BY <1>2 DEF Values
  <2> QED BY <2>2, <2>3, <2>4
<1>3. ASSUME d.type.as = "enum" PROVE bits = d.type.variants[v].value
  <2> DEFINE value == Cast(ToRaw(v, RawType), d.bus)
             masked == ~AllLiteral \/ Deferred
  <2>1. FieldBits(v) = Positioned(value, masked)
    BY <1>3 DEF FieldBits
  <2>2. v \in DOMAIN d.type.variants
    BY <1>3 DEF Values
  <2>3. d.type.variants[v].value \subseteq LowBits
    BY <1>3, <2>2, TypeHolds DEF NoMisfit
  <2>4. ToRaw(v, RawType) = d.type.variants[v].value
    BY <1>3, <2>2, VariantsDiffer
  <2>5. value = d.type.variants[v].value
    BY <1>1, <2>3, <2>4 DEF Cast
  <2>6. masked \in BOOLEAN
    OBVIOUS
  <2> HIDE DEF value, masked
  <2>7. bits = value \cap LowBits
    BY <1>1, <2>1, <2>3, <2>5, <2>6, PositionedComesBack
  <2> QED BY <2>3, <2>5, <2>7
<1>4. ASSUME d.type.as \notin {"bool", "enum"} PROVE bits = v \cap LowBits
  <2>1. FieldBits(v) = Positioned(Cast(v, d.bus), TRUE)
    BY <1>4 DEF FieldBits
  <2>2. Cast(v, d.bus) \subseteq Bits(d.bus)
    BY DEF Cast
  <2>3. bits = Cast(v, d.bus) \cap LowBits
    BY <2>1, <2>2, PositionedComesBack
  <2> QED BY <1>1, <2>3 DEF Cast
<1> QED BY <1>2, <1>3, <1>4

(* What was set is read back, by getters and setters of different types of *)
(* field, masked or not, direct or through u64, as long as nothing else    *)
(* wrote the register.                                                     *)
THEOREM SetComesBack == Spec => []SetIsRead
<1>1. Init => SetIsInField
  BY DEF Init, SetIsInField
<1>2. TypeOK /\ SetIsInField => SetIsRead
  <2> SUFFICES ASSUME TypeOK, SetIsInField, status = "compiled", Decodable, set # <<>>
               PROVE  Got = IF d.type.as \in {"bool", "enum"} THEN set[1]
                            ELSE set[1] \cap LowBits
    BY DEF SetIsRead
  <2>1. d \in Syntax /\ Validates /\ Compiles
    BY DEF TypeOK
  <2>2. PICK v \in Values : set = <<v>>
    BY DEF TypeOK
  <2> DEFINE bits == {b - d.lo : b \in FieldBits(v)}
  <2>3. Extract(word, d) = bits
    BY <2>2 DEF SetIsInField, Extract
  <2>4. /\ d.type.as = "bool" => (bits # {}) = v
        /\ d.type.as = "enum" => bits = d.type.variants[v].value
        /\ d.type.as \notin {"bool", "enum"} => bits = v \cap LowBits
    BY <2>1, ValueComesBack
  <2>5. set[1] = v
    BY <2>2
  <2>6. Got = Meaning
    BY GetterMeans
  <2> HIDE DEF bits
  <2>7. CASE d.type.as = "bool"
    <3>1. Meaning = (bits # {})
      BY <2>7, <2>3 DEF Meaning
    <3> QED BY <2>4, <2>5, <2>6, <2>7, <3>1
  <2>8. CASE d.type.as = "enum"
    <3> DEFINE same == {i \in DOMAIN d.type.variants : d.type.variants[i].value = bits}
    <3>1. Meaning = IF same = {} THEN 1 ELSE CHOOSE i \in same : TRUE
      BY <2>8, <2>3 DEF Meaning
    <3>2. v \in DOMAIN d.type.variants
      BY <2>8 DEF Values
    <3>3. \A i \in DOMAIN d.type.variants :
            d.type.variants[i].value = d.type.variants[v].value => i = v
      BY <2>1, <2>8, <3>2, VariantsDiffer
    <3>4. same = {v}
      BY <2>4, <2>8, <3>2, <3>3
    <3>5. Meaning = v
      BY <3>1, <3>4
    <3> QED BY <2>5, <2>6, <2>8, <3>5
  <2>9. CASE d.type.as \notin {"bool", "enum"}
    <3>1. Meaning = bits
      BY <2>9, <2>3 DEF Meaning
    <3> QED BY <2>4, <2>5, <2>6, <2>9, <3>1
  <2> QED BY <2>7, <2>8, <2>9
<1> QED BY <1>1, <1>2, SetStaysInField, TypeCorrect, PTL DEF Spec

-----------------------------------------------------------------------------
(* The bits of a value are those the caller of the accessor means, as far  *)
(* as the field reaches.                                                   *)
LEMMA FieldBitsInserted ==
  ASSUME d \in Syntax, Validates, Compiles, Decodable, NEW v \in Values
  PROVE  FieldBits(v) = Insert(Encoded(v), d)
<1> DEFINE V == Encoded(v)
<1>1. LowBits \subseteq Bits(d.bus) /\ 0 \in LowBits
  BY Geometry DEF Bits
<1>2. FieldBits(v) = {b + d.lo : b \in V \cap LowBits}
  <2>1. CASE d.type.as = "bool"
    <3>1. FieldBits(v) = Positioned(V, FALSE) /\ V \subseteq {0}
      BY <2>1 DEF FieldBits, Encoded
    <3>2. V \subseteq Bits(d.bus) /\ V \subseteq LowBits
      BY <1>1, <3>1
    <3> HIDE DEF V
    <3> QED BY <3>1, <3>2, PositionedBits
  <2>2. CASE d.type.as = "enum"
    <3> DEFINE masked == ~AllLiteral \/ Deferred
    <3>1. v \in DOMAIN d.type.variants /\ V = d.type.variants[v].value
      BY <2>2 DEF Values, Encoded
    <3>2. V \subseteq LowBits
      BY <2>2, <3>1, TypeHolds DEF NoMisfit
    <3>3. Cast(ToRaw(v, RawType), d.bus) = V
      BY <1>1, <2>2, <3>1, <3>2, VariantsDiffer DEF Cast
    <3>4. FieldBits(v) = Positioned(V, masked)
      BY <2>2, <3>3 DEF FieldBits
    <3>5. masked \in BOOLEAN
      OBVIOUS
    <3> HIDE DEF V, masked
    <3> QED BY <1>1, <3>2, <3>4, <3>5, PositionedBits
  <2>3. CASE d.type.as \notin {"bool", "enum"}
    <3>1. FieldBits(v) = Positioned(Cast(v, d.bus), TRUE) /\ V = v
      BY <2>3 DEF FieldBits, Encoded
    <3>2. Cast(v, d.bus) \subseteq Bits(d.bus)
      BY DEF Cast
    <3>3. FieldBits(v) = {b + d.lo : b \in Cast(v, d.bus) \cap LowBits}
      BY <3>1, <3>2, PositionedBits
    <3> QED BY <1>1, <3>1, <3>3 DEF Cast
  <2> QED BY <2>1, <2>2, <2>3
<1>3. V \subseteq Nat
  <2>1. CASE d.type.as = "enum"
    <3>1. v \in DOMAIN d.type.variants /\ V = d.type.variants[v].value
      BY <2>1 DEF Values, Encoded
    <3> QED BY <2>1, <3>1, TypeHolds, Geometry DEF NoMisfit
  <2>2. CASE d.type.as # "enum"
    BY <2>2, DeclaredTypes DEF Encoded, Values, Bits
  <2> QED BY <2>1, <2>2
<1> HIDE DEF V
<1>4. \A b \in V : b + d.lo \in d.lo .. d.hi <=> b \in LowBits
  BY <1>3, Geometry
<1>5. Insert(V, d) = {b + d.lo : b \in V} \cap (d.lo .. d.hi)
  BY Geometry DEF Insert
<1> QED BY <1>2, <1>4, <1>5 DEF V

(* The methods of a register that compiles write the words RegisterAccess  *)
(* takes them to write, whichever of its positions the macro knew; those   *)
(* of the builder as well, where it knew all of them.                      *)
THEOREM MethodsWrite == Spec => []WordsAgree
<1>1. ASSUME TypeOK, status = "compiled", Decodable
      PROVE  /\ ClearerWord = ClearWord(d.reg, Fields, Bare(d), word)
             /\ BuilderClear = word \cup FieldMask(d)
             /\ \A v \in Values :
                  /\ SetterWord(v) = SetWord(d.reg, Fields, Bare(d), Encoded(v), word)
                  /\ BuilderWord(v) = Update(word, FieldMask(d), Insert(Encoded(v), d))
  <2>1. d \in Syntax /\ Validates /\ Compiles
    BY <1>1 DEF TypeOK
  <2>2. Mask = FieldMask(d) /\ ForceZeroMask = ForceZero(Fields)
    BY <2>1, MaskIsField, ForcedIsForceZero DEF FieldMask
  <2>3. FieldMask(Bare(d)) = FieldMask(d)
    BY DEF FieldMask, Bare
  <2>4. \A value : Insert(value, Bare(d)) = Insert(value, d)
    BY <2>3 DEF Insert, Bare
  <2>5. \A v \in Values : FieldBits(v) = Insert(Encoded(v), d)
    BY <1>1, <2>1, FieldBitsInserted
  <2>6. ClearerWord = ClearWord(d.reg, Fields, Bare(d), word)
    BY <2>2, <2>3 DEF ClearerWord, ClearWord
  <2>7. ASSUME NEW v \in Values
        PROVE  /\ SetterWord(v) = SetWord(d.reg, Fields, Bare(d), Encoded(v), word)
               /\ BuilderWord(v) = Update(word, FieldMask(d), Insert(Encoded(v), d))
    BY <2>2, <2>3, <2>4, <2>5 DEF SetterWord, SetWord, BuilderWord
  <2>8. BuilderClear = word \cup FieldMask(d)
    BY <2>2 DEF BuilderClear
  <2> QED BY <2>6, <2>7, <2>8
<1>2. TypeOK => WordsAgree
  BY <1>1 DEF WordsAgree
<1> QED BY <1>2, TypeCorrect, PTL

-----------------------------------------------------------------------------
(* What the page cuts out of a word is what the getter cuts out.           *)
LEMMA PageFieldIsField ==
  ASSUME d \in Syntax, Validates, Compiles, word \subseteq Bits(d.bus)
  PROVE  PageField = Extract(word, d)
<1> USE Geometry
<1>1. \A b \in word : b \in Nat
  BY DEF Bits
<1>2. PageField = {b - d.lo : b \in {c \in word : c >= d.lo}} \cap (0 .. d.hi - d.lo)
  BY DEF PageField, ShiftRight
<1>3. Extract(word, d) = {b - d.lo : b \in word \cap (d.lo .. d.hi)}
  BY DEF Extract
<1>4. \A b \in word : b >= d.lo /\ b - d.lo \in 0 .. d.hi - d.lo <=> b \in d.lo .. d.hi
  BY <1>1
<1>5. PageField \subseteq Extract(word, d)
  BY <1>2, <1>3, <1>4
<1>6. Extract(word, d) \subseteq PageField
  BY <1>1, <1>2, <1>3, <1>4
<1> QED BY <1>5, <1>6

(* What the page puts into a field are the low bits of the value.          *)
LEMMA PageBitsPositioned ==
  ASSUME d \in Syntax, Validates, Compiles, NEW value, value \subseteq Nat
  PROVE  PageBits(value) = {b + d.lo : b \in value \cap LowBits}
<1> USE Geometry
<1>1. \A b \in value : b \in Nat
  OBVIOUS
<1>2. \A b \in value, c \in LowBits : b + d.lo = c + d.lo => b = c
  BY <1>1
<1>3. PageBits(value) = {b + d.lo : b \in value} \cap {b + d.lo : b \in LowBits}
  BY DEF PageBits, PageMask
<1> QED BY <1>2, <1>3

(* Small numbers survive JSON.                                             *)
LEMMA ExactFlags == /\ Number({}) = {} /\ Digits({}) = {}
                    /\ Number({0}) = {0} /\ Digits({0}) = {0}
<1>1. /\ {} \subseteq Bits("u64") /\ {0} \subseteq Bits("u64")
      /\ {} \subseteq 0 .. Precision - 1 /\ {0} \subseteq 0 .. Precision - 1
  BY WidthAssumption, PrecisionAssumption DEF Bits, Kinds
<1> QED BY <1>1, PrecisionAssumption

LEMMA ExactVariants ==
  ASSUME d \in Syntax, Validates, Compiles, Decodable, Precise, d.type.as = "enum",
         NEW i \in DOMAIN d.type.variants
  PROVE  /\ Number(d.type.variants[i].value) = d.type.variants[i].value
         /\ Digits(d.type.variants[i].value) = d.type.variants[i].value
<1>1. d.type.variants[i].value \subseteq LowBits
  BY TypeHolds DEF NoMisfit
<1>2. LowBits \subseteq Bits("u64")
  BY Geometry DEF Bits
<1>3. d.type.variants[i].value \subseteq 0 .. Precision - 1
  BY DEF Precise
<1> QED BY <1>1, <1>2, <1>3, PrecisionAssumption

(* The page shows what the getter returns.                                 *)
LEMMA PageShowsGot ==
  ASSUME TypeOK, status = "compiled", Decodable, Precise
  PROVE  /\ d.type.as = "bool" => (2 \in PageShows <=> Got) /\ (1 \in PageShows <=> ~Got)
         /\ d.type.as = "enum" => IF PageShows = {} THEN Got = 1 ELSE PageShows = {Got}
         /\ d.type.as \notin {"bool", "enum"} => Got = PageField
<1>1. d \in Syntax /\ Validates /\ Compiles /\ word \subseteq Bits(d.bus)
  BY DEF TypeOK
<1> DEFINE bits == Extract(word, d)
<1>2. PageField = bits /\ bits \subseteq LowBits
  BY <1>1, PageFieldIsField, ExtractedIsField
<1>3. Got = Meaning
  BY GetterMeans
<1>4. ASSUME d.type.as = "bool"
      PROVE  (2 \in PageShows <=> Got) /\ (1 \in PageShows <=> ~Got)
  <2>1. PageVariants = <<{}, {0}>>
    BY <1>4 DEF PageVariants
  <2>2. Meaning = (bits # {})
    BY <1>4 DEF Meaning
  <2>3. LowBits = {0}
    BY <1>1, <1>4, ChecksAreComplete, Geometry
  <2>4. bits = {} \/ bits = {0}
    BY <1>2, <2>3
  <2>5. (2 \in PageShows <=> bits = {0}) /\ (1 \in PageShows <=> bits = {})
    BY <1>2, <2>1, ExactFlags DEF PageShows
  <2> HIDE DEF bits
  <2> QED BY <1>3, <2>2, <2>4, <2>5
<1>5. ASSUME d.type.as = "enum"
      PROVE  IF PageShows = {} THEN Got = 1 ELSE PageShows = {Got}
  <2> DEFINE same == {i \in DOMAIN d.type.variants : d.type.variants[i].value = bits}
  <2>1. PageVariants = [i \in DOMAIN d.type.variants |-> ToRaw(i, "u64")]
    BY <1>5 DEF PageVariants
  <2>2. PageShows = same
    <3>1. \A i \in DOMAIN d.type.variants :
            /\ PageVariants[i] = d.type.variants[i].value
            /\ Number(PageVariants[i]) = d.type.variants[i].value
      BY <1>1, <1>5, <2>1, VariantsDiffer, ExactVariants
    <3>2. DOMAIN PageVariants = DOMAIN d.type.variants
      BY <2>1
    <3> QED BY <1>2, <3>1, <3>2 DEF PageShows
  <2>3. Meaning = IF same = {} THEN 1 ELSE CHOOSE i \in same : TRUE
    BY <1>5 DEF Meaning
  <2>4. \A i, j \in same : i = j
    BY <1>1, <1>5, VariantsDiffer
  <2> HIDE DEF same
  <2> QED BY <1>3, <2>2, <2>3, <2>4
<1>6. ASSUME d.type.as \notin {"bool", "enum"} PROVE Got = PageField
  <2>1. Meaning = bits
    BY <1>6 DEF Meaning
  <2> QED BY <1>2, <1>3, <2>1
<1> QED BY <1>4, <1>5, <1>6

(* The page sets what the setter sets.                                     *)
LEMMA PageSetsAlike ==
  ASSUME d \in Syntax, Validates, Compiles, Decodable, Precise, NEW v \in Values
  PROVE  FieldBits(v) = PageBits(PageEntry(v))
<1>1. /\ LowBits \subseteq Bits(d.bus) /\ 0 \in LowBits /\ LowBits \subseteq Nat
  BY Geometry DEF Bits
<1>2. CASE d.type.as = "bool"
  <2> DEFINE one == IF v THEN {0} ELSE {}
  <2>1. FieldBits(v) = Positioned(one, FALSE)
    BY <1>2 DEF FieldBits
  <2>2. v \in BOOLEAN
    BY <1>2 DEF Values
  <2>3. PageVariants = <<{}, {0}>>
    BY <1>2 DEF PageVariants
  <2>4. PageEntry(v) = one
    <3>1. PageEntry(v) = Digits(PageVariants[IF v THEN 2 ELSE 1])
      BY <1>2 DEF PageEntry
    <3>2. PageVariants[IF v THEN 2 ELSE 1] = one
      BY <2>2, <2>3
    <3> QED BY <3>1, <3>2, ExactFlags
  <2>5. one \subseteq Bits(d.bus) /\ one \subseteq LowBits /\ one \subseteq Nat
    BY <1>1
  <2> HIDE DEF one
  <2>6. FieldBits(v) = PageBits(one)
    BY <2>1, <2>5, PositionedBits, PageBitsPositioned
  <2> QED BY <2>4, <2>6
<1>3. CASE d.type.as = "enum"
  <2> DEFINE value == Cast(ToRaw(v, RawType), d.bus)
             masked == ~AllLiteral \/ Deferred
  <2>1. FieldBits(v) = Positioned(value, masked)
    BY <1>3 DEF FieldBits
  <2>2. v \in DOMAIN d.type.variants
    BY <1>3 DEF Values
  <2>3. d.type.variants[v].value \subseteq LowBits
    BY <1>3, <2>2, TypeHolds DEF NoMisfit
  <2>4. value = d.type.variants[v].value
    BY <1>1, <1>3, <2>2, <2>3, VariantsDiffer DEF Cast
  <2>5. PageVariants = [i \in DOMAIN d.type.variants |-> ToRaw(i, "u64")]
    BY <1>3 DEF PageVariants
  <2>6. PageEntry(v) = d.type.variants[v].value
    <3>1. PageEntry(v) = Digits(PageVariants[v])
      BY <1>3 DEF PageEntry
    <3>2. PageVariants[v] = d.type.variants[v].value
      BY <1>3, <2>2, <2>5, VariantsDiffer
    <3> QED BY <1>3, <2>2, <3>1, <3>2, ExactVariants
  <2>7. masked \in BOOLEAN
    OBVIOUS
  <2> HIDE DEF value, masked
  <2>8. FieldBits(v) = PageBits(value)
    BY <1>1, <2>1, <2>3, <2>4, <2>7, PositionedBits, PageBitsPositioned
  <2> QED BY <2>4, <2>6, <2>8
<1>4. CASE d.type.as \notin {"bool", "enum"}
  <2>1. FieldBits(v) = Positioned(Cast(v, d.bus), TRUE)
    BY <1>4 DEF FieldBits
  <2>2. Cast(v, d.bus) \subseteq Bits(d.bus)
    BY DEF Cast
  <2>3. FieldBits(v) = {b + d.lo : b \in Cast(v, d.bus) \cap LowBits}
    BY <2>1, <2>2, PositionedBits
  <2>4. Cast(v, d.bus) \cap LowBits = v \cap LowBits
    BY <1>1 DEF Cast
  <2>5. v \subseteq Nat
    <3>1. d.type.as \in {"raw", "int", "custom"}
      BY <1>4, DeclaredTypes
    <3> QED BY <3>1 DEF Values, Bits
  <2>6. FieldBits(v) = PageBits(v)
    BY <2>3, <2>4, <2>5, PageBitsPositioned
  <2>7. PageEntry(v) = v
    BY <1>4 DEF PageEntry
  <2> QED BY <2>6, <2>7
<1> QED BY <1>2, <1>3, <1>4

(* The page and the generated accessors agree on every field whose         *)
(* variants JSON numbers can carry: on what it shows and on what a Set     *)
(* writes.                                                                 *)
THEOREM PageAlike == Spec => []PageAgrees
<1>1. TypeOK => PageAgrees
  BY PageShowsGot, PageSetsAlike DEF PageAgrees, TypeOK
<1> QED BY <1>1, TypeCorrect, PTL

-----------------------------------------------------------------------------
(* Legal speaks of the declaration alone.                                  *)
LEMMA LegalFixed ==
  ASSUME UNCHANGED d
  PROVE  Legal' = Legal
<1>1. /\ RawType' = RawType /\ FieldWidth' = FieldWidth /\ AllFields' = AllFields
  BY DEF RawType, FieldWidth, AllFields
<1>2. NoMisfit' = NoMisfit
  BY <1>1 DEF NoMisfit, LowBits
<1> QED BY <1>1, <1>2 DEF Legal, Narrows, Bits

(* What is legal passes the macro ...                                      *)
LEMMA LegalValidates ==
  ASSUME d \in Syntax, Legal
  PROVE  Validates
<1>1. d \in AllFields /\ d.lo <= d.hi /\ d.lo \in Nat /\ d.hi \in Nat
  BY FieldsTyped DEF Legal, AllFields
<1>2. TypeFitsBus /\ \A f \in AllFields : Narrows(f, d.reg) /\ RangeValid(f, d.ty)
  BY DEF Legal, TypeFitsBus, RangeValid
<1>3. d.type.as = "bool" => FieldWidth = 1
  BY <1>1 DEF Legal, FieldWidth
<1>4. FieldTypeValid
  BY <1>3 DEF Legal, NoMisfit, FieldTypeValid, LowBits, LiteralVariants
<1>5. d.type.as = "enum" => EnumValid
  BY DEF Legal, EnumValid, LiteralVariants
<1> QED BY <1>2, <1>4, <1>5 DEF Validates

(* ... and the compiler, if the builder can name its masks.                *)
LEMMA LegalCompiles ==
  ASSUME d \in Syntax, Legal, ~(d.reg = "wo" /\ \E f \in AllFields : LeftOpen(f, d.ty))
  PROVE  Compiles
<1>1. \A f \in AllFields : PositionAsserted(f, d.ty)
  BY DEF Legal, PositionAsserted
<1>2. BoolAsserted /\ WidthAsserted /\ LiteralsTyped
  BY DEF Legal, BoolAsserted, WidthAsserted, LiteralsTyped, LiteralVariants
<1>3. WriterInScope
  BY DEF WriterInScope
<1> QED BY <1>1, <1>2, <1>3 DEF Compiles

(* Nothing legal is refused, by either of the two that check, for any      *)
(* number the macro does not know: but for registers whose builder cannot  *)
(* name its masks.                                                         *)
THEOREM LegalIsAccepted == Spec => []LegalAccepted
<1> DEFINE Unscoped == d.reg = "wo" /\ \E f \in AllFields : LeftOpen(f, d.ty)
           Refused  == status = "refused" => ~Legal \/ Unscoped
<1>1. d \in Syntax /\ Legal => Validates
  BY LegalValidates
<1>2. d \in Syntax /\ Legal /\ ~Unscoped => Compiles
  BY LegalCompiles
<1>3. (d \in Syntax /\ Legal /\ ~Unscoped => Compiles)'
  BY <1>2, PTL
<1>4. Init => Refused
  BY DEF Init
<1>5. TypeOK /\ TypeOK' /\ Refused /\ [Next]_vars => Refused'
  <2> SUFFICES ASSUME TypeOK, TypeOK', Refused, [Next]_vars, status' = "refused", Legal', ~Unscoped'
               PROVE  FALSE
    OBVIOUS
  <2>1. CASE Expand
    <3>1. d' = d /\ ~Validates
      BY <2>1 DEF Expand
    <3>2. Legal' = Legal
      BY <3>1, LegalFixed
    <3> QED BY <1>1, <3>1, <3>2 DEF TypeOK
  <2>2. CASE Compile
    <3>1. ~Compiles'
      BY <2>2 DEF Compile
    <3> QED BY <1>3, <3>1 DEF TypeOK
  <2>3. CASE status' = status /\ d' = d
    <3>1. Legal' = Legal /\ Unscoped' = Unscoped
      BY <2>3, LegalFixed DEF AllFields, LeftOpen
    <3> QED BY <2>3, <3>1
  <2>4. CASE ~Expand /\ ~Compile
    BY <2>3, <2>4 DEF Next, ClearField, SetField, Hardware, vars
  <2> QED BY <2>1, <2>2, <2>4
<1>6. TypeOK /\ Refused => LegalAccepted
  BY DEF LegalAccepted
<1> QED BY <1>4, <1>5, <1>6, TypeCorrect, PTL DEF Spec
=============================================================================
