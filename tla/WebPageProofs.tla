---------------------------- MODULE WebPageProofs ----------------------------
(***************************************************************************)
(* Proofs about WebPage, for every declaration, device, number of click    *)
(* handlers and of registers at one offset.                                *)
(***************************************************************************)
EXTENDS WebPage, TLAPS

-----------------------------------------------------------------------------
(* The inductive invariant.                                                *)

(* The bits a field's control writes into the field.                       *)
Bits(o) == IF o.kind = "set_field" THEN Insert(o.value, Target(o)) ELSE FieldMask(Target(o))

(* A handler at work has found its field, and has something to read first  *)
(* if it reads.                                                            *)
AtWork == \A h \in Handlers :
  /\ step[h] # "idle" => op[h] \in Controls /\ Found(op[h])
  /\ step[h] = "read" => ReadsFirst(op[h])

(* The word of a write request on its way: of the flags and the commands   *)
(* it has those the click is for, and of the rest, unless somebody wrote   *)
(* the register since it was read, what the register has now.              *)
WordInFlight(h) ==
  IF op[h].kind = "set_reg" THEN word[h] = op[h].value
  ELSE /\ word[h] \cap (Flags \cup Commands) = Bits(op[h]) \cap (Flags \cup Commands)
       /\ ~CanRead(RegAccess) => word[h] = Bits(op[h])
       /\ CanRead(RegAccess) /\ h \notin disturbed =>
            word[h] \cap Storage = ((reg \ FieldMask(Target(op[h]))) \cup Bits(op[h])) \cap Storage

WordsInFlight == \A h \in Handlers : step[h] = "write" => WordInFlight(h)

IInv == TypeOK /\ AtWork /\ WordsInFlight

-----------------------------------------------------------------------------
(* Lemmas about one register.                                              *)

(* The controls, and what each carries.                                    *)
LEMMA ControlKinds ==
  ASSUME NEW o \in Controls
  PROVE  \/ o.kind = "set_field" /\ o.value \in FieldValues
         \/ o.kind = "clear_field"
         \/ o.kind = "set_reg" /\ o.value \in Numbers
  BY DEF Controls, Rendered, SetControls, ClearControls, WriteControls

(* NoOp is no control.                                                     *)
LEMMA NoOpIsNone == NoOp.kind = "none" /\ NoOp \notin Controls
  BY ControlKinds DEF NoOp

(* What a control of a field writes lies in the field, and in the word.    *)
LEMMA BitsInWord ==
  ASSUME NEW o \in Controls, Found(o), o.kind # "set_reg"
  PROVE  /\ Target(o) \in Fields
         /\ Bits(o) \subseteq FieldMask(Target(o))
         /\ FieldMask(Target(o)) \subseteq Word
  BY DeclarationAssumption, PageAssumption DEF Declares, Found, Target, Bits, Insert

(* On a register that is read, the page forces zero what the macro forces  *)
(* zero: the flags and the commands, and nothing that is storage.          *)
LEMMA PageForcesZero ==
  ASSUME CanRead(RegAccess)
  PROVE  /\ ForceZeroMask = ForceZero(Fields)
         /\ Flags \cup Commands \subseteq ForceZeroMask
         /\ ForceZeroMask \cap Storage = {}
<1>1. ASSUME NEW f \in Fields
      PROVE  EffectiveAccess(f) \in {"wo", "w1c"} <=> ForcedZero(f.access)
  BY <1>1, DeclarationAssumption DEF Declares, CanRead, EffectiveAccess, Effective, ForcedZero, FieldAccess
<1>2. {g \in Fields : EffectiveAccess(g) \in {"wo", "w1c"}} = {g \in Fields : ForcedZero(g.access)}
  BY <1>1
<1>3. ForceZeroMask = ForceZero(Fields)
  BY <1>2 DEF ForceZeroMask, ForceZero
<1> QED
  BY <1>3, DeviceAssumption

(* The word computed for a control of a field, from a value read or from   *)
(* nothing.                                                                *)
LEMMA ComputedWord ==
  ASSUME NEW o \in Controls, Found(o), NEW old \in SUBSET Word,
         CanRead(RegAccess) \/ old = {}
  PROVE  /\ Compute(o, old) \in SUBSET Word
         /\ o.kind = "set_reg" => Compute(o, old) = o.value
         /\ o.kind # "set_reg" =>
              /\ Compute(o, old) \cap (Flags \cup Commands) = Bits(o) \cap (Flags \cup Commands)
              /\ CanRead(RegAccess) =>
                   Compute(o, old) \cap Storage =
                     ((old \ FieldMask(Target(o))) \cup Bits(o)) \cap Storage
              /\ old = {} => Compute(o, old) = Bits(o)
<1>1. CASE o.kind = "set_reg"
  <2>0. o.kind # "set_field" /\ o.kind # "clear_field"
    BY <1>1
  <2>1. Compute(o, old) = o.value
    BY <1>1, <2>0 DEF Compute
  <2>2. o.value \in Numbers
    BY <1>1, ControlKinds
  <2>3. Numbers \subseteq SUBSET Word
    BY PageAssumption
  <2> QED
    BY <1>1, <2>1, <2>2, <2>3
<1>2. CASE o.kind = "set_field"
  <2>1. Compute(o, old) = (old \ (ForceZeroMask \cup FieldMask(Target(o)))) \cup Bits(o)
    BY <1>2 DEF Compute, Update, Bits
  <2> QED
    BY <1>2, <2>1, BitsInWord, PageForcesZero
<1>3. CASE o.kind = "clear_field"
  <2>0. o.kind # "set_field"
    BY <1>3
  <2>1. Compute(o, old) = (old \ ForceZeroMask) \cup Bits(o)
    BY <1>3, <2>0 DEF Compute, Update, Bits
  <2>2. Bits(o) = FieldMask(Target(o))
    BY <2>0 DEF Bits
  <2> QED
    BY <1>3, <2>1, <2>2, BitsInWord, PageForcesZero
<1> QED
  BY <1>1, <1>2, <1>3, ControlKinds

(* The word the page's JavaScript computes for a control is the one the    *)
(* generated accessor of that field writes when it has read the same,      *)
(* also on a wo register, where both start from nothing.                   *)
THEOREM PageComputesAlike ==
  ASSUME NEW o \in Controls, Found(o), NEW old \in SUBSET Word,
         CanRead(RegAccess) \/ old = {}
  PROVE  /\ o.kind = "set_field" =>
              Compute(o, old) = SetWord(RegAccess, Fields, Target(o), o.value, old)
         /\ o.kind = "clear_field" =>
              Compute(o, old) = ClearWord(RegAccess, Fields, Target(o), old)
<1>1. CASE o.kind = "set_field"
  <2>1. Compute(o, old) = Update(old, ForceZeroMask \cup FieldMask(Target(o)),
                                 Insert(o.value, Target(o)))
    BY <1>1 DEF Compute
  <2> QED
    BY <1>1, <2>1, PageForcesZero DEF SetWord, Update
<1>2. CASE o.kind = "clear_field"
  <2>1. Compute(o, old) = Update(old, ForceZeroMask, FieldMask(Target(o)))
    BY <1>2 DEF Compute
  <2> QED
    BY <1>2, <2>1, PageForcesZero DEF ClearWord, Update
<1> QED
  BY <1>1, <1>2, ControlKinds

-----------------------------------------------------------------------------
(* The three facts that make IInv inductive.                               *)

LEMMA InitIInv == Init => IInv
<1> SUFFICES ASSUME Init PROVE IInv
  OBVIOUS
<1>1. TypeOK
  BY DEF Init, TypeOK
<1>2. AtWork /\ WordsInFlight
  BY DEF Init, AtWork, WordsInFlight
<1> QED
  BY <1>1, <1>2 DEF IInv

(* The device's own steps and the accessors of Rust tasks leave the word a *)
(* word.                                                                   *)
LEMMA DeviceTypes ==
  ASSUME TypeOK, Rust \/ Hardware
  PROVE  reg' \in SUBSET Word /\ fired' \in SUBSET Commands
<1>1. ASSUME NEW mask, NEW bits, Atomic!Touch(mask, bits)
      PROVE  reg' \in SUBSET Word /\ fired' \in SUBSET Commands
  BY <1>1, DeviceAssumption DEF Atomic!Touch, TypeOK, Atomic!Storage
<1>2. CASE Rust
  <2>1. \E mask, bits : Atomic!Touch(mask, bits)
    BY <1>2 DEF Rust, Atomic!Operation, Atomic!SetField, Atomic!ClearField, Atomic!SetReg,
                Atomic!ModifyReg, Atomic!WriteReg
  <2> QED
    BY <1>1, <2>1
<1>3. CASE Hardware
  BY <1>3 DEF Hardware, Atomic!Hardware, TypeOK
<1> QED
  BY <1>2, <1>3

(* Each action keeps the types.                                            *)
LEMMA TypeStep == IInv /\ [Next]_vars => TypeOK'
<1> SUFFICES ASSUME IInv, [Next]_vars PROVE TypeOK'
  OBVIOUS
<1> USE DEF IInv, TypeOK, device, page, Computed
<1>1. CASE Rust
  BY <1>1, DeviceTypes DEF Rust
<1>2. CASE Hardware
  BY <1>2, DeviceTypes DEF Hardware
<1>3. ASSUME NEW h \in Handlers, NEW o \in Controls, Click(h, o) PROVE TypeOK'
  <2>1. Compute(o, {}) \in SUBSET Word
    BY <1>3, ComputedWord DEF Click
  <2> QED
    BY <1>3, <2>1 DEF Click
<1>4. ASSUME NEW h \in Handlers, NEW o \in Controls, ClickInVain(h, o) PROVE TypeOK'
  BY <1>4 DEF ClickInVain, Ends
<1>5. ASSUME NEW h \in Handlers, ReadServed(h) PROVE TypeOK'
  <2>1. Compute(op[h], reg) \in SUBSET Word
    BY <1>5, ComputedWord DEF ReadServed, AtWork, ReadsFirst
  <2> QED
    BY <1>5, <2>1 DEF ReadServed
<1>6. ASSUME NEW h \in Handlers, WriteServed(h) PROVE TypeOK'
  <2>1. AfterWrite(reg, word[h]) \in SUBSET Word /\ Triggered(word[h]) \in SUBSET Commands
    BY DeviceAssumption DEF AfterWrite, Triggered, Storage
  <2> QED
    BY <1>6, <2>1 DEF WriteServed, Ends
<1>7. ASSUME NEW h \in Handlers, RequestFails(h) PROVE TypeOK'
  BY <1>7 DEF RequestFails, Ends
<1>8. ASSUME NEW h \in Handlers, BadInput(h) PROVE TypeOK'
  BY <1>8 DEF BadInput, Ends
<1>9. CASE UNCHANGED vars
  BY <1>9 DEF vars
<1> QED
  BY <1>1, <1>2, <1>3, <1>4, <1>5, <1>6, <1>7, <1>8, <1>9 DEF Next, Handler

(* Handlers go on with the control that was clicked.                       *)
LEMMA AtWorkStep == IInv /\ [Next]_vars => AtWork'
<1> SUFFICES ASSUME IInv, [Next]_vars PROVE AtWork'
  OBVIOUS
<1> USE DEF IInv, TypeOK, AtWork, Found
<1>1. CASE (Rust \/ Hardware) \/ UNCHANGED vars
  BY <1>1 DEF Rust, Hardware, vars, page
<1>2. ASSUME NEW h \in Handlers, NEW o \in Controls, Click(h, o) PROVE AtWork'
  BY <1>2 DEF Click
<1>3. ASSUME NEW h \in Handlers, NEW o \in Controls, ClickInVain(h, o) PROVE AtWork'
  BY <1>3 DEF ClickInVain, Ends
<1>4. ASSUME NEW h \in Handlers, BadInput(h) \/ WriteServed(h) \/ RequestFails(h) PROVE AtWork'
  BY <1>4 DEF BadInput, WriteServed, RequestFails, Ends
<1>5. ASSUME NEW h \in Handlers, ReadServed(h) PROVE AtWork'
  BY <1>5 DEF ReadServed
<1> QED
  BY <1>1, <1>2, <1>3, <1>4, <1>5 DEF Next, Handler

(* A handler that has not read anything on a register that can be read     *)
(* writes the whole of it.                                                 *)
LEMMA WritesWhole ==
  ASSUME NEW o \in Controls, ~ReadsFirst(o)
  PROVE  o.kind = "set_reg" \/ ~CanRead(RegAccess)
  BY DEF ReadsFirst

(* A handler whose state does not change keeps its word meaningful as long *)
(* as it is recorded that somebody changed the storage.                    *)
LEMMA WordKept ==
  ASSUME TypeOK, AtWork, NEW h \in Handlers, step[h] = "write", WordInFlight(h),
         op'[h] = op[h], word'[h] = word[h],
         \/ reg' \cap Storage = reg \cap Storage /\ (h \in disturbed => h \in disturbed')
         \/ ReadsFirst(op[h]) => h \in disturbed'
  PROVE  WordInFlight(h)'
<1>1. op[h] \in Controls
  BY DEF AtWork
<1>2. CASE reg' \cap Storage = reg \cap Storage /\ (h \in disturbed => h \in disturbed')
  <2>1. Bits(op[h])' = Bits(op[h])
    BY DEF Bits
  <2> QED
    BY <1>2, <2>1 DEF WordInFlight
<1>3. CASE ReadsFirst(op[h]) => h \in disturbed'
  <2>1. Bits(op[h])' = Bits(op[h])
    BY DEF Bits
  <2> QED
    BY <1>1, <1>3, <2>1, WritesWhole DEF WordInFlight
<1> QED
  BY <1>2, <1>3

(* The words on their way stay what WordInFlight says of them.             *)
LEMMA WordsStep == IInv /\ [Next]_vars => WordsInFlight'
<1> SUFFICES ASSUME IInv, [Next]_vars, NEW g \in Handlers, step'[g] = "write"
             PROVE  WordInFlight(g)'
  BY DEF WordsInFlight
<1> USE DEF IInv, device, page
<1>1. CASE Rust
  <2>1. step[g] = "write" /\ op'[g] = op[g] /\ word'[g] = word[g]
    BY <1>1 DEF Rust
  <2>2. ReadsFirst(op[g]) => g \in disturbed'
    BY <1>1, <2>1 DEF Rust, Computed
  <2> QED
    BY <2>1, <2>2, WordKept DEF WordsInFlight
<1>2. CASE Hardware
  <2>1. step[g] = "write" /\ op'[g] = op[g] /\ word'[g] = word[g] /\ disturbed' = disturbed
    BY <1>2 DEF Hardware
  <2>2. reg' \cap Storage = reg \cap Storage
    BY <1>2 DEF Hardware, Atomic!Hardware, Atomic!Storage, Storage
  <2> QED
    BY <2>1, <2>2, WordKept DEF WordsInFlight
<1>3. ASSUME NEW h \in Handlers, NEW o \in Controls, Click(h, o) PROVE WordInFlight(g)'
  <2>1. CASE g = h
    <3>1. op'[g] = o /\ word'[g] = Compute(o, {}) /\ ~ReadsFirst(o) /\ Found(o)
      BY <1>3, <2>1 DEF Click, TypeOK
    <3>2. o.kind = "set_reg" => word'[g] = o.value
      BY <3>1, ControlKinds DEF Compute
    <3>3. o.kind # "set_reg" => ~CanRead(RegAccess) /\ word'[g] = Bits(o)
      BY <3>1, WritesWhole, ComputedWord
    <3>4. Bits(op[g])' = Bits(o)
      BY <3>1 DEF Bits
    <3> QED
      BY <3>1, <3>2, <3>3, <3>4 DEF WordInFlight
  <2>2. CASE g # h
    <3>1. step[g] = "write" /\ op'[g] = op[g] /\ word'[g] = word[g]
      BY <1>3, <2>2 DEF Click, TypeOK
    <3> QED
      BY <1>3, <3>1, WordKept DEF Click, WordsInFlight
  <2> QED
    BY <2>1, <2>2
<1>4. ASSUME NEW h \in Handlers, step'[h] = "idle", h \notin disturbed \/ disturbed' = disturbed \ {h},
             UNCHANGED reg, disturbed' \in {disturbed, disturbed \ {h}},
             \A k \in Handlers \ {h} : step'[k] = step[k] /\ op'[k] = op[k] /\ word'[k] = word[k]
      PROVE  WordInFlight(g)'
  <2>1. g # h /\ step[g] = "write" /\ op'[g] = op[g] /\ word'[g] = word[g]
    BY <1>4
  <2> QED
    BY <1>4, <2>1, WordKept DEF WordsInFlight
<1>5. ASSUME NEW h \in Handlers, NEW o \in Controls, ClickInVain(h, o) PROVE WordInFlight(g)'
  BY <1>4, <1>5 DEF ClickInVain, Ends, TypeOK, Computed
<1>6. ASSUME NEW h \in Handlers, BadInput(h) \/ RequestFails(h) PROVE WordInFlight(g)'
  BY <1>4, <1>6 DEF BadInput, RequestFails, Ends, TypeOK, Computed
<1>7. ASSUME NEW h \in Handlers, ReadServed(h) PROVE WordInFlight(g)'
  <2>1. CASE g = h
    <3> DEFINE o == op[h]
    <3>1. /\ o \in Controls /\ Found(o) /\ ReadsFirst(o) /\ h \notin disturbed
          /\ op'[g] = o /\ word'[g] = Compute(o, reg) /\ reg' = reg
      BY <1>7, <2>1 DEF ReadServed, TypeOK, AtWork, Computed
    <3>2. o.kind # "set_reg" /\ CanRead(RegAccess) /\ reg \in SUBSET Word
      BY <3>1 DEF ReadsFirst, TypeOK
    <3>3. Bits(op[g])' = Bits(o)
      BY <3>1 DEF Bits
    <3> QED
      BY <3>1, <3>2, <3>3, ComputedWord DEF WordInFlight
  <2>2. CASE g # h
    <3>1. step[g] = "write" /\ op'[g] = op[g] /\ word'[g] = word[g]
      BY <1>7, <2>2 DEF ReadServed, TypeOK
    <3> QED
      BY <1>7, <3>1, WordKept DEF ReadServed, WordsInFlight
  <2> QED
    BY <2>1, <2>2
<1>8. ASSUME NEW h \in Handlers, WriteServed(h) PROVE WordInFlight(g)'
  <2>1. g # h /\ step[g] = "write" /\ op'[g] = op[g] /\ word'[g] = word[g]
    BY <1>8 DEF WriteServed, Ends, TypeOK
  <2>2. ReadsFirst(op[g]) => g \in disturbed'
    BY <1>8, <2>1 DEF WriteServed, Computed
  <2> QED
    BY <2>1, <2>2, WordKept DEF WordsInFlight
<1>9. CASE UNCHANGED vars
  <2>1. step[g] = "write" /\ op'[g] = op[g] /\ word'[g] = word[g] /\ UNCHANGED <<reg, disturbed>>
    BY <1>9 DEF vars
  <2> QED
    BY <2>1, WordKept DEF WordsInFlight
<1> QED
  BY <1>1, <1>2, <1>3, <1>5, <1>6, <1>7, <1>8, <1>9 DEF Next, Handler

-----------------------------------------------------------------------------
(* The theorems.                                                           *)

(* The inductive invariant holds in every reachable state of the page.     *)
THEOREM Invariance == Spec => []IInv
<1>1. IInv /\ [Next]_vars => IInv'
  BY TypeStep, AtWorkStep, WordsStep DEF IInv
<1> QED
  BY InitIInv, <1>1, PTL DEF Spec

(* The types of WebPage's variables, for every set of handlers.            *)
THEOREM TypeCorrect == Spec => []TypeOK
<1>1. IInv => TypeOK
  BY DEF IInv
<1> QED
  BY <1>1, Invariance, PTL

(* The write request of a handler carries no flag and no command but those *)
(* its control is for.                                                     *)
LEMMA OwnWord ==
  ASSUME IInv, NEW h \in Handlers, WriteServed(h)
  PROVE  word[h] \cap (Flags \cup Commands) \subseteq OwnBits(op[h])
<1>1. op[h] \in Controls /\ Found(op[h]) /\ WordInFlight(h)
  BY DEF WriteServed, IInv, AtWork, WordsInFlight
<1>2. CASE op[h].kind = "set_reg"
  BY <1>2, DeviceAssumption DEF OwnBits
<1>3. CASE op[h].kind # "set_reg"
  BY <1>1, <1>3, BitsInWord DEF OwnBits, WordInFlight
<1> QED
  BY <1>2, <1>3

(* The page acknowledges no flag it is not for (forceZeroMask), however    *)
(* old the value is that it computed with and whoever else writes.         *)
THEOREM FlagSafety == Spec => NoFlagLost
<1> DEFINE A == \A b \in Flags : b \in reg /\ b \notin reg' =>
                  \/ \E h \in Handlers : WriteServed(h) /\ b \in OwnBits(op[h])
                  \/ Rust
<1>1. IInv /\ [Next]_vars => [A]_vars
  <2> SUFFICES ASSUME IInv, Next, NEW b \in Flags, b \in reg, b \notin reg', ~Rust
               PROVE  \E h \in Handlers : WriteServed(h) /\ b \in OwnBits(op[h])
    OBVIOUS
  <2>1. CASE Hardware
    BY <2>1 DEF Hardware, Atomic!Hardware
  <2>3. ASSUME NEW h \in Handlers, WriteServed(h) PROVE b \in OwnBits(op[h])
    <3>1. b \in word[h]
      BY <2>3, DeviceAssumption DEF WriteServed, AfterWrite
    <3> QED
      BY <2>3, <3>1, OwnWord
  <2>4. ASSUME NEW h \in Handlers, Handler(h), ~WriteServed(h) PROVE FALSE
    BY <2>4 DEF Handler, Click, ClickInVain, BadInput, ReadServed, RequestFails, device
  <2> QED
    BY <2>1, <2>3, <2>4 DEF Next
<1> QED
  BY <1>1, Invariance, PTL DEF Spec, NoFlagLost

(* The page starts no command it is not for.                               *)
THEOREM CommandSafety == Spec => NoCommandRetriggered
<1> DEFINE A == \A h \in Handlers : WriteServed(h) => fired' \subseteq OwnBits(op[h])
<1>1. IInv /\ [Next]_vars => [A]_vars
  <2> SUFFICES ASSUME IInv, NEW h \in Handlers, WriteServed(h)
               PROVE  fired' \subseteq OwnBits(op[h])
    OBVIOUS
  <2> QED
    BY OwnWord DEF WriteServed, Triggered
<1> QED
  BY <1>1, Invariance, PTL DEF Spec, NoCommandRetriggered

(* A click between whose two requests nobody else writes the register is   *)
(* as atomic as the accessor it stands for.                                *)
THEOREM UndisturbedAtomicity == Spec => UndisturbedIsAtomic
<1> DEFINE A == \A h \in Handlers : WriteServed(h) /\ h \notin disturbed => Accessor(op[h])
<1>1. IInv /\ [Next]_vars => [A]_vars
  <2> SUFFICES ASSUME IInv, NEW h \in Handlers, WriteServed(h), h \notin disturbed
               PROVE  Accessor(op[h])
    OBVIOUS
  <2> DEFINE o == op[h]
  <2>1. o \in Controls /\ Found(o) /\ WordInFlight(h)
    BY DEF WriteServed, IInv, AtWork, WordsInFlight
  <2>2. reg \in SUBSET Word /\ reg' = AfterWrite(reg, word[h]) /\ fired' = Triggered(word[h])
    BY DEF WriteServed, IInv, TypeOK
  <2>3. ASSUME word[h] \in SUBSET Word PROVE Atomic!Touch(Word, word[h])
    BY <2>2, <2>3, DeviceAssumption
    DEF AfterWrite, Triggered, Storage, Atomic!Touch, Atomic!Storage
  <2>4. ASSUME o.kind # "set_reg", CanRead(RegAccess)
        PROVE  Atomic!Touch(FieldMask(Target(o)), Bits(o))
    <3>1. /\ word[h] \cap (Flags \cup Commands) = Bits(o) \cap (Flags \cup Commands)
          /\ word[h] \cap Storage = ((reg \ FieldMask(Target(o))) \cup Bits(o)) \cap Storage
      BY <2>1, <2>4 DEF WordInFlight
    <3>2. Bits(o) \subseteq Word
      BY <2>1, <2>4, BitsInWord
    <3> QED
      BY <2>2, <3>1, <3>2, DeviceAssumption
      DEF AfterWrite, Triggered, Storage, Atomic!Touch, Atomic!Storage
  <2>5. ASSUME o.kind # "set_reg", ~CanRead(RegAccess) PROVE Atomic!Touch(Word, Bits(o))
    BY <2>1, <2>3, <2>5, BitsInWord DEF WordInFlight
  <2>6. /\ Atomic!CanRead(RegAccess) = CanRead(RegAccess)
        /\ Atomic!FieldMask(Target(o)) = FieldMask(Target(o))
        /\ Atomic!Insert(o.value, Target(o)) = Insert(o.value, Target(o))
    BY DEF Atomic!CanRead, CanRead, Atomic!FieldMask, FieldMask, Atomic!Insert, Insert
  <2>7. CASE o.kind = "set_reg"
    <3>1. word[h] = o.value /\ word[h] \in SUBSET Word
      BY <2>1, <2>7 DEF WordInFlight, IInv, TypeOK
    <3>2. o.kind # "set_field" /\ o.kind # "clear_field"
      BY <2>7
    <3> QED
      BY <2>3, <2>7, <3>1, <3>2 DEF Accessor, Atomic!SetReg
  <2>8. CASE o.kind = "set_field"
    BY <2>4, <2>5, <2>6, <2>8 DEF Accessor, Atomic!SetField, Bits
  <2>9. CASE o.kind = "clear_field"
    <3>1. o.kind # "set_field" /\ o.kind # "set_reg"
      BY <2>9
    <3>2. Bits(o) = FieldMask(Target(o))
      BY <3>1 DEF Bits
    <3>3. Atomic!ClearField(Target(o))
      BY <2>4, <2>5, <2>6, <3>1, <3>2 DEF Atomic!ClearField
    <3> QED
      BY <2>9, <3>1, <3>3 DEF Accessor
  <2> QED
    BY <2>1, <2>7, <2>8, <2>9, ControlKinds
<1> QED
  BY <1>1, Invariance, PTL DEF Spec, UndisturbedIsAtomic

-----------------------------------------------------------------------------
(* Where the documented behaviour that the runs page_neighbours and        *)
(* page_alias refute does hold.                                            *)

(* The step of a handler that nobody has disturbed changes no storage bit  *)
(* outside its field.                                                      *)
LEMMA UndisturbedKeeps ==
  ASSUME IInv, NEW h \in Handlers, WriteServed(h), h \notin disturbed, CanRead(RegAccess),
         NEW b \in Storage, (b \in reg) # (b \in reg')
  PROVE  b \in OwnBits(op[h])
<1>1. op[h] \in Controls /\ Found(op[h]) /\ WordInFlight(h)
  BY DEF WriteServed, IInv, AtWork, WordsInFlight
<1>2. b \in reg' <=> b \in word[h]
  BY DEF WriteServed, AfterWrite, Storage
<1>3. CASE op[h].kind = "set_reg"
  BY <1>3 DEF OwnBits, Storage
<1>4. CASE op[h].kind # "set_reg"
  <2>1. word[h] \cap Storage
          = ((reg \ FieldMask(Target(op[h]))) \cup Bits(op[h])) \cap Storage
    BY <1>1, <1>4 DEF WordInFlight
  <2>2. Bits(op[h]) \subseteq FieldMask(Target(op[h]))
    BY <1>1, <1>4, BitsInWord
  <2> QED
    BY <1>2, <1>4, <2>1, <2>2 DEF OwnBits
<1> QED
  BY <1>3, <1>4

(* A bit of storage outside the field of a click is lost only to a write   *)
(* that came between its two requests: NeighboursKept up to `disturbed`,   *)
(* for any number of handlers and tasks.                                   *)
NeighboursKeptOrDisturbed ==
  [][\A b \in Storage : (b \in reg) # (b \in reg') =>
       \/ \E h \in Handlers :
            WriteServed(h) /\ (CanRead(RegAccess) /\ h \notin disturbed => b \in OwnBits(op[h]))
       \/ Rust]_vars

(* A storage bit changes by what a handler writes or a task.               *)
LEMMA WhoChangesStorage ==
  ASSUME IInv, Next, NEW b \in Storage, (b \in reg) # (b \in reg'), ~Rust
  PROVE  \E h \in Handlers : WriteServed(h)
<1>1. CASE Hardware
  BY <1>1 DEF Hardware, Atomic!Hardware, Atomic!Storage, Storage
<1>2. ASSUME NEW h \in Handlers, Handler(h), ~WriteServed(h) PROVE FALSE
  BY <1>2 DEF Handler, Click, ClickInVain, BadInput, ReadServed, RequestFails, device
<1> QED
  BY <1>1, <1>2 DEF Next

(* Clicks keep the storage bits beside their field, whatever other clicks, *)
(* tasks and the device do, unless the register was written between the    *)
(* two requests of updateField.                                            *)
THEOREM NeighboursOrDisturbed == Spec => NeighboursKeptOrDisturbed
<1> DEFINE A == \A b \in Storage : (b \in reg) # (b \in reg') =>
                  \/ \E h \in Handlers :
                       WriteServed(h) /\ (CanRead(RegAccess) /\ h \notin disturbed => b \in OwnBits(op[h]))
                  \/ Rust
<1>1. IInv /\ [Next]_vars => [A]_vars
  <2> SUFFICES ASSUME IInv, Next, NEW b \in Storage, (b \in reg) # (b \in reg'), ~Rust
               PROVE  \E h \in Handlers :
                        /\ WriteServed(h)
                        /\ CanRead(RegAccess) /\ h \notin disturbed => b \in OwnBits(op[h])
    OBVIOUS
  <2> QED
    BY WhoChangesStorage, UndisturbedKeeps
<1> QED
  BY <1>1, Invariance, PTL DEF Spec, NeighboursKeptOrDisturbed

(* One handler at a time, over all open pages, and no Rust task.           *)
Alone == ~RustTasks /\ \A g, h \in Handlers : g = h

(* A user who is alone with the map, and clicks once at a time, keeps the  *)
(* neighbours of every field he sets, whatever the device does.            *)
THEOREM AloneKeepsNeighbours == Alone /\ Spec => NeighboursKept
<1> DEFINE A == \A b \in Storage : (b \in reg) # (b \in reg') =>
                  \/ \E h \in Handlers :
                       WriteServed(h) /\ (CanRead(RegAccess) => b \in OwnBits(op[h]))
                  \/ Rust
           Inv == Alone /\ disturbed = {}
<1>1. Alone /\ Init => Inv
  BY DEF Init
<1>2. IInv /\ Inv /\ [Next]_vars => Inv'
  <2> SUFFICES ASSUME IInv, Inv, [Next]_vars PROVE disturbed' = {}
    BY DEF Alone
  <2>1. ASSUME NEW h \in Handlers, WriteServed(h) PROVE disturbed' = {}
    BY <2>1 DEF WriteServed, Alone, Computed
  <2>2. ~Rust
    BY DEF Rust, Alone
  <2>3. CASE Hardware \/ UNCHANGED vars
    BY <2>3 DEF Hardware, vars
  <2>4. ASSUME NEW h \in Handlers, Handler(h), ~WriteServed(h) PROVE disturbed' = {}
    BY <2>4 DEF Handler, Click, ClickInVain, BadInput, ReadServed, RequestFails
  <2> QED
    BY <2>1, <2>2, <2>3, <2>4 DEF Next
<1>3. IInv /\ Inv /\ [Next]_vars => [A]_vars
  <2> SUFFICES ASSUME IInv, Inv, Next, NEW b \in Storage, (b \in reg) # (b \in reg'), ~Rust
               PROVE  \E h \in Handlers :
                        WriteServed(h) /\ (CanRead(RegAccess) => b \in OwnBits(op[h]))
    OBVIOUS
  <2> QED
    BY WhoChangesStorage, UndisturbedKeeps
<1> QED
  BY <1>1, <1>2, <1>3, Invariance, PTL DEF Spec, NeighboursKept

(* Only the first register at its offset has controls for fields.          *)
NoAliasControls ==
  \A a \in Aliases :
    SetControls(a.access, a.fields) = {} /\ ClearControls(a.access, a.fields) = {}

(* No click comes to nothing unless a later register at the same offset    *)
(* has a field that can be written: a control of a field always belongs to *)
(* the register in which findField looks for it.                           *)
THEOREM ControlsWork == NoAliasControls /\ Spec => []EveryClickCounts
<1> DEFINE Inv == NoAliasControls /\ EveryClickCounts
<1>1. NoAliasControls /\ Init => Inv
  BY DEF Init, EveryClickCounts
<1>2. ASSUME NoAliasControls, NEW o \in Controls PROVE Found(o)
  <2>1. CASE o \in Rendered(RegAccess, Named)
    BY <2>1, PageAssumption DEF Rendered, SetControls, ClearControls, WriteControls, Named, Found
  <2>2. ASSUME NEW a \in Aliases, o \in Rendered(a.access, a.fields) PROVE Found(o)
    <3>1. o \in WriteControls(a.access)
      BY <1>2, <2>2 DEF NoAliasControls, Rendered
    <3> QED
      BY <3>1 DEF WriteControls, Found
  <2> QED
    BY <2>1, <2>2 DEF Controls
<1>3. IInv /\ Inv /\ [Next]_vars => Inv'
  <2> SUFFICES ASSUME IInv, Inv, [Next]_vars, NEW h \in Handlers PROVE outcome'[h] # "nothing"
    BY DEF EveryClickCounts, NoAliasControls, SetControls, ClearControls
  <2> USE DEF IInv, TypeOK, EveryClickCounts
  <2>1. CASE (Rust \/ Hardware) \/ UNCHANGED vars
    BY <2>1 DEF Rust, Hardware, vars, page
  <2>2. ASSUME NEW g \in Handlers, NEW o \in Controls, Click(g, o) PROVE outcome'[h] # "nothing"
    BY <2>2 DEF Click
  <2>3. ASSUME NEW g \in Handlers, NEW o \in Controls PROVE ~ClickInVain(g, o)
    BY <1>2, <2>3 DEF ClickInVain
  <2>4. ASSUME NEW g \in Handlers, BadInput(g) \/ WriteServed(g) \/ RequestFails(g)
        PROVE  outcome'[h] # "nothing"
    BY <2>4 DEF BadInput, WriteServed, RequestFails, Ends
  <2>5. ASSUME NEW g \in Handlers, ReadServed(g) PROVE outcome'[h] # "nothing"
    BY <2>5 DEF ReadServed
  <2> QED
    BY <2>1, <2>2, <2>3, <2>4, <2>5 DEF Next, Handler
<1> QED
  BY <1>1, <1>2, <1>3, Invariance, PTL DEF Spec
=============================================================================
