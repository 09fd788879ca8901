------------------------ MODULE RegisterAccessProofs ------------------------
(***************************************************************************)
(* Proofs about RegisterAccess, for every declaration, device and set of   *)
(* threads that satisfy the assumptions of Register and RegisterAccess.    *)
(***************************************************************************)
EXTENDS RegisterAccess, TLAPS

-----------------------------------------------------------------------------
(* What a setter positions into its field stays inside the field's mask.   *)
LEMMA InsertInMask ==
  ASSUME NEW v, NEW f
  PROVE  Insert(v, f) \subseteq FieldMask(f)
  BY DEF Insert

(* A bus write leaves the device with bits of the bus word only.           *)
LEMMA AfterWriteInWord ==
  ASSUME NEW r \in SUBSET Word, NEW w
  PROVE  AfterWrite(r, w) \in SUBSET Word
  BY DeviceAssumption DEF AfterWrite, Storage

(* A bus write started only commands.                                      *)
LEMMA TriggeredAreCommands ==
  ASSUME NEW w
  PROVE  Triggered(w) \in SUBSET Commands
  BY DEF Triggered

(* The kinds of the accessors, and what each carries.                      *)
LEMMA OpKinds ==
  ASSUME NEW o \in Ops
  PROVE  \/ o \in SetFieldOps /\ o.kind = "set_field" /\ o.field \in Settable /\ o.value \in FieldValues
         \/ o \in ClearOps /\ o.kind = "clear_field" /\ o.field \in Clearable
         \/ o \in SetRegOps /\ o.kind = "set_reg" /\ o.value \in RegValues
         \/ /\ o \in ModifyOps /\ o.kind = "modify_reg" /\ o.closure \in Closures
            /\ CanRead(RegAccess)
         \/ o \in WriterOps /\ o.kind = "write_reg" /\ RegAccess = "wo"
  BY DEF Ops, SetFieldOps, ClearOps, SetRegOps, ModifyOps, WriterOps

(* Only a readable register is ever read before it is written.             *)
LEMMA NeedsReadReadable ==
  ASSUME NEW o \in Ops, NeedsRead(o)
  PROVE  CanRead(RegAccess)
  BY OpKinds DEF NeedsRead

(* NoOp is no accessor.                                                    *)
LEMMA NoOpIsNone == NoOp.kind = "none" /\ ~NeedsRead(NoOp)
  BY DEF NoOp, NeedsRead

-----------------------------------------------------------------------------
(* The three facts that make IInv inductive.                               *)

LEMMA InitIInv == Init => IInv
<1> SUFFICES ASSUME Init PROVE IInv
  OBVIOUS
<1>1. TypeOK
  BY DEF Init, TypeOK, PCs
<1>2. GuardHeld
  BY ThreadAssumption DEF Init, GuardHeld
<1>3. SeenIsCurrent /\ WriterBits /\ Quiet
  BY DEF Init, SeenIsCurrent, WriterBits, Quiet
<1> QED
  BY <1>1, <1>2, <1>3 DEF IInv

(* Each action keeps the types.                                            *)
LEMMA TypeStep == IInv /\ [Next]_vars => TypeOK'
<1> SUFFICES ASSUME IInv, [Next]_vars PROVE TypeOK'
  OBVIOUS
<1> USE DEF IInv, TypeOK, PCs, device
<1>1. ASSUME NEW t \in Threads, Lock(t) PROVE TypeOK'
  BY <1>1 DEF Lock
<1>2. ASSUME NEW t \in Threads, NEW o \in Ops, Call(t, o) PROVE TypeOK'
  <2>1. FirstStep(o) \in PCs
    BY DEF FirstStep
  <2>2. FirstStep(o) = "read" => NeedsRead(o)
    BY DEF FirstStep
  <2>3. FirstStep(o) = "build" => o.kind = "write_reg"
    BY DEF FirstStep
  <2> QED
    BY <1>2, <2>1, <2>2, <2>3 DEF Call
<1>3. ASSUME NEW t \in Threads, BusRead(t) PROVE TypeOK'
  BY <1>3 DEF BusRead
<1>4. ASSUME NEW t \in Threads, NEW f \in Settable, NEW v \in FieldValues, WriterSet(t, f, v)
      PROVE TypeOK'
  <2>1. Update(old[t], FieldMask(f), Insert(v, f)) \in SUBSET Word
    BY InsertInMask, DeclarationAssumption DEF Declares, Update, Settable
  <2> QED
    BY <1>4, <2>1 DEF WriterSet
<1>5. ASSUME NEW t \in Threads, NEW f \in Clearable, WriterClear(t, f) PROVE TypeOK'
  <2>1. FieldMask(f) \in SUBSET Word
    BY DeclarationAssumption DEF Declares, Clearable
  <2> QED
    BY <1>5, <2>1 DEF WriterClear
<1>6. ASSUME NEW t \in Threads, WriterDone(t) PROVE TypeOK'
  BY <1>6 DEF WriterDone
<1>7. ASSUME NEW t \in Threads, BusWrite(t) PROVE TypeOK'
  BY <1>7, AfterWriteInWord, TriggeredAreCommands DEF BusWrite, Put
<1>8. ASSUME NEW t \in Threads, ClosurePanics(t) PROVE TypeOK'
  BY <1>8 DEF ClosurePanics
<1>9. ASSUME NEW t \in Threads, Unlock(t) PROVE TypeOK'
  BY <1>9 DEF Unlock
<1>10. CASE Hardware
  BY <1>10, DeviceAssumption DEF Hardware, RaiseFlag, EndCommand, DriveStatus
<1>11. CASE UNCHANGED vars
  BY <1>11 DEF vars
<1> QED
  BY <1>1, <1>2, <1>3, <1>4, <1>5, <1>6, <1>7, <1>8, <1>9, <1>10, <1>11 DEF Next, Thread

(* The guard passes from thread to thread, one at a time.                  *)
LEMMA GuardStep == IInv /\ [Next]_vars => GuardHeld'
<1> SUFFICES ASSUME IInv, [Next]_vars PROVE GuardHeld'
  OBVIOUS
<1> USE ThreadAssumption DEF IInv, TypeOK, PCs, GuardHeld, device
<1>1. ASSUME NEW t \in Threads, Lock(t) PROVE GuardHeld'
  BY <1>1 DEF Lock
<1>2. ASSUME NEW t \in Threads, NEW o \in Ops, Call(t, o) PROVE GuardHeld'
  <2>1. FirstStep(o) # "idle"
    BY DEF FirstStep
  <2> QED
    BY <1>2, <2>1 DEF Call
<1>3. ASSUME NEW t \in Threads, BusRead(t) \/ WriterDone(t) PROVE GuardHeld'
  BY <1>3 DEF BusRead, WriterDone
<1>4. ASSUME NEW t \in Threads, BusWrite(t) PROVE GuardHeld'
  BY <1>4 DEF BusWrite, Put
<1>5. ASSUME NEW t \in Threads, ClosurePanics(t) \/ Unlock(t) PROVE GuardHeld'
  BY <1>5 DEF ClosurePanics, Unlock
<1>6. ASSUME UNCHANGED <<holder, pc>> PROVE GuardHeld'
  BY <1>6
<1>7. ASSUME NEW t \in Threads,
             \/ \E f \in Settable, v \in FieldValues : WriterSet(t, f, v)
             \/ \E f \in Clearable : WriterClear(t, f)
      PROVE GuardHeld'
  BY <1>6, <1>7 DEF WriterSet, WriterClear
<1>8. CASE Hardware
  BY <1>6, <1>8 DEF Hardware, RaiseFlag, EndCommand, DriveStatus
<1>9. CASE UNCHANGED vars
  BY <1>6, <1>9 DEF vars
<1> QED
  BY <1>1, <1>2, <1>3, <1>4, <1>5, <1>7, <1>8, <1>9 DEF Next, Thread

(* Nobody but the guard's holder writes between its read and its write.    *)
LEMMA SeenStep == IInv /\ [Next]_vars => SeenIsCurrent'
<1> SUFFICES ASSUME IInv, [Next]_vars PROVE SeenIsCurrent'
  OBVIOUS
<1> USE DEF IInv, TypeOK, PCs, GuardHeld, SeenIsCurrent, device
<1>1. ASSUME NEW t \in Threads, Lock(t) \/ Unlock(t) PROVE SeenIsCurrent'
  BY <1>1 DEF Lock, Unlock
<1>2. ASSUME NEW t \in Threads, NEW o \in Ops, Call(t, o) PROVE SeenIsCurrent'
  <2>1. NeedsRead(o) => FirstStep(o) = "read"
    BY DEF FirstStep
  <2> QED
    BY <1>2, <2>1 DEF Call
<1>3. ASSUME NEW t \in Threads, BusRead(t) PROVE SeenIsCurrent'
  BY <1>3 DEF BusRead
<1>4. ASSUME NEW t \in Threads, NEW f \in Settable, NEW v \in FieldValues, WriterSet(t, f, v)
      PROVE SeenIsCurrent'
  BY <1>4 DEF WriterSet
<1>5. ASSUME NEW t \in Threads, NEW f \in Clearable, WriterClear(t, f) PROVE SeenIsCurrent'
  BY <1>5 DEF WriterClear
<1>6. ASSUME NEW t \in Threads, WriterDone(t) PROVE SeenIsCurrent'
  <2>1. ~NeedsRead(op[t])
    BY <1>6 DEF WriterDone, NeedsRead
  <2> QED
    BY <1>6, <2>1 DEF WriterDone
<1>7. ASSUME NEW t \in Threads, BusWrite(t) PROVE SeenIsCurrent'
  <2> SUFFICES ASSUME NEW u \in Threads, pc'[u] = "write" PROVE FALSE
    OBVIOUS
  <2>1. u # t /\ pc[u] = "write"
    BY <1>7 DEF BusWrite, Put
  <2>2. holder = t /\ holder = u
    BY <1>7, <2>1 DEF BusWrite, Put
  <2> QED
    BY <2>1, <2>2
<1>8. ASSUME NEW t \in Threads, ClosurePanics(t) PROVE SeenIsCurrent'
  BY <1>8 DEF ClosurePanics
<1>9. CASE Hardware
  BY <1>9, DeviceAssumption DEF Hardware, RaiseFlag, EndCommand, DriveStatus, Storage
<1>10. CASE UNCHANGED vars
  BY <1>10 DEF vars
<1> QED
  BY <1>1, <1>2, <1>3, <1>4, <1>5, <1>6, <1>7, <1>8, <1>9, <1>10 DEF Next, Thread

(* A writer starts from zero and is given bits of writable fields only.    *)
LEMMA WriterStep == IInv /\ [Next]_vars => WriterBits'
<1> DEFINE Writable == UNION {FieldMask(f) : f \in Settable \cup Clearable}
<1> SUFFICES ASSUME IInv, [Next]_vars, NEW u \in Threads,
                    pc'[u] \in {"build", "write"}, op'[u].kind = "write_reg"
             PROVE  old'[u] \subseteq Writable
  BY DEF WriterBits
<1> USE DEF IInv, TypeOK, PCs, device
<1>0. pc[u] \in {"build", "write"} /\ op[u].kind = "write_reg" => old[u] \subseteq Writable
  BY DEF WriterBits
<1>1. ASSUME NEW t \in Threads, Lock(t) \/ Unlock(t) \/ WriterDone(t)
      PROVE old'[u] \subseteq Writable
  BY <1>0, <1>1 DEF Lock, Unlock, WriterDone
<1>2. ASSUME NEW t \in Threads, NEW o \in Ops, Call(t, o) PROVE old'[u] \subseteq Writable
  BY <1>0, <1>2 DEF Call, Quiet
<1>3. ASSUME NEW t \in Threads, BusRead(t) PROVE old'[u] \subseteq Writable
  <2>1. op[t].kind # "write_reg"
    BY <1>3 DEF BusRead, NeedsRead
  <2> QED
    BY <1>0, <1>3, <2>1 DEF BusRead
<1>4. ASSUME NEW t \in Threads, NEW f \in Settable, NEW v \in FieldValues, WriterSet(t, f, v)
      PROVE old'[u] \subseteq Writable
  <2>1. Update(old[u], FieldMask(f), Insert(v, f)) \subseteq old[u] \cup FieldMask(f)
    BY InsertInMask DEF Update
  <2>2. FieldMask(f) \subseteq Writable
    OBVIOUS
  <2>3. old[u] \subseteq Writable
    BY <1>0, <1>4 DEF WriterSet
  <2> HIDE DEF Writable
  <2> QED
    BY <1>4, <2>1, <2>2, <2>3 DEF WriterSet
<1>5. ASSUME NEW t \in Threads, NEW f \in Clearable, WriterClear(t, f)
      PROVE old'[u] \subseteq Writable
  <2>1. FieldMask(f) \subseteq Writable
    OBVIOUS
  <2>2. old[u] \subseteq Writable
    BY <1>0, <1>5 DEF WriterClear
  <2> HIDE DEF Writable
  <2> QED
    BY <1>5, <2>1, <2>2 DEF WriterClear
<1>6. ASSUME NEW t \in Threads, BusWrite(t) \/ ClosurePanics(t)
      PROVE old'[u] \subseteq Writable
  <2>1. CASE u = t
    BY <1>6, <2>1 DEF BusWrite, Put, ClosurePanics
  <2>2. CASE u # t
    BY <1>0, <1>6, <2>2 DEF BusWrite, Put, ClosurePanics
  <2> QED
    BY <2>1, <2>2
<1>7. CASE Hardware
  BY <1>0, <1>7 DEF Hardware, RaiseFlag, EndCommand, DriveStatus
<1>8. CASE UNCHANGED vars
  BY <1>0, <1>8 DEF vars
<1> QED
  BY <1>1, <1>2, <1>3, <1>4, <1>5, <1>6, <1>7, <1>8 DEF Next, Thread

(* A thread that has not read and does not build holds no word.            *)
LEMMA QuietStep == IInv /\ [Next]_vars => Quiet'
<1> SUFFICES ASSUME IInv, [Next]_vars PROVE Quiet'
  OBVIOUS
<1> USE DEF IInv, TypeOK, PCs, Quiet, device
<1>1. ASSUME NEW t \in Threads, Lock(t) \/ Unlock(t) \/ BusRead(t) \/ WriterDone(t)
      PROVE Quiet'
  BY <1>1 DEF Lock, Unlock, BusRead, WriterDone
<1>2. ASSUME NEW t \in Threads, NEW o \in Ops, Call(t, o) PROVE Quiet'
  BY <1>2 DEF Call
<1>3. ASSUME NEW t \in Threads,
             \/ \E f \in Settable, v \in FieldValues : WriterSet(t, f, v)
             \/ \E f \in Clearable : WriterClear(t, f)
      PROVE Quiet'
  BY <1>3 DEF WriterSet, WriterClear
<1>4. ASSUME NEW t \in Threads, BusWrite(t) \/ ClosurePanics(t) PROVE Quiet'
  BY <1>4 DEF BusWrite, Put, ClosurePanics
<1>5. CASE Hardware
  BY <1>5 DEF Hardware, RaiseFlag, EndCommand, DriveStatus
<1>6. CASE UNCHANGED vars
  BY <1>6 DEF vars
<1> QED
  BY <1>1, <1>2, <1>3, <1>4, <1>5, <1>6 DEF Next, Thread

(* The inductive invariant holds in every reachable state.                 *)
THEOREM Invariance == Spec => []IInv
<1>1. IInv /\ [Next]_vars => IInv'
  BY TypeStep, GuardStep, SeenStep, WriterStep, QuietStep DEF IInv
<1> QED
  BY InitIInv, <1>1, PTL DEF Spec

(* Type correctness.                                                       *)
THEOREM TypeCorrect == Spec => []TypeOK
<1>1. IInv => TypeOK
  BY DEF IInv
<1> QED
  BY Invariance, <1>1, PTL

(* What a read-modify-write has read of the storage bits stays true until  *)
(* it writes, and so do the flags it has seen pending.                     *)
THEOREM SeenStaysCurrent == Spec => []SeenIsCurrent
<1>1. IInv => SeenIsCurrent
  BY DEF IInv
<1> QED
  BY Invariance, <1>1, PTL

(* What a write_<reg> builder has collected lies in the fields it was      *)
(* called for: on a write-only register the rest is written as zero.       *)
THEOREM BuilderOwnsItsBits == Spec => []WriterBits
<1>1. IInv => WriterBits
  BY DEF IInv
<1> QED
  BY Invariance, <1>1, PTL

(* Between its guard and its write a thread is alone in the map.           *)
THEOREM MutualExclusion ==
  Spec => [](\A t, u \in Threads : pc[t] # "idle" /\ pc[u] # "idle" => t = u)
<1>1. IInv => \A t, u \in Threads : pc[t] # "idle" /\ pc[u] # "idle" => t = u
  BY DEF IInv, GuardHeld
<1> QED
  BY Invariance, <1>1, PTL

-----------------------------------------------------------------------------
(* The word a field accessor writes has ones of flags and commands only    *)
(* inside its own field: the force-zero mask took out all the others.      *)
LEMMA ForcedBitsAreOwn ==
  ASSUME NEW f \in Fields, NEW v, NEW seen \in SUBSET Word
  PROVE  /\ SetWord(RegAccess, Fields, f, v, seen) \cap (Flags \cup Commands)
              \subseteq FieldMask(f)
         /\ ClearWord(RegAccess, Fields, f, seen) \cap (Flags \cup Commands)
              \subseteq FieldMask(f)
<1>1. CASE CanRead(RegAccess)
  BY <1>1, InsertInMask, DeviceAssumption DEF SetWord, ClearWord, Update
<1>2. CASE ~CanRead(RegAccess)
  BY <1>2, InsertInMask DEF SetWord, ClearWord
<1> QED
  BY <1>1, <1>2

(* The five accessors, as the word each puts on the bus.                   *)
LEMMA BusWriteCases ==
  ASSUME TypeOK, NEW t \in Threads, BusWrite(t)
  PROVE  \E w :
           /\ Put(t, w)
           /\ pc[t] = "write"
           /\ w \cap (Flags \cup Commands) \subseteq OwnBits(op[t])
<1> DEFINE o == op[t]
<1>1. o \in Ops /\ old[t] \in SUBSET Word
  BY DEF TypeOK, BusWrite
<1>2. Flags \cup Commands \subseteq Word
  BY DeviceAssumption
<1>3. CASE o.kind \in {"set_field", "clear_field"}
  <2>1. o.field \in Fields
    BY <1>1, <1>3, OpKinds DEF Settable, Clearable
  <2>2. OwnBits(o) = FieldMask(o.field)
    BY <1>3 DEF OwnBits
  <2>3. CASE o.kind = "set_field"
    <3> DEFINE w == SetWord(RegAccess, Fields, o.field, o.value, old[t])
    <3>1. Put(t, w) /\ pc[t] = "write"
      BY <2>3 DEF BusWrite
    <3>2. w \cap (Flags \cup Commands) \subseteq OwnBits(o)
      BY <2>1, <2>2, <1>1, ForcedBitsAreOwn
    <3> QED BY <3>1, <3>2
  <2>4. CASE o.kind = "clear_field"
    <3> DEFINE w == ClearWord(RegAccess, Fields, o.field, old[t])
    <3>1. Put(t, w) /\ pc[t] = "write"
      BY <2>4 DEF BusWrite
    <3>2. w \cap (Flags \cup Commands) \subseteq OwnBits(o)
      BY <2>1, <2>2, <1>1, ForcedBitsAreOwn
    <3> QED BY <3>1, <3>2
  <2> QED
    BY <1>3, <2>3, <2>4
<1>4. CASE o.kind \notin {"set_field", "clear_field"}
  <2>1. OwnBits(o) = Word
    BY <1>4 DEF OwnBits
  <2>2. \E w : Put(t, w)
    BY DEF BusWrite
  <2> QED
    BY <2>1, <2>2, <1>2 DEF BusWrite
<1> QED
  BY <1>3, <1>4

(* No flag is acknowledged by an accessor that is not for it.              *)
THEOREM FlagSafety == Spec => NoFlagLost
<1> DEFINE A == \A b \in Flags : b \in reg /\ b \notin reg' =>
                  \E t \in Threads : pc[t] = "write" /\ b \in OwnBits(op[t])
<1>1. TypeOK /\ [Next]_vars => [A]_vars
  <2> SUFFICES ASSUME TypeOK, Next, NEW b \in Flags, b \in reg, b \notin reg'
               PROVE  \E t \in Threads : pc[t] = "write" /\ b \in OwnBits(op[t])
    BY DEF vars
  <2>1. ~Hardware
    BY DeviceAssumption DEF Hardware, RaiseFlag, EndCommand, DriveStatus
  <2>2. PICK t \in Threads : Thread(t)
    BY <2>1 DEF Next
  <2>3. BusWrite(t)
    BY <2>2 DEF Thread, Lock, Call, BusRead, WriterDone, ClosurePanics, Unlock,
                WriterSet, WriterClear, device
  <2>4. PICK w : /\ Put(t, w)
                 /\ pc[t] = "write"
                 /\ w \cap (Flags \cup Commands) \subseteq OwnBits(op[t])
    BY <2>3, BusWriteCases
  <2>5. b \in w
    BY <2>4 DEF Put, AfterWrite
  <2> QED
    BY <2>4, <2>5
<1> QED
  BY TypeCorrect, <1>1, PTL DEF Spec, NoFlagLost

(* No command starts by an accessor that is not for it.                    *)
THEOREM CommandSafety == Spec => NoCommandRetriggered
<1> DEFINE A == \A t \in Threads : pc[t] = "write" /\ pc'[t] = "locked" =>
                  fired' \subseteq OwnBits(op[t])
<1>1. TypeOK /\ [Next]_vars => [A]_vars
  <2> SUFFICES ASSUME TypeOK, Next, NEW t \in Threads, pc[t] = "write", pc'[t] = "locked"
               PROVE  fired' \subseteq OwnBits(op[t])
    BY DEF vars
  <2>1. ~Hardware
    BY DEF Hardware, RaiseFlag, EndCommand, DriveStatus
  <2>2. PICK u \in Threads : Thread(u)
    BY <2>1 DEF Next
  <2>3. BusWrite(u) /\ u = t
    BY <2>2 DEF Thread, Lock, Call, BusRead, WriterDone, ClosurePanics, Unlock,
                WriterSet, WriterClear, BusWrite, Put, TypeOK, PCs
  <2>4. PICK w : Put(t, w) /\ w \cap (Flags \cup Commands) \subseteq OwnBits(op[t])
    BY <2>3, BusWriteCases
  <2> QED
    BY <2>4 DEF Put, Triggered
<1> QED
  BY TypeCorrect, <1>1, PTL DEF Spec, NoCommandRetriggered

-----------------------------------------------------------------------------
(* On a readable register a field accessor, having read what the storage   *)
(* still holds, changes only its own bits: with the mask of its field and  *)
(* the bits it drives, the bus write is the abstract Touch.                *)
LEMMA FieldWriteTouches ==
  ASSUME TypeOK, CanRead(RegAccess), NEW t \in Threads,
         NEW seen \in SUBSET Word, seen \cap Storage = reg \cap Storage,
         NEW mask \in SUBSET Word, NEW bits \in SUBSET mask, NEW force,
         force \subseteq ForceZero(Fields) \cup mask,
         Flags \cup Commands \subseteq force, (mask \ bits) \cap Storage \subseteq force,
         Put(t, Update(seen, force, bits))
  PROVE  Atomic!Touch(mask, bits)
<1> DEFINE w == (seen \ force) \cup bits
<1>1. reg' = AfterWrite(reg, w) /\ fired' = w \cap Commands
  BY DEF Put, Update, Triggered
<1>2. w \cap Commands = bits \cap Commands
  OBVIOUS
<1>3. w \cap Flags = bits \cap Flags
  OBVIOUS
<1>4. w \cap Storage = ((reg \ mask) \cap Storage) \cup (bits \cap Storage)
  BY DeviceAssumption
<1> HIDE DEF w
<1>5. AfterWrite(reg, w)
        = (reg \ ((mask \cap Storage) \cup (bits \cap Flags)))
            \cup (bits \cap (Storage \cup Commands))
  BY <1>2, <1>3, <1>4, DeviceAssumption DEF AfterWrite, Storage, TypeOK
<1> QED
  BY <1>1, <1>2, <1>5 DEF Atomic!Touch, Atomic!Storage, Storage

(* A write that reads nothing drives the whole word.                       *)
LEMMA RawWriteTouches ==
  ASSUME TypeOK, NEW t \in Threads, NEW w \in SUBSET Word, Put(t, w)
  PROVE  Atomic!Touch(Word, w)
<1>1. AfterWrite(reg, w)
        = (reg \ ((Word \cap Storage) \cup (w \cap Flags)))
            \cup (w \cap (Storage \cup Commands))
  BY DeviceAssumption DEF AfterWrite, Storage, TypeOK
<1> QED
  BY <1>1 DEF Put, Triggered, Atomic!Touch, Atomic!Storage, Storage

(* The abstract specification is about the same operations and bits.       *)
LEMMA SameDeclaration ==
  /\ Atomic!SetFieldOps = SetFieldOps /\ Atomic!ClearOps = ClearOps
  /\ Atomic!SetRegOps = SetRegOps /\ Atomic!ModifyOps = ModifyOps
  /\ Atomic!WriterOps = WriterOps
  /\ Atomic!Settable = Settable /\ Atomic!Clearable = Clearable
  /\ Atomic!Storage = Storage
  /\ Atomic!CanRead(RegAccess) = CanRead(RegAccess)
  /\ \A f : Atomic!FieldMask(f) = FieldMask(f)
  /\ \A v, f : Atomic!Insert(v, f) = Insert(v, f)
<1>1. /\ Atomic!CanRead(RegAccess) = CanRead(RegAccess)
      /\ Atomic!CanWrite(RegAccess) = CanWrite(RegAccess)
  BY DEF Atomic!CanRead, CanRead, Atomic!CanWrite, CanWrite
<1>2. \A f : Atomic!FieldMask(f) = FieldMask(f)
  BY DEF Atomic!FieldMask, FieldMask
<1>3. \A v, f : Atomic!Insert(v, f) = Insert(v, f)
  BY <1>2 DEF Atomic!Insert, Insert
<1>4. Atomic!Settable = Settable /\ Atomic!Clearable = Clearable
  BY DEF Atomic!Settable, Settable, Atomic!Clearable, Clearable, Atomic!FieldCanWrite,
         FieldCanWrite, Atomic!CanWrite, CanWrite
<1>5. /\ Atomic!SetFieldOps = SetFieldOps /\ Atomic!ClearOps = ClearOps
      /\ Atomic!SetRegOps = SetRegOps /\ Atomic!ModifyOps = ModifyOps
      /\ Atomic!WriterOps = WriterOps
  BY <1>1, <1>4 DEF Atomic!SetFieldOps, SetFieldOps, Atomic!ClearOps, ClearOps,
     Atomic!SetRegOps, SetRegOps, Atomic!ModifyOps, ModifyOps, Atomic!WriterOps, WriterOps
<1>6. Atomic!Storage = Storage
  BY DEF Atomic!Storage, Storage
<1> QED
  BY <1>1, <1>2, <1>3, <1>4, <1>5, <1>6

(* Every bus write is one abstract operation.                              *)
LEMMA BusWriteIsOperation ==
  ASSUME IInv, NEW t \in Threads, BusWrite(t)
  PROVE  Atomic!Operation
<1> DEFINE o == op[t]
<1>1. o \in Ops /\ old[t] \in SUBSET Word /\ pc[t] = "write"
  BY DEF IInv, TypeOK, BusWrite
<1>2. TypeOK
  BY DEF IInv
<1>3. ASSUME NEW f \in Fields PROVE FieldMask(f) \in SUBSET Word
  BY DeclarationAssumption DEF Declares
<1>4. CASE o.kind = "set_field"
  <2>1. /\ o \in SetFieldOps /\ o.field \in Fields
        /\ Put(t, SetWord(RegAccess, Fields, o.field, o.value, old[t]))
    BY <1>1, <1>4, OpKinds DEF BusWrite, Settable
  <2>2. Insert(o.value, o.field) \in SUBSET FieldMask(o.field)
    BY InsertInMask
  <2>3. CASE CanRead(RegAccess)
    <3>1. old[t] \cap Storage = reg \cap Storage
      BY <1>1, <1>4, <2>3 DEF IInv, SeenIsCurrent, NeedsRead
    <3>2. Put(t, Update(old[t], ForceZero(Fields) \cup FieldMask(o.field),
                        Insert(o.value, o.field)))
      BY <2>1, <2>3 DEF SetWord
    <3>3. Atomic!Touch(FieldMask(o.field), Insert(o.value, o.field))
      BY <1>1, <1>2, <1>3, <2>1, <2>2, <2>3, <3>1, <3>2, FieldWriteTouches, DeviceAssumption
    <3> QED
      BY <2>1, <2>3, <3>3, SameDeclaration DEF Atomic!Operation, Atomic!SetField
  <2>4. CASE ~CanRead(RegAccess)
    <3>1. Put(t, Insert(o.value, o.field))
      BY <2>1, <2>4 DEF SetWord
    <3>2. Atomic!Touch(Word, Insert(o.value, o.field))
      BY <1>2, <1>3, <2>1, <2>2, <3>1, RawWriteTouches
    <3> QED
      BY <2>1, <2>4, <3>2, SameDeclaration DEF Atomic!Operation, Atomic!SetField
  <2> QED
    BY <2>3, <2>4
<1>5. CASE o.kind = "clear_field"
  <2>1. o \in ClearOps /\ o.field \in Fields /\ Put(t, ClearWord(RegAccess, Fields, o.field, old[t]))
    BY <1>1, <1>5, OpKinds DEF BusWrite, Clearable
  <2>2. CASE CanRead(RegAccess)
    <3>1. old[t] \cap Storage = reg \cap Storage
      BY <1>1, <1>5, <2>2 DEF IInv, SeenIsCurrent, NeedsRead
    <3>2. Put(t, Update(old[t], ForceZero(Fields), FieldMask(o.field)))
      BY <2>1, <2>2 DEF ClearWord
    <3>3. Atomic!Touch(FieldMask(o.field), FieldMask(o.field))
      BY <1>1, <1>2, <1>3, <2>1, <2>2, <3>1, <3>2, FieldWriteTouches, DeviceAssumption
    <3> QED
      BY <2>1, <2>2, <3>3, SameDeclaration DEF Atomic!Operation, Atomic!ClearField
  <2>3. CASE ~CanRead(RegAccess)
    <3>1. Put(t, FieldMask(o.field))
      BY <2>1, <2>3 DEF ClearWord
    <3>2. Atomic!Touch(Word, FieldMask(o.field))
      BY <1>2, <1>3, <2>1, <3>1, RawWriteTouches
    <3> QED
      BY <2>1, <2>3, <3>2, SameDeclaration DEF Atomic!Operation, Atomic!ClearField
  <2> QED
    BY <2>2, <2>3
<1>6. CASE o.kind = "set_reg"
  <2>1. o \in SetRegOps /\ o.value \in SUBSET Word /\ Put(t, o.value)
    BY <1>1, <1>6, OpKinds, DeclarationAssumption DEF Declares, BusWrite
  <2> QED
    BY <1>2, <2>1, RawWriteTouches, SameDeclaration DEF Atomic!Operation, Atomic!SetReg
<1>7. CASE o.kind = "modify_reg"
  <2> DEFINE w == Apply(o.closure, old[t] \cap TypeBits)
  <2>1. o \in ModifyOps /\ o.closure \in Closures /\ Put(t, w)
    BY <1>1, <1>7, OpKinds DEF BusWrite
  <2>2. w \in SUBSET Word
    BY <1>1, <2>1, DeclarationAssumption DEF Declares
  <2>3. old[t] \cap Storage = reg \cap Storage /\ old[t] \cap Flags \subseteq reg
    BY <1>1, <1>7 DEF IInv, SeenIsCurrent, NeedsRead
  <2>4. Atomic!Touch(Word, w)
    BY <1>2, <2>1, <2>2, RawWriteTouches
  <2>5. Atomic!ModifyReg(o.closure)
    BY <1>1, <2>3, <2>4, SameDeclaration DEF Atomic!ModifyReg
  <2> QED
    BY <2>1, <2>5, SameDeclaration DEF Atomic!Operation
<1>8. CASE o.kind = "write_reg"
  <2>1. o \in WriterOps /\ Put(t, old[t])
    BY <1>1, <1>8, OpKinds DEF BusWrite
  <2>2. Atomic!Touch(Word, old[t])
    BY <1>1, <1>2, <2>1, RawWriteTouches
  <2>3. old[t] \subseteq UNION {FieldMask(f) : f \in Settable \cup Clearable}
    BY <1>1, <1>8 DEF IInv, WriterBits
  <2>4. UNION {Atomic!FieldMask(f) : f \in Atomic!Settable \cup Atomic!Clearable}
          = UNION {FieldMask(f) : f \in Settable \cup Clearable}
    BY SameDeclaration
  <2>5. Atomic!WriteReg
    BY <2>2, <2>3, <2>4 DEF Atomic!WriteReg
  <2> QED
    BY <2>1, <2>5, SameDeclaration DEF Atomic!Operation
<1> QED
  BY <1>1, <1>4, <1>5, <1>6, <1>7, <1>8, OpKinds

(* The generated accessors implement the atomic register: every behaviour  *)
(* of the read-modify-writes under the guard, with the device changing in  *)
(* between, is one of the operations taking effect one at a time.          *)
THEOREM Refinement == Spec => AtomicSpec
<1>1. Init => Atomic!Init
  BY DEF Init, Atomic!Init
<1>2. IInv /\ [Next]_vars => [Atomic!Next]_(Atomic!vars)
  <2> SUFFICES ASSUME IInv, [Next]_vars PROVE Atomic!Next \/ UNCHANGED <<reg, fired>>
    BY DEF Atomic!vars
  <2>1. CASE Hardware
    <3>1. reg \in SUBSET Word /\ reg' \in SUBSET Word
      BY TypeStep DEF IInv, TypeOK
    <3>2. /\ reg' \cap Storage = reg \cap Storage
          /\ reg \cap Flags \subseteq reg'
          /\ reg' \cap Commands \subseteq reg
          /\ UNCHANGED fired
      BY <2>1, DeviceAssumption DEF Hardware, RaiseFlag, EndCommand, DriveStatus, Storage
    <3>3. Atomic!Hardware
      BY <3>1, <3>2, SameDeclaration DEF Atomic!Hardware
    <3> QED
      BY <3>3 DEF Atomic!Next
  <2>2. ASSUME NEW t \in Threads, Thread(t) PROVE Atomic!Next \/ UNCHANGED <<reg, fired>>
    <3>1. CASE BusWrite(t)
      BY <3>1, BusWriteIsOperation DEF Atomic!Next
    <3>2. CASE ~BusWrite(t)
      BY <2>2, <3>2 DEF Thread, Lock, Call, BusRead, WriterSet, WriterClear, WriterDone,
                        ClosurePanics, Unlock, device
    <3> QED
      BY <3>1, <3>2
  <2>3. CASE UNCHANGED vars
    BY <2>3 DEF vars
  <2> QED
    BY <2>1, <2>2, <2>3 DEF Next
<1> QED
  BY Invariance, <1>1, <1>2, PTL DEF Spec, AtomicSpec, Atomic!Spec

(* On a readable register, what a field accessor writes to the storage     *)
(* bits outside its field is what the device holds there.                  *)
LEMMA StorageOutsideField ==
  ASSUME IInv, NEW t \in Threads, BusWrite(t), CanRead(RegAccess),
         op[t].kind \in {"set_field", "clear_field"},
         NEW b \in Storage, b \notin FieldMask(op[t].field)
  PROVE  b \in reg' <=> b \in reg
<1> DEFINE o == op[t]
<1>1. /\ o \in Ops /\ pc[t] = "write" /\ NeedsRead(o)
      /\ b \notin ForceZero(Fields)
  BY DeviceAssumption DEF IInv, TypeOK, BusWrite, NeedsRead
<1>2. b \in old[t] <=> b \in reg
  BY <1>1 DEF IInv, SeenIsCurrent
<1>3. CASE o.kind = "set_field"
  <2>1. Put(t, Update(old[t], ForceZero(Fields) \cup FieldMask(o.field),
                      Insert(o.value, o.field)))
    BY <1>3 DEF BusWrite, SetWord
  <2> QED
    BY <1>1, <1>2, <2>1, InsertInMask, DeviceAssumption DEF Put, Update, AfterWrite, Storage
<1>4. CASE o.kind = "clear_field"
  <2>1. Put(t, Update(old[t], ForceZero(Fields), FieldMask(o.field)))
    BY <1>4 DEF BusWrite, ClearWord
  <2> QED
    BY <1>1, <1>2, <2>1, DeviceAssumption DEF Put, Update, AfterWrite, Storage
<1> QED
  BY <1>3, <1>4

(* A field accessor preserves the neighbouring storage bits.               *)
THEOREM NeighbourSafety == Spec => NeighboursKept
<1> DEFINE A == \A b \in Storage : (b \in reg) # (b \in reg') =>
                  \E t \in Threads :
                    pc[t] = "write" /\ (CanRead(RegAccess) => b \in OwnBits(op[t]))
<1>1. IInv /\ [Next]_vars => [A]_vars
  <2> SUFFICES ASSUME IInv, Next, NEW b \in Storage, (b \in reg) # (b \in reg')
               PROVE  \E t \in Threads :
                        pc[t] = "write" /\ (CanRead(RegAccess) => b \in OwnBits(op[t]))
    BY DEF vars
  <2>1. ~Hardware
    BY DeviceAssumption DEF Hardware, RaiseFlag, EndCommand, DriveStatus, Storage
  <2>2. PICK t \in Threads : Thread(t)
    BY <2>1 DEF Next
  <2>3. BusWrite(t) /\ pc[t] = "write"
    BY <2>2 DEF Thread, Lock, Call, BusRead, WriterDone, ClosurePanics, Unlock,
                WriterSet, WriterClear, BusWrite, device
  <2>4. b \in Word
    BY DEF Storage
  <2>5. CASE op[t].kind \in {"set_field", "clear_field"}
    BY <2>3, <2>5, StorageOutsideField DEF OwnBits
  <2>6. CASE op[t].kind \notin {"set_field", "clear_field"}
    BY <2>3, <2>4, <2>6 DEF OwnBits
  <2> QED
    BY <2>5, <2>6
<1> QED
  BY Invariance, <1>1, PTL DEF Spec, NeighboursKept
=============================================================================
