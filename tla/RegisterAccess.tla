--------------------------- MODULE RegisterAccess ---------------------------
(***************************************************************************)
(* The generated accessors of one register, run by threads that share the  *)
(* map as `Arc<Mutex<Map>>`, against a device that changes by itself.      *)
(*                                                                         *)
(* A setter takes `&mut self`, so it runs under the mutex; but the bus     *)
(* read and the bus write of its read-modify-write are two accesses, and   *)
(* the device does not know of the mutex: it may raise a flag, change a    *)
(* status bit or end a command between the two.                            *)
(***************************************************************************)
EXTENDS Register

CONSTANTS Threads, NoThread

ASSUME ThreadAssumption == NoThread \notin Threads

NoOp == [kind |-> "none"]

VARIABLES
  reg,     \* the device: bits that read as 1
  fired,   \* the device: commands the last bus write started
  holder,  \* the thread that holds the mutex guard, or NoThread
  pc,      \* pc[t]: "idle", "locked", "read", "build" or "write"
  op,      \* op[t]: the accessor t is inside
  old      \* old[t]: the word it has read, or built up so far

vars == <<reg, fired, holder, pc, op, old>>
device == <<reg, fired>>

Init == /\ reg \in SUBSET Word
        /\ fired = {}
        /\ holder = NoThread
        /\ pc = [t \in Threads |-> "idle"]
        /\ op = [t \in Threads |-> NoOp]
        /\ old = [t \in Threads |-> {}]

-----------------------------------------------------------------------------
(* The accessors as bus accesses.                                          *)

(* __update and modify_<reg> read before they write; on a wo register the  *)
(* field setters write without reading.                                    *)
NeedsRead(o) ==
  \/ o.kind = "modify_reg"
  \/ o.kind \in {"set_field", "clear_field"} /\ CanRead(RegAccess)

(* Mutant of FirstStep: set_<reg> goes through __update as well.           *)
FirstStepReads(o) == IF CanRead(RegAccess) THEN "read"
                     ELSE IF o.kind = "write_reg" THEN "build" ELSE "write"

FirstStep(o) == IF NeedsRead(o) THEN "read"
                ELSE IF o.kind = "write_reg" THEN "build" ELSE "write"

-----------------------------------------------------------------------------
(* Mutant of Lock: the map is not behind a mutex.                          *)
LockUnguarded(t) == /\ pc[t] = "idle"
                    /\ holder' = t
                    /\ pc' = [pc EXCEPT ![t] = "locked"]
                    /\ UNCHANGED <<device, op, old>>

Lock(t) == /\ pc[t] = "idle"
           /\ holder = NoThread
           /\ holder' = t
           /\ pc' = [pc EXCEPT ![t] = "locked"]
           /\ UNCHANGED <<device, op, old>>

Call(t, o) == /\ pc[t] = "locked"
              /\ pc' = [pc EXCEPT ![t] = FirstStep(o)]
              /\ op' = [op EXCEPT ![t] = o]
              /\ UNCHANGED <<device, holder, old>>

(* Mutant of BusRead: the guard is a temporary, dropped after the read.    *)
BusReadUnlocks(t) == /\ pc[t] = "read"
                     /\ old' = [old EXCEPT ![t] = reg]
                     /\ pc' = [pc EXCEPT ![t] = "write"]
                     /\ holder' = NoThread
                     /\ UNCHANGED <<device, op>>

BusRead(t) == /\ pc[t] = "read"
              /\ old' = [old EXCEPT ![t] = reg]
              /\ pc' = [pc EXCEPT ![t] = "write"]
              /\ UNCHANGED <<device, holder, op>>

(* One chained call on the writer of write_<reg>.                          *)
WriterSet(t, f, v) ==
  /\ pc[t] = "build"
  /\ old' = [old EXCEPT ![t] = Update(@, FieldMask(f), Insert(v, f))]
  /\ UNCHANGED <<device, holder, pc, op>>

WriterClear(t, f) ==
  /\ pc[t] = "build"
  /\ old' = [old EXCEPT ![t] = @ \cup FieldMask(f)]
  /\ UNCHANGED <<device, holder, pc, op>>

WriterDone(t) == /\ pc[t] = "build"
                 /\ pc' = [pc EXCEPT ![t] = "write"]
                 /\ UNCHANGED <<device, holder, op, old>>

(* One bus write of the word w ends the accessor.                          *)
Put(t, w) == /\ reg' = AfterWrite(reg, w)
             /\ fired' = Triggered(w)
             /\ pc' = [pc EXCEPT ![t] = "locked"]
             /\ op' = [op EXCEPT ![t] = NoOp]
             /\ old' = [old EXCEPT ![t] = {}]
             /\ UNCHANGED holder

BusWrite(t) ==
  LET o == op[t] IN
  /\ pc[t] = "write"
  /\ \/ o.kind = "set_field"   /\ Put(t, SetWord(RegAccess, Fields, o.field, o.value, old[t]))
     \/ o.kind = "clear_field" /\ Put(t, ClearWord(RegAccess, Fields, o.field, old[t]))
     \/ o.kind = "set_reg"     /\ Put(t, o.value)
     \/ o.kind = "modify_reg"  /\ Put(t, Apply(o.closure, old[t] \cap TypeBits))
     \/ o.kind = "write_reg"   /\ Put(t, old[t])

(* Mutant of ClosurePanics: what was built so far survives the panic.      *)
ClosurePanicsKeeps(t) ==
  /\ \/ pc[t] = "write" /\ op[t].kind = "modify_reg"
     \/ pc[t] = "build"
  /\ holder' = NoThread
  /\ pc' = [pc EXCEPT ![t] = "idle"]
  /\ op' = [op EXCEPT ![t] = NoOp]
  /\ UNCHANGED <<device, old>>

(* The caller's closure panics after the read, or while it builds: the     *)
(* write is skipped, and unwinding drops the guard.                        *)
ClosurePanics(t) ==
  /\ \/ pc[t] = "write" /\ op[t].kind = "modify_reg"
     \/ pc[t] = "build"
  /\ holder' = NoThread
  /\ pc' = [pc EXCEPT ![t] = "idle"]
  /\ op' = [op EXCEPT ![t] = NoOp]
  /\ old' = [old EXCEPT ![t] = {}]
  /\ UNCHANGED device

Unlock(t) == /\ pc[t] = "locked"
             /\ holder' = NoThread
             /\ pc' = [pc EXCEPT ![t] = "idle"]
             /\ UNCHANGED <<device, op, old>>

Thread(t) ==
  \/ Lock(t) \/ BusRead(t) \/ WriterDone(t) \/ BusWrite(t) \/ ClosurePanics(t) \/ Unlock(t)
  \/ \E o \in Ops : Call(t, o)
  \/ \E f \in Settable, v \in FieldValues : WriterSet(t, f, v)
  \/ \E f \in Clearable : WriterClear(t, f)

-----------------------------------------------------------------------------
(* The device by itself.                                                   *)

RaiseFlag(b) == reg' = reg \cup {b} /\ UNCHANGED <<fired, holder, pc, op, old>>

EndCommand(b) == reg' = reg \ {b} /\ UNCHANGED <<fired, holder, pc, op, old>>

DriveStatus(s) == /\ reg' = (reg \ Status) \cup s
                  /\ UNCHANGED <<fired, holder, pc, op, old>>

Hardware == \/ \E b \in Flags : RaiseFlag(b)
            \/ \E b \in Commands : EndCommand(b)
            \/ \E s \in SUBSET Status : DriveStatus(s)

Next == Hardware \/ \E t \in Threads : Thread(t)

Spec == Init /\ [][Next]_vars
-----------------------------------------------------------------------------
(* Properties.                                                             *)

PCs == {"idle", "locked", "read", "build", "write"}

(* Type invariant: device words stay inside the bus word, and an accessor  *)
(* is what its program counter says.                                       *)
TypeOK ==
  /\ reg \in SUBSET Word
  /\ fired \in SUBSET Commands
  /\ holder \in Threads \cup {NoThread}
  /\ pc \in [Threads -> PCs]
  /\ op \in [Threads -> Ops \cup {NoOp}]
  /\ old \in [Threads -> SUBSET Word]
  /\ \A t \in Threads : pc[t] \in {"read", "build", "write"} => op[t] \in Ops
  /\ \A t \in Threads : pc[t] = "read" => NeedsRead(op[t])
  /\ \A t \in Threads : pc[t] = "build" => op[t].kind = "write_reg"

(* A thread is inside the map exactly while it holds the guard.            *)
GuardHeld == \A t \in Threads : pc[t] # "idle" <=> holder = t

(* Between the bus read and the bus write of a read-modify-write, what the *)
(* thread has read of the storage bits is still what the device holds, and *)
(* every flag it has seen pending still is: only the guard's holder writes *)
(* (__update, modify_<reg>).                                               *)
SeenIsCurrent ==
  \A t \in Threads :
    pc[t] = "write" /\ NeedsRead(op[t]) =>
      /\ old[t] \cap Storage = reg \cap Storage
      /\ old[t] \cap Flags \subseteq reg

(* The writer of write_<reg> holds only bits of writable fields: bits no   *)
(* call touches are written as zero.                                       *)
WriterBits ==
  \A t \in Threads :
    pc[t] \in {"build", "write"} /\ op[t].kind = "write_reg" =>
      old[t] \subseteq UNION {FieldMask(f) : f \in Settable \cup Clearable}

(* The inductive invariant.                                                *)
Quiet == \A t \in Threads : pc[t] \in {"idle", "locked", "read"} => old[t] = {}

IInv == TypeOK /\ GuardHeld /\ SeenIsCurrent /\ WriterBits /\ Quiet

(* The bits an accessor is for; the raw ones are for the whole word.       *)
OwnBits(o) == IF o.kind \in {"set_field", "clear_field"} THEN FieldMask(o.field) ELSE Word

(* A pending flag disappears only by an accessor that is for that flag, or *)
(* by a raw whole-register write: a flag the device raises at any moment   *)
(* of somebody else's read-modify-write survives it.                       *)
NoFlagLost ==
  [][\A b \in Flags : b \in reg /\ b \notin reg' =>
       \E t \in Threads : pc[t] = "write" /\ b \in OwnBits(op[t])]_vars

(* No bus write starts a command that its accessor is not for, even when   *)
(* the command bit read as 1 because the command was still running.        *)
NoCommandRetriggered ==
  [][\A t \in Threads : pc[t] = "write" /\ pc'[t] = "locked" =>
       fired' \subseteq OwnBits(op[t])]_vars

(* Storage bits outside the field being set, declared or not, keep their   *)
(* values through the bus write of a field accessor on a readable          *)
(* register, and no other step changes storage at all.                     *)
NeighboursKept ==
  [][\A b \in Storage : (b \in reg) # (b \in reg') =>
       \E t \in Threads :
         pc[t] = "write" /\ (CanRead(RegAccess) => b \in OwnBits(op[t]))]_vars

(* Every accessor takes effect at its bus write, as the one atomic step    *)
(* AtomicRegister describes.                                               *)
Atomic == INSTANCE AtomicRegister WITH reg <- reg, fired <- fired
AtomicSpec == Atomic!Spec
=============================================================================
