------------------------------- MODULE WebPage -------------------------------
(***************************************************************************)
(* The controls of one register on the web UI's page.                      *)
(*                                                                         *)
(* A click on a control starts an async handler.  It reads the register    *)
(* with one request and writes it with another, so other handlers, other   *)
(* pages and Rust tasks may come between the two; the mutex of the map is  *)
(* held within each request only.  That a request, and an accessor called  *)
(* by a Rust task, are single steps is what WebServer and RegisterAccess   *)
(* are about.                                                              *)
(*                                                                         *)
(* Several registers may be declared at the offset.  The register of this  *)
(* module's declaration is the first of them; Aliases are the others.  A   *)
(* control of a field knows the field by its name.                         *)
(***************************************************************************)
EXTENDS Register

CONSTANTS
  Handlers,   \* click handlers that may run at once, over all open pages
  Aliases,    \* later registers at the same offset: records [access, fields],
              \* with records [name, access] for fields
  Name,       \* Name[f]: the name of field f of the first register
  Lookup,     \* Lookup[n]: its first field of name n
  Numbers,    \* what users write into the whole register, up to the bus's width
  RustTasks   \* whether Rust tasks use the map's accessors meanwhile

ASSUME PageAssumption ==
  /\ RustTasks \in BOOLEAN
  /\ Numbers \subseteq SUBSET Word
  /\ \A a \in Aliases : a.access \in Access
  /\ DOMAIN Name = Fields
  /\ DOMAIN Lookup = {Name[f] : f \in Fields}
  /\ \A n \in DOMAIN Lookup : Lookup[n] \in Fields /\ Name[Lookup[n]] = n

NoOp == [kind |-> "none"]

VARIABLES
  reg, fired,  \* the device, as in Register
  step,        \* step[h]: "idle", or the request in flight: "read" or "write"
  op,          \* op[h]: the control that was clicked
  word,        \* word[h]: the word of the write request
  outcome,     \* outcome[h]: what the last click came to
  disturbed    \* (history) handlers that have read, and somebody has written since

vars == <<reg, fired, step, op, word, outcome, disturbed>>
device == <<reg, fired>>
page == <<step, op, word, outcome>>

Init == /\ reg \in SUBSET Word
        /\ fired = {}
        /\ step = [h \in Handlers |-> "idle"]
        /\ op = [h \in Handlers |-> NoOp]
        /\ word = [h \in Handlers |-> {}]
        /\ outcome = [h \in Handlers |-> "none"]
        /\ disturbed = {}

-----------------------------------------------------------------------------
(* The controls the page renders for the registers at the offset: Set,     *)
(* Clear, and Write of the whole register.                                 *)

SetControls(acc, fields) ==
  LET settable == {f \in fields : FieldCanWrite(f.access, acc) /\ f.access # "w1c"}
  IN [kind : {"set_field"}, value : FieldValues, name : {f.name : f \in settable}]

ClearControls(acc, fields) ==
  LET clearable == {f \in fields : FieldCanWrite(f.access, acc) /\ f.access = "w1c"}
  IN [kind : {"clear_field"}, name : {f.name : f \in clearable}]

WriteControls(acc) == IF CanWrite(acc) THEN [kind : {"set_reg"}, value : Numbers] ELSE {}

Rendered(acc, fields) ==
  SetControls(acc, fields) \cup ClearControls(acc, fields) \cup WriteControls(acc)

Named == {[name |-> Name[f], access |-> f.access] : f \in Fields}

Controls == Rendered(RegAccess, Named) \cup UNION {Rendered(a.access, a.fields) : a \in Aliases}

(* The name is looked for in the first register at the offset, whichever   *)
(* register the control belongs to.                                        *)
Found(o) == o.kind # "set_reg" => o.name \in DOMAIN Lookup

Target(o) == Lookup[o.name]

-----------------------------------------------------------------------------
Effective(fa, acc) == IF fa = "inherit" THEN acc ELSE fa

EffectiveAccess(f) == Effective(f.access, RegAccess)

(* Mutants: one of the two kinds is forgotten.                             *)
ForceZeroMaskNoFlags ==
  UNION {FieldMask(f) : f \in {g \in Fields : EffectiveAccess(g) = "wo"}}

ForceZeroMaskNoCommands ==
  UNION {FieldMask(f) : f \in {g \in Fields : EffectiveAccess(g) = "w1c"}}

ForceZeroMask ==
  UNION {FieldMask(f) : f \in {g \in Fields : EffectiveAccess(g) \in {"wo", "w1c"}}}

Compute(o, old) ==
  CASE o.kind = "set_field"   -> Update(old, ForceZeroMask \cup FieldMask(Target(o)),
                                        Insert(o.value, Target(o)))
    [] o.kind = "clear_field" -> Update(old, ForceZeroMask, FieldMask(Target(o)))
    [] o.kind = "set_reg"     -> o.value

ReadsFirst(o) == o.kind # "set_reg" /\ CanRead(RegAccess)

-----------------------------------------------------------------------------
Ends(h, result) == /\ step' = [step EXCEPT ![h] = "idle"]
                   /\ op' = [op EXCEPT ![h] = NoOp]
                   /\ word' = [word EXCEPT ![h] = {}]
                   /\ outcome' = [outcome EXCEPT ![h] = result]

Click(h, o) ==
  /\ step[h] = "idle"
  /\ Found(o)
  /\ step' = [step EXCEPT ![h] = IF ReadsFirst(o) THEN "read" ELSE "write"]
  /\ op' = [op EXCEPT ![h] = o]
  /\ word' = [word EXCEPT ![h] = IF ReadsFirst(o) THEN {} ELSE Compute(o, {})]
  /\ outcome' = [outcome EXCEPT ![h] = "pending"]
  /\ UNCHANGED <<device, disturbed>>

(* findField returns null: the handler returns before it does anything.    *)
ClickInVain(h, o) == /\ step[h] = "idle"
                     /\ ~Found(o)
                     /\ Ends(h, "nothing")
                     /\ UNCHANGED <<device, disturbed>>

(* The text of the input is no number.                                     *)
BadInput(h) == /\ step[h] = "idle"
               /\ Ends(h, "error")
               /\ UNCHANGED <<device, disturbed>>

(* The read request is served; its answer becomes the write request.       *)
ReadServed(h) == /\ step[h] = "read"
                 /\ step' = [step EXCEPT ![h] = "write"]
                 /\ word' = [word EXCEPT ![h] = Compute(op[h], reg)]
                 /\ UNCHANGED <<device, op, outcome, disturbed>>

(* The handlers whose word is computed from a value read before now.       *)
Computed == {g \in Handlers : step[g] = "write" /\ ReadsFirst(op[g])}

(* The write request is served; its answer may still be lost.              *)
WriteServed(h) == /\ step[h] = "write"
                  /\ reg' = AfterWrite(reg, word[h])
                  /\ fired' = Triggered(word[h])
                  /\ disturbed' = Computed \ {h}
                  /\ \E result \in {"written", "error"} : Ends(h, result)

(* Mutant: a failed read is taken for a register that reads as zero.       *)
RequestFailsIntoZero(h) ==
  /\ step[h] \in {"read", "write"}
  /\ \/ step[h] = "write" /\ Ends(h, "error")
     \/ /\ step[h] = "read"
        /\ step' = [step EXCEPT ![h] = "write"]
        /\ word' = [word EXCEPT ![h] = Compute(op[h], {})]
        /\ UNCHANGED <<op, outcome>>
  /\ disturbed' = disturbed \ {h}
  /\ UNCHANGED device

(* The request is refused, as for a number wider than the bus, or lost on  *)
(* its way.                                                                *)
RequestFails(h) == /\ step[h] \in {"read", "write"}
                   /\ Ends(h, "error")
                   /\ disturbed' = disturbed \ {h}
                   /\ UNCHANGED device

Handler(h) == \/ \E o \in Controls : Click(h, o) \/ ClickInVain(h, o)
              \/ BadInput(h) \/ ReadServed(h) \/ WriteServed(h) \/ RequestFails(h)

-----------------------------------------------------------------------------
Atomic == INSTANCE AtomicRegister WITH reg <- reg, fired <- fired

(* A Rust task that shares the map calls an accessor.                      *)
Rust == RustTasks /\ Atomic!Operation /\ disturbed' = Computed /\ UNCHANGED page

Hardware == Atomic!Hardware /\ UNCHANGED <<page, disturbed>>

Next == Rust \/ Hardware \/ \E h \in Handlers : Handler(h)

Spec == Init /\ [][Next]_vars

-----------------------------------------------------------------------------
(* Properties.                                                             *)

(* Type invariant.                                                         *)
TypeOK ==
  /\ reg \in SUBSET Word
  /\ fired \in SUBSET Commands
  /\ step \in [Handlers -> {"idle", "read", "write"}]
  /\ op \in [Handlers -> Controls \cup {NoOp}]
  /\ word \in [Handlers -> SUBSET Word]
  /\ outcome \in [Handlers -> {"none", "pending", "written", "error", "nothing"}]
  /\ disturbed \subseteq Computed

(* The bits a click is for; of a field's control, those of the field that  *)
(* is found by its name.                                                   *)
OwnBits(o) == IF o.kind = "set_reg" THEN Word ELSE FieldMask(Target(o))

(* However old the value is that the page computed with, its write request *)
(* acknowledges no flag but the one the user chose to clear, unless the    *)
(* user wrote the whole register (forceZeroMask).                          *)
NoFlagLost ==
  [][\A b \in Flags : b \in reg /\ b \notin reg' =>
       \/ \E h \in Handlers : WriteServed(h) /\ b \in OwnBits(op[h])
       \/ Rust]_vars

(* ... and starts no command but the one the user set.                     *)
NoCommandRetriggered ==
  [][\A h \in Handlers : WriteServed(h) => fired' \subseteq OwnBits(op[h])]_vars

(* The accessor a control stands for.                                      *)
Accessor(o) == CASE o.kind = "set_field"   -> Atomic!SetField(Target(o), o.value)
                 [] o.kind = "clear_field" -> Atomic!ClearField(Target(o))
                 [] o.kind = "set_reg"     -> Atomic!SetReg(o.value)

(* As long as nobody else writes the register between them, the two        *)
(* requests of a click are as atomic as the generated accessor, whatever   *)
(* the device does meanwhile and whichever requests fail (updateField).    *)
UndisturbedIsAtomic ==
  [][\A h \in Handlers : WriteServed(h) /\ h \notin disturbed => Accessor(op[h])]_vars

(* A click on a field's control leaves the storage bits outside that field *)
(* as they are, as the generated setters do.                               *)
NeighboursKept ==
  [][\A b \in Storage : (b \in reg) # (b \in reg') =>
       \/ \E h \in Handlers : WriteServed(h) /\ (CanRead(RegAccess) => b \in OwnBits(op[h]))
       \/ Rust]_vars

(* A click on a control the page renders is written or ends in a message.  *)
EveryClickCounts == \A h \in Handlers : outcome[h] # "nothing"
=============================================================================
