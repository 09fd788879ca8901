----------------------------- MODULE MemoryCalls -----------------------------
(***************************************************************************)
(* The calls of DevMem that access the mapping with checks.                *)
(*                                                                         *)
(* A call is a record [op, offset, size, count, data]: count values of     *)
(* size bytes each from offset.  data is the caller's buffer: what a write *)
(* stores, and what a read overwrites.  A value is the function from       *)
(* 0 .. size - 1 to its bytes.  Types are no wider than one access of the  *)
(* machine and aligned to their size, as all register types are; the       *)
(* arithmetic of access_ok at the end of the address space is MapLayout's. *)
(***************************************************************************)
EXTENDS Integers

CONSTANTS
  Len,      \* bytes in the mapping
  Byte,     \* what a byte can hold
  Calls,    \* the calls threads make
  F(_),     \* the closure of modify
  Threads,  \* threads that share the DevMem
  Volatile, \* bytes the device changes by itself
  NoCall

Locations == 0 .. Len - 1
Value(size) == [0 .. size - 1 -> Byte]

Operations == {"read", "write", "modify", "read_slice", "write_slice"}

ASSUME CallAssumption ==
  /\ Len \in Nat
  /\ Volatile \subseteq Locations
  /\ NoCall \notin Calls
  /\ \A c \in Calls :
       /\ c.op \in Operations /\ c.offset \in Nat /\ c.size \in Nat \ {0} /\ c.count \in Nat
       /\ c.op \in {"read", "write", "modify"} => c.count = 1
       /\ c.data \in [0 .. c.count - 1 -> Value(c.size)]
       /\ c.op = "modify" => \A v \in Value(c.size) : F(v) \in Value(c.size)

(* Mutant: only the first element is checked.                              *)
AccessOkFirst(c) == c.offset + c.size <= Len /\ c.offset % c.size = 0

AccessOk(c) == c.offset + c.count * c.size <= Len /\ c.offset % c.size = 0

(* The volatile accesses of a call, in order, the element each is to, and  *)
(* what it stores.                                                         *)
Accesses(c)      == IF c.op = "modify" THEN 0 .. 1 ELSE 0 .. c.count - 1
Loads(c, a)      == c.op \in {"read", "read_slice"} \/ (c.op = "modify" /\ a = 0)
Element(c, a)    == IF c.op = "modify" THEN 0 ELSE a
Stored(c, a, buf) == IF c.op = "modify" THEN F(buf[0]) ELSE buf[a]

(* Where the i-th element lies, and what all elements cover.               *)
Start(c, i) == c.offset + i * c.size
Place(c, i) == Start(c, i) .. Start(c, i) + c.size - 1
Region(c)   == c.offset .. c.offset + c.count * c.size - 1

Load(mem, c, i) == [k \in 0 .. c.size - 1 |-> mem[Start(c, i) + k]]

Store(mem, c, i, v) ==
  [b \in Locations |-> IF b \in Place(c, i) THEN v[b - Start(c, i)] ELSE mem[b]]
=============================================================================
