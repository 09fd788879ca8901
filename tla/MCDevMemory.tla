----------------------------- MODULE MCDevMemory -----------------------------
(***************************************************************************)
(* A small instance of DevMemory: four bytes, of which the device changes  *)
(* one, bytes and two-byte words, and calls that overlap, that end at the  *)
(* end of the mapping, and that do not fit it.                             *)
(***************************************************************************)
EXTENDS DevMemory

Call(op, offset, size, count, byte) ==
  [op |-> op, offset |-> offset, size |-> size, count |-> count,
   data |-> [i \in 0 .. count - 1 |-> [k \in 0 .. size - 1 |-> byte]]]

MCCalls == { Call("read", 2, 2, 1, 0),       Call("read", 3, 2, 1, 0),
             Call("write", 1, 1, 1, 1),      Call("write", 4, 1, 1, 1),
             Call("modify", 0, 2, 1, 0),     Call("modify", 3, 1, 1, 0),
             Call("read_slice", 0, 2, 2, 0), Call("read_slice", 2, 1, 2, 0),
             Call("read_slice", 2, 2, 2, 0), Call("read_slice", 4, 1, 0, 0),
             Call("write_slice", 0, 2, 2, 1), Call("write_slice", 3, 1, 2, 1) }

(* Adds one to a little-endian value of bytes of one bit.                  *)
Increment(v) == [k \in DOMAIN v |-> IF \A j \in 0 .. k - 1 : v[j] = 1 THEN 1 - v[k] ELSE v[k]]

MCVolatile == {3}
MCByte == {0, 1}
=============================================================================
