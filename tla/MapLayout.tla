------------------------------ MODULE MapLayout ------------------------------
(***************************************************************************)
(* Where the registers of a map are, which bytes an access touches, and    *)
(* the checks that keep accesses inside the mapping:                       *)
(*  - the generated accessors are not checked; `Map::new` compares the     *)
(*    mapping's length with the length the declaration requires, and array *)
(*    accessors check their index;                                         *)
(*  - DevMem's own methods check every access (access_ok);                 *)
(*  - the web server looks an offset up in the spec table, then makes a    *)
(*    checked access.                                                      *)
(*                                                                         *)
(* An entry is a record [offset, count, access, literal]; literal says     *)
(* whether offset and length are integer literals, which the macro adds    *)
(* up itself, or constants for the compiler to evaluate.                   *)
(***************************************************************************)
EXTENDS Integers

CONSTANTS
  BusSize,       \* bytes of the bus type
  Sizes,         \* sizes of the types DevMem is used with, also alignments
  Limit,         \* usize counts modulo this
  Wraps,         \* whether the macro was built without overflow checks
  Declarations,  \* maps: sets of entries
  Lengths,       \* lengths of mappings
  Offsets,       \* offsets callers and clients ask for
  MaxCount       \* bound on the elements of a slice

Entries == UNION Declarations

(* What validate and the generated const assertions have checked.          *)
ASSUME LayoutAssumption ==
  /\ BusSize \in Nat \ {0} /\ Limit \in Nat \ {0} /\ MaxCount \in Nat
  /\ Wraps \in BOOLEAN
  /\ Sizes \subseteq Nat \ {0} /\ BusSize \in Sizes
  /\ Lengths \subseteq 0 .. Limit - 1 /\ Offsets \subseteq 0 .. Limit - 1
  /\ Entries \subseteq [offset : 0 .. Limit - 1, count : 0 .. Limit - 1,
                        access : {"rw", "ro", "wo"}, literal : BOOLEAN]
  /\ \A e \in Entries : e.offset % BusSize = 0

VARIABLES
  decl,  \* the declared map
  len,   \* the length of the mapping
  map,   \* "none", "created" or "refused"
  last   \* the last access: [via, off, size, n, ok]

vars == <<decl, len, map, last>>

NoAccess == [via |-> "none", off |-> 0, size |-> BusSize, n |-> 0, ok |-> FALSE]

Init == /\ decl \in Declarations
        /\ len \in Lengths
        /\ map = "none"
        /\ last = NoAccess

-----------------------------------------------------------------------------
End(e) == e.offset + e.count * BusSize

(* A sum that overflows in a const is a compile error, and so it is in the *)
(* macro unless overflow checks are off.                                   *)
Compiles(d) == \/ Wraps /\ \A e \in d : e.literal
               \/ \A e \in d : End(e) < Limit

(* The required length is the maximum of the entries' ends.                *)
LongEnough(d, l) == \A e \in d : End(e) % Limit <= l

(* The offset of element i of e, in the accessors and in spec::expand.     *)
ElementOffset(e, i) == e.offset + i * BusSize

(* The index check of an array accessor.                                   *)
IndexOk(e, i) == i < e.count

(* Mutants: a slice is checked by its first element; the end is excluded.  *)
AccessOkFirst(off, size, n) == off + size <= len /\ off % size = 0
AccessOkStrict(off, size, n) == off + size * n < len /\ off % size = 0

(* access_ok; the mapping itself is page-aligned.  Both the product and    *)
(* the sum are checked for overflow.                                       *)
AccessOk(off, size, n) == /\ off + size * n < Limit
                          /\ off + size * n <= len
                          /\ off % size = 0

(* Mutant: the element after the last counts as well.                      *)
ContainsOnePast(e, off) == /\ off >= e.offset
                           /\ (off - e.offset) % BusSize = 0
                           /\ (off - e.offset) \div BusSize <= e.count

Contains(e, off) == /\ off >= e.offset
                    /\ (off - e.offset) % BusSize = 0
                    /\ (off - e.offset) \div BusSize < e.count

Permits(access, verb) == \/ verb = "read" /\ access \in {"rw", "ro"}
                         \/ verb = "write" /\ access \in {"rw", "wo"}

-----------------------------------------------------------------------------
Record(via, off, size, n, ok) ==
  /\ last' = [via |-> via, off |-> off, size |-> size, n |-> n, ok |-> ok]
  /\ UNCHANGED <<decl, len, map>>

(* Mutant: the sum in the generated const wraps as well.                   *)
NewUnevaluated == /\ map = "none"
                  /\ map' = IF LongEnough(decl, len) THEN "created" ELSE "refused"
                  /\ UNCHANGED <<decl, len, last>>

New == /\ map = "none"
       /\ Compiles(decl)
       /\ map' = IF LongEnough(decl, len) THEN "created" ELSE "refused"
       /\ UNCHANGED <<decl, len, last>>

(* An accessor of element i; it panics if there is none.                   *)
Accessor(e, i) ==
  /\ map = "created"
  /\ e \in decl
  /\ Record("accessor", ElementOffset(e, i) % Limit, BusSize, 1, IndexOk(e, i))

(* read, write, modify (one element) and the slice methods of DevMem.      *)
Checked(off, size, n) == Record("devmem", off, size, n, AccessOk(off, size, n))

(* read_register and write_register.                                       *)
Web(off, verb) ==
  /\ map = "created"
  /\ Record(verb, off, BusSize, 1,
            /\ \E e \in decl : Permits(e.access, verb) /\ Contains(e, off)
            /\ AccessOk(off, BusSize, 1))

Next ==
  \/ New
  \/ \E e \in Entries : \E i \in 0 .. e.count : Accessor(e, i)
  \/ \E off \in Offsets, size \in Sizes, n \in 0 .. MaxCount : Checked(off, size, n)
  \/ \E off \in Offsets, verb \in {"read", "write"} : Web(off, verb)

Spec == Init /\ [][Next]_vars

-----------------------------------------------------------------------------
(* Properties.                                                             *)

(* Type invariant: a map exists only when its declaration compiles and     *)
(* fits.                                                                   *)
TypeOK ==
  /\ decl \in Declarations
  /\ len \in Lengths
  /\ map \in {"none", "created", "refused"}
  /\ last \in [via : {"none", "accessor", "devmem", "read", "write"}, off : 0 .. Limit - 1,
               size : Sizes, n : Nat, ok : BOOLEAN]
  /\ map = "created" => Compiles(decl) /\ LongEnough(decl, len)

(* Every access that is carried out lies inside the mapping and is aligned *)
(* for its type, although the accessors of a map (__read, __write) check   *)
(* nothing.                                                                *)
InBounds ==
  last.ok => /\ last.off + last.size * last.n <= len
             /\ last.off % last.size = 0

(* Once Map::new has succeeded, every element spec::expand lists to the    *)
(* page is found again by spec::contains, and its access is never refused  *)
(* by access_ok.                                                           *)
ListedIsServed ==
  map = "created" =>
    \A e \in decl : \A i \in 0 .. e.count - 1 :
      LET off == ElementOffset(e, i)
      IN Contains(e, off) /\ AccessOk(off, BusSize, 1)

(* The web server touches nothing but whole declared elements, in a        *)
(* direction their access kind permits.                                    *)
ServedIsListed ==
  last.ok /\ last.via \in {"read", "write"} =>
    \E e \in decl : /\ Permits(e.access, last.via)
                    /\ \E i \in 0 .. e.count - 1 : last.off = ElementOffset(e, i)
=============================================================================
