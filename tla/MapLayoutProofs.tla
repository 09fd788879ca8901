--------------------------- MODULE MapLayoutProofs ---------------------------
(***************************************************************************)
(* Proofs about MapLayout.                                                 *)
(***************************************************************************)
EXTENDS MapLayout, TLAPS

(* Element i of n slots of b bytes ends before the n slots do.             *)
LEMMA SlotFits ==
  ASSUME NEW n \in Nat, NEW i \in 0 .. n - 1, NEW b \in Nat
  PROVE  i * b + b <= n * b
<1>1. PICK k \in Nat : n = i + 1 + k
  <2>1. n - (i + 1) \in Nat
    OBVIOUS
  <2> QED BY <2>1
<1>2. n * b = i * b + b + k * b
  BY <1>1
<1>3. k * b \in Nat
  OBVIOUS
<1> QED BY <1>2, <1>3

(* A number below the modulus is its own remainder.                        *)
LEMMA ModSmall ==
  ASSUME NEW m \in Nat \ {0}, NEW x \in 0 .. m - 1
  PROVE  x % m = x
OBVIOUS

LEMMA ModRange ==
  ASSUME NEW m \in Nat \ {0}, NEW x \in Nat
  PROVE  x % m \in 0 .. m - 1
OBVIOUS

(* Stepping by whole slots keeps the remainder and counts the slots.       *)
LEMMA ModSlots ==
  ASSUME NEW b \in Nat \ {0}, NEW i \in Nat
  PROVE  (i * b) % b = 0 /\ (i * b) \div b = i
OBVIOUS

LEMMA ModAligned ==
  ASSUME NEW b \in Nat \ {0}, NEW a \in Nat, NEW i \in Nat, a % b = 0
  PROVE  (a + i * b) % b = 0
<1>1. a = b * (a \div b) /\ a \div b \in Nat
  OBVIOUS
<1>2. PICK k \in Nat : k = (a \div b) + i
  BY <1>1
<1>3. a + i * b = k * b
  BY <1>1, <1>2
<1> QED BY <1>3, ModSlots

(* Element i of an entry is a slot of its own inside the entry: aligned,   *)
(* and found by Contains (spec::contains).                                 *)
LEMMA Elements ==
  ASSUME NEW e \in Entries, NEW i \in 0 .. e.count - 1
  PROVE  /\ ElementOffset(e, i) \in Nat
         /\ ElementOffset(e, i) + BusSize <= End(e)
         /\ ElementOffset(e, i) % BusSize = 0
         /\ Contains(e, ElementOffset(e, i))
<1>1. /\ BusSize \in Nat \ {0}
      /\ e.offset \in Nat /\ e.count \in Nat /\ e.offset % BusSize = 0
  BY LayoutAssumption
<1>2. i \in Nat /\ i < e.count
  BY <1>1
<1>3. i * BusSize \in Nat /\ i * BusSize + BusSize <= e.count * BusSize
  BY <1>1, <1>2, SlotFits
<1>4. ElementOffset(e, i) % BusSize = 0
  BY <1>1, <1>2, ModAligned DEF ElementOffset
<1>5. (i * BusSize) % BusSize = 0 /\ (i * BusSize) \div BusSize = i
  BY <1>1, <1>2, ModSlots
<1>6. ElementOffset(e, i) >= e.offset /\ ElementOffset(e, i) - e.offset = i * BusSize
  BY <1>1, <1>3 DEF ElementOffset
<1>7. Contains(e, ElementOffset(e, i))
  BY <1>2, <1>5, <1>6 DEF Contains
<1>8. ElementOffset(e, i) \in Nat /\ ElementOffset(e, i) + BusSize <= End(e)
  <2>1. e.count * BusSize \in Nat
    BY <1>1
  <2> QED BY <1>1, <1>3, <2>1 DEF ElementOffset, End
<1> QED BY <1>4, <1>7, <1>8

(* A declaration that was evaluated with overflow checks fits the address  *)
(* space, so the comparison of Map::new is the exact one.                  *)
LEMMA ExactEnds ==
  ASSUME ~Wraps, NEW d \in Declarations, NEW l \in Lengths,
         Compiles(d), LongEnough(d, l), NEW e \in d
  PROVE  End(e) \in Nat /\ End(e) < Limit /\ End(e) <= l
<1>1. e \in Entries
  BY DEF Entries
<1>2. End(e) \in Nat
  BY <1>1, LayoutAssumption DEF End
<1>3. End(e) < Limit
  BY DEF Compiles
<1>4. End(e) % Limit = End(e)
  BY <1>2, <1>3, ModSmall, LayoutAssumption
<1> QED BY <1>2, <1>3, <1>4 DEF LongEnough

(* What Contains finds is an element.                                      *)
LEMMA ContainedIsElement ==
  ASSUME NEW e \in Entries, NEW off \in 0 .. Limit - 1, Contains(e, off)
  PROVE  \E i \in 0 .. e.count - 1 : off = ElementOffset(e, i)
<1>1. BusSize \in Nat \ {0} /\ e.offset \in Nat /\ e.count \in Nat /\ Limit \in Nat
  BY LayoutAssumption
<1>2. PICK x \in Nat : x = off - e.offset
  BY <1>1 DEF Contains
<1>3. x % BusSize = 0 /\ x \div BusSize < e.count
  BY <1>2 DEF Contains
<1>4. PICK i \in Nat : i = x \div BusSize
  BY <1>1, <1>2
<1>5. x = i * BusSize
  BY <1>1, <1>3, <1>4
<1>6. off = e.offset + i * BusSize /\ i \in 0 .. e.count - 1
  BY <1>1, <1>2, <1>3, <1>4, <1>5
<1> QED BY <1>6 DEF ElementOffset

-----------------------------------------------------------------------------
(* A run of Spec with overflow checks keeps its types, and the map that    *)
(* was created is one that compiles and fits.                              *)
THEOREM TypeCorrect == Spec => []TypeOK
<1> USE LayoutAssumption
<1>1. Init => TypeOK
  BY DEF Init, TypeOK, NoAccess
<1>2. ASSUME TypeOK, [Next]_vars PROVE TypeOK'
  <2> USE <1>2 DEF TypeOK
  <2>1. CASE New
    BY <2>1 DEF New
  <2>2. ASSUME NEW e \in Entries, NEW i \in 0 .. e.count, Accessor(e, i)  PROVE TypeOK'
    <3>1. ElementOffset(e, i) \in Nat
      BY DEF ElementOffset
    <3>2. ElementOffset(e, i) % Limit \in 0 .. Limit - 1
      BY <3>1, ModRange
    <3>3. IndexOk(e, i) \in BOOLEAN
      BY DEF IndexOk
    <3> QED BY <2>2, <3>2, <3>3 DEF Accessor, Record
  <2>3. ASSUME NEW off \in Offsets, NEW size \in Sizes, NEW n \in 0 .. MaxCount,
               Checked(off, size, n)
        PROVE  TypeOK'
    <3>1. AccessOk(off, size, n) \in BOOLEAN
      BY DEF AccessOk
    <3> QED BY <2>3, <3>1 DEF Checked, Record
  <2>4. ASSUME NEW off \in Offsets, NEW verb \in {"read", "write"}, Web(off, verb)
        PROVE  TypeOK'
    BY <2>4 DEF Web, Record
  <2>5. CASE UNCHANGED vars
    BY <2>5 DEF vars
  <2> QED BY <2>1, <2>2, <2>3, <2>4, <2>5 DEF Next
<1> QED BY <1>1, <1>2, PTL DEF Spec

(* With overflow checks on, no access leaves the mapping or is misaligned, *)
(* for every declaration, length, bus width and address space: the check   *)
(* of Map::new covers the unchecked accessors, access_ok the others.       *)
THEOREM Bounds ==
  ASSUME ~Wraps
  PROVE  Spec => []InBounds
<1> USE LayoutAssumption
<1>1. Init => InBounds
  BY DEF Init, InBounds, NoAccess
<1>2. ASSUME TypeOK, InBounds, [Next]_vars PROVE InBounds'
  <2> USE <1>2
  <2>1. CASE New
    BY <2>1 DEF New, InBounds
  <2>2. ASSUME NEW e \in Entries, NEW i \in 0 .. e.count, Accessor(e, i), IndexOk(e, i)
        PROVE  InBounds'
    <3>1. i \in 0 .. e.count - 1
      BY <2>2 DEF IndexOk
    <3>2. /\ ElementOffset(e, i) \in Nat /\ ElementOffset(e, i) % BusSize = 0
          /\ ElementOffset(e, i) + BusSize <= End(e)
      BY <3>1, Elements
    <3>3. End(e) \in Nat /\ End(e) < Limit /\ End(e) <= len
      BY <2>2, ExactEnds DEF Accessor, TypeOK
    <3>4. ElementOffset(e, i) % Limit = ElementOffset(e, i)
      BY <3>2, <3>3, ModSmall
    <3>5. last' = [via |-> "accessor", off |-> ElementOffset(e, i), size |-> BusSize,
                   n |-> 1, ok |-> IndexOk(e, i)] /\ len' = len
      BY <2>2, <3>4 DEF Accessor, Record
    <3>6. BusSize * 1 = BusSize /\ len \in Nat
      BY DEF TypeOK
    <3> QED BY <3>2, <3>3, <3>5, <3>6 DEF InBounds
  <2>3. ASSUME NEW e \in Entries, NEW i \in 0 .. e.count, Accessor(e, i), ~IndexOk(e, i)
        PROVE  InBounds'
    BY <2>3 DEF Accessor, Record, InBounds
  <2>4. ASSUME NEW off \in Offsets, NEW size \in Sizes, NEW n \in 0 .. MaxCount,
               Checked(off, size, n)
        PROVE  InBounds'
    BY <2>4 DEF Checked, Record, AccessOk, InBounds
  <2>5. ASSUME NEW off \in Offsets, NEW verb \in {"read", "write"}, Web(off, verb)
        PROVE  InBounds'
    BY <2>5 DEF Web, Record, AccessOk, InBounds
  <2>6. CASE UNCHANGED vars
    BY <2>6 DEF vars, InBounds
  <2> QED BY <2>1, <2>2, <2>3, <2>4, <2>5, <2>6 DEF Next
<1> QED BY <1>1, <1>2, TypeCorrect, PTL DEF Spec

(* With overflow checks on, the web server never answers "no such          *)
(* register" for an element it has listed: spec::expand, spec::contains    *)
(* and access_ok agree.                                                    *)
THEOREM Served ==
  ASSUME ~Wraps
  PROVE  Spec => []ListedIsServed
<1> USE LayoutAssumption
<1>1. TypeOK => ListedIsServed
  <2> SUFFICES ASSUME TypeOK, map = "created", NEW e \in decl, NEW i \in 0 .. e.count - 1
               PROVE  /\ Contains(e, ElementOffset(e, i))
                      /\ AccessOk(ElementOffset(e, i), BusSize, 1)
    BY DEF ListedIsServed
  <2>1. e \in Entries /\ decl \in Declarations /\ len \in Lengths
        /\ Compiles(decl) /\ LongEnough(decl, len)
    BY DEF TypeOK, Entries
  <2>2. End(e) \in Nat /\ End(e) < Limit /\ End(e) <= len
    BY <2>1, ExactEnds
  <2>3. /\ ElementOffset(e, i) \in Nat /\ ElementOffset(e, i) % BusSize = 0
        /\ ElementOffset(e, i) + BusSize <= End(e)
        /\ Contains(e, ElementOffset(e, i))
    BY <2>1, Elements
  <2>4. len \in Nat /\ BusSize * 1 = BusSize
    BY <2>1
  <2> QED BY <2>2, <2>3, <2>4 DEF AccessOk
<1> QED BY <1>1, TypeCorrect, PTL

(* Overflow checks or not, the web server touches declared elements only,  *)
(* in a direction they permit.                                             *)
THEOREM Declared == Spec => []ServedIsListed
<1> USE LayoutAssumption
<1>1. Init => ServedIsListed
  BY DEF Init, ServedIsListed, NoAccess
<1>2. ASSUME TypeOK, ServedIsListed, [Next]_vars PROVE ServedIsListed'
  <2> USE <1>2
  <2>1. CASE New
    BY <2>1 DEF New, ServedIsListed
  <2>2. ASSUME NEW e \in Entries, NEW i \in 0 .. e.count, Accessor(e, i)
        PROVE  ServedIsListed'
    BY <2>2 DEF Accessor, Record, ServedIsListed
  <2>3. ASSUME NEW off \in Offsets, NEW size \in Sizes, NEW n \in 0 .. MaxCount,
               Checked(off, size, n)
        PROVE  ServedIsListed'
    BY <2>3 DEF Checked, Record, ServedIsListed
  <2>4. ASSUME NEW off \in Offsets, NEW verb \in {"read", "write"}, Web(off, verb)
        PROVE  ServedIsListed'
    <3>1. SUFFICES ASSUME last'.ok
                   PROVE  \E e \in decl : /\ Permits(e.access, verb)
                                          /\ \E i \in 0 .. e.count - 1 : off = ElementOffset(e, i)
      BY <2>4 DEF Web, Record, ServedIsListed
    <3>2. PICK e \in decl : Permits(e.access, verb) /\ Contains(e, off)
      BY <2>4, <3>1 DEF Web, Record
    <3>3. e \in Entries
      BY DEF TypeOK, Entries
    <3> QED BY <3>2, <3>3, ContainedIsElement
  <2>5. CASE UNCHANGED vars
    BY <2>5 DEF vars, ServedIsListed
  <2> QED BY <2>1, <2>2, <2>3, <2>4, <2>5 DEF Next
<1> QED BY <1>1, <1>2, TypeCorrect, PTL DEF Spec
=============================================================================
