--------------------------- MODULE DevMemoryProofs ---------------------------
(***************************************************************************)
(* Proofs about DevMemory, for a mapping of any length, any calls and any  *)
(* number of threads.                                                      *)
(***************************************************************************)
EXTENDS DevMemory, TLAPS

-----------------------------------------------------------------------------
(* Where elements lie.                                                     *)

LEMMA Monotone ==
  ASSUME NEW a \in Nat, NEW b \in Nat, NEW s \in Nat, a <= b
  PROVE  a * s <= b * s
  OBVIOUS

LEMMA CallTypes ==
  ASSUME NEW c \in Calls
  PROVE  /\ c.offset \in Nat /\ c.size \in Nat /\ c.size >= 1 /\ c.count \in Nat
         /\ c.op \in Operations
         /\ c.op = "modify" => c.count = 1
         /\ c.data \in [0 .. c.count - 1 -> Value(c.size)]
         /\ c.op = "modify" => \A v \in Value(c.size) : F(v) \in Value(c.size)
  BY CallAssumption

(* The elements of a call lie in its region, one after the other.          *)
LEMMA ElementsApart ==
  ASSUME NEW c \in Calls, NEW i \in 0 .. c.count - 1
  PROVE  /\ Start(c, i) \in Nat
         /\ Place(c, i) \subseteq Region(c)
         /\ \A j \in 0 .. c.count - 1 : j # i => Place(c, i) \cap Place(c, j) = {}
<1>1. /\ c.offset \in Nat /\ c.size \in Nat /\ c.size >= 1 /\ c.count \in Nat
  BY CallTypes
<1>2. \A k, l \in Nat : k < l => k * c.size + c.size <= l * c.size
  <2> SUFFICES ASSUME NEW k \in Nat, NEW l \in Nat, k < l
               PROVE  k * c.size + c.size <= l * c.size
    OBVIOUS
  <2>1. (k + 1) * c.size <= l * c.size
    BY <1>1, Monotone
  <2>2. (k + 1) * c.size = k * c.size + c.size
    BY <1>1
  <2> QED
    BY <2>1, <2>2
<1>3. \A k \in Nat : k * c.size \in Nat
  BY <1>1
<1>4. i * c.size + c.size <= c.count * c.size
  BY <1>1, <1>2
<1>5. Place(c, i) \subseteq Region(c)
  BY <1>1, <1>3, <1>4 DEF Place, Region, Start
<1>6. ASSUME NEW j \in 0 .. c.count - 1, j # i PROVE Place(c, i) \cap Place(c, j) = {}
  <2>1. \/ i * c.size + c.size <= j * c.size
        \/ j * c.size + c.size <= i * c.size
    BY <1>2, <1>6
  <2> QED
    BY <1>1, <1>3, <2>1 DEF Place, Start
<1> QED
  BY <1>1, <1>3, <1>5, <1>6 DEF Start

(* A call that passes access_ok stays in the mapping.                      *)
LEMMA RegionInMapping ==
  ASSUME NEW c \in Calls, AccessOk(c)
  PROVE  Region(c) \subseteq Locations
  BY CallAssumption, CallTypes DEF AccessOk, Region, Locations

(* What an element that is stored leaves in memory.                        *)
LEMMA StoreEffect ==
  ASSUME NEW m \in [Locations -> Byte], NEW c \in Calls, NEW i \in 0 .. c.count - 1,
         AccessOk(c), NEW v \in Value(c.size)
  PROVE  /\ Store(m, c, i, v) \in [Locations -> Byte]
         /\ Load(Store(m, c, i, v), c, i) = v
         /\ \A b \in Locations \ Place(c, i) : Store(m, c, i, v)[b] = m[b]
<1>1. Start(c, i) \in Nat /\ c.size \in Nat /\ Place(c, i) \subseteq Locations
  BY ElementsApart, CallTypes, RegionInMapping
<1>2. Store(m, c, i, v) \in [Locations -> Byte]
  BY <1>1 DEF Store, Place, Value, Locations
<1>3. \A k \in 0 .. c.size - 1 : Store(m, c, i, v)[Start(c, i) + k] = v[k]
  BY <1>1 DEF Store, Place
<1>4. Load(Store(m, c, i, v), c, i) = v
  BY <1>3 DEF Load, Value
<1> QED
  BY <1>2, <1>4 DEF Store

(* An element none of whose bytes changes reads as before.                 *)
LEMMA LoadKept ==
  ASSUME NEW m, NEW n, NEW c \in Calls, NEW i \in 0 .. c.count - 1,
         \A b \in Place(c, i) : n[b] = m[b]
  PROVE  Load(n, c, i) = Load(m, c, i)
<1>1. \A k \in 0 .. c.size - 1 : Start(c, i) + k \in Place(c, i)
  BY ElementsApart, CallTypes DEF Place
<1> QED
  BY <1>1 DEF Load

(* What is read from memory is a value.                                    *)
LEMMA LoadType ==
  ASSUME NEW m \in [Locations -> Byte], NEW c \in Calls, NEW i \in 0 .. c.count - 1, AccessOk(c)
  PROVE  Load(m, c, i) \in Value(c.size)
<1>1. \A k \in 0 .. c.size - 1 : Start(c, i) + k \in Place(c, i)
  BY ElementsApart, CallTypes DEF Place
<1>2. Place(c, i) \subseteq Locations
  BY ElementsApart, RegionInMapping
<1> QED
  BY <1>1, <1>2 DEF Load, Value

(* The accesses of a call are to its elements.                             *)
LEMMA AccessElement ==
  ASSUME NEW c \in Calls, NEW a \in Accesses(c)
  PROVE  /\ Element(c, a) \in 0 .. c.count - 1
         /\ a \in Nat
         /\ a + 1 \in Nat /\ a + 1 - 1 = a
  BY CallTypes DEF Accesses, Element

-----------------------------------------------------------------------------
(* The inductive invariant.                                                *)

(* What an access that is done left in the buffer and in memory.           *)
Agrees(t, a) ==
  LET c == call[t]
      i == Element(c, a)
  IN Load(mem, c, i) = IF c.op = "modify" /\ ~Loads(c, a) THEN F(buf[t][i]) ELSE buf[t][i]

(* For a call whose bytes nobody else has written, the last access to each *)
(* element still agrees with memory.                                       *)
Coherent == \A t \in Threads \ disturbed :
  call[t] # NoCall =>
    \A a \in Accesses(call[t]) :
      a < next[t] /\ (call[t].op = "modify" => a = next[t] - 1) => Agrees(t, a)

IInv == TypeOK /\ Coherent

LEMMA InitIInv == Init => IInv
<1> SUFFICES ASSUME Init PROVE IInv
  OBVIOUS
<1>1. TypeOK
  BY DEF Init, TypeOK
<1>2. Coherent
  BY DEF Init, Coherent
<1> QED
  BY <1>1, <1>2 DEF IInv

(* A thread in a call.                                                     *)
LEMMA InCall ==
  ASSUME TypeOK, NEW t \in Threads, call[t] # NoCall
  PROVE  /\ call[t] \in Calls /\ AccessOk(call[t])
         /\ buf[t] \in [0 .. call[t].count - 1 -> Value(call[t].size)]
         /\ next[t] \in Nat
         /\ next[t] # 0 => next[t] - 1 \in Accesses(call[t])
  BY DEF TypeOK, Accesses

(* What an access stores is a value of the type of its call.               *)
LEMMA StoredType ==
  ASSUME TypeOK, NEW t \in Threads, call[t] # NoCall, NEW a \in Accesses(call[t])
  PROVE  Stored(call[t], a, buf[t]) \in Value(call[t].size)
<1>1. /\ call[t] \in Calls
      /\ buf[t] \in [0 .. call[t].count - 1 -> Value(call[t].size)]
  BY InCall
<1>2. CASE call[t].op = "modify"
  BY <1>1, <1>2, CallTypes DEF Stored
<1>3. CASE call[t].op # "modify"
  BY <1>1, <1>3 DEF Stored, Accesses
<1> QED
  BY <1>2, <1>3

(* Each action keeps the types.                                            *)
LEMMA TypeStep == TypeOK /\ [Next]_vars => TypeOK'
<1> SUFFICES ASSUME TypeOK, [Next]_vars PROVE TypeOK'
  OBVIOUS
<1> USE DEF TypeOK
<1>1. ASSUME NEW t \in Threads, NEW c \in Calls, Enter(t, c) PROVE TypeOK'
  <2>1. c # NoCall /\ c.data \in [0 .. c.count - 1 -> Value(c.size)]
    BY CallAssumption
  <2> QED
    BY <1>1, <2>1 DEF Enter
<1>2. ASSUME NEW t \in Threads, NEW c \in Calls, Refuse(t, c) PROVE TypeOK'
  BY <1>2 DEF Refuse
<1>3. ASSUME NEW t \in Threads, ReadUnchecked(t) PROVE TypeOK'
  <2> DEFINE c == call[t]
             i == Element(c, next[t])
  <2>1. /\ c # NoCall /\ c \in Calls /\ AccessOk(c) /\ next[t] \in Accesses(c)
        /\ buf[t] \in [0 .. c.count - 1 -> Value(c.size)]
        /\ i \in 0 .. c.count - 1
        /\ next[t] + 1 \in Nat /\ next[t] + 1 - 1 = next[t]
    BY <1>3, InCall, AccessElement DEF ReadUnchecked
  <2>2. Load(mem, c, i) \in Value(c.size)
    BY <2>1, LoadType
  <2>3. /\ buf' = [buf EXCEPT ![t] = [buf[t] EXCEPT ![i] = Load(mem, c, i)]]
        /\ next' = [next EXCEPT ![t] = next[t] + 1]
        /\ UNCHANGED <<mem, call, result, disturbed>>
    BY <1>3 DEF ReadUnchecked
  <2> HIDE DEF c, i
  <2>4. [buf[t] EXCEPT ![i] = Load(mem, c, i)] \in [0 .. c.count - 1 -> Value(c.size)]
    BY <2>1, <2>2
  <2> QED
    BY <2>1, <2>3, <2>4 DEF c
<1>4. ASSUME NEW t \in Threads, WriteUnchecked(t) PROVE TypeOK'
  <2> DEFINE c == call[t]
             i == Element(c, next[t])
  <2>1. /\ c # NoCall /\ c \in Calls /\ AccessOk(c) /\ next[t] \in Accesses(c)
        /\ i \in 0 .. c.count - 1
        /\ next[t] + 1 \in Nat /\ next[t] + 1 - 1 = next[t]
    BY <1>4, InCall, AccessElement DEF WriteUnchecked
  <2>2. mem' \in [Locations -> Byte]
    BY <1>4, <2>1, StoredType, StoreEffect DEF WriteUnchecked
  <2>3. /\ disturbed' \subseteq Threads
        /\ next' = [next EXCEPT ![t] = next[t] + 1]
        /\ UNCHANGED <<call, buf, result>>
    BY <1>4 DEF WriteUnchecked, Over
  <2> QED
    BY <2>1, <2>2, <2>3
<1>5. ASSUME NEW t \in Threads, Return(t) PROVE TypeOK'
  BY <1>5 DEF Return
<1>6. ASSUME NEW b \in Volatile, NEW v \in Byte, Device(b, v) PROVE TypeOK'
  BY <1>6, CallAssumption DEF Device, Over
<1>7. CASE UNCHANGED vars
  BY <1>7 DEF vars
<1> QED
  BY <1>1, <1>2, <1>3, <1>4, <1>5, <1>6, <1>7 DEF Next, Thread

(* A thread whose call goes on, and whose bytes do not change, agrees with *)
(* memory as before.                                                       *)
LEMMA AgreementKept ==
  ASSUME TypeOK, NEW t \in Threads, call[t] # NoCall, NEW a \in Accesses(call[t]),
         Agrees(t, a), call'[t] = call[t], buf'[t] = buf[t],
         \A b \in Place(call[t], Element(call[t], a)) : mem'[b] = mem[b]
  PROVE  Agrees(t, a)'
<1>1. call[t] \in Calls /\ Element(call[t], a) \in 0 .. call[t].count - 1
  BY InCall, AccessElement
<1>2. Load(mem', call[t], Element(call[t], a)) = Load(mem, call[t], Element(call[t], a))
  BY <1>1, LoadKept
<1> QED
  BY <1>2 DEF Agrees

(* Threads that do not move stay coherent if their bytes do not change or  *)
(* the change is recorded.                                                 *)
LEMMA OthersCoherent ==
  ASSUME IInv, NEW u \in Threads \ disturbed', u \notin disturbed, call[u] # NoCall,
         call'[u] = call[u], buf'[u] = buf[u], next'[u] = next[u],
         \A b \in Region(call[u]) : mem'[b] = mem[b],
         NEW a \in Accesses(call[u]), a < next[u],
         call[u].op = "modify" => a = next[u] - 1
  PROVE  Agrees(u, a)'
<1>1. Agrees(u, a)
  BY DEF IInv, Coherent
<1>2. Place(call[u], Element(call[u], a)) \subseteq Region(call[u])
  BY InCall, AccessElement, ElementsApart DEF IInv
<1> QED
  BY <1>1, <1>2, AgreementKept DEF IInv

(* Each action keeps calls coherent with memory, or records who disturbs   *)
(* them.                                                                   *)
LEMMA CoherentStep == IInv /\ [Next]_vars => Coherent'
<1> SUFFICES ASSUME IInv, [Next]_vars, NEW u \in Threads \ disturbed', call'[u] # NoCall,
                    NEW a \in Accesses(call'[u]), a < next'[u],
                    call'[u].op = "modify" => a = next'[u] - 1
             PROVE  Agrees(u, a)'
  BY DEF Coherent
<1> USE DEF IInv
<1>1. ASSUME NEW t \in Threads, NEW c \in Calls, Enter(t, c) PROVE Agrees(u, a)'
  <2>1. CASE u = t
    <3>1. next'[u] = 0 /\ call'[u] = c
      BY <1>1, <2>1 DEF Enter, TypeOK
    <3> QED
      BY <3>1, AccessElement
  <2>2. CASE u # t
    <3>1. /\ call'[u] = call[u] /\ buf'[u] = buf[u] /\ next'[u] = next[u]
          /\ mem' = mem /\ u \notin disturbed
      BY <1>1, <2>2 DEF Enter, TypeOK
    <3> QED
      BY <3>1, OthersCoherent
  <2> QED
    BY <2>1, <2>2
<1>2. ASSUME NEW t \in Threads, NEW c \in Calls, Refuse(t, c) PROVE Agrees(u, a)'
  <2>1. UNCHANGED <<mem, call, next, buf, disturbed>>
    BY <1>2 DEF Refuse
  <2> QED
    BY <2>1, OthersCoherent
<1>3. ASSUME NEW t \in Threads, ReadUnchecked(t) PROVE Agrees(u, a)'
  <2>1. UNCHANGED <<mem, call, disturbed>>
    BY <1>3 DEF ReadUnchecked
  <2>2. CASE u # t
    <3>1. buf'[u] = buf[u] /\ next'[u] = next[u]
      BY <1>3, <2>2 DEF ReadUnchecked, TypeOK
    <3> QED
      BY <2>1, <3>1, OthersCoherent
  <2>3. CASE u = t
    <3> DEFINE c == call[t]
               i == Element(c, next[t])
    <3>1. /\ c \in Calls /\ c # NoCall /\ next[t] \in Accesses(c) /\ Loads(c, next[t])
          /\ buf[t] \in [0 .. c.count - 1 -> Value(c.size)] /\ i \in 0 .. c.count - 1
          /\ next'[t] = next[t] + 1 /\ next[t] \in Nat
          /\ buf'[t] = [buf[t] EXCEPT ![i] = Load(mem, c, i)]
      BY <1>3, InCall, AccessElement DEF ReadUnchecked, TypeOK
    <3>2. a \in Accesses(c) /\ a \in Nat
      BY <2>1, <2>3, <3>1, AccessElement
    <3>3. CASE a = next[t]
      <4>1. buf'[t][i] = Load(mem, c, i)
        BY <3>1
      <4> QED
        BY <2>1, <2>3, <3>1, <3>3, <4>1 DEF Agrees
    <3>4. CASE a # next[t]
      <4>1. a < next[t] /\ c.op # "modify"
        BY <2>1, <2>3, <3>1, <3>2, <3>4
      <4>2. Element(c, a) = a /\ i = next[t] /\ a \in 0 .. c.count - 1
        BY <3>2, <4>1 DEF Element, Accesses
      <4>3. buf'[t][a] = buf[t][a]
        BY <3>1, <3>4, <4>2
      <4>4. Agrees(t, a)
        BY <2>1, <2>3, <3>1, <3>2, <4>1 DEF Coherent
      <4> QED
        BY <2>1, <2>3, <4>1, <4>2, <4>3, <4>4 DEF Agrees
    <3> QED
      BY <3>3, <3>4
  <2> QED
    BY <2>2, <2>3
<1>4. ASSUME NEW t \in Threads, WriteUnchecked(t) PROVE Agrees(u, a)'
  <2> DEFINE c == call[t]
             i == Element(c, next[t])
             v == Stored(c, next[t], buf[t])
  <2>1. /\ c \in Calls /\ c # NoCall /\ AccessOk(c) /\ next[t] \in Accesses(c)
        /\ ~Loads(c, next[t]) /\ i \in 0 .. c.count - 1
        /\ next'[t] = next[t] + 1 /\ next[t] \in Nat
    BY <1>4, InCall, AccessElement DEF WriteUnchecked, TypeOK
  <2>2. /\ UNCHANGED <<call, buf>> /\ mem' = Store(mem, c, i, v)
        /\ disturbed' = disturbed \cup (Over(Place(c, i)) \ {t})
        /\ \A k \in Threads \ {t} : next'[k] = next[k]
    BY <1>4 DEF WriteUnchecked, TypeOK
  <2>3. v \in Value(c.size)
    BY <2>1, StoredType
  <2>4. /\ Load(mem', c, i) = v
        /\ \A b \in Locations \ Place(c, i) : mem'[b] = mem[b]
    BY <2>1, <2>2, <2>3, StoreEffect DEF TypeOK
  <2>5. CASE u # t
    <3>1. Place(c, i) \cap Region(call[u]) = {}
      BY <2>2, <2>5 DEF Over
    <3>2. Region(call[u]) \subseteq Locations
      BY <2>2, InCall, RegionInMapping
    <3>3. next'[u] = next[u] /\ u \notin disturbed /\ call'[u] = call[u] /\ buf'[u] = buf[u]
      BY <2>2, <2>5
    <3> QED
      BY <2>2, <2>4, <3>1, <3>2, <3>3, OthersCoherent
  <2>6. CASE u = t
    <3>1. a \in Accesses(c) /\ a \in Nat
      BY <2>2, <2>6, <2>1, AccessElement
    <3>2. CASE a = next[t]
      <4>1. v = IF c.op = "modify" THEN F(buf[t][i]) ELSE buf[t][i]
        BY <2>1 DEF Stored, Element
      <4> QED
        BY <2>1, <2>2, <2>4, <2>6, <3>2, <4>1 DEF Agrees
    <3>3. CASE a # next[t]
      <4>1. a < next[t] /\ c.op # "modify"
        BY <2>1, <2>2, <2>6, <3>1, <3>3
      <4>2. Element(c, a) = a /\ i = next[t] /\ a \in 0 .. c.count - 1
        BY <3>1, <4>1 DEF Element, Accesses
      <4>3. Place(c, a) \cap Place(c, i) = {} /\ Place(c, a) \subseteq Locations
        BY <2>1, <3>3, <4>2, ElementsApart, RegionInMapping
      <4>4. Agrees(t, a) /\ \A b \in Place(c, Element(c, a)) : mem'[b] = mem[b]
        BY <2>1, <2>2, <2>4, <2>6, <3>1, <4>1, <4>2, <4>3 DEF Coherent
      <4> QED
        BY <2>1, <2>2, <2>6, <3>1, <4>4, AgreementKept
    <3> QED
      BY <3>2, <3>3
  <2> QED
    BY <2>5, <2>6
<1>5. ASSUME NEW t \in Threads, Return(t) PROVE Agrees(u, a)'
  <2>1. u # t /\ UNCHANGED <<mem, buf>> /\ call'[u] = call[u] /\ next'[u] = next[u] /\ u \notin disturbed
    BY <1>5 DEF Return, TypeOK
  <2> QED
    BY <2>1, OthersCoherent
<1>6. ASSUME NEW b \in Volatile, NEW v \in Byte, Device(b, v) PROVE Agrees(u, a)'
  <2>1. /\ UNCHANGED <<call, next, buf>> /\ mem' = [mem EXCEPT ![b] = v]
        /\ u \notin disturbed /\ u \notin Over({b})
    BY <1>6 DEF Device
  <2>2. b \notin Region(call[u]) /\ Region(call[u]) \subseteq Locations
    BY <2>1, InCall, RegionInMapping DEF Over
  <2>3. \A k \in Region(call[u]) : mem'[k] = mem[k]
    BY <2>1, <2>2 DEF TypeOK
  <2> QED
    BY <2>1, <2>3, OthersCoherent
<1>7. CASE UNCHANGED vars
  <2>1. UNCHANGED <<mem, call, next, buf, disturbed>>
    BY <1>7 DEF vars
  <2> QED
    BY <2>1, OthersCoherent
<1> QED
  BY <1>1, <1>2, <1>3, <1>4, <1>5, <1>6, <1>7 DEF Next, Thread

-----------------------------------------------------------------------------
(* The theorems.                                                           *)

(* The inductive invariant holds in every reachable state.                 *)
THEOREM Invariance == Spec => []IInv
<1>1. IInv /\ [Next]_vars => IInv'
  BY TypeStep, CoherentStep DEF IInv
<1> QED
  BY InitIInv, <1>1, PTL DEF Spec

(* Types, and that only calls that fit the mapping get to access it.       *)
THEOREM TypeCorrect == Spec => []TypeOK
<1>1. IInv => TypeOK
  BY DEF IInv
<1> QED
  BY <1>1, Invariance, PTL

(* A call whose bytes nobody else writes meanwhile is atomic.              *)
THEOREM UndisturbedAtomicity == Spec => UndisturbedIsAtomic
<1> DEFINE A == \A t \in Threads \ disturbed :
                  call[t] # NoCall /\ call'[t] = NoCall => IsSnapshot(t)
<1>1. IInv /\ [Next]_vars => [A]_vars
  <2> SUFFICES ASSUME IInv, Next, NEW t \in Threads \ disturbed, call[t] # NoCall, call'[t] = NoCall
               PROVE  IsSnapshot(t)
    OBVIOUS
  <2> DEFINE c == call[t]
  <2>1. Return(t)
    BY CallAssumption DEF Next, Thread, Enter, Refuse, ReadUnchecked, WriteUnchecked, Return, Device,
                          IInv, TypeOK
  <2>2. /\ c \in Calls /\ buf[t] \in [0 .. c.count - 1 -> Value(c.size)]
        /\ next[t] \in Nat /\ next[t] \notin Accesses(c)
        /\ next[t] # 0 => next[t] - 1 \in Accesses(c)
    BY <2>1, InCall DEF Return, IInv
  <2> SUFFICES ASSUME NEW i \in 0 .. c.count - 1
               PROVE  Load(mem, c, i) = IF c.op = "modify" THEN F(buf[t][i]) ELSE buf[t][i]
    BY <2>2 DEF IsSnapshot
  <2>3. CASE c.op = "modify"
    <3>1. next[t] = 2 /\ 1 \in Accesses(c) /\ i = 0
      BY <2>2, <2>3, CallTypes DEF Accesses
    <3>2. Agrees(t, 1)
      BY <3>1 DEF IInv, Coherent
    <3> QED
      BY <2>3, <3>1, <3>2 DEF Agrees, Element, Loads
  <2>4. CASE c.op # "modify"
    <3>1. i \in Accesses(c) /\ i < next[t]
      BY <2>2, <2>4, CallTypes DEF Accesses
    <3>2. Agrees(t, i)
      BY <2>4, <3>1 DEF IInv, Coherent
    <3> QED
      BY <2>4, <3>2 DEF Agrees, Element
  <2> QED
    BY <2>3, <2>4
<1> QED
  BY <1>1, Invariance, PTL DEF Spec, UndisturbedIsAtomic

-----------------------------------------------------------------------------
(* The refinement.                                                         *)

LEMMA SameCalls ==
  /\ Promise!Locations = Locations
  /\ \A c, a : /\ Promise!Accesses(c) = Accesses(c) /\ Promise!Loads(c, a) = Loads(c, a)
               /\ Promise!Element(c, a) = Element(c, a)
  /\ \A c, a, b : Promise!Stored(c, a, b) = Stored(c, a, b)
  /\ \A c, i : Promise!Place(c, i) = Place(c, i)
  /\ \A m, c, i : Promise!Load(m, c, i) = Load(m, c, i)
  /\ \A m, c, i, v : Promise!Store(m, c, i, v) = Store(m, c, i, v)
<1>1. Promise!Locations = Locations
  BY DEF Promise!Locations, Locations
<1>2. \A c, a : /\ Promise!Accesses(c) = Accesses(c) /\ Promise!Loads(c, a) = Loads(c, a)
                /\ Promise!Element(c, a) = Element(c, a)
  BY DEF Promise!Accesses, Accesses, Promise!Loads, Loads, Promise!Element, Element
<1>3. \A c, a, b : Promise!Stored(c, a, b) = Stored(c, a, b)
  BY DEF Promise!Stored, Stored
<1>4. \A c, i : Promise!Start(c, i) = Start(c, i)
  BY DEF Promise!Start, Start
<1>5. \A c, i : Promise!Place(c, i) = Place(c, i)
  BY <1>4 DEF Promise!Place, Place
<1>6. \A m, c, i : Promise!Load(m, c, i) = Load(m, c, i)
  BY <1>4 DEF Promise!Load, Load
<1>7. \A m, c, i, v : Promise!Store(m, c, i, v) = Store(m, c, i, v)
  BY <1>1, <1>4, <1>5 DEF Promise!Store, Store
<1> QED
  BY <1>1, <1>2, <1>3, <1>5, <1>6, <1>7

(* access_ok, one comparison of the end of a call with the end of the      *)
(* mapping, says that every element lies in the mapping.                   *)
LEMMA AccessOkIsFits ==
  ASSUME NEW c \in Calls
  PROVE  AccessOk(c) <=> Promise!Fits(c)
<1>1. /\ c.offset \in Nat /\ c.size \in Nat /\ c.size >= 1 /\ c.count \in Nat /\ Len \in Nat
      /\ c.count * c.size \in Nat
  BY CallTypes, CallAssumption
<1>2. ASSUME AccessOk(c) PROVE Promise!Fits(c)
  <2>1. c.offset \in 0 .. Len /\ c.offset % c.size = 0
    BY <1>1, <1>2 DEF AccessOk
  <2>2. \A i \in 0 .. c.count - 1 : Place(c, i) \subseteq Locations
    BY <1>2, ElementsApart, RegionInMapping
  <2> QED
    BY <2>1, <2>2, SameCalls DEF Promise!Fits
<1>3. ASSUME Promise!Fits(c) PROVE AccessOk(c)
  <2>1. /\ c.offset \in 0 .. Len /\ c.offset % c.size = 0
        /\ \A i \in 0 .. c.count - 1 : Place(c, i) \subseteq Locations
    BY <1>3, SameCalls DEF Promise!Fits
  <2>2. CASE c.count = 0
    BY <1>1, <2>1, <2>2 DEF AccessOk
  <2>3. CASE c.count # 0
    <3> DEFINE s == Start(c, c.count - 1)
    <3>1. s \in Nat /\ s + c.size = c.offset + c.count * c.size
      <4>1. c.count - 1 \in Nat /\ (c.count - 1) * c.size \in Nat
        BY <1>1, <2>3
      <4>2. (c.count - 1) * c.size + c.size = c.count * c.size
        BY <1>1
      <4> QED
        BY <1>1, <4>1, <4>2 DEF Start
    <3>2. s + c.size - 1 \in Locations
      BY <1>1, <2>1, <2>3, <3>1 DEF Place
    <3> QED
      BY <1>1, <2>1, <3>1, <3>2 DEF AccessOk, Locations
  <2> QED
    BY <2>2, <2>3
<1> QED
  BY <1>2, <1>3

(* The accesses a thread has left, as the refinement mapping has them.     *)
Left == [t \in Threads |-> IF call[t] = NoCall THEN {}
                           ELSE {a \in Accesses(call[t]) : a >= next[t]}]

(* An access is one of those left; it is left no more, and no other goes.  *)
LEMMA LeftAfterAccess ==
  ASSUME TypeOK, NEW t \in Threads, call[t] # NoCall, next[t] \in Accesses(call[t]),
         call' = call, next' = [next EXCEPT ![t] = next[t] + 1]
  PROVE  /\ next[t] \in Left[t] /\ \A a \in Left[t] : next[t] <= a
         /\ Left' = [Left EXCEPT ![t] = Left[t] \ {next[t]}]
<1>1. next[t] \in Nat /\ \A a \in Accesses(call[t]) : a \in Nat
  BY InCall, AccessElement
<1>2. next[t] \in Left[t] /\ \A a \in Left[t] : next[t] <= a
  BY <1>1 DEF Left
<1>3. \A a \in Accesses(call[t]) : a >= next[t] + 1 <=> a >= next[t] /\ a # next[t]
  BY <1>1
<1>4. Left'[t] = Left[t] \ {next[t]}
  BY <1>3 DEF Left, TypeOK
<1>5. \A u \in Threads \ {t} : Left'[u] = Left[u]
  BY DEF Left, TypeOK
<1> QED
  BY <1>2, <1>4, <1>5 DEF Left

(* Every step of a call is a step the promise allows.                      *)
LEMMA StepServes ==
  ASSUME TypeOK, Next
  PROVE  Promise!Next
<1>0. Left = [t \in Threads |-> IF call[t] = NoCall THEN {}
                                ELSE {a \in Accesses(call[t]) : a >= next[t]}]
  BY DEF Left
<1>1. ASSUME NEW t \in Threads, NEW c \in Calls, Enter(t, c) PROVE Promise!Next
  <2>1. Promise!Fits(c)
    BY <1>1, AccessOkIsFits DEF Enter
  <2>2. {a \in Accesses(c) : a >= 0} = Accesses(c)
    BY AccessElement
  <2>3. c # NoCall /\ call'[t] = c /\ next'[t] = 0
        /\ \A u \in Threads \ {t} : call'[u] = call[u] /\ next'[u] = next[u]
    BY <1>1, CallAssumption DEF Enter, TypeOK
  <2>4. Left' = [Left EXCEPT ![t] = Accesses(c)]
    BY <2>2, <2>3 DEF Left
  <2>5. Promise!Enter(t, c)
    BY <1>0, <1>1, <2>1, <2>4, SameCalls DEF Enter, Promise!Enter, Left
  <2> QED
    BY <2>5 DEF Promise!Next
<1>2. ASSUME NEW t \in Threads, NEW c \in Calls, Refuse(t, c) PROVE Promise!Next
  <2>1. Left' = Left
    BY <1>2 DEF Refuse, Left
  <2>2. Promise!Refuse(t, c)
    BY <1>2, <2>1, AccessOkIsFits DEF Refuse, Promise!Refuse, Left
  <2> QED
    BY <2>2 DEF Promise!Next
<1>3. ASSUME NEW t \in Threads, ReadUnchecked(t) PROVE Promise!Next
  <2>1. /\ call[t] # NoCall /\ next[t] \in Accesses(call[t]) /\ call' = call
        /\ next' = [next EXCEPT ![t] = next[t] + 1]
    BY <1>3 DEF ReadUnchecked
  <2>2. /\ next[t] \in Left[t] /\ \A a \in Left[t] : next[t] <= a
        /\ Left' = [Left EXCEPT ![t] = Left[t] \ {next[t]}]
    BY <2>1, LeftAfterAccess
  <2> PICK a : a = next[t]
    OBVIOUS
  <2>3. Promise!Access(t, a)
    BY <1>3, <2>2, SameCalls DEF ReadUnchecked, Promise!Access, Left
  <2> QED
    BY <2>2, <2>3 DEF Promise!Next, Left
<1>4. ASSUME NEW t \in Threads, WriteUnchecked(t) PROVE Promise!Next
  <2>1. /\ call[t] # NoCall /\ next[t] \in Accesses(call[t]) /\ call' = call
        /\ next' = [next EXCEPT ![t] = next[t] + 1]
    BY <1>4 DEF WriteUnchecked
  <2>2. /\ next[t] \in Left[t] /\ \A a \in Left[t] : next[t] <= a
        /\ Left' = [Left EXCEPT ![t] = Left[t] \ {next[t]}]
    BY <2>1, LeftAfterAccess
  <2> PICK a : a = next[t]
    OBVIOUS
  <2>3. Promise!Access(t, a)
    BY <1>4, <2>2, SameCalls DEF WriteUnchecked, Promise!Access, Left
  <2> QED
    BY <2>2, <2>3 DEF Promise!Next, Left
<1>5. ASSUME NEW t \in Threads, Return(t) PROVE Promise!Next
  <2>1. Left[t] = {}
    <3>1. call[t] \in Calls /\ next[t] \in Nat /\ next[t] \notin Accesses(call[t])
          /\ (next[t] # 0 => next[t] - 1 \in Accesses(call[t]))
      BY <1>5, InCall DEF Return
    <3>2. \A a \in Accesses(call[t]) : a < next[t]
      BY <3>1, CallTypes DEF Accesses
    <3>3. \A a \in Accesses(call[t]) : a \in Nat
      BY <3>1, AccessElement
    <3> QED
      BY <1>5, <3>1, <3>2, <3>3 DEF Return, Left
  <2>2. call'[t] = NoCall /\ \A u \in Threads \ {t} : call'[u] = call[u] /\ next'[u] = next[u]
    BY <1>5 DEF Return, TypeOK
  <2>3. Left' = Left
    BY <2>1, <2>2 DEF Left
  <2>4. Promise!Return(t)
    BY <1>5, <2>1, <2>3 DEF Return, Promise!Return, Left
  <2> QED
    BY <2>4 DEF Promise!Next
<1>6. ASSUME NEW b \in Volatile, NEW v \in Byte, Device(b, v) PROVE Promise!Next
  <2>1. Left' = Left
    BY <1>6 DEF Device, Left
  <2>2. Promise!Device
    BY <1>6, <2>1 DEF Device, Promise!Device, Left
  <2> QED
    BY <2>2 DEF Promise!Next
<1> QED
  BY <1>1, <1>2, <1>3, <1>4, <1>5, <1>6 DEF Next, Thread

(* The calls of DevMem keep their promise: every element whole and once,   *)
(* or nothing at all.                                                      *)
THEOREM Refinement == Spec => ElementSpec
<1>1. Init => Promise!Init
  <2> SUFFICES ASSUME Init PROVE Promise!Init
    OBVIOUS
  <2>1. Left = [t \in Threads |-> {}]
    BY DEF Init, Left
  <2> QED
    BY <2>1, SameCalls DEF Init, Promise!Init, Left
<1>2. TypeOK /\ [Next]_vars => [Promise!Next]_(Promise!vars)
  <2> SUFFICES ASSUME TypeOK, [Next]_vars PROVE Promise!Next \/ UNCHANGED Promise!vars
    OBVIOUS
  <2>1. CASE UNCHANGED vars
    BY <2>1 DEF vars, Promise!vars
  <2> QED
    BY <2>1, StepServes
<1> QED
  BY <1>1, <1>2, TypeCorrect, PTL DEF Spec, ElementSpec, Promise!Spec
=============================================================================
