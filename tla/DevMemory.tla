------------------------------ MODULE DevMemory ------------------------------
(***************************************************************************)
(* The checked accesses of DevMem, called by threads that share it.  Every *)
(* method takes &self and there is no lock: a call checks its bounds once  *)
(* and then makes its volatile accesses one by one, and other threads and  *)
(* the device run between any two of them.                                 *)
(***************************************************************************)
EXTENDS MemoryCalls

VARIABLES
  mem,       \* mem[b]: byte b of the mapping
  call,      \* call[t]: the call thread t is in, or NoCall
  next,      \* next[t]: the volatile access it makes next
  buf,       \* buf[t]: the caller's buffer
  result,    \* result[t]: what its last call returned
  disturbed  \* (history) threads whose region somebody else has written

vars == <<mem, call, next, buf, result, disturbed>>

Init == /\ mem \in [Locations -> Byte]
        /\ call = [t \in Threads |-> NoCall]
        /\ next = [t \in Threads |-> 0]
        /\ buf = [t \in Threads |-> <<>>]
        /\ result = [t \in Threads |-> "none"]
        /\ disturbed = {}

(* The threads whose calls cover one of the bytes.                         *)
Over(bytes) == {u \in Threads : call[u] # NoCall /\ bytes \cap Region(call[u]) # {}}

(* Mutant: the check comes with each element, after those before it.       *)
EnterUnchecked(t, c) ==
  /\ call[t] = NoCall
  /\ call' = [call EXCEPT ![t] = c]
  /\ next' = [next EXCEPT ![t] = 0]
  /\ buf' = [buf EXCEPT ![t] = c.data]
  /\ UNCHANGED <<mem, result, disturbed>>

Enter(t, c) == /\ call[t] = NoCall
               /\ AccessOk(c)
               /\ call' = [call EXCEPT ![t] = c]
               /\ next' = [next EXCEPT ![t] = 0]
               /\ buf' = [buf EXCEPT ![t] = c.data]
               /\ UNCHANGED <<mem, result, disturbed>>

Refuse(t, c) == /\ call[t] = NoCall
                /\ ~AccessOk(c)
                /\ result' = [result EXCEPT ![t] = "None"]
                /\ UNCHANGED <<mem, call, next, buf, disturbed>>

(* read_volatile                                                           *)
ReadUnchecked(t) ==
  LET c == call[t]
      i == Element(c, next[t])
  IN /\ c # NoCall /\ next[t] \in Accesses(c) /\ Loads(c, next[t])
     /\ buf' = [buf EXCEPT ![t][i] = Load(mem, c, i)]
     /\ next' = [next EXCEPT ![t] = @ + 1]
     /\ UNCHANGED <<mem, call, result, disturbed>>

(* write_volatile                                                          *)
WriteUnchecked(t) ==
  LET c == call[t]
      i == Element(c, next[t])
  IN /\ c # NoCall /\ next[t] \in Accesses(c) /\ ~Loads(c, next[t])
     /\ mem' = Store(mem, c, i, Stored(c, next[t], buf[t]))
     /\ disturbed' = disturbed \cup (Over(Place(c, i)) \ {t})
     /\ next' = [next EXCEPT ![t] = @ + 1]
     /\ UNCHANGED <<call, buf, result>>

(* Mutant: the loop leaves out the last element.                           *)
ReturnEarly(t) == /\ call[t] # NoCall
                  /\ next[t] + 1 \notin Accesses(call[t])
                  /\ call' = [call EXCEPT ![t] = NoCall]
                  /\ next' = [next EXCEPT ![t] = 0]
                  /\ result' = [result EXCEPT ![t] = "Some"]
                  /\ disturbed' = disturbed \ {t}
                  /\ UNCHANGED <<mem, buf>>

Return(t) == /\ call[t] # NoCall
             /\ next[t] \notin Accesses(call[t])
             /\ call' = [call EXCEPT ![t] = NoCall]
             /\ next' = [next EXCEPT ![t] = 0]
             /\ result' = [result EXCEPT ![t] = "Some"]
             /\ disturbed' = disturbed \ {t}
             /\ UNCHANGED <<mem, buf>>

Device(b, v) == /\ mem' = [mem EXCEPT ![b] = v]
                /\ disturbed' = disturbed \cup Over({b})
                /\ UNCHANGED <<call, next, buf, result>>

Thread(t) == \/ \E c \in Calls : Enter(t, c) \/ Refuse(t, c)
             \/ ReadUnchecked(t) \/ WriteUnchecked(t) \/ Return(t)

Next == \/ \E t \in Threads : Thread(t)
        \/ \E b \in Volatile, v \in Byte : Device(b, v)

Spec == Init /\ [][Next]_vars

-----------------------------------------------------------------------------
(* Properties.                                                             *)

(* Type invariant.  A thread in a call has passed the check.               *)
TypeOK ==
  /\ mem \in [Locations -> Byte]
  /\ call \in [Threads -> Calls \cup {NoCall}]
  /\ next \in [Threads -> Nat]
  /\ DOMAIN buf = Threads
  /\ result \in [Threads -> {"none", "None", "Some"}]
  /\ disturbed \subseteq Threads
  /\ \A t \in Threads : call[t] # NoCall =>
       /\ AccessOk(call[t])
       /\ buf[t] \in [0 .. call[t].count - 1 -> Value(call[t].size)]
       /\ next[t] - 1 \in Accesses(call[t]) \cup {-1}

(* Slices are element-wise (read_slice, write_slice): every element is     *)
(* accessed whole and once, a refused call touches nothing, and a call     *)
(* that returns Some has accessed everything.                              *)
Promise == INSTANCE ElementMemory
             WITH left <- [t \in Threads |-> IF call[t] = NoCall THEN {}
                                             ELSE {a \in Accesses(call[t]) : a >= next[t]}]
ElementSpec == Promise!Spec

(* What a call has read, or written, is all in memory at once.             *)
IsSnapshot(t) ==
  \A i \in DOMAIN buf[t] :
    Load(mem, call[t], i) = IF call[t].op = "modify" THEN F(buf[t][i]) ELSE buf[t][i]

(* Nothing here is atomic but an element.  Yet a call whose bytes nobody   *)
(* else writes meanwhile, thread or device, is: what a slice read, or      *)
(* wrote, is in memory all at once when it returns, and a modify has lost  *)
(* no update.                                                              *)
UndisturbedIsAtomic ==
  [][\A t \in Threads \ disturbed :
       call[t] # NoCall /\ call'[t] = NoCall => IsSnapshot(t)]_vars
=============================================================================
