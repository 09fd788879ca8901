---------------------------- MODULE ElementMemory ----------------------------
(***************************************************************************)
(* What DevMem promises threads that share it: a call that fits the        *)
(* mapping reads or writes each of its elements whole, once and in some    *)
(* order, and then returns; any other call returns None and has touched    *)
(* nothing.  Between two elements anything may happen.                     *)
(***************************************************************************)
EXTENDS MemoryCalls

VARIABLES
  mem,     \* mem[b]: byte b of the mapping
  call,    \* call[t]: the call thread t is in, or NoCall
  left,    \* left[t]: the accesses it has not made yet
  buf,     \* buf[t]: the caller's buffer
  result   \* result[t]: what its last call returned

vars == <<mem, call, left, buf, result>>

Init == /\ mem \in [Locations -> Byte]
        /\ call = [t \in Threads |-> NoCall]
        /\ left = [t \in Threads |-> {}]
        /\ buf = [t \in Threads |-> <<>>]
        /\ result = [t \in Threads |-> "none"]

(* Every element lies in the mapping, aligned.                             *)
Fits(c) == /\ c.offset % c.size = 0 /\ c.offset \in 0 .. Len
           /\ \A i \in 0 .. c.count - 1 : Place(c, i) \subseteq Locations

Enter(t, c) == /\ call[t] = NoCall
               /\ Fits(c)
               /\ call' = [call EXCEPT ![t] = c]
               /\ left' = [left EXCEPT ![t] = Accesses(c)]
               /\ buf' = [buf EXCEPT ![t] = c.data]
               /\ UNCHANGED <<mem, result>>

Refuse(t, c) == /\ call[t] = NoCall
                /\ ~Fits(c)
                /\ result' = [result EXCEPT ![t] = "None"]
                /\ UNCHANGED <<mem, call, left, buf>>

(* A modify reads before it writes.                                        *)
Access(t, a) ==
  /\ a \in left[t]
  /\ call[t].op = "modify" => \A e \in left[t] : a <= e
  /\ left' = [left EXCEPT ![t] = @ \ {a}]
  /\ LET i == Element(call[t], a) IN
       IF Loads(call[t], a)
         THEN /\ buf' = [buf EXCEPT ![t][i] = Load(mem, call[t], i)]
              /\ UNCHANGED mem
         ELSE /\ mem' = Store(mem, call[t], i, Stored(call[t], a, buf[t]))
              /\ UNCHANGED buf
  /\ UNCHANGED <<call, result>>

Return(t) == /\ call[t] # NoCall
             /\ left[t] = {}
             /\ call' = [call EXCEPT ![t] = NoCall]
             /\ result' = [result EXCEPT ![t] = "Some"]
             /\ UNCHANGED <<mem, left, buf>>

Device == /\ \E b \in Volatile, v \in Byte : mem' = [mem EXCEPT ![b] = v]
          /\ UNCHANGED <<call, left, buf, result>>

Next == \/ Device
        \/ \E t \in Threads :
             \/ \E c \in Calls : Enter(t, c) \/ Refuse(t, c)
             \/ \E a \in left[t] : Access(t, a)
             \/ Return(t)

Spec == Init /\ [][Next]_vars
=============================================================================
