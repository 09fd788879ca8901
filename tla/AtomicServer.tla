---------------------------- MODULE AtomicServer ----------------------------
(***************************************************************************)
(* What the HTTP API promises its clients: a request is answered from what *)
(* it carries, and a request that reaches a register takes effect on it in *)
(* one step, the step that decides the answer; a request that is refused   *)
(* or abandoned has no effect at all.                                      *)
(***************************************************************************)
EXTENDS ServerTypes

VARIABLES
  reg,    \* reg[m]: the value of the (one) register of map m
  sent,   \* sent[r]: the request r is waiting for, or NoRequest
  resp,   \* resp[r]: the answer to r's last request
  cached  \* cached[i]: what the list calls the i-th map added

vars == <<reg, sent, resp, cached>>

Init == /\ reg = [m \in Regs |-> 0]
        /\ sent = [r \in Clients |-> NoRequest]
        /\ resp = [r \in Clients |-> Bare("none")]
        /\ cached = <<>>

Add(name) == /\ Len(cached) < Len(Maps)
             /\ cached' = Append(cached, name)
             /\ UNCHANGED <<reg, sent, resp>>

Send(r, q) == /\ Len(cached) = Len(Maps)
              /\ sent[r] = NoRequest
              /\ sent' = [sent EXCEPT ![r] = q]
              /\ resp' = [resp EXCEPT ![r] = Bare("none")]
              /\ UNCHANGED <<reg, cached>>

(* The one step in which a request takes effect and is answered.           *)
Serve(r) ==
  LET q == sent[r] IN
  /\ q # NoRequest
  /\ sent' = [sent EXCEPT ![r] = NoRequest]
  /\ UNCHANGED cached
  /\ \/ /\ q \in Refused
        /\ resp' \in {[resp EXCEPT ![r] = Bare(code)] : code \in RefusalCodes(q)}
        /\ UNCHANGED reg
     \/ /\ q \notin Refused
        /\ resp' = [resp EXCEPT ![r] = IF ForMap(q) THEN ReadAnswer(q, reg[FindMap(q.slug)])
                                       ELSE ListAnswer(cached)]
        /\ reg' = IF q.verb = "write" THEN [reg EXCEPT ![FindMap(q.slug)] = q.value] ELSE reg

(* The client disconnects before its request took effect.                  *)
Abandon(r) == /\ sent[r] # NoRequest
              /\ sent' = [sent EXCEPT ![r] = NoRequest]
              /\ resp' = [resp EXCEPT ![r] = Bare("lost")]
              /\ UNCHANGED <<reg, cached>>

(* Rust code that shares the map writes its register.                      *)
TaskWrite(m, v) == reg' = [reg EXCEPT ![m] = v] /\ UNCHANGED <<sent, resp, cached>>

Next == \/ \E r \in Clients : Serve(r) \/ Abandon(r) \/ \E q \in Requests : Send(r, q)
        \/ \E m \in Regs, v \in Values : TaskWrite(m, v)
        \/ \E name \in {"name", "slug"} : Add(name)

Spec == Init /\ [][Next]_vars
=============================================================================
