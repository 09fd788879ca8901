------------------------------ MODULE WebServer ------------------------------
(***************************************************************************)
(* The axum handlers of the web UI, and the tokio mutex of each map, which *)
(* they share with the Rust tasks of the embedding program.                *)
(*                                                                         *)
(* A handler runs without interruption up to the `.await` on the mutex,    *)
(* and from there to its answer; the mutex queues waiters first come first *)
(* served and hands the permit to the head of the queue when it is         *)
(* released.  The handler's future may be dropped at any `.await`, when    *)
(* its client disconnects.                                                 *)
(***************************************************************************)
EXTENDS ServerTypes, SequencesExt

CONSTANTS Tasks, Free

ASSUME HolderAssumption == Free \notin Clients \cup Tasks /\ Clients \cap Tasks = {}

VARIABLES
  reg,     \* reg[m]: the value of the register of map m
  stage,   \* stage[r]: "idle", "auth", "handler" or "locking"
  sent,    \* sent[r]: the request r is waiting for, or NoRequest
  resp,    \* resp[r]: the answer to r's last request
  permit,  \* permit[m]: who holds the mutex of map m, or was handed it
  queue,   \* queue[m]: who waits for it
  task,    \* task[t]: "away", "waiting" or "inside"
  cached   \* cached[i]: what the list calls the i-th map added

mutexes == <<permit, queue>>
vars == <<reg, stage, sent, resp, permit, queue, task, cached>>

Init == /\ reg = [m \in Regs |-> 0]
        /\ stage = [r \in Clients |-> "idle"]
        /\ sent = [r \in Clients |-> NoRequest]
        /\ resp = [r \in Clients |-> Bare("none")]
        /\ permit = [m \in Regs |-> Free]
        /\ queue = [m \in Regs |-> <<>>]
        /\ task = [t \in Tasks |-> "away"]
        /\ cached = <<>>

-----------------------------------------------------------------------------
(* The mutex.  Each of these determines permit' and queue'.                *)

(* lock().await of a mutex that is taken.                                  *)
Enqueue(w, m) == /\ permit[m] # Free
                 /\ queue' = [queue EXCEPT ![m] = Append(@, w)]
                 /\ UNCHANGED permit

(* Dropping the guard, or the handed permit.                               *)
Release(m) ==
  IF queue[m] = <<>>
    THEN permit' = [permit EXCEPT ![m] = Free] /\ UNCHANGED queue
    ELSE /\ permit' = [permit EXCEPT ![m] = Head(queue[m])]
         /\ queue' = [queue EXCEPT ![m] = Tail(@)]

(* Dropping a future that waits.                                           *)
Leave(w, m) == /\ \E i \in DOMAIN queue[m] :
                    /\ queue[m][i] = w
                    /\ queue' = [queue EXCEPT ![m] = RemoveAt(@, i)]
               /\ UNCHANGED permit

-----------------------------------------------------------------------------
(* The builder, before the server runs.                                    *)

(* add caches the name of the map, or the slug if a task, which may share  *)
(* the map already, holds its mutex just then.                             *)
Add ==
  /\ Len(cached) < Len(Maps)
  /\ cached' = Append(cached, IF permit[Maps[Len(cached) + 1].regs] = Free THEN "name" ELSE "slug")
  /\ UNCHANGED <<reg, stage, sent, resp, mutexes, task>>

Serving == Len(cached) = Len(Maps)

-----------------------------------------------------------------------------
(* Requests.                                                               *)

Respond(r, answer) == /\ resp' = [resp EXCEPT ![r] = answer]
                      /\ sent' = [sent EXCEPT ![r] = NoRequest]
                      /\ stage' = [stage EXCEPT ![r] = "idle"]

Send(r, q) ==
  /\ Serving
  /\ stage[r] = "idle"
  /\ sent' = [sent EXCEPT ![r] = q]
  /\ resp' = [resp EXCEPT ![r] = Bare("none")]
  /\ stage' = [stage EXCEPT ![r] = IF AuthOn THEN "auth" ELSE "handler"]
  /\ UNCHANGED <<reg, mutexes, task, cached>>

(* auth_middleware, once the callback's future has resolved.               *)
AuthCheck(r) ==
  /\ stage[r] = "auth"
  /\ IF sent[r].cred = "good"
       THEN /\ stage' = [stage EXCEPT ![r] = "handler"]
            /\ UNCHANGED <<sent, resp>>
       ELSE Respond(r, Bare("401"))
  /\ UNCHANGED <<reg, mutexes, task, cached>>

(* Answers given without the mutex: the list, and in api_write the value   *)
(* first, then the slug.                                                   *)
Reject(r) ==
  LET q == sent[r] IN
  /\ stage[r] = "handler"
  /\ \/ NotANumber(q) /\ Respond(r, Bare("400"))
     \/ /\ ForMap(q) /\ ~Known(q.slug)
        /\ ~NotANumber(q)
        /\ Respond(r, Bare("404"))
  /\ UNCHANGED <<reg, mutexes, task, cached>>

(* Mutant: the list locks every map for its name.                          *)
ListLocks(r) == /\ stage[r] = "handler"
                /\ sent[r].verb = "list"
                /\ \A m \in Regs : permit[m] = Free
                /\ Respond(r, ListAnswer(cached))
                /\ UNCHANGED <<reg, mutexes, task, cached>>

List(r) == /\ stage[r] = "handler"
           /\ sent[r].verb = "list"
           /\ Respond(r, ListAnswer(cached))
           /\ UNCHANGED <<reg, mutexes, task, cached>>

ReachesMap(r) == LET q == sent[r] IN
  stage[r] = "handler" /\ ForMap(q) /\ Known(q.slug) /\ ~NotANumber(q)

(* Mutant: the value is truncated and written before its range is checked. *)
UnderLockWritesFirst(r) ==
  LET q == sent[r]
      m == FindMap(q.slug)
  IN /\ Respond(r, IF AccessRefused(q) THEN Bare("400") ELSE ReadAnswer(q, reg[m]))
     /\ reg' = IF q.verb = "write" /\ IsWritable(q.offset)
                 THEN [reg EXCEPT ![m] = q.value % (BusMax + 1)] ELSE reg

(* What the handler does under the mutex, up to its answer.                *)
UnderLock(r) ==
  LET q == sent[r]
      m == FindMap(q.slug)
  IN IF AccessRefused(q)
       THEN Respond(r, Bare("400")) /\ UNCHANGED reg
       ELSE /\ Respond(r, ReadAnswer(q, reg[m]))
            /\ reg' = IF q.verb = "write" THEN [reg EXCEPT ![m] = q.value] ELSE reg

(* Mutant: the registers are accessed without the lock.                    *)
HandleAtOnceUnlocked(r) == /\ ReachesMap(r)
                           /\ UnderLock(r)
                           /\ UNCHANGED <<mutexes, task, cached>>

(* The mutex is free: the handler locks it, does its work and unlocks it   *)
(* without yielding.                                                       *)
HandleAtOnce(r) ==
  /\ ReachesMap(r)
  /\ permit[FindMap(sent[r].slug)] = Free
  /\ UnderLock(r)
  /\ UNCHANGED <<mutexes, task, cached>>

(* Mutant: try_lock in a loop instead of lock().await.                     *)
HandleLaterSpins(r) == /\ ReachesMap(r)
                       /\ permit[FindMap(sent[r].slug)] # Free
                       /\ UNCHANGED vars

HandleLater(r) ==
  /\ ReachesMap(r)
  /\ Enqueue(r, FindMap(sent[r].slug))
  /\ stage' = [stage EXCEPT ![r] = "locking"]
  /\ UNCHANGED <<reg, sent, resp, task, cached>>

(* Mutant: the early return of a refused access leaves the mutex locked.   *)
ResumeKeepsPermit(r) ==
  /\ stage[r] = "locking"
  /\ permit[FindMap(sent[r].slug)] = r
  /\ UnderLock(r)
  /\ IF AccessRefused(sent[r]) THEN UNCHANGED mutexes
                               ELSE Release(FindMap(sent[r].slug))
  /\ UNCHANGED <<task, cached>>

(* The runtime polls the handler that was handed the permit.               *)
Resume(r) ==
  /\ stage[r] = "locking"
  /\ permit[FindMap(sent[r].slug)] = r
  /\ UnderLock(r)
  /\ Release(FindMap(sent[r].slug))
  /\ UNCHANGED <<task, cached>>

(* The client disconnects and the handler's future is dropped, in the      *)
(* queue or with the permit in its hand.                                   *)
Abandon(r) ==
  /\ stage[r] # "idle"
  /\ Respond(r, Bare("lost"))
  /\ IF stage[r] # "locking" THEN UNCHANGED mutexes
     ELSE IF permit[FindMap(sent[r].slug)] = r THEN Release(FindMap(sent[r].slug))
     ELSE Leave(r, FindMap(sent[r].slug))
  /\ UNCHANGED <<reg, task, cached>>

-----------------------------------------------------------------------------
(* The embedding program's tasks.                                          *)

TaskLock(t, m) ==
  /\ task[t] = "away"
  /\ IF permit[m] = Free
       THEN /\ permit' = [permit EXCEPT ![m] = t]
            /\ task' = [task EXCEPT ![t] = "inside"]
            /\ UNCHANGED queue
       ELSE /\ Enqueue(t, m)
            /\ task' = [task EXCEPT ![t] = "waiting"]
  /\ UNCHANGED <<reg, stage, sent, resp, cached>>

TaskResume(t, m) ==
  /\ task[t] = "waiting"
  /\ permit[m] = t
  /\ task' = [task EXCEPT ![t] = "inside"]
  /\ UNCHANGED <<reg, stage, sent, resp, mutexes, cached>>

TaskWrite(t, m, v) ==
  /\ task[t] = "inside"
  /\ permit[m] = t
  /\ reg' = [reg EXCEPT ![m] = v]
  /\ UNCHANGED <<stage, sent, resp, mutexes, task, cached>>

TaskUnlock(t, m) ==
  /\ task[t] = "inside"
  /\ permit[m] = t
  /\ Release(m)
  /\ task' = [task EXCEPT ![t] = "away"]
  /\ UNCHANGED <<reg, stage, sent, resp, cached>>

-----------------------------------------------------------------------------
Handler(r) == \/ AuthCheck(r) \/ Reject(r) \/ List(r)
              \/ HandleAtOnce(r) \/ HandleLater(r) \/ Resume(r)

Next ==
  \/ Add
  \/ \E r \in Clients : Handler(r) \/ Abandon(r) \/ \E q \in Requests : Send(r, q)
  \/ \E t \in Tasks, m \in Regs :
       TaskLock(t, m) \/ TaskResume(t, m) \/ TaskUnlock(t, m) \/ \E v \in Values : TaskWrite(t, m, v)

Spec == Init /\ [][Next]_vars

(* The runtime polls every future that is ready, and the authentication    *)
(* callback resolves.                                                      *)
Scheduled ==
  /\ \A r \in Clients : WF_vars(Handler(r))
  /\ \A t \in Tasks, m \in Regs : WF_vars(TaskResume(t, m))

(* Every task that locks a map unlocks it again.                           *)
TasksRelease == \A t \in Tasks, m \in Regs : WF_vars(TaskUnlock(t, m))

FairSpec == Spec /\ Scheduled

-----------------------------------------------------------------------------
(* Properties.                                                             *)

(* Type invariant.                                                         *)
TypeOK ==
  /\ reg \in [Regs -> Values]
  /\ stage \in [Clients -> {"idle", "auth", "handler", "locking"}]
  /\ sent \in [Clients -> Requests \cup {NoRequest}]
  /\ resp \in [Clients -> [code : {"none", "200", "400", "401", "404", "lost"}, value : Values \cup {NaN},
                        names : {<<>>, cached}]]
  /\ permit \in [Regs -> Clients \cup Tasks \cup {Free}]
  /\ queue \in [Regs -> Seq(Clients \cup Tasks)]
  /\ task \in [Tasks -> {"away", "waiting", "inside"}]
  /\ cached \in Seq({"name", "slug"}) /\ Len(cached) <= Len(Maps)

(* The mutex of m knows w: as a waiter, or as the holder of its permit.    *)
At(w, m) == permit[m] = w \/ w \in ToSet(queue[m])

(* Nobody is lost by the mutex: a future that waits is in the queue of its *)
(* map once, or has been handed the permit; a dropped handler (api_read,   *)
(* api_write) leaves no trace in it; and a free mutex has no waiters.      *)
NobodyLost ==
  /\ \A m \in Regs :
       /\ IsInjective(queue[m])
       /\ permit[m] \notin ToSet(queue[m])
       /\ permit[m] = Free => queue[m] = <<>>
       /\ \A t \in ToSet(queue[m]) \cap Tasks : task[t] = "waiting"
  /\ \A r \in Clients, m \in Regs :
       At(r, m) <=> stage[r] = "locking" /\ FindMap(sent[r].slug) = m
  /\ \A t \in Tasks : task[t] # "away" <=> \E m \in Regs : At(t, m)

(* w waits for the mutex of m, and v is to have it before.                 *)
Before(v, w, m) ==
  /\ w \in ToSet(queue[m])
  /\ \/ permit[m] = v
     \/ \E i, j \in DOMAIN queue[m] : i < j /\ queue[m][i] = v /\ queue[m][j] = w

(* Who waits for a map is served in his turn: no step changes the order of *)
(* two who are at its mutex before and after it, nobody who arrives gets   *)
(* before somebody who waits, and no request is answered past him without  *)
(* queueing, as try_lock could do it (api_read, api_write).                *)
ServedInTurn ==
  [][\A m \in Regs : \A w \in ToSet(queue[m]) :
       /\ \A v \in (Clients \cup Tasks) \ {w} :
            At(v, m)' /\ At(w, m)' => (Before(v, w, m)' <=> Before(v, w, m))
       /\ \A r \in Clients :
            ReachesMap(r) /\ FindMap(sent[r].slug) = m => resp'[r] \in {resp[r], Bare("lost")}]_vars

(* A request takes effect on a register in one step, the one that decides  *)
(* its answer; a request that is refused, fails authentication or is       *)
(* abandoned has no effect, however long it waited for the mutex.          *)
Promise == INSTANCE AtomicServer WITH reg <- reg, sent <- sent, resp <- resp, cached <- cached
AtomicSpec == Promise!Spec

(* While a task is inside a map, only that task writes its register.       *)
TaskIsAlone ==
  [][\A t \in Tasks, m \in Regs :
       permit[m] = t /\ task[t] = "inside" /\ reg'[m] # reg[m] =>
         \E v \in Values : TaskWrite(t, m, v)]_vars

(* A request reaches the map that was added first under its slug, for      *)
(* ever: a map added later under the same slug (WebUi::add lets it pass)   *)
(* is written by the tasks that share it, or under another slug.           *)
FirstAddedServes ==
  [][\A m \in Regs : reg'[m] # reg[m] =>
       \/ \E t \in Tasks, v \in Values : TaskWrite(t, m, v)
       \/ \E r \in Clients, i \in DOMAIN Maps :
            /\ stage[r] # "idle" /\ stage'[r] = "idle"
            /\ Maps[i].slug = sent[r].slug /\ Maps[i].regs = m
            /\ \A j \in 1 .. i - 1 : Maps[j].slug # sent[r].slug]_vars

(* Every request is answered or abandoned, and every task that waits gets  *)
(* in, whatever other clients send, provided the tasks unlock the maps.    *)
EveryoneServed ==
  TasksRelease =>
    /\ \A r \in Clients : (stage[r] # "idle") ~> (stage[r] = "idle")
    /\ \A t \in Tasks : (task[t] = "waiting") ~> (task[t] = "inside")

(* The list of maps (api_list) is answered even while a task keeps a map   *)
(* locked for ever: it uses the names cached when the maps were added.     *)
ListNeverWaits ==
  \A r \in Clients : (stage[r] # "idle" /\ sent[r].verb = "list") ~> (stage[r] = "idle")
=============================================================================
