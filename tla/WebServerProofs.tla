--------------------------- MODULE WebServerProofs ---------------------------
(***************************************************************************)
(* Proofs about WebServer, for any number of clients, tasks and maps, any  *)
(* requests, and a bus of any width.                                       *)
(***************************************************************************)
EXTENDS WebServer, TLAPS, SequenceTheorems, WellFoundedInduction

-----------------------------------------------------------------------------
(* Lemmas about the queues and the table of maps.                          *)

(* The head leaves a queue.                                                *)
LEMMA TailOfQueue ==
  ASSUME NEW S, NEW s \in Seq(S), s # <<>>, IsInjective(s)
  PROVE  /\ Head(s) \in S /\ Tail(s) \in Seq(S)
         /\ IsInjective(Tail(s))
         /\ ToSet(Tail(s)) = ToSet(s) \ {Head(s)}
         /\ Head(s) \in ToSet(s)
<1> DEFINE r == Tail(s)
<1>1. /\ Len(s) \in Nat /\ DOMAIN s = 1 .. Len(s) /\ Len(s) >= 1
      /\ Head(s) = s[1] /\ s[1] \in S
      /\ r \in Seq(S) /\ DOMAIN r = 1 .. Len(s) - 1
      /\ \A k \in DOMAIN r : r[k] = s[k + 1]
  OBVIOUS
<1> HIDE DEF r
<1>2. IsInjective(r)
  <2> SUFFICES ASSUME NEW j \in DOMAIN r, NEW k \in DOMAIN r, r[j] = r[k] PROVE j = k
    BY DEF IsInjective
  <2>1. j + 1 \in DOMAIN s /\ k + 1 \in DOMAIN s /\ s[j + 1] = s[k + 1]
    BY <1>1
  <2>2. j + 1 = k + 1
    BY <2>1 DEF IsInjective
  <2> QED
    BY <1>1, <2>2
<1>3. ASSUME NEW e \in ToSet(s) \ {s[1]} PROVE e \in ToSet(r)
  <2>1. PICK k \in DOMAIN s : s[k] = e
    BY DEF ToSet
  <2>2. k - 1 \in DOMAIN r /\ r[k - 1] = s[k]
    BY <1>1, <1>3, <2>1
  <2> QED
    BY <2>1, <2>2 DEF ToSet
<1>4. ASSUME NEW e \in ToSet(r) PROVE e \in ToSet(s) \ {s[1]}
  <2>1. PICK k \in DOMAIN r : r[k] = e
    BY DEF ToSet
  <2>2. k + 1 \in DOMAIN s /\ s[k + 1] = e /\ s[k + 1] # s[1]
    BY <1>1, <2>1 DEF IsInjective
  <2> QED
    BY <2>2 DEF ToSet
<1>5. s[1] \in ToSet(s)
  BY <1>1 DEF ToSet
<1> QED
  BY <1>1, <1>2, <1>3, <1>4, <1>5 DEF r

(* Somebody new joins a queue.                                             *)
LEMMA AppendToQueue ==
  ASSUME NEW S, NEW s \in Seq(S), NEW e \in S, IsInjective(s), e \notin ToSet(s)
  PROVE  /\ Append(s, e) \in Seq(S)
         /\ IsInjective(Append(s, e))
         /\ ToSet(Append(s, e)) = ToSet(s) \cup {e}
  BY DEF IsInjective, ToSet

(* Who stands where after somebody has left a queue from the middle.       *)
LEMMA RemovedPlaces ==
  ASSUME NEW S, NEW s \in Seq(S), NEW i \in DOMAIN s
  PROVE  LET r == RemoveAt(s, i)
         IN /\ r \in Seq(S) /\ DOMAIN r = 1 .. Len(s) - 1
            /\ \A k \in DOMAIN r : r[k] = IF k < i THEN s[k] ELSE s[k + 1]
<1> DEFINE a == SubSeq(s, 1, i - 1)
           b == SubSeq(s, i + 1, Len(s))
           r == a \o b
<1>1. Len(s) \in Nat /\ DOMAIN s = 1 .. Len(s) /\ i \in 1 .. Len(s)
  OBVIOUS
<1>2. /\ a \in Seq(S) /\ Len(a) = i - 1
      /\ \A k \in 1 .. i - 1 : a[k] = s[k]
  BY <1>1
<1>3. /\ b \in Seq(S) /\ Len(b) = Len(s) - i
      /\ \A k \in 1 .. Len(s) - i : b[k] = s[k + i]
  BY <1>1
<1> HIDE DEF a, b
<1>4. /\ r \in Seq(S) /\ DOMAIN r = 1 .. Len(s) - 1
      /\ \A k \in DOMAIN r : r[k] = IF k < i THEN s[k] ELSE s[k + 1]
  <2>1. r \in Seq(S) /\ Len(r) = Len(a) + Len(b)
    BY <1>2, <1>3, ConcatProperties
  <2>2. \A k \in 1 .. Len(a) + Len(b) : r[k] = IF k <= Len(a) THEN a[k] ELSE b[k - Len(a)]
    BY <1>2, <1>3, ConcatProperties
  <2> HIDE DEF r
  <2>3. DOMAIN r = 1 .. Len(s) - 1
    BY <1>1, <1>2, <1>3, <2>1, LenProperties
  <2>4. ASSUME NEW k \in DOMAIN r PROVE r[k] = IF k < i THEN s[k] ELSE s[k + 1]
    <3>1. CASE k < i
      BY <1>1, <1>2, <1>3, <2>2, <2>3, <3>1
    <3>2. CASE ~(k < i)
      <4>1. k - (i - 1) \in 1 .. Len(s) - i /\ ~(k <= Len(a)) /\ k \in 1 .. Len(a) + Len(b)
        BY <1>1, <1>2, <1>3, <2>3, <3>2
      <4>2. r[k] = b[k - (i - 1)] /\ b[k - (i - 1)] = s[k - (i - 1) + i]
        BY <1>2, <1>3, <2>2, <4>1
      <4>3. k - (i - 1) + i = k + 1
        BY <1>1, <2>3
      <4> QED
        BY <3>2, <4>2, <4>3
    <3> QED
      BY <3>1, <3>2
  <2> QED
    BY <2>1, <2>3, <2>4
<1> QED
  BY <1>4 DEF RemoveAt, r, a, b

(* Somebody leaves a queue from the middle.                                *)
LEMMA RemoveFromQueue ==
  ASSUME NEW S, NEW s \in Seq(S), NEW i \in DOMAIN s, IsInjective(s)
  PROVE  /\ RemoveAt(s, i) \in Seq(S)
         /\ IsInjective(RemoveAt(s, i))
         /\ ToSet(RemoveAt(s, i)) = ToSet(s) \ {s[i]}
<1> DEFINE r == RemoveAt(s, i)
<1>1. Len(s) \in Nat /\ DOMAIN s = 1 .. Len(s) /\ i \in 1 .. Len(s)
  OBVIOUS
<1>4. /\ r \in Seq(S) /\ DOMAIN r = 1 .. Len(s) - 1
      /\ \A k \in DOMAIN r : r[k] = IF k < i THEN s[k] ELSE s[k + 1]
  BY RemovedPlaces
<1> HIDE DEF r
<1>5. IsInjective(r)
  BY <1>1, <1>4 DEF IsInjective
<1>6. ASSUME NEW e \in ToSet(s) \ {s[i]} PROVE e \in ToSet(r)
  <2>1. PICK k \in DOMAIN s : s[k] = e
    BY DEF ToSet
  <2> DEFINE j == IF k < i THEN k ELSE k - 1
  <2>2. j \in DOMAIN r /\ r[j] = e
    BY <1>1, <1>4, <1>6, <2>1
  <2> QED
    BY <2>2 DEF ToSet
<1>7. ASSUME NEW e \in ToSet(r) PROVE e \in ToSet(s) \ {s[i]}
  <2>1. PICK k \in DOMAIN r : r[k] = e
    BY DEF ToSet
  <2> DEFINE j == IF k < i THEN k ELSE k + 1
  <2>2. j \in DOMAIN s /\ s[j] = e /\ j # i
    BY <1>1, <1>4, <2>1
  <2> QED
    BY <2>2 DEF ToSet, IsInjective
<1> QED
  BY <1>4, <1>5, <1>6, <1>7 DEF r

(* v stands before w in a queue; coming, going and leaving of others do    *)
(* not change who stands before whom.                                      *)
InFront(s, v, w) == \E i, j \in DOMAIN s : i < j /\ s[i] = v /\ s[j] = w

LEMMA HeadIsFirst ==
  ASSUME NEW S, NEW s \in Seq(S), s # <<>>, IsInjective(s), NEW w
  PROVE  /\ ~InFront(s, w, Head(s))
         /\ w \in ToSet(s) /\ w # Head(s) => InFront(s, Head(s), w)
<1>1. Len(s) \in Nat /\ DOMAIN s = 1 .. Len(s) /\ 1 \in DOMAIN s /\ Head(s) = s[1]
  OBVIOUS
<1>2. ~InFront(s, w, Head(s))
  BY <1>1 DEF InFront, IsInjective
<1>3. ASSUME w \in ToSet(s), w # Head(s) PROVE InFront(s, Head(s), w)
  <2>1. PICK j \in DOMAIN s : s[j] = w
    BY <1>3 DEF ToSet
  <2>2. 1 < j
    BY <1>1, <1>3, <2>1
  <2> QED
    BY <1>1, <2>1, <2>2 DEF InFront
<1> QED
  BY <1>2, <1>3

LEMMA TailOrder ==
  ASSUME NEW S, NEW s \in Seq(S), s # <<>>, NEW v, NEW w, v # Head(s), w # Head(s)
  PROVE  InFront(Tail(s), v, w) <=> InFront(s, v, w)
<1> DEFINE r == Tail(s)
<1>1. /\ Len(s) \in Nat /\ DOMAIN s = 1 .. Len(s) /\ Head(s) = s[1]
      /\ DOMAIN r = 1 .. Len(s) - 1 /\ \A k \in DOMAIN r : r[k] = s[k + 1]
  OBVIOUS
<1> HIDE DEF r
<1>2. ASSUME InFront(r, v, w) PROVE InFront(s, v, w)
  <2>1. PICK i \in DOMAIN r, j \in DOMAIN r : i < j /\ r[i] = v /\ r[j] = w
    BY <1>2 DEF InFront
  <2>2. /\ i + 1 \in DOMAIN s /\ j + 1 \in DOMAIN s /\ i + 1 < j + 1
        /\ s[i + 1] = v /\ s[j + 1] = w
    BY <1>1, <2>1
  <2> QED
    BY <2>2 DEF InFront
<1>3. ASSUME InFront(s, v, w) PROVE InFront(r, v, w)
  <2>1. PICK i \in DOMAIN s, j \in DOMAIN s : i < j /\ s[i] = v /\ s[j] = w
    BY <1>3 DEF InFront
  <2>2. i # 1 /\ j # 1
    BY <1>1, <2>1
  <2>3. /\ i - 1 \in DOMAIN r /\ j - 1 \in DOMAIN r /\ i - 1 < j - 1
        /\ r[i - 1] = v /\ r[j - 1] = w
    BY <1>1, <2>1, <2>2
  <2> QED
    BY <2>3 DEF InFront
<1> QED
  BY <1>2, <1>3 DEF r

LEMMA AppendOrder ==
  ASSUME NEW S, NEW s \in Seq(S), NEW e \in S, NEW v, NEW w, w # e
  PROVE  InFront(Append(s, e), v, w) <=> InFront(s, v, w)
<1> DEFINE r == Append(s, e)
<1>1. /\ Len(s) \in Nat /\ DOMAIN s = 1 .. Len(s) /\ DOMAIN r = 1 .. Len(s) + 1
      /\ r[Len(s) + 1] = e /\ \A k \in DOMAIN s : r[k] = s[k]
  OBVIOUS
<1> HIDE DEF r
<1>2. ASSUME InFront(r, v, w) PROVE InFront(s, v, w)
  <2>1. PICK i \in DOMAIN r, j \in DOMAIN r : i < j /\ r[i] = v /\ r[j] = w
    BY <1>2 DEF InFront
  <2>2. j # Len(s) + 1
    BY <1>1, <2>1
  <2>3. i \in DOMAIN s /\ j \in DOMAIN s
    BY <1>1, <2>1, <2>2
  <2> QED
    BY <1>1, <2>1, <2>3 DEF InFront
<1>3. ASSUME InFront(s, v, w) PROVE InFront(r, v, w)
  <2>1. PICK i \in DOMAIN s, j \in DOMAIN s : i < j /\ s[i] = v /\ s[j] = w
    BY <1>3 DEF InFront
  <2>2. i \in DOMAIN r /\ j \in DOMAIN r
    BY <1>1
  <2> QED
    BY <1>1, <2>1, <2>2 DEF InFront
<1> QED
  BY <1>2, <1>3 DEF r

LEMMA RemoveOrder ==
  ASSUME NEW S, NEW s \in Seq(S), NEW p \in DOMAIN s, NEW v, NEW w, v # s[p], w # s[p]
  PROVE  InFront(RemoveAt(s, p), v, w) <=> InFront(s, v, w)
<1> DEFINE r == RemoveAt(s, p)
<1>1. /\ Len(s) \in Nat /\ DOMAIN s = 1 .. Len(s) /\ p \in 1 .. Len(s)
      /\ DOMAIN r = 1 .. Len(s) - 1
      /\ \A k \in DOMAIN r : r[k] = IF k < p THEN s[k] ELSE s[k + 1]
  BY RemovedPlaces
<1> HIDE DEF r
<1>2. ASSUME InFront(r, v, w) PROVE InFront(s, v, w)
  <2>1. PICK i \in DOMAIN r, j \in DOMAIN r : i < j /\ r[i] = v /\ r[j] = w
    BY <1>2 DEF InFront
  <2> DEFINE old(k) == IF k < p THEN k ELSE k + 1
  <2>2. old(i) \in DOMAIN s /\ old(j) \in DOMAIN s /\ old(i) < old(j)
    BY <1>1, <2>1
  <2>3. s[old(i)] = v /\ s[old(j)] = w
    BY <1>1, <2>1
  <2> QED
    BY <2>2, <2>3 DEF InFront
<1>3. ASSUME InFront(s, v, w) PROVE InFront(r, v, w)
  <2>1. PICK i \in DOMAIN s, j \in DOMAIN s : i < j /\ s[i] = v /\ s[j] = w
    BY <1>3 DEF InFront
  <2> DEFINE new(k) == IF k < p THEN k ELSE k - 1
  <2>2. i # p /\ j # p
    BY <2>1
  <2>3. new(i) \in DOMAIN r /\ new(j) \in DOMAIN r /\ new(i) < new(j)
    BY <1>1, <2>1, <2>2
  <2>4. r[new(i)] = v
    BY <1>1, <2>1, <2>2, <2>3
  <2>5. r[new(j)] = w
    BY <1>1, <2>1, <2>2, <2>3
  <2> QED
    BY <2>3, <2>4, <2>5 DEF InFront
<1> QED
  BY <1>2, <1>3 DEF r

(* find_map finds the first map that was added under a slug.               *)
LEMMA FirstOfSlug ==
  ASSUME NEW slug, Known(slug)
  PROVE  \E i \in DOMAIN Maps :
           /\ Maps[i].slug = slug /\ FindMap(slug) = Maps[i].regs
           /\ \A j \in 1 .. i - 1 : Maps[j].slug # slug
<1> DEFINE T == {i \in DOMAIN Maps : Maps[i].slug = slug}
<1>1. T \subseteq Nat /\ T # {}
  BY RequestAssumption DEF Known
<1>2. PICK i \in T : \A j \in T : <<j, i>> \notin OpToRel(<, Nat)
  BY <1>1, NatLessThanWellFounded, WFMin
<1>3. \A j \in T : ~(j < i)
  BY <1>1, <1>2 DEF OpToRel
<1>4. \A j \in 1 .. i - 1 : Maps[j].slug # slug
  BY <1>3, RequestAssumption
<1> DEFINE F(k) == Maps[k].slug = slug /\ \A j \in 1 .. k - 1 : Maps[j].slug # slug
<1>5. F(CHOOSE k \in DOMAIN Maps : F(k)) /\ (CHOOSE k \in DOMAIN Maps : F(k)) \in DOMAIN Maps
  BY <1>4
<1> QED
  BY <1>5 DEF FindMap

-----------------------------------------------------------------------------
(* The inductive invariant.                                                *)

(* What each stage of a request has established.                           *)
Stages == \A r \in Clients :
  /\ stage[r] = "idle" <=> sent[r] = NoRequest
  /\ stage[r] # "idle" => Serving
  /\ ~Serving => resp[r] = Bare("none")
  /\ stage[r] = "auth" => AuthOn
  /\ stage[r] \in {"handler", "locking"} => Allowed(sent[r])
  /\ stage[r] = "locking" => /\ ForMap(sent[r]) /\ Known(sent[r].slug)
                             /\ ~NotANumber(sent[r])

(* The mutexes by themselves.                                              *)
MutexesOK == \A m \in Regs :
  /\ IsInjective(queue[m])
  /\ permit[m] \notin ToSet(queue[m])
  /\ permit[m] = Free => queue[m] = <<>>

(* What the mutexes know of the handlers and of the tasks; a task is at    *)
(* one mutex at a time.                                                    *)
HandlersAt == \A r \in Clients, m \in Regs :
  At(r, m) <=> stage[r] = "locking" /\ FindMap(sent[r].slug) = m

TasksAt == \A t \in Tasks :
  /\ task[t] # "away" <=> \E m \in Regs : At(t, m)
  /\ \A m, n \in Regs : At(t, m) /\ At(t, n) => m = n
  /\ \A m \in Regs : t \in ToSet(queue[m]) => task[t] = "waiting"

IInv == TypeOK /\ Stages /\ MutexesOK /\ HandlersAt /\ TasksAt

-----------------------------------------------------------------------------
(* What the operations of a mutex do.                                      *)

Everybody == Clients \cup Tasks

LEMMA ReleaseEffect ==
  ASSUME TypeOK, MutexesOK, NEW m \in Regs, permit[m] # Free, Release(m)
  PROVE  /\ permit' \in [Regs -> Everybody \cup {Free}] /\ queue' \in [Regs -> Seq(Everybody)]
         /\ MutexesOK'
         /\ \A w \in Everybody, n \in Regs :
              At(w, n)' <=> At(w, n) /\ ~(n = m /\ w = permit[m])
         /\ \A n \in Regs : ToSet(queue'[n]) \subseteq ToSet(queue[n])
<1> USE DEF TypeOK, Everybody
<1>0. queue[m] \in Seq(Everybody) /\ IsInjective(queue[m])
  BY DEF MutexesOK
<1>1. CASE queue[m] = <<>>
  <2>1. permit' = [permit EXCEPT ![m] = Free] /\ queue' = queue
    BY <1>1 DEF Release
  <2>2. ToSet(queue[m]) = {}
    BY <1>1 DEF ToSet
  <2> QED
    BY <1>1, <2>1, <2>2, HolderAssumption DEF MutexesOK, At
<1>2. CASE queue[m] # <<>>
  <2>1. /\ permit' = [permit EXCEPT ![m] = Head(queue[m])]
        /\ queue' = [queue EXCEPT ![m] = Tail(queue[m])]
    BY <1>2 DEF Release
  <2>2. /\ Head(queue[m]) \in Everybody /\ Tail(queue[m]) \in Seq(Everybody)
        /\ IsInjective(Tail(queue[m]))
        /\ ToSet(Tail(queue[m])) = ToSet(queue[m]) \ {Head(queue[m])}
        /\ Head(queue[m]) \in ToSet(queue[m])
    BY <1>0, <1>2, TailOfQueue
  <2> QED
    BY <2>1, <2>2, HolderAssumption DEF MutexesOK, At
<1> QED
  BY <1>1, <1>2

LEMMA EnqueueEffect ==
  ASSUME TypeOK, MutexesOK, NEW x \in Everybody, NEW m \in Regs, ~At(x, m), Enqueue(x, m)
  PROVE  /\ permit' \in [Regs -> Everybody \cup {Free}] /\ queue' \in [Regs -> Seq(Everybody)]
         /\ MutexesOK'
         /\ \A w \in Everybody, n \in Regs : At(w, n)' <=> At(w, n) \/ (n = m /\ w = x)
         /\ \A n \in Regs : ToSet(queue'[n]) \subseteq ToSet(queue[n]) \cup {x}
<1> USE DEF TypeOK, Everybody
<1>1. queue[m] \in Seq(Everybody) /\ IsInjective(queue[m]) /\ x \notin ToSet(queue[m])
  BY DEF MutexesOK, At
<1>2. /\ Append(queue[m], x) \in Seq(Everybody)
      /\ IsInjective(Append(queue[m], x))
      /\ ToSet(Append(queue[m], x)) = ToSet(queue[m]) \cup {x}
  BY <1>1, AppendToQueue
<1>3. /\ permit[m] # Free /\ permit' = permit
      /\ queue' = [queue EXCEPT ![m] = Append(queue[m], x)]
  BY DEF Enqueue
<1> QED
  BY <1>2, <1>3 DEF MutexesOK, At

LEMMA LeaveEffect ==
  ASSUME TypeOK, MutexesOK, NEW x \in Everybody, NEW m \in Regs, permit[m] # x, Leave(x, m)
  PROVE  /\ permit' \in [Regs -> Everybody \cup {Free}] /\ queue' \in [Regs -> Seq(Everybody)]
         /\ MutexesOK'
         /\ \A w \in Everybody, n \in Regs : At(w, n)' <=> At(w, n) /\ ~(n = m /\ w = x)
         /\ \A n \in Regs : ToSet(queue'[n]) \subseteq ToSet(queue[n])
<1> USE DEF TypeOK, Everybody
<1>1. PICK i \in DOMAIN queue[m] : /\ queue[m][i] = x
                                   /\ queue' = [queue EXCEPT ![m] = RemoveAt(queue[m], i)]
  BY DEF Leave
<1>2. queue[m] \in Seq(Everybody) /\ IsInjective(queue[m]) /\ queue[m] # <<>>
  BY <1>1 DEF MutexesOK
<1>3. /\ RemoveAt(queue[m], i) \in Seq(Everybody)
      /\ IsInjective(RemoveAt(queue[m], i))
      /\ ToSet(RemoveAt(queue[m], i)) = ToSet(queue[m]) \ {x}
  BY <1>1, <1>2, RemoveFromQueue
<1>4. permit' = permit
  BY DEF Leave
<1> QED
  BY <1>1, <1>2, <1>3, <1>4 DEF MutexesOK, At

-----------------------------------------------------------------------------
(* Lemmas about requests and answers.                                      *)

LEMMA RequestFacts ==
  /\ NoRequest \notin Requests
  /\ BusMax \in Nat /\ NaN \notin Values /\ Values \subseteq Nat /\ 0 \in Values
  /\ \A q \in Requests : /\ q.verb \in Verbs
                         /\ ~NotANumber(q) /\ q.verb = "write" => q.value \in Nat
                         /\ ~AccessRefused(q) /\ q.verb = "write" => q.value \in Values
  BY RequestAssumption DEF NoRequest, Values, Verbs, NotANumber, AccessRefused

Codes == {"none", "200", "400", "401", "404", "lost"}
Answers(names) == [code : Codes, value : Values \cup {NaN}, names : {<<>>, names}]

LEMMA AnswerTypes ==
  /\ \A code \in Codes : \A names : Bare(code) \in Answers(names)
  /\ \A q, names : \A v \in Values : ReadAnswer(q, v) \in Answers(names)
  /\ \A names : ListAnswer(names) \in Answers(names)
  BY DEF Bare, ReadAnswer, ListAnswer, Answers, Codes

(* A request that is answered leaves nothing behind but its answer.        *)
LEMMA RespondTypes ==
  ASSUME TypeOK, Stages, NEW r \in Clients, NEW a \in Answers(cached), Respond(r, a), stage[r] # "idle",
         cached' = cached
  PROVE  /\ stage' \in [Clients -> {"idle", "auth", "handler", "locking"}]
         /\ sent' \in [Clients -> Requests \cup {NoRequest}]
         /\ resp' \in [Clients -> Answers(cached')]
         /\ Stages'
         /\ stage'[r] = "idle" /\ \A k \in Clients \ {r} : stage'[k] = stage[k] /\ sent'[k] = sent[k]
<1>1. /\ stage' \in [Clients -> {"idle", "auth", "handler", "locking"}]
      /\ sent' \in [Clients -> Requests \cup {NoRequest}]
  BY DEF TypeOK, Respond
<1>2. resp' \in [Clients -> Answers(cached')]
  BY DEF TypeOK, Respond, Answers, Codes
<1>3. Stages'
  BY DEF TypeOK, Stages, Respond, Serving, Allowed
<1>4. stage'[r] = "idle" /\ \A k \in Clients \ {r} : stage'[k] = stage[k] /\ sent'[k] = sent[k]
  BY DEF TypeOK, Respond
<1> QED
  BY <1>1, <1>2, <1>3, <1>4

(* What the handler does under the mutex of its map.                       *)
LEMMA UnderLockEffect ==
  ASSUME IInv, NEW r \in Clients, stage[r] \in {"handler", "locking"}, UnderLock(r),
         ForMap(sent[r]), Known(sent[r].slug), ~NotANumber(sent[r])
  PROVE  /\ FindMap(sent[r].slug) \in Regs
         /\ reg' \in [Regs -> Values]
         /\ \A m \in Regs : reg'[m] # reg[m] => m = FindMap(sent[r].slug)
         /\ \E a \in Answers(cached) : Respond(r, a)
<1> DEFINE q == sent[r]
           m == FindMap(q.slug)
<1>1. q \in Requests
  BY DEF IInv, TypeOK, Stages
<1>2. m \in Regs
  BY FirstOfSlug DEF Regs
<1>3. reg[m] \in Values
  BY <1>2 DEF IInv, TypeOK
<1>4. CASE AccessRefused(q)
  BY <1>2, <1>4, AnswerTypes DEF UnderLock, IInv, TypeOK, Codes
<1>5. CASE ~AccessRefused(q)
  <2>1. Respond(r, ReadAnswer(q, reg[m])) /\ ReadAnswer(q, reg[m]) \in Answers(cached)
    BY <1>3, <1>5, AnswerTypes DEF UnderLock
  <2>2. reg' = IF q.verb = "write" THEN [reg EXCEPT ![m] = q.value] ELSE reg
    BY <1>5 DEF UnderLock
  <2>3. q.verb = "write" => q.value \in Values
    BY <1>1, <1>5, RequestFacts
  <2> QED
    BY <1>2, <2>1, <2>2, <2>3 DEF IInv, TypeOK
<1> QED
  BY <1>4, <1>5

-----------------------------------------------------------------------------
(* The three facts that make IInv inductive.                               *)

LEMMA InitIInv == Init => IInv
<1> SUFFICES ASSUME Init PROVE IInv
  OBVIOUS
<1>1. TypeOK
  <2>1. Bare("none") \in Answers(cached)
    BY AnswerTypes DEF Codes
  <2>2. resp \in [Clients -> Answers(cached)]
    BY <2>1 DEF Init
  <2>3. cached \in Seq({"name", "slug"}) /\ Len(cached) <= Len(Maps)
    BY RequestAssumption DEF Init
  <2> QED
    BY <2>2, <2>3, RequestFacts DEF Init, TypeOK, Answers, Codes
<1>2. \A m \in Regs : ToSet(queue[m]) = {} /\ permit[m] = Free
  BY DEF Init, ToSet
<1>3. Stages /\ MutexesOK
  BY <1>2 DEF Init, Stages, MutexesOK, IsInjective
<1>4. HandlersAt /\ TasksAt
  BY <1>2, HolderAssumption DEF Init, HandlersAt, TasksAt, At
<1> QED
  BY <1>1, <1>3, <1>4 DEF IInv

(* A request that is answered away from the mutexes.                       *)
LEMMA AnsweredStep ==
  ASSUME IInv, NEW r \in Clients, stage[r] \in {"auth", "handler"},
         NEW a \in Answers(cached), Respond(r, a),
         reg' \in [Regs -> Values], UNCHANGED <<mutexes, task, cached>>
  PROVE  IInv'
<1>1. /\ stage' \in [Clients -> {"idle", "auth", "handler", "locking"}]
      /\ sent' \in [Clients -> Requests \cup {NoRequest}]
      /\ resp' \in [Clients -> Answers(cached')]
      /\ Stages'
      /\ stage'[r] = "idle" /\ \A k \in Clients \ {r} : stage'[k] = stage[k] /\ sent'[k] = sent[k]
  BY RespondTypes DEF IInv
<1>2. TypeOK'
  BY <1>1 DEF IInv, TypeOK, mutexes, Answers, Codes
<1>3. MutexesOK' /\ TasksAt'
  BY DEF IInv, MutexesOK, TasksAt, At, mutexes
<1>4. HandlersAt'
  BY <1>1 DEF IInv, HandlersAt, At, mutexes
<1> QED
  BY <1>1, <1>2, <1>3, <1>4 DEF IInv

(* A request that is answered, and leaves the mutex of its map.            *)
LEMMA ReleasedStep ==
  ASSUME IInv, NEW r \in Clients, stage[r] = "locking",
         NEW a \in Answers(cached), Respond(r, a),
         reg' \in [Regs -> Values], UNCHANGED <<task, cached>>,
         \/ permit[FindMap(sent[r].slug)] = r /\ Release(FindMap(sent[r].slug))
         \/ permit[FindMap(sent[r].slug)] # r /\ Leave(r, FindMap(sent[r].slug))
  PROVE  IInv'
<1> DEFINE m == FindMap(sent[r].slug)
<1>1. /\ stage' \in [Clients -> {"idle", "auth", "handler", "locking"}]
      /\ sent' \in [Clients -> Requests \cup {NoRequest}]
      /\ resp' \in [Clients -> Answers(cached')]
      /\ Stages'
      /\ stage'[r] = "idle" /\ \A k \in Clients \ {r} : stage'[k] = stage[k] /\ sent'[k] = sent[k]
  BY RespondTypes DEF IInv
<1>2. m \in Regs
  BY FirstOfSlug DEF IInv, Stages, Regs
<1>3. /\ permit' \in [Regs -> Everybody \cup {Free}] /\ queue' \in [Regs -> Seq(Everybody)]
      /\ MutexesOK'
      /\ \A w \in Everybody, n \in Regs : At(w, n)' <=> At(w, n) /\ ~(n = m /\ w = r)
      /\ \A n \in Regs : ToSet(queue'[n]) \subseteq ToSet(queue[n])
  <2>1. r # Free /\ r \in Everybody
    BY HolderAssumption DEF Everybody
  <2>2. CASE permit[m] = r /\ Release(m)
    BY <1>2, <2>1, <2>2, ReleaseEffect DEF IInv
  <2>3. CASE permit[m] # r /\ Leave(r, m)
    BY <1>2, <2>1, <2>3, LeaveEffect DEF IInv
  <2> QED
    BY <2>2, <2>3
<1>4. TypeOK'
  BY <1>1, <1>3 DEF IInv, TypeOK, Answers, Codes, Everybody
<1>5. HandlersAt'
  <2> SUFFICES ASSUME NEW k \in Clients, NEW n \in Regs
               PROVE  (At(k, n) <=> stage[k] = "locking" /\ FindMap(sent[k].slug) = n)'
    BY DEF HandlersAt
  <2>1. At(k, n)' <=> At(k, n) /\ ~(n = m /\ k = r)
    BY <1>3 DEF Everybody
  <2>2. At(k, n) <=> stage[k] = "locking" /\ FindMap(sent[k].slug) = n
    BY DEF IInv, HandlersAt
  <2>3. CASE k = r
    BY <1>1, <2>1, <2>2, <2>3
  <2>4. CASE k # r
    <3>1. stage'[k] = stage[k] /\ sent'[k] = sent[k]
      BY <1>1, <2>4
    <3> QED
      BY <2>1, <2>2, <2>4, <3>1
  <2> QED
    BY <2>3, <2>4
<1>6. TasksAt'
  BY <1>3, HolderAssumption DEF IInv, TasksAt, Everybody
<1> QED
  BY <1>1, <1>3, <1>4, <1>5, <1>6 DEF IInv

(* Adding a map, before anything is served.                                *)
LEMMA AddStep == IInv /\ Add => IInv'
<1> SUFFICES ASSUME IInv, Add PROVE IInv'
  OBVIOUS
<1>1. ~Serving /\ \A r \in Clients : stage[r] = "idle" /\ resp[r] = Bare("none")
  BY RequestAssumption DEF Add, Serving, IInv, Stages, TypeOK
<1>2. cached' \in Seq({"name", "slug"}) /\ Len(cached') = Len(cached) + 1
  BY DEF Add, IInv, TypeOK
<1>3. resp' \in [Clients -> Answers(cached')]
  <2>1. Bare("none") \in Answers(cached')
    BY AnswerTypes DEF Codes
  <2> QED
    BY <1>1, <2>1 DEF Add, IInv, TypeOK
<1>4. TypeOK'
  <2>1. Len(cached') <= Len(Maps)
    BY <1>2, RequestAssumption DEF Add, IInv, TypeOK
  <2> QED
    BY <1>2, <1>3, <2>1 DEF Add, IInv, TypeOK, mutexes, Answers, Codes
<1>5. Stages'
  BY <1>1 DEF Add, IInv, Stages, Allowed
<1>6. MutexesOK' /\ HandlersAt' /\ TasksAt'
  BY DEF Add, IInv, MutexesOK, HandlersAt, TasksAt, At, mutexes
<1> QED
  BY <1>4, <1>5, <1>6 DEF IInv

(* A request arrives.                                                      *)
LEMMA SendStep ==
  ASSUME IInv, NEW r \in Clients, NEW q \in Requests, Send(r, q)
  PROVE  IInv'
<1>1. Bare("none") \in Answers(cached)
  BY AnswerTypes DEF Codes
<1>2. resp' \in [Clients -> Answers(cached')]
  BY <1>1 DEF Send, IInv, TypeOK, Answers, Codes
<1>3. TypeOK'
  BY <1>2 DEF Send, IInv, TypeOK, mutexes, Answers, Codes
<1>4. Stages'
  BY RequestFacts DEF Send, IInv, TypeOK, Stages, Serving, Allowed
<1>5. HandlersAt'
  BY DEF Send, IInv, TypeOK, HandlersAt, At, mutexes
<1>6. MutexesOK' /\ TasksAt'
  BY DEF Send, IInv, MutexesOK, TasksAt, At, mutexes
<1> QED
  BY <1>3, <1>4, <1>5, <1>6 DEF IInv

(* Each step of a handler.                                                 *)
LEMMA HandlerStep ==
  ASSUME IInv, NEW r \in Clients, Handler(r) \/ Abandon(r)
  PROVE  IInv'
<1> DEFINE m == FindMap(sent[r].slug)
<1>1. CASE AuthCheck(r)
  <2>1. CASE sent[r].cred = "good"
    <3>1. TypeOK'
      BY <1>1, <2>1 DEF AuthCheck, IInv, TypeOK, mutexes
    <3>2. Stages'
      BY <1>1, <2>1 DEF AuthCheck, IInv, TypeOK, Stages, Serving, Allowed
    <3>3. HandlersAt' /\ MutexesOK' /\ TasksAt'
      BY <1>1, <2>1 DEF AuthCheck, IInv, TypeOK, HandlersAt, MutexesOK, TasksAt, At, mutexes
    <3> QED
      BY <3>1, <3>2, <3>3 DEF IInv
  <2>2. CASE sent[r].cred # "good"
    <3>1. Bare("401") \in Answers(cached)
      BY AnswerTypes DEF Codes
    <3> QED
      BY <1>1, <2>2, <3>1, AnsweredStep DEF AuthCheck, IInv, TypeOK
  <2> QED
    BY <2>1, <2>2
<1>2. CASE Reject(r)
  <2>1. Bare("400") \in Answers(cached) /\ Bare("404") \in Answers(cached)
    BY AnswerTypes DEF Codes
  <2> QED
    BY <1>2, <2>1, AnsweredStep DEF Reject, IInv, TypeOK
<1>3. CASE List(r)
  BY <1>3, AnswerTypes, AnsweredStep DEF List, IInv, TypeOK
<1>4. CASE HandleAtOnce(r)
  <2>1. reg' \in [Regs -> Values] /\ \E a \in Answers(cached) : Respond(r, a)
    BY <1>4, UnderLockEffect DEF HandleAtOnce, ReachesMap
  <2> QED
    BY <1>4, <2>1, AnsweredStep DEF HandleAtOnce, ReachesMap
<1>5. CASE HandleLater(r)
  <2>1. /\ stage[r] = "handler" /\ m \in Regs /\ r \in Everybody /\ Enqueue(r, m)
        /\ ForMap(sent[r]) /\ Known(sent[r].slug) /\ ~NotANumber(sent[r])
    BY <1>5, FirstOfSlug DEF HandleLater, ReachesMap, Regs, Everybody
  <2>2. ~At(r, m)
    BY <2>1 DEF IInv, HandlersAt
  <2>3. /\ permit' \in [Regs -> Everybody \cup {Free}] /\ queue' \in [Regs -> Seq(Everybody)]
        /\ MutexesOK'
        /\ \A w \in Everybody, n \in Regs : At(w, n)' <=> At(w, n) \/ (n = m /\ w = r)
        /\ \A n \in Regs : ToSet(queue'[n]) \subseteq ToSet(queue[n]) \cup {r}
    BY <2>1, <2>2, EnqueueEffect DEF IInv
  <2>4. /\ stage' = [stage EXCEPT ![r] = "locking"]
        /\ UNCHANGED <<reg, sent, resp, task, cached>>
    BY <1>5 DEF HandleLater
  <2>5. TypeOK'
    BY <2>3, <2>4 DEF IInv, TypeOK, Everybody
  <2>6. Stages'
    BY <2>1, <2>4 DEF IInv, TypeOK, Stages, Serving, Allowed
  <2>7. HandlersAt'
    BY <2>1, <2>3, <2>4 DEF IInv, TypeOK, HandlersAt, Everybody
  <2>8. TasksAt'
    BY <2>3, <2>4, HolderAssumption DEF IInv, TasksAt, Everybody
  <2> QED
    BY <2>3, <2>5, <2>6, <2>7, <2>8 DEF IInv
<1>6. CASE Resume(r)
  <2>1. ForMap(sent[r]) /\ Known(sent[r].slug) /\ ~NotANumber(sent[r])
    BY <1>6 DEF Resume, IInv, Stages
  <2>2. reg' \in [Regs -> Values] /\ \E a \in Answers(cached) : Respond(r, a)
    BY <1>6, <2>1, UnderLockEffect DEF Resume
  <2> QED
    BY <1>6, <2>2, ReleasedStep DEF Resume
<1>7. CASE Abandon(r)
  <2>1. Bare("lost") \in Answers(cached) /\ Respond(r, Bare("lost")) /\ reg' = reg
    BY <1>7, AnswerTypes DEF Abandon, Codes
  <2>2. reg' \in [Regs -> Values]
    BY <2>1 DEF IInv, TypeOK
  <2>3. CASE stage[r] # "locking"
    <3>1. stage[r] \in {"auth", "handler"} /\ UNCHANGED mutexes
      BY <1>7, <2>3 DEF Abandon, IInv, TypeOK
    <3> QED
      BY <1>7, <2>1, <2>2, <3>1, AnsweredStep DEF Abandon
  <2>4. CASE stage[r] = "locking"
    BY <1>7, <2>1, <2>2, <2>4, ReleasedStep DEF Abandon
  <2> QED
    BY <2>3, <2>4
<1> QED
  BY <1>1, <1>2, <1>3, <1>4, <1>5, <1>6, <1>7 DEF Handler

(* Each step of a task.                                                    *)
LEMMA TaskStep ==
  ASSUME IInv, NEW t \in Tasks, NEW m \in Regs,
         TaskLock(t, m) \/ TaskResume(t, m) \/ TaskUnlock(t, m) \/ \E v \in Values : TaskWrite(t, m, v)
  PROVE  IInv'
<1>0. t \in Everybody /\ t # Free
  BY HolderAssumption DEF Everybody
<1>1. CASE TaskLock(t, m) /\ permit[m] = Free
  <2>1. /\ task[t] = "away" /\ permit' = [permit EXCEPT ![m] = t]
        /\ task' = [task EXCEPT ![t] = "inside"] /\ UNCHANGED <<queue, reg, stage, sent, resp, cached>>
    BY <1>1 DEF TaskLock
  <2>2. /\ \A n \in Regs : ~At(t, n)
        /\ queue[m] = <<>> /\ ToSet(queue[m]) = {}
    BY <1>1, <2>1 DEF IInv, TasksAt, MutexesOK, ToSet
  <2>3. TypeOK'
    BY <2>1 DEF IInv, TypeOK
  <2>4. \A w \in Everybody, n \in Regs : At(w, n)' <=> At(w, n) \/ (n = m /\ w = t)
    BY <1>1, <2>1, HolderAssumption DEF IInv, TypeOK, At, Everybody
  <2>5. MutexesOK'
    BY <1>0, <2>1, <2>2 DEF IInv, TypeOK, MutexesOK
  <2>6. Stages'
    BY <2>1 DEF IInv, Stages, Serving
  <2>7. HandlersAt'
    BY <2>1, <2>4, HolderAssumption DEF IInv, HandlersAt, Everybody
  <2>8. TasksAt'
    BY <1>0, <2>1, <2>2, <2>4 DEF IInv, TypeOK, TasksAt, Everybody, At
  <2> QED
    BY <2>3, <2>5, <2>6, <2>7, <2>8 DEF IInv
<1>2. CASE TaskLock(t, m) /\ permit[m] # Free
  <2>1. /\ task[t] = "away" /\ Enqueue(t, m)
        /\ task' = [task EXCEPT ![t] = "waiting"] /\ UNCHANGED <<reg, stage, sent, resp, cached>>
    BY <1>2 DEF TaskLock
  <2>2. \A n \in Regs : ~At(t, n)
    BY <2>1 DEF IInv, TasksAt
  <2>3. /\ permit' \in [Regs -> Everybody \cup {Free}] /\ queue' \in [Regs -> Seq(Everybody)]
        /\ MutexesOK'
        /\ \A w \in Everybody, n \in Regs : At(w, n)' <=> At(w, n) \/ (n = m /\ w = t)
        /\ \A n \in Regs : ToSet(queue'[n]) \subseteq ToSet(queue[n]) \cup {t}
    BY <1>0, <2>1, <2>2, EnqueueEffect DEF IInv
  <2>4. TypeOK'
    BY <2>1, <2>3 DEF IInv, TypeOK, Everybody
  <2>5. Stages'
    BY <2>1 DEF IInv, Stages, Serving
  <2>6. HandlersAt'
    BY <2>1, <2>3, HolderAssumption DEF IInv, HandlersAt, Everybody
  <2>7. TasksAt'
    BY <2>1, <2>2, <2>3 DEF IInv, TypeOK, TasksAt, Everybody
  <2> QED
    BY <2>3, <2>4, <2>5, <2>6, <2>7 DEF IInv
<1>3. CASE TaskResume(t, m)
  <2>1. /\ task[t] = "waiting" /\ permit[m] = t /\ task' = [task EXCEPT ![t] = "inside"]
        /\ UNCHANGED <<permit, queue, reg, stage, sent, resp, cached>>
    BY <1>3 DEF TaskResume, mutexes
  <2>2. \A n \in Regs : t \notin ToSet(queue[n])
    BY <2>1 DEF IInv, TasksAt, MutexesOK, At
  <2>3. TypeOK' /\ Stages' /\ MutexesOK' /\ HandlersAt'
    BY <2>1 DEF IInv, TypeOK, Stages, Serving, MutexesOK, HandlersAt, At
  <2>4. TasksAt'
    BY <2>1, <2>2 DEF IInv, TypeOK, TasksAt, At
  <2> QED
    BY <2>3, <2>4 DEF IInv
<1>4. CASE TaskUnlock(t, m)
  <2>1. /\ task[t] = "inside" /\ permit[m] = t /\ Release(m)
        /\ task' = [task EXCEPT ![t] = "away"] /\ UNCHANGED <<reg, stage, sent, resp, cached>>
    BY <1>4 DEF TaskUnlock
  <2>2. \A n \in Regs : At(t, n) => n = m
    BY <2>1 DEF IInv, TasksAt, At
  <2>3. /\ permit' \in [Regs -> Everybody \cup {Free}] /\ queue' \in [Regs -> Seq(Everybody)]
        /\ MutexesOK'
        /\ \A w \in Everybody, n \in Regs : At(w, n)' <=> At(w, n) /\ ~(n = m /\ w = t)
        /\ \A n \in Regs : ToSet(queue'[n]) \subseteq ToSet(queue[n])
    BY <1>0, <2>1, ReleaseEffect DEF IInv
  <2>4. TypeOK'
    BY <2>1, <2>3 DEF IInv, TypeOK, Everybody
  <2>5. Stages'
    BY <2>1 DEF IInv, Stages, Serving
  <2>6. HandlersAt'
    BY <2>1, <2>3, HolderAssumption DEF IInv, HandlersAt, Everybody
  <2>7. TasksAt'
    <3>1. \A n \in Regs : t \notin ToSet(queue[n])
      BY <2>1 DEF IInv, TasksAt
    <3> QED
      BY <2>1, <2>2, <2>3, <3>1 DEF IInv, TypeOK, TasksAt, Everybody
  <2> QED
    BY <2>3, <2>4, <2>5, <2>6, <2>7 DEF IInv
<1>5. ASSUME NEW v \in Values, TaskWrite(t, m, v) PROVE IInv'
  <2>1. TypeOK' /\ Stages'
    BY <1>5 DEF TaskWrite, IInv, TypeOK, Stages, Serving, mutexes
  <2>2. MutexesOK' /\ HandlersAt' /\ TasksAt'
    BY <1>5 DEF TaskWrite, IInv, MutexesOK, HandlersAt, TasksAt, At, mutexes
  <2> QED
    BY <2>1, <2>2 DEF IInv
<1> QED
  BY <1>1, <1>2, <1>3, <1>4, <1>5

-----------------------------------------------------------------------------
(* The theorems.                                                           *)

(* The inductive invariant holds in every reachable state of the server.   *)
THEOREM Invariance == Spec => []IInv
<1>1. IInv /\ [Next]_vars => IInv'
  <2> SUFFICES ASSUME IInv, [Next]_vars PROVE IInv'
    OBVIOUS
  <2>1. CASE UNCHANGED vars
    BY <2>1 DEF vars, mutexes, IInv, TypeOK, Stages, Serving, MutexesOK, HandlersAt, TasksAt, At
  <2> QED
    BY <2>1, AddStep, SendStep, HandlerStep, TaskStep DEF Next
<1> QED
  BY InitIInv, <1>1, PTL DEF Spec

(* The types of the server's variables.                                    *)
THEOREM TypeCorrect == Spec => []TypeOK
<1>1. IInv => TypeOK
  BY DEF IInv
<1> QED
  BY <1>1, Invariance, PTL

(* The mutex loses nobody: who waits is in the queue of its map once or    *)
(* holds its permit, and a dropped handler is in none.                     *)
THEOREM NobodyIsLost == Spec => []NobodyLost
<1>1. IInv => NobodyLost
  BY DEF IInv, NobodyLost, MutexesOK, HandlersAt, TasksAt
<1> QED
  BY <1>1, Invariance, PTL

(* Who changes a register, and when.                                       *)
LEMMA RegisterWriters ==
  ASSUME IInv, Next, NEW m \in Regs, reg'[m] # reg[m]
  PROVE  \/ \E t \in Tasks, v \in Values : TaskWrite(t, m, v)
         \/ \E r \in Clients :
              /\ stage[r] \in {"handler", "locking"} /\ stage'[r] = "idle"
              /\ Known(sent[r].slug) /\ m = FindMap(sent[r].slug)
              /\ permit[m] \in {Free, r}
<1>1. ASSUME NEW r \in Clients, HandleAtOnce(r) \/ Resume(r)
      PROVE  \E k \in Clients :
               /\ stage[k] \in {"handler", "locking"} /\ stage'[k] = "idle"
               /\ Known(sent[k].slug) /\ m = FindMap(sent[k].slug)
               /\ permit[m] \in {Free, k}
  <2>1. /\ stage[r] \in {"handler", "locking"} /\ UnderLock(r)
        /\ ForMap(sent[r]) /\ Known(sent[r].slug) /\ ~NotANumber(sent[r])
        /\ permit[FindMap(sent[r].slug)] \in {Free, r}
    BY <1>1 DEF HandleAtOnce, Resume, ReachesMap, IInv, Stages
  <2>2. m = FindMap(sent[r].slug) /\ \E a \in Answers(cached) : Respond(r, a)
    BY <2>1, UnderLockEffect
  <2>3. stage'[r] = "idle"
    BY <2>2 DEF Respond, IInv, TypeOK
  <2> QED
    BY <2>1, <2>2, <2>3
<1>2. ASSUME NEW r \in Clients, AuthCheck(r) \/ Reject(r) \/ List(r) \/ HandleLater(r) \/ Abandon(r)
      PROVE  FALSE
  BY <1>2 DEF AuthCheck, Reject, List, HandleLater, Abandon
<1>3. ASSUME NEW r \in Clients, NEW q \in Requests, Send(r, q) PROVE FALSE
  BY <1>3 DEF Send
<1>4. ASSUME NEW t \in Tasks, NEW n \in Regs, TaskLock(t, n) \/ TaskResume(t, n) \/ TaskUnlock(t, n)
      PROVE  FALSE
  BY <1>4 DEF TaskLock, TaskResume, TaskUnlock
<1>5. ASSUME NEW t \in Tasks, NEW n \in Regs, NEW v \in Values, TaskWrite(t, n, v)
      PROVE  TaskWrite(t, m, v)
  <2>1. n = m
    BY <1>5 DEF TaskWrite, IInv, TypeOK
  <2> QED
    BY <1>5, <2>1
<1>6. ~Add
  BY DEF Add
<1> QED
  BY <1>1, <1>2, <1>3, <1>4, <1>5, <1>6 DEF Next, Handler

(* While a task is inside a map, nobody else writes its register: the      *)
(* handlers of the API stay out.                                           *)
THEOREM TaskExclusion == Spec => TaskIsAlone
<1> DEFINE A == \A t \in Tasks, m \in Regs :
                  permit[m] = t /\ task[t] = "inside" /\ reg'[m] # reg[m] =>
                    \E v \in Values : TaskWrite(t, m, v)
<1>1. IInv /\ [Next]_vars => [A]_vars
  <2> SUFFICES ASSUME IInv, Next, NEW t \in Tasks, NEW m \in Regs,
                      permit[m] = t, reg'[m] # reg[m]
               PROVE  \E v \in Values : TaskWrite(t, m, v)
    OBVIOUS
  <2>1. t # Free /\ t \notin Clients
    BY HolderAssumption
  <2>2. PICK u \in Tasks, v \in Values : TaskWrite(u, m, v)
    BY <2>1, RegisterWriters
  <2> QED
    BY <2>2 DEF TaskWrite
<1> QED
  BY <1>1, Invariance, PTL DEF Spec, TaskIsAlone

(* A request reaches the map added first under its slug, and no other.     *)
THEOREM FirstAdded == Spec => FirstAddedServes
<1> DEFINE A == \A m \in Regs : reg'[m] # reg[m] =>
                  \/ \E t \in Tasks, v \in Values : TaskWrite(t, m, v)
                  \/ \E r \in Clients, i \in DOMAIN Maps :
                       /\ stage[r] # "idle" /\ stage'[r] = "idle"
                       /\ Maps[i].slug = sent[r].slug /\ Maps[i].regs = m
                       /\ \A j \in 1 .. i - 1 : Maps[j].slug # sent[r].slug
<1>1. IInv /\ [Next]_vars => [A]_vars
  <2> SUFFICES ASSUME IInv, Next, NEW m \in Regs, reg'[m] # reg[m],
                      ~ \E t \in Tasks, v \in Values : TaskWrite(t, m, v)
               PROVE  \E r \in Clients, i \in DOMAIN Maps :
                        /\ stage[r] # "idle" /\ stage'[r] = "idle"
                        /\ Maps[i].slug = sent[r].slug /\ Maps[i].regs = m
                        /\ \A j \in 1 .. i - 1 : Maps[j].slug # sent[r].slug
    OBVIOUS
  <2>1. PICK r \in Clients : /\ stage[r] \in {"handler", "locking"} /\ stage'[r] = "idle"
                             /\ Known(sent[r].slug) /\ m = FindMap(sent[r].slug)
    BY RegisterWriters
  <2> QED
    BY <2>1, FirstOfSlug
<1> QED
  BY <1>1, Invariance, PTL DEF Spec, FirstAddedServes

-----------------------------------------------------------------------------
(* Fairness of the mutex, as far as it is safety.                          *)

LEMMA BeforeInQueue ==
  ASSUME NEW v, NEW w, NEW m
  PROVE  Before(v, w, m) <=>
           w \in ToSet(queue[m]) /\ (permit[m] = v \/ InFront(queue[m], v, w))
  BY DEF Before, InFront

(* The three operations of a mutex keep the order of two who stay.         *)
LEMMA ReleaseOrder ==
  ASSUME TypeOK, MutexesOK, NEW m \in Regs, permit[m] # Free, Release(m),
         NEW n \in Regs, NEW w \in ToSet(queue[n]), NEW v \in Everybody \ {w},
         At(v, n)', At(w, n)'
  PROVE  Before(v, w, n)' <=> Before(v, w, n)
<1>1. CASE n # m
  <2>1. permit'[n] = permit[n] /\ queue'[n] = queue[n]
    BY <1>1 DEF Release, TypeOK
  <2> QED
    BY <2>1 DEF Before
<1>2. CASE n = m
  <2> DEFINE s == queue[m]
  <2>1. s \in Seq(Everybody) /\ s # <<>> /\ IsInjective(s)
    BY <1>2 DEF TypeOK, MutexesOK, ToSet, Everybody
  <2>2. permit'[m] = Head(s) /\ queue'[m] = Tail(s)
    BY <2>1 DEF Release, TypeOK
  <2>3. v # permit[m]
    BY <1>2, ReleaseEffect
  <2>4. ToSet(Tail(s)) = ToSet(s) \ {Head(s)}
    BY <2>1, TailOfQueue
  <2>5. Before(v, w, m) <=> InFront(s, v, w)
    BY <1>2, <2>3, BeforeInQueue
  <2>6. Before(v, w, m)' <=> w \in ToSet(Tail(s)) /\ (Head(s) = v \/ InFront(Tail(s), v, w))
    BY <2>2 DEF Before, InFront
  <2> HIDE DEF s
  <2>7. CASE w = Head(s)
    BY <1>2, <2>1, <2>4, <2>5, <2>6, <2>7, HeadIsFirst
  <2>8. CASE w # Head(s) /\ v = Head(s)
    <3>1. w \in ToSet(s)
      BY <1>2 DEF s
    <3> QED
      BY <1>2, <2>1, <2>4, <2>5, <2>6, <2>8, <3>1, HeadIsFirst
  <2>9. CASE w # Head(s) /\ v # Head(s)
    <3>1. w \in ToSet(s)
      BY <1>2 DEF s
    <3> QED
      BY <1>2, <2>1, <2>4, <2>5, <2>6, <2>9, <3>1, TailOrder
  <2> QED
    BY <2>7, <2>8, <2>9
<1> QED
  BY <1>1, <1>2

LEMMA EnqueueOrder ==
  ASSUME TypeOK, MutexesOK, NEW x \in Everybody, NEW m \in Regs, ~At(x, m), Enqueue(x, m),
         NEW n \in Regs, NEW w \in ToSet(queue[n]), NEW v \in Everybody \ {w}
  PROVE  Before(v, w, n)' <=> Before(v, w, n)
<1>1. permit' = permit /\ queue' = [queue EXCEPT ![m] = Append(queue[m], x)]
  BY DEF Enqueue
<1>2. CASE n # m
  <2>1. queue'[n] = queue[n]
    BY <1>1, <1>2 DEF TypeOK
  <2> QED
    BY <1>1, <2>1 DEF Before
<1>3. CASE n = m
  <2> DEFINE s == queue[m]
  <2>1. s \in Seq(Everybody) /\ IsInjective(s) /\ x \notin ToSet(s) /\ w \in ToSet(s) /\ w # x
    BY <1>3 DEF TypeOK, MutexesOK, At, Everybody
  <2>2. queue'[m] = Append(s, x)
    BY <1>1 DEF TypeOK
  <2>3. w \in ToSet(Append(s, x))
    BY <2>1, AppendToQueue
  <2>4. Before(v, w, m)' <=> permit[m] = v \/ InFront(Append(s, x), v, w)
    BY <1>1, <2>2, <2>3 DEF Before, InFront
  <2>5. Before(v, w, m) <=> permit[m] = v \/ InFront(s, v, w)
    BY <2>1, BeforeInQueue
  <2> HIDE DEF s
  <2>6. InFront(Append(s, x), v, w) <=> InFront(s, v, w)
    BY <2>1, AppendOrder
  <2> QED
    BY <1>3, <2>4, <2>5, <2>6
<1> QED
  BY <1>2, <1>3

LEMMA LeaveOrder ==
  ASSUME TypeOK, MutexesOK, NEW x \in Everybody, NEW m \in Regs, permit[m] # x, Leave(x, m),
         NEW n \in Regs, NEW w \in ToSet(queue[n]), NEW v \in Everybody \ {w},
         At(v, n)', At(w, n)'
  PROVE  Before(v, w, n)' <=> Before(v, w, n)
<1>1. PICK p \in DOMAIN queue[m] : /\ queue[m][p] = x
                                   /\ queue' = [queue EXCEPT ![m] = RemoveAt(queue[m], p)]
  BY DEF Leave
<1>2. permit' = permit
  BY DEF Leave
<1>3. CASE n # m
  <2>1. queue'[n] = queue[n]
    BY <1>1, <1>3 DEF TypeOK
  <2> QED
    BY <1>2, <2>1 DEF Before
<1>4. CASE n = m
  <2> DEFINE s == queue[m]
             r == RemoveAt(s, p)
  <2>1. s \in Seq(Everybody) /\ IsInjective(s) /\ p \in DOMAIN s /\ s[p] = x /\ w \in ToSet(s)
    BY <1>1, <1>4 DEF TypeOK, MutexesOK, Everybody
  <2>2. queue'[m] = r
    BY <1>1 DEF TypeOK
  <2>3. w \in Everybody
    BY <2>1 DEF ToSet
  <2>4. v # x /\ w # x
    BY <1>4, <2>3, LeaveEffect
  <2>5. w \in ToSet(r)
    BY <2>1, <2>4, RemoveFromQueue
  <2>6. Before(v, w, m)' <=> permit[m] = v \/ InFront(r, v, w)
    BY <1>2, <2>2, <2>5 DEF Before, InFront
  <2>7. Before(v, w, m) <=> permit[m] = v \/ InFront(s, v, w)
    BY <2>1, BeforeInQueue
  <2> HIDE DEF s
  <2>8. InFront(r, v, w) <=> InFront(s, v, w)
    BY <2>1, <2>4, RemoveOrder
  <2> QED
    BY <1>4, <2>6, <2>7, <2>8
<1> QED
  BY <1>3, <1>4

(* Each step keeps the order of two who are at a mutex and stay.           *)
LEMMA OrderKept ==
  ASSUME IInv, Next, NEW n \in Regs, NEW w \in ToSet(queue[n]), NEW v \in Everybody \ {w},
         At(v, n)', At(w, n)'
  PROVE  Before(v, w, n)' <=> Before(v, w, n)
<1>1. CASE UNCHANGED mutexes
  BY <1>1 DEF mutexes, Before
<1>2. ASSUME NEW x \in Everybody, NEW m \in Regs, permit[m] = x, Release(m)
      PROVE  Before(v, w, n)' <=> Before(v, w, n)
  <2>1. permit[m] # Free
    BY <1>2, HolderAssumption DEF Everybody
  <2> QED
    BY <1>2, <2>1, ReleaseOrder DEF IInv
<1>3. ASSUME NEW x \in Everybody, NEW m \in Regs, ~At(x, m), Enqueue(x, m)
      PROVE  Before(v, w, n)' <=> Before(v, w, n)
  BY <1>3, EnqueueOrder DEF IInv
<1>4. ASSUME NEW r \in Clients, Handler(r) \/ Abandon(r)
      PROVE  Before(v, w, n)' <=> Before(v, w, n)
  <2> DEFINE m == FindMap(sent[r].slug)
  <2>1. r \in Everybody
    BY DEF Everybody
  <2>2. CASE Resume(r)
    <3>1. m \in Regs
      BY <2>2, FirstOfSlug DEF Resume, IInv, Stages, Regs
    <3> QED
      BY <1>2, <2>1, <2>2, <3>1 DEF Resume
  <2>3. CASE HandleLater(r)
    <3>1. m \in Regs /\ Enqueue(r, m) /\ stage[r] = "handler"
      BY <2>3, FirstOfSlug DEF HandleLater, ReachesMap, Regs
    <3>2. ~At(r, m)
      BY <3>1 DEF IInv, HandlersAt
    <3> QED
      BY <1>3, <2>1, <3>1, <3>2
  <2>4. CASE Abandon(r) /\ stage[r] = "locking"
    <3>1. m \in Regs
      BY <2>4, FirstOfSlug DEF IInv, Stages, Regs
    <3>2. CASE permit[m] = r /\ Release(m)
      BY <1>2, <2>1, <3>1, <3>2
    <3>3. CASE permit[m] # r /\ Leave(r, m)
      BY <2>1, <3>1, <3>3, LeaveOrder DEF IInv
    <3> QED
      BY <2>4, <3>2, <3>3 DEF Abandon
  <2>5. CASE \/ AuthCheck(r) \/ Reject(r) \/ List(r) \/ HandleAtOnce(r)
             \/ Abandon(r) /\ stage[r] # "locking"
    BY <1>1, <2>5 DEF AuthCheck, Reject, List, HandleAtOnce, Abandon
  <2> QED
    BY <1>4, <2>2, <2>3, <2>4, <2>5 DEF Handler
<1>5. ASSUME NEW t \in Tasks, NEW m \in Regs, TaskLock(t, m)
      PROVE  Before(v, w, n)' <=> Before(v, w, n)
  <2>1. t \in Everybody /\ ~At(t, m)
    BY <1>5 DEF TaskLock, Everybody, IInv, TasksAt
  <2>2. CASE permit[m] # Free
    BY <1>3, <1>5, <2>1, <2>2 DEF TaskLock
  <2>3. CASE permit[m] = Free
    <3>1. permit' = [permit EXCEPT ![m] = t] /\ queue' = queue
      BY <1>5, <2>3 DEF TaskLock
    <3>2. n # m
      BY <2>3 DEF IInv, MutexesOK, ToSet
    <3>3. permit'[n] = permit[n] /\ queue'[n] = queue[n]
      BY <3>1, <3>2 DEF IInv, TypeOK
    <3> QED
      BY <3>3 DEF Before
  <2> QED
    BY <2>2, <2>3
<1>6. ASSUME NEW t \in Tasks, NEW m \in Regs, TaskUnlock(t, m)
      PROVE  Before(v, w, n)' <=> Before(v, w, n)
  BY <1>2, <1>6 DEF TaskUnlock, Everybody
<1>7. ASSUME NEW t \in Tasks, NEW m \in Regs, TaskResume(t, m) \/ \E u \in Values : TaskWrite(t, m, u)
      PROVE  UNCHANGED mutexes
  BY <1>7 DEF TaskResume, TaskWrite
<1>8. ASSUME Add \/ \E r \in Clients, q \in Requests : Send(r, q) PROVE UNCHANGED mutexes
  BY <1>8 DEF Add, Send
<1> QED
  BY <1>1, <1>4, <1>5, <1>6, <1>7, <1>8 DEF Next

(* A request that reaches a map for which somebody waits is not answered   *)
(* in this step.                                                           *)
LEMMA NotPast ==
  ASSUME IInv, Next, NEW r \in Clients, ReachesMap(r), queue[FindMap(sent[r].slug)] # <<>>
  PROVE  resp'[r] \in {resp[r], Bare("lost")}
<1> USE DEF IInv, TypeOK
<1>1. stage[r] = "handler" /\ ForMap(sent[r]) /\ Known(sent[r].slug) /\ ~NotANumber(sent[r])
  BY DEF ReachesMap
<1>2. permit[FindMap(sent[r].slug)] # Free
  <2>1. FindMap(sent[r].slug) \in Regs
    BY <1>1, FirstOfSlug DEF Regs
  <2> QED
    BY <2>1 DEF MutexesOK
<1>3. ASSUME NEW k \in Clients \ {r}, Handler(k) \/ Abandon(k) PROVE resp'[r] = resp[r]
  BY <1>3 DEF Handler, Abandon, AuthCheck, Reject, List, HandleAtOnce, HandleLater, Resume,
              UnderLock, Respond
<1>4. ASSUME NEW k \in Clients, NEW q \in Requests, Send(k, q) PROVE resp'[r] = resp[r]
  BY <1>1, <1>4 DEF Send
<1>5. CASE Abandon(r)
  BY <1>5 DEF Abandon, Respond
<1>6. CASE HandleLater(r)
  BY <1>6 DEF HandleLater
<1>7. ~(AuthCheck(r) \/ Reject(r) \/ List(r) \/ HandleAtOnce(r) \/ Resume(r))
  BY <1>1, <1>2 DEF AuthCheck, Reject, List, HandleAtOnce, Resume, ForMap
<1>8. ASSUME NEW t \in Tasks, NEW m \in Regs,
             TaskLock(t, m) \/ TaskResume(t, m) \/ TaskUnlock(t, m) \/ \E v \in Values : TaskWrite(t, m, v)
      PROVE  resp'[r] = resp[r]
  BY <1>8 DEF TaskLock, TaskResume, TaskUnlock, TaskWrite
<1>9. CASE Add
  BY <1>9 DEF Add
<1> QED
  BY <1>3, <1>4, <1>5, <1>6, <1>7, <1>8, <1>9 DEF Next, Handler

(* Who waits for a map is served in his turn: nobody overtakes him, in the *)
(* queue or past it.                                                       *)
THEOREM InTurn == Spec => ServedInTurn
<1> DEFINE A == \A m \in Regs : \A w \in ToSet(queue[m]) :
                  /\ \A v \in (Clients \cup Tasks) \ {w} :
                       At(v, m)' /\ At(w, m)' => (Before(v, w, m)' <=> Before(v, w, m))
                  /\ \A r \in Clients :
                       ReachesMap(r) /\ FindMap(sent[r].slug) = m =>
                         resp'[r] \in {resp[r], Bare("lost")}
<1>1. IInv /\ [Next]_vars => [A]_vars
  <2> SUFFICES ASSUME IInv, Next, NEW m \in Regs, NEW w \in ToSet(queue[m]) PROVE
                 /\ \A v \in (Clients \cup Tasks) \ {w} :
                      At(v, m)' /\ At(w, m)' => (Before(v, w, m)' <=> Before(v, w, m))
                 /\ \A r \in Clients :
                      ReachesMap(r) /\ FindMap(sent[r].slug) = m =>
                        resp'[r] \in {resp[r], Bare("lost")}
    OBVIOUS
  <2>1. \A v \in (Clients \cup Tasks) \ {w} :
          At(v, m)' /\ At(w, m)' => (Before(v, w, m)' <=> Before(v, w, m))
    BY OrderKept DEF Everybody
  <2>2. queue[m] # <<>>
    BY DEF ToSet
  <2> QED
    BY <2>1, <2>2, NotPast
<1> QED
  BY <1>1, Invariance, PTL DEF Spec, ServedInTurn

-----------------------------------------------------------------------------
(* The refinement.                                                         *)

(* The requests of the promise are those of the server.                    *)
LEMMA SameRequests ==
  /\ Promise!Regs = Regs /\ Promise!Values = Values /\ Promise!NoRequest = NoRequest
  /\ \A code : Promise!Bare(code) = Bare(code)
  /\ \A q, v : Promise!ReadAnswer(q, v) = ReadAnswer(q, v)
  /\ \A names : Promise!ListAnswer(names) = ListAnswer(names)
  /\ \A slug : Promise!Known(slug) = Known(slug) /\ Promise!FindMap(slug) = FindMap(slug)
  /\ \A q : Promise!ForMap(q) = ForMap(q)
<1>1. Promise!Regs = Regs /\ Promise!Values = Values /\ Promise!NoRequest = NoRequest
  BY DEF Promise!Regs, Regs, Promise!Values, Values, Promise!NoRequest, NoRequest
<1>2. \A code : Promise!Bare(code) = Bare(code)
  BY DEF Promise!Bare, Bare
<1>3. \A q, v : Promise!ReadAnswer(q, v) = ReadAnswer(q, v)
  BY <1>2 DEF Promise!ReadAnswer, ReadAnswer
<1>4. \A names : Promise!ListAnswer(names) = ListAnswer(names)
  BY <1>2 DEF Promise!ListAnswer, ListAnswer
<1>5. \A slug : Promise!Known(slug) = Known(slug)
  BY DEF Promise!Known, Known
<1>6. \A slug : Promise!FindMap(slug) = FindMap(slug)
  BY DEF Promise!FindMap, FindMap
<1>7. \A q : Promise!ForMap(q) = ForMap(q)
  BY DEF Promise!ForMap, ForMap
<1> QED
  BY <1>1, <1>2, <1>3, <1>4, <1>5, <1>6, <1>7

(* Which requests are refused, and with what.                              *)
LEMMA WhatIsRefused ==
  ASSUME NEW q \in Requests
  PROVE  /\ q \in Promise!Refused <=>
              ~Allowed(q) \/ NotANumber(q) \/ (ForMap(q) /\ ~Known(q.slug)) \/ AccessRefused(q)
         /\ ~Allowed(q) => "401" \in Promise!RefusalCodes(q)
         /\ Allowed(q) /\ ~Known(q.slug) => "404" \in Promise!RefusalCodes(q)
         /\ Allowed(q) /\ (AccessRefused(q) \/ NotANumber(q)) => "400" \in Promise!RefusalCodes(q)
<1>1. /\ Promise!Allowed(q) = Allowed(q) /\ Promise!NotANumber(q) = NotANumber(q)
      /\ Promise!Known(q.slug) = Known(q.slug) /\ Promise!ForMap(q) = ForMap(q)
  BY SameRequests DEF Promise!Allowed, Allowed, Promise!NotANumber, NotANumber
<1>2. Promise!AccessRefused(q) = AccessRefused(q)
  BY SameRequests DEF Promise!AccessRefused, AccessRefused, Promise!IsReadable, IsReadable,
                      Promise!IsWritable, IsWritable
<1>3. q \in Promise!Refused <=>
        ~Allowed(q) \/ NotANumber(q) \/ (ForMap(q) /\ ~Known(q.slug)) \/ AccessRefused(q)
  BY <1>1, <1>2 DEF Promise!Refused
<1> QED
  BY <1>1, <1>2, <1>3 DEF Promise!RefusalCodes

(* What is done under the mutex is the one step of the promise.            *)
LEMMA UnderLockServes ==
  ASSUME IInv, NEW r \in Clients, stage[r] \in {"handler", "locking"}, UnderLock(r),
         ForMap(sent[r]), Known(sent[r].slug), ~NotANumber(sent[r]), cached' = cached
  PROVE  Promise!Serve(r)
<1> DEFINE q == sent[r]
<1>1. q \in Requests /\ Allowed(q) /\ q # Promise!NoRequest
  BY SameRequests, RequestFacts DEF IInv, TypeOK, Stages
<1>2. CASE AccessRefused(q)
  <2>1. Respond(r, Bare("400")) /\ reg' = reg
    BY <1>2 DEF UnderLock
  <2>2. resp' = [resp EXCEPT ![r] = Promise!Bare("400")] /\ sent' = [sent EXCEPT ![r] = Promise!NoRequest]
    BY <2>1, SameRequests DEF Respond
  <2>3. q \in Promise!Refused /\ "400" \in Promise!RefusalCodes(q)
    BY <1>1, <1>2, WhatIsRefused
  <2> QED
    BY <1>1, <2>1, <2>2, <2>3 DEF Promise!Serve
<1>3. CASE ~AccessRefused(q)
  <2> DEFINE m == FindMap(q.slug)
  <2>1. /\ Respond(r, ReadAnswer(q, reg[m]))
        /\ reg' = IF q.verb = "write" THEN [reg EXCEPT ![m] = q.value] ELSE reg
    BY <1>3 DEF UnderLock
  <2>2. /\ resp' = [resp EXCEPT ![r] = Promise!ReadAnswer(q, reg[Promise!FindMap(q.slug)])]
        /\ sent' = [sent EXCEPT ![r] = Promise!NoRequest]
    BY <2>1, SameRequests DEF Respond
  <2>3. reg' = IF q.verb = "write" THEN [reg EXCEPT ![Promise!FindMap(q.slug)] = q.value] ELSE reg
    BY <2>1, SameRequests
  <2>4. q \notin Promise!Refused /\ Promise!ForMap(q)
    BY <1>1, <1>3, WhatIsRefused, SameRequests
  <2> QED
    BY <1>1, <2>2, <2>3, <2>4 DEF Promise!Serve
<1> QED
  BY <1>2, <1>3

(* A request that is refused before it reaches a map.                      *)
LEMMA RefusedServes ==
  ASSUME IInv, NEW r \in Clients, stage[r] # "idle", NEW code, Respond(r, Bare(code)),
         sent[r] \in Promise!Refused, code \in Promise!RefusalCodes(sent[r]),
         UNCHANGED <<reg, cached>>
  PROVE  Promise!Serve(r)
<1>1. sent[r] # Promise!NoRequest
  BY SameRequests DEF IInv, Stages
<1>2. resp' = [resp EXCEPT ![r] = Promise!Bare(code)] /\ sent' = [sent EXCEPT ![r] = Promise!NoRequest]
  BY SameRequests DEF Respond
<1> QED
  BY <1>1, <1>2 DEF Promise!Serve

(* Every step of a handler is a step of the promise, or of no concern to   *)
(* it.                                                                     *)
LEMMA HandlerServes ==
  ASSUME IInv, NEW r \in Clients, Handler(r) \/ Abandon(r)
  PROVE  Promise!Serve(r) \/ Promise!Abandon(r) \/ UNCHANGED Promise!vars
<1> DEFINE q == sent[r]
<1>1. CASE AuthCheck(r) /\ q.cred = "good"
  BY <1>1 DEF AuthCheck, Promise!vars
<1>2. CASE AuthCheck(r) /\ q.cred # "good"
  <2>1. /\ stage[r] = "auth" /\ Respond(r, Bare("401")) /\ UNCHANGED <<reg, cached>>
    BY <1>2 DEF AuthCheck
  <2>2. q \in Requests /\ ~Allowed(q)
    BY <1>2, <2>1 DEF IInv, TypeOK, Stages, Allowed
  <2>3. q \in Promise!Refused /\ "401" \in Promise!RefusalCodes(q)
    BY <2>2, WhatIsRefused
  <2> QED
    BY <2>1, <2>3, RefusedServes
<1>3. CASE Reject(r)
  <2>1. stage[r] = "handler" /\ UNCHANGED <<reg, cached>> /\ q \in Requests /\ Allowed(q)
    BY <1>3 DEF Reject, IInv, TypeOK, Stages
  <2>2. CASE NotANumber(q) /\ Respond(r, Bare("400"))
    BY <2>1, <2>2, WhatIsRefused, RefusedServes
  <2>3. CASE ForMap(q) /\ ~Known(q.slug) /\ Respond(r, Bare("404"))
    BY <2>1, <2>3, WhatIsRefused, RefusedServes
  <2> QED
    BY <1>3, <2>2, <2>3 DEF Reject
<1>4. CASE List(r)
  <2>1. /\ stage[r] = "handler" /\ q.verb = "list" /\ Respond(r, ListAnswer(cached))
        /\ UNCHANGED <<reg, cached>> /\ q \in Requests /\ Allowed(q)
    BY <1>4 DEF List, IInv, TypeOK, Stages
  <2>2. ~NotANumber(q) /\ ~ForMap(q) /\ ~AccessRefused(q)
    BY <2>1 DEF NotANumber, ForMap, AccessRefused
  <2>3. q \notin Promise!Refused /\ ~Promise!ForMap(q) /\ q # Promise!NoRequest
    BY <2>1, <2>2, WhatIsRefused, SameRequests, RequestFacts
  <2>4. /\ resp' = [resp EXCEPT ![r] = Promise!ListAnswer(cached)]
        /\ sent' = [sent EXCEPT ![r] = Promise!NoRequest]
    BY <2>1, SameRequests DEF Respond
  <2> QED
    BY <2>1, <2>3, <2>4 DEF Promise!Serve
<1>5. CASE HandleAtOnce(r)
  BY <1>5, UnderLockServes DEF HandleAtOnce, ReachesMap
<1>6. CASE HandleLater(r)
  BY <1>6 DEF HandleLater, Promise!vars
<1>7. CASE Resume(r)
  <2>1. ForMap(sent[r]) /\ Known(sent[r].slug) /\ ~NotANumber(sent[r])
    BY <1>7 DEF Resume, IInv, Stages
  <2> QED
    BY <1>7, <2>1, UnderLockServes DEF Resume
<1>8. CASE Abandon(r)
  <2>1. /\ sent[r] # Promise!NoRequest
        /\ sent' = [sent EXCEPT ![r] = Promise!NoRequest]
        /\ resp' = [resp EXCEPT ![r] = Promise!Bare("lost")]
        /\ UNCHANGED <<reg, cached>>
    BY <1>8, SameRequests DEF Abandon, Respond, IInv, Stages
  <2> QED
    BY <2>1 DEF Promise!Abandon
<1> QED
  BY <1>1, <1>2, <1>3, <1>4, <1>5, <1>6, <1>7, <1>8 DEF Handler

(* The server keeps the promise of its API: a request takes effect in the  *)
(* one step that decides its answer, or not at all.                        *)
THEOREM Refinement == Spec => AtomicSpec
<1>1. Init => Promise!Init
  BY SameRequests DEF Init, Promise!Init
<1>2. IInv /\ [Next]_vars => [Promise!Next]_(Promise!vars)
  <2> SUFFICES ASSUME IInv, [Next]_vars PROVE Promise!Next \/ UNCHANGED Promise!vars
    OBVIOUS
  <2>1. CASE UNCHANGED vars
    BY <2>1 DEF vars, Promise!vars
  <2>2. CASE Add
    <3>1. \E name \in {"name", "slug"} :
            Len(cached) < Len(Maps) /\ cached' = Append(cached, name) /\ UNCHANGED <<reg, sent, resp>>
      BY <2>2 DEF Add
    <3>2. \E name \in {"name", "slug"} : Promise!Add(name)
      BY <3>1 DEF Promise!Add
    <3> QED
      BY <3>2 DEF Promise!Next
  <2>3. ASSUME NEW r \in Clients, NEW q \in Requests, Send(r, q) PROVE Promise!Next
    <3>1. Promise!Send(r, q)
      BY <2>3, SameRequests DEF Send, Promise!Send, IInv, Stages, Serving
    <3> QED
      BY <3>1 DEF Promise!Next
  <2>4. ASSUME NEW r \in Clients, Handler(r) \/ Abandon(r)
        PROVE  Promise!Next \/ UNCHANGED Promise!vars
    BY <2>4, HandlerServes DEF Promise!Next
  <2>5. ASSUME NEW t \in Tasks, NEW m \in Regs, NEW v \in Values, TaskWrite(t, m, v) PROVE Promise!Next
    <3>1. Promise!TaskWrite(m, v)
      BY <2>5 DEF TaskWrite, Promise!TaskWrite
    <3> QED
      BY <3>1, SameRequests DEF Promise!Next
  <2>6. ASSUME NEW t \in Tasks, NEW m \in Regs, TaskLock(t, m) \/ TaskResume(t, m) \/ TaskUnlock(t, m)
        PROVE  UNCHANGED Promise!vars
    BY <2>6 DEF TaskLock, TaskResume, TaskUnlock, Promise!vars
  <2> QED
    BY <2>1, <2>2, <2>3, <2>4, <2>5, <2>6 DEF Next
<1> QED
  BY <1>1, <1>2, Invariance, PTL DEF Spec, AtomicSpec, Promise!Spec
=============================================================================
