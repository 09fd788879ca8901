----------------------------- MODULE ServerTypes -----------------------------
(***************************************************************************)
(* Requests of the web UI's JSON API, and what each is answered with.      *)
(*                                                                         *)
(* A request is a record [verb, slug, offset, value, cred].  An offset     *)
(* stands for what the map's spec table says of it ("rw", "ro", "wo" or    *)
(* "none"); a value is a number, or NaN when the wire value is none.       *)
(***************************************************************************)
EXTENDS Naturals, Sequences

CONSTANTS
  Maps,      \* the calls of WebUi::add, in order: records [slug, regs]
  Clients,   \* connections of clients, each with one request at a time
  Requests,  \* the requests clients send
  BusMax,    \* the largest value of the bus type
  NaN,       \* a wire value that WireValue::to_u64 rejects
  AuthOn     \* whether with_auth was called

Verbs   == {"list", "info", "read", "write"}
Offsets == {"rw", "ro", "wo", "none"}
Creds   == {"good", "bad", "absent"}

ASSUME RequestAssumption ==
  /\ BusMax \in Nat /\ NaN \notin Nat
  /\ Len(Maps) \in Nat \ {0} /\ DOMAIN Maps = 1 .. Len(Maps)
  /\ \A q \in Requests :
       /\ q.verb \in Verbs /\ q.offset \in Offsets /\ q.cred \in Creds
       /\ q.value \in Nat \cup {NaN}

Values == 0 .. BusMax

NoRequest == [verb |-> "none"]

(* The register maps themselves, each behind a mutex of its own.  One may  *)
(* be added under several slugs, and a slug may be used twice.             *)
Regs == {Maps[i].regs : i \in DOMAIN Maps}

Known(slug) == \E i \in DOMAIN Maps : Maps[i].slug = slug

(* Mutant: the last map added under a slug, as in a HashMap.               *)
FindMapLast(slug) ==
  Maps[CHOOSE i \in DOMAIN Maps :
         Maps[i].slug = slug /\ \A j \in i + 1 .. Len(Maps) : Maps[j].slug # slug].regs

(* The first map added under a slug.                                       *)
FindMap(slug) ==
  Maps[CHOOSE i \in DOMAIN Maps :
         Maps[i].slug = slug /\ \A j \in 1 .. i - 1 : Maps[j].slug # slug].regs

IsReadable(offset) == offset \in {"rw", "ro"}
IsWritable(offset) == offset \in {"rw", "wo"}

(* Answers: a status code, with the value of the register for a read, and  *)
(* for the list what each map is called: its own "name", or its "slug".    *)
Bare(code) == [code |-> code, value |-> NaN, names |-> <<>>]
ReadAnswer(q, v) == [Bare("200") EXCEPT !.value = IF q.verb = "read" THEN v ELSE NaN]
ListAnswer(names) == [Bare("200") EXCEPT !.names = names]

Allowed(q) == AuthOn => q.cred = "good"

NotANumber(q) == q.verb = "write" /\ q.value = NaN

(* Mutant: write_register without its range check.                         *)
AccessRefusedNoRange(q) ==
  \/ q.verb = "read" /\ ~IsReadable(q.offset)
  \/ q.verb = "write" /\ ~IsWritable(q.offset)

(* What read_register and write_register refuse: an offset of no readable  *)
(* or writable register, and a value wider than the bus.                   *)
AccessRefused(q) ==
  \/ q.verb = "read" /\ ~IsReadable(q.offset)
  \/ q.verb = "write" /\ (~IsWritable(q.offset) \/ q.value \notin Values)

(* A request for a map, as opposed to the page and the list.               *)
ForMap(q) == q.verb \in {"info", "read", "write"}

Refused == {q \in Requests : \/ ~Allowed(q)
                             \/ NotANumber(q)
                             \/ ForMap(q) /\ ~Known(q.slug)
                             \/ AccessRefused(q)}

(* Authentication comes first; of the other refusals any that applies.     *)
RefusalCodes(q) ==
  IF ~Allowed(q) THEN {"401"}
  ELSE {c \in {"400", "404"} :
          \/ c = "404" /\ ~Known(q.slug)
          \/ c = "400" /\ (AccessRefused(q) \/ NotANumber(q))}
=============================================================================
