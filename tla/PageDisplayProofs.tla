-------------------------- MODULE PageDisplayProofs --------------------------
(***************************************************************************)
(* Proofs about PageDisplay, for every number of reads in flight, every    *)
(* field and every list of variants.  What the page displays changes       *)
(* nothing of what its controls do: PageSpec implements the Spec of        *)
(* WebPage, and every theorem of WebPageProofs holds of it.                *)
(***************************************************************************)
EXTENDS PageDisplay, WebPageProofs

(* The types of what PageDisplay adds.                                     *)
DisplayTypes ==
  /\ shown \in {<<>>} \cup {<<w>> : w \in SUBSET Word}
  /\ choice \in {<<>>} \cup {<<v>> : v \in Offered}
  /\ status \in {"", "written", "error"}
  /\ read \in [Reads -> {"idle", "sent", "answered", "failed"}]
  /\ answer \in [Reads -> SUBSET Word]
  /\ auto \in BOOLEAN
  /\ had \subseteq SUBSET (0 .. Selected.hi - Selected.lo)
  /\ picked \subseteq Offered

(* The history has what the field holds now, and what the answers on their *)
(* way say it held.                                                        *)
HistoryKept ==
  /\ Extract(reg, Selected) \in had
  /\ \A r \in Reads : read[r] = "answered" => Extract(answer[r], Selected) \in had

PageInv == DisplayTypes /\ HistoryKept /\ NothingInvented

-----------------------------------------------------------------------------
LEMMA ExtractType ==
  ASSUME NEW w \in SUBSET Word
  PROVE  Extract(w, Selected) \in SUBSET (0 .. Selected.hi - Selected.lo)
<1>1. Selected.lo \in Nat /\ Selected.hi \in Nat
  BY DisplayAssumption, DeclarationAssumption DEF Declares, Settable
<1> QED
  BY <1>1 DEF Extract, FieldMask

LEMMA FirstOffered == Variants[1] \in Offered
  BY DisplayAssumption DEF Offered

LEMMA DropdownType ==
  ASSUME choice \in {<<>>} \cup {<<v>> : v \in Offered}, NEW w
  PROVE  Dropdown(w) \in {<<>>} \cup {<<v>> : v \in Offered}
  BY DEF Dropdown

(* Every step of the displayed page is a step of its controls, of the rest *)
(* of the world, or none of WebPage's.                                     *)
LEMMA PageStepIsStep == [PageNext]_pageVars => [Next]_vars
<1> SUFFICES ASSUME [PageNext]_pageVars PROVE [Next]_vars
  OBVIOUS
<1>1. ASSUME NEW r \in Timers, Tick(r) \/ ReadButton(r) PROVE UNCHANGED vars
  BY <1>1 DEF Tick, ReadButton, StartRead
<1>2. ASSUME NEW r \in Reads, ReadReg(r) PROVE UNCHANGED vars
  BY <1>2 DEF ReadReg, AnswerRead, LoseRead, Deliver, DeliverFailure
<1>3. ASSUME NEW h \in Handlers, Control(h) PROVE Next
  BY <1>3 DEF Control, Press, PressInvalid, Written, Failed, Next, Handler
<1>4. ASSUME NEW v \in Offered, Choose(v) PROVE UNCHANGED vars
  BY <1>4 DEF Choose
<1>5. CASE ToggleAuto
  BY <1>5 DEF ToggleAuto
<1>6. CASE Elsewhere
  BY <1>6 DEF Elsewhere, Next
<1>7. CASE UNCHANGED pageVars
  BY <1>7 DEF pageVars
<1> QED
  BY <1>1, <1>2, <1>3, <1>4, <1>5, <1>6, <1>7 DEF PageNext

LEMMA InitPageInv == PageInit /\ TypeOK => PageInv
<1> SUFFICES ASSUME PageInit, TypeOK PROVE PageInv
  OBVIOUS
<1>1. Extract(reg, Selected) \in SUBSET (0 .. Selected.hi - Selected.lo)
  BY ExtractType DEF TypeOK
<1>2. DisplayTypes
  BY <1>1, FirstOffered DEF PageInit, DisplayTypes
<1>3. HistoryKept /\ NothingInvented
  BY DEF PageInit, HistoryKept, NothingInvented
<1> QED
  BY <1>2, <1>3 DEF PageInv

(* A step that adds to the history what the register has become.           *)
LEMMA HistoryStep ==
  ASSUME TypeOK', PageInv,
         had' = had \cup {Extract(reg', Selected)},
         UNCHANGED <<shown, choice, answer, auto, picked>>,
         status' \in {"", "written", "error"},
         read' \in [Reads -> {"idle", "sent", "answered", "failed"}],
         \A r \in Reads : read'[r] = "answered" => read[r] = "answered"
  PROVE  PageInv'
<1>1. Extract(reg', Selected) \in SUBSET (0 .. Selected.hi - Selected.lo)
  BY ExtractType DEF TypeOK
<1>2. DisplayTypes'
  BY <1>1 DEF PageInv, DisplayTypes
<1>3. HistoryKept'
  BY DEF PageInv, HistoryKept
<1>4. NothingInvented'
  BY DEF PageInv, NothingInvented
<1> QED
  BY <1>2, <1>3, <1>4 DEF PageInv

LEMMA PageInvStep == TypeOK /\ TypeOK' /\ PageInv /\ [PageNext]_pageVars => PageInv'
<1> SUFFICES ASSUME TypeOK, TypeOK', PageInv, [PageNext]_pageVars PROVE PageInv'
  OBVIOUS
<1> USE DEF vars, device, page
<1>1. ASSUME NEW r \in Reads, StartRead(r) \/ LoseRead(r) \/ DeliverFailure(r) PROVE PageInv'
  <2>1. DisplayTypes'
    BY <1>1 DEF StartRead, LoseRead, DeliverFailure, PageInv, DisplayTypes
  <2>2. HistoryKept'
    BY <1>1 DEF StartRead, LoseRead, DeliverFailure, PageInv, DisplayTypes, HistoryKept
  <2>3. NothingInvented'
    BY <1>1 DEF StartRead, LoseRead, DeliverFailure, PageInv, NothingInvented
  <2> QED
    BY <2>1, <2>2, <2>3 DEF PageInv
<1>2. ASSUME NEW r \in Reads, AnswerRead(r) PROVE PageInv'
  <2>1. DisplayTypes'
    BY <1>2 DEF AnswerRead, PageInv, DisplayTypes, TypeOK
  <2>2. HistoryKept'
    BY <1>2 DEF AnswerRead, PageInv, DisplayTypes, HistoryKept
  <2>3. NothingInvented'
    BY <1>2 DEF AnswerRead, PageInv, NothingInvented
  <2> QED
    BY <2>1, <2>2, <2>3 DEF PageInv
<1>3. ASSUME NEW r \in Reads, Deliver(r) PROVE PageInv'
  <2> DEFINE v == Extract(answer[r], Selected)
  <2>1. answer[r] \in SUBSET Word /\ v \in had
    BY <1>3 DEF Deliver, PageInv, DisplayTypes, HistoryKept
  <2>2. DisplayTypes'
    <3>1. choice' \in {<<>>} \cup {<<u>> : u \in Offered}
      BY <1>3, DropdownType DEF Deliver, PageInv, DisplayTypes
    <3> QED
      BY <1>3, <2>1, <3>1 DEF Deliver, PageInv, DisplayTypes
  <2>3. HistoryKept'
    BY <1>3 DEF Deliver, PageInv, DisplayTypes, HistoryKept
  <2>4. NothingInvented'
    <3>1. CASE ~Displayed
      <4>1. choice' = choice /\ picked' = picked
        BY <1>3, <3>1 DEF Deliver, Dropdown
      <4> QED
        BY <3>1, <4>1 DEF PageInv, NothingInvented
    <3>2. CASE Displayed
      <4>1. choice' = <<v>> \/ choice' = <<>>
        BY <1>3, <3>2 DEF Deliver, Dropdown
      <4>2. shown' = <<answer[r]>> /\ had' = had
        BY <1>3 DEF Deliver
      <4> QED
        BY <2>1, <3>2, <4>1, <4>2 DEF NothingInvented
    <3> QED
      BY <3>1, <3>2
  <2> QED
    BY <2>2, <2>3, <2>4 DEF PageInv
<1>4. ASSUME NEW v \in Offered, Choose(v) PROVE PageInv'
  <2>1. DisplayTypes'
    BY <1>4 DEF Choose, PageInv, DisplayTypes
  <2>2. HistoryKept'
    BY <1>4 DEF Choose, PageInv, HistoryKept
  <2>3. NothingInvented'
    BY <1>4 DEF Choose, NothingInvented
  <2> QED
    BY <2>1, <2>2, <2>3 DEF PageInv
<1>5. CASE ToggleAuto
  BY <1>5 DEF ToggleAuto, PageInv, DisplayTypes, HistoryKept, NothingInvented
<1>6. CASE Elsewhere
  <2>1. /\ had' = had \cup {Extract(reg', Selected)}
        /\ UNCHANGED <<shown, choice, status, read, answer, auto, picked>>
    BY <1>6 DEF Elsewhere, display
  <2> QED
    BY <2>1, HistoryStep DEF PageInv, DisplayTypes
<1>7. ASSUME NEW h \in Handlers, Written(h) PROVE PageInv'
  <2>1. /\ had' = had \cup {Extract(reg', Selected)}
        /\ UNCHANGED <<shown, choice, answer, auto, picked>>
        /\ status' \in {"written", "error"}
    BY <1>7 DEF Written
  <2>2. /\ read' \in [Reads -> {"idle", "sent", "answered", "failed"}]
        /\ \A r \in Reads : read'[r] = "answered" => read[r] = "answered"
    BY <1>7 DEF Written, PageInv, DisplayTypes, Reads
  <2> QED
    BY <2>1, <2>2, HistoryStep
<1>8. ASSUME NEW h \in Handlers,
             \/ \E o \in Controls : Press(h, o)
             \/ PressInvalid(h) \/ Failed(h)
             \/ ReadServed(h) /\ UNCHANGED <<display, had>>
      PROVE  PageInv'
  <2>1. /\ UNCHANGED <<reg, had, shown, choice, read, answer, auto, picked>>
        /\ status' \in {status, "error"}
    BY <1>8 DEF Press, PressInvalid, Failed, Click, BadInput, ReadServed, RequestFails, display
  <2>2. DisplayTypes'
    BY <2>1 DEF PageInv, DisplayTypes
  <2> QED
    BY <2>1, <2>2 DEF PageInv, HistoryKept, NothingInvented
<1>9. CASE UNCHANGED pageVars
  BY <1>9 DEF pageVars, display, PageInv, DisplayTypes, HistoryKept, NothingInvented
<1> QED
  BY <1>1, <1>2, <1>3, <1>4, <1>5, <1>6, <1>7, <1>8, <1>9
     DEF PageNext, Tick, ReadButton, ReadReg, Control, Reads

-----------------------------------------------------------------------------
(* The theorems.                                                           *)

(* The displayed page behaves as the page of WebPage: what timers, reads   *)
(* and the dropdown add restricts or delays clicks and changes no handler. *)
THEOREM DisplayIsPage == PageSpec => Spec
<1>1. PageInit => Init
  BY DEF PageInit
<1> QED
  BY <1>1, PageStepIsStep, PTL DEF PageSpec, Spec

(* The inductive invariant of the display holds in every reachable state.  *)
THEOREM PageInvariance == PageSpec => []PageInv
<1> QED
  BY InitPageInv, PageInvStep, DisplayIsPage, TypeCorrect, PTL DEF PageSpec

(* Type correctness of the page and of what it displays.                   *)
THEOREM DisplayTypeCorrect == PageSpec => []DisplayTypeOK
<1>1. TypeOK /\ PageInv => DisplayTypeOK
  BY DEF PageInv, DisplayTypes, DisplayTypeOK
<1> QED
  BY <1>1, PageInvariance, DisplayIsPage, TypeCorrect, PTL

(* Whatever the order of the answers, Set writes the variant the user has  *)
(* chosen since the last, the value displayed, which the field really had, *)
(* or the first variant before any answer.                                 *)
THEOREM NothingIsInvented == PageSpec => []NothingInvented
<1>1. PageInv => NothingInvented
  BY DEF PageInv
<1> QED
  BY <1>1, PageInvariance, PTL

-----------------------------------------------------------------------------
(* EventuallyLive, as far as it is safety.                                 *)

(* The reads whose answer, already on its way, is no longer true.          *)
Stale == {r \in Reads : read[r] = "answered" /\ answer[r] # reg}

(* While the register rests no answer becomes stale, so that the stale     *)
(* ones run out as they are delivered; and once they have, a page that     *)
(* shows the register's value keeps it, whatever reads are started,        *)
(* refused or lost and whatever the user clicks.                           *)
THEOREM OnlyFreshAnswers ==
  PageSpec => [][reg' = reg => /\ Stale' \subseteq Stale
                               /\ shown = <<reg>> /\ Stale = {} => shown' = <<reg>>]_pageVars
<1> DEFINE A == reg' = reg => /\ Stale' \subseteq Stale
                              /\ shown = <<reg>> /\ Stale = {} => shown' = <<reg>>
<1>1. PageInv /\ [PageNext]_pageVars => [A]_pageVars
  <2> SUFFICES ASSUME PageInv, PageNext, reg' = reg
               PROVE  /\ Stale' \subseteq Stale
                      /\ shown = <<reg>> /\ Stale = {} => shown' = <<reg>>
    OBVIOUS
  <2> USE DEF PageInv, DisplayTypes, Stale
  <2>1. ASSUME NEW r \in Reads, Deliver(r)
        PROVE  Stale' \subseteq Stale /\ (Stale = {} => shown' = <<reg>>)
    BY <2>1 DEF Deliver
  <2>2. ASSUME NEW r \in Reads, StartRead(r) \/ AnswerRead(r) \/ LoseRead(r) \/ DeliverFailure(r)
        PROVE  Stale' \subseteq Stale /\ shown' = shown
    BY <2>2 DEF StartRead, AnswerRead, LoseRead, DeliverFailure
  <2>3. ASSUME NEW h \in Handlers, Control(h)
        PROVE  Stale' \subseteq Stale /\ shown' = shown
    BY <2>3 DEF Control, Press, PressInvalid, Written, Failed, display, Reads
  <2>4. CASE Elsewhere \/ ToggleAuto \/ \E v \in Offered : Choose(v)
    BY <2>4 DEF Elsewhere, ToggleAuto, Choose, display
  <2> QED
    BY <2>1, <2>2, <2>3, <2>4 DEF PageNext, Tick, ReadButton, ReadReg, Reads
<1> QED
  BY <1>1, PageInvariance, PTL DEF PageSpec
=============================================================================
