----------------------------- MODULE PageDisplay -----------------------------
(***************************************************************************)
(* What one open page shows of the register of WebPage, and the dropdown   *)
(* of one of its fields.                                                   *)
(*                                                                         *)
(* Every readReg is a request of its own: the timer of auto-refresh and    *)
(* the Read button start them without waiting for earlier ones, and each   *)
(* click that wrote the register starts one more.  The answers may arrive  *)
(* in any order; each overwrites the displayed value, the dropdown and the *)
(* status line.                                                            *)
(***************************************************************************)
EXTENDS WebPage, Sequences

CONSTANTS
  Timers,    \* readReg calls of timer and Read button that may be in flight
  Selected,  \* a field that has variants and is the only one of its name ...
  Variants   \* ... and the values of its options, in the order of the declaration

Reads == Timers \cup Handlers

ASSUME DisplayAssumption ==
  /\ Timers \cap Handlers = {}
  /\ Selected \in Settable
  /\ \A f \in Fields : Name[f] = Name[Selected] <=> f = Selected
  /\ Variants \in Seq(FieldValues) \ {<<>>}

VARIABLES
  shown,   \* the displayed value: <<w>>, or <<>> for the initial dash
  choice,  \* the dropdown: <<v>>, or <<>> when it is blank
  status,  \* the status line: "", "written" or "error"
  read,    \* read[r]: "idle", "sent", or its result on the way: "answered", "failed"
  answer,  \* answer[r]: the value an answered read carries
  auto,    \* whether auto-refresh is on
  had,     \* (history) the values the field has had since the page was opened
  picked   \* (history) the variant the user has chosen since an answer set the dropdown

display == <<shown, choice, status, read, answer, auto, picked>>
pageVars == <<vars, display, had>>

Offered == {Variants[i] : i \in DOMAIN Variants}

PageInit == /\ Init
            /\ shown = <<>>
            /\ choice = <<Variants[1]>>
            /\ status = ""
            /\ read = [r \in Reads |-> "idle"]
            /\ answer = [r \in Reads |-> {}]
            /\ auto = FALSE
            /\ had = {Extract(reg, Selected)}
            /\ picked = {}

-----------------------------------------------------------------------------
(* readReg.                                                                *)

(* Some register at the offset can be read, and has a button for it.       *)
Readable == CanRead(RegAccess) \/ \E a \in Aliases : CanRead(a.access)

(* The page has a place for the value of a field of that name.             *)
Displayed ==
  \/ EffectiveAccess(Selected) # "wo"
  \/ \E a \in Aliases : \E f \in a.fields :
       f.name = Name[Selected] /\ Effective(f.access, a.access) # "wo"

StartRead(r) == /\ Readable
                /\ read[r] = "idle"
                /\ read' = [read EXCEPT ![r] = "sent"]
                /\ UNCHANGED <<vars, had, shown, choice, status, answer, auto, picked>>

Tick(r) == auto /\ StartRead(r)

ReadButton(r) == StartRead(r)

ToggleAuto == /\ auto' = ~auto
              /\ UNCHANGED <<vars, had, shown, choice, status, read, answer, picked>>

(* The server refuses to read where all registers are write-only.          *)
AnswerRead(r) ==
  /\ read[r] = "sent"
  /\ IF Readable
       THEN /\ read' = [read EXCEPT ![r] = "answered"]
            /\ answer' = [answer EXCEPT ![r] = reg]
       ELSE /\ read' = [read EXCEPT ![r] = "failed"]
            /\ UNCHANGED answer
  /\ UNCHANGED <<vars, had, shown, choice, status, auto, picked>>

LoseRead(r) == /\ read[r] = "sent"
               /\ read' = [read EXCEPT ![r] = "failed"]
               /\ UNCHANGED <<vars, had, shown, choice, status, answer, auto, picked>>

(* Mutant: an encoding without a variant selects the first one.            *)
DropdownFirst(word_) ==
  LET v == Extract(word_, Selected)
  IN IF ~Displayed THEN choice
     ELSE IF v \in Offered THEN <<v>> ELSE <<Variants[1]>>

(* Mutant: the value is selected whether or not a variant has it.          *)
DropdownUnchecked(word_) ==
  IF Displayed THEN <<Extract(word_, Selected)>> ELSE choice

(* What updateBitfields makes of the dropdown: blank if no variant has the *)
(* value, and nothing at all if no field of the name is displayed.         *)
Dropdown(word_) ==
  LET v == Extract(word_, Selected)
  IN IF ~Displayed THEN choice
     ELSE IF v \in Offered THEN <<v>> ELSE <<>>

(* Mutant: only a first answer is displayed.                               *)
DeliverOnce(r) == /\ read[r] = "answered"
                  /\ shown' = IF shown = <<>> THEN <<answer[r]>> ELSE shown
                  /\ choice' = Dropdown(answer[r])
                  /\ picked' = IF Displayed THEN {} ELSE picked
                  /\ status' = ""
                  /\ read' = [read EXCEPT ![r] = "idle"]
                  /\ answer' = [answer EXCEPT ![r] = {}]
                  /\ UNCHANGED <<vars, had, auto>>

Deliver(r) == /\ read[r] = "answered"
              /\ shown' = <<answer[r]>>
              /\ choice' = Dropdown(answer[r])
              /\ picked' = IF Displayed THEN {} ELSE picked
              /\ status' = ""
              /\ read' = [read EXCEPT ![r] = "idle"]
              /\ answer' = [answer EXCEPT ![r] = {}]
              /\ UNCHANGED <<vars, had, auto>>

DeliverFailure(r) == /\ read[r] = "failed"
                     /\ status' = "error"
                     /\ read' = [read EXCEPT ![r] = "idle"]
                     /\ UNCHANGED <<vars, had, shown, choice, answer, auto, picked>>

ReadReg(r) == AnswerRead(r) \/ LoseRead(r) \/ Deliver(r) \/ DeliverFailure(r)

-----------------------------------------------------------------------------
(* The controls, and what they leave on the page.                          *)

Choose(v) == /\ choice' = <<v>>
             /\ picked' = {v}
             /\ UNCHANGED <<vars, had, shown, status, read, answer, auto>>

FromDropdown(o) == o.kind = "set_field" /\ o.name = Name[Selected]

(* Set takes the value in the dropdown; the other controls have inputs.    *)
Press(h, o) == /\ read[h] = "idle"
               /\ FromDropdown(o) => choice = <<o.value>>
               /\ Click(h, o)
               /\ UNCHANGED <<display, had>>

(* A blank dropdown or a bad input is no number.                           *)
PressInvalid(h) == /\ read[h] = "idle"
                   /\ BadInput(h)
                   /\ status' = "error"
                   /\ UNCHANGED <<shown, choice, read, answer, auto, picked, had>>

(* writeReg reads back any register, updateField those that can be read.   *)
ReadsBack(o) == o.kind = "set_reg" \/ CanRead(RegAccess)

Written(h) ==
  /\ WriteServed(h)
  /\ IF outcome'[h] = "written"
       THEN /\ status' = "written"
            /\ read' = [read EXCEPT ![h] = IF ReadsBack(op[h]) THEN "sent" ELSE "idle"]
       ELSE /\ status' = "error"
            /\ UNCHANGED read
  /\ had' = had \cup {Extract(reg', Selected)}
  /\ UNCHANGED <<shown, choice, answer, auto, picked>>

Failed(h) == /\ RequestFails(h)
             /\ status' = "error"
             /\ UNCHANGED <<shown, choice, read, answer, auto, picked, had>>

Control(h) == \/ \E o \in Controls : Press(h, o)
              \/ PressInvalid(h) \/ Written(h) \/ Failed(h)
              \/ ReadServed(h) /\ UNCHANGED <<display, had>>

(* The rest of the world.                                                  *)
Elsewhere == /\ Rust \/ Hardware
             /\ had' = had \cup {Extract(reg', Selected)}
             /\ UNCHANGED display

PageNext == \/ \E r \in Timers : Tick(r) \/ ReadButton(r)
            \/ \E r \in Reads : ReadReg(r)
            \/ \E h \in Handlers : Control(h)
            \/ \E v \in Offered : Choose(v)
            \/ ToggleAuto \/ Elsewhere

PageSpec == PageInit /\ [][PageNext]_pageVars

(* The browser fires the timer and runs the handlers of what has arrived,  *)
(* and a request is answered or fails.                                     *)
Browser ==
  /\ \A r \in Timers : WF_pageVars(Tick(r))
  /\ \A r \in Reads : /\ WF_pageVars(AnswerRead(r) \/ LoseRead(r))
                      /\ WF_pageVars(Deliver(r)) /\ WF_pageVars(DeliverFailure(r))

(* Not every request is lost.                                              *)
ServerAnswers == \A r \in Reads : SF_pageVars(AnswerRead(r))

FairPageSpec == PageSpec /\ Browser

-----------------------------------------------------------------------------
(* Properties.                                                             *)

(* Type invariant, with that of WebPage.                                   *)
DisplayTypeOK ==
  /\ TypeOK
  /\ shown \in {<<>>} \cup {<<w>> : w \in SUBSET Word}
  /\ choice \in {<<>>} \cup {<<v>> : v \in Offered}
  /\ status \in {"", "written", "error"}
  /\ read \in [Reads -> {"idle", "sent", "answered", "failed"}]
  /\ answer \in [Reads -> SUBSET Word]
  /\ auto \in BOOLEAN
  /\ had \subseteq SUBSET (0 .. Selected.hi - Selected.lo)
  /\ picked \subseteq Offered

(* At whatever moment answers overwrite the dropdown (the assignment to    *)
(* sel.value in updateBitfields), what Set would write is the variant the  *)
(* user has chosen since, or the value that is displayed beside it, which  *)
(* the field really had; only before the first answer it can be the first  *)
(* variant, which nobody chose.                                            *)
NothingInvented ==
  choice # <<>> =>
    choice[1] \in picked \cup IF shown = <<>> \/ ~Displayed
                                THEN {Variants[1]} ELSE had \cap {Extract(shown[1], Selected)}

(* Once the register rests, a page with auto-refresh on shows its value    *)
(* and stays with it, although older answers may still arrive (readReg).   *)
EventuallyLive ==
  ServerAnswers /\ <>[]auto /\ <>[][reg' = reg]_pageVars => <>[](shown = <<reg>>)
=============================================================================
