------------------------------ MODULE MCWebPage ------------------------------
(***************************************************************************)
(* Small instances of WebPage: an interrupt register narrower than the bus *)
(* behind which a wo register is declared, two fields side by side, and a  *)
(* command register behind a status register.                              *)
(***************************************************************************)
EXTENDS WebPage

Field(lo, hi, access) == [lo |-> lo, hi |-> hi, access |-> access]

Nothing == {}

(* The first field of each name.                                           *)
LookupIn(names) == [n \in {names[f] : f \in DOMAIN names} |->
                     CHOOSE f \in DOMAIN names : names[f] = n]

PageWord     == 0 .. 4
PageType     == 0 .. 3
PageFields   == {Field(0, 0, "w1c"), Field(1, 1, "wo"), Field(2, 2, "inherit"), Field(3, 3, "ro")}
PageFlags    == {0}
PageCommands == {1}
PageStatus   == {3}
PageName     == [f \in PageFields |-> <<"done", "start", "mode", "error">>[f.lo + 1]]
PageLookup   == LookupIn(PageName)

(* A number the register's type does not hold.                             *)
PageNumbers  == {{0, 4}}

(* A field the first register does not have, one named like its flag and a *)
(* flag named like its plain field.                                        *)
PageAlias    == {[access |-> "wo", fields |-> {[name |-> "key",  access |-> "inherit"],
                                               [name |-> "done", access |-> "wo"],
                                               [name |-> "mode", access |-> "w1c"]}]}

PairWord     == 0 .. 1
PairFields   == {Field(0, 0, "inherit"), Field(1, 1, "inherit")}
PairName     == [f \in PairFields |-> <<"mode", "level">>[f.lo + 1]]
PairLookup   == LookupIn(PairName)

StatusWord   == 0 .. 1
StatusFields == {Field(0, 0, "inherit")}
StatusBits   == {0}
StatusName   == [f \in StatusFields |-> "ready"]
StatusLookup == LookupIn(StatusName)
CommandAlias == {[access |-> "wo", fields |-> {[name |-> "start", access |-> "inherit"]}]}

(* 0 and 9, which does not fit a field of one bit.                         *)
MCFieldValues == {{}, {0, 3}}
MCRegValues   == {{0}}

MCClosures == {"keep", "zero"}
MCApply(c, w) == IF c = "keep" THEN w ELSE {}
=============================================================================
