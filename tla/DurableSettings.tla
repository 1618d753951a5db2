-------------------------- MODULE DurableSettings ---------------------------
(***************************************************************************)
(* What the EEPROM and its logger promise about the controller's settings, *)
(* without queue, tasks and the order of the pages: a page is written with *)
(* what its setting has been, and a boot restores each setting from what   *)
(* its page held when the power came back, or from the default.            *)
(*                                                                         *)
(* The exception is the zero that the logger starts with: it may reach the *)
(* page of a setting that the logger has not heard of since power-on.      *)
(***************************************************************************)
EXTENDS Naturals

CONSTANTS
  Settings,  \* the settings, "speed" and "mode" among them
  Values,    \* the values of each setting
  Fresh,     \* the settings as they may be after power-on
  Default,   \* what is restored of a page that does not verify
  Bad        \* what such a page holds

VARIABLES
  page,      \* what each page holds
  setting,   \* the controller's settings
  had,       \* the values each setting has had
  heard,     \* the settings that the logger has heard of since power-on
  kept,      \* what the boot is going to restore
  booted     \* the boot has done so

durableVars == <<page, setting, had, heard, kept, booted>>

\* what a boot makes of the pages p
Readable(p) == [k \in Settings |-> IF p[k] = Bad THEN Default[k] ELSE p[k]]

Init ==
  /\ \A k \in Settings : page[k] \in Values[k] \cup {Bad}
  /\ setting \in Fresh
  /\ had = [k \in Settings |-> {setting[k]}]
  /\ heard = {}
  /\ kept = Readable(page) /\ booted = FALSE

Assign(s) ==
  /\ setting' = s
  /\ had' = [k \in Settings |-> had[k] \cup {s[k]}]

Choose(k) ==
  /\ \E v \in Values[k] : Assign([setting EXCEPT ![k] = v])
  /\ UNCHANGED <<page, heard, kept, booted>>

Hear(k) ==
  /\ heard' = heard \cup {k}
  /\ UNCHANGED <<page, setting, had, kept, booted>>

\* what the logger may write to page k
Storable(k) == had[k] \cup IF k \in heard THEN {} ELSE {0}

Store(k) ==
  /\ \E v \in Storable(k) : page' = [page EXCEPT ![k] = v]
  /\ UNCHANGED <<setting, had, heard, kept, booted>>

(* Some pages are not read as they are.                                    *)
Misread(S) ==
  /\ ~booted
  /\ kept' = [k \in Settings |-> IF k \in S THEN Default[k] ELSE kept[k]]
  /\ UNCHANGED <<page, setting, had, heard, booted>>

(* The speed is restored only in manual mode.                              *)
Restore ==
  /\ ~booted /\ booted' = TRUE
  /\ Assign([kept EXCEPT !["speed"] = IF kept["mode"] # 0 THEN @ ELSE setting["speed"]])
  /\ UNCHANGED <<page, heard, kept>>

(* The power fails and comes back; the page under way may be torn.         *)
PowerFails ==
  /\ \/ page' = page
     \/ \E k \in Settings : \E v \in Storable(k) \cup {Bad} : page' = [page EXCEPT ![k] = v]
  /\ \E s \in Fresh : Assign(s)
  /\ heard' = {}
  /\ kept' = Readable(page') /\ booted' = FALSE

Next ==
  \/ \E k \in Settings : Choose(k) \/ Hear(k) \/ Store(k)
  \/ \E S \in SUBSET Settings : Misread(S)
  \/ Restore \/ PowerFails

Spec == Init /\ [][Next]_durableVars
=============================================================================
