--------------------------- MODULE SettingsStore ----------------------------
(***************************************************************************)
(* The settings and the EEPROM: the three handlers that publish the        *)
(* controller's target, speed and mode, the logger that writes them page   *)
(* by page, and a boot that reads them back, with the power failing at any *)
(* moment.                                                                 *)
(*                                                                         *)
(* A page holds a value or, when its CRC does not match, Bad.  Power that  *)
(* fails while a page is programmed leaves the old value, the new one or   *)
(* Bad (EepromPage says how far that is so), and a transaction on the bus  *)
(* may fail unnoticed.  Targets are whole numbers.  Delays are not counted. *)
(***************************************************************************)
EXTENDS Rtos

CONSTANTS
  Targets, Speeds,  \* targets and speeds that are chosen
  Bad,        \* what a page holds when its CRC does not match
  QueueLen,   \* places in reading_queue (10)
  MaxEvents   \* bound: changes, power failures and failed transactions

Settings == {"target", "speed", "mode"}

Values == [target |-> Targets, speed |-> Speeds \cup {0}, mode |-> {0, 1}]

ASSUME StoreAssumption ==
  /\ Targets \subseteq Nat /\ Speeds \subseteq Nat
  /\ Bad \notin Nat
  /\ QueueLen \in Nat /\ MaxEvents \in Nat

VARIABLES
  page,       \* what each page of the EEPROM holds
  setting,    \* the controller's co2_target, speed and manual_mode
  boot,       \* where setup_task is: "wiring", "restore", "done"
  pc,         \* where eeprom_task is: "fetch", "receive", or the page it writes
  fetched,    \* the logger's *_return_val
  local,      \* eeprom_task's co2_target, fan_speed and mode
  queue,      \* reading_queue
  events,     \* changes, power failures and failed transactions so far
  had,        \* history: the values each setting has had
  seen        \* history: the settings received since power-on

vars == <<page, setting, boot, pc, fetched, local, queue, events, had, seen>>

Zeros == [k \in Settings |-> 0]

(* Members and locals after power-on; the target is not initialised.       *)
FreshSettings == {[target |-> t, speed |-> 0, mode |-> 0] : t \in Targets}

Init ==
  /\ page \in [Settings -> {0, 1, Bad} \cup Targets \cup Speeds]
  /\ \A k \in Settings : page[k] \in Values[k] \cup {Bad}
  /\ setting \in FreshSettings
  /\ boot = "wiring" /\ pc = "fetch"
  /\ fetched = Zeros /\ local = Zeros
  /\ queue = << >>
  /\ events = 0
  /\ had = [k \in Settings |-> {setting[k]}]
  /\ seen = {}

Event == events < MaxEvents /\ events' = events + 1

(* The settings become s, and the history notes their values.              *)
Assign(s) ==
  /\ setting' = s
  /\ had' = [k \in Settings |-> had[k] \cup {s[k]}]

-----------------------------------------------------------------------------
(* The controller                                                          *)

(* A command, or automatic control, changes a setting.                     *)
Change ==
  /\ Event
  /\ \E k \in Settings : \E v \in Values[k] : Assign([setting EXCEPT ![k] = v])
  /\ UNCHANGED <<page, boot, pc, fetched, local, queue, seen>>

(* get_reading and send_reading of a FanCtrlReadHandler; the logger has    *)
(* subscribed at the end of setup_task's wiring.                           *)
Publish(k) ==
  /\ boot # "wiring"
  /\ queue' = SendNoWait(queue, QueueLen, <<k, setting[k]>>)
  /\ UNCHANGED <<page, setting, boot, pc, fetched, local, events, had, seen>>

-----------------------------------------------------------------------------
(* setup_task                                                              *)

Subscribe ==
  /\ boot = "wiring" /\ boot' = "restore"
  /\ UNCHANGED <<page, setting, pc, fetched, local, queue, events, had, seen>>

(* The controller is given the fetched values when is_done is set: the     *)
(* speed only in manual mode.                                              *)
Restore ==
  /\ boot = "restore" /\ boot' = "done"
  /\ pc # "fetch"
  /\ Assign([fetched EXCEPT !["speed"] =
               IF fetched["mode"] # 0 THEN @ ELSE setting["speed"]])
  /\ UNCHANGED <<page, pc, fetched, local, queue, events, seen>>

-----------------------------------------------------------------------------
(* eeprom_task                                                             *)

Default == [Zeros EXCEPT !["mode"] = 1]

Verified(p, k) == IF p[k] = Bad THEN Default[k] ELSE p[k]

(* fetchData; a page that cannot be read comes back as zeros, which do not *)
(* verify either.                                                          *)
Fetch(p) ==
  /\ pc = "fetch" /\ pc' = "receive"
  /\ fetched' = [k \in Settings |-> Verified(p, k)]
  /\ UNCHANGED <<page, setting, boot, local, queue, had, seen>>

FetchAll == Fetch(page) /\ UNCHANGED events

(* Each of the three reads may fail by itself.                             *)
Unread(S) == [k \in Settings |-> IF k \in S THEN Bad ELSE page[k]]

FetchFails == \E S \in (SUBSET Settings) \ {{}} : Event /\ Fetch(Unread(S))

\* mutant: mode is kept where the speed should be
KeepWrongly(k, v) == [local EXCEPT ![IF k = "mode" THEN "speed" ELSE k] = v]

Keep(k, v) == [local EXCEPT ![k] = v]

Receive ==
  /\ pc = "receive" /\ queue # << >>
  /\ LET k == Head(queue)[1]
         v == Head(queue)[2]
     IN  local' = Keep(k, v) /\ seen' = seen \cup {k}
  /\ queue' = Tail(queue)
  /\ pc' = "target"
  /\ UNCHANGED <<page, setting, boot, fetched, events, had>>

Taken(k) == Receive /\ Head(queue)[1] = k

\* mutant: the last page is not written
SkipMode == [target |-> "speed", speed |-> "receive", mode |-> "receive"]

\* the order in which storeData writes the pages
AfterPage == [target |-> "speed", speed |-> "mode", mode |-> "receive"]

WritePage ==
  /\ pc \in Settings
  /\ page' = [page EXCEPT ![pc] = local[pc]]
  /\ pc' = AfterPage[pc]
  /\ UNCHANGED <<setting, boot, fetched, local, queue, events, had, seen>>

\* the result of the transaction is not looked at
WriteFails ==
  /\ Event
  /\ pc \in Settings
  /\ pc' = AfterPage[pc]
  /\ UNCHANGED <<page, setting, boot, fetched, local, queue, had, seen>>

-----------------------------------------------------------------------------
(* The power fails and comes back.  A page being written may be torn.      *)
CutOff(k) == {[page EXCEPT ![k] = b] : b \in {local[k], Bad}}

PowerFails ==
  /\ Event
  /\ page' \in {page} \cup UNION {CutOff(k) : k \in Settings \cap {pc}}
  /\ setting' \in FreshSettings
  /\ had' = [k \in Settings |-> had[k] \cup {setting'[k]}]
  /\ boot' = "wiring" /\ pc' = "fetch"
  /\ fetched' = Zeros /\ local' = Zeros
  /\ queue' = << >>
  /\ seen' = {}

Logger == FetchAll \/ Receive \/ WritePage

Next ==
  \/ Change
  \/ \E k \in Settings : Publish(k)
  \/ Subscribe \/ Restore
  \/ Logger \/ FetchFails \/ WriteFails
  \/ PowerFails

Spec == Init /\ [][Next]_vars

(* Tasks that can run are run.  Three handlers compete for the places that *)
(* the logger frees, one in five seconds, and none of them waits for one:  *)
(* a handler whose turn always finds the queue full is dropped for ever.   *)
FairSpec ==
  /\ Spec
  /\ WF_vars(Subscribe) /\ WF_vars(Restore) /\ WF_vars(Logger)
  /\ \A k \in Settings : WF_vars(Publish(k))

-----------------------------------------------------------------------------
Numbers == {0, 1} \cup Targets \cup Speeds

(* Every variable has its type; whatever fails, the queue keeps to its     *)
(* length.                                                                 *)
TypeOK ==
  /\ page \in [Settings -> Numbers \cup {Bad}]
  /\ setting \in [Settings -> Numbers]
  /\ boot \in {"wiring", "restore", "done"}
  /\ pc \in {"fetch", "receive"} \cup Settings
  /\ fetched \in [Settings -> Numbers] /\ local \in [Settings -> Numbers]
  /\ queue \in Seq(Settings \X Numbers) /\ Len(queue) <= QueueLen
  /\ events \in 0..MaxEvents
  /\ had \in [Settings -> SUBSET Numbers] /\ seen \subseteq Settings

(* What is restored of the settings: until the logger has fetched them,    *)
(* what the pages hold.                                                    *)
Kept == IF pc = "fetch" THEN [k \in Settings |-> Verified(page, k)] ELSE fetched

Durable == INSTANCE DurableSettings
             WITH Fresh <- FreshSettings, heard <- seen, kept <- Kept,
                  booted <- (boot = "done")

(* The logger, its queue and the boot implement DurableSettings: whatever  *)
(* fails between two steps, a page receives only what its setting has      *)
(* been, or does not verify, or is the zero that eeprom_task starts with;  *)
(* and a boot restores what the pages held when the power came back, which *)
(* the logger may be overwriting by then.                                  *)
DurableSpec == Durable!Spec

(* Once nothing changes or fails any more, the EEPROM comes to hold every  *)
(* setting whose readings still get a place in the queue, so that the next *)
(* power failure does not lose it, even if those of the other two are      *)
(* dropped for ever; and one of the three does get places.                 *)
SettingsAreStored ==
  /\ \E k \in Settings : []<><<Taken(k)>>_vars
  /\ \A k \in Settings : []<><<Taken(k)>>_vars => <>[](page[k] = setting[k])
=============================================================================
