------------------------ MODULE SettingsStoreProofs -------------------------
(***************************************************************************)
(* Proofs about SettingsStore, for all targets and speeds, every length of *)
(* the queue and any number of changes, failures and restarts.             *)
(***************************************************************************)
EXTENDS SettingsStore, TLAPS

(* Why a page holds what its setting has been: so does everything on the   *)
(* way to it, the settings, the queue, and the locals of eeprom_task from  *)
(* the first reading on.                                                   *)
SettingsNoted == \A k \in Settings : setting[k] \in had[k]

QueueNoted ==
  \A i \in 1..Len(queue) : queue[i][1] \in Settings /\ queue[i][2] \in had[queue[i][1]]

LocalsNoted == \A k \in Settings : IF k \in seen THEN local[k] \in had[k] ELSE local[k] = 0

Noted ==
  /\ setting \in [Settings -> Numbers] /\ local \in [Settings -> Numbers]
  /\ fetched \in [Settings -> Numbers]
  /\ page \in [Settings -> Numbers \cup {Bad}]
  /\ had \in [Settings -> SUBSET Numbers]
  /\ queue \in Seq(Settings \X Numbers)
  /\ SettingsNoted /\ QueueNoted /\ LocalsNoted

(* The history only grows, so what has been noted stays noted.             *)
LEMMA NotedStays ==
  ASSUME Noted, had' \in [Settings -> SUBSET Numbers],
         \A k \in Settings : had[k] \subseteq had'[k]
  PROVE  /\ UNCHANGED queue => QueueNoted'
         /\ UNCHANGED <<local, seen>> => LocalsNoted'
BY DEF Noted, QueueNoted, LocalsNoted

LEMMA AssignNotes ==
  ASSUME Noted, NEW s \in [Settings -> Numbers], Assign(s)
  PROVE  /\ setting' \in [Settings -> Numbers] /\ SettingsNoted'
         /\ had' \in [Settings -> SUBSET Numbers]
         /\ \A k \in Settings : had[k] \subseteq had'[k]
BY DEF Noted, Assign, SettingsNoted

LEMMA ValuesAreNumbers == \A k \in Settings : Values[k] \subseteq Numbers
<1>1. Values["target"] \subseteq Numbers
  BY DEF Values, Numbers
<1>2. Values["speed"] \subseteq Numbers
  BY DEF Values, Numbers
<1>3. Values["mode"] \subseteq Numbers
  BY DEF Values, Numbers
<1>4. QED
  BY <1>1, <1>2, <1>3 DEF Settings

LEMMA FreshAreNumbers == FreshSettings \subseteq [Settings -> Numbers]
BY DEF FreshSettings, Settings, Numbers

LEMMA ZerosAreNumbers == Zeros \in [Settings -> Numbers] /\ \A k \in Settings : Zeros[k] = 0
BY DEF Zeros, Numbers

LEMMA InitNoted == Init => Noted
<1> SUFFICES ASSUME Init PROVE Noted
  OBVIOUS
<1>1. setting \in [Settings -> Numbers]
  BY FreshAreNumbers DEF Init
<1>2. page \in [Settings -> Numbers \cup {Bad}]
  BY DEF Init, Numbers
<1>3. had \in [Settings -> SUBSET Numbers] /\ SettingsNoted
  BY <1>1 DEF Init, SettingsNoted
<1>4. queue \in Seq(Settings \X Numbers) /\ QueueNoted
  BY DEF Init, QueueNoted
<1>5. fetched \in [Settings -> Numbers] /\ local \in [Settings -> Numbers] /\ LocalsNoted
  BY ZerosAreNumbers DEF Init, LocalsNoted
<1>6. QED
  BY <1>1, <1>2, <1>3, <1>4, <1>5 DEF Noted

LEMMA StepNoted == Noted /\ [Next]_vars => Noted'
<1> SUFFICES ASSUME Noted, [Next]_vars PROVE Noted'
  OBVIOUS
<1>1. CASE Change
  <2>0. PICK k \in Settings : \E v \in Values[k] : Assign([setting EXCEPT ![k] = v])
    BY <1>1 DEF Change
  <2>1. PICK v \in Values[k] : Assign([setting EXCEPT ![k] = v])
    BY <2>0
  <2>2. [setting EXCEPT ![k] = v] \in [Settings -> Numbers]
    BY ValuesAreNumbers DEF Noted
  <2>3. UNCHANGED <<page, fetched, local, queue, seen>>
    BY <1>1 DEF Change
  <2>4. QED
    BY <2>1, <2>2, <2>3, AssignNotes, NotedStays DEF Noted
<1>2. ASSUME NEW k \in Settings, Publish(k) PROVE Noted'
  <2>1. /\ queue' = SendNoWait(queue, QueueLen, <<k, setting[k]>>)
        /\ UNCHANGED <<page, setting, fetched, local, had, seen>>
    BY <1>2 DEF Publish
  <2>2. setting[k] \in had[k] /\ <<k, setting[k]>> \in Settings \X Numbers
    BY DEF Noted, SettingsNoted
  <2>3. queue' \in Seq(Settings \X Numbers) /\ QueueNoted'
    <3>1. CASE queue' = queue
      BY <2>1, <3>1 DEF Noted, QueueNoted
    <3>2. CASE queue' = Append(queue, <<k, setting[k]>>)
      <4>1. /\ queue' \in Seq(Settings \X Numbers) /\ Len(queue') = Len(queue) + 1
            /\ queue'[Len(queue) + 1] = <<k, setting[k]>>
            /\ \A i \in 1..Len(queue) : queue'[i] = queue[i]
        BY <2>2, <3>2 DEF Noted
      <4>2. \A i \in 1..Len(queue') : i \in 1..Len(queue) \/ i = Len(queue) + 1
        BY <4>1 DEF Noted
      <4>3. ASSUME NEW i \in 1..Len(queue')
            PROVE  queue'[i][1] \in Settings /\ queue'[i][2] \in had[queue'[i][1]]
        <5>1. CASE i \in 1..Len(queue)
          BY <4>1, <5>1 DEF Noted, QueueNoted
        <5>2. CASE i = Len(queue) + 1
          BY <2>2, <4>1, <5>2
        <5>3. QED
          BY <4>2, <5>1, <5>2
      <4>4. QED
        BY <2>1, <4>1, <4>3 DEF QueueNoted
    <3>3. QED
      BY <2>1, <3>1, <3>2 DEF SendNoWait
  <2>5. SettingsNoted' /\ LocalsNoted'
    BY <2>1 DEF Noted, SettingsNoted, LocalsNoted
  <2>6. QED
    BY <2>1, <2>3, <2>5 DEF Noted
<1>3. CASE Subscribe
  BY <1>3 DEF Subscribe, Noted, SettingsNoted, QueueNoted, LocalsNoted
<1>4. CASE Restore
  <2> DEFINE s == [fetched EXCEPT !["speed"] =
                     IF fetched["mode"] # 0 THEN @ ELSE setting["speed"]]
  <2>1. Assign(s) /\ UNCHANGED <<page, fetched, local, queue, seen>>
    BY <1>4 DEF Restore
  <2>2. s \in [Settings -> Numbers]
    BY DEF Noted, Settings
  <2>3. QED
    BY <2>1, <2>2, AssignNotes, NotedStays DEF Noted
<1>5. ASSUME NEW p \in [Settings -> Numbers \cup {Bad}], Fetch(p) PROVE Noted'
  <2>1. \A k \in Settings : Verified(p, k) \in Numbers
    BY ZerosAreNumbers DEF Verified, Default, Numbers
  <2>2. fetched' \in [Settings -> Numbers]
    BY <1>5, <2>1 DEF Fetch
  <2>3. QED
    BY <1>5, <2>2 DEF Fetch, Noted, SettingsNoted, QueueNoted, LocalsNoted
<1>6. CASE Receive
  <2> DEFINE k == Head(queue)[1]
             v == Head(queue)[2]
  <2>1. /\ queue # << >> /\ queue' = Tail(queue)
        /\ local' = [local EXCEPT ![k] = v] /\ seen' = seen \cup {k}
        /\ UNCHANGED <<page, setting, fetched, had>>
    BY <1>6 DEF Receive, Keep
  <2>2. Head(queue) = queue[1] /\ 1 \in 1..Len(queue) /\ queue[1] \in Settings \X Numbers
    BY <2>1 DEF Noted
  <2>3. k \in Settings /\ v \in Numbers /\ v \in had[k]
    BY <2>2 DEF Noted, QueueNoted
  <2>4. local' \in [Settings -> Numbers] /\ LocalsNoted'
    BY <2>1, <2>3 DEF Noted, LocalsNoted
  <2>5. /\ queue' \in Seq(Settings \X Numbers)
        /\ \A i \in 1..Len(queue') : i + 1 \in 1..Len(queue) /\ queue'[i] = queue[i + 1]
    BY <2>1 DEF Noted
  <2>6. QueueNoted' /\ SettingsNoted'
    BY <2>1, <2>5 DEF Noted, QueueNoted, SettingsNoted
  <2>7. QED
    BY <2>1, <2>4, <2>5, <2>6 DEF Noted
<1>7. CASE WritePage
  <2>1. page' \in [Settings -> Numbers \cup {Bad}]
    BY <1>7 DEF WritePage, Noted
  <2>2. QED
    BY <1>7, <2>1 DEF WritePage, Noted, SettingsNoted, QueueNoted, LocalsNoted
<1>8. CASE WriteFails
  BY <1>8 DEF WriteFails, Noted, SettingsNoted, QueueNoted, LocalsNoted
<1>9. CASE PowerFails
  <2>1. page' \in [Settings -> Numbers \cup {Bad}]
    <3>1. CASE page' = page
      BY <3>1 DEF Noted
    <3>2. ASSUME NEW k \in Settings, page' \in CutOff(k)
          PROVE  page' \in [Settings -> Numbers \cup {Bad}]
      BY <3>2 DEF CutOff, Noted
    <3>3. QED
      BY <1>9, <3>1, <3>2 DEF PowerFails
  <2>2. setting' \in [Settings -> Numbers]
    BY <1>9, FreshAreNumbers DEF PowerFails
  <2>3. had' \in [Settings -> SUBSET Numbers] /\ SettingsNoted'
    BY <1>9, <2>2 DEF PowerFails, Noted, SettingsNoted
  <2>4. queue' = << >> /\ QueueNoted'
    BY <1>9 DEF PowerFails, QueueNoted
  <2>5. fetched' \in [Settings -> Numbers] /\ local' \in [Settings -> Numbers] /\ LocalsNoted'
    BY <1>9, ZerosAreNumbers DEF PowerFails, LocalsNoted
  <2>6. QED
    BY <2>1, <2>2, <2>3, <2>4, <2>5 DEF Noted
<1>10. CASE UNCHANGED vars
  BY <1>10 DEF vars, Noted, SettingsNoted, QueueNoted, LocalsNoted
<1>11. QED
  <2>1. CASE FetchAll
    BY <2>1, <1>5 DEF FetchAll, Noted
  <2>2. CASE FetchFails
    <3>1. PICK S \in SUBSET Settings : Fetch(Unread(S))
      BY <2>2 DEF FetchFails
    <3>2. Unread(S) \in [Settings -> Numbers \cup {Bad}]
      BY DEF Noted, Unread
    <3>3. QED
      BY <3>1, <3>2, <1>5
  <2>3. QED
    BY <1>1, <1>2, <1>3, <1>4, <1>6, <1>7, <1>8, <1>9, <1>10, <2>1, <2>2 DEF Next, Logger

(* A boot is done only when the logger has fetched the pages.              *)
FetchedFirst == boot = "done" => pc # "fetch"

LEMMA StepFetchedFirst == FetchedFirst /\ [Next]_vars => FetchedFirst'
<1> SUFFICES ASSUME FetchedFirst, [Next]_vars PROVE FetchedFirst'
  OBVIOUS
<1> USE DEF FetchedFirst
<1>1. CASE Change \/ (\E k \in Settings : Publish(k)) \/ Subscribe \/ Restore
  BY <1>1 DEF Change, Publish, Subscribe, Restore
<1>2. CASE FetchAll \/ FetchFails
  BY <1>2 DEF FetchAll, FetchFails, Fetch
<1>3. CASE Receive \/ PowerFails
  BY <1>3 DEF Receive, PowerFails
<1>4. CASE WritePage \/ WriteFails
  BY <1>4 DEF WritePage, WriteFails, AfterPage, Settings
<1>5. CASE UNCHANGED vars
  BY <1>5 DEF vars
<1>6. QED
  BY <1>1, <1>2, <1>3, <1>4, <1>5 DEF Next, Logger

(* What eeprom_task would write, it may write.                            *)
LEMMA LocalsStorable == Noted => \A k \in Settings : local[k] \in Durable!Storable(k)
BY DEF Noted, LocalsNoted, Durable!Storable

LEMMA KeptIsReadable == pc = "fetch" => Kept = Durable!Readable(page)
BY DEF Kept, Verified, Durable!Readable

(* Whatever changes and fails, every step is one that DurableSettings      *)
(* allows or changes nothing there: a page receives what its setting has   *)
(* been, is torn, or gets the initial zero of a setting of which nothing   *)
(* has been received since power-on, because eeprom_task's locals hold     *)
(* nothing else; and a boot restores what the pages held at power-on.      *)
THEOREM StoreIsDurable == Spec => DurableSpec
<1>1. Init => Durable!Init
  BY KeptIsReadable DEF Init, Durable!Init
<1>2. Noted /\ FetchedFirst /\ [Next]_vars => [Durable!Next]_Durable!durableVars
  <2> SUFFICES ASSUME Noted, FetchedFirst, [Next]_vars
               PROVE  \/ Durable!Next
                      \/ UNCHANGED <<page, setting, had, seen, Kept, boot = "done">>
    BY DEF Durable!durableVars
  <2>1. CASE Change
    <3>1. PICK k \in Settings : \E v \in Values[k] : Assign([setting EXCEPT ![k] = v])
      BY <2>1 DEF Change
    <3>2. UNCHANGED <<page, seen, Kept, boot>>
      BY <2>1 DEF Change, Kept
    <3>3. Durable!Choose(k)
      BY <3>1, <3>2 DEF Assign, Durable!Choose, Durable!Assign
    <3>4. QED
      BY <3>3 DEF Durable!Next
  <2>2. CASE (\E k \in Settings : Publish(k)) \/ Subscribe \/ UNCHANGED vars
    BY <2>2 DEF Publish, Subscribe, vars, Kept
  <2>3. CASE Restore
    <3>1. /\ boot # "done" /\ boot' = "done" /\ Kept = fetched /\ Kept' = fetched
          /\ Assign([fetched EXCEPT !["speed"] =
                       IF fetched["mode"] # 0 THEN @ ELSE setting["speed"]])
          /\ UNCHANGED <<page, seen>>
      BY <2>3 DEF Restore, Kept
    <3>2. QED
      BY <3>1 DEF Assign, Durable!Restore, Durable!Assign, Durable!Next
  <2>4. CASE FetchAll
    <3>1. Kept' = Kept
      BY <2>4 DEF FetchAll, Fetch, Kept
    <3>2. QED
      BY <2>4, <3>1 DEF FetchAll, Fetch
  <2>5. CASE FetchFails
    <3>1. PICK S \in SUBSET Settings : Fetch(Unread(S))
      BY <2>5 DEF FetchFails
    <3>2. Kept' = [j \in Settings |-> IF j \in S THEN Default[j] ELSE Kept[j]]
      <4>1. Kept = [j \in Settings |-> Verified(page, j)]
        BY <3>1 DEF Fetch, Kept
      <4>2. Kept' = [j \in Settings |-> Verified(Unread(S), j)]
        BY <3>1 DEF Fetch, Kept
      <4>3. ASSUME NEW j \in Settings
            PROVE  Verified(Unread(S), j) =
                     IF j \in S THEN Default[j] ELSE Verified(page, j)
        BY DEF Verified, Unread
      <4>4. QED
        BY <4>1, <4>2, <4>3
    <3>3. boot # "done" /\ UNCHANGED <<page, setting, boot, had, seen>>
      BY <3>1 DEF Fetch, FetchedFirst
    <3>4. QED
      BY <3>2, <3>3 DEF Durable!Misread, Durable!Next
  <2>6. CASE Receive
    <3>1. /\ seen' = seen \cup {Head(queue)[1]} /\ queue # << >>
          /\ UNCHANGED <<page, setting, boot, had, Kept>>
      BY <2>6 DEF Receive, Kept
    <3>2. Head(queue)[1] \in Settings
      BY <3>1 DEF Noted
    <3>3. Durable!Hear(Head(queue)[1])
      BY <3>1 DEF Durable!Hear
    <3>4. QED
      BY <3>2, <3>3 DEF Durable!Next
  <2>7. CASE WritePage
    <3>1. /\ pc \in Settings /\ page' = [page EXCEPT ![pc] = local[pc]]
          /\ UNCHANGED <<setting, boot, had, seen>>
      BY <2>7 DEF WritePage
    <3>2. UNCHANGED Kept
      BY <2>7 DEF WritePage, AfterPage, Settings, Kept
    <3>3. Durable!Store(pc)
      BY <3>1, <3>2, LocalsStorable DEF Durable!Store
    <3>4. QED
      BY <3>1, <3>3 DEF Durable!Next
  <2>8. CASE WriteFails
    <3>1. UNCHANGED Kept
      BY <2>8 DEF WriteFails, AfterPage, Settings, Kept
    <3>2. QED
      BY <2>8, <3>1 DEF WriteFails
  <2>9. CASE PowerFails
    <3>1. \/ page' = page
          \/ \E k \in Settings : \E v \in Durable!Storable(k) \cup {Bad} :
               page' = [page EXCEPT ![k] = v]
      BY <2>9, LocalsStorable DEF PowerFails, CutOff
    <3>2. /\ \E s \in FreshSettings : Durable!Assign(s)
          /\ seen' = {} /\ boot' # "done" /\ pc' = "fetch"
      BY <2>9 DEF PowerFails, Durable!Assign
    <3>3. Kept' = Durable!Readable(page')
      BY <3>2 DEF Kept, Verified, Durable!Readable
    <3>4. Durable!PowerFails
      BY <3>1, <3>2, <3>3 DEF Durable!PowerFails
    <3>5. QED
      BY <3>4 DEF Durable!Next
  <2>10. QED
    BY <2>1, <2>2, <2>3, <2>4, <2>5, <2>6, <2>7, <2>8, <2>9 DEF Next, Logger
<1>3. Init => FetchedFirst
  BY DEF Init, FetchedFirst
<1>4. QED
  BY <1>1, <1>2, <1>3, InitNoted, StepNoted, StepFetchedFirst, PTL
     DEF Spec, DurableSpec, Durable!Spec

-----------------------------------------------------------------------------
(* What TypeOK says beyond Noted.                                          *)
Control ==
  /\ boot \in {"wiring", "restore", "done"}
  /\ pc \in {"fetch", "receive"} \cup Settings
  /\ Len(queue) <= QueueLen
  /\ events \in 0..MaxEvents
  /\ seen \subseteq Settings

LEMMA StepControl == Noted /\ Control /\ [Next]_vars => Control'
<1> SUFFICES ASSUME Noted, Control, [Next]_vars PROVE Control'
  OBVIOUS
<1> USE DEF Control
<1>1. QueueLen \in Nat /\ MaxEvents \in Nat /\ events \in Nat /\ Len(queue) \in Nat
  BY StoreAssumption DEF Noted
<1>2. Event => events' \in 0..MaxEvents
  BY <1>1 DEF Event
<1>3. CASE Change
  BY <1>2, <1>3 DEF Change
<1>4. ASSUME NEW k \in Settings, Publish(k) PROVE Control'
  <2>1. /\ queue' = SendNoWait(queue, QueueLen, <<k, setting[k]>>)
        /\ UNCHANGED <<boot, pc, events, seen>>
    BY <1>4 DEF Publish
  <2>2. CASE Len(queue) < QueueLen
    <3>1. queue' = Append(queue, <<k, setting[k]>>)
      BY <2>1, <2>2 DEF SendNoWait
    <3>2. Len(queue') = Len(queue) + 1
      BY <3>1 DEF Noted
    <3>3. QED
      BY <1>1, <2>1, <2>2, <3>2
  <2>3. CASE ~(Len(queue) < QueueLen)
    BY <2>1, <2>3 DEF SendNoWait
  <2>4. QED
    BY <2>2, <2>3
<1>5. CASE Subscribe \/ Restore
  BY <1>5 DEF Subscribe, Restore
<1>6. ASSUME NEW p, Fetch(p), events' \in 0..MaxEvents PROVE Control'
  BY <1>6 DEF Fetch
<1>7. CASE FetchAll \/ FetchFails
  BY <1>2, <1>6, <1>7 DEF FetchAll, FetchFails
<1>8. CASE Receive
  <2>1. /\ queue # << >> /\ queue' = Tail(queue) /\ pc' = "target"
        /\ seen' = seen \cup {Head(queue)[1]} /\ UNCHANGED <<boot, events>>
    BY <1>8 DEF Receive
  <2>2. Len(queue') = Len(queue) - 1
    BY <2>1 DEF Noted
  <2>3. Head(queue)[1] \in Settings
    BY <2>1 DEF Noted
  <2>4. Len(queue') <= QueueLen
    BY <1>1, <2>2
  <2>5. seen' \subseteq Settings
    BY <2>1, <2>3
  <2>6. "target" \in Settings
    BY DEF Settings
  <2>7. QED
    BY <2>1, <2>4, <2>5, <2>6
<1>9. CASE WritePage \/ WriteFails
  <2>1. pc' = AfterPage[pc] /\ pc \in Settings /\ UNCHANGED <<boot, queue, seen>>
    BY <1>9 DEF WritePage, WriteFails
  <2>2. pc' \in {"fetch", "receive"} \cup Settings
    BY <2>1 DEF AfterPage, Settings
  <2>3. events' \in 0..MaxEvents
    BY <1>2, <1>9 DEF WritePage, WriteFails
  <2>4. QED
    BY <2>1, <2>2, <2>3
<1>10. CASE PowerFails
  BY <1>1, <1>2, <1>10 DEF PowerFails
<1>11. CASE UNCHANGED vars
  BY <1>11 DEF vars
<1>12. QED
  BY <1>3, <1>4, <1>5, <1>7, <1>8, <1>9, <1>10, <1>11 DEF Next, Logger

(* Every variable keeps its type: no page, setting or reading ever holds   *)
(* anything but a number that some setting can have, or does not verify,   *)
(* and however the power fails the queue keeps to its length.              *)
THEOREM TypeCorrect == Spec => []TypeOK
<1>1. Init => Control
  BY StoreAssumption DEF Init, Control
<1>2. Noted /\ Control => TypeOK
  BY DEF Noted, Control, TypeOK
<1>3. QED
  BY <1>1, <1>2, InitNoted, StepNoted, StepControl, PTL DEF Spec
=============================================================================
