-------------------------- MODULE ModbusBusProofs ---------------------------
(***************************************************************************)
(* Proofs about ModbusBus, for every set of readers, every interval and    *)
(* timeout and every width of the tick count.                              *)
(***************************************************************************)
EXTENDS ModbusBus, TLAPS

(* Unsigned arithmetic stays below Wrap.                                   *)
LEMMA BelowWrap ==
  ASSUME NEW n \in Int
  PROVE  n % Wrap \in 0..(Wrap - 1)
BY TimesAssumption

LEMMA GoKeepsPcs ==
  ASSUME pc \in [Tasks -> Pcs], NEW t \in Tasks, NEW from, NEW to \in Pcs,
         Go(t, from, to)
  PROVE  pc' \in [Tasks -> Pcs]
BY DEF Go

(* Type correctness: whatever tasks and interrupts do to the line, its     *)
(* variables keep their types, the alarm never runs longer than the        *)
(* timeout and a delay is never negative.                                  *)
THEOREM TypeCorrect == Spec => []TypeOK
<1>1. Init => TypeOK
  <2> SUFFICES ASSUME Init PROVE TypeOK
    OBVIOUS
  <2>1. busy \in BOOLEAN /\ rxActive \in BOOLEAN /\ quiet \in BOOLEAN
    BY DEF Init
  <2>2. pc \in [Tasks -> Pcs] /\ user \in Tasks \cup {NoUser}
    BY DEF Init, Pcs
  <2>3. alarm \in -1..Timeout /\ now \in 0..(Wrap - 1)
    BY TimesAssumption DEF Init
  <2>4. /\ startTime \in [Readers -> 0..(Wrap - 1)]
        /\ sleep \in [Readers -> 0..(Wrap - 1)]
    BY TimesAssumption DEF Init
  <2>5. QED
    BY <2>1, <2>2, <2>3, <2>4 DEF TypeOK
<1>2. TypeOK /\ [Next]_vars => TypeOK'
  <2> SUFFICES ASSUME TypeOK, [Next]_vars PROVE TypeOK'
    OBVIOUS
  <2> USE GoKeepsPcs DEF TypeOK, bus, clocks
  <2>1. ASSUME NEW r \in Readers, BeginRead(r) PROVE TypeOK'
    BY <2>1 DEF BeginRead, Tasks, Pcs
  <2>2. ASSUME NEW t \in Tasks, Poll(t) \/ Gate(t) PROVE TypeOK'
    BY <2>2 DEF Poll, Gate, Pcs, Starting
  <2>3. ASSUME NEW t \in Tasks, Claim(t) \/ SetUser(t) \/ StartDma(t)
        PROVE  TypeOK'
    BY <2>3 DEF Claim, SetUser, StartDma, Pcs, Starting
  <2>4. ASSUME NEW t \in Tasks, Arm(t) PROVE TypeOK'
    <3>1. AfterStart(t) \in Pcs
      BY DEF AfterStart, Pcs
    <3>2. QED
      BY <2>4, <3>1, TimesAssumption DEF Arm, SetAlarm
  <2>5. ASSUME NEW r \in Readers, Wait(r) PROVE TypeOK'
    BY <2>5 DEF Wait, Tasks, Pcs
  <2>6. ASSUME NEW r \in Readers, Publish(r) PROVE TypeOK'
    <3>1. DelayTime(startTime[r]) \in 0..(Wrap - 1)
      <4>1. startTime[r] + Interval - now \in Int
        BY TimesAssumption
      <4>2. QED
        BY <4>1, BelowWrap DEF DelayTime
    <3>2. QED
      BY <2>6, <3>1 DEF Publish, Tasks, Pcs
  <2>7. CASE BeginWrite
    BY <2>7 DEF BeginWrite, Tasks, Pcs
  <2>8. CASE RxDone \/ AlarmFires
    <3>1. /\ ~busy' /\ ~quiet' /\ ~rxActive'
          /\ UNCHANGED <<user, pc, now, startTime, sleep>>
      BY <2>8 DEF RxDone, AlarmFires, End
    <3>2. alarm' \in -1..Timeout
      BY <2>8, TimesAssumption DEF RxDone, AlarmFires
    <3>3. busy' \in BOOLEAN /\ quiet' \in BOOLEAN /\ rxActive' \in BOOLEAN
      BY <2>8 DEF RxDone, AlarmFires, End
    <3>4. QED
      BY <3>1, <3>2, <3>3
  <2>9. CASE GapElapses
    BY <2>9 DEF GapElapses
  <2>10. CASE Tick
    <3>1. now' \in 0..(Wrap - 1)
      BY <2>10, BelowWrap DEF Tick
    <3>2. alarm' \in -1..Timeout
      BY <2>10, TimesAssumption DEF Tick, Down
    <3>3. sleep' \in [Readers -> 0..(Wrap - 1)]
      BY <2>10, TimesAssumption DEF Tick, Down
    <3>4. QED
      BY <2>10, <3>1, <3>2, <3>3 DEF Tick
  <2>11. CASE UNCHANGED vars
    BY <2>11 DEF vars
  <2>12. QED
    BY <2>1, <2>2, <2>3, <2>4, <2>5, <2>6, <2>7, <2>8, <2>9, <2>10, <2>11
    DEF Next, Run, Start
<1>3. QED
  BY <1>1, <1>2, PTL DEF Spec

-----------------------------------------------------------------------------
(* A task that does not leave ModbusCtrl::start keeps the line's end in    *)
(* sight.                                                                  *)
LEMMA StartingStays ==
  ASSUME pc \in [Tasks -> Pcs], NEW t \in Tasks, NEW from, NEW to,
         Go(t, from, to), from \in Starting => to \in Starting,
         \E u \in Tasks : pc[u] \in Starting
  PROVE  \E u \in Tasks : pc'[u] \in Starting
<1>1. PICK u \in Tasks : pc[u] \in Starting
  OBVIOUS
<1>2. CASE u = t
  BY <1>1, <1>2 DEF Go
<1>3. CASE u # t
  BY <1>1, <1>3 DEF Go
<1>4. QED
  BY <1>2, <1>3

(* While the line is occupied its end is on the way: the alarm runs, or a  *)
(* task is inside ModbusCtrl::start and has yet to set it.                 *)
THEOREM OccupationEnds == Spec => []BusyWillEnd
<1>1. Init => BusyWillEnd
  BY DEF Init, BusyWillEnd
<1>2. TypeOK /\ BusyWillEnd /\ [Next]_vars => BusyWillEnd'
  <2> SUFFICES ASSUME TypeOK, BusyWillEnd, [Next]_vars PROVE BusyWillEnd'
    OBVIOUS
  <2> DEFINE Coming == \E t \in Tasks : pc[t] \in Starting
  <2>1. ASSUME busy' => busy, alarm' = alarm, Coming => Coming'
        PROVE  BusyWillEnd'
    BY <2>1 DEF BusyWillEnd
  <2>2. ASSUME NEW t \in Tasks, NEW from, NEW to, Go(t, from, to),
               from \in Starting => to \in Starting
        PROVE  Coming => Coming'
    BY <2>2, StartingStays DEF TypeOK
  <2>3. ASSUME NEW r \in Readers, BeginRead(r) \/ Wait(r) \/ Publish(r)
        PROVE  BusyWillEnd'
    <3>1. Coming => Coming'
      BY <2>2, <2>3 DEF BeginRead, Wait, Publish, Tasks, Starting
    <3>2. busy' = busy /\ alarm' = alarm
      BY <2>3 DEF BeginRead, Wait, Publish, bus
    <3>3. QED
      BY <2>1, <3>1, <3>2
  <2>4. ASSUME NEW t \in Tasks, Poll(t) \/ Gate(t) \/ SetUser(t) \/ StartDma(t)
        PROVE  BusyWillEnd'
    <3>1. Coming => Coming'
      BY <2>2, <2>4 DEF Poll, Gate, SetUser, StartDma, Starting
    <3>2. busy' = busy /\ alarm' = alarm
      BY <2>4 DEF Poll, Gate, SetUser, StartDma, bus
    <3>3. QED
      BY <2>1, <3>1, <3>2
  <2>5. ASSUME NEW t \in Tasks, Claim(t) PROVE BusyWillEnd'
    <3>1. pc'[t] \in Starting
      BY <2>5 DEF Claim, Go, TypeOK, Starting
    <3>2. QED
      BY <3>1 DEF BusyWillEnd
  <2>6. ASSUME NEW t \in Tasks, Arm(t) PROVE BusyWillEnd'
    BY <2>6, TimesAssumption DEF Arm, SetAlarm, BusyWillEnd
  <2>7. CASE BeginWrite
    <3>1. Coming => Coming'
      BY <2>2, <2>7 DEF BeginWrite, Tasks, Starting
    <3>2. busy' = busy /\ alarm' = alarm
      BY <2>7 DEF BeginWrite, bus
    <3>3. QED
      BY <2>1, <3>1, <3>2
  <2>8. CASE RxDone \/ AlarmFires
    BY <2>8 DEF RxDone, AlarmFires, End, BusyWillEnd
  <2>9. CASE GapElapses
    BY <2>1, <2>9 DEF GapElapses
  <2>10. CASE Tick
    \* time does not pass while a task is inside start
    <3>1. ~Coming
      BY <2>10 DEF Tick, CanRun
    <3>2. busy' = busy /\ alarm' = Down(alarm)
      BY <2>10 DEF Tick
    <3>3. alarm >= 0 => alarm' >= 0
      BY <3>2 DEF Down, TypeOK
    <3>4. QED
      BY <3>1, <3>2, <3>3 DEF BusyWillEnd
  <2>11. CASE UNCHANGED vars
    BY <2>1, <2>11 DEF vars, bus
  <2>12. QED
    BY <2>3, <2>4, <2>5, <2>6, <2>7, <2>8, <2>9, <2>10, <2>11
    DEF Next, Run, Start
<1>3. QED
  BY <1>1, <1>2, TypeCorrect, PTL DEF Spec

-----------------------------------------------------------------------------
(* A task that has come to the channels has set current_user before.       *)
UserInv ==
  /\ EndHasUser
  /\ \A t \in Tasks : pc[t] \in {"dma", "arm"} => user # NoUser

(* No interrupt can find current_user unset, however two starts overlap.   *)
THEOREM InterruptHasUser == Spec => []EndHasUser
<1>1. Init => UserInv
  BY DEF Init, UserInv, EndHasUser
<1>2. TypeOK /\ UserInv /\ [Next]_vars => UserInv'
  <2> SUFFICES ASSUME TypeOK, UserInv, [Next]_vars PROVE UserInv'
    OBVIOUS
  <2> DEFINE Ready == \A t \in Tasks : pc[t] \in {"dma", "arm"} => user # NoUser
  <2>1. ASSUME NEW t \in Tasks, NEW from, NEW to, Go(t, from, to),
               to \notin {"dma", "arm"}, user' = user
        PROVE  Ready'
    BY <2>1 DEF Go, UserInv, TypeOK
  <2>2. ASSUME user' = user, rxActive' => rxActive, alarm' >= 0 => alarm >= 0
        PROVE  EndHasUser'
    BY <2>2 DEF UserInv, EndHasUser
  <2>3. ASSUME NEW t \in Tasks, Poll(t) \/ Gate(t) \/ Claim(t) PROVE UserInv'
    <3>1. user' = user /\ rxActive' = rxActive /\ alarm' = alarm
      BY <2>3 DEF Poll, Gate, Claim, bus
    <3>2. Ready'
      BY <2>1, <2>3, <3>1 DEF Poll, Gate, Claim
    <3>3. QED
      BY <2>2, <3>1, <3>2 DEF UserInv
  <2>4. ASSUME NEW t \in Tasks, SetUser(t) PROVE UserInv'
    <3>1. user' # NoUser
      BY <2>4, TasksAssumption DEF SetUser, Tasks
    <3>2. QED
      BY <3>1 DEF UserInv, EndHasUser
  <2>5. ASSUME NEW t \in Tasks, StartDma(t) \/ Arm(t) PROVE UserInv'
    <3>1. user' = user /\ user # NoUser
      BY <2>5 DEF StartDma, Arm, SetAlarm, Go, UserInv
    <3>2. QED
      BY <3>1 DEF UserInv, EndHasUser
  <2>6. ASSUME NEW r \in Readers, BeginRead(r) \/ Wait(r) \/ Publish(r)
        PROVE  UserInv'
    <3>1. user' = user /\ rxActive' = rxActive /\ alarm' = alarm
      BY <2>6 DEF BeginRead, Wait, Publish, bus
    <3>2. Ready'
      BY <2>1, <2>6, <3>1 DEF BeginRead, Wait, Publish, Tasks
    <3>3. QED
      BY <2>2, <3>1, <3>2 DEF UserInv
  <2>7. CASE BeginWrite
    <3>1. user' = user /\ rxActive' = rxActive /\ alarm' = alarm
      BY <2>7 DEF BeginWrite, bus
    <3>2. Ready'
      BY <2>1, <2>7, <3>1 DEF BeginWrite, Tasks
    <3>3. QED
      BY <2>2, <3>1, <3>2 DEF UserInv
  <2>8. CASE RxDone \/ AlarmFires \/ GapElapses \/ Tick
    <3>1. user' = user /\ pc' = pc
      BY <2>8 DEF RxDone, AlarmFires, End, GapElapses, Tick
    <3>2. rxActive' => rxActive
      BY <2>8 DEF RxDone, AlarmFires, End, GapElapses, Tick
    <3>3. alarm' >= 0 => alarm >= 0
      BY <2>8 DEF RxDone, AlarmFires, End, GapElapses, Tick, Down, TypeOK
    <3>4. QED
      BY <2>2, <3>1, <3>2, <3>3 DEF UserInv
  <2>9. CASE UNCHANGED vars
    BY <2>9 DEF vars, bus, UserInv, EndHasUser
  <2>10. QED
    BY <2>3, <2>4, <2>5, <2>6, <2>7, <2>8, <2>9 DEF Next, Run, Start
<1>3. UserInv => EndHasUser
  BY DEF UserInv
<1>4. QED
  BY <1>1, <1>2, <1>3, TypeCorrect, PTL DEF Spec
=============================================================================
