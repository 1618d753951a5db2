----------------------------- MODULE ModbusBus ------------------------------
(***************************************************************************)
(* The Modbus line: class ModbusCtrl with its DMA channels and its alarm,  *)
(* the reader tasks (ModbusReadHandler) and the writer task                *)
(* (ModbusWriteHandler) that share it.  The flag `busy' is all that keeps  *)
(* two transfers apart; a transfer ends with the interrupt of the receive  *)
(* channel or with that of the alarm.                                      *)
(*                                                                         *)
(* Tasks have the same priority and may be preempted between any two       *)
(* actions; the interrupts may come between any two.  Time passes when no  *)
(* task can run and no interrupt is due.  A device answers or not, and     *)
(* bytes of a late answer may complete a later transfer at once, so the    *)
(* receive channel may finish at any time while it is active.  What the    *)
(* bytes say is left out.                                                  *)
(***************************************************************************)
EXTENDS Integers

CONSTANTS
  Readers,    \* the reader tasks
  Writer,     \* the writer task
  NoUser,     \* current_user before the first transfer
  Interval,   \* reading_interval
  Timeout,    \* timeout_ms of ModbusCtrl::start
  Wrap        \* tick counts are unsigned: modulo Wrap (2^32)

ASSUME TasksAssumption == Writer \notin Readers /\ NoUser \notin Readers \cup {Writer}
ASSUME TimesAssumption ==
  /\ Timeout \in Nat \ {0}
  /\ Interval \in Nat
  /\ Wrap \in Nat \ {0}

Tasks == Readers \cup {Writer}

VARIABLES
  busy, user,     \* busy and current_user
  rxActive,       \* the receive channel is transferring
  alarm,          \* ticks left of the alarm, -1 when it has no target
  quiet,          \* four character times have passed since ctrl_time
  pc,             \* where each task is
  now,            \* the tick count
  startTime,      \* start_time of each reader's cycle
  sleep           \* ticks left of each reader's vTaskDelay(delay_time)

bus == <<busy, user, rxActive, alarm, quiet>>
clocks == <<now, startTime, sleep>>
vars == <<bus, pc, clocks>>

Init ==
  /\ busy = FALSE /\ user = NoUser /\ rxActive = FALSE
  /\ alarm = -1 /\ quiet = TRUE
  /\ pc = [t \in Tasks |-> "idle"]
  /\ now = 0
  /\ startTime = [r \in Readers |-> 0]
  /\ sleep = [r \in Readers |-> 0]

Go(t, from, to) == pc[t] = from /\ pc' = [pc EXCEPT ![t] = to]

-----------------------------------------------------------------------------
(* A reader begins its cycle; the writer has been sent a value.            *)
BeginRead(r) ==
  /\ Go(r, "idle", "poll")
  /\ sleep[r] = 0
  /\ startTime' = [startTime EXCEPT ![r] = now]
  /\ UNCHANGED <<bus, now, sleep>>

BeginWrite == Go(Writer, "idle", "poll") /\ UNCHANGED <<bus, clocks>>

\* the handler's own look at the flag
Poll(t) == Go(t, "poll", "gate") /\ ~busy /\ UNCHANGED <<bus, clocks>>

-----------------------------------------------------------------------------
(* ModbusCtrl::start.  The flag is tested, then set.                       *)
Gate(t) == Go(t, "gate", "claim") /\ ~busy /\ quiet /\ UNCHANGED <<bus, clocks>>

Claim(t) ==
  /\ Go(t, "claim", "user")
  /\ busy' = TRUE
  /\ UNCHANGED <<user, rxActive, alarm, quiet, clocks>>

\* mutant: the channels are started before current_user is set
StartDmaFirst(t) ==
  /\ Go(t, "user", "dma")
  /\ rxActive' = TRUE
  /\ UNCHANGED <<busy, user, alarm, quiet, clocks>>

SetUser(t) ==
  /\ Go(t, "user", "dma")
  /\ user' = t
  /\ UNCHANGED <<busy, rxActive, alarm, quiet, clocks>>

\* both channels are started, the receiving one first
StartDma(t) ==
  /\ Go(t, "dma", "arm")
  /\ rxActive' = TRUE
  /\ UNCHANGED <<busy, user, alarm, quiet, clocks>>

AfterStart(t) == IF t = Writer THEN "idle" ELSE "wait"

SetAlarm(t, left) ==
  /\ Go(t, "arm", AfterStart(t))
  /\ alarm' = left
  /\ UNCHANGED <<busy, user, rxActive, quiet, clocks>>

\* mutant: the transfer starts without its alarm
ArmNothing(t) == SetAlarm(t, alarm)

\* set_target_us: an alarm that was running runs anew
Arm(t) == SetAlarm(t, Timeout)

-----------------------------------------------------------------------------
(* ModbusCtrl::end, from one of the two interrupt handlers.                *)
End ==
  /\ busy' = FALSE
  /\ quiet' = FALSE
  /\ rxActive' = FALSE
  /\ UNCHANGED <<user, pc, clocks>>

RxDone == rxActive /\ End /\ UNCHANGED alarm

AlarmFires == alarm = 0 /\ End /\ alarm' = -1

GapElapses == ~quiet /\ quiet' = TRUE /\ UNCHANGED <<busy, user, rxActive, alarm, pc, clocks>>

-----------------------------------------------------------------------------
Wait(r) == Go(r, "wait", "publish") /\ ~busy /\ UNCHANGED <<bus, clocks>>

\* mutant: signed arithmetic
SignedDelay(begun) == begun + Interval - now

(* send_reading, and what is left of the interval in unsigned arithmetic.  *)
DelayTime(begun) == (begun + Interval - now) % Wrap

Publish(r) ==
  /\ Go(r, "publish", "idle")
  /\ sleep' = [sleep EXCEPT ![r] = DelayTime(startTime[r])]
  /\ UNCHANGED <<bus, now, startTime>>

Starting == {"claim", "user", "dma", "arm"}

CanRun(t) ==
  \/ pc[t] \in Starting \cup {"publish"}
  \/ pc[t] \in {"poll", "wait"} /\ ~busy
  \/ pc[t] = "gate" /\ ~busy /\ quiet
  \/ t \in Readers /\ pc[t] = "idle" /\ sleep[t] = 0

Down(n) == IF n > 0 THEN n - 1 ELSE n

Tick ==
  /\ \A t \in Tasks : ~CanRun(t)
  /\ quiet
  /\ alarm # 0
  /\ now' = (now + 1) % Wrap
  /\ alarm' = Down(alarm)
  /\ sleep' = [r \in Readers |-> Down(sleep[r])]
  /\ UNCHANGED <<busy, user, rxActive, quiet, pc, startTime>>

Start(t) == Gate(t) \/ Claim(t) \/ SetUser(t) \/ StartDma(t) \/ Arm(t)

Run(t) ==
  \/ Poll(t)
  \/ Start(t)
  \/ t \in Readers /\ (BeginRead(t) \/ Wait(t) \/ Publish(t))

Next ==
  \/ \E t \in Tasks : Run(t)
  \/ BeginWrite
  \/ RxDone \/ AlarmFires \/ GapElapses \/ Tick

Spec == Init /\ [][Next]_vars

(* Every task that can run is run, an interrupt that is due is taken, and  *)
(* time passes.                                                            *)
Fairness ==
  /\ \A t \in Tasks : WF_vars(Run(t))
  /\ WF_vars(AlarmFires)
  /\ WF_vars(GapElapses)
  /\ WF_vars(Tick)

FairSpec == Spec /\ Fairness

-----------------------------------------------------------------------------
Pcs == {"idle", "poll", "gate", "wait", "publish"} \cup Starting

(* Every variable has its type; the alarm never has more than the timeout  *)
(* left, and the tick count and the delays stay below Wrap.                *)
TypeOK ==
  /\ busy \in BOOLEAN /\ rxActive \in BOOLEAN /\ quiet \in BOOLEAN
  /\ user \in Tasks \cup {NoUser}
  /\ alarm \in -1..Timeout
  /\ pc \in [Tasks -> Pcs]
  /\ now \in 0..(Wrap - 1)
  /\ startTime \in [Readers -> 0..(Wrap - 1)]
  /\ sleep \in [Readers -> 0..(Wrap - 1)]

(* The line cannot stay occupied for ever: while busy is set, either the   *)
(* alarm is running or a task is inside ModbusCtrl::start and will arm it, *)
(* even when two tasks have started a transfer and one of their transfers  *)
(* has already ended.                                                      *)
BusyWillEnd == busy => alarm >= 0 \/ \E t \in Tasks : pc[t] \in Starting

(* ModbusCtrl::end computes the length in the buffer of current_user, so   *)
(* no interrupt may come before the first current_user is set: an active   *)
(* channel and a running alarm have one.                                   *)
EndHasUser == rxActive \/ alarm >= 0 => user # NoUser

(* "Someone already using the modbus so wait": one task at a time starts   *)
(* a transfer.                                                             *)
OneStartsAtATime ==
  \A t, u \in Tasks : pc[t] \in Starting /\ pc[u] \in Starting => t = u

(* "const uint16_t reading_interval = 1000; // ms": a reader sleeps for    *)
(* what is left of its interval.                                           *)
SleepsAtMostInterval == \A r \in Readers : sleep[r] <= Interval

(* An occupied line becomes free again, with silent devices, overlapping   *)
(* transfers and the alarm of a transfer that has long ended.              *)
BusRecovers == busy ~> ~busy
=============================================================================
