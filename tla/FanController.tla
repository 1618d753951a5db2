--------------------------- MODULE FanController ----------------------------
(***************************************************************************)
(* The controller of the greenhouse: class FanController.  Two tasks of    *)
(* the same priority share one object without a lock: fan_control reads    *)
(* sensor readings and drives the fan and the CO2 valve, fan_read obeys    *)
(* the commands of the knob and of the web service.  Two one-shot timers   *)
(* close the valve and end the pause before it may open again, the boot    *)
(* task installs the stored settings, and the ModbusWriteHandler takes the *)
(* speeds that the two tasks offer it.                                     *)
(*                                                                         *)
(* A task may be preempted between any two actions.  CO2 levels and        *)
(* targets are whole numbers here (they are floats in the code).           *)
(***************************************************************************)
EXTENDS Integers, Sequences, Rtos

CONSTANTS
  Co2Levels,    \* the CO2 levels the sensor may report
  Counts,       \* the values of the fan's pulse counter
  Targets,      \* CO2 targets a command, the EEPROM or the heap may hold
  Speeds,       \* fan speeds a command or the EEPROM may hold
  Modes,        \* values of a MODE_SET command: 0 automatic, 1 manual
  ReadingCap,   \* length of reading_queue (5)
  WriteCap,     \* length of write_queue (20)
  SpeedCap,     \* length of the writer's queue (5)
  CloseDelay,   \* period of close_valve (2000 ticks)
  BlockDelay    \* period of clear_valve_block (60000 ticks)

CO2_CRITICAL == 2000
FAN_MIN == 0
FAN_MAX == 1000
Uint16 == 0..65535

ASSUME LevelsAssumption == Co2Levels \subseteq Nat /\ Targets \subseteq Nat
ASSUME WordsAssumption ==
  Counts \subseteq Uint16 /\ Speeds \subseteq Uint16 /\ Modes \subseteq Uint16
ASSUME CapacityAssumption ==
  {ReadingCap, WriteCap, SpeedCap} \subseteq Nat \ {0}
ASSUME DelayAssumption ==
  /\ CloseDelay \in Nat \ {0}
  /\ BlockDelay \in Nat
  /\ CloseDelay < BlockDelay

Reading ==
  [type : {"CO2"}, value : Co2Levels] \cup [type : {"FAN_COUNTER"}, value : Counts]

Command ==
  [type : {"MODE_SET"}, value : Modes] \cup [type : {"FAN_SPEED"}, value : Speeds]
    \cup [type : {"CO2_TARGET"}, value : Targets]

VARIABLES
  readingQ,             \* reading_queue
  writeQ,               \* write_queue
  speedQ,               \* speed_queue, the queue of the ModbusWriteHandler
  speed, counter, co2, co2Target, spinning, manualMode,     \* the members
  valveOpenedRecently,
  valve,                \* level of VALVE_PIN
  closeLeft, clearLeft, \* ticks left of close_valve and clear_valve_block
  controlPc,            \* where fan_control is
  distance, newSpeed,   \* its locals (0 where they are dead)
  readPc, changed,      \* where fan_read is, and its local
  configured,           \* the boot task has installed the stored settings
  written,              \* the speed the ModbusWriteHandler took last
  lost,                 \* history: the last offer to speedQ was dropped
  overruns,             \* history: speeds fan_control set since manual mode
                        \* was entered
  sinceOpen             \* history: ticks since the valve opened, up to BlockDelay

sensed == <<counter, co2, spinning>>
settings == <<co2Target, manualMode, configured>>
offer == <<speedQ, lost>>
valveVars == <<valveOpenedRecently, valve, closeLeft, clearLeft, sinceOpen>>
locals == <<distance, newSpeed>>
reader == <<readPc, changed>>
vars == <<readingQ, writeQ, offer, sensed, settings, speed, written, overruns,
          valveVars, controlPc, locals, reader>>

(* The constructor.  co2_target and spinning have no initialiser: they     *)
(* start with whatever the heap holds.                                     *)
Init ==
  /\ readingQ = << >> /\ writeQ = << >> /\ speedQ = << >>
  /\ speed = 0 /\ counter = 0 /\ co2 = 0
  /\ co2Target \in Targets /\ spinning \in BOOLEAN
  /\ manualMode = FALSE /\ configured = FALSE
  /\ valveOpenedRecently = TRUE /\ valve = FALSE
  /\ closeLeft = 0 /\ clearLeft = 0 /\ sinceOpen = BlockDelay
  /\ controlPc = "boot" /\ distance = 0 /\ newSpeed = 0
  /\ readPc = "receive" /\ changed = FALSE
  /\ written = 0 /\ lost = FALSE /\ overruns = 0

(* The second half of set_speed: the queue gets a copy of the member, read *)
(* when the call runs, and a full queue drops it.                          *)
Offer(s) ==
  /\ speedQ' = SendNoWait(speedQ, SpeedCap, s)
  /\ lost' = (Len(speedQ) >= SpeedCap)

-----------------------------------------------------------------------------
(* The task fan_control, one action for each stretch of code between two   *)
(* accesses to something that another task or a timer also accesses.       *)

Go(from, to) ==
  /\ controlPc = from /\ controlPc' = to
  /\ UNCHANGED <<writeQ, settings, written, reader>>

\* the first half of set_speed
Assign(s) ==
  /\ speed' = s
  /\ newSpeed' = s
  /\ overruns' = IF manualMode THEN overruns + 1 ELSE overruns
  /\ UNCHANGED <<readingQ, sensed, offer, valveVars, distance>>

\* set_speed(0), and the pause that the valve begins with
ControlBoot ==
  /\ Go("boot", "bootSend")
  /\ speed' = 0
  /\ UNCHANGED <<readingQ, sensed, offer, overruns, valveVars, locals>>

ControlBootSend ==
  /\ Go("bootSend", "drain")
  /\ Offer(speed)
  /\ clearLeft' = BlockDelay
  /\ UNCHANGED <<readingQ, sensed, speed, overruns, valveOpenedRecently, valve,
                 closeLeft, sinceOpen, locals>>

IsFanSpinning(count) == ~(count = counter /\ count = 0)

\* the body of the receive loop
ControlReceive ==
  /\ Go("drain", "drain")
  /\ readingQ # << >>
  /\ readingQ' = Tail(readingQ)
  /\ LET r == Head(readingQ) IN
       \/ /\ r.type = "CO2"
          /\ co2' = r.value
          /\ UNCHANGED <<counter, spinning>>
       \/ /\ r.type = "FAN_COUNTER"
          /\ spinning' = IsFanSpinning(r.value)
          /\ counter' = r.value
          /\ UNCHANGED co2
  /\ UNCHANGED <<offer, speed, overruns, valveVars, locals>>

\* what follows when the receive times out; the target is read here first
Decide ==
  /\ readingQ = << >>
  /\ \/ co2 >= CO2_CRITICAL /\ Go("drain", "critical") /\ UNCHANGED distance
     \/ co2 < CO2_CRITICAL /\ Go("drain", "adjust") /\ distance' = co2 - co2Target
  /\ UNCHANGED <<readingQ, sensed, offer, speed, overruns, valveVars, newSpeed>>

\* the mode is looked at once, before all that
ControlDecide == ~manualMode /\ Decide

\* mutant: the early return of adjust_speed, here too
CriticalUnlessSet ==
  IF speed = FAN_MAX
    THEN /\ Go("critical", "drain")
         /\ UNCHANGED <<readingQ, sensed, offer, speed, overruns, valveVars, locals>>
    ELSE Go("critical", "send") /\ Assign(FAN_MAX)

\* set_speed(FAN_MAX), whatever the speed is
ControlCritical == Go("critical", "send") /\ Assign(FAN_MAX)

\* gpio_put: too little CO2 and the pause is over (CO2_TOLERANCE is 0)
ControlOpenValve ==
  /\ Go("adjust", "block")
  /\ distance < 0 /\ ~valveOpenedRecently
  /\ valve' = TRUE
  /\ sinceOpen' = 0
  /\ distance' = 0
  /\ UNCHANGED <<readingQ, sensed, offer, speed, overruns, valveOpenedRecently,
                 closeLeft, clearLeft, newSpeed>>

Block(left) ==
  /\ Go("block", "armClear")
  /\ valveOpenedRecently' = TRUE
  /\ closeLeft' = left
  /\ UNCHANGED <<readingQ, sensed, offer, speed, overruns, valve, clearLeft,
                 sinceOpen, locals>>

\* mutant: the timer is not started
BlockWithoutTimer == Block(closeLeft)

\* the flag and the first timer
ControlBlock == Block(CloseDelay)

ArmClear(left) ==
  /\ Go("armClear", "clip")
  /\ clearLeft' = left
  /\ newSpeed' = 0
  /\ UNCHANGED <<readingQ, sensed, offer, speed, overruns, valveOpenedRecently,
                 valve, closeLeft, sinceOpen, distance>>

\* mutants: the other timer's period, and the timer not started
ArmClearShort == ArmClear(CloseDelay)
ArmClearNever == ArmClear(clearLeft)

\* the second timer
ControlArmClear == ArmClear(BlockDelay)

\* mutant: no conversion
Unconverted(v) == {v}

(* A float outside 0..65535 converted to uint16_t is undefined: it may     *)
(* wrap or saturate at either end.                                         *)
ToUint16(v) == IF v \in Uint16 THEN {v} ELSE {v % 65536, 0, 65535}

(* (1000/(2000-target))*d + 100, truncated; infinite for a target of 2000. *)
Ramp(d, target) ==
  IF target < 2000 THEN ToUint16((1000 * d) \div (2000 - target) + 100)
  ELSE IF target = 2000 THEN {0, 65535}
  ELSE ToUint16(100 - (1000 * d + target - 2001) \div (target - 2000))

\* the valve stays as it is; above the target, co2_target is read again
ControlSpeedFor ==
  /\ Go("adjust", "clip")
  /\ \/ distance <= 0 /\ (distance = 0 \/ valveOpenedRecently) /\ newSpeed' = 0
     \/ distance > 0 /\ newSpeed' \in Ramp(distance, co2Target)
  /\ distance' = 0
  /\ UNCHANGED <<readingQ, sensed, offer, speed, overruns, valveVars>>

\* mutant: no upper limit
Unclipped(s) == s

Clipped(s) == IF s >= FAN_MAX THEN FAN_MAX ELSE s

AtLimit == Clipped(newSpeed) \in {FAN_MIN, FAN_MAX} /\ speed = Clipped(newSpeed)

\* nothing is sent when the member already has the limit
ControlKeepLimit ==
  /\ Go("clip", "drain")
  /\ AtLimit
  /\ newSpeed' = 0
  /\ UNCHANGED <<readingQ, sensed, offer, speed, overruns, valveVars, distance>>

ControlClip == Go("clip", "send") /\ ~AtLimit /\ Assign(Clipped(newSpeed))

Send(s) ==
  /\ Go("send", "drain")
  /\ Offer(s)
  /\ newSpeed' = 0
  /\ UNCHANGED <<readingQ, sensed, speed, overruns, valveVars, distance>>

\* mutant: the argument is queued instead of the member
SendArgument == Send(newSpeed)

ControlSend == Send(speed)

ControlTask ==
  \/ ControlBoot \/ ControlBootSend \/ ControlReceive \/ ControlDecide
  \/ ControlCritical \/ ControlOpenValve \/ ControlBlock \/ ControlArmClear
  \/ ControlSpeedFor \/ ControlKeepLimit \/ ControlClip \/ ControlSend

-----------------------------------------------------------------------------
(* The task fan_read.  A value is obeyed once per MODE_SET, in the mode it *)
(* belongs to; every other command is thrown away.                         *)

Licensed(c) ==
  /\ changed
  /\ \/ c.type = "CO2_TARGET" /\ ~manualMode
     \/ c.type = "FAN_SPEED" /\ manualMode

ObeyTarget(c) ==
  /\ c.type = "CO2_TARGET" /\ Licensed(c)
  /\ changed' = FALSE
  /\ co2Target' = c.value
  /\ UNCHANGED <<manualMode, overruns, speed, readPc>>

ObeySpeed(c) ==
  /\ c.type = "FAN_SPEED" /\ Licensed(c)
  /\ changed' = FALSE
  /\ speed' = c.value
  /\ readPc' = "send"
  /\ UNCHANGED <<co2Target, manualMode, overruns>>

ObeyMode(c) ==
  /\ c.type = "MODE_SET"
  /\ changed' = TRUE
  /\ manualMode' = CASE c.value = 0 -> FALSE
                     [] c.value = 1 -> TRUE
                     [] OTHER -> manualMode
  /\ overruns' = IF manualMode' THEN overruns ELSE 0
  /\ UNCHANGED <<co2Target, speed, readPc>>

Ignore(c) ==
  /\ c.type # "MODE_SET" /\ ~Licensed(c)
  /\ UNCHANGED <<co2Target, manualMode, overruns, speed, readPc, changed>>

ReadCommand ==
  /\ readPc = "receive"
  /\ writeQ # << >>
  /\ writeQ' = Tail(writeQ)
  /\ LET c == Head(writeQ) IN
       ObeyTarget(c) \/ ObeySpeed(c) \/ ObeyMode(c) \/ Ignore(c)
  /\ UNCHANGED <<readingQ, sensed, offer, configured, written, valveVars,
                 controlPc, locals>>

ReadSend ==
  /\ readPc = "send"
  /\ readPc' = "receive"
  /\ Offer(speed)
  /\ UNCHANGED <<readingQ, writeQ, sensed, settings, speed, written, overruns,
                 valveVars, controlPc, locals, changed>>

ReadTask == ReadCommand \/ ReadSend

-----------------------------------------------------------------------------
(* The boot task installs the stored settings, once.  It has the highest   *)
(* priority of the application and does not block, so its step is atomic;  *)
(* it waits for the logger, which has a lower priority than fan_control    *)
(* and so runs only after fan_control has reached its first delay.         *)
SetInitialValues(target, s, manual) ==
  /\ ~configured
  /\ controlPc \notin {"boot", "bootSend"}
  /\ configured' = TRUE
  /\ co2Target' = target
  /\ manualMode' = manual
  /\ overruns' = IF manual THEN overruns ELSE 0
  /\ \/ manual /\ speed' = s /\ Offer(s)
     \/ ~manual /\ UNCHANGED <<speed, offer>>
  /\ UNCHANGED <<readingQ, writeQ, sensed, written, valveVars, controlPc, locals,
                 reader>>

(* The timer daemon has the highest priority of all: a callback runs with  *)
(* the tick that expires its timer, before any task goes on.               *)
Tick ==
  /\ closeLeft' = TickOf(closeLeft)
  /\ clearLeft' = TickOf(clearLeft)
  /\ valve' = (valve /\ ~Expires(closeLeft))
  /\ valveOpenedRecently' = (valveOpenedRecently /\ ~Expires(clearLeft))
  /\ sinceOpen' = IF sinceOpen < BlockDelay THEN sinceOpen + 1 ELSE BlockDelay
  /\ UNCHANGED <<readingQ, writeQ, offer, sensed, settings, speed, written,
                 overruns, controlPc, locals, reader>>

(* The readers of the CO2 sensor and of the fan's counter publish; the     *)
(* knob and the web service send commands; nobody waits for room.          *)
Publish(r) ==
  /\ readingQ' = SendNoWait(readingQ, ReadingCap, r)
  /\ UNCHANGED <<writeQ, offer, sensed, settings, speed, written, overruns,
                 valveVars, controlPc, locals, reader>>

SendCommand(c) ==
  /\ writeQ' = SendNoWait(writeQ, WriteCap, c)
  /\ UNCHANGED <<readingQ, offer, sensed, settings, speed, written, overruns,
                 valveVars, controlPc, locals, reader>>

(* The ModbusWriteHandler takes a speed to write it to the fan.  The queue *)
(* carries 32 bits, of which the handler writes the lower half: the speed. *)
TakeSpeed ==
  /\ speedQ # << >>
  /\ speedQ' = Tail(speedQ)
  /\ written' = Head(speedQ)
  /\ UNCHANGED <<readingQ, writeQ, lost, sensed, settings, speed, overruns,
                 valveVars, controlPc, locals, reader>>

Next ==
  \/ ControlTask
  \/ ReadTask
  \/ \E t \in Targets, s \in Speeds, m \in BOOLEAN : SetInitialValues(t, s, m)
  \/ Tick
  \/ \E r \in Reading : Publish(r)
  \/ \E c \in Command : SendCommand(c)
  \/ TakeSpeed

Spec == Init /\ [][Next]_vars

(* A task that can run is run in the end (equal priorities, time slices),  *)
(* and ticks keep coming.  The two publishers send a reading a second each *)
(* and fan_control waits 10 ms for the next one, so its receive loop ends: *)
(* the queue keeps running empty, and an end that stays possible is taken. *)
Fairness ==
  /\ WF_vars(ControlTask)
  /\ WF_vars(ReadTask)
  /\ WF_vars(Tick)
  /\ WF_vars(TakeSpeed)
  /\ SF_vars(ControlDecide)
  /\ []<>(readingQ = << >>)

FairSpec == Spec /\ Fairness
-----------------------------------------------------------------------------
ControlPcs == {"boot", "bootSend", "drain", "critical", "adjust", "block",
               "armClear", "clip", "send"}

(* Every member, queue and local has its type: no queue outgrows its       *)
(* length, a speed fits 16 bits whatever the ramp computes, and a timer    *)
(* never has more ticks left than its period.                              *)
TypeOK ==
  /\ readingQ \in Seq(Reading) /\ Len(readingQ) <= ReadingCap
  /\ writeQ \in Seq(Command) /\ Len(writeQ) <= WriteCap
  /\ speedQ \in Seq(Uint16) /\ Len(speedQ) <= SpeedCap
  /\ speed \in Uint16 /\ newSpeed \in Uint16 /\ written \in Uint16
  /\ counter \in Uint16
  /\ co2 \in Nat /\ co2Target \in Nat /\ distance \in Int
  /\ spinning \in BOOLEAN /\ manualMode \in BOOLEAN
  /\ valveOpenedRecently \in BOOLEAN /\ valve \in BOOLEAN
  /\ closeLeft \in 0..CloseDelay /\ clearLeft \in 0..BlockDelay
  /\ controlPc \in ControlPcs
  /\ readPc \in {"receive", "send"} /\ changed \in BOOLEAN
  /\ configured \in BOOLEAN /\ lost \in BOOLEAN
  /\ overruns \in Nat /\ sinceOpen \in 0..BlockDelay

InSetSpeed == controlPc \in {"boot", "bootSend", "send"} \/ readPc = "send"

LastOffered == IF speedQ = << >> THEN written ELSE speedQ[Len(speedQ)]

(* The fan gets the speed the controller believes it has: although two     *)
(* tasks and the boot task assign the member and offer it without a lock,  *)
(* whenever none of them is inside set_speed and the last offer found room *)
(* the last speed offered (or, when all are taken, the last one taken) is  *)
(* the member's value, in whatever order the assignments and the offers    *)
(* interleaved.                                                            *)
SpeedDelivered == ~InSetSpeed /\ ~lost => LastOffered = speed

(* Manual mode does not stop an adjustment that fan_control has begun, but *)
(* it lets at most that one through.                                       *)
OverrunBound == overruns <= 1

(* Whatever a raced or unbounded target makes of the ramp (a wrapped or    *)
(* saturated conversion), automatic control stays within the fan's range:  *)
(* only a command or the EEPROM can bring a speed from outside it.         *)
SpeedInRange == speed \in Speeds \cup FAN_MIN..FAN_MAX

(* An open valve has its closing ahead of it: the timer runs, or           *)
(* fan_control is between gpio_put and the start of the timer.             *)
ValveWillClose == valve => closeLeft > 0 \/ controlPc = "block"

(* Why at most one adjustment slips through: one that has begun, began in  *)
(* automatic mode.                                                         *)
OverrunInv ==
  /\ ~manualMode => overruns = 0
  /\ controlPc \in {"critical", "adjust", "block", "armClear", "clip"} =>
       overruns = 0
  /\ overruns <= 1

(* How the pin, the flag, the two timers and fan_control hang together.    *)
ValveInv ==
  /\ ValveWillClose
  /\ controlPc \in {"boot", "bootSend"} =>
       ~valve /\ valveOpenedRecently /\ clearLeft = 0
  /\ controlPc = "block" =>
       valve /\ ~valveOpenedRecently /\ closeLeft = 0 /\ clearLeft = 0
  /\ controlPc = "armClear" => valveOpenedRecently /\ clearLeft = 0
  /\ closeLeft > 0 => valve
  /\ valve => valveOpenedRecently \/ controlPc = "block"
  /\ clearLeft > 0 => valveOpenedRecently /\ sinceOpen + clearLeft >= BlockDelay
  /\ valve /\ clearLeft > 0 => closeLeft < clearLeft

(* The valve's pin, flag and timers implement the duty cycle of ValveDuty: *)
(* the flag and the timers keep BlockDelay ticks between two openings.     *)
ValvePhase ==
  IF valve THEN "open" ELSE IF valveOpenedRecently THEN "blocked" ELSE "ready"

Duty == INSTANCE ValveDuty WITH phase <- ValvePhase, age <- sinceOpen

DutySpec == Duty!Spec

(* The comment on manual_mode: "if true, stop all automagical fan          *)
(* adjustments".                                                           *)
ManualStopsAdjustments == overruns = 0

(* A valve that opens closes again, and the pause after it ends, even when *)
(* the mode changes in between.                                            *)
ValveComesBack ==
  /\ valve ~> ~valve
  /\ valveOpenedRecently ~> ~valveOpenedRecently

(* When CO2 stays critical and the mode stays automatic, the fan is told   *)
(* to run at full speed and is told nothing else afterwards, although a    *)
(* full queue may drop offers on the way.                                  *)
CriticalReachesFan ==
  <>[](co2 >= CO2_CRITICAL /\ ~manualMode) => <>[](written = FAN_MAX)
=============================================================================
