---------------------------- MODULE CommandPath -----------------------------
(***************************************************************************)
(* How a command comes about and where it goes: the knob (class Rotary, an *)
(* interrupt handler and a task that share one command record), the parser *)
(* of the web service's answers (TLSWrapper), and the two that obey: the   *)
(* task fan_read of FanController and set_target_task of Screen.           *)
(*                                                                         *)
(* A command's value is a union of a float and a 16-bit word, and a record *)
(* that is being rewritten has the type of one command and the value of    *)
(* another.  So a value has two parts: `f', the target whose float the     *)
(* upper half belongs to, and `w', the lower half.  Read as a float it is  *)
(* f (a few ppm away from it at most when w is left over), as a word w.    *)
(*                                                                         *)
(* The system has booted: the stored settings are installed everywhere.    *)
(* The interrupt may come between any two actions.                         *)
(***************************************************************************)
EXTENDS Integers, Sequences, Rtos

CONSTANTS
  Step,           \* what a turn of the knob changes (10)
  MaxSpeed,       \* the knob's upper limit of the speed (1000)
  MaxTarget,      \* the knob's upper limit of the target (1500)
  Stored,         \* settings the system may have booted with
  HeapCommands,   \* what the heap may hold where the knob's command is
  KnobEvents,     \* edges of the knob's pins: "mode", "up", "down", "button", "other"
  WebCommands,    \* what the web service may answer: a mode and its value
  LowHalves,      \* what the lower half of a target's float may be
  WriteCap,       \* length of write_queue (20)
  ScreenCap       \* length of control_queue (50)

Word == 0..65535
Types == {"UNSET", "CO2_TARGET", "FAN_SPEED", "MODE_SET"}
Command == [type : Types, f : Int, w : Word]

ASSUME CapsAssumption == WriteCap \in Nat /\ ScreenCap \in Nat
ASSUME KnobAssumption ==
  /\ Step \in Nat /\ MaxSpeed \in Nat /\ MaxTarget \in Nat
  /\ MaxSpeed + Step < 65536
ASSUME InputAssumption ==
  /\ Stored \subseteq [speed : Word, target : Int, manual : BOOLEAN]
  /\ HeapCommands \subseteq Command /\ LowHalves \subseteq Word
  /\ WebCommands \subseteq [manual : BOOLEAN, value : Word]

VARIABLES
  writeQ, screenQ,            \* the queues of the controller and of the screen
  dropped,                    \* history: a full queue has dropped a command
  knobSpeed, knobTarget, knobManual,    \* the *_local members of Rotary
  knobChanged, toggled,       \* changed, toggled
  command,                    \* the record that interrupt and task share
  knobPc,                     \* where send_task is
  modeSent,                   \* history: the knob's task has sent a MODE_SET
  parserPc, web,              \* where the parser is, and what it was told last
                              \* (at first, what the system has booted with)
  manualMode, licence,        \* fan_read: the mode and its local `changed'
  obeyed,                     \* the last speed and target fan_read obeyed
  shownMode                   \* whether the screen says FAN

queues == <<writeQ, screenQ, dropped>>
knobSettings == <<knobSpeed, knobTarget, knobManual>>
knobFlags == <<knobChanged, toggled>>
knobTask == <<knobPc, modeSent>>
knob == <<knobSettings, knobFlags, command, knobTask>>
parser == <<parserPc, web>>
controller == <<manualMode, licence, obeyed>>
vars == <<queues, knob, parser, controller, shownMode>>

Init ==
  /\ writeQ = << >> /\ screenQ = << >> /\ dropped = FALSE
  /\ \E s \in Stored :
       /\ knobSpeed = s.speed /\ knobTarget = s.target /\ knobManual = s.manual
       /\ manualMode = s.manual
       /\ obeyed = [speed |-> s.speed, target |-> s.target]
       /\ shownMode = s.manual
       /\ web = [manual |-> s.manual, value |-> IF s.manual THEN s.speed ELSE s.target]
  /\ knobChanged = FALSE /\ toggled = FALSE
  /\ command \in HeapCommands
  /\ knobPc = "idle" /\ modeSent = FALSE
  /\ parserPc = "idle" /\ licence = FALSE

ToWrite(c) ==
  /\ writeQ' = SendNoWait(writeQ, WriteCap, c)
  /\ dropped' = (dropped \/ Len(writeQ) >= WriteCap)
  /\ UNCHANGED screenQ

ToScreen(c) ==
  /\ screenQ' = SendNoWait(screenQ, ScreenCap, c)
  /\ dropped' = (dropped \/ Len(screenQ) >= ScreenCap)
  /\ UNCHANGED writeQ

ToBoth(c) ==
  /\ writeQ' = SendNoWait(writeQ, WriteCap, c)
  /\ screenQ' = SendNoWait(screenQ, ScreenCap, c)
  /\ dropped' = (dropped \/ Len(writeQ) >= WriteCap \/ Len(screenQ) >= ScreenCap)

-----------------------------------------------------------------------------
(* The interrupt handler of the knob.  Every edge sets `changed'; a press  *)
(* too soon after the last one does nothing more.                          *)
Edge(event) ==
  /\ event \in KnobEvents
  /\ knobChanged' = TRUE
  /\ UNCHANGED <<command, knobTask, parser, controller, shownMode>>

Ignored ==
  /\ \E e \in {"mode", "button", "other"} : Edge(e)
  /\ UNCHANGED <<knobSettings, toggled, queues>>

PressMode ==
  /\ Edge("mode")
  /\ knobManual' = ~knobManual
  /\ UNCHANGED <<knobSpeed, knobTarget, toggled, queues>>

PressButton ==
  /\ Edge("button")
  /\ toggled' = TRUE
  /\ UNCHANGED <<knobSettings, queues>>

Up(n, limit) == IF n < limit THEN n + Step ELSE n

Down(n) == IF n > 0 THEN n - Step ELSE n

\* a turn also sends the record as it happens to be, not the new value
Turn(event, speed, target) ==
  /\ Edge(event)
  /\ \/ knobManual /\ knobSpeed' = speed /\ UNCHANGED knobTarget
     \/ ~knobManual /\ knobTarget' = target /\ UNCHANGED knobSpeed
  /\ ToBoth(command)
  /\ UNCHANGED <<knobManual, toggled>>

\* the speed is unsigned, the target a float
TurnUp == Turn("up", Up(knobSpeed, MaxSpeed), Up(knobTarget, MaxTarget))

TurnDown == Turn("down", Down(knobSpeed) % 65536, Down(knobTarget))

Interrupt == Ignored \/ PressMode \/ PressButton \/ TurnUp \/ TurnDown

-----------------------------------------------------------------------------
(* The task of the knob.                                                   *)
KnobGo(from, to) ==
  /\ knobPc = from /\ knobPc' = to
  /\ UNCHANGED <<knobSettings, parser, controller, shownMode>>

Rewrite(c) ==
  /\ command' = c
  /\ UNCHANGED <<knobFlags, modeSent, queues>>

KnobClear ==
  /\ KnobGo("idle", "check")
  /\ knobChanged
  /\ knobChanged' = FALSE
  /\ UNCHANGED <<toggled, command, modeSent, queues>>

KnobToggle ==
  /\ KnobGo("check", "modeType")
  /\ toggled
  /\ toggled' = FALSE
  /\ UNCHANGED <<knobChanged, command, modeSent, queues>>

KnobNoToggle ==
  /\ KnobGo("check", "choose")
  /\ ~toggled
  /\ UNCHANGED <<knobFlags, command, modeSent, queues>>

KnobModeType ==
  /\ KnobGo("modeType", "modeValue")
  /\ Rewrite([command EXCEPT !.type = "MODE_SET"])

KnobModeValue ==
  /\ KnobGo("modeValue", "modeWrite")
  /\ Rewrite([command EXCEPT !.w = IF knobManual THEN 1 ELSE 0])

KnobModeWrite ==
  /\ KnobGo("modeWrite", "modeScreen")
  /\ ToWrite(command)
  /\ UNCHANGED <<knobFlags, command, modeSent>>

\* mutant: the mode is not sent to the second subscriber
KnobModeForgotten ==
  /\ KnobGo("modeScreen", "choose")
  /\ modeSent' = TRUE
  /\ UNCHANGED <<knobFlags, command, queues>>

KnobModeScreen ==
  /\ KnobGo("modeScreen", "choose")
  /\ ToScreen(command)
  /\ modeSent' = TRUE
  /\ UNCHANGED <<knobFlags, command>>

\* the mode is read again, and the type written
KnobChooseSpeed ==
  /\ KnobGo("choose", "speed")
  /\ knobManual
  /\ Rewrite([command EXCEPT !.type = "FAN_SPEED"])

KnobChooseTarget ==
  /\ KnobGo("choose", "target")
  /\ ~knobManual
  /\ Rewrite([command EXCEPT !.type = "CO2_TARGET"])

KnobSpeed ==
  /\ KnobGo("speed", "write")
  /\ Rewrite([command EXCEPT !.w = knobSpeed])

KnobTarget ==
  /\ KnobGo("target", "write")
  /\ \E low \in LowHalves : Rewrite([command EXCEPT !.f = knobTarget, !.w = low])

KnobWrite ==
  /\ KnobGo("write", "screen")
  /\ ToWrite(command)
  /\ UNCHANGED <<knobFlags, command, modeSent>>

Finish(flag) ==
  /\ KnobGo("screen", "idle")
  /\ ToScreen(command)
  /\ knobChanged' = flag
  /\ UNCHANGED <<toggled, command, modeSent>>

\* mutant: `changed' is reset when the work is done
KnobScreenReset == Finish(FALSE)

KnobScreen == Finish(knobChanged)

KnobTask ==
  \/ KnobClear \/ KnobToggle \/ KnobNoToggle
  \/ KnobModeType \/ KnobModeValue \/ KnobModeWrite \/ KnobModeScreen
  \/ KnobChooseSpeed \/ KnobChooseTarget \/ KnobSpeed \/ KnobTarget
  \/ KnobWrite \/ KnobScreen

-----------------------------------------------------------------------------
(* The parser: an answer of the web service becomes a MODE_SET and a value *)
(* for the controller, then the same for the screen.  Only the part of the *)
(* union that a type uses is written; the other part is not looked at.     *)
ModeCommand == [type |-> "MODE_SET", f |-> 0, w |-> IF web.manual THEN 1 ELSE 0]

ValueCommand ==
  IF web.manual THEN [type |-> "FAN_SPEED", f |-> 0, w |-> web.value]
  ELSE [type |-> "CO2_TARGET", f |-> web.value, w |-> 0]

ParserGo(from, to) ==
  /\ parserPc = from /\ parserPc' = to
  /\ UNCHANGED <<knob, controller, shownMode>>

ParserTake(c) ==
  /\ ParserGo("idle", "mode")
  /\ web' = c
  /\ UNCHANGED queues

\* mutant: only manual mode is announced
ParserManualOnly ==
  /\ ParserGo("mode", "value")
  /\ IF web.manual THEN ToWrite(ModeCommand) ELSE UNCHANGED queues
  /\ UNCHANGED web

ParserMode == ParserGo("mode", "value") /\ ToWrite(ModeCommand) /\ UNCHANGED web

ParserValue == ParserGo("value", "modeScreen") /\ ToWrite(ValueCommand) /\ UNCHANGED web

ParserModeScreen ==
  ParserGo("modeScreen", "valueScreen") /\ ToScreen(ModeCommand) /\ UNCHANGED web

ParserValueScreen ==
  ParserGo("valueScreen", "idle") /\ ToScreen(ValueCommand) /\ UNCHANGED web

ParserTask == ParserMode \/ ParserValue \/ ParserModeScreen \/ ParserValueScreen

-----------------------------------------------------------------------------
(* fan_read: a value is obeyed once per MODE_SET, in the mode it belongs   *)
(* to.                                                                     *)
SetMode(c) ==
  /\ c.type = "MODE_SET"
  /\ licence' = TRUE
  /\ manualMode' = IF c.w \in {0, 1} THEN c.w = 1 ELSE manualMode
  /\ UNCHANGED obeyed

ObeyValue(c) ==
  /\ licence
  /\ licence' = FALSE
  /\ \/ c.type = "CO2_TARGET" /\ ~manualMode /\ obeyed' = [obeyed EXCEPT !.target = c.f]
     \/ c.type = "FAN_SPEED" /\ manualMode /\ obeyed' = [obeyed EXCEPT !.speed = c.w]
  /\ UNCHANGED manualMode

DropValue(c) ==
  /\ c.type # "MODE_SET"
  /\ \/ ~licence
     \/ c.type = "UNSET"
     \/ c.type = "CO2_TARGET" /\ manualMode
     \/ c.type = "FAN_SPEED" /\ ~manualMode
  /\ UNCHANGED controller

ReadCommand ==
  /\ writeQ # << >>
  /\ writeQ' = Tail(writeQ)
  /\ LET c == Head(writeQ) IN SetMode(c) \/ ObeyValue(c) \/ DropValue(c)
  /\ UNCHANGED <<screenQ, dropped, knob, parser, shownMode>>

(* set_target_task of Screen; of what it draws, the mode.                  *)
ScreenTake ==
  /\ screenQ # << >>
  /\ screenQ' = Tail(screenQ)
  /\ shownMode' = IF Head(screenQ).type = "MODE_SET" THEN Head(screenQ).w # 0
                  ELSE shownMode
  /\ UNCHANGED <<writeQ, dropped, knob, parser, controller>>

Next ==
  \/ Interrupt
  \/ KnobTask
  \/ \E c \in WebCommands : ParserTake(c)
  \/ ParserTask
  \/ ReadCommand
  \/ ScreenTake

Spec == Init /\ [][Next]_vars

(* The knob's task has the highest priority there is; nothing is assumed   *)
(* of the others, and nobody has to touch the knob.                        *)
Fairness == WF_vars(KnobTask)

FairSpec == Spec /\ Fairness

-----------------------------------------------------------------------------
KnobPcs == {"idle", "check", "modeType", "modeValue", "modeWrite", "modeScreen",
            "choose", "speed", "target", "write", "screen"}

(* Every variable has its type; the knob's settings fit their 16 bits and  *)
(* no queue outgrows its length.                                           *)
TypeOK ==
  /\ writeQ \in Seq(Command) /\ Len(writeQ) <= WriteCap
  /\ screenQ \in Seq(Command) /\ Len(screenQ) <= ScreenCap
  /\ dropped \in BOOLEAN
  /\ knobSpeed \in Word /\ knobTarget \in Int /\ knobManual \in BOOLEAN
  /\ knobChanged \in BOOLEAN /\ toggled \in BOOLEAN
  /\ command \in Command
  /\ knobPc \in KnobPcs /\ modeSent \in BOOLEAN
  /\ parserPc \in {"idle", "mode", "value", "modeScreen", "valueScreen"}
  /\ web \in [manual : BOOLEAN, value : Int]
  /\ web.manual => web.value \in Word
  /\ manualMode \in BOOLEAN /\ licence \in BOOLEAN
  /\ obeyed \in [speed : Word, target : Int]
  /\ shownMode \in BOOLEAN

Matches ==
  IF knobManual THEN command.type = "FAN_SPEED" /\ command.w = knobSpeed
  ELSE command.type = "CO2_TARGET" /\ command.f = knobTarget

(* No edge of the knob is lost between the interrupt handler and the task: *)
(* whenever the task rests and `changed' is clear, the last command it     *)
(* sent says what the knob is set to, although the handler changes the     *)
(* settings and the mode while the task composes commands from them.       *)
KnobSettled == modeSent /\ knobPc = "idle" /\ ~knobChanged => Matches

(* The screen and the controller agree on the mode when only the knob is   *)
(* used: once it has sent a mode, and when everything sent has been taken  *)
(* and nothing was dropped, although interrupts slip commands with another *)
(* command's value in between, which the two understand differently.       *)
ScreenAgrees ==
  modeSent /\ knobPc = "idle" /\ writeQ = << >> /\ screenQ = << >> /\ ~dropped
    => shownMode = manualMode

(* A command of the web service takes effect when nobody touches the knob  *)
(* and nothing is dropped: when the controller has taken everything, it    *)
(* has the mode and the value of the last one, however many came before,   *)
(* in whatever mode, and whether or not their licences were used; and when *)
(* the screen has taken everything, it shows that mode.                    *)
WebCommandHolds ==
  /\ parserPc \notin {"mode", "value"} /\ writeQ = << >> /\ ~dropped =>
       /\ manualMode = web.manual
       /\ web.value = IF web.manual THEN obeyed.speed ELSE obeyed.target
  /\ parserPc = "idle" /\ screenQ = << >> /\ ~dropped => shownMode = web.manual

(* A press of the button is answered: the task comes to send the mode,     *)
(* even when the press falls between its reading of the two flags.         *)
PressIsSent == toggled ~> ~toggled
=============================================================================
