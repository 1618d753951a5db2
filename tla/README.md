# A TLA+ model of the CO2 controller

The firmware in `src/` runs on a Raspberry Pi Pico under FreeRTOS. It keeps the
CO2 level of a greenhouse near a target: sensors and the fan hang on a Modbus
line and on I2C, a solenoid valve lets CO2 in, a knob and a web service change
the target, the fan's speed and the mode, and an EEPROM keeps the settings.
This directory holds TLA+ models of its parts, the TLC runs that check them and
TLAPS proofs about them.

Contents: [parts](#the-parts-of-the-system), [modules](#modules),
[runs](#runs), [proofs](#proofs), [what disagrees](#where-code-and-comments-disagree),
[limits](#what-is-not-modelled), [plan](#plan).

## The parts of the system

| part | source | state | operations | should guarantee |
|---|---|---|---|---|
| FanController | `src/fan/fan_controller.cpp` | speed, counter, co2, target, mode, valve flag, valve pin, two one-shot timers, queues for readings (5) and commands (20) | tasks `fan_control` and `fan_read`, two timer callbacks, `set_initial_values` | the fan gets the speed the controller believes in; the valve closes and pauses; manual mode is respected; critical CO2 reaches the fan |
| register handlers | `src/registry/register_handler.cpp` | last reading, subscribers, write queue (5) | one task per register: read and publish once a second, or take a value and write it | every register is read again in time; readings belong to their register |
| device registry | `src/registry/device_registry.cpp` | maps of handlers | `initialize` task, `subscribe_to_handler` | no subscription is lost |
| ModbusCtrl, DMA, UART | `src/modbus/modbus_controller.cpp`, `src/pico_hw/` | busy, current_user, time of the last end, alarm, channels | `start`, `end` (interrupts of the receive channel and of the alarm) | one transfer at a time; the line always becomes free again |
| Modbus frames, CRC | `src/modbus/modbus_register.cpp`, `inc/modbus/modbus_crc.h` | payload, rxbuf | build frames, `get32`, `is_ok` | frames and CRC as the protocol says |
| PicoI2C, Fmutex | `src/i2c/PicoI2C.cpp`, `src/Fmutex.cpp` | buffers, counters, task to notify | `transaction`, `isr` | the count that is returned tells success from failure |
| Logger | `src/eeprom/logger.cpp` | queue (10), three pages | fetch at boot, store | a restart restores a state that existed |
| Rotary | `src/rotary/rotary.cpp` | local mode, target, speed; command under construction | interrupt handler, `send_task` | commands are whole |
| Screen, drawing | `src/display/` | mode, target, speed, frame buffer | two tasks | shows what the controller does |
| TLSWrapper | `src/wireless-tls/TLSWrapper.cpp` | message and response queues | send, parse, request tasks | a command is forwarded once |
| TLS client | `src/wireless-tls/tls_common.c` | connection state | lwIP callbacks, timeout | every connection is freed once |
| boot | `src/main.cpp` | construction order | `setup_task` | everything is wired before it is used |

**How they interact.** Readers publish `Reading`s to the queues of the
controller, the screen, the logger and the uplink; the knob and the uplink send
`Command`s to the controller's and the screen's queue; the controller sends
speeds to a `ModbusWriteHandler`. All sends use a timeout of 0 and ignore the
result, so a full queue drops the item. There are four priorities (logger and
uplink lowest, handlers and controller above them, the parser above those,
setup, knob and screen highest), equal priorities are time-sliced, and the timer
daemon is above all of them.

**What is hard here.** Members shared by tasks of one priority without a lock;
a busy flag that is tested and set in two steps; interrupts and alarms that end
somebody else's transfer; late replies that nobody throws away; queues that
drop; unsigned time arithmetic; settings written page by page while the power
may fail; callbacks of the network stack on a structure that another task
frees; a boot that takes seconds (Wi-Fi) while the controller already works.
`PROJECT.json` lists each of these under "hazards", at its line, with the
properties about it or the reason why there is none.

## Modules

| module | what it models |
|---|---|
| `Rtos` | a send that does not wait, and a one-shot timer, as pure operators |
| `FanController`, `ValveDuty` | the class of that name with its tasks, timers and surroundings; abstractly, what it promises about the valve |
| `CommandPath`, `OneUser` | the knob, the parser of web commands, `fan_read` and the screen's `set_target_task`, over the two command queues; the executions in which only the knob or only the web is used |
| `ModbusBus` | `ModbusCtrl`, the reader tasks and the writer task: who has the line |
| `ModbusReplies` | the bytes on that line: FIFO, late replies, each register's buffer |
| `ModbusFrame` | requests and replies byte by byte, `get32`, `is_ok` |
| `Checksums` | the two CRCs as the code computes them, and bit by bit |
| `PicoI2C`, `AtomicTransactions` | `transaction`, the interrupt handler, the mutex, the hardware's FIFOs; abstractly, what they promise the callers |
| `SettingsStore`, `DurableSettings` | handlers, logger, EEPROM pages, boot, power failures; abstractly, what they promise about the settings |
| `EepromPage` | one page byte by byte, its writing cut off anywhere |
| `TlsClient`, `Uplink` | one HTTPS request and the stack's callbacks; the tasks that make requests and use the answers |
| `Ssd1306`, `Screen` | how a picture gets to the display; how three tasks draw it |
| `Boot` | creation, registration and subscription in two tasks |
| `FanControllerProofs`, `ModbusBusProofs`, `CommandPathProofs`, `PicoI2CProofs`, `SettingsStoreProofs`, `ReplyProofs`, `UplinkProofs`, `DisplayProofs` | proofs, each about the module its name begins with (`ReplyProofs` about `ModbusReplies`, `UplinkProofs` about `TlsClient` in `Uplink`, `DisplayProofs` about `Ssd1306`) |
| `MC...` | instances for TLC |

Operators marked "mutant" in a module are not part of any specification. Each
is a wrong version of the definition that follows it, with a bug that could
have been written, and shows that a property notices it.

### FanController

The variables are the members of the class, its two queues, the writer's queue
`speedQ`, the level of the valve's pin (`valve`), the ticks left of the two
timers, and for each task where it is and its live locals. A task is cut at
each access to something another task, the boot task or a timer also accesses,
so an action is a stretch of code that nothing can observe in the middle:

- `fan_control`: `ControlBoot`, `ControlBootSend` (the `set_speed(0)` and the
  timer before the loop), `ControlReceive` (the receive loop), `ControlDecide`
  (the receive timed out; the mode is looked at once), `ControlCritical`, or
  `adjust_speed` as `ControlOpenValve`, `ControlBlock`, `ControlArmClear`,
  `ControlSpeedFor` (the target is read a second time), `ControlClip`,
  `ControlKeepLimit`, and `ControlSend`, the second half of `set_speed`;
- `fan_read`: `ReadCommand`, with one disjunct per branch, and `ReadSend`;
- `SetInitialValues`: the boot task. It has the highest priority, so one action;
- `Tick`: a tick and the callback of a timer that expires with it. The timer
  daemon has the highest priority of all; for the same reason its command queue
  never fills and `xTimerStart(..., 0)` does not fail;
- `Publish`, `SendCommand`, `TakeSpeed`: the surroundings.

The queue gets a copy of the *member* `speed` when `xQueueSend` runs, not of the
argument of `set_speed`; that is what keeps the queue and the member together.
In manual mode the receive loop goes straight back to receiving, which is
`ControlReceive` again. Delays of the tasks are not counted: a task may be
arbitrarily slow. CO2 levels are whole numbers. A float outside 0..65535
converted to `uint16_t` is undefined, so `ToUint16` offers the wrapped value and
both ends. `co2_target` and `spinning` start with anything, as on the heap.

`lost`, `overruns` and `sinceOpen` are history variables: the last offer to the
writer's queue was dropped, speeds `fan_control` assigned since manual mode was
entered, ticks since the valve opened.

`ValveDuty` is the abstract valve (ready, open, blocked, and the time since it
opened). `DutySpec` says that `FanController` implements it, with the phase read
off the pin and the flag and the age from `sinceOpen`. In particular
`BlockDelay` ticks pass between two openings.

### ModbusBus

`start` is cut into `Gate` (the test), `Claim` (`busy = true`), `SetUser`,
`StartDma` and `Arm`; `end` is one action since it runs in an interrupt, taken by
`RxDone` and by `AlarmFires`. `Poll` and `Wait` are the handlers' own loops on
`isbusy`. `BeginRead` and `Publish` are the ends of a reader's cycle, with
`DelayTime` in arithmetic modulo `Wrap`.

What the bytes say is left out. The receive channel may finish at any time while
it is active, since a late answer still in the FIFO can complete the next
transfer; it may also never finish. Time passes when no task can run and no
interrupt is due, so polls cost no time: cycles in the model are shorter than in
the program, never longer. A value for the writer may come at any moment.

### CommandPath

The knob's interrupt handler (`Interrupt`) is one action, since nothing else
runs meanwhile; it may come between any two others. `send_task` is cut at every
access to what the handler also reads or writes: the two flags, the mode, the
settings, the `Command` record and each send. A turn (`Turn`) changes a setting
and queues the record *as it is*, which the task may be rewriting at that moment.
So the model's record has a type and the two parts of the union: the number
whose float the upper half belongs to, and the lower half, which is also the
word. Writing a word leaves the upper half, writing a float replaces both; the
lower half of a float is any of `LowHalves`.

The parser (`ParserTake`, `ParserMode`, `ParserValue`, `ParserModeScreen`,
`ParserValueScreen`) starts after the text has been parsed. `ReadCommand` is
`fan_read` with its local `changed` (`licence`: one value is obeyed per
MODE_SET), and `ScreenTake` is `set_target_task` as far as it shows a mode.
`FanController` has the same `fan_read` with its effects on the fan; this module
is about where commands come from and leaves the fan out.

The model begins when the stored settings are installed everywhere; a knob that is
turned before that is not in it. `dropped` and `modeSent` are history: a full
queue has dropped something, the knob has sent a mode.

Facts that the model shows and no property forbids: a half-rewritten record can
reach the controller as a FAN_SPEED command whose word is a mode, and use the
licence; a torn MODE_SET whose word is neither 0 nor 1 makes the screen say
"FAN" and leaves the controller's mode, until the task sends the whole one; the
knob never learns of the web's commands, so a press after one sends the knob's
own mode, which may be the opposite of what the screen shows.

### ModbusReplies

Who has the line, and for how long, is `ModbusBus`; the question here is what is
in the buffers. The tasks are the same, without the ticks: `Gate`, `Claim`,
`StartRx`, `StartTx` and `Arm` are `ModbusCtrl::start`, between any two of which
another task may run, and `Wait` is the second loop of `mb_read`. A byte is the
register and request it answers and its place in the reply. `Sent` is the end of
the request, `Answer` a device that answers or whose answer is lost, `Arrive` and
`Receive` a byte's way through the UART's FIFO and the DMA channel, `RxDone` and
`AlarmFires` the two ways to `end`. An alarm is "old" once the next request is on
its way: nobody cancels it, and it may end that transfer at any time. The channel's
interrupt comes before any task (`RxIsDue`), since there is one core
(`FreeRTOSConfig.h:123`). Two variables are history, set in `StartRx`: `clear`,
nothing was under way on the line, on the channel or between another task's two
channels; `alone`, the flag was still set and no other task was inside `start`.

Facts: nothing empties the FIFO and nobody calls `is_ok`, so bytes of a late
reply become the next transfer's, which then ends early and leaves bytes for the
one after; the line stays out of step until a device is silent for a whole
timeout. A read that timed out publishes what the buffer held before. A write
that timed out is not repeated.

### ModbusFrame, Checksums

`Checksums` has `crc()` of `modbus_crc.h`, by its table, and `crc16()` of
`logger.cpp`, by its shifts, as a recursive function over the bytes, and each
polynomial bit by bit as the reference. `ModbusFrame` builds requests as
`start_transfer` does, gives them to a device that follows the Modbus protocol
(external), and reads its replies as `get16`, `get32` and `is_ok` do. A
32-bit number is a pair of words. The function code of a reply, and registers
beyond the device's two, are in the model as refusals.

### PicoI2C

The steps of a transaction are `Lock`, `Setup` (from disabling the controller to
filling its FIFO), `EnableIrq`, `Woken` or `TimeOut`, and `Return`; `Isr` is the
handler, one action; `Execute` and `Abort` are the hardware. Bytes are counted.
A FIFO of 2 instead of 16 makes jobs of up to 6 commands need up to two refills.
The time-out may come whenever no notification is pending, so it may come just
before the stop condition. That leaves a notification, or a latched stop, that
ends the next transaction too early, and the next after that one; the hazard is
noted at its line.

`AtomicTransactions` is the bus as its callers may see it: a transaction begins
when nobody else's is going on, the device carries it out or refuses it in one step
(`Finish`), bytes reach the buffer of the caller (`Collect`), and the call returns
afterwards with the full count; once a call has timed out (`TimeOut`), calls may
return too early. A transaction of `PicoI2C` has begun with `Setup`; `Finish` is the
execution of the last command, or the abort; `Collect` is what the handler does;
`Decide` is `Woken`. FIFOs, masks, latched stops and notifications do not appear,
and their steps change nothing there.

### SettingsStore, EepromPage

The three `FanCtrlReadHandler`s `Publish` a setting, and each reading makes the
logger write all three pages (`WritePage`, one after the other). `PowerFails`
may come between any two steps; a page under way is then old, new or does not
verify. The boot fetches (`FetchAll`) and installs (`Restore`). A failed
transaction goes unnoticed (`WriteFails`; `FetchFails`, any of a boot's three
reads). `had` and `seen` are
history: the values each setting has had, the settings received since power-on.

`DurableSettings` is the abstract store: no queue, no tasks, no order of the
pages. A page is given a value its setting has had, or the logger's zero as long
as the logger has not heard of that setting (`Store`), or is torn when the power
fails; a boot restores what the pages held at power-on (`Restore`). Its `kept`
is `Kept` of `SettingsStore`: the pages until the logger has fetched them, then
what it fetched.

`EepromPage` justifies the three outcomes of a torn page from its bytes: when the
old and the new number have as many digits, the CRC notices every cut. For
numbers of different lengths it may not: 840 written over 1666 and cut off after
four bytes verifies and reads 8466.

Facts: `eeprom_task` starts with zeros, and the first reading, of whichever
setting, writes them to the pages of the other two; a power failure then restores a zero
that nobody chose. The three pages may be of different moments.

### TlsClient, Uplink

`TlsClient` has the state of a request, the task that polls `complete` once a
second, and the callbacks of the stack. A callback that closes is two steps:
`tls_client_close` sets `complete` first and detaches from the connection
afterwards, and in between the waiting task may read the error and free the
state (`ReadError`, `Free`). The rest of the callback then works on freed memory:
`state->pcb` may still be the connection, or anything (`Detach`), and in the
second case the callbacks stay registered. The resolver's refusal, after which
the `pcb` itself is taken for a state to close (`OpenFails`), is no better. Both
set the history variable `stray`: `tls_client_close` has worked on memory that is
not its own. What is said of the uplink holds until then; in `Uplink` no new
request is followed once it is set, and `Astray` lets the execution stay there for
ever. The poll interval is the 8-bit
`10000 % 256`, 16 half-seconds.

`Uplink` adds `process_and_send_sensor_data_task` (`Compose`),
`get_server_commands_task` (the actions from `SendUpdate` to `Returns`) and the
parser (`Parse`), and a service that hands out each command once. A tick is a
second. The text that goes to the parser is an array that is not initialised: a
request that stored no response leaves the earlier text in it, so the
choice in `Texts` includes the last command. `silent` and `taken` are history.

Facts: a failed connection whose callback does not set an error counts as a
success; an answer that is lost is a command that is lost; an opening that fails
leaks the state. Strings are copied through the queues bit by bit, which works
only as long as nobody frees them; that is not in the model. `stray` is reachable
both ways, and so is a callback that begins on freed state after it.

### Ssd1306, Screen

`Ssd1306` has `show()` as the seven transactions it is, six bytes and the frame,
called by three tasks with the bus free in between. The display puts bytes
together to commands of three, from whomever they come, and one that begins with
127 sets the start line to 63; nothing sets it back. The window is repaired by a
later `show()`, which `set_target_task` calls every 100 ticks. A picture is a
number, and two halves tell a frame that is drawn in while it is being sent.

`Screen` has the frame: the operations fill, text and blit of three tasks on the
one `reading_blit_buf`. Of each watched field it keeps whether it is highlighted
and whether its text is its own. In manual mode a speed that `screen_task`
checked before a command may overwrite the highlighted one until the next
command; spoilt target and mode fields are not redrawn by readings at all.

### Boot

`Initialize` and `SetupTask` list what the two tasks do, in order; `RunInit` and
`RunSetup` do one after the other, each at its own pace: the constructor of
`TLSWrapper` usually makes `setup_task` the later one, but nothing makes it wait
(`main.cpp:41`-`48`). `NotFound` is a subscription that comes too early
(`unheard`), `GetWriteQueueHandle` one that may find no controller (the handle is
then "wrong"). A subscriber goes into a `std::vector` in two steps, `Find`, which
sees the vector as it is, and `PushBack`, which writes the receiver and the new
end; of two tasks that do it at a time one loses its subscriber (`clashed`). The
storage moves when it is full, and a loop of `send_reading` that began before
goes on in freed memory, where it may read anything ("freed"). The models follow
no crash, and the map that both tasks use without a lock is taken to be whole.

## Runs

| run | instance | result |
|---|---|---|
| `fan_safety` | CO2 above one target and below the other, and critical; targets 1000 and 1999; one commanded speed; both modes and a mode value nobody means; pulse counts; queues of 1; periods 1 and 2 | `TypeOK`, `SpeedDelivered`, `OverrunBound`, `ValveWillClose`, `SpeedInRange`, `DutySpec` hold |
| `fan_live` | CO2 below the target or critical; commanded speed 0; queues of 1 | `ValveComesBack`, `CriticalReachesFan` hold |
| `fan_manual` | as `fan_live` | `ManualStopsAdjustments` is violated |
| `bus_safety` | two readers, the writer; interval 4, timeout 2, ticks modulo 8 | `TypeOK`, `BusyWillEnd`, `EndHasUser`, `BusRecovers` hold |
| `bus_overlap`, `bus_oversleep` | the same with ticks modulo 16, readers symmetric | `OneStartsAtATime`, `SleepsAtMostInterval` are violated |
| `commands` | every edge of the knob, or three web commands; speeds 0 and 10, target 0; a record with an unknown mode at first; queues of 1 | `TypeOK`, `KnobSettled`, `ScreenAgrees`, `WebAloneHolds`, `PressIsSent` hold |
| `store` | two targets, one speed besides 0; a queue of 1; two changes, power failures or failed transactions; any contents of the pages at first | `TypeOK`, `DurableSpec`, `SettingsAreStored` hold |
| `uplink` | an update every 2 s; queues of 1 and 2; two commands; two silent requests counted | `TypeOK`, `CallbacksHaveState`, `TimeoutIsReported`, `RepeatNeedsSilence`, `RequestEnds` hold |
| `replies` | one reader and the writer; replies of 3 and 2 bytes; a FIFO of 2; three requests | `OwnReply`, `GapUnlessOutOfStep` hold |
| `display` | `Ssd1306` with three tasks and two drawings, or `Screen` with the speed's field and two commands | `TypesOK`, `OffByOneLine`, `RamCatchesUp`, `ReadingsHeal` hold |
| `small_parts` | `PicoI2C` with two tasks, four jobs and a FIFO of 2; `EepromPage` with eight numbers; `ModbusFrame` with seven words, one or two registers; `Boot` with one publisher, CO2, to which both tasks subscribe | `TypesOK`, `ServesHolder`, `NoThirdNumber`, `ChecksumsDivide`, `FramesCarryNumbers`, `WhoHearsCanCommand`, `AtomicSpec`, `CallsReturn`, `SubscribersAreFed` hold |

In `display` and `small_parts` several modules share a run: an execution follows
one of them, chosen at first, and the others rest. The modules share no
variables in the program either, and their fairness is required only of the
executions that follow them. In `commands` an execution has the knob's edges or
the web's commands (`OneUser`), because `ScreenAgrees` is about the first and
`WebAloneHolds` about the second; the proofs of `TypeCorrect` and `KnobSettles`
cover both at once.

**Why the bounds are enough.** A queue of length 1 can be empty and full, which
is all a send can tell. The CO2 levels take every branch of `fan_control`: 1950
is above the first target and below the second, 2000 is critical. 1999 is the
largest whole target for which the ramp is finite, and its quotient exceeds 16
bits. The periods keep what the code relies on, the first being shorter than the
second; the proofs cover all others. On the line, three tasks allow two
overlapping starts with a third waiting; an interval of two timeouts lets a task
be delayed past its interval by the transfers of the others. A `Wrap` of 8
instead of 2^32 makes the tick count wrap during the run and is more than the
longest cycle that occurs (6 ticks). For the knob, two speeds tell a record that
is up to date from an old one, and after a queue of 1 has taken a torn record
the whole one is dropped; modes depend on a target only by the lower half of its
float, and 32768 is that of 1500. A stored speed that makes the subtraction wrap
takes thousands of turns and is left to the proof. Two web commands of one mode
with different values show whose value is obeyed.

In `store` two events are a change and a failure in either order, or two
failures one in the other's recovery; the queue that overflows is the
interesting one. In `uplink` two commands tell a repeated one from a new one,
and the interval is short enough for `sensor_data_queue` to overflow while a
request is under way. Three requests in `replies` are a timeout, a
transfer that takes its late reply, and one that is out of step for that reason;
or two tasks inside `start` and one after them. The FIFO is shorter than the
longer reply, so that bytes are lost, and reply lengths that differ leave a
remainder. `PicoI2C`
with two tasks has one that inherits what the other left. The numbers of
`EepromPage` have one to four digits, as modes, speeds and targets have. Ten
of a page's bytes are followed; such a record takes at most nine, and the rest stays
as it was.

**What the properties say.** Each has its statement as a comment in its module. `SpeedDelivered`: when nobody is between assigning
and queueing, and the last offer found room, the last speed offered is the
member's. `OverrunBound`: at most one automatic adjustment follows the switch to
manual mode. `CriticalReachesFan`: if CO2 stays critical in automatic mode, the
fan is in the end told full speed and nothing else, although offers are dropped;
it holds because that branch does not return early when the speed is already
right. `ValveComesBack`: an open valve closes and a blocked one is released.
`SpeedInRange`: no target, however raced, makes automatic control leave
0..1000. `BusyWillEnd` and `BusRecovers`: an occupied line has an alarm or a
task that will set it, and becomes free, although starts overlap and the alarm
of an earlier transfer is never cancelled. `EndHasUser`: `end` never
dereferences an unset `current_user`. `OwnReply`: a transfer that begins on a
clear line and ends by its last byte has its own reply, after whatever losses and
overlapping starts and whoever starts after it, and a reader that began alone does
not leave its wait before its transfer has ended. `GapUnlessOutOfStep`: the gap
between requests is missing only behind a transfer that did not begin alone on a
clear line, or that an earlier transfer's alarm has ended. `KnobSettled`: `changed` is cleared before the
settings are read, so no edge falls between the two. `ScreenAgrees`: with the
knob alone, and nothing dropped, screen and controller end up with the same mode
whatever torn records came before. `WebAloneHolds`: licences of earlier pairs
never let an old value win, and the screen follows. `PressIsSent`: a press between the task's looks at
the two flags is not lost. `DurableSpec` and `SettingsAreStored`: what is
in the pages was a setting (or the zero described above), a boot restores what
the power failure left there although the logger may be overwriting it, and after
the last change the pages come to hold the present settings, those whose readings
go on finding room in the logger's queue (there is always one). `CallbacksHaveState`: no callback
begins on freed state, unless `tls_client_close` has worked on memory not its own
(`stray`, above); the same exception is in the three that follow. `TimeoutIsReported`: the poll callback sets the error before
`complete`. `RepeatNeedsSilence`: a command is obeyed twice only because of a
request without a response. `RequestEnds`: every request returns, by an answer, a
failure or the poll callback. `RamCatchesUp` and `ReadingsHeal`: mixed bytes and
mixed texts are in the end painted over. `ServesHolder`: the interrupt writes
into the buffer of, and wakes, only the task that holds the bus. `AtomicSpec`: no
transaction is ended by another one's stop or notification, and whoever returns has
all its bytes, until a call times out.
`WhoHearsCanCommand`: whoever hears readings has the controller's queue for its
commands; a `setup_task` so early that it takes a queue that is none hears nothing,
because the controller is made before any handler is registered.
`SubscribersAreFed`: whoever subscribed, however late, gets readings again and
again, unless the subscription came before the handler, or two tasks added to one
vector at a time; the controller's never comes too early, and loops over vectors
that have moved come to an end.

**Fairness.** Weak fairness for each task: tasks of one priority are time-sliced
and the higher ones block. Weak fairness of time: the tick interrupt is always
enabled, and delays and time-outs end. In `fan_live` the receive loop of
`fan_control` ends: sensors publish about one reading a second and the loop
waits 10 ms for the next, so the queue keeps running empty
(`[]<>(readingQ = << >>)`), and the end of the loop, possible again and again,
is taken (strong fairness of `ControlDecide`). On the line, due interrupts are
taken (`AlarmFires`, `GapElapses`); nothing is assumed of devices (`RxDone` is
not fair) or of who sends values to the writer. In `commands` only the knob's
task is fair, all that `PressIsSent` needs; nobody has to touch the knob. In
`store` each task is weakly fair and no more. Three handlers that publish once a
second without waiting compete for the places that the logger frees, and one that
is always behind in phase can be dropped for ever: TLC finds such executions, so
`SettingsAreStored` is, setting by setting, about those whose readings are taken
again and again, and says besides that there is always one. In `uplink` the tasks, time,
the end of a callback that has begun, the resolver's answer and the stack's poll
timer are weakly fair; servers are not. `PicoI2C` has strong fairness of taking
the mutex, since the tasks that compete for it do not hold it most of the time;
the hardware is not fair, the time-out is part of the task's step. `Screen` has
strong fairness of publishing a speed when there is room.

Deadlock is checked in all runs but `replies`, whose requests are bounded.

## Proofs

`FanControllerProofs`, from the assumptions that queues have a place, inputs have
the width of the code's types and the closing period is positive and shorter
than the pause:

- `TypeCorrect`: `TypeOK` is inductive as it stands.
- `SpeedIsDelivered`: `SpeedDelivered` is inductive with `TypeOK`. Every
  assignment puts its task inside `set_speed`; every accepted offer makes the
  member the last item; taking the only item makes it `written`.
- `OverrunIsBounded`: needs `OverrunInv`. An adjustment that has begun, began in
  automatic mode, so `overruns` is 0 until its assignment.
- `ValveClosingScheduled`, `ValveKeepsDuty`: need `ValveInv`, how the pin, the
  flag, the two timers and the place of `fan_control` hang together. Two clauses
  carry the argument: while the pause timer runs, `sinceOpen + clearLeft` is at
  least `BlockDelay`; while the valve is open and the pause timer runs,
  `closeLeft < clearLeft`, so the flag is never cleared under an open valve. The
  second theorem is the refinement of `ValveDuty`.
- `SpeedStaysInRange`: inductive with `TypeOK`, whose clause on `writeQ` says
  which speeds a command can carry.

`ModbusBusProofs`, for any set of readers and any times:

- `TypeCorrect`; `OccupationEnds`: `BusyWillEnd` is inductive: whoever sets
  `busy` is inside `start` until it sets the alarm, time does not pass while a
  task is inside, and the alarm's end also clears `busy`.
- `InterruptHasUser`: needs that a task at the channels or at the alarm has set
  `current_user`, which is never unset.

`CommandPathProofs`, for any step and limits with `MaxSpeed + Step < 2^16`, any
stored settings and any contents of the heap:

- `TypeCorrect`: `TypeOK` is inductive; the wrap of a speed below 0 stays a word.
- `KnobSettles`: needs `KnobInv`: while `changed` is clear, every step the task
  has taken since it cleared it worked with the present settings, because any
  edge would have set it again.
- `ModesAgree` (`ScreenAgrees`, for `OneUser`): needs `AgreeInv`. `EndsIn` says
  what mode a reader will be in when it has taken its queue: that of the last
  MODE_SET in it. Unless the task is sending a mode, both readers end in the same
  one, and so does the record, if it is a MODE_SET: the interrupt handler may send
  it again at any moment. While the task sends one, the controller's queue is
  the first to be right.
- `WebTakesEffect` (`WebAloneHolds`): needs `WebInv`, which follows the last pair
  of commands of the web: both in the controller's queue, or the mode taken and
  the licence with it, or both taken; earlier pairs may be anything.

`PicoI2CProofs`, for any tasks, jobs and FIFO depth:

- `InterruptServesHolder`: needs that whoever is inside a transaction holds the
  mutex, that `notify` is the holder from `Setup` on, and that the interrupt is
  enabled only between `EnableIrq` and `Return`; a late notification or a stop
  that is still latched does not matter to it.
- `TypeCorrect`: needs `Counting`: the commands are with the caller, in the FIFO or
  executed, unless an abort has flushed them, and the bytes read are in the
  receive FIFO or with the caller. That is why the bytes still asked for have
  room in the receive FIFO, however late the interrupt is served.
- `CallsEndByOwnStop`: needs `OwnStop`, which is about transactions that overlap in
  nothing but what is latched: as long as no task has timed out, whoever is not in
  a transaction has left no notification and no stop behind, and a task is
  notified only when its own transaction is complete or refused.
- `TransactionsAreAtomic`: the refinement of `AtomicTransactions`, step by step,
  from all three invariants: `Serving` says whose transaction is going on and that
  bytes are collected only then, `Counting` that the hardware has something to do
  only while the transaction is open, and `OwnStop` that whoever wakes up has all.

`SettingsStoreProofs`, for any targets, speeds, queue length and number of
failures:

- `StoreIsDurable`: the refinement of `DurableSettings`, step by step. Its
  invariant says where
  a value may be on its way from a setting to a page: every item of the queue,
  and every local of a setting that was received, has been that setting; the
  locals of the others are still zero. A second one says that a boot is done only
  after the fetch, so that a page misread changes nothing that was restored.
- `TypeCorrect`: the same invariant, and where the tasks are.

`ReplyProofs`, for any registers, reply lengths, FIFO depth and number of
requests, and any number of tasks inside `start`:

- `RepliesAreOwn`: needs two invariants. `OwnTransfer` is about a transfer that
  began on a clear line and still has the channel: its request is to be sent, then
  being sent, then owed, then answered, and the bytes received, in the FIFO and on
  the line are the beginning of the reply, in order; when they are as many as
  the reply has, they are the reply. A byte that is lost leaves fewer than are
  still expected, for good, so that such a transfer cannot end by its last byte.
  `Flow` is about the flag: as long as the transfer of a task that began alone has
  not ended, `busy` is set, the channel is its own and nobody else is inside
  `start`. The flag keeps the others out, and whatever clears it ends the transfer
  (`EndKeepsFlow`), be it another one's alarm.
- `GapsAreKept`: from the same invariants; while such a request is being sent
  nothing has been received and the flag is set, so no other task has begun unless
  an old alarm ended the transfer.

`UplinkProofs`, for any intervals, queues and commands:

- `StateOutlivesCallbacks`: needs `Owned`, how `complete`, the connection and the
  callback under way hang together as long as `stray` is not set: a request that
  is complete is one that the stack has forgotten, or that the callback under way
  is about to make it forget. Freeing the state during that callback sets `stray`,
  so what is proved is that this, or the close through the wrong pointer, is the
  only way to a callback on freed state.
- `TimeoutsAreReported`: needs that the error stays set once the poll callback
  has set it.
- `TypeCorrect`: `TypeOK` is inductive, in four parts; the numbers in the texts are
  bounded by those handed out because they are answers, or were.
- `RepeatsAreCounted` (`RepeatNeedsSilence`): needs `Accounted`, which counts a
  command wherever it is: taken by the parser, in `response_queue` (once for each
  place that holds it), or due in the answer of the request under way. The
  sum is at most 1 and one more for each silent request, and 0 for a command not
  yet handed out. The lemmas about `Queued` say what adding and taking a text
  do to the number of places.

`DisplayProofs`, for any tasks that draw, any fields and lengths of the queues,
about the two modules as `MCDisplay` puts them side by side:

- `AtMostOneLine`: of the bytes that are sent, only 127 can be taken for a start
  line, whatever the window has become.
- `TypesCorrect`: needs `Lists`, that what the tasks have left to do are
  operations with arguments of the right kind, and that a command which waits for
  its third byte began with an address command.

Only model-checked: the liveness properties, since the prover treats neither
fairness nor ENABLED (`ValveComesBack`, `CriticalReachesFan`, `BusRecovers`,
`PressIsSent`, `SettingsAreStored`, `RequestEnds`, `RamCatchesUp`, `ReadingsHeal`,
`CallsReturn`, `SubscribersAreFed`); what is said of `ModbusFrame`, `EepromPage`
and `Checksums`, which reach bitwise operators and compute by recursion; and
`WhoHearsCanCommand` of `Boot`, whose two lists of operations are fixed, so that the
run visits every interleaving of them there is. `TypesOK` of `small_parts` is about all four
of its modules; of these the part about `PicoI2C` is proved.

## Where code and comments disagree

With a run:

- `fan_manual`: "if true, stop all automagical fan adjustments"
  (`inc/fan/fan_controller.h:67`). One adjustment that has begun still goes
  through, and it may come after the speed that was commanded by hand.
- `bus_overlap`: "if busy and not enough delay for next transfer wait"
  (`src/modbus/modbus_controller.cpp:51`). Two tasks can pass the test together.
- `bus_oversleep`: "reading_interval = 1000; // ms"
  (`inc/registry/register_handler.h:77`). A cycle longer than the interval makes
  the unsigned delay wrap, and the reader sleeps for weeks. With more than one
  device silent, waiting for the line and for the timeouts takes that long.

Met while modelling, without a run of their own; the modules contain the
behaviour:

- A transaction that the device refuses returns the full count, although
  the result is meant to tell (`src/i2c/PicoI2C.cpp:134`, comment at 138): in
  `PicoI2C`, `Woken` after `Abort`.
- With a slow server, updates are always waiting and the service is
  never asked for commands (`src/wireless-tls/TLSWrapper.cpp:235`): in `Uplink`,
  `AskForCommands` needs `data = 0`.
- A connection that fails is reported as a success unless it fails by the
  time-out (`src/wireless-tls/tls_common.c:115` and 275).
- Mixed command bytes move the picture one line and nothing moves it back
  (`src/display/ssd1306os.cpp:123` and 67).
- A field may show another field's text (`src/display/screen.cpp:142`, 144).
- A word written to a register of two is refused by the device
  (`inc/modbus/modbus_register.h:41`, `src/modbus/modbus_register.cpp:115`).
- "up to 255 registers" (`src/modbus/modbus_register.cpp:44`): the reply to 14 or
  more does not fit the buffer.
- The loop of `send_reading` may go over storage that a subscription has
  just moved (`src/registry/register_handler.cpp:17`), two tasks may subscribe
  at a time, and `setup_task` may ask the registry before it is filled
  (`src/main.cpp:48`).
- `tls_client_close` sets `complete` before it has finished with the state, and
  the waiting task then frees it (`src/wireless-tls/tls_common.c:43`, 308); it is
  given the connection instead of the state at line 211.

## What is not modelled

What is drawn pixel by pixel (`framebuf`, `mono_vlsb`) is arithmetic on bytes
without state worth checking. The pressure sensor's arithmetic (`pressure_register`)
is one I2C transaction of `PicoI2C` and a conversion. The FreeRTOS kernel
is vendored; of it the models have what the program relies on (queues, one-shot
timers, notifications, priorities). lwIP, mbedTLS, devices and server are
external. Files that are not part of the firmware image (`PicoOsUart`,
`i2c_instance`, `critical_section`, `test_main`, `ssd1306.cpp`) stay out. The
polling periods of the waits (2, 5 and 50 ms) and the 1 s rhythm of
`fan_control` are abstracted to "some time". The text of updates and commands
is not modelled: how a command is found in the text of a response.

The repository's 147 000 lines are almost all the kernel with its ports;
the program's own code is about 4500. The map covers a small share of the first
and most of the control of the second.

## Plan

Done: the modules above, in the order `FanController`, `ModbusBus`,
`CommandPath`, `SettingsStore`, `PicoI2C`, `TlsClient` and `Uplink`,
`Ssd1306` and `Screen`, `ModbusReplies`, `EepromPage`, `ModbusFrame`, `Boot`.

Left, most valuable first:

1. The parsing of responses, and the bit-copied strings of the queues.
2. Queue and timer of the kernel, against `Rtos`.
