--------------------------- MODULE ModbusReplies ----------------------------
(***************************************************************************)
(* What the bytes on the Modbus line say: requests, the replies that come  *)
(* in time, late or never, the UART's receive FIFO, the two DMA channels   *)
(* and the rxbuf of each register.  Nothing empties the FIFO before a      *)
(* transfer and nobody looks at is_ok(), so that bytes of a late reply are *)
(* taken for the next one.                                                 *)
(*                                                                         *)
(* As in ModbusBus, tasks may be preempted between any two steps of        *)
(* ModbusCtrl::start, so that two of them can be inside it, and the alarm  *)
(* of a transfer that has ended may end the next one.  There is one core:  *)
(* the interrupt of a channel that is done comes before any task.          *)
(*                                                                         *)
(* A byte is known by the request that it answers and its place in the     *)
(* reply.  DMA is faster than the line, the FIFO of the transmitter holds  *)
(* a request, and the timeout is longer than a request takes to send.      *)
(***************************************************************************)
EXTENDS Naturals, Sequences

CONSTANTS
  Readers, Writer,  \* the registers: those that are read, and the fan's speed
  ReplyLen,         \* the length of each register's reply
  Depth,            \* bytes that the receive FIFO holds (32)
  NoFrame,          \* nothing is being sent
  MaxRequests       \* bound: requests

Registers == Readers \cup {Writer}

ASSUME RepliesAssumption ==
  /\ Writer \notin Readers
  /\ ReplyLen \in [Registers -> Nat \ {0}]
  /\ Depth \in Nat
  /\ MaxRequests \in Nat

VARIABLES
  busy,         \* the flag
  pc,           \* where each register's task is
  made,         \* requests so far
  request,      \* the number of each register's last request
  target,       \* whose rxbuf the receive channel writes to
  active, left, \* it is transferring, and the bytes that it still waits for
  place,        \* where in rxbuf the next of them goes
  alarm,        \* "off", "set", or "old": set before the last request was sent
  sending,      \* the request that is being sent, and whether it follows
                \* the one before it without a gap
  owed,         \* registers and requests that a device has yet to answer
  coming,       \* bytes on the line
  fifo,         \* bytes in the receive FIFO
  rxbuf,        \* rxbuf of each register
  ended,        \* how each register's last transfer ended
  speed,        \* the request whose speed the fan runs at
  clear,        \* history: nothing was under way when the transfer began
  alone         \* history: busy was set then, and no other task in start

channel == <<target, active, left, place>>
line == <<owed, coming, fifo>>
history == <<made, request, clear, alone>>
vars == <<busy, pc, channel, alarm, sending, line, rxbuf, ended, speed, history>>

Byte(r, n, i) == <<r, n, i>>

Reply(r, n) == [i \in 1..ReplyLen[r] |-> Byte(r, n, i)]

\* the members are not initialised
Unset == <<NoFrame, 0, 0>>

Init ==
  /\ busy = FALSE /\ pc = [r \in Registers |-> "idle"]
  /\ made = 0 /\ request = [r \in Registers |-> 0]
  /\ target = Writer /\ active = FALSE /\ left = 0 /\ place = 1
  /\ alarm = "off"
  /\ sending = NoFrame
  /\ owed = {} /\ coming = << >> /\ fifo = << >>
  /\ rxbuf = [r \in Registers |-> [i \in 1..ReplyLen[r] |-> Unset]]
  /\ ended = [r \in Registers |-> "not"]
  /\ speed = 0
  /\ clear = [r \in Registers |-> FALSE] /\ alone = [r \in Registers |-> FALSE]

-----------------------------------------------------------------------------
(* ModbusCtrl::start, and the wait for the end of the transfer             *)

RxIsDue == active /\ left = 0

Go(r, from, to) == ~RxIsDue /\ pc[r] = from /\ pc' = [pc EXCEPT ![r] = to]

\* mutant: nobody looks at the flag
GateUnlocked(r) ==
  /\ Go(r, "idle", "claim")
  /\ UNCHANGED <<busy, channel, alarm, sending, line, rxbuf, ended, speed, history>>

(* The gap after the last transfer has passed.                             *)
Gate(r) ==
  /\ Go(r, "idle", "claim") /\ ~busy
  /\ UNCHANGED <<busy, channel, alarm, sending, line, rxbuf, ended, speed, history>>

Claim(r) ==
  /\ Go(r, "claim", "rx") /\ busy' = TRUE
  /\ UNCHANGED <<channel, alarm, sending, line, rxbuf, ended, speed, history>>

LineIsClear == sending = NoFrame /\ owed = {} /\ coming = << >> /\ fifo = << >>

Others(r) == Registers \ {r}

\* mutant: off by one
OneShort(r) == ReplyLen[r] - 1

(* rxlen                                                                   *)
Expected(r) == ReplyLen[r]

(* A channel that is still running may go on with its old count.           *)
StartRx(r) ==
  /\ Go(r, "rx", "tx")
  /\ made < MaxRequests /\ made' = made + 1
  /\ request' = [request EXCEPT ![r] = made + 1]
  /\ target' = r /\ active' = TRUE /\ place' = 1
  /\ \/ left' = Expected(r)
     \/ active /\ left' = left
  /\ ended' = [ended EXCEPT ![r] = "not"]
  /\ clear' = [clear EXCEPT ![r] =
                 LineIsClear /\ ~active /\ \A q \in Others(r) : pc[q] # "tx"]
  /\ alone' = [alone EXCEPT ![r] =
                 busy /\ \A q \in Others(r) : pc[q] \in {"idle", "wait"}]
  /\ UNCHANGED <<busy, alarm, sending, line, rxbuf, speed>>

(* The bytes of a request that is still being sent are followed at once by *)
(* those of the new one.                                                   *)
StartTx(r) ==
  /\ Go(r, "tx", "arm")
  /\ sending' = [of |-> <<r, request[r]>>, runsOn |-> sending # NoFrame]
  /\ alarm' = IF alarm = "off" THEN "off" ELSE "old"
  /\ UNCHANGED <<busy, channel, line, rxbuf, ended, speed, history>>

Arm(r) ==
  /\ Go(r, "arm", IF r = Writer THEN "idle" ELSE "wait")
  /\ alarm' = "set"
  /\ UNCHANGED <<busy, channel, sending, line, rxbuf, ended, speed, history>>

Wait(r) ==
  /\ Go(r, "wait", "idle") /\ ~busy
  /\ UNCHANGED <<busy, channel, alarm, sending, line, rxbuf, ended, speed, history>>

Run(r) == Gate(r) \/ Claim(r) \/ StartRx(r) \/ StartTx(r) \/ Arm(r) \/ Wait(r)

-----------------------------------------------------------------------------
(* The devices                                                             *)

(* The request has been sent, with a gap after it.  A device may be deaf   *)
(* or absent; two requests without a gap are one that no device takes.     *)
Sent ==
  /\ sending # NoFrame /\ sending' = NoFrame
  /\ \/ UNCHANGED <<owed, speed>>
     \/ /\ ~sending.runsOn
        /\ owed' = owed \cup {sending.of}
        /\ speed' = IF sending.of[1] = Writer THEN sending.of[2] ELSE speed
  /\ UNCHANGED <<busy, pc, channel, alarm, coming, fifo, rxbuf, ended, history>>

(* A device answers, or its answer is lost.                                *)
Answer ==
  /\ \E q \in owed :
       /\ owed' = owed \ {q}
       /\ coming' \in {coming, coming \o Reply(q[1], q[2])}
  /\ UNCHANGED <<busy, pc, channel, alarm, sending, fifo, rxbuf, ended, speed, history>>

(* A byte that finds the FIFO full is lost.                                *)
Arrive ==
  /\ coming # << >> /\ coming' = Tail(coming)
  /\ fifo' = IF Len(fifo) < Depth THEN Append(fifo, Head(coming)) ELSE fifo
  /\ UNCHANGED <<busy, pc, channel, alarm, sending, owed, rxbuf, ended, speed, history>>

-----------------------------------------------------------------------------
(* The receive channel moves a byte to the buffer of its transfer; beyond  *)
(* the reply's length nobody looks.                                        *)
Receive ==
  /\ active /\ left > 0 /\ left' = left - 1
  /\ fifo # << >> /\ fifo' = Tail(fifo)
  /\ place' = place + 1
  /\ rxbuf' = IF place \in 1..ReplyLen[target]
              THEN [rxbuf EXCEPT ![target][place] = Head(fifo)] ELSE rxbuf
  /\ UNCHANGED <<busy, pc, target, active, alarm, sending, owed, coming, ended, speed, history>>

(* ModbusCtrl::end: the channel is done...                                 *)
RxDone ==
  /\ RxIsDue /\ active' = FALSE
  /\ busy' = FALSE
  /\ ended' = [ended EXCEPT ![target] = "done"]
  /\ UNCHANGED <<pc, target, left, place, alarm, sending, line, rxbuf, speed, history>>

(* ... or the time is up, and the channels are aborted; the request is in  *)
(* the transmitter's FIFO and goes out whole.                              *)
AlarmFires ==
  /\ \/ alarm = "old"
     \/ alarm = "set" /\ sending = NoFrame
  /\ alarm' = "off"
  /\ active /\ left > 0 => fifo = << >>
  /\ active' = FALSE /\ left' = 0
  /\ busy' = FALSE
  /\ ended' = IF active THEN [ended EXCEPT ![target] = "timeout"] ELSE ended
  /\ UNCHANGED <<pc, target, place, sending, line, rxbuf, speed, history>>

Next ==
  \/ \E r \in Registers : Run(r)
  \/ Sent \/ Answer \/ Arrive \/ Receive \/ RxDone \/ AlarmFires

Spec == Init /\ [][Next]_vars

-----------------------------------------------------------------------------
(* A transfer that begins when nothing is under way on the line, and ends  *)
(* with the interrupt of the receive channel, leaves the register's buffer *)
(* with the whole reply to this very request, whatever late replies,       *)
(* losses, old alarms and overlapping starts there were before or come in  *)
(* between; and after a write the fan runs at the speed that was written.  *)
(* A reader that had the line for itself when its transfer began finds the *)
(* flag cleared only by the end of that transfer.                          *)
OwnReply ==
  \A r \in Registers :
    /\ clear[r] /\ ended[r] = "done" =>
         /\ rxbuf[r] = Reply(r, request[r])
         /\ r = Writer => speed = request[r]
    /\ alone[r] /\ pc[r] = "wait" /\ ~busy => ended[r] # "not"

(* Two requests follow each other without a gap only when bytes of an      *)
(* earlier reply, or an earlier transfer's alarm, ended the first one's    *)
(* transfer while it was being sent, or when two tasks were inside start,  *)
(* which counts the gap from the end of the transfer, not of the sending.  *)
GapUnlessOutOfStep ==
  [][sending # NoFrame /\ sending' \notin {sending, NoFrame} =>
       LET r == sending.of[1]
       IN  clear[r] /\ alone[r] => ended[r] = "timeout"]_vars
=============================================================================
