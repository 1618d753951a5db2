------------------------------ MODULE PicoI2C -------------------------------
(***************************************************************************)
(* One I2C bus: class PicoI2C with its mutex and interrupt handler, shared *)
(* by several tasks.  A transaction queues one command per byte in the     *)
(* controller's transmit FIFO, the interrupt handler refills it and        *)
(* collects what was read, and the stop condition notifies the task, which *)
(* waits for it for at most a second.                                      *)
(*                                                                         *)
(* Bytes and addresses are left out: commands are counted.  The hardware   *)
(* executes commands, meets a device that does not acknowledge, or stands  *)
(* still; the time-out may come whenever no notification is pending.  A    *)
(* stop condition stays latched until the handler clears it; whether       *)
(* disabling the controller loses it, or the stop of the transfer that is  *)
(* cut off thereby still gets latched, is left open.                       *)
(***************************************************************************)
EXTENDS Integers

CONSTANTS
  Tasks,      \* the tasks that use the bus
  Nobody,     \* the mutex is free; task_to_notify before the first transaction
  Jobs,       \* the transactions asked for: [w |-> wlength, r |-> rlength]
  Depth       \* entries of either hardware FIFO (16)

ASSUME BusAssumption ==
  /\ Nobody \notin Tasks
  /\ Depth \in Nat \ {0}
  /\ Jobs \subseteq [w : Nat, r : Nat]
  /\ \A j \in Jobs : j.w + j.r > 0      \* the assertion in transaction

VARIABLES
  access,     \* holder of the mutex
  pc,         \* where each task is
  value,      \* each task's notification value
  notify,     \* task_to_notify
  job, wctr, rctr, rcnt,  \* the transaction and what is left of it to queue and to read
  irqOn,      \* the interrupt is enabled at the interrupt controller
  mask,       \* intr_mask: "none", "stop", or "both" (stop and TX empty)
  fifo, rx,   \* entries in the transmit and in the receive FIFO
  done,       \* commands of the transaction the hardware has executed
  nacked,     \* the hardware has aborted the transaction
  stop,       \* the latched stop condition
  count,      \* the holder's local count
  late        \* history: some transaction has timed out

driver == <<notify, job, wctr, rctr, rcnt>>
chip == <<mask, fifo, rx, done, nacked, stop>>
vars == <<access, pc, value, driver, irqOn, chip, count, late>>

Least(a, b) == IF a < b THEN a ELSE b
Total == job.w + job.r

Init ==
  /\ access = Nobody
  /\ pc = [t \in Tasks |-> "idle"]
  /\ value = [t \in Tasks |-> 0]
  /\ notify = Nobody
  /\ job = [w |-> 0, r |-> 0] /\ wctr = 0 /\ rctr = 0 /\ rcnt = 0
  /\ irqOn = FALSE /\ mask = "none"
  /\ fifo = 0 /\ rx = 0 /\ done = 0 /\ nacked = FALSE /\ stop = FALSE
  /\ count = 0 /\ late = FALSE

Go(t, from, to) == pc[t] = from /\ pc' = [pc EXCEPT ![t] = to]

-----------------------------------------------------------------------------
(* PicoI2C::transaction                                                    *)

Call(t) ==
  /\ Go(t, "idle", "lock")
  /\ UNCHANGED <<access, value, driver, irqOn, chip, count, late>>

Lock(t) ==
  /\ Go(t, "lock", "setup")
  /\ access = Nobody
  /\ access' = t
  /\ UNCHANGED <<value, driver, irqOn, chip, count, late>>

(* tx_fill_fifo or rx_fill_fifo, as long as there is room: w and r are     *)
(* left to queue, n entries are queued already.                            *)
Fill(w, r, n) ==
  LET wn == Least(w, Depth - n)
      rn == IF w = 0 THEN Least(r, Depth - n) ELSE 0
  IN  wctr' = w - wn /\ rctr' = r - rn /\ fifo' = n + wn + rn

(* The controller is disabled and enabled, which empties its FIFOs.        *)
Setup(t) ==
  /\ Go(t, "setup", "enable")
  /\ notify' = t
  /\ job' \in Jobs
  /\ rcnt' = job'.r
  /\ Fill(job'.w, job'.r, 0)
  /\ mask' = "both"
  /\ rx' = 0 /\ done' = 0 /\ nacked' = FALSE
  /\ stop' \in {FALSE, stop \/ (done < Total /\ ~nacked)}
  /\ count' = job'.w + job'.r
  /\ UNCHANGED <<access, value, irqOn, late>>

EnableIrq(t) ==
  /\ Go(t, "enable", "wait")
  /\ irqOn' = TRUE
  /\ UNCHANGED <<access, value, driver, chip, count, late>>

(* ulTaskNotifyTake(pdTRUE, ...): the value is returned and cleared.       *)
Woken(t) ==
  /\ Go(t, "wait", "close")
  /\ value[t] # 0
  /\ value' = [value EXCEPT ![t] = 0]
  /\ count' = count - (rctr + wctr)
  /\ UNCHANGED <<access, driver, irqOn, chip, late>>

\* mutant: the task waits for the stop condition for ever
NoTimeOut(t) == FALSE /\ UNCHANGED vars

TimeOut(t) ==
  /\ Go(t, "wait", "close")
  /\ value[t] = 0
  /\ count' = 0
  /\ late' = TRUE
  /\ UNCHANGED <<access, value, driver, irqOn, chip>>

\* mutant: the interrupt stays enabled
LeaveIrqOn == UNCHANGED irqOn

DisableIrq == irqOn' = FALSE

\* the interrupt is disabled and the mutex released
Return(t) ==
  /\ Go(t, "close", "idle")
  /\ DisableIrq
  /\ access' = Nobody
  /\ UNCHANGED <<value, driver, chip, count, late>>

-----------------------------------------------------------------------------
(* PicoI2C::isr.  The FIFO counts as empty when its last command has been  *)
(* executed (TX_EMPTY_CTRL).                                               *)
TxEmpty == mask = "both" /\ fifo = 0
StopDet == mask # "none" /\ stop

\* mutant: one byte per interrupt
CollectOne == Least(1, Least(rcnt, rx))

Collected == Least(rcnt, rx)

Collect == rcnt' = rcnt - Collected /\ rx' = rx - Collected

Refill ==
  IF TxEmpty THEN Fill(wctr, rctr, 0) ELSE UNCHANGED <<wctr, rctr, fifo>>

\* mutant: clr_stop_det is not read
NotifyWithoutClear ==
  /\ mask' = "none" /\ UNCHANGED stop
  /\ value' = [value EXCEPT ![notify] = 1]

NotifyStop ==
  /\ mask' = "none" /\ stop' = FALSE
  /\ value' = [value EXCEPT ![notify] = 1]

Isr ==
  /\ irqOn /\ (TxEmpty \/ StopDet)
  /\ Collect
  /\ Refill
  /\ IF StopDet
     THEN NotifyStop
     ELSE /\ mask' = IF wctr' = 0 /\ rctr' = 0 THEN "stop" ELSE mask
          /\ UNCHANGED <<stop, value>>
  /\ UNCHANGED <<access, pc, notify, job, irqOn, done, nacked, count, late>>

-----------------------------------------------------------------------------
(* The hardware executes the next command, the stop condition being part   *)
(* of the last one.  It does nothing after an abort.                       *)
Execute ==
  /\ fifo > 0 /\ ~nacked
  /\ fifo' = fifo - 1
  /\ done' = done + 1
  /\ rx' = IF done < job.w THEN rx ELSE rx + 1
  /\ stop' = (stop \/ done + 1 = Total)
  /\ UNCHANGED <<access, pc, value, driver, irqOn, mask, nacked, count, late>>

(* A byte is not acknowledged: the FIFO is flushed and a stop is issued.   *)
Abort ==
  /\ fifo > 0 /\ ~nacked
  /\ fifo' = 0
  /\ nacked' = TRUE
  /\ stop' = TRUE
  /\ UNCHANGED <<access, pc, value, driver, irqOn, mask, rx, done, count, late>>

-----------------------------------------------------------------------------
Step(t) == Lock(t) \/ Setup(t) \/ EnableIrq(t) \/ Woken(t) \/ TimeOut(t) \/ Return(t)

Next ==
  \/ \E t \in Tasks : Call(t) \/ Step(t)
  \/ Isr \/ Execute \/ Abort

Spec == Init /\ [][Next]_vars

(* A task that can run is run, a second passes, and the mutex goes to a    *)
(* waiting task again and again.                                           *)
Fairness == \A t \in Tasks : WF_vars(Step(t)) /\ SF_vars(Lock(t))

FairSpec == Spec /\ Fairness

-----------------------------------------------------------------------------
Inside == {"setup", "enable", "wait", "close"}

\* reads among the commands in the transmit FIFO
ReadsQueued == Least(fifo, (Total - wctr - rctr) - job.w)

(* Every variable has its type, and neither FIFO is ever overfull: "Read   *)
(* is paced [by] writes to command register ... We just empty the rxfifo   *)
(* before additional writes to cmd register" instead of using the receive  *)
(* interrupt.  The bytes in the receive FIFO and those still asked for     *)
(* have room in it however late the interrupt is served.                   *)
TypeOK ==
  /\ access \in Tasks \cup {Nobody} /\ notify \in Tasks \cup {Nobody}
  /\ pc \in [Tasks -> {"idle", "lock"} \cup Inside]
  /\ value \in [Tasks -> {0, 1}]
  /\ job \in Jobs \cup {[w |-> 0, r |-> 0]}
  /\ wctr \in 0..job.w /\ rctr \in 0..job.r /\ rcnt \in 0..job.r
  /\ irqOn \in BOOLEAN /\ nacked \in BOOLEAN /\ stop \in BOOLEAN /\ late \in BOOLEAN
  /\ mask \in {"none", "stop", "both"}
  /\ fifo \in 0..Depth /\ done \in 0..Total /\ rx \in 0..Depth
  /\ count \in 0..Total
  /\ ReadsQueued > 0 => rx + ReadsQueued <= Depth

(* The handler writes through rbuf and notifies task_to_notify whenever    *)
(* the interrupt comes.  It can come only while the task it serves is      *)
(* inside its transaction, so a buffer on the stack of a task that has     *)
(* returned is never written, and no other task is woken.                  *)
ServesHolder ==
  /\ \A t \in Tasks : pc[t] \in Inside <=> access = t
  /\ irqOn => notify = access /\ access # Nobody /\ pc[access] \in {"wait", "close"}

(* As long as no transaction has timed out, each one ends by its own stop  *)
(* condition: everything has been sent and every byte read is in the       *)
(* caller's buffer, or the device has refused.                             *)
EndsByOwnStop ==
  \A t \in Tasks : pc[t] = "close" /\ ~late =>
     nacked \/ (done = Total /\ rcnt = 0 /\ count = Total)

(* A transaction has begun once its job and its numbers have been set up.  *)
Begun == access # Nobody /\ pc[access] \in {"enable", "wait", "close"}

Outcome ==
  IF nacked THEN "refused" ELSE IF done = Total THEN "whole" ELSE "open"

Atomic == INSTANCE AtomicTransactions
            WITH holder <- IF Begun THEN access ELSE Nobody,
                 outcome <- Outcome,
                 missing <- rcnt,
                 decided <- Begun /\ pc[access] = "close",
                 answer <- count

(* To the callers a transaction is one step of the device: it is carried   *)
(* out, or refused, at a moment between their call and its return, nobody  *)
(* else's comes in between, the bytes go to the caller's buffer before the *)
(* call returns and never afterwards, and the answer is the full count.    *)
(* It stays so, whatever interrupts and notifications come when, as long   *)
(* as no call has timed out.                                               *)
AtomicSpec == Atomic!Spec

(* Every call gets the bus and returns, whatever the device does.          *)
CallsReturn == \A t \in Tasks : pc[t] = "lock" ~> pc[t] = "idle"
=============================================================================
