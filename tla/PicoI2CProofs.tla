--------------------------- MODULE PicoI2CProofs ----------------------------
(***************************************************************************)
(* Proofs about PicoI2C, for every set of tasks, every choice of           *)
(* transactions and every depth of the FIFOs.                              *)
(***************************************************************************)
EXTENDS PicoI2C, TLAPS

Pcs == {"idle", "lock"} \cup Inside

(* What makes ServesHolder inductive: the task that has set up the         *)
(* transfer is the one to notify before the interrupt is enabled.          *)
Serving ==
  /\ access \in Tasks \cup {Nobody}
  /\ pc \in [Tasks -> Pcs]
  /\ ServesHolder
  /\ \A t \in Tasks : pc[t] = "enable" => notify = t /\ ~irqOn
  /\ \A t \in Tasks : pc[t] = "setup" => ~irqOn

LEMMA GoMoves ==
  ASSUME pc \in [Tasks -> Pcs], NEW t \in Tasks, NEW from, NEW to \in Pcs,
         Go(t, from, to)
  PROVE  /\ pc' \in [Tasks -> Pcs]
         /\ pc[t] = from /\ pc'[t] = to
         /\ \A u \in Tasks \ {t} : pc'[u] = pc[u]
BY DEF Go

(* At most one task is inside a transaction.                               *)
LEMMA OneInside ==
  ASSUME Serving, NEW t \in Tasks, pc[t] \in Inside
  PROVE  /\ access = t
         /\ \A u \in Tasks \ {t} : pc[u] \notin Inside
BY DEF Serving, ServesHolder

LEMMA AlwaysServing == Spec => []Serving
<1>1. Init => Serving
  BY BusAssumption DEF Init, Serving, ServesHolder, Pcs, Inside
<1>2. Serving /\ [Next]_vars => Serving'
  <2> SUFFICES ASSUME Serving, [Next]_vars PROVE Serving'
    OBVIOUS
  <2> USE DEF Serving, Pcs, Inside
  <2>1. ASSUME NEW t \in Tasks, Call(t) PROVE Serving'
    <3>1. Go(t, "idle", "lock") /\ UNCHANGED <<access, notify, irqOn>>
      BY <2>1 DEF Call, driver
    <3>2. QED
      BY <3>1, GoMoves, BusAssumption DEF ServesHolder
  <2>2. ASSUME NEW t \in Tasks, Lock(t) PROVE Serving'
    <3>1. /\ Go(t, "lock", "setup") /\ access = Nobody /\ access' = t
          /\ UNCHANGED <<notify, irqOn>>
      BY <2>2 DEF Lock, driver
    <3>2. ~irqOn /\ \A u \in Tasks : pc[u] \notin Inside
      BY <3>1, BusAssumption DEF ServesHolder
    <3>3. QED
      BY <3>1, <3>2, GoMoves DEF ServesHolder
  <2>3. ASSUME NEW t \in Tasks, Setup(t) PROVE Serving'
    <3>1. /\ Go(t, "setup", "enable") /\ notify' = t
          /\ UNCHANGED <<access, irqOn>>
      BY <2>3 DEF Setup
    <3>2. ~irqOn /\ access = t /\ \A u \in Tasks \ {t} : pc[u] \notin Inside
      BY <3>1, OneInside DEF Go
    <3>3. QED
      BY <3>1, <3>2, GoMoves DEF ServesHolder
  <2>4. ASSUME NEW t \in Tasks, EnableIrq(t) PROVE Serving'
    <3>1. Go(t, "enable", "wait") /\ irqOn' /\ UNCHANGED <<access, notify>>
      BY <2>4 DEF EnableIrq, driver
    <3>2. /\ notify = t /\ access = t
          /\ \A u \in Tasks \ {t} : pc[u] \notin Inside
      BY <3>1, OneInside DEF Go
    <3>3. QED
      BY <3>1, <3>2, GoMoves, BusAssumption DEF ServesHolder
  <2>5. ASSUME NEW t \in Tasks, Woken(t) \/ TimeOut(t) PROVE Serving'
    <3>1. Go(t, "wait", "close") /\ UNCHANGED <<access, notify, irqOn>>
      BY <2>5 DEF Woken, TimeOut, driver
    <3>2. access = t /\ \A u \in Tasks \ {t} : pc[u] \notin Inside
      BY <3>1, OneInside DEF Go
    <3>3. QED
      BY <3>1, <3>2, GoMoves, BusAssumption DEF ServesHolder
  <2>6. ASSUME NEW t \in Tasks, Return(t) PROVE Serving'
    <3>1. /\ Go(t, "close", "idle") /\ irqOn' = FALSE /\ access' = Nobody
          /\ UNCHANGED notify
      BY <2>6 DEF Return, DisableIrq, driver
    <3>2. \A u \in Tasks \ {t} : pc[u] \notin Inside
      BY <3>1, OneInside DEF Go
    <3>3. QED
      BY <3>1, <3>2, GoMoves, BusAssumption DEF ServesHolder
  <2>7. CASE Isr \/ Execute \/ Abort
    <3>1. UNCHANGED <<access, pc, notify, irqOn>>
      BY <2>7 DEF Isr, Execute, Abort, driver
    <3>2. QED
      BY <3>1 DEF ServesHolder
  <2>8. CASE UNCHANGED vars
    BY <2>8 DEF vars, driver, ServesHolder
  <2>9. QED
    BY <2>1, <2>2, <2>3, <2>4, <2>5, <2>6, <2>7, <2>8 DEF Next, Step
<1>3. QED
  BY <1>1, <1>2, PTL DEF Spec

(* The interrupt, while it can come, serves the task that holds the bus,   *)
(* and that task is still waiting in, or just leaving, its transaction: no *)
(* buffer of a finished call is written and no stranger is woken.          *)
THEOREM InterruptServesHolder == Spec => []ServesHolder
BY AlwaysServing, PTL DEF Serving

-----------------------------------------------------------------------------
(* The commands of a transaction are still to be queued, in the FIFO, or   *)
(* executed, unless an abort has flushed them; the bytes read are in the   *)
(* receive FIFO or with the caller; and the task that waits counts on the  *)
(* whole transaction.                                                      *)
Queued == Total - wctr - rctr

Counting ==
  /\ done + fifo <= Queued
  /\ ~nacked => done + fifo = Queued
  /\ rx + (job.r - rcnt) = IF done > job.w THEN done - job.w ELSE 0
  /\ \A t \in Tasks : pc[t] \in {"enable", "wait"} => count = Total

JobOK == job \in Jobs \cup {[w |-> 0, r |-> 0]}

Sizes ==
  /\ wctr \in 0..job.w /\ rctr \in 0..job.r /\ rcnt \in 0..job.r
  /\ fifo \in 0..Depth /\ done \in 0..Total /\ rx \in 0..Depth
  /\ ReadsQueued > 0 => rx + ReadsQueued <= Depth

Rest ==
  /\ notify \in Tasks \cup {Nobody}
  /\ value \in [Tasks -> {0, 1}]
  /\ irqOn \in BOOLEAN /\ nacked \in BOOLEAN /\ stop \in BOOLEAN /\ late \in BOOLEAN
  /\ mask \in {"none", "stop", "both"}

CountOK == count \in 0..Total

LEMMA TypeParts ==
  TypeOK <=> /\ access \in Tasks \cup {Nobody} /\ pc \in [Tasks -> Pcs]
             /\ Rest /\ JobOK /\ Sizes /\ CountOK
BY DEF TypeOK, Rest, JobOK, Sizes, CountOK, Pcs

LEMMA JobNumbers ==
  ASSUME JobOK
  PROVE  job.w \in Nat /\ job.r \in Nat /\ Total = job.w + job.r /\ Total \in Nat
BY BusAssumption DEF JobOK, Total

(* What a refill queues.                                                   *)
LEMMA FillCounts ==
  ASSUME NEW w \in Nat, NEW r \in Nat, Fill(w, r, 0)
  PROVE  /\ wctr' \in 0..w /\ rctr' \in 0..r /\ fifo' \in 0..Depth
         /\ fifo' = (w - wctr') + (r - rctr')
<1>1. Depth \in Nat /\ Depth > 0
  BY BusAssumption
<1>2. CASE w = 0
  <2>1. wctr' = 0 /\ rctr' = r - Least(r, Depth) /\ fifo' = Least(r, Depth)
    <3>1. Least(w, Depth - 0) = 0 /\ Depth - 0 = Depth
      BY <1>1, <1>2 DEF Least
    <3>2. Least(r, Depth) \in Nat
      BY <1>1 DEF Least
    <3>3. wctr' = 0 - 0 /\ rctr' = r - Least(r, Depth) /\ fifo' = 0 + 0 + Least(r, Depth)
      BY <1>2, <3>1 DEF Fill
    <3>4. QED
      BY <3>2, <3>3
  <2>2. QED
    BY <1>1, <1>2, <2>1 DEF Least
<1>3. CASE w # 0
  BY <1>1, <1>3 DEF Fill, Least
<1>4. QED
  BY <1>2, <1>3

(* What the numbers of a state are, in one place.                          *)
LEMMA Numbers ==
  ASSUME JobOK, Sizes
  PROVE  /\ job.w \in Nat /\ job.r \in Nat /\ Total = job.w + job.r
         /\ wctr \in Nat /\ wctr <= job.w /\ rctr \in Nat /\ rctr <= job.r
         /\ rcnt \in Nat /\ rcnt <= job.r
         /\ fifo \in Nat /\ fifo <= Depth /\ done \in Nat /\ done <= Total
         /\ rx \in Nat /\ rx <= Depth
         /\ Depth \in Nat /\ Depth > 0
BY JobNumbers, BusAssumption DEF Sizes

(* A transaction is set up.                                                *)
LEMMA SetupCounts ==
  ASSUME Serving, NEW t \in Tasks, Setup(t)
  PROVE  JobOK' /\ Sizes' /\ Counting' /\ CountOK'
<1>1. PICK j \in Jobs : job' = j
  BY DEF Setup
<1>2. /\ job'.w \in Nat /\ job'.r \in Nat /\ JobOK'
      /\ Total' = job'.w + job'.r
  BY <1>1, BusAssumption DEF JobOK, Total
<1>3. /\ rcnt' = job'.r /\ Fill(job'.w, job'.r, 0) /\ rx' = 0 /\ done' = 0
      /\ count' = job'.w + job'.r
  BY DEF Setup
<1>4. /\ wctr' \in 0..job'.w /\ rctr' \in 0..job'.r /\ fifo' \in 0..Depth
      /\ fifo' = (job'.w - wctr') + (job'.r - rctr')
  BY <1>2, <1>3, FillCounts
<1>5. Depth \in Nat
  BY BusAssumption
<1>6. ReadsQueued' <= fifo'
  BY <1>2, <1>4, <1>5 DEF ReadsQueued, Least
<1>7. ReadsQueued' \in Int
  BY <1>2, <1>4, <1>5 DEF ReadsQueued, Least
<1>8. Sizes'
  <2>1. rcnt' \in 0..job'.r /\ done' \in 0..Total' /\ rx' \in 0..Depth
    BY <1>2, <1>3, <1>5
  <2>2. rx' = 0 /\ fifo' \in Int /\ fifo' <= Depth
    BY <1>3, <1>4, <1>5
  <2>3. rx' + ReadsQueued' <= Depth
    <3> DEFINE n == ReadsQueued'
    <3>1. n \in Int /\ n <= fifo'
      BY <1>6, <1>7
    <3>2. HIDE DEF n
    <3>3. rx' + n <= Depth
      BY <1>5, <2>2, <3>1
    <3>4. QED
      BY <3>3 DEF n
  <2>4. QED
    BY <1>4, <2>1, <2>3 DEF Sizes
<1>9. Counting'
  BY <1>2, <1>3, <1>4, <1>5 DEF Counting, Queued
<1>10. CountOK'
  BY <1>2, <1>3 DEF CountOK
<1>11. QED
  BY <1>2, <1>8, <1>9, <1>10

(* What the interrupt handler collects is all there is to collect.         *)
LEMMA CollectsAll ==
  ASSUME JobOK, Sizes, Counting
  PROVE  rx <= rcnt /\ Collected = rx
<1>1. rx <= rcnt
  BY Numbers DEF Counting
<1>2. QED
  BY <1>1, Numbers DEF Collected, Least

LEMMA IsrCounts ==
  ASSUME JobOK, Sizes, Counting, CountOK, Isr
  PROVE  JobOK' /\ Sizes' /\ Counting' /\ CountOK'
<1>1. /\ job' = job /\ done' = done /\ nacked' = nacked /\ count' = count /\ pc' = pc
      /\ JobOK' /\ Total' = Total
  BY DEF Isr, JobOK, Total
<1>2. rx' = 0 /\ rcnt' = rcnt - rx /\ rcnt' \in 0..job.r
  BY CollectsAll, Numbers DEF Isr, Collect
<1>3. /\ wctr' \in 0..job.w /\ rctr' \in 0..job.r /\ fifo' \in 0..Depth
      /\ fifo' + (Total - wctr - rctr) = (Total - wctr' - rctr') + fifo
  <2>1. CASE TxEmpty
    <3>1. Fill(wctr, rctr, 0) /\ fifo = 0
      BY <2>1 DEF Isr, Refill, TxEmpty
    <3>2. /\ wctr' \in 0..wctr /\ rctr' \in 0..rctr /\ fifo' \in 0..Depth
          /\ fifo' = (wctr - wctr') + (rctr - rctr')
      BY <3>1, FillCounts, Numbers
    <3>3. QED
      BY <3>1, <3>2, Numbers
  <2>2. CASE ~TxEmpty
    BY <2>2, Numbers DEF Isr, Refill
  <2>3. QED
    BY <2>1, <2>2
<1>4. ReadsQueued' <= fifo' /\ ReadsQueued' \in Int
  BY <1>1, <1>3, Numbers DEF ReadsQueued, Least
<1>5. Sizes'
  BY <1>1, <1>2, <1>3, <1>4, Numbers DEF Sizes
<1>6. Counting'
  <2>1. done + fifo <= Queued /\ (~nacked => done + fifo = Queued)
    BY DEF Counting
  <2>2. done' + fifo' <= Queued' /\ (~nacked' => done' + fifo' = Queued')
    BY <1>1, <1>3, <2>1, Numbers DEF Queued
  <2>3. rx' + (job'.r - rcnt') = IF done' > job'.w THEN done' - job'.w ELSE 0
    BY <1>1, <1>2, Numbers DEF Counting
  <2>4. QED
    BY <1>1, <2>2, <2>3 DEF Counting
<1>7. QED
  BY <1>1, <1>5, <1>6 DEF CountOK

(* The hardware executes a command or gives up.                            *)
LEMMA HardwareCounts ==
  ASSUME JobOK, Sizes, Counting, CountOK, Execute \/ Abort
  PROVE  JobOK' /\ Sizes' /\ Counting' /\ CountOK'
<1>1. /\ UNCHANGED <<job, wctr, rctr, rcnt, count, pc>>
      /\ JobOK' /\ Total' = Total /\ CountOK'
  BY DEF Execute, Abort, driver, JobOK, Total, CountOK
<1>2. CASE Execute
  <2>1. /\ fifo > 0 /\ ~nacked /\ nacked' = nacked
        /\ fifo' = fifo - 1 /\ done' = done + 1
        /\ rx' = IF done < job.w THEN rx ELSE rx + 1
        /\ done + fifo = Queued
    BY <1>2 DEF Execute, Counting
  <2>2. ReadsQueued \in Int /\ ReadsQueued' \in Int
    BY <1>1, <2>1, Numbers DEF ReadsQueued, Least
  <2>3. CASE done < job.w
    <3>1. ReadsQueued' <= ReadsQueued /\ rx' = rx
      BY <1>1, <2>1, <2>3, Numbers DEF ReadsQueued, Least
    <3>2. Sizes'
      BY <1>1, <2>1, <2>2, <3>1, Numbers DEF Sizes, Queued
    <3>3. done' + fifo' = Queued'
      BY <1>1, <2>1, Numbers DEF Queued
    <3>4. rx' + (job'.r - rcnt') = IF done' > job'.w THEN done' - job'.w ELSE 0
      BY <1>1, <2>1, <2>3, Numbers DEF Counting
    <3>5. Counting'
      BY <1>1, <3>3, <3>4, Numbers DEF Counting, Queued
    <3>6. QED
      BY <1>1, <3>2, <3>5
  <2>4. CASE ~(done < job.w)
    <3>1. ReadsQueued = fifo /\ ReadsQueued' = fifo - 1
      BY <1>1, <2>1, <2>4, Numbers DEF ReadsQueued, Least, Queued
    <3>2. rx' = rx + 1 /\ rx + fifo <= Depth
      BY <2>1, <2>4, <3>1, Numbers DEF Sizes
    <3>3. Sizes'
      BY <1>1, <2>1, <3>1, <3>2, Numbers DEF Sizes, Queued
    <3>4. Counting'
      BY <1>1, <2>1, <2>4, Numbers DEF Counting, Queued
    <3>5. QED
      BY <1>1, <3>3, <3>4
  <2>5. QED
    BY <2>3, <2>4
<1>3. CASE Abort
  <2>1. fifo' = 0 /\ nacked' /\ UNCHANGED <<rx, done>>
    BY <1>3 DEF Abort
  <2>2. ~(ReadsQueued' > 0)
    BY <1>1, <2>1, Numbers DEF ReadsQueued, Least
  <2>3. Sizes'
    BY <1>1, <2>1, <2>2, Numbers DEF Sizes
  <2>4. Counting'
    BY <1>1, <2>1, Numbers DEF Counting, Queued
  <2>5. QED
    BY <1>1, <2>3, <2>4
<1>4. QED
  BY <1>2, <1>3

(* The other steps of a task leave the transaction's numbers alone.        *)
LEMMA TaskCounts ==
  ASSUME Serving, JobOK, Sizes, Counting, CountOK, NEW t \in Tasks,
         \/ Call(t) \/ Lock(t) \/ EnableIrq(t) \/ Woken(t) \/ TimeOut(t) \/ Return(t)
  PROVE  JobOK' /\ Sizes' /\ Counting' /\ CountOK'
<1>1. UNCHANGED <<job, wctr, rctr, rcnt, fifo, done, rx, nacked>>
  BY DEF Call, Lock, EnableIrq, Woken, TimeOut, Return, driver, chip
<1>2. JobOK' /\ Sizes' /\ Total' = Total /\ Queued' = Queued
  BY <1>1 DEF JobOK, Sizes, Total, Queued, ReadsQueued, Least
<1>3. pc \in [Tasks -> Pcs]
  BY DEF Serving
<1>4. CASE Call(t) \/ Lock(t) \/ EnableIrq(t) \/ Return(t)
  <2>1. count' = count
    BY <1>4 DEF Call, Lock, EnableIrq, Return
  <2>2. \A u \in Tasks : pc'[u] \in {"enable", "wait"} => pc[u] \in {"enable", "wait"}
    BY <1>3, <1>4, GoMoves DEF Call, Lock, EnableIrq, Return, Pcs, Inside
  <2>3. QED
    BY <1>1, <1>2, <2>1, <2>2 DEF Counting, CountOK
<1>5. CASE Woken(t) \/ TimeOut(t)
  <2>1. Go(t, "wait", "close")
    BY <1>5 DEF Woken, TimeOut
  <2>2. \A u \in Tasks : pc'[u] \notin {"enable", "wait"}
    BY <1>3, <2>1, GoMoves, OneInside DEF Pcs, Inside
  <2>3. count = Total
    BY <1>3, <2>1, GoMoves DEF Counting, Pcs, Inside
  <2>4. CountOK'
    <3>1. count' = count - (rctr + wctr) \/ count' = 0
      BY <1>5 DEF Woken, TimeOut
    <3>2. QED
      BY <1>2, <2>3, <3>1, Numbers DEF CountOK
  <2>5. QED
    BY <1>1, <1>2, <2>2, <2>4 DEF Counting
<1>6. QED
  BY <1>4, <1>5

LEMMA NextCounts ==
  ASSUME Serving, JobOK, Sizes, Counting, CountOK, [Next]_vars
  PROVE  JobOK' /\ Sizes' /\ Counting' /\ CountOK'
<1>1. CASE UNCHANGED vars
  <2>1. UNCHANGED <<job, wctr, rctr, rcnt, fifo, done, rx, nacked, count, pc>>
    BY <1>1 DEF vars, driver, chip
  <2>2. QED
    BY <2>1 DEF JobOK, Sizes, Counting, CountOK, Total, Queued, ReadsQueued, Least
<1>2. QED
  BY <1>1, SetupCounts, IsrCounts, HardwareCounts, TaskCounts DEF Next, Step

LEMMA NextRest ==
  ASSUME Serving, Rest, [Next]_vars
  PROVE  Rest'
<1>1. ASSUME NEW t \in Tasks, Call(t) \/ Step(t)
      PROVE  Rest'
  <2>1. \/ UNCHANGED <<notify, value, nacked, stop, mask>>
        \/ Setup(t) \/ Woken(t)
    BY <1>1 DEF Call, Step, Lock, EnableIrq, TimeOut, Return, driver, chip
  <2>2. irqOn' \in BOOLEAN /\ late' \in BOOLEAN
    BY <1>1 DEF Call, Step, Lock, Setup, EnableIrq, Woken, TimeOut, Return,
       DisableIrq, Rest
  <2>3. CASE Setup(t)
    <3>1. stop' \in BOOLEAN
      <4>1. stop' = FALSE \/ stop' = (stop \/ (done < Total /\ ~nacked))
        BY <2>3 DEF Setup
      <4>2. QED
        BY <4>1
    <3>2. notify' = t /\ value' = value /\ mask' = "both" /\ nacked' = FALSE
      BY <2>3 DEF Setup
    <3>3. QED
      BY <2>2, <3>1, <3>2 DEF Rest
  <2>4. CASE Woken(t)
    BY <2>2, <2>4 DEF Woken, Rest, driver, chip
  <2>5. QED
    BY <2>1, <2>2, <2>3, <2>4 DEF Rest
<1>2. CASE Isr
  <2>1. UNCHANGED <<notify, irqOn, nacked, late>>
    BY <1>2 DEF Isr
  <2>2. mask' \in {"none", "stop", "both"} /\ stop' \in BOOLEAN
    BY <1>2 DEF Isr, NotifyStop, Rest
  <2>3. value' \in [Tasks -> {0, 1}]
    BY <1>2 DEF Isr, NotifyStop, Rest
  <2>4. QED
    BY <2>1, <2>2, <2>3 DEF Rest
<1>3. CASE Execute \/ Abort
  <2>1. UNCHANGED <<notify, value, irqOn, mask, late>>
    BY <1>3 DEF Execute, Abort, driver
  <2>2. stop' \in BOOLEAN /\ nacked' \in BOOLEAN
    <3>1. /\ stop' = (stop \/ done + 1 = Total) \/ stop' = TRUE
          /\ nacked' = nacked \/ nacked' = TRUE
      BY <1>3 DEF Execute, Abort
    <3>2. QED
      BY <3>1 DEF Rest
  <2>3. QED
    BY <2>1, <2>2 DEF Rest
<1>4. CASE UNCHANGED vars
  BY <1>4 DEF vars, driver, chip, Rest
<1>5. QED
  BY <1>1, <1>2, <1>3, <1>4 DEF Next

LEMMA InitCounts == Init => Rest /\ JobOK /\ Sizes /\ Counting /\ CountOK
<1> SUFFICES ASSUME Init PROVE Rest /\ JobOK /\ Sizes /\ Counting /\ CountOK
  OBVIOUS
<1>1. Rest /\ JobOK
  BY DEF Init, Rest, JobOK
<1>2. job.w = 0 /\ job.r = 0 /\ Total = 0
  BY DEF Init, Total
<1>3. Depth \in Nat
  BY BusAssumption
<1>4. ReadsQueued = 0
  BY <1>2 DEF Init, ReadsQueued, Least
<1>5. Sizes /\ CountOK
  BY <1>2, <1>3, <1>4 DEF Init, Sizes, CountOK
<1>6. Counting
  BY <1>2 DEF Init, Counting, Queued
<1>7. QED
  BY <1>1, <1>5, <1>6

LEMMA AlwaysCounting == Spec => [](Rest /\ JobOK /\ Sizes /\ Counting /\ CountOK)
BY AlwaysServing, InitCounts, NextRest, NextCounts, PTL DEF Spec

(* Every variable keeps its type, and neither FIFO is ever overfull: the   *)
(* bytes received and the reads still queued fit in the receive FIFO for   *)
(* every depth and every transaction, although the handler empties it only *)
(* when it refills the transmit FIFO, and however late it is called.       *)
THEOREM TypeCorrect == Spec => []TypeOK
BY AlwaysServing, AlwaysCounting, TypeParts, PTL DEF Serving

-----------------------------------------------------------------------------
(* As long as no transaction has timed out, a stop condition is that of    *)
(* the present transaction, a notification tells of it, and between two    *)
(* transactions nothing is latched that could end the next one.            *)
Finished == nacked \/ done = Total

NothingPending == mask = "none" /\ ~stop /\ Finished

Complete == nacked \/ (done = Total /\ rcnt = 0 /\ wctr = 0 /\ rctr = 0)

OwnStop ==
  ~late =>
    /\ stop => Finished
    /\ \A t \in Tasks : value[t] # 0 => pc[t] = "wait" /\ NothingPending /\ Complete
    /\ (\A t \in Tasks : pc[t] \notin {"enable", "wait"}) => NothingPending
    /\ \A t \in Tasks :
         pc[t] = "close" => nacked \/ (done = Total /\ rcnt = 0 /\ count = Total)

(* A step of one task that touches neither the chip nor a notification.    *)
LEMMA QuietOwnStop ==
  ASSUME Serving, OwnStop, NEW t \in Tasks,
         UNCHANGED <<value, driver, chip, count, late>>,
         Call(t) \/ Lock(t) \/ EnableIrq(t) \/ Return(t)
  PROVE  OwnStop'
<1> USE DEF Pcs, Inside
<1>1. pc \in [Tasks -> Pcs]
  BY DEF Serving
<1>2. UNCHANGED <<value, mask, stop, nacked, done, rcnt, wctr, rctr, count, job, late>>
  BY DEF driver, chip
<1>3. /\ Finished' = Finished /\ NothingPending' = NothingPending
      /\ Complete' = Complete /\ Total' = Total
  BY <1>2 DEF Finished, NothingPending, Complete, Total
<1>4. SUFFICES ASSUME ~late
               PROVE  /\ \A u \in Tasks : value[u] # 0 => pc'[u] = "wait"
                      /\ (\A u \in Tasks : pc'[u] \notin {"enable", "wait"})
                           => NothingPending
                      /\ \A u \in Tasks : pc'[u] = "close" => pc[u] = "close"
  BY <1>2, <1>3 DEF OwnStop
<1>5. CASE Call(t) \/ Lock(t)
  <2>1. pc[t] \in {"idle", "lock"} /\ pc'[t] \in {"lock", "setup"}
    BY <1>1, <1>5, GoMoves DEF Call, Lock
  <2>2. \A u \in Tasks \ {t} : pc'[u] = pc[u]
    BY <1>1, <1>5, GoMoves DEF Call, Lock
  <2>3. QED
    BY <1>4, <2>1, <2>2 DEF OwnStop
<1>6. CASE EnableIrq(t)
  <2>1. /\ pc[t] = "enable" /\ pc'[t] = "wait"
        /\ \A u \in Tasks \ {t} : pc'[u] = pc[u]
    BY <1>1, <1>6, GoMoves DEF EnableIrq
  <2>2. QED
    BY <1>4, <2>1 DEF OwnStop
<1>7. CASE Return(t)
  <2>1. /\ pc[t] = "close" /\ pc'[t] = "idle"
        /\ \A u \in Tasks \ {t} : pc'[u] = pc[u]
    BY <1>1, <1>7, GoMoves DEF Return
  <2>2. \A u \in Tasks \ {t} : pc[u] \notin Inside
    BY <2>1, OneInside
  <2>3. QED
    BY <1>4, <2>1, <2>2 DEF OwnStop
<1>8. QED
  BY <1>5, <1>6, <1>7

LEMMA SetupOwnStop ==
  ASSUME Serving, JobOK, Sizes, OwnStop, NEW t \in Tasks, Setup(t)
  PROVE  OwnStop'
<1> USE DEF Pcs, Inside
<1>1. /\ pc[t] = "setup" /\ pc'[t] = "enable"
      /\ \A u \in Tasks \ {t} : pc'[u] = pc[u]
  BY GoMoves DEF Setup, Serving
<1>2. \A u \in Tasks \ {t} : pc[u] \notin Inside
  BY <1>1, OneInside
<1>3. late' = late /\ value' = value
  BY DEF Setup
<1>4. SUFFICES ASSUME ~late PROVE OwnStop'
  BY <1>3 DEF OwnStop
<1>5. NothingPending /\ \A u \in Tasks : value[u] = 0
  BY <1>1, <1>2, <1>4 DEF OwnStop
<1>6. ~stop'
  <2>1. stop' = FALSE \/ stop' = (stop \/ (done < Total /\ ~nacked))
    BY DEF Setup
  <2>2. ~stop /\ (nacked \/ done = Total)
    BY <1>5 DEF NothingPending, Finished
  <2>3. ~(done < Total /\ ~nacked)
    BY <2>2, Numbers
  <2>4. QED
    BY <2>1, <2>2, <2>3
<1>7. QED
  BY <1>1, <1>2, <1>3, <1>5, <1>6 DEF OwnStop

LEMMA WokenOwnStop ==
  ASSUME Serving, Rest, JobOK, Sizes, Counting, OwnStop, NEW t \in Tasks, Woken(t)
  PROVE  OwnStop'
<1> USE DEF Pcs, Inside
<1>1. /\ pc[t] = "wait" /\ pc'[t] = "close"
      /\ \A u \in Tasks \ {t} : pc'[u] = pc[u]
  BY GoMoves DEF Woken, Serving
<1>2. \A u \in Tasks \ {t} : pc[u] \notin Inside
  BY <1>1, OneInside
<1>3. UNCHANGED <<mask, stop, nacked, done, rcnt, wctr, rctr, job, late>>
  BY DEF Woken, driver, chip
<1>4. SUFFICES ASSUME ~late PROVE OwnStop'
  BY <1>3 DEF OwnStop
<1>5. NothingPending /\ Complete
  BY <1>4 DEF Woken, OwnStop
<1>6. NothingPending' /\ Finished' /\ Total' = Total
  BY <1>3, <1>5 DEF NothingPending, Finished, Total
<1>7. \A u \in Tasks : value'[u] = 0
  <2>1. ASSUME NEW u \in Tasks \ {t} PROVE value[u] = 0
    <3>1. value[u] # 0 => pc[u] = "wait"
      BY <1>4, Zenon DEF OwnStop
    <3>2. QED
      BY <1>2, <3>1
  <2>2. QED
    BY <2>1 DEF Woken, Rest
<1>8. nacked \/ (done = Total /\ rcnt = 0 /\ count' = Total)
  <2>1. count' = count - (rctr + wctr) /\ count = Total
    BY <1>1 DEF Woken, Counting
  <2>2. QED
    BY <1>5, <2>1, Numbers DEF Complete
<1>9. \A u \in Tasks : pc'[u] = "close" => u = t
  BY <1>1, <1>2
<1>10. QED
  BY <1>3, <1>6, <1>7, <1>8, <1>9 DEF OwnStop

(* The handler is called for the transaction of a waiting task.            *)
LEMMA IsrServesWaiter ==
  ASSUME Serving, OwnStop, ~late, Isr
  PROVE  /\ notify = access /\ access \in Tasks /\ pc[access] = "wait"
         /\ \A u \in Tasks : u # access => pc[u] \notin Inside
         /\ \A u \in Tasks : value[u] = 0
<1> USE DEF Pcs, Inside
<1>1. irqOn /\ mask # "none"
  BY DEF Isr, TxEmpty, StopDet
<1>2. /\ notify = access /\ access \in Tasks /\ pc[access] \in {"wait", "close"}
      /\ \A u \in Tasks : u # access => pc[u] \notin Inside
  BY <1>1 DEF Serving, ServesHolder
<1>3. ~NothingPending
  BY <1>1 DEF NothingPending
<1>4. pc[access] = "wait" /\ \A u \in Tasks : value[u] = 0
  BY <1>2, <1>3 DEF OwnStop
<1>5. QED
  BY <1>2, <1>4

LEMMA IsrOwnStop ==
  ASSUME Serving, Rest, JobOK, Sizes, Counting, JobOK', Sizes', Counting',
         OwnStop, Isr
  PROVE  OwnStop'
<1>1. UNCHANGED <<job, done, nacked, late, pc>> /\ Total' = Total
  BY DEF Isr, Total
<1>2. SUFFICES ASSUME ~late PROVE OwnStop'
  BY <1>1 DEF OwnStop
<1>3. /\ notify = access /\ access \in Tasks /\ pc[access] = "wait"
      /\ \A u \in Tasks : u # access => pc[u] \notin Inside
      /\ \A u \in Tasks : value[u] = 0
  BY <1>2, IsrServesWaiter
<1>4. \A u \in Tasks : pc[u] # "close"
  BY <1>3 DEF Inside
<1>5. Finished' = Finished
  BY <1>1 DEF Finished
<1>6. CASE StopDet
  <2>1. /\ stop /\ mask' = "none" /\ stop' = FALSE
        /\ value' = [value EXCEPT ![access] = 1]
    BY <1>3, <1>6 DEF Isr, StopDet, NotifyStop
  <2>2. Finished'
    BY <1>2, <1>5, <2>1 DEF OwnStop
  <2>3. NothingPending'
    BY <2>1, <2>2 DEF NothingPending
  <2>4. Complete'
    <3>1. SUFFICES ASSUME ~nacked, done = Total
                   PROVE  rcnt' = 0 /\ wctr' = 0 /\ rctr' = 0
      BY <1>1, <2>2 DEF Complete, Finished
    <3>2. rx' = 0 /\ rcnt' \in Nat /\ rcnt' <= job.r
      BY <1>1, CollectsAll, Numbers DEF Isr, Collect, Counting
    <3>3. rx' + (job.r - rcnt') = IF done > job.w THEN done - job.w ELSE 0
      BY <1>1 DEF Counting
    <3>4. rcnt' = 0
      BY <3>1, <3>2, <3>3, Numbers
    <3>5. wctr' \in Nat /\ rctr' \in Nat /\ fifo' \in Nat
      BY <1>1, Numbers DEF Sizes
    <3>6. done + fifo' <= Total - wctr' - rctr'
      BY <1>1 DEF Counting, Queued
    <3>7. wctr' = 0 /\ rctr' = 0
      BY <3>1, <3>5, <3>6, Numbers
    <3>8. QED
      BY <3>4, <3>7
  <2>5. \A u \in Tasks : value'[u] # 0 => u = access
    BY <1>3, <2>1 DEF Rest
  <2>6. QED
    BY <1>1, <1>3, <1>4, <2>1, <2>3, <2>4, <2>5 DEF OwnStop
<1>7. CASE ~StopDet
  <2>1. UNCHANGED <<stop, value>>
    BY <1>7 DEF Isr
  <2>2. stop => Finished
    BY <1>2 DEF OwnStop
  <2>3. QED
    BY <1>1, <1>3, <1>4, <1>5, <2>1, <2>2 DEF OwnStop
<1>8. QED
  BY <1>6, <1>7

(* The hardware does something only in the middle of a transaction.        *)
LEMMA HardwareOwnStop ==
  ASSUME Serving, JobOK, Sizes, Counting, OwnStop, Execute \/ Abort
  PROVE  OwnStop'
<1>1. UNCHANGED <<access, pc, value, job, late, rcnt, count>> /\ Total' = Total
  BY DEF Execute, Abort, driver, Total
<1>2. SUFFICES ASSUME ~late PROVE OwnStop'
  BY <1>1 DEF OwnStop
<1>3. fifo > 0 /\ ~nacked
  BY DEF Execute, Abort
<1>4. ~Finished
  <2>1. done + fifo <= Total - wctr - rctr
    BY DEF Counting, Queued
  <2>2. done # Total
    BY <1>3, <2>1, Numbers
  <2>3. QED
    BY <1>3, <2>2 DEF Finished
<1>5. /\ ~stop
      /\ \A u \in Tasks : value[u] = 0 /\ pc[u] # "close"
      /\ \E u \in Tasks : pc[u] \in {"enable", "wait"}
  BY <1>2, <1>4 DEF OwnStop, NothingPending, Finished
<1>6. stop' => Finished'
  BY <1>1, <1>5 DEF Execute, Abort, Finished
<1>7. QED
  BY <1>1, <1>5, <1>6 DEF OwnStop

LEMMA NextOwnStop ==
  ASSUME Serving, Rest, JobOK, Sizes, Counting, CountOK, OwnStop, [Next]_vars
  PROVE  OwnStop'
<1>1. ASSUME NEW t \in Tasks, Call(t) \/ Lock(t) \/ EnableIrq(t) \/ Return(t)
      PROVE  OwnStop'
  <2>1. UNCHANGED <<value, driver, chip, count, late>>
    BY <1>1 DEF Call, Lock, EnableIrq, Return
  <2>2. QED
    BY <1>1, <2>1, QuietOwnStop
<1>2. ASSUME NEW t \in Tasks, TimeOut(t) PROVE OwnStop'
  BY <1>2 DEF TimeOut, OwnStop
<1>3. CASE Isr
  BY <1>3, NextCounts, IsrOwnStop
<1>4. CASE UNCHANGED vars
  BY <1>4 DEF vars, driver, chip, OwnStop, Finished, NothingPending, Complete, Total
<1>5. QED
  BY <1>1, <1>2, <1>3, <1>4, SetupOwnStop, WokenOwnStop, HardwareOwnStop
     DEF Next, Step

LEMMA AlwaysOwnStop == Spec => []OwnStop
<1>1. Init => OwnStop
  BY DEF Init, OwnStop, NothingPending, Finished, Complete, Total
<1>2. Serving /\ (Rest /\ JobOK /\ Sizes /\ Counting /\ CountOK) /\ OwnStop /\ [Next]_vars
        => OwnStop'
  BY NextOwnStop
<1>3. QED
  BY <1>1, <1>2, AlwaysServing, AlwaysCounting, PTL DEF Spec

(* A call that has never been cut short by a time-out anywhere returns     *)
(* because its own transfer has ended: all was sent, every byte asked for  *)
(* is in the caller's buffer, or the device has refused.  A stop condition *)
(* of an earlier transfer never ends a later one, for any number of tasks, *)
(* any transactions and any depth of the FIFOs.                            *)
THEOREM CallsEndByOwnStop == Spec => []EndsByOwnStop
<1>1. OwnStop => EndsByOwnStop
  BY DEF OwnStop, EndsByOwnStop
<1>2. QED
  BY <1>1, AlwaysOwnStop, PTL

-----------------------------------------------------------------------------
(* The refinement of AtomicTransactions.  Holder is whose transaction has  *)
(* begun; the steps of the others do not change it.                        *)
Holder == IF Begun THEN access ELSE Nobody

Decided == Begun /\ pc[access] = "close"

LEMMA WhoHolds ==
  ASSUME Serving
  PROVE  /\ \A t \in Tasks : pc[t] \in {"enable", "wait", "close"} =>
                               Begun /\ access = t /\ Holder = t
         /\ Begun => access \in Tasks /\ Holder = access /\ Holder # Nobody
         /\ ~Begun => Holder = Nobody /\ ~Decided
BY BusAssumption DEF Serving, ServesHolder, Inside, Begun, Holder, Decided

(* The call and the waiting for the mutex are no steps of a transaction,   *)
(* and neither is the enabling of the interrupt.                           *)
LEMMA QuietHolder ==
  ASSUME Serving, Serving', NEW t \in Tasks, Call(t) \/ Lock(t) \/ EnableIrq(t)
  PROVE  Holder' = Holder /\ Decided' = Decided
<1> USE DEF Pcs, Inside
<1>1. pc \in [Tasks -> Pcs] /\ access \in Tasks \cup {Nobody}
  BY DEF Serving
<1>2. CASE Call(t)
  <2>1. /\ pc[t] = "idle" /\ pc'[t] = "lock" /\ access' = access
        /\ \A u \in Tasks \ {t} : pc'[u] = pc[u]
    BY <1>1, <1>2, GoMoves DEF Call
  <2>2. access # t
    BY <2>1 DEF Serving, ServesHolder
  <2>3. QED
    BY <1>1, <2>1, <2>2 DEF Holder, Decided, Begun
<1>3. CASE Lock(t)
  <2>1. access = Nobody /\ access' = t /\ pc'[t] = "setup"
    BY <1>1, <1>3, GoMoves DEF Lock
  <2>2. QED
    BY <2>1 DEF Holder, Decided, Begun
<1>4. CASE EnableIrq(t)
  <2>1. pc[t] = "enable" /\ pc'[t] = "wait" /\ access' = access
    BY <1>1, <1>4, GoMoves DEF EnableIrq
  <2>2. access = t
    BY <2>1 DEF Serving, ServesHolder
  <2>3. QED
    BY <2>1, <2>2 DEF Holder, Decided, Begun
<1>5. QED
  BY <1>2, <1>3, <1>4

(* The steps of the interrupt handler and of the hardware.                 *)
LEMMA ChipHolder ==
  ASSUME UNCHANGED <<access, pc>>
  PROVE  Holder' = Holder /\ Decided' = Decided
BY DEF Holder, Decided, Begun

LEMMA ChipStep ==
  ASSUME Serving, JobOK, Sizes, Counting, Isr \/ Execute \/ Abort
  PROVE  \/ Atomic!Finish \/ Atomic!Collect
         \/ UNCHANGED <<Holder, job, Outcome, rcnt, Decided, count, late>>
<1>1. UNCHANGED <<access, pc, job, count, late>> /\ Total' = Total
  BY DEF Isr, Execute, Abort, driver, Total
<1>2. Holder' = Holder /\ Decided' = Decided
  BY <1>1, ChipHolder
<1>3. CASE Isr
  <2>1. UNCHANGED <<done, nacked>> /\ Outcome' = Outcome
    BY <1>1, <1>3 DEF Isr, Outcome
  <2>2. Holder # Nobody
    <3>1. access \in Tasks /\ pc[access] \in {"wait", "close"}
      BY <1>3 DEF Isr, Serving, ServesHolder
    <3>2. QED
      BY <3>1, BusAssumption DEF Holder, Begun
  <2>3. rcnt' = rcnt - rx /\ rx \in Nat /\ rx <= rcnt
    BY <1>3, CollectsAll, Numbers DEF Isr, Collect
  <2>4. CASE rx = 0
    BY <1>1, <1>2, <2>1, <2>3, <2>4, Numbers
  <2>5. CASE rx # 0
    <3>1. rx \in 1..rcnt
      BY <2>3, <2>5, Numbers
    <3>2. QED
      BY <1>1, <1>2, <2>1, <2>2, <2>3, <3>1 DEF Atomic!Collect, Holder, Decided
  <2>6. QED
    BY <2>4, <2>5
<1>4. CASE Execute \/ Abort
  <2>1. UNCHANGED rcnt
    BY <1>4 DEF Execute, Abort, driver
  <2>2. fifo > 0 /\ ~nacked
    BY <1>4 DEF Execute, Abort
  <2>3. done # Total
    <3>1. done + fifo <= Total - wctr - rctr
      BY DEF Counting, Queued
    <3>2. QED
      BY <2>2, <3>1, Numbers
  <2>4. Outcome = "open"
    BY <2>2, <2>3 DEF Outcome
  <2>5. Outcome' \in {"open", "whole", "refused"}
    BY DEF Outcome
  <2>6. QED
    BY <1>1, <1>2, <2>1, <2>4, <2>5 DEF Atomic!Finish, Holder, Decided
<1>5. QED
  BY <1>3, <1>4

(* A transaction begins.                                                   *)
LEMMA SetupStep ==
  ASSUME Serving, Serving', NEW t \in Tasks, Setup(t)
  PROVE  Atomic!Begin(t)
<1>1. pc[t] = "setup" /\ pc'[t] = "enable"
  BY GoMoves DEF Setup, Serving, Pcs, Inside
<1>2. access = t /\ access' = t
  BY <1>1, OneInside DEF Setup, Inside
<1>3. Holder = Nobody /\ Holder' = t /\ ~Decided /\ ~Decided'
  BY <1>1, <1>2, BusAssumption DEF Holder, Decided, Begun
<1>4. /\ job' \in Jobs /\ rcnt' = job'.r /\ count' = job'.w + job'.r
      /\ done' = 0 /\ nacked' = FALSE /\ late' = late
  BY DEF Setup
<1>5. Outcome' = "open"
  <2>1. job'.w + job'.r > 0 /\ Total' = job'.w + job'.r
    BY <1>4, BusAssumption DEF Total
  <2>2. Total' # 0
    BY <2>1
  <2>3. QED
    BY <1>4, <2>2 DEF Outcome
<1>6. QED
  BY <1>3, <1>4, <1>5 DEF Atomic!Begin, Holder, Decided

(* The task wakes up, by a notification or because the time is up.         *)
LEMMA WakeStep ==
  ASSUME Serving, JobOK, Sizes, Counting, CountOK', OwnStop,
         NEW t \in Tasks, Woken(t) \/ TimeOut(t)
  PROVE  Atomic!Decide \/ Atomic!TimeOut
<1>1. pc[t] = "wait" /\ pc'[t] = "close" /\ access' = access
  BY GoMoves DEF Woken, TimeOut, Serving, Pcs, Inside
<1>2. access = t /\ t # Nobody
  BY <1>1, OneInside, BusAssumption DEF Inside
<1>3. Holder = t /\ Holder' = t /\ ~Decided /\ Decided'
  BY <1>1, <1>2 DEF Holder, Decided, Begun
<1>4. UNCHANGED <<job, wctr, rctr, rcnt, done, nacked>> /\ Total' = Total
  BY DEF Woken, TimeOut, driver, chip, Total
<1>5. Outcome' = Outcome
  BY <1>4 DEF Outcome
<1>6. CASE TimeOut(t)
  <2>1. count' = 0 /\ late' = TRUE
    BY <1>6 DEF TimeOut
  <2>2. QED
    BY <1>2, <1>3, <1>4, <1>5, <2>1 DEF Atomic!TimeOut, Holder, Decided
<1>7. CASE Woken(t)
  <2>1. late' = late /\ value[t] # 0 /\ count' = count - (rctr + wctr)
    BY <1>7 DEF Woken
  <2>2. count = Total
    BY <1>1 DEF Counting
  <2>3. count' \in 0..count
    BY <1>4, <2>2 DEF CountOK
  <2>4. CASE late
    BY <1>2, <1>3, <1>4, <1>5, <2>1, <2>3, <2>4 DEF Atomic!Decide, Holder, Decided
  <2>5. CASE ~late
    <3>1. Complete
      BY <2>1, <2>5 DEF OwnStop
    <3>2. Atomic!Earned(count')
      BY <2>1, <2>2, <3>1, Numbers DEF Complete, Atomic!Earned, Outcome
    <3>3. QED
      BY <1>2, <1>3, <1>4, <1>5, <2>1, <2>3, <3>2 DEF Atomic!Decide, Holder, Decided
  <2>6. QED
    BY <2>4, <2>5
<1>8. QED
  BY <1>6, <1>7

LEMMA ReturnStep ==
  ASSUME Serving, NEW t \in Tasks, Return(t)
  PROVE  Atomic!Return
<1>1. pc[t] = "close" /\ access' = Nobody
  BY DEF Return, Go
<1>2. access = t /\ t # Nobody
  BY <1>1, OneInside, BusAssumption DEF Inside
<1>3. Decided /\ ~Decided' /\ Holder' = Nobody
  BY <1>1, <1>2 DEF Holder, Decided, Begun
<1>4. UNCHANGED <<job, rcnt, count, late, nacked, done>> /\ Outcome' = Outcome
  BY DEF Return, driver, chip, Outcome, Total
<1>5. QED
  BY <1>3, <1>4 DEF Atomic!Return, Holder, Decided

LEMMA AtomicStep ==
  ASSUME Serving, Serving', JobOK, Sizes, Counting, CountOK', OwnStop, [Next]_vars
  PROVE  [Atomic!Next]_Atomic!atomicVars
<1>1. SUFFICES \/ Atomic!Next
               \/ UNCHANGED <<Holder, job, Outcome, rcnt, Decided, count, late>>
  BY DEF Atomic!atomicVars, Holder, Decided
<1>2. ASSUME NEW t \in Tasks, Call(t) \/ Lock(t) \/ EnableIrq(t)
      PROVE  UNCHANGED <<Holder, job, Outcome, rcnt, Decided, count, late>>
  <2>1. UNCHANGED <<job, rcnt, count, late, nacked, done>> /\ Outcome' = Outcome
    BY <1>2 DEF Call, Lock, EnableIrq, driver, chip, Outcome, Total
  <2>2. QED
    BY <1>2, <2>1, QuietHolder
<1>3. ASSUME NEW t \in Tasks, Setup(t) \/ Woken(t) \/ TimeOut(t) \/ Return(t)
      PROVE  Atomic!Next
  BY <1>3, SetupStep, WakeStep, ReturnStep DEF Atomic!Next
<1>4. CASE UNCHANGED vars
  <2>1. UNCHANGED <<access, pc, job, rcnt, count, late, nacked, done>>
    BY <1>4 DEF vars, driver, chip
  <2>2. QED
    BY <2>1, ChipHolder DEF Outcome, Total
<1>5. CASE Isr \/ Execute \/ Abort
  BY <1>5, ChipStep DEF Atomic!Next
<1>6. QED
  BY <1>2, <1>3, <1>4, <1>5 DEF Next, Step

(* PicoI2C implements AtomicTransactions: whatever the order in which the  *)
(* handler, the hardware, the time-out and the tasks come, every step is   *)
(* one that AtomicTransactions allows, or nothing that a caller can see,   *)
(* for any set of tasks, any transactions and any depth of the FIFOs.      *)
THEOREM TransactionsAreAtomic == Spec => AtomicSpec
<1>1. Init => Atomic!Init
  BY BusAssumption DEF Init, Atomic!Init, Begun, Outcome, Total
<1>2. ASSUME Serving, Serving', Rest /\ JobOK /\ Sizes /\ Counting /\ CountOK,
             (Rest /\ JobOK /\ Sizes /\ Counting /\ CountOK)', OwnStop, [Next]_vars
      PROVE  [Atomic!Next]_Atomic!atomicVars
  <2>1. JobOK /\ Sizes /\ Counting /\ CountOK'
    BY <1>2
  <2>2. QED
    BY <1>2, <2>1, AtomicStep
<1>3. QED
  BY <1>1, <1>2, AlwaysServing, AlwaysCounting, AlwaysOwnStop, PTL
     DEF Spec, AtomicSpec, Atomic!Spec
=============================================================================
