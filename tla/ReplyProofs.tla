---------------------------- MODULE ReplyProofs -----------------------------
(***************************************************************************)
(* Proofs about ModbusReplies, for any registers, lengths of replies,      *)
(* depth of the FIFO and number of requests.                               *)
(***************************************************************************)
EXTENDS ModbusReplies, TLAPS

Requests == Registers \X Nat
Bytes == Registers \X Nat \X Nat

(* Each register's buffer has the length of its reply.                     *)
Shaped == rxbuf = [r \in Registers |-> [i \in 1..ReplyLen[r] |-> rxbuf[r][i]]]

Pcs == {"idle", "claim", "rx", "tx", "arm", "wait"}

Types ==
  /\ busy \in BOOLEAN /\ pc \in [Registers -> Pcs]
  /\ made \in Nat /\ request \in [Registers -> Nat]
  /\ target \in Registers /\ active \in BOOLEAN
  /\ left \in Nat /\ place \in Nat \ {0}
  /\ sending # NoFrame => sending \in [of : Requests, runsOn : BOOLEAN]
  /\ owed \subseteq Requests
  /\ coming \in Seq(Bytes) /\ fifo \in Seq(Bytes)
  /\ Shaped
  /\ ended \in [Registers -> {"not", "done", "timeout"}]
  /\ clear \in [Registers -> BOOLEAN] /\ alone \in [Registers -> BOOLEAN]

Now == request[target]

(* What holds of every transfer, on a clear line or not: one that had the  *)
(* line for itself keeps it until it ends, and the request of one that     *)
(* began on a clear line is the last that its register has made.           *)
Flow ==
  /\ active => ended[target] = "not"
  /\ \A r \in Registers : alone[r] /\ ended[r] = "not" =>
       /\ busy /\ active /\ target = r
       /\ \A q \in Others(r) : pc[q] \in {"idle", "wait"}
  /\ \A r \in Registers : clear[r] /\ sending # NoFrame /\ sending.of[1] = r =>
       sending.of = <<r, request[r]>> /\ pc[r] # "tx" /\ ended[r] # "done"
  /\ \A r \in Registers : clear[r] /\ ended[r] = "done" => pc[r] # "tx"

(* Nothing has come of the transfer yet.                                   *)
Untouched == coming = << >> /\ fifo = << >> /\ left = ReplyLen[target]

(* What has been received, what is in the FIFO and what is coming are,     *)
(* put together, the reply to the request.                                 *)
Whole ==
  LET k == place - 1
  IN  /\ target = Writer => speed = Now
      /\ \A i \in 1..k : rxbuf[target][i] = Byte(target, Now, i)
      /\ \A i \in 1..Len(fifo) : fifo[i] = Byte(target, Now, k + i)
      /\ \A i \in 1..Len(coming) : coming[i] = Byte(target, Now, k + Len(fifo) + i)

(* A transfer that began on a clear line, as long as nobody has taken the  *)
(* receive channel from it: its request is about to be sent, then being    *)
(* sent, then owed, then answered, and no other task is about to send.     *)
(* A byte that is lost leaves too few to end it.                           *)
OwnTransfer ==
  active /\ clear[target] =>
    /\ \A q \in Others(target) : pc[q] # "tx"
    /\ place + left = ReplyLen[target] + 1
    /\ pc[target] = "tx" => sending = NoFrame /\ owed = {} /\ Untouched
    /\ sending # NoFrame =>
         sending.of = <<target, Now>> /\ ~sending.runsOn /\ owed = {} /\ Untouched
    /\ owed # {} =>
         owed = {<<target, Now>>} /\ Untouched /\ (target = Writer => speed = Now)
    /\ Len(fifo) + Len(coming) <= left
    /\ Len(fifo) + Len(coming) = left => Whole

Inv == Types /\ Flow /\ OwnTransfer /\ OwnReply

LEMMA LengthsArePositive == \A r \in Registers : ReplyLen[r] \in Nat \ {0}
BY RepliesAssumption

LEMMA ReplyIs ==
  ASSUME NEW r \in Registers, NEW n \in Nat
  PROVE  /\ Reply(r, n) \in Seq(Bytes)
         /\ Len(Reply(r, n)) = ReplyLen[r]
         /\ \A i \in 1..ReplyLen[r] : Reply(r, n)[i] = Byte(r, n, i)
<1>1. ReplyLen[r] \in Nat
  BY LengthsArePositive
<1>2. \A i \in 1..ReplyLen[r] : Byte(r, n, i) \in Bytes
  BY <1>1 DEF Byte, Bytes
<1>3. Reply(r, n) \in [1..ReplyLen[r] -> Bytes]
  BY <1>2 DEF Reply
<1>4. QED
  BY <1>1, <1>3 DEF Reply

(* A buffer keeps its length when one of its bytes is replaced.            *)
LEMMA BufferExcept ==
  ASSUME NEW n \in Nat, NEW b, b = [i \in 1..n |-> b[i]], NEW j \in 1..n, NEW v,
         NEW c, c = [b EXCEPT ![j] = v]
  PROVE  /\ c = [i \in 1..n |-> c[i]]
         /\ c[j] = v
         /\ \A i \in (1..n) \ {j} : c[i] = b[i]
OBVIOUS

LEMMA InitInv == Init => Inv
<1> SUFFICES ASSUME Init PROVE Inv
  OBVIOUS
<1>0. Shaped
  BY DEF Init, Shaped
<1>1. Types
  <2>1. target \in Registers /\ request \in [Registers -> Nat]
    BY DEF Init, Registers
  <2>2. coming \in Seq(Bytes) /\ fifo \in Seq(Bytes)
    BY DEF Init
  <2>3. ended \in [Registers -> {"not", "done", "timeout"}]
    BY DEF Init
  <2>4. clear \in [Registers -> BOOLEAN] /\ alone \in [Registers -> BOOLEAN]
    BY DEF Init
  <2>5. pc \in [Registers -> Pcs]
    BY DEF Init, Pcs
  <2>6. made \in Nat /\ left \in Nat /\ place \in Nat \ {0}
    BY DEF Init
  <2>7. busy \in BOOLEAN /\ active \in BOOLEAN /\ sending = NoFrame /\ owed = {}
    BY DEF Init
  <2>8. QED
    BY <1>0, <2>1, <2>2, <2>3, <2>4, <2>5, <2>6, <2>7 DEF Types
<1>2. \A r \in Registers : ~clear[r] /\ ~alone[r]
  BY DEF Init
<1>3. Flow
  BY <1>2 DEF Init, Flow
<1>4. OwnTransfer /\ OwnReply
  BY <1>2 DEF Init, OwnTransfer, OwnReply
<1>5. QED
  BY <1>1, <1>3, <1>4 DEF Inv

-----------------------------------------------------------------------------
(* The steps that only move a task: before it has the channel, and when it *)
(* has sent its request.                                                   *)
LEMMA TaskKeeps ==
  ASSUME Inv, NEW r \in Registers, NEW from \in Pcs \ {"tx"}, NEW to \in Pcs \ {"tx"},
         Go(r, from, to), busy' \in BOOLEAN,
         UNCHANGED <<channel, sending, line, rxbuf, ended, speed, history>>,
         \/ UNCHANGED busy /\ to \in {"idle", "wait"}
         \/ UNCHANGED busy /\ ~busy
         \/ from \notin {"idle", "wait"} /\ (busy => busy')
  PROVE  Inv'
<1> USE DEF Inv, channel, line, history
<1>1. /\ pc' \in [Registers -> Pcs] /\ pc[r] = from /\ pc'[r] = to
      /\ \A q \in Others(r) : pc'[q] = pc[q]
      /\ \A q \in Registers : (pc'[q] = "tx" <=> pc[q] = "tx")
  BY DEF Go, Types, Others
<1>2. Types'
  BY <1>1 DEF Types, Shaped
<1>3. Flow'
  <2>1. ASSUME NEW q \in Registers, alone[q], ended[q] = "not"
        PROVE  /\ busy' /\ active /\ target = q
               /\ \A p \in Others(q) : pc'[p] \in {"idle", "wait"}
    <3>1. /\ busy /\ active /\ target = q
          /\ \A p \in Others(q) : pc[p] \in {"idle", "wait"}
      BY <2>1 DEF Flow
    <3>2. ASSUME NEW p \in Others(q) PROVE pc'[p] \in {"idle", "wait"}
      BY <1>1, <3>1, <3>2 DEF Others
    <3>3. QED
      BY <3>1, <3>2
  <2>2. QED
    BY <1>1, <2>1 DEF Flow
<1>4. OwnTransfer'
  <2>1. (Untouched' <=> Untouched) /\ (Whole' <=> Whole)
    BY DEF Untouched, Whole, Now
  <2>2. pc'[target] = "tx" <=> pc[target] = "tx"
    BY <1>1 DEF Types
  <2>3. \A q \in Others(target) : pc'[q] = "tx" <=> pc[q] = "tx"
    BY <1>1 DEF Others
  <2>4. QED
    BY <2>1, <2>2, <2>3 DEF OwnTransfer, Now
<1>5. OwnReply'
  BY <1>3 DEF OwnReply, Flow
<1>6. QED
  BY <1>2, <1>3, <1>4, <1>5

LEMMA TasksKeep ==
  ASSUME Inv, NEW r \in Registers, Gate(r) \/ Claim(r) \/ Arm(r) \/ Wait(r) PROVE Inv'
<1>0. busy \in BOOLEAN
  BY DEF Inv, Types
<1>1. CASE Gate(r)
  BY <1>0, <1>1, TaskKeeps DEF Gate, Pcs
<1>2. CASE Claim(r)
  BY <1>2, TaskKeeps DEF Claim, Pcs
<1>3. CASE Arm(r)
  BY <1>0, <1>3, TaskKeeps DEF Arm, Pcs
<1>4. CASE Wait(r)
  BY <1>0, <1>4, TaskKeeps DEF Wait, Pcs
<1>5. QED
  BY <1>1, <1>2, <1>3, <1>4

LEMMA StartRxKeeps == ASSUME Inv, NEW r \in Registers, StartRx(r) PROVE Inv'
<1> USE DEF Inv, StartRx, Expected
<1>1. /\ pc' \in [Registers -> Pcs] /\ pc[r] = "rx" /\ pc'[r] = "tx"
      /\ \A q \in Others(r) : pc'[q] = pc[q]
  BY DEF Go, Types, Others, Pcs
<1>2. /\ ended' \in [Registers -> {"not", "done", "timeout"}] /\ ended'[r] = "not"
      /\ clear' \in [Registers -> BOOLEAN] /\ alone' \in [Registers -> BOOLEAN]
      /\ \A q \in Others(r) : /\ ended'[q] = ended[q] /\ request'[q] = request[q]
                              /\ (clear'[q] <=> clear[q]) /\ (alone'[q] <=> alone[q])
  <2>1. \A q \in Others(r) : clear'[q] = clear[q] /\ alone'[q] = alone[q]
    BY DEF Types, Others
  <2>2. \A q \in Others(r) : ended'[q] = ended[q] /\ request'[q] = request[q]
    BY DEF Types, Others
  <2>3. clear' \in [Registers -> BOOLEAN]
    BY DEF Types, LineIsClear
  <2>4. alone' \in [Registers -> BOOLEAN]
    BY DEF Types
  <2>5. ended' \in [Registers -> {"not", "done", "timeout"}] /\ ended'[r] = "not"
    BY DEF Types
  <2>6. QED
    BY <2>1, <2>2, <2>3, <2>4, <2>5
<1>3. Types'
  <2>1. made + 1 \in Nat /\ request' \in [Registers -> Nat] /\ left' \in Nat
    BY LengthsArePositive DEF Types
  <2>2. target' \in Registers /\ active' \in BOOLEAN /\ place' \in Nat \ {0}
    OBVIOUS
  <2>3. Shaped' /\ UNCHANGED <<busy, sending, owed, coming, fifo>>
    BY DEF Types, Shaped, line
  <2>4. QED
    BY <1>1, <1>2, <2>1, <2>2, <2>3 DEF Types
<1>4. clear'[r] => LineIsClear /\ ~active /\ \A q \in Others(r) : pc[q] # "tx"
  BY DEF Types
<1>5. alone'[r] => busy /\ \A q \in Others(r) : pc[q] \in {"idle", "wait"}
  BY DEF Types
<1>6. Flow'
  <2>1. ASSUME NEW q \in Registers, alone'[q], ended'[q] = "not"
        PROVE  /\ busy' /\ active' /\ target' = q
               /\ \A p \in Others(q) : pc'[p] \in {"idle", "wait"}
    <3>1. CASE q = r
      BY <1>1, <1>5, <2>1, <3>1
    <3>2. CASE q \in Others(r)
      <4>1. alone[q] /\ ended[q] = "not" /\ r \in Others(q)
        BY <1>2, <2>1, <3>2 DEF Others
      <4>2. pc[r] \in {"idle", "wait"}
        BY <4>1 DEF Flow
      <4>3. QED
        BY <1>1, <4>2
    <3>3. QED
      BY <3>1, <3>2 DEF Others
  <2>2. ASSUME NEW q \in Registers, clear'[q], sending' # NoFrame, sending'.of[1] = q
        PROVE  sending'.of = <<q, request'[q]>> /\ pc'[q] # "tx" /\ ended'[q] # "done"
    <3>1. q \in Others(r)
      BY <1>4, <2>2 DEF LineIsClear, Others
    <3>2. QED
      BY <1>1, <1>2, <2>2, <3>1 DEF Flow, Others
  <2>3. ASSUME NEW q \in Registers, clear'[q], ended'[q] = "done" PROVE pc'[q] # "tx"
    <3>1. q \in Others(r)
      BY <1>2, <2>3 DEF Others
    <3>2. QED
      BY <1>1, <1>2, <2>3, <3>1 DEF Flow, Others
  <2>4. active' => ended'[target'] = "not"
    BY <1>2
  <2>5. QED
    BY <2>1, <2>2, <2>3, <2>4 DEF Flow
<1>7. OwnTransfer'
  <2> SUFFICES ASSUME clear'[r] PROVE OwnTransfer'
    BY DEF OwnTransfer
  <2>1. /\ sending' = NoFrame /\ owed' = {} /\ coming' = << >> /\ fifo' = << >>
        /\ target' = r /\ left' = ReplyLen[r] /\ place' = 1
    BY <1>4 DEF LineIsClear, line
  <2>2. Untouched' /\ Len(fifo') + Len(coming') = 0 /\ left' \in Nat \ {0}
    BY <2>1, LengthsArePositive DEF Untouched
  <2>3. place' + left' = ReplyLen[r] + 1
    BY <2>1, LengthsArePositive
  <2>4. \A q \in Others(target') : pc'[q] # "tx"
    BY <1>1, <1>4, <2>1
  <2>5. QED
    BY <2>1, <2>2, <2>3, <2>4 DEF OwnTransfer
<1>8. OwnReply'
  <2>1. ASSUME NEW q \in Registers, clear'[q], ended'[q] = "done"
        PROVE  rxbuf'[q] = Reply(q, request'[q]) /\ (q = Writer => speed' = request'[q])
    <3>1. q \in Others(r)
      BY <1>2, <2>1 DEF Others
    <3>2. QED
      BY <1>2, <2>1, <3>1 DEF OwnReply, Others
  <2>2. QED
    BY <1>6, <2>1 DEF OwnReply, Flow
<1>9. QED
  BY <1>3, <1>6, <1>7, <1>8

LEMMA StartTxKeeps == ASSUME Inv, NEW r \in Registers, StartTx(r) PROVE Inv'
<1> USE DEF Inv, StartTx, channel, line, history
<1>1. /\ pc' \in [Registers -> Pcs] /\ pc[r] = "tx" /\ pc'[r] = "arm"
      /\ \A q \in Others(r) : pc'[q] = pc[q]
  BY DEF Go, Types, Others, Pcs
<1>2. /\ sending' \in [of : Requests, runsOn : BOOLEAN] /\ sending'.of = <<r, request[r]>>
      /\ (sending'.runsOn <=> sending # NoFrame)
  BY DEF Types, Requests
<1>3. Types'
  BY <1>1, <1>2 DEF Types, Shaped
<1>4. Flow'
  <2>1. ASSUME NEW q \in Registers, alone[q], ended[q] = "not"
        PROVE  /\ busy /\ active /\ target = q
               /\ \A p \in Others(q) : pc'[p] \in {"idle", "wait"}
    <3>1. /\ busy /\ active /\ target = q
          /\ \A p \in Others(q) : pc[p] \in {"idle", "wait"}
      BY <2>1 DEF Flow
    <3>2. ASSUME NEW p \in Others(q) PROVE pc'[p] \in {"idle", "wait"}
      <4>1. pc[p] \in {"idle", "wait"} /\ p \in Registers
        BY <3>1 DEF Others
      <4>2. p # r
        BY <1>1, <4>1
      <4>3. QED
        BY <1>1, <4>1, <4>2 DEF Others
    <3>3. QED
      BY <3>1, <3>2
  <2>2. ASSUME NEW q \in Registers, clear[q], sending'.of[1] = q
        PROVE  sending'.of = <<q, request[q]>> /\ pc'[q] # "tx" /\ ended[q] # "done"
    <3>1. q = r
      BY <1>2, <2>2
    <3>2. QED
      BY <1>1, <1>2, <2>2, <3>1 DEF Flow
  <2>3. ASSUME NEW q \in Registers, clear[q], ended[q] = "done" PROVE pc'[q] # "tx"
    BY <1>1, <2>3 DEF Flow, Others
  <2>4. QED
    BY <2>1, <2>2, <2>3 DEF Flow
<1>5. OwnTransfer'
  <2> SUFFICES ASSUME active, clear[target] PROVE OwnTransfer'
    BY DEF OwnTransfer
  <2>1. target = r
    BY <1>1 DEF OwnTransfer, Others
  <2>2. sending = NoFrame /\ owed = {} /\ Untouched /\ Untouched'
    BY <1>1, <2>1 DEF OwnTransfer, Untouched
  <2>3. Len(fifo) + Len(coming) = 0 /\ left \in Nat \ {0}
    BY <2>2, LengthsArePositive DEF Untouched, Types
  <2>4. sending'.of = <<target, Now>> /\ ~sending'.runsOn
    BY <1>2, <2>1, <2>2 DEF Now
  <2>5. \A q \in Others(target) : pc'[q] # "tx"
    BY <1>1, <2>1 DEF OwnTransfer
  <2>6. place + left = ReplyLen[target] + 1
    BY DEF OwnTransfer
  <2>7. QED
    BY <1>1, <2>1, <2>2, <2>3, <2>4, <2>5, <2>6 DEF OwnTransfer, Now
<1>6. OwnReply'
  BY <1>4 DEF OwnReply, Flow
<1>7. QED
  BY <1>3, <1>4, <1>5, <1>6

-----------------------------------------------------------------------------
LEMMA SentKeeps == ASSUME Inv, Sent PROVE Inv'
<1> USE DEF Inv, Sent, channel, history
<1>0. sending \in [of : Requests, runsOn : BOOLEAN]
  BY DEF Types
<1>1. sending.of \in Requests
  BY <1>0
<1>2. Types'
  BY <1>1 DEF Types, Shaped
<1>3. Flow'
  BY DEF Flow
<1>4. OwnTransfer'
  <2> SUFFICES ASSUME active, clear[target] PROVE OwnTransfer'
    BY DEF OwnTransfer
  <2>1. /\ sending.of = <<target, Now>> /\ ~sending.runsOn /\ owed = {} /\ Untouched
        /\ pc[target] # "tx" /\ place + left = ReplyLen[target] + 1
        /\ \A q \in Others(target) : pc[q] # "tx"
    BY DEF OwnTransfer
  <2>2. Untouched' /\ Len(fifo') + Len(coming') = 0 /\ left' \in Nat \ {0}
    BY <2>1, LengthsArePositive DEF Untouched, Types
  <2>3. owed' # {} => owed' = {<<target, Now>>} /\ (target = Writer => speed' = Now)
    BY <2>1
  <2>4. QED
    BY <2>1, <2>2, <2>3 DEF OwnTransfer, Now
<1>5. OwnReply'
  <2>1. ASSUME clear[Writer], ended[Writer] = "done" PROVE speed' = speed
    <3>1. Writer \in Registers
      BY DEF Registers
    <3>2. sending.of[1] # Writer
      BY <2>1, <3>1 DEF Flow
    <3>3. QED
      BY <3>2
  <2>2. QED
    BY <2>1 DEF OwnReply
<1>6. QED
  BY <1>2, <1>3, <1>4, <1>5
LEMMA AnswerKeeps == ASSUME Inv, Answer PROVE Inv'
<1> USE DEF Inv, channel, history
<1>0. PICK q \in owed : owed' = owed \ {q} /\ coming' \in {coming, coming \o Reply(q[1], q[2])}
  BY DEF Answer
<1>1. q \in Requests
  BY DEF Types
<1>2. Types'
  <2>1. q[1] \in Registers /\ q[2] \in Nat
    BY <1>1 DEF Requests
  <2>2. coming' \in Seq(Bytes)
    <3>1. Reply(q[1], q[2]) \in Seq(Bytes) /\ coming \in Seq(Bytes)
      BY <2>1, ReplyIs DEF Types
    <3>2. coming \o Reply(q[1], q[2]) \in Seq(Bytes)
      BY <3>1
    <3>3. QED
      BY <1>0, <3>1, <3>2
  <2>3. Shaped'
    BY DEF Types, Shaped, Answer
  <2>4. QED
    BY <1>0, <2>2, <2>3 DEF Types, Answer
<1>3. Flow'
  BY DEF Flow, Answer
<1>4. OwnTransfer'
  <2> SUFFICES ASSUME active, clear[target] PROVE OwnTransfer'
    BY DEF OwnTransfer, Answer
  <2>1. /\ sending = NoFrame /\ owed = {<<target, Now>>} /\ Untouched
        /\ target = Writer => speed = Now
        /\ pc[target] # "tx" /\ place + left = ReplyLen[target] + 1
        /\ \A p \in Others(target) : pc[p] # "tx"
    BY <1>0 DEF OwnTransfer
  <2>2. q = <<target, Now>> /\ owed' = {} /\ fifo' = << >> /\ left' = ReplyLen[target]
    BY <1>0, <2>1 DEF Answer, Untouched
  <2>3. /\ ReplyLen[target] \in Nat \ {0} /\ target \in Registers /\ Now \in Nat
        /\ place = 1
    BY <2>1, LengthsArePositive DEF Types, Now, Untouched
  <2>4. CASE coming' = coming
    BY <2>1, <2>2, <2>3, <2>4 DEF OwnTransfer, Untouched, Answer
  <2>5. CASE coming' = coming \o Reply(q[1], q[2])
    <3>1. coming' = Reply(target, Now)
      BY <2>1, <2>2, <2>3, <2>5, ReplyIs DEF Untouched
    <3>2. Len(coming') = ReplyLen[target] /\ Len(fifo') = 0
      BY <2>2, <2>3, <3>1, ReplyIs
    <3>3. Whole'
      <4>1. place' = 1 /\ target' = target /\ Now' = Now /\ speed' = speed
        BY <2>3 DEF Answer, Now
      <4>2. \A i \in 1..ReplyLen[target] : coming'[i] = Byte(target, Now, i)
        BY <2>3, <3>1, ReplyIs
      <4>3. \A i \in 1..Len(coming') :
              coming'[i] = Byte(target, Now, (1 - 1) + Len(fifo') + i)
        BY <2>3, <3>2, <4>2
      <4>4. \A i \in 1..(1 - 1) : FALSE
        OBVIOUS
      <4>5. \A i \in 1..Len(fifo') : FALSE
        BY <3>2
      <4>6. QED
        BY <2>1, <4>1, <4>3, <4>4, <4>5 DEF Whole
    <3>4. QED
      BY <2>1, <2>2, <2>3, <3>2, <3>3 DEF OwnTransfer, Answer
  <2>6. QED
    BY <1>0, <2>4, <2>5
<1>5. OwnReply'
  BY DEF OwnReply, Answer
<1>6. QED
  BY <1>2, <1>3, <1>4, <1>5

LEMMA ArriveKeeps == ASSUME Inv, Arrive PROVE Inv'
<1> USE DEF Inv, channel, history
<1>0. /\ coming # << >> /\ coming' = Tail(coming) /\ Len(coming) \in Nat \ {0}
      /\ Len(coming') = Len(coming) - 1 /\ Head(coming) = coming[1]
      /\ coming' \in Seq(Bytes) /\ Head(coming) \in Bytes
      /\ \A i \in 1..Len(coming') : coming'[i] = coming[i + 1]
  BY DEF Types, Arrive
<1>1. Types'
  BY <1>0 DEF Types, Shaped, Arrive
<1>2. Flow'
  BY DEF Flow, Arrive
<1>3. OwnTransfer'
  <2> SUFFICES ASSUME active, clear[target] PROVE OwnTransfer'
    BY DEF OwnTransfer, Arrive
  <2>1. /\ sending = NoFrame /\ owed = {}
        /\ Len(fifo) + Len(coming) <= left
        /\ Len(fifo) + Len(coming) = left => Whole
        /\ pc[target] # "tx" /\ place + left = ReplyLen[target] + 1
        /\ \A p \in Others(target) : pc[p] # "tx"
    BY <1>0 DEF OwnTransfer, Untouched
  <2>2. Len(fifo) \in Nat /\ left \in Nat
    BY DEF Types
  <2>3. CASE fifo' = fifo
    <3>1. Len(fifo') + Len(coming') < left
      BY <1>0, <2>1, <2>2, <2>3
    <3>2. QED
      BY <2>1, <2>2, <1>0, <3>1 DEF OwnTransfer, Arrive
  <2>4. CASE fifo' = Append(fifo, Head(coming))
    <3>1. /\ Len(fifo') = Len(fifo) + 1
          /\ \A i \in 1..Len(fifo) : fifo'[i] = fifo[i]
          /\ fifo'[Len(fifo) + 1] = coming[1]
      BY <1>0, <2>4 DEF Types
    <3>2. ASSUME Len(fifo) + Len(coming) = left PROVE Whole'
      <4>1. Whole
        BY <2>1, <3>2
      <4>2. ReplyLen[target] \in Nat /\ place - 1 \in Nat
        BY LengthsArePositive DEF Types
      <4> DEFINE k == place - 1
      <4>3. k \in Nat /\ k' = k /\ target' = target /\ Now' = Now
        BY <4>2 DEF Arrive, Now
      <4>4. /\ target = Writer => speed' = Now
            /\ \A i \in 1..k : rxbuf'[target][i] = Byte(target, Now, i)
        BY <4>1 DEF Whole, Arrive
      <4>5. \A i \in 1..Len(fifo') : fifo'[i] = Byte(target, Now, k + i)
        <5> SUFFICES ASSUME NEW i \in 1..(Len(fifo) + 1)
                     PROVE  fifo'[i] = Byte(target, Now, k + i)
          BY <3>1
        <5>1. CASE i \in 1..Len(fifo)
          BY <3>1, <4>1, <5>1 DEF Whole
        <5>2. CASE i = Len(fifo) + 1
          <6>1. coming[1] = Byte(target, Now, k + Len(fifo) + 1)
            BY <1>0, <4>1 DEF Whole
          <6>2. k + Len(fifo) + 1 = k + i
            BY <2>2, <4>3, <5>2
          <6>3. QED
            BY <3>1, <5>2, <6>1, <6>2
        <5>3. QED
          BY <2>2, <5>1, <5>2
      <4>6. \A i \in 1..Len(coming') : coming'[i] = Byte(target, Now, k + Len(fifo') + i)
        <5> SUFFICES ASSUME NEW i \in 1..Len(coming')
                     PROVE  coming'[i] = Byte(target, Now, k + Len(fifo') + i)
          OBVIOUS
        <5>1. i + 1 \in 1..Len(coming) /\ coming'[i] = coming[i + 1]
          BY <1>0
        <5>2. coming[i + 1] = Byte(target, Now, k + Len(fifo) + (i + 1))
          BY <4>1, <5>1 DEF Whole
        <5>3. k + Len(fifo) + (i + 1) = k + Len(fifo') + i
          <6>1. i \in Nat /\ k \in Nat /\ Len(fifo) \in Nat
            BY <1>0, <2>2, <4>2
          <6>2. Len(fifo') = Len(fifo) + 1
            BY <3>1
          <6> HIDE DEF k
          <6>3. QED
            BY <6>1, <6>2
        <5>4. QED
          BY <5>1, <5>2, <5>3
      <4>7. QED
        BY <4>3, <4>4, <4>5, <4>6 DEF Whole
    <3>3. Len(fifo') + Len(coming') = Len(fifo) + Len(coming)
      BY <1>0, <2>2, <3>1
    <3>4. QED
      BY <2>1, <3>2, <3>3 DEF OwnTransfer, Arrive
  <2>5. QED
    BY <2>3, <2>4 DEF Arrive
<1>4. OwnReply'
  BY DEF OwnReply, Arrive
<1>5. QED
  BY <1>1, <1>2, <1>3, <1>4

LEMMA ReceiveKeeps == ASSUME Inv, Receive PROVE Inv'
<1> USE DEF Inv, history
<1> DEFINE k == place - 1
<1>0. /\ fifo # << >> /\ fifo' = Tail(fifo) /\ Len(fifo) \in Nat \ {0}
      /\ Len(fifo') = Len(fifo) - 1 /\ Head(fifo) = fifo[1]
      /\ fifo' \in Seq(Bytes)
      /\ \A i \in 1..Len(fifo') : fifo'[i] = fifo[i + 1]
  BY DEF Types, Receive
<1>1. /\ left \in Nat \ {0} /\ left' = left - 1 /\ active /\ target \in Registers
      /\ ReplyLen[target] \in Nat /\ k \in Nat /\ k' = k + 1 /\ place = k + 1
      /\ target' = target /\ Now' = Now
  BY LengthsArePositive DEF Types, Receive, Now
<1>2. /\ rxbuf' = IF place \in 1..ReplyLen[target]
                  THEN [rxbuf EXCEPT ![target][place] = fifo[1]] ELSE rxbuf
      /\ \A r \in Registers : rxbuf[r] = [i \in 1..ReplyLen[r] |-> rxbuf[r][i]]
      /\ DOMAIN rxbuf = Registers
  BY <1>0 DEF Receive, Types, Shaped
<1>3. ASSUME place \in 1..ReplyLen[target]
      PROVE  /\ rxbuf'[target] = [i \in 1..ReplyLen[target] |-> rxbuf'[target][i]]
             /\ rxbuf'[target][k + 1] = fifo[1]
             /\ \A i \in 1..k : rxbuf'[target][i] = rxbuf[target][i]
  <2>1. /\ rxbuf[target] = [i \in 1..ReplyLen[target] |-> rxbuf[target][i]]
        /\ rxbuf'[target] = [rxbuf[target] EXCEPT ![place] = fifo[1]]
    BY <1>1, <1>2, <1>3
  <2>2. \A i \in 1..k : i \in (1..ReplyLen[target]) \ {place}
    BY <1>1, <1>3
  <2>3. QED
    BY <1>1, <1>3, <2>1, <2>2, BufferExcept
<1>4. /\ \A r \in Others(target) : rxbuf'[r] = rxbuf[r]
      /\ rxbuf' = [r \in Registers |-> rxbuf'[r]]
      /\ place \notin 1..ReplyLen[target] => rxbuf' = rxbuf
  <2>1. DOMAIN rxbuf' = Registers /\ rxbuf' = [r \in Registers |-> rxbuf'[r]]
    BY <1>2, <1>1 DEF Types, Shaped
  <2>2. QED
    BY <1>1, <1>2, <2>1 DEF Others
<1>5. Types'
  <2>1. \A r \in Registers : rxbuf'[r] = [i \in 1..ReplyLen[r] |-> rxbuf'[r][i]]
    BY <1>2, <1>3, <1>4 DEF Others
  <2>2. rxbuf' = [r \in Registers |-> [i \in 1..ReplyLen[r] |-> rxbuf'[r][i]]]
    BY <1>4, <2>1
  <2>3. Shaped'
    BY <2>2 DEF Shaped
  <2>4. place' \in Nat \ {0}
    BY DEF Types, Receive
  <2>5. QED
    BY <1>0, <1>1, <2>3, <2>4 DEF Types, Receive
<1>6. Flow'
  BY DEF Flow, Receive
<1>7. OwnTransfer'
  <2> SUFFICES ASSUME clear[target] PROVE OwnTransfer'
    BY <1>1 DEF OwnTransfer, Receive
  <2>1. /\ sending = NoFrame /\ owed = {} /\ pc[target] # "tx"
        /\ place + left = ReplyLen[target] + 1
        /\ \A p \in Others(target) : pc[p] # "tx"
        /\ Len(fifo) + Len(coming) <= left
        /\ Len(fifo) + Len(coming) = left => Whole
    BY <1>0, <1>1 DEF OwnTransfer, Untouched
  <2>2. Len(coming) \in Nat /\ coming' = coming
    BY DEF Types, Receive
  <2>0. place \in 1..ReplyLen[target] /\ place' + left' = ReplyLen[target] + 1
    <3>1. place' = place + 1 /\ place \in Nat \ {0}
      BY DEF Receive, Types
    <3>2. QED
      BY <1>1, <2>1, <3>1
  <2>3. ASSUME Len(fifo) + Len(coming) = left PROVE Whole'
    <3>1. Whole
      BY <2>1, <2>3
    <3>2. target = Writer => speed' = Now
      BY <3>1 DEF Whole, Receive
    <3>3. \A i \in 1..(k + 1) : rxbuf'[target][i] = Byte(target, Now, i)
      <4>1. fifo[1] = Byte(target, Now, k + 1)
        BY <1>0, <3>1 DEF Whole
      <4>2. \A i \in 1..k : rxbuf'[target][i] = Byte(target, Now, i)
        BY <1>3, <2>0, <3>1 DEF Whole
      <4>3. \A i \in 1..(k + 1) : i \in 1..k \/ i = k + 1
        BY <1>1
      <4>4. QED
        BY <1>3, <2>0, <4>1, <4>2, <4>3
    <3>4. \A i \in 1..Len(fifo') : fifo'[i] = Byte(target, Now, (k + 1) + i)
      <4> SUFFICES ASSUME NEW i \in 1..Len(fifo')
                   PROVE  fifo'[i] = Byte(target, Now, (k + 1) + i)
        OBVIOUS
      <4>1. i + 1 \in 1..Len(fifo) /\ fifo'[i] = fifo[i + 1]
        BY <1>0
      <4>2. fifo[i + 1] = Byte(target, Now, k + (i + 1))
        BY <3>1, <4>1 DEF Whole
      <4>3. k + (i + 1) = (k + 1) + i
        BY <1>1
      <4>4. QED
        BY <4>1, <4>2, <4>3
    <3>5. \A i \in 1..Len(coming') : coming'[i] = Byte(target, Now, (k + 1) + Len(fifo') + i)
      <4> SUFFICES ASSUME NEW i \in 1..Len(coming)
                   PROVE  coming[i] = Byte(target, Now, (k + 1) + Len(fifo') + i)
        BY <2>2
      <4>1. coming[i] = Byte(target, Now, k + Len(fifo) + i)
        BY <3>1 DEF Whole
      <4>2. k + Len(fifo) + i = (k + 1) + Len(fifo') + i
        BY <1>0, <1>1, <2>2
      <4>3. QED
        BY <4>1, <4>2
    <3>6. QED
      BY <1>1, <3>2, <3>3, <3>4, <3>5 DEF Whole
  <2>4. /\ Len(fifo') + Len(coming') <= left'
        /\ Len(fifo') + Len(coming') = left' => Len(fifo) + Len(coming) = left
    BY <1>0, <1>1, <2>1, <2>2
  <2>5. QED
    BY <2>0, <2>1, <2>3, <2>4 DEF OwnTransfer, Receive
<1>8. OwnReply'
  <2>1. ended[target] = "not"
    BY <1>1 DEF Flow
  <2>2. ASSUME NEW r \in Registers, clear[r], ended[r] = "done"
        PROVE  rxbuf'[r] = Reply(r, request[r]) /\ (r = Writer => speed = request[r])
    BY <1>4, <2>1, <2>2 DEF OwnReply, Others
  <2>3. QED
    BY <1>6, <2>2 DEF OwnReply, Flow, Receive
<1>9. QED
  BY <1>5, <1>6, <1>7, <1>8

-----------------------------------------------------------------------------
(* The two interrupts: whatever transfer they end, the flag is cleared and *)
(* a transfer that had the line for itself is the one that ends.           *)
LEMMA EndKeepsFlow ==
  ASSUME Inv, NEW how \in {"done", "timeout"},
         how = "done" => active /\ RxIsDue,
         ended' = IF active THEN [ended EXCEPT ![target] = how] ELSE ended,
         busy' = FALSE, active' = FALSE, pc' = pc, sending' = sending, UNCHANGED history
  PROVE  Flow' /\ ended' \in [Registers -> {"not", "done", "timeout"}]
<1> USE DEF Inv, history
<1>0. target \in Registers /\ ended \in [Registers -> {"not", "done", "timeout"}]
  BY DEF Types
<1>1. /\ ended' \in [Registers -> {"not", "done", "timeout"}]
      /\ active => ended'[target] = how
      /\ \A q \in Registers : ended'[q] # ended[q] => active /\ q = target
  BY <1>0
<1>2. ASSUME NEW q \in Registers, alone[q] PROVE ended'[q] # "not"
  <2>1. CASE ended[q] = "not"
    BY <1>1, <1>2, <2>1 DEF Flow
  <2>2. CASE ended[q] # "not"
    BY <1>1, <2>2
  <2>3. QED
    BY <2>1, <2>2
<1>3. ASSUME NEW q \in Registers, clear[q], ended'[q] = "done"
      PROVE  pc[q] # "tx" /\ (sending # NoFrame => sending.of[1] # q)
  <2>1. CASE ended[q] = "done"
    BY <1>3, <2>1 DEF Flow
  <2>2. CASE ended[q] # "done"
    <3>1. active /\ q = target /\ RxIsDue
      BY <1>1, <1>3, <2>2
    <3>2. ~Untouched
      BY <1>0, <3>1, LengthsArePositive DEF Untouched, RxIsDue
    <3>3. pc[q] # "tx" /\ sending = NoFrame
      BY <1>3, <3>1, <3>2 DEF OwnTransfer
    <3>4. QED
      BY <3>3
  <2>3. QED
    BY <2>1, <2>2
<1>4. QED
  BY <1>1, <1>2, <1>3 DEF Flow

LEMMA RxDoneKeeps == ASSUME Inv, RxDone PROVE Inv'
<1> USE DEF Inv
<1>0. active /\ left = 0
  BY DEF RxDone, RxIsDue
<1>1. Flow' /\ ended' \in [Registers -> {"not", "done", "timeout"}]
  BY <1>0, EndKeepsFlow DEF RxDone
<1>2. Types'
  <2>1. busy' \in BOOLEAN /\ active' \in BOOLEAN /\ left' \in Nat
    BY DEF Types, RxDone
  <2>2. UNCHANGED <<pc, target, place, sending, line, rxbuf, history>>
    BY DEF RxDone
  <2>3. QED
    BY <1>1, <2>1, <2>2 DEF Types, Shaped, line, history
<1>3. OwnTransfer'
  BY DEF OwnTransfer, RxDone
<1>4. OwnReply'
  <2>1. ASSUME clear[target]
        PROVE  rxbuf[target] = Reply(target, Now) /\ (target = Writer => speed = Now)
    <3>1. /\ Len(fifo) \in Nat /\ Len(coming) \in Nat /\ place \in Nat
          /\ ReplyLen[target] \in Nat
      BY LengthsArePositive DEF Types
    <3>2. place - 1 = ReplyLen[target] /\ Whole
      BY <1>0, <2>1, <3>1 DEF OwnTransfer
    <3>3. /\ target = Writer => speed = Now
          /\ \A i \in 1..ReplyLen[target] : rxbuf[target][i] = Byte(target, Now, i)
      BY <3>2 DEF Whole
    <3>4. rxbuf[target] = [i \in 1..ReplyLen[target] |-> rxbuf[target][i]]
      BY DEF Types, Shaped
    <3>5. QED
      BY <3>3, <3>4 DEF Reply
  <2>2. ASSUME NEW r \in Registers, clear[r], ended'[r] = "done"
        PROVE  rxbuf[r] = Reply(r, request[r]) /\ (r = Writer => speed = request[r])
    <3>1. CASE r = target
      BY <2>1, <2>2, <3>1 DEF Now
    <3>2. CASE r # target
      BY <2>2, <3>2 DEF OwnReply, RxDone, Types
    <3>3. QED
      BY <3>1, <3>2
  <2>3. QED
    BY <1>1, <2>2 DEF OwnReply, RxDone, line, history, Flow
<1>5. QED
  BY <1>1, <1>2, <1>3, <1>4

LEMMA AlarmKeeps == ASSUME Inv, AlarmFires PROVE Inv'
<1> USE DEF Inv
<1>1. Flow' /\ ended' \in [Registers -> {"not", "done", "timeout"}]
  BY EndKeepsFlow DEF AlarmFires
<1>2. Types'
  <2>1. busy' \in BOOLEAN /\ active' \in BOOLEAN /\ left' \in Nat
    BY DEF Types, AlarmFires
  <2>2. UNCHANGED <<pc, target, place, sending, line, rxbuf, history>>
    BY DEF AlarmFires
  <2>3. QED
    BY <1>1, <2>1, <2>2 DEF Types, Shaped, line, history
<1>3. OwnTransfer'
  BY DEF OwnTransfer, AlarmFires
<1>4. OwnReply'
  <2>1. \A r \in Registers : ended'[r] = "done" => ended[r] = "done"
    BY DEF AlarmFires, Types
  <2>2. QED
    BY <1>1, <2>1 DEF OwnReply, AlarmFires, line, history, Flow
<1>5. QED
  BY <1>1, <1>2, <1>3, <1>4

LEMMA NextKeeps == ASSUME Inv, [Next]_vars PROVE Inv'
<1>1. ASSUME NEW r \in Registers, Run(r) PROVE Inv'
  BY <1>1, TasksKeep, StartRxKeeps, StartTxKeeps DEF Run
<1>2. CASE Sent \/ Answer \/ Arrive
  BY <1>2, SentKeeps, AnswerKeeps, ArriveKeeps
<1>3. CASE Receive \/ RxDone \/ AlarmFires
  BY <1>3, ReceiveKeeps, RxDoneKeeps, AlarmKeeps
<1>4. CASE UNCHANGED vars
  BY <1>4 DEF vars, channel, line, history, Inv, Types, Shaped, Flow, OwnTransfer, OwnReply,
     Untouched, Whole, Now
<1>5. QED
  BY <1>1, <1>2, <1>3, <1>4 DEF Next

(* A register that began its transfer on a clear line and got the          *)
(* interrupt of its receive channel holds its own device's reply to this   *)
(* very request, and a written speed is the one the fan runs at, however   *)
(* the other tasks' starts and the alarms of earlier transfers fall in     *)
(* between; and a reader that had the line for itself does not leave its   *)
(* wait before its own transfer has ended.                                 *)
THEOREM RepliesAreOwn == Spec => []OwnReply
<1>1. Inv => OwnReply
  BY DEF Inv
<1>2. QED
  BY InitInv, NextKeeps, <1>1, PTL DEF Spec

(* The bytes of a request run on into those of the next one only if the    *)
(* first one's transfer did not have a clear line for itself, or was ended *)
(* by an alarm while its request was being sent.                           *)
THEOREM GapsAreKept == Spec => GapUnlessOutOfStep
<1> DEFINE r == sending.of[1]
           Kept == sending # NoFrame /\ sending' \notin {sending, NoFrame} =>
                     (clear[r] /\ alone[r] => ended[r] = "timeout")
<1>1. Inv /\ [Next]_vars => Kept
  <2> SUFFICES ASSUME Inv, [Next]_vars, sending # NoFrame,
                      sending' \notin {sending, NoFrame}, clear[r], alone[r]
               PROVE  ended[r] = "timeout"
    OBVIOUS
  <2>1. PICK q \in Registers : StartTx(q)
    <3>1. CASE Sent \/ Answer \/ Arrive \/ Receive \/ RxDone \/ AlarmFires \/ UNCHANGED vars
      BY <3>1 DEF Sent, Answer, Arrive, Receive, RxDone, AlarmFires, vars
    <3>2. ASSUME NEW q \in Registers, Gate(q) \/ Claim(q) \/ StartRx(q) \/ Arm(q) \/ Wait(q)
          PROVE  FALSE
      BY <3>2 DEF Gate, Claim, StartRx, Arm, Wait
    <3>3. QED
      BY <3>1, <3>2 DEF Next, Run
  <2>2. r \in Registers /\ ended[r] \in {"not", "done", "timeout"}
    BY DEF Inv, Types, Requests
  <2>3. pc[q] = "tx"
    BY <2>1 DEF StartTx, Go
  <2>4. pc[r] # "tx" /\ ended[r] # "done"
    BY <2>2 DEF Inv, Flow
  <2>5. ended[r] # "not"
    <3>1. q \in Others(r)
      BY <2>3, <2>4 DEF Others
    <3>2. QED
      BY <2>2, <2>3, <3>1 DEF Inv, Flow
  <2>6. QED
    BY <2>2, <2>4, <2>5
<1>2. Inv /\ [Next]_vars => [Kept]_vars
  BY <1>1
<1>3. QED
  BY InitInv, NextKeeps, <1>2, PTL DEF Spec, GapUnlessOutOfStep
=============================================================================
