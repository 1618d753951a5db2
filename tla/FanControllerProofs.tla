------------------------ MODULE FanControllerProofs -------------------------
(***************************************************************************)
(* Proofs about FanController, for every set of levels, targets and        *)
(* speeds, every queue length and every pair of timer periods.             *)
(***************************************************************************)
EXTENDS FanController, SequenceTheorems, TLAPS

(* The two operators on a queue that every step is made of: an offer never *)
(* makes it longer than its length allows, and it is accepted exactly when *)
(* there is room.                                                          *)
LEMMA OfferKeepsType ==
  ASSUME NEW S, NEW q \in Seq(S), NEW cap \in Nat, Len(q) <= cap, NEW x \in S
  PROVE  /\ SendNoWait(q, cap, x) \in Seq(S)
         /\ Len(SendNoWait(q, cap, x)) <= cap
BY AppendProperties DEF SendNoWait

LEMMA TakeKeepsType ==
  ASSUME NEW S, NEW q \in Seq(S), NEW cap \in Nat, Len(q) <= cap, q # << >>
  PROVE  /\ Head(q) \in S
         /\ Tail(q) \in Seq(S)
         /\ Len(Tail(q)) <= cap
BY HeadTailProperties, LenProperties

LEMMA RampIsUint16 ==
  ASSUME NEW d \in Int, NEW target \in Nat
  PROVE  Ramp(d, target) \subseteq Uint16
<1>1. ASSUME NEW v \in Int PROVE ToUint16(v) \subseteq Uint16
  <2>1. v % 65536 \in Uint16
    BY DEF Uint16
  <2>2. 0 \in Uint16 /\ 65535 \in Uint16
    BY DEF Uint16
  <2>3. CASE v \in Uint16
    BY <2>3 DEF ToUint16
  <2>4. CASE v \notin Uint16
    <3>1. ToUint16(v) = {v % 65536, 0, 65535}
      BY <2>4 DEF ToUint16
    <3>2. QED
      BY ONLY <2>1, <2>2, <3>1
  <2>5. QED
    BY <2>3, <2>4
<1>2. CASE target < 2000
  <2>1. (1000 * d) \div (2000 - target) + 100 \in Int
    BY <1>2
  <2>2. QED
    BY <1>1, <1>2, <2>1 DEF Ramp
<1>3. CASE target = 2000
  BY <1>3 DEF Ramp, Uint16
<1>4. CASE target > 2000
  <2>1. 100 - (1000 * d + target - 2001) \div (target - 2000) \in Int
    BY <1>4
  <2>2. QED
    BY <1>1, <1>4, <2>1 DEF Ramp
<1>5. QED
  BY <1>2, <1>3, <1>4

(* What the assumptions on the constants say of the bounds in TypeOK.      *)
LEMMA ConstantTypes ==
  /\ ReadingCap \in Nat /\ WriteCap \in Nat /\ SpeedCap \in Nat
  /\ CloseDelay \in Nat /\ CloseDelay > 0 /\ BlockDelay \in Nat
  /\ CloseDelay < BlockDelay
BY CapacityAssumption, DelayAssumption

LEMMA InputTypes ==
  /\ \A r \in Reading : r.type = "CO2" => r.value \in Nat
  /\ \A r \in Reading : r.type = "FAN_COUNTER" => r.value \in Uint16
  /\ \A c \in Command : c.type = "CO2_TARGET" => c.value \in Nat
  /\ \A c \in Command : c.type = "FAN_SPEED" => c.value \in Uint16
BY LevelsAssumption, WordsAssumption DEF Reading, Command

LEMMA SpeedTypes ==
  /\ 0 \in Uint16
  /\ FAN_MAX \in Uint16
  /\ \A s \in Uint16 : Clipped(s) \in Uint16
<1>1. 0 \in Uint16 /\ FAN_MAX \in Uint16
  BY DEF Uint16, FAN_MAX
<1>2. QED
  BY <1>1 DEF Clipped

LEMMA OfferType ==
  ASSUME TypeOK, NEW s \in Uint16, Offer(s)
  PROVE  /\ speedQ' \in Seq(Uint16)
         /\ Len(speedQ') <= SpeedCap
         /\ lost' \in BOOLEAN
<1>1. speedQ \in Seq(Uint16) /\ Len(speedQ) <= SpeedCap
  BY DEF TypeOK
<1>2. QED
  BY <1>1, OfferKeepsType, ConstantTypes DEF Offer

(* Type correctness: every operation of the controller, of its timers and  *)
(* of its surroundings keeps every queue within its length, every speed    *)
(* within 16 bits and every timer within its period.                       *)
THEOREM TypeCorrect == Spec => []TypeOK
<1>1. Init => TypeOK
  <2> SUFFICES ASSUME Init PROVE TypeOK
    OBVIOUS
  <2>1. /\ readingQ \in Seq(Reading) /\ writeQ \in Seq(Command)
        /\ speedQ \in Seq(Uint16)
        /\ Len(readingQ) = 0 /\ Len(writeQ) = 0 /\ Len(speedQ) = 0
    BY DEF Init
  <2>2. co2Target \in Nat
    BY LevelsAssumption DEF Init
  <2>3. /\ speed \in Uint16 /\ newSpeed \in Uint16 /\ written \in Uint16
        /\ counter \in Uint16 /\ co2 \in Nat /\ distance \in Int
        /\ overruns \in Nat
    BY SpeedTypes DEF Init
  <2>4. /\ closeLeft \in 0..CloseDelay /\ clearLeft \in 0..BlockDelay
        /\ sinceOpen \in 0..BlockDelay
    BY ConstantTypes DEF Init
  <2>5. /\ spinning \in BOOLEAN /\ manualMode \in BOOLEAN
        /\ valveOpenedRecently \in BOOLEAN /\ valve \in BOOLEAN
        /\ changed \in BOOLEAN /\ configured \in BOOLEAN /\ lost \in BOOLEAN
        /\ controlPc \in ControlPcs /\ readPc \in {"receive", "send"}
    BY DEF Init, ControlPcs
  <2>6. QED
    BY <2>1, <2>2, <2>3, <2>4, <2>5, ConstantTypes DEF TypeOK
<1>2. TypeOK /\ [Next]_vars => TypeOK'
  <2> SUFFICES ASSUME TypeOK, [Next]_vars PROVE TypeOK'
    OBVIOUS
  <2> USE ConstantTypes, SpeedTypes
  <2>1. CASE ControlBoot
    BY <2>1 DEF ControlBoot, Go, TypeOK, ControlPcs, settings, reader, sensed,
       offer, valveVars, locals
  <2>2. CASE ControlBootSend
    BY <2>2, OfferType DEF ControlBootSend, Go, TypeOK, ControlPcs, settings,
       reader, sensed, locals
  <2>3. CASE ControlReceive
    <3>1. /\ Head(readingQ) \in Reading
          /\ Tail(readingQ) \in Seq(Reading)
          /\ Len(Tail(readingQ)) <= ReadingCap
      BY <2>3, TakeKeepsType DEF ControlReceive, TypeOK
    <3>2. co2' \in Nat /\ counter' \in Uint16 /\ spinning' \in BOOLEAN
      BY <2>3, <3>1, InputTypes DEF ControlReceive, TypeOK, IsFanSpinning
    <3>3. QED
      BY <2>3, <3>1, <3>2 DEF ControlReceive, Go, TypeOK, settings, reader,
         offer, valveVars, locals
  <2>4. CASE ControlDecide
    BY <2>4 DEF ControlDecide, Decide, Go, TypeOK, ControlPcs, settings, reader,
       sensed, offer, valveVars
  <2>5. CASE ControlCritical
    BY <2>5 DEF ControlCritical, Assign, Go, TypeOK, ControlPcs, settings,
       reader, sensed, offer, valveVars
  <2>6. CASE ControlOpenValve
    BY <2>6 DEF ControlOpenValve, Go, TypeOK, ControlPcs, settings, reader,
       sensed, offer
  <2>7. CASE ControlBlock
    BY <2>7 DEF ControlBlock, Block, Go, TypeOK, ControlPcs, settings, reader,
       sensed, offer, locals
  <2>8. CASE ControlArmClear
    BY <2>8 DEF ControlArmClear, ArmClear, Go, TypeOK, ControlPcs, settings,
       reader, sensed, offer
  <2>9. CASE ControlSpeedFor
    <3>1. newSpeed' \in Uint16
      BY <2>9, RampIsUint16 DEF ControlSpeedFor, TypeOK
    <3>2. QED
      BY <2>9, <3>1 DEF ControlSpeedFor, Go, TypeOK, ControlPcs, settings,
         reader, sensed, offer, valveVars
  <2>10. CASE ControlKeepLimit
    BY <2>10 DEF ControlKeepLimit, Go, TypeOK, ControlPcs, settings, reader,
       sensed, offer, valveVars
  <2>11. CASE ControlClip
    <3>1. Clipped(newSpeed) \in Uint16
      BY DEF TypeOK
    <3>2. QED
      BY <2>11, <3>1 DEF ControlClip, Assign, Go, TypeOK, ControlPcs, settings,
         reader, sensed, offer, valveVars
  <2>12. CASE ControlSend
    <3>1. Offer(speed) /\ speed \in Uint16
      BY <2>12 DEF ControlSend, Send, TypeOK
    <3>2. QED
      BY <2>12, <3>1, OfferType DEF ControlSend, Send, Go, TypeOK, ControlPcs,
         settings, reader, sensed, valveVars
  <2>13. CASE ReadCommand
    <3>1. /\ Head(writeQ) \in Command
          /\ Tail(writeQ) \in Seq(Command)
          /\ Len(Tail(writeQ)) <= WriteCap
      BY <2>13, TakeKeepsType DEF ReadCommand, TypeOK
    <3>2. CASE ObeyTarget(Head(writeQ))
      BY <2>13, <3>1, <3>2, InputTypes DEF ReadCommand, ObeyTarget, TypeOK,
         sensed, offer, valveVars, locals
    <3>3. CASE ObeySpeed(Head(writeQ))
      BY <2>13, <3>1, <3>3, InputTypes DEF ReadCommand, ObeySpeed, TypeOK,
         sensed, offer, valveVars, locals
    <3>4. CASE ObeyMode(Head(writeQ))
      <4>1. manualMode' \in BOOLEAN
        BY <3>4 DEF ObeyMode, TypeOK
      <4>2. overruns' \in Nat
        BY <3>4 DEF ObeyMode, TypeOK
      <4>3. QED
        BY <2>13, <3>1, <3>4, <4>1, <4>2 DEF ReadCommand, ObeyMode, TypeOK,
           sensed, offer, valveVars, locals
    <3>5. CASE Ignore(Head(writeQ))
      BY <2>13, <3>1, <3>5 DEF ReadCommand, Ignore, TypeOK,
         sensed, offer, valveVars, locals
    <3>6. QED
      BY <2>13, <3>2, <3>3, <3>4, <3>5 DEF ReadCommand
  <2>14. CASE ReadSend
    <3>1. Offer(speed) /\ speed \in Uint16
      BY <2>14 DEF ReadSend, TypeOK
    <3>2. QED
      BY <2>14, <3>1, OfferType DEF ReadSend, TypeOK, settings, sensed,
         valveVars, locals
  <2>15. ASSUME NEW t \in Targets, NEW s \in Speeds, NEW m \in BOOLEAN,
                SetInitialValues(t, s, m)
         PROVE  TypeOK'
    <3>1. t \in Nat /\ s \in Uint16
      BY LevelsAssumption, WordsAssumption
    <3>2. /\ speedQ' \in Seq(Uint16) /\ Len(speedQ') <= SpeedCap
          /\ lost' \in BOOLEAN /\ speed' \in Uint16
      BY <2>15, <3>1, OfferType DEF SetInitialValues, TypeOK, offer
    <3>3. overruns' \in Nat
      BY <2>15 DEF SetInitialValues, TypeOK
    <3>4. QED
      BY <2>15, <3>1, <3>2, <3>3 DEF SetInitialValues, TypeOK, sensed,
         valveVars, locals, reader
  <2>16. CASE Tick
    <3>1. valve' \in BOOLEAN /\ valveOpenedRecently' \in BOOLEAN
      BY <2>16 DEF Tick, TypeOK
    <3>2. /\ closeLeft' \in 0..CloseDelay /\ clearLeft' \in 0..BlockDelay
          /\ sinceOpen' \in 0..BlockDelay
      BY <2>16 DEF Tick, TypeOK, TickOf
    <3>3. QED
      BY <2>16, <3>1, <3>2 DEF Tick, TypeOK, offer, sensed, settings, locals,
         reader
  <2>17. ASSUME NEW r \in Reading, Publish(r) PROVE TypeOK'
    <3>1. readingQ' \in Seq(Reading) /\ Len(readingQ') <= ReadingCap
      BY <2>17, OfferKeepsType DEF Publish, TypeOK
    <3>2. QED
      BY <2>17, <3>1 DEF Publish, TypeOK, offer, sensed, settings, valveVars,
         locals, reader
  <2>18. ASSUME NEW c \in Command, SendCommand(c) PROVE TypeOK'
    <3>1. writeQ' \in Seq(Command) /\ Len(writeQ') <= WriteCap
      BY <2>18, OfferKeepsType DEF SendCommand, TypeOK
    <3>2. QED
      BY <2>18, <3>1 DEF SendCommand, TypeOK, offer, sensed, settings,
         valveVars, locals, reader
  <2>19. CASE TakeSpeed
    <3>1. /\ Head(speedQ) \in Uint16 /\ Tail(speedQ) \in Seq(Uint16)
          /\ Len(Tail(speedQ)) <= SpeedCap
      BY <2>19, TakeKeepsType DEF TakeSpeed, TypeOK
    <3>2. QED
      BY <2>19, <3>1 DEF TakeSpeed, TypeOK, sensed, settings, valveVars,
         locals, reader
  <2>20. CASE UNCHANGED vars
    BY <2>20 DEF TypeOK, vars, sensed, settings, offer, valveVars, locals, reader
  <2>21. QED
    BY <2>1, <2>2, <2>3, <2>4, <2>5, <2>6, <2>7, <2>8, <2>9, <2>10, <2>11,
       <2>12, <2>13, <2>14, <2>15, <2>16, <2>17, <2>18, <2>19, <2>20
    DEF Next, ControlTask, ReadTask
<1>3. QED
  BY <1>1, <1>2, PTL DEF Spec

-----------------------------------------------------------------------------
(* What a step does to the pair of values that SpeedDelivered compares.    *)
LEMMA LastOfOffer ==
  ASSUME TypeOK, NEW s \in Uint16, Offer(s), written' = written
  PROVE  lost' \/ LastOffered' = s
<1>1. speedQ \in Seq(Uint16)
  BY DEF TypeOK
<1>2. CASE Len(speedQ) < SpeedCap
  BY <1>1, <1>2, AppendProperties DEF Offer, SendNoWait, LastOffered
<1>3. CASE Len(speedQ) >= SpeedCap
  BY <1>3 DEF Offer
<1>4. QED
  BY <1>1, <1>2, <1>3, ConstantTypes

LEMMA EmptyIffNoLength ==
  ASSUME NEW q \in Seq(Uint16)
  PROVE  q = << >> <=> Len(q) = 0
BY EmptySeq

LEMMA LastOfTake ==
  ASSUME TypeOK, TakeSpeed
  PROVE  LastOffered' = LastOffered
<1>1. speedQ \in Seq(Uint16) /\ speedQ # << >>
  BY DEF TypeOK, TakeSpeed
<1>2. /\ Tail(speedQ) \in Seq(Uint16)
      /\ Len(Tail(speedQ)) = Len(speedQ) - 1
      /\ \A i \in 1..Len(Tail(speedQ)) : Tail(speedQ)[i] = speedQ[i + 1]
  BY <1>1, HeadTailProperties
<1>3. Len(speedQ) = 1 \/ (Len(speedQ) \in Nat /\ Len(speedQ) > 1)
  BY <1>1, EmptySeq
<1>4. CASE Len(speedQ) = 1
  <2>1. Tail(speedQ) = << >>
    <3>1. Len(Tail(speedQ)) = 0
      BY <1>2, <1>4
    <3>2. QED
      BY <1>2, <3>1, EmptyIffNoLength, Zenon
  <2>2. Head(speedQ) = speedQ[1]
    BY <1>1
  <2>3. QED
    BY <1>1, <1>4, <2>1, <2>2 DEF TakeSpeed, LastOffered
<1>5. CASE Len(speedQ) \in Nat /\ Len(speedQ) > 1
  <2>1. Tail(speedQ) # << >>
    <3>1. Len(Tail(speedQ)) # 0
      BY <1>2, <1>5
    <3>2. QED
      BY <1>2, <3>1, EmptyIffNoLength, Zenon
  <2>2. Tail(speedQ)[Len(Tail(speedQ))] = speedQ[Len(speedQ)]
    BY <1>2, <1>5
  <2>3. QED
    BY <1>1, <2>1, <2>2 DEF TakeSpeed, LastOffered
<1>6. QED
  BY <1>3, <1>4, <1>5

(* The speed of the fan, for any interleaving of the two tasks and the     *)
(* boot task inside set_speed: when nobody is in it and the last offer was *)
(* not dropped, the last speed on its way to the fan is the member.        *)
THEOREM SpeedIsDelivered == Spec => []SpeedDelivered
<1>1. Init => SpeedDelivered
  BY DEF Init, SpeedDelivered, InSetSpeed
<1>2. TypeOK /\ SpeedDelivered /\ [Next]_vars => SpeedDelivered'
  <2> SUFFICES ASSUME TypeOK, SpeedDelivered, [Next]_vars,
                      ~InSetSpeed', ~lost'
               PROVE  LastOffered' = speed'
    BY DEF SpeedDelivered
  \* A step that leaves set_speed alone: nobody was in it before either.
  <2>1. ASSUME UNCHANGED <<speed, offer, written>>, ~InSetSpeed
        PROVE  LastOffered' = speed'
    BY <2>1 DEF SpeedDelivered, LastOffered, offer
  \* A step that ends in an offer of the member.
  <2>2. ASSUME Offer(speed), UNCHANGED <<speed, written>>
        PROVE  LastOffered' = speed'
    BY <2>2, LastOfOffer DEF TypeOK
  <2>3. CASE ControlBoot \/ ControlCritical \/ ControlClip
    BY <2>3 DEF ControlBoot, ControlCritical, ControlClip, Go, InSetSpeed
  <2>4. CASE ControlBootSend \/ ControlSend
    BY <2>2, <2>4 DEF ControlBootSend, ControlSend, Send, Go
  <2>5. CASE ControlReceive \/ ControlDecide
    BY <2>1, <2>5 DEF ControlReceive, ControlDecide, Decide, Go, InSetSpeed,
       offer, reader
  <2>6. CASE ControlOpenValve \/ ControlBlock \/ ControlArmClear
    BY <2>1, <2>6 DEF ControlOpenValve, ControlBlock, ControlArmClear, Block,
       ArmClear, Go, InSetSpeed, offer, reader
  <2>7. CASE ControlSpeedFor \/ ControlKeepLimit
    BY <2>1, <2>7 DEF ControlSpeedFor, ControlKeepLimit, Go, InSetSpeed, offer,
       reader
  <2>8. CASE ReadCommand
    <3>1. CASE ObeySpeed(Head(writeQ))
      BY <3>1 DEF ObeySpeed, InSetSpeed
    <3>2. CASE ~ObeySpeed(Head(writeQ))
      BY <2>1, <2>8, <3>2 DEF ReadCommand, ObeyTarget, ObeyMode, Ignore,
         InSetSpeed, offer
    <3>3. QED
      BY <3>1, <3>2
  <2>9. CASE ReadSend
    BY <2>2, <2>9 DEF ReadSend
  <2>10. ASSUME NEW t \in Targets, NEW s \in Speeds, NEW m \in BOOLEAN,
                SetInitialValues(t, s, m)
         PROVE  LastOffered' = speed'
    <3>1. CASE m
      <4>1. speed' = s /\ Offer(s) /\ written' = written
        BY <2>10, <3>1 DEF SetInitialValues
      <4>2. s \in Uint16
        BY WordsAssumption
      <4>3. QED
        BY <4>1, <4>2, LastOfOffer
    <3>2. CASE ~m
      BY <2>1, <2>10, <3>2 DEF SetInitialValues, InSetSpeed, offer, reader
    <3>3. QED
      BY <3>1, <3>2
  <2>11. CASE Tick
    BY <2>1, <2>11 DEF Tick, InSetSpeed, offer, reader
  <2>12. ASSUME NEW r \in Reading, Publish(r) PROVE LastOffered' = speed'
    BY <2>1, <2>12 DEF Publish, InSetSpeed, offer, reader
  <2>13. ASSUME NEW c \in Command, SendCommand(c) PROVE LastOffered' = speed'
    BY <2>1, <2>13 DEF SendCommand, InSetSpeed, offer, reader
  <2>14. CASE TakeSpeed
    BY <2>14, LastOfTake DEF TakeSpeed, SpeedDelivered, InSetSpeed, reader
  <2>15. CASE UNCHANGED vars
    BY <2>1, <2>15 DEF vars, InSetSpeed, offer, reader
  <2>16. QED
    BY <2>3, <2>4, <2>5, <2>6, <2>7, <2>8, <2>9, <2>10, <2>11, <2>12, <2>13,
       <2>14, <2>15 DEF Next, ControlTask, ReadTask
<1>3. QED
  BY <1>1, <1>2, TypeCorrect, PTL DEF Spec

-----------------------------------------------------------------------------
(* The strengthening: an adjustment in progress began in automatic mode.   *)
LEMMA OverrunInvariant == Spec => []OverrunInv
<1>1. Init => OverrunInv
  BY DEF Init, OverrunInv
<1>2. TypeOK /\ OverrunInv /\ [Next]_vars => OverrunInv'
  <2> SUFFICES ASSUME TypeOK, OverrunInv, [Next]_vars PROVE OverrunInv'
    OBVIOUS
  <2>1. CASE ControlBoot \/ ControlBootSend \/ ControlReceive
    BY <2>1 DEF ControlBoot, ControlBootSend, ControlReceive, Go, OverrunInv,
       settings
  <2>2. CASE ControlDecide
    BY <2>2 DEF ControlDecide, Decide, Go, OverrunInv, settings
  <2>3. CASE ControlCritical \/ ControlClip
    BY <2>3 DEF ControlCritical, ControlClip, Assign, Go, OverrunInv, settings
  <2>4. CASE ControlOpenValve \/ ControlBlock \/ ControlArmClear
    BY <2>4 DEF ControlOpenValve, ControlBlock, ControlArmClear, Block, ArmClear,
       Go, OverrunInv, settings
  <2>5. CASE ControlSpeedFor \/ ControlKeepLimit \/ ControlSend
    BY <2>5 DEF ControlSpeedFor, ControlKeepLimit, ControlSend, Send, Go,
       OverrunInv, settings
  <2>6. CASE ReadCommand
    <3>1. UNCHANGED controlPc
      BY <2>6 DEF ReadCommand
    <3>2. \/ UNCHANGED <<manualMode, overruns>>
          \/ overruns' = IF manualMode' THEN overruns ELSE 0
      BY <2>6 DEF ReadCommand, ObeyTarget, ObeySpeed, ObeyMode, Ignore
    <3>3. QED
      BY <3>1, <3>2 DEF OverrunInv
  <2>7. ASSUME NEW t \in Targets, NEW s \in Speeds, NEW m \in BOOLEAN,
               SetInitialValues(t, s, m)
        PROVE  OverrunInv'
    BY <2>7 DEF SetInitialValues, OverrunInv
  <2>8. CASE ReadSend \/ Tick \/ TakeSpeed
    BY <2>8 DEF ReadSend, Tick, TakeSpeed, OverrunInv, settings
  <2>9. ASSUME NEW r \in Reading, Publish(r) PROVE OverrunInv'
    BY <2>9 DEF Publish, OverrunInv, settings
  <2>10. ASSUME NEW c \in Command, SendCommand(c) PROVE OverrunInv'
    BY <2>10 DEF SendCommand, OverrunInv, settings
  <2>11. CASE UNCHANGED vars
    BY <2>11 DEF vars, OverrunInv, settings
  <2>12. QED
    BY <2>1, <2>2, <2>3, <2>4, <2>5, <2>6, <2>7, <2>8, <2>9, <2>10, <2>11
    DEF Next, ControlTask, ReadTask
<1>3. QED
  BY <1>1, <1>2, TypeCorrect, PTL DEF Spec

(* After a switch to manual mode, by a command or by the boot task, at     *)
(* most one speed of the automatic control still reaches the member.       *)
THEOREM OverrunIsBounded == Spec => []OverrunBound
<1>1. OverrunInv => OverrunBound
  BY DEF OverrunInv, OverrunBound
<1>2. QED
  BY <1>1, OverrunInvariant, PTL

-----------------------------------------------------------------------------
(* The pin, the flag and the timers: an opening starts both timers, the    *)
(* closing one expires first, and the flag is cleared by the other only.   *)
LEMMA ValveInvariant == Spec => []ValveInv
<1>1. Init => ValveInv
  BY DEF Init, ValveInv, ValveWillClose
<1>2. TypeOK /\ ValveInv /\ [Next]_vars => ValveInv'
  <2> SUFFICES ASSUME TypeOK, ValveInv, [Next]_vars PROVE ValveInv'
    OBVIOUS
  <2> USE ConstantTypes
  <2>1. CASE ControlBoot
    BY <2>1 DEF ControlBoot, Go, ValveInv, ValveWillClose, valveVars
  <2>2. CASE ControlBootSend
    BY <2>2 DEF ControlBootSend, Go, ValveInv, ValveWillClose, TypeOK
  <2>3. CASE ControlReceive \/ ControlDecide \/ ControlCritical \/ ControlClip
    BY <2>3 DEF ControlReceive, ControlDecide, Decide, ControlCritical,
       ControlClip, Assign, Go, ValveInv, ValveWillClose, valveVars
  <2>4. CASE ControlOpenValve
    BY <2>4 DEF ControlOpenValve, Go, ValveInv, ValveWillClose, TypeOK
  <2>5. CASE ControlBlock
    BY <2>5 DEF ControlBlock, Block, Go, ValveInv, ValveWillClose, TypeOK
  <2>6. CASE ControlArmClear
    BY <2>6 DEF ControlArmClear, ArmClear, Go, ValveInv, ValveWillClose, TypeOK
  <2>7. CASE ControlSpeedFor \/ ControlKeepLimit \/ ControlSend
    BY <2>7 DEF ControlSpeedFor, ControlKeepLimit, ControlSend, Send, Go,
       ValveInv, ValveWillClose, valveVars
  <2>8. CASE ReadCommand \/ ReadSend \/ TakeSpeed
    <3>1. UNCHANGED <<valveVars, controlPc>>
      BY <2>8 DEF ReadCommand, ReadSend, TakeSpeed
    <3>2. QED
      BY <3>1 DEF ValveInv, ValveWillClose, valveVars
  <2>9. ASSUME NEW t \in Targets, NEW s \in Speeds, NEW m \in BOOLEAN,
               SetInitialValues(t, s, m)
        PROVE  ValveInv'
    BY <2>9 DEF SetInitialValues, ValveInv, ValveWillClose, valveVars
  <2>10. CASE Tick
    <3>1. /\ valve' <=> valve /\ closeLeft # 1
          /\ valveOpenedRecently' <=> valveOpenedRecently /\ clearLeft # 1
      BY <2>10 DEF Tick, Expires
    <3>2. /\ closeLeft' = IF closeLeft > 0 THEN closeLeft - 1 ELSE 0
          /\ clearLeft' = IF clearLeft > 0 THEN clearLeft - 1 ELSE 0
          /\ sinceOpen' = IF sinceOpen < BlockDelay THEN sinceOpen + 1
                                                   ELSE BlockDelay
          /\ controlPc' = controlPc
      BY <2>10 DEF Tick, TickOf
    <3>3. closeLeft \in Nat /\ clearLeft \in Nat /\ sinceOpen \in Nat
      BY DEF TypeOK
    <3>4. clearLeft' > 0 => sinceOpen' + clearLeft' >= BlockDelay
      BY <3>2, <3>3 DEF ValveInv
    <3>5. valve' /\ clearLeft' > 0 => closeLeft' < clearLeft'
      BY <3>1, <3>2, <3>3 DEF ValveInv
    <3>6. valve' => valveOpenedRecently' \/ controlPc' = "block"
      BY <3>1, <3>2, <3>3 DEF ValveInv, ValveWillClose
    <3>7. QED
      BY <3>1, <3>2, <3>3, <3>4, <3>5, <3>6 DEF ValveInv, ValveWillClose
  <2>11. ASSUME NEW r \in Reading, Publish(r) PROVE ValveInv'
    BY <2>11 DEF Publish, ValveInv, ValveWillClose, valveVars
  <2>12. ASSUME NEW c \in Command, SendCommand(c) PROVE ValveInv'
    BY <2>12 DEF SendCommand, ValveInv, ValveWillClose, valveVars
  <2>13. CASE UNCHANGED vars
    BY <2>13 DEF vars, ValveInv, ValveWillClose, valveVars
  <2>14. QED
    BY <2>1, <2>2, <2>3, <2>4, <2>5, <2>6, <2>7, <2>8, <2>9, <2>10, <2>11,
       <2>12, <2>13 DEF Next, ControlTask, ReadTask
<1>3. QED
  BY <1>1, <1>2, TypeCorrect, PTL DEF Spec

(* An open valve always has its closing ahead of it.                       *)
THEOREM ValveClosingScheduled == Spec => []ValveWillClose
<1>1. ValveInv => ValveWillClose
  BY DEF ValveInv
<1>2. QED
  BY <1>1, ValveInvariant, PTL

(* The valve of FanController implements the duty cycle of ValveDuty: it   *)
(* opens only when ready, and is ready only BlockDelay ticks after it      *)
(* opened, whatever the commands, the readings and the mode do meanwhile.  *)
THEOREM ValveKeepsDuty == Spec => DutySpec
<1>1. Init => Duty!Init
  BY DEF Init, Duty!Init, ValvePhase
<1>2. TypeOK /\ ValveInv /\ [Next]_vars => [Duty!Next]_Duty!dutyVars
  <2> SUFFICES ASSUME TypeOK, ValveInv, [Next]_vars
               PROVE  Duty!Next \/ UNCHANGED <<ValvePhase, sinceOpen>>
    BY DEF Duty!dutyVars
  <2> USE ConstantTypes
  <2>1. ASSUME UNCHANGED <<valve, valveOpenedRecently, sinceOpen>>
        PROVE  UNCHANGED <<ValvePhase, sinceOpen>>
    BY <2>1 DEF ValvePhase
  <2>2. CASE ControlOpenValve
    <3>1. ~valve /\ ~valveOpenedRecently /\ valve' /\ sinceOpen' = 0
      BY <2>2 DEF ControlOpenValve, Go, ValveInv
    <3>2. QED
      BY <3>1 DEF Duty!Next, Duty!Open, ValvePhase
  <2>3. CASE ControlBlock
    <3>1. valve /\ valve' /\ sinceOpen' = sinceOpen
      BY <2>3 DEF ControlBlock, Block, Go, ValveInv
    <3>2. QED
      BY <3>1 DEF ValvePhase
  <2>4. CASE Tick
    <3>1. Duty!Elapse
      BY <2>4 DEF Tick, Duty!Elapse
    <3>2. CASE valve /\ closeLeft = 1
      <4>1. ~valve' /\ valveOpenedRecently'
        <5>1. ~valve' /\ (valveOpenedRecently' <=>
                             valveOpenedRecently /\ clearLeft # 1)
          BY <2>4, <3>2 DEF Tick, Expires
        <5>2. valveOpenedRecently /\ clearLeft # 1
          BY <3>2 DEF ValveInv, TypeOK
        <5>3. QED
          BY <5>1, <5>2
      <4>2. QED
        BY <3>1, <3>2, <4>1 DEF Duty!Next, Duty!Close, ValvePhase
    <3>3. CASE valve /\ closeLeft # 1
      <4>1. valve'
        BY <2>4, <3>3 DEF Tick, Expires
      <4>2. QED
        BY <3>1, <3>3, <4>1 DEF Duty!Next, Duty!Wait, ValvePhase
    <3>4. CASE ~valve /\ valveOpenedRecently /\ clearLeft = 1
      <4>1. ~valve' /\ ~valveOpenedRecently' /\ sinceOpen' >= BlockDelay
        BY <2>4, <3>4 DEF Tick, Expires, ValveInv, TypeOK
      <4>2. QED
        BY <3>1, <3>4, <4>1 DEF Duty!Next, Duty!Release, ValvePhase
    <3>5. CASE ~valve /\ ~(valveOpenedRecently /\ clearLeft = 1)
      <4>1. ~valve' /\ (valveOpenedRecently' <=> valveOpenedRecently)
        BY <2>4, <3>5 DEF Tick, Expires
      <4>2. QED
        BY <3>1, <3>5, <4>1 DEF Duty!Next, Duty!Wait, ValvePhase
    <3>6. QED
      BY <3>2, <3>3, <3>4, <3>5
  <2>5. CASE ControlBoot \/ ControlBootSend \/ ControlReceive \/ ControlDecide
    BY <2>1, <2>5 DEF ControlBoot, ControlBootSend, ControlReceive,
       ControlDecide, Decide, valveVars
  <2>6. CASE ControlCritical \/ ControlClip \/ ControlArmClear
    BY <2>1, <2>6 DEF ControlCritical, ControlClip, ControlArmClear, ArmClear,
       Assign, valveVars
  <2>7. CASE ControlSpeedFor \/ ControlKeepLimit \/ ControlSend
    BY <2>1, <2>7 DEF ControlSpeedFor, ControlKeepLimit, ControlSend, Send,
       valveVars
  <2>8. CASE ReadCommand \/ ReadSend \/ TakeSpeed
    BY <2>1, <2>8 DEF ReadCommand, ReadSend, TakeSpeed, valveVars
  <2>9. ASSUME NEW t \in Targets, NEW s \in Speeds, NEW m \in BOOLEAN,
               SetInitialValues(t, s, m)
        PROVE  UNCHANGED <<ValvePhase, sinceOpen>>
    BY <2>1, <2>9 DEF SetInitialValues, valveVars
  <2>10. ASSUME NEW r \in Reading, Publish(r)
         PROVE  UNCHANGED <<ValvePhase, sinceOpen>>
    BY <2>1, <2>10 DEF Publish, valveVars
  <2>11. ASSUME NEW c \in Command, SendCommand(c)
         PROVE  UNCHANGED <<ValvePhase, sinceOpen>>
    BY <2>1, <2>11 DEF SendCommand, valveVars
  <2>12. CASE UNCHANGED vars
    BY <2>1, <2>12 DEF vars, valveVars
  <2>13. QED
    BY <2>2, <2>3, <2>4, <2>5, <2>6, <2>7, <2>8, <2>9, <2>10, <2>11, <2>12
    DEF Next, ControlTask, ReadTask
<1>3. QED
  BY <1>1, <1>2, TypeCorrect, ValveInvariant, PTL
  DEF Spec, DutySpec, Duty!Spec

-----------------------------------------------------------------------------
(* No target makes automatic control leave the fan's range: a speed from   *)
(* outside it was commanded or stored.                                     *)
THEOREM SpeedStaysInRange == Spec => []SpeedInRange
<1>1. Init => SpeedInRange
  BY DEF Init, SpeedInRange, FAN_MIN, FAN_MAX
<1>2. TypeOK /\ SpeedInRange /\ [Next]_vars => SpeedInRange'
  <2> SUFFICES ASSUME TypeOK, SpeedInRange, [Next]_vars PROVE SpeedInRange'
    OBVIOUS
  <2>1. ASSUME speed' \in FAN_MIN..FAN_MAX \/ speed' \in Speeds \/ speed' = speed
        PROVE  SpeedInRange'
    BY <2>1 DEF SpeedInRange
  <2>2. CASE ControlBoot \/ ControlCritical
    BY <2>1, <2>2 DEF ControlBoot, ControlCritical, Assign, FAN_MIN, FAN_MAX
  <2>3. CASE ControlClip
    <3>1. newSpeed \in 0..65535
      <4>1. newSpeed \in Uint16
        BY DEF TypeOK
      <4>2. QED
        BY <4>1 DEF Uint16
    <3>2. Clipped(newSpeed) \in FAN_MIN..FAN_MAX
      BY <3>1 DEF Clipped, FAN_MIN, FAN_MAX
    <3>3. QED
      BY <2>1, <2>3, <3>2 DEF ControlClip, Assign
  <2>4. CASE ControlBootSend \/ ControlReceive \/ ControlDecide
    BY <2>1, <2>4 DEF ControlBootSend, ControlReceive, ControlDecide, Decide
  <2>5. CASE ControlOpenValve \/ ControlBlock \/ ControlArmClear
    BY <2>1, <2>5 DEF ControlOpenValve, ControlBlock, Block, ControlArmClear,
       ArmClear
  <2>6. CASE ControlSpeedFor \/ ControlKeepLimit \/ ControlSend
    BY <2>1, <2>6 DEF ControlSpeedFor, ControlKeepLimit, ControlSend, Send
  <2>7. CASE ReadCommand
    <3>1. Head(writeQ) \in Command
      BY <2>7, TakeKeepsType, ConstantTypes DEF ReadCommand, TypeOK
    <3>2. Head(writeQ).type = "FAN_SPEED" => Head(writeQ).value \in Speeds
      BY <3>1 DEF Command
    <3>3. speed' \in Speeds \/ speed' = speed
      BY <2>7, <3>2 DEF ReadCommand, ObeyTarget, ObeySpeed, ObeyMode, Ignore
    <3>4. QED
      BY <2>1, <3>3
  <2>8. ASSUME NEW t \in Targets, NEW s \in Speeds, NEW m \in BOOLEAN,
               SetInitialValues(t, s, m)
        PROVE  SpeedInRange'
    BY <2>1, <2>8 DEF SetInitialValues
  <2>9. CASE ReadSend \/ Tick \/ TakeSpeed
    BY <2>1, <2>9 DEF ReadSend, Tick, TakeSpeed
  <2>10. ASSUME NEW r \in Reading, Publish(r) PROVE SpeedInRange'
    BY <2>1, <2>10 DEF Publish
  <2>11. ASSUME NEW c \in Command, SendCommand(c) PROVE SpeedInRange'
    BY <2>1, <2>11 DEF SendCommand
  <2>12. CASE UNCHANGED vars
    BY <2>1, <2>12 DEF vars
  <2>13. QED
    BY <2>2, <2>3, <2>4, <2>5, <2>6, <2>7, <2>8, <2>9, <2>10, <2>11, <2>12
    DEF Next, ControlTask, ReadTask
<1>3. QED
  BY <1>1, <1>2, TypeCorrect, PTL DEF Spec
=============================================================================
