------------------------- MODULE CommandPathProofs --------------------------
(***************************************************************************)
(* Proofs about CommandPath, for every range of the knob, every set of     *)
(* stored settings, of edges and of web commands, and every queue length.  *)
(***************************************************************************)
EXTENDS OneUser, SequenceTheorems, TLAPS

(* An offer never makes a queue longer than its length allows.             *)
LEMMA OfferKeepsType ==
  ASSUME NEW S, NEW q \in Seq(S), NEW cap \in Nat, Len(q) <= cap, NEW x \in S
  PROVE  /\ SendNoWait(q, cap, x) \in Seq(S)
         /\ Len(SendNoWait(q, cap, x)) <= cap
BY AppendProperties DEF SendNoWait

LEMMA TakeKeepsType ==
  ASSUME NEW S, NEW q \in Seq(S), NEW cap \in Nat, Len(q) <= cap, q # << >>
  PROVE  /\ Head(q) \in S
         /\ Tail(q) \in Seq(S)
         /\ Len(Tail(q)) <= cap
BY HeadTailProperties, LenProperties

(* Both queues keep their type and their length.                           *)
QueuesOK ==
  /\ writeQ \in Seq(Command) /\ Len(writeQ) <= WriteCap
  /\ screenQ \in Seq(Command) /\ Len(screenQ) <= ScreenCap
  /\ dropped \in BOOLEAN

LEMMA QueuesKept ==
  ASSUME QueuesOK, NEW c \in Command,
         ToWrite(c) \/ ToScreen(c) \/ ToBoth(c) \/ UNCHANGED queues
  PROVE  QueuesOK'
<1> USE CapsAssumption DEF QueuesOK
<1>1. CASE ToWrite(c)
  <2>1. writeQ' \in Seq(Command) /\ Len(writeQ') <= WriteCap
    BY <1>1, OfferKeepsType DEF ToWrite
  <2>2. screenQ' = screenQ
    BY <1>1 DEF ToWrite
  <2>3. dropped' \in BOOLEAN
    BY <1>1 DEF ToWrite
  <2>4. QED
    BY <2>1, <2>2, <2>3
<1>2. CASE ToScreen(c)
  <2>1. screenQ' \in Seq(Command) /\ Len(screenQ') <= ScreenCap
    BY <1>2, OfferKeepsType DEF ToScreen
  <2>2. writeQ' = writeQ
    BY <1>2 DEF ToScreen
  <2>3. dropped' \in BOOLEAN
    BY <1>2 DEF ToScreen
  <2>4. QED
    BY <2>1, <2>2, <2>3
<1>3. CASE ToBoth(c)
  <2>1. writeQ' \in Seq(Command) /\ Len(writeQ') <= WriteCap
    BY <1>3, OfferKeepsType DEF ToBoth
  <2>2. screenQ' \in Seq(Command) /\ Len(screenQ') <= ScreenCap
    BY <1>3, OfferKeepsType DEF ToBoth
  <2>3. dropped' \in BOOLEAN
    BY <1>3 DEF ToBoth
  <2>4. QED
    BY <2>1, <2>2, <2>3
<1>4. CASE UNCHANGED queues
  BY <1>4 DEF queues
<1>5. QED
  BY <1>1, <1>2, <1>3, <1>4

(* The rest of TypeOK, by who writes it.                                   *)
KnobOK ==
  /\ knobSpeed \in Word /\ knobTarget \in Int /\ knobManual \in BOOLEAN
  /\ knobChanged \in BOOLEAN /\ toggled \in BOOLEAN
  /\ command \in Command
  /\ knobPc \in KnobPcs /\ modeSent \in BOOLEAN

ParserOK ==
  /\ parserPc \in {"idle", "mode", "value", "modeScreen", "valueScreen"}
  /\ web \in [manual : BOOLEAN, value : Int]
  /\ web.manual => web.value \in Word

ControllerOK ==
  /\ manualMode \in BOOLEAN /\ licence \in BOOLEAN
  /\ obeyed \in [speed : Word, target : Int]

LEMMA TypeParts ==
  TypeOK <=> QueuesOK /\ KnobOK /\ ParserOK /\ ControllerOK /\ shownMode \in BOOLEAN
BY DEF TypeOK, QueuesOK, KnobOK, ParserOK, ControllerOK

LEMMA WordFacts == 0 \in Word /\ 1 \in Word /\ Word \subseteq Int
BY DEF Word

(* What is left of a number when it is divided by 2^16 is a word.          *)
LEMMA ModIsWord ==
  ASSUME NEW n \in Int
  PROVE  n % 65536 \in Word
BY DEF Word

LEMMA IsWord ==
  ASSUME NEW n \in Nat, n < 65536
  PROVE  n \in Word
<1>1. n % 65536 = n
  OBVIOUS
<1>2. QED
  BY <1>1, ModIsWord

(* A turn keeps the knob's settings in their types.                        *)
LEMMA TurnTypes ==
  ASSUME KnobOK
  PROVE  /\ Up(knobSpeed, MaxSpeed) \in Word
         /\ Down(knobSpeed) % 65536 \in Word
         /\ Up(knobTarget, MaxTarget) \in Int
         /\ Down(knobTarget) \in Int
<1>1. knobSpeed \in Int /\ 0 <= knobSpeed /\ knobSpeed <= 65535 /\ knobTarget \in Int
  BY DEF KnobOK, Word
<1>2. /\ MaxSpeed \in Int /\ MaxTarget \in Int /\ Step \in Int /\ 0 <= Step
      /\ MaxSpeed + Step < 65536
  BY KnobAssumption
<1>3. Up(knobSpeed, MaxSpeed) \in Word
  <2>1. CASE knobSpeed < MaxSpeed
    <3>1. Up(knobSpeed, MaxSpeed) = knobSpeed + Step
      BY <2>1 DEF Up
    <3>2. knobSpeed + Step \in Nat /\ knobSpeed + Step < 65536
      BY <1>1, <1>2, <2>1
    <3>3. knobSpeed + Step \in Word
      BY <3>2, IsWord
    <3>4. QED
      BY <3>1, <3>3
  <2>2. CASE ~(knobSpeed < MaxSpeed)
    BY <2>2 DEF Up, KnobOK
  <2>3. QED
    BY <2>1, <2>2
<1>4. Down(knobSpeed) \in Int
  BY <1>1, <1>2 DEF Down
<1>5. Down(knobSpeed) % 65536 \in Word
  BY <1>4, ModIsWord
<1>6. Up(knobTarget, MaxTarget) \in Int
  BY <1>1, <1>2 DEF Up
<1>7. Down(knobTarget) \in Int
  BY <1>1, <1>2 DEF Down
<1>8. QED
  BY <1>3, <1>5, <1>6, <1>7

(* An edge of the knob.                                                    *)
LEMMA InterruptKeepsTypes ==
  ASSUME TypeOK, Interrupt
  PROVE  TypeOK'
<1>1. QueuesOK /\ KnobOK /\ ParserOK /\ ControllerOK /\ shownMode \in BOOLEAN
  BY TypeParts
<1>2. QueuesOK'
  <2>1. ToBoth(command) \/ UNCHANGED queues
    BY DEF Interrupt, Ignored, PressMode, PressButton, TurnUp, TurnDown, Turn,
       queues
  <2>2. command \in Command
    BY <1>1 DEF KnobOK
  <2>3. QED
    BY <1>1, <2>1, <2>2, QueuesKept
<1>3. UNCHANGED <<command, knobPc, modeSent, parserPc, web, manualMode, licence,
                  obeyed, shownMode>>
  BY DEF Interrupt, Ignored, PressMode, PressButton, TurnUp, TurnDown, Turn, Edge,
     knobTask, parser, controller
<1>4. knobChanged' \in BOOLEAN
  <2>1. knobChanged' = TRUE
    BY DEF Interrupt, Ignored, PressMode, PressButton, TurnUp, TurnDown, Turn, Edge
  <2>2. QED
    BY <2>1
<1>5. toggled' \in BOOLEAN
  <2>1. toggled' = TRUE \/ toggled' = toggled
    BY DEF Interrupt, Ignored, PressMode, PressButton, TurnUp, TurnDown, Turn
  <2>2. QED
    BY <1>1, <2>1 DEF KnobOK
<1>6. knobManual' \in BOOLEAN
  <2>1. knobManual' = ~knobManual \/ knobManual' = knobManual
    BY DEF Interrupt, Ignored, PressMode, PressButton, TurnUp, TurnDown, Turn,
       knobSettings
  <2>2. QED
    BY <1>1, <2>1 DEF KnobOK
<1>7. knobSpeed' \in Word /\ knobTarget' \in Int
  <2>1. CASE Ignored \/ PressMode \/ PressButton
    BY <1>1, <2>1 DEF Ignored, PressMode, PressButton, knobSettings, KnobOK
  <2>2. CASE TurnUp
    BY <1>1, <2>2, TurnTypes DEF TurnUp, Turn, KnobOK
  <2>3. CASE TurnDown
    BY <1>1, <2>3, TurnTypes DEF TurnDown, Turn, KnobOK
  <2>4. QED
    BY <2>1, <2>2, <2>3 DEF Interrupt
<1>8. KnobOK'
  BY <1>1, <1>3, <1>4, <1>5, <1>6, <1>7 DEF KnobOK
<1>9. ParserOK' /\ ControllerOK' /\ shownMode' \in BOOLEAN
  BY <1>1, <1>3 DEF ParserOK, ControllerOK
<1>10. (QueuesOK /\ KnobOK /\ ParserOK /\ ControllerOK /\ shownMode \in BOOLEAN)'
  BY <1>2, <1>8, <1>9
<1>11. QED
  BY <1>10 DEF TypeOK, QueuesOK, KnobOK, ParserOK, ControllerOK

(* What the task makes of the record is a command.                         *)
LEMMA RecordTypes ==
  ASSUME KnobOK
  PROVE  /\ \A t \in Types : [command EXCEPT !.type = t] \in Command
         /\ \A w \in Word : [command EXCEPT !.w = w] \in Command
         /\ \A w \in Word : [command EXCEPT !.f = knobTarget, !.w = w] \in Command
<1>1. command \in Command /\ knobTarget \in Int
  BY DEF KnobOK
<1>2. QED
  BY <1>1, WordFacts DEF Command

LEMMA KnobTaskKeepsTypes ==
  ASSUME TypeOK, KnobTask
  PROVE  TypeOK'
<1>1. QueuesOK /\ KnobOK /\ ParserOK /\ ControllerOK /\ shownMode \in BOOLEAN
  BY TypeParts
<1>2. QueuesOK'
  <2>1. ToWrite(command) \/ ToScreen(command) \/ UNCHANGED queues
    BY DEF KnobTask, KnobClear, KnobToggle, KnobNoToggle, KnobModeType,
       KnobModeValue, KnobModeWrite, KnobModeScreen, KnobChooseSpeed,
       KnobChooseTarget, KnobSpeed, KnobTarget, KnobWrite, KnobScreen, Finish,
       Rewrite
  <2>2. command \in Command
    BY <1>1 DEF KnobOK
  <2>3. QED
    BY <1>1, <2>1, <2>2, QueuesKept
<1>3. UNCHANGED <<knobSpeed, knobTarget, knobManual, parserPc, web, manualMode,
                  licence, obeyed, shownMode>>
  BY DEF KnobTask, KnobClear, KnobToggle, KnobNoToggle, KnobModeType,
     KnobModeValue, KnobModeWrite, KnobModeScreen, KnobChooseSpeed,
     KnobChooseTarget, KnobSpeed, KnobTarget, KnobWrite, KnobScreen, Finish,
     KnobGo, knobSettings, parser, controller
<1>4. knobPc' \in KnobPcs
  BY DEF KnobTask, KnobClear, KnobToggle, KnobNoToggle, KnobModeType,
     KnobModeValue, KnobModeWrite, KnobModeScreen, KnobChooseSpeed,
     KnobChooseTarget, KnobSpeed, KnobTarget, KnobWrite, KnobScreen, Finish,
     KnobGo, KnobPcs
<1>5. knobChanged' \in BOOLEAN /\ toggled' \in BOOLEAN /\ modeSent' \in BOOLEAN
  <2>1. /\ knobChanged' = FALSE \/ knobChanged' = knobChanged
        /\ toggled' = FALSE \/ toggled' = toggled
        /\ modeSent' = TRUE \/ modeSent' = modeSent
    BY DEF KnobTask, KnobClear, KnobToggle, KnobNoToggle, KnobModeType,
       KnobModeValue, KnobModeWrite, KnobModeScreen, KnobChooseSpeed,
       KnobChooseTarget, KnobSpeed, KnobTarget, KnobWrite, KnobScreen, Finish,
       Rewrite, knobFlags
  <2>2. QED
    BY <1>1, <2>1 DEF KnobOK
<1>6. command' \in Command
  <2> USE <1>1, RecordTypes DEF KnobOK
  <2>1. CASE KnobModeType \/ KnobChooseSpeed \/ KnobChooseTarget
    BY <2>1 DEF KnobModeType, KnobChooseSpeed, KnobChooseTarget, Rewrite, Types
  <2>2. CASE KnobModeValue
    BY <2>2, WordFacts DEF KnobModeValue, Rewrite
  <2>3. CASE KnobSpeed
    BY <2>3 DEF KnobSpeed, Rewrite
  <2>4. CASE KnobTarget
    <3>1. PICK low \in LowHalves :
            command' = [command EXCEPT !.f = knobTarget, !.w = low]
      BY <2>4 DEF KnobTarget, Rewrite
    <3>2. low \in Word
      BY InputAssumption
    <3>3. QED
      BY <3>1, <3>2
  <2>5. CASE \/ KnobClear \/ KnobToggle \/ KnobNoToggle \/ KnobModeWrite
             \/ KnobModeScreen \/ KnobWrite \/ KnobScreen
    BY <2>5 DEF KnobClear, KnobToggle, KnobNoToggle, KnobModeWrite,
       KnobModeScreen, KnobWrite, KnobScreen, Finish, knobFlags
  <2>6. QED
    BY <2>1, <2>2, <2>3, <2>4, <2>5 DEF KnobTask
<1>7. KnobOK'
  BY <1>1, <1>3, <1>4, <1>5, <1>6 DEF KnobOK
<1>8. ParserOK' /\ ControllerOK' /\ shownMode' \in BOOLEAN
  BY <1>1, <1>3 DEF ParserOK, ControllerOK
<1>9. (QueuesOK /\ KnobOK /\ ParserOK /\ ControllerOK /\ shownMode \in BOOLEAN)'
  BY <1>2, <1>7, <1>8
<1>10. QED
  BY <1>9 DEF TypeOK, QueuesOK, KnobOK, ParserOK, ControllerOK

LEMMA ParserKeepsTypes ==
  ASSUME TypeOK, (\E c \in WebCommands : ParserTake(c)) \/ ParserTask
  PROVE  TypeOK'
<1>1. QueuesOK /\ KnobOK /\ ParserOK /\ ControllerOK /\ shownMode \in BOOLEAN
  BY TypeParts
<1>2. ModeCommand \in Command /\ ValueCommand \in Command
  <2>1. ModeCommand \in Command
    BY WordFacts DEF ModeCommand, Command, Types
  <2>2. CASE web.manual
    <3>1. web.value \in Word
      BY <1>1, <2>2 DEF ParserOK
    <3>2. [type |-> "FAN_SPEED", f |-> 0, w |-> web.value] \in Command
      BY <3>1 DEF Command, Types
    <3>3. QED
      BY <2>1, <2>2, <3>2 DEF ValueCommand
  <2>3. CASE ~web.manual
    <3>1. web.value \in Int
      BY <1>1 DEF ParserOK
    <3>2. [type |-> "CO2_TARGET", f |-> web.value, w |-> 0] \in Command
      BY <3>1, WordFacts DEF Command, Types
    <3>3. QED
      BY <2>1, <2>3, <3>2 DEF ValueCommand
  <2>4. QED
    BY <2>2, <2>3
<1>3. UNCHANGED <<knob, controller, shownMode>>
  BY DEF ParserTask, ParserTake, ParserMode, ParserValue, ParserModeScreen,
     ParserValueScreen, ParserGo
<1>4. KnobOK' /\ ControllerOK' /\ shownMode' \in BOOLEAN
  BY <1>1, <1>3 DEF KnobOK, ControllerOK, knob, knobSettings, knobFlags, knobTask,
     controller
<1>5. QueuesOK'
  <2>1. \E c \in {ModeCommand, ValueCommand} :
          ToWrite(c) \/ ToScreen(c) \/ UNCHANGED queues
    BY DEF ParserTask, ParserTake, ParserMode, ParserValue, ParserModeScreen,
       ParserValueScreen
  <2>2. PICK c \in Command : ToWrite(c) \/ ToScreen(c) \/ UNCHANGED queues
    BY <1>2, <2>1
  <2>3. QED
    BY <1>1, <2>2, QueuesKept
<1>6. parserPc' \in {"idle", "mode", "value", "modeScreen", "valueScreen"}
  BY DEF ParserTask, ParserTake, ParserMode, ParserValue, ParserModeScreen,
     ParserValueScreen, ParserGo
<1>7. web' \in [manual : BOOLEAN, value : Int] /\ (web'.manual => web'.value \in Word)
  <2>1. CASE ParserTask
    <3>1. web' = web
      BY <2>1 DEF ParserTask, ParserMode, ParserValue, ParserModeScreen,
         ParserValueScreen
    <3>2. QED
      BY <1>1, <3>1 DEF ParserOK
  <2>2. CASE \E c \in WebCommands : ParserTake(c)
    <3>1. web' \in WebCommands
      BY <2>2 DEF ParserTake
    <3>2. web' \in [manual : BOOLEAN, value : Word]
      BY <3>1, InputAssumption
    <3>3. QED
      BY <3>2, WordFacts
  <2>3. QED
    BY <2>1, <2>2
<1>8. ParserOK'
  BY <1>6, <1>7 DEF ParserOK
<1>9. (QueuesOK /\ KnobOK /\ ParserOK /\ ControllerOK /\ shownMode \in BOOLEAN)'
  BY <1>4, <1>5, <1>8
<1>10. QED
  BY <1>9 DEF TypeOK, QueuesOK, KnobOK, ParserOK, ControllerOK

LEMMA ReadersKeepTypes ==
  ASSUME TypeOK, ReadCommand \/ ScreenTake
  PROVE  TypeOK'
<1>1. QueuesOK /\ KnobOK /\ ParserOK /\ ControllerOK /\ shownMode \in BOOLEAN
  BY TypeParts
<1>2. UNCHANGED <<dropped, knob, parser>>
  BY DEF ReadCommand, ScreenTake
<1>3. KnobOK' /\ ParserOK'
  BY <1>1, <1>2 DEF KnobOK, ParserOK, knob, knobSettings, knobFlags, knobTask,
     parser
<1>4. CASE ReadCommand
  <2>1. /\ Head(writeQ) \in Command
        /\ Tail(writeQ) \in Seq(Command) /\ Len(Tail(writeQ)) <= WriteCap
    BY <1>1, <1>4, TakeKeepsType, CapsAssumption DEF ReadCommand, QueuesOK
  <2>2. writeQ' = Tail(writeQ) /\ screenQ' = screenQ /\ shownMode' = shownMode
    BY <1>4 DEF ReadCommand
  <2>3. QueuesOK' /\ shownMode' \in BOOLEAN
    BY <1>1, <1>2, <2>1, <2>2 DEF QueuesOK
  <2> DEFINE c == Head(writeQ)
  <2>4. SetMode(c) \/ ObeyValue(c) \/ DropValue(c)
    BY <1>4 DEF ReadCommand
  <2>5. c.w \in Word /\ c.f \in Int
    BY <2>1 DEF Command
  <2>6. ControllerOK'
    <3>1. CASE SetMode(c)
      <4>1. manualMode' = (c.w = 1) \/ manualMode' = manualMode
        BY <3>1 DEF SetMode
      <4>2. manualMode' \in BOOLEAN
        BY <1>1, <4>1 DEF ControllerOK
      <4>3. QED
        BY <1>1, <3>1, <4>2 DEF SetMode, ControllerOK
    <3>2. CASE ObeyValue(c)
      BY <1>1, <2>5, <3>2 DEF ObeyValue, ControllerOK
    <3>3. CASE DropValue(c)
      BY <1>1, <3>3 DEF DropValue, ControllerOK, controller
    <3>4. QED
      BY <2>4, <3>1, <3>2, <3>3
  <2>7. QED
    BY <1>3, <2>3, <2>6 DEF TypeOK, QueuesOK, KnobOK, ParserOK, ControllerOK
<1>5. CASE ScreenTake
  <2>1. Tail(screenQ) \in Seq(Command) /\ Len(Tail(screenQ)) <= ScreenCap
    BY <1>1, <1>5, TakeKeepsType, CapsAssumption DEF ScreenTake, QueuesOK
  <2>2. screenQ' = Tail(screenQ) /\ writeQ' = writeQ /\ UNCHANGED controller
    BY <1>5 DEF ScreenTake
  <2>3. QueuesOK' /\ ControllerOK'
    BY <1>1, <1>2, <2>1, <2>2 DEF QueuesOK, ControllerOK, controller
  <2>4. shownMode' = (Head(screenQ).w # 0) \/ shownMode' = shownMode
    BY <1>5 DEF ScreenTake
  <2>5. shownMode' \in BOOLEAN
    BY <1>1, <2>4
  <2>6. QED
    BY <1>3, <2>3, <2>5 DEF TypeOK, QueuesOK, KnobOK, ParserOK, ControllerOK
<1>6. QED
  BY <1>4, <1>5

LEMMA InitTypes == Init => TypeOK
<1> SUFFICES ASSUME Init PROVE TypeOK
  OBVIOUS
<1>1. PICK s \in Stored :
        /\ knobSpeed = s.speed /\ knobTarget = s.target /\ knobManual = s.manual
        /\ manualMode = s.manual
        /\ obeyed = [speed |-> s.speed, target |-> s.target]
        /\ shownMode = s.manual
        /\ web = [manual |-> s.manual,
                  value |-> IF s.manual THEN s.speed ELSE s.target]
  BY DEF Init
<1>2. s.speed \in Word /\ s.target \in Int /\ s.manual \in BOOLEAN
  BY InputAssumption
<1>3. QueuesOK
  <2>1. << >> \in Seq(Command) /\ Len(<< >>) = 0
    OBVIOUS
  <2>2. writeQ = << >> /\ screenQ = << >> /\ dropped = FALSE
    BY DEF Init
  <2>3. writeQ \in Seq(Command) /\ screenQ \in Seq(Command) /\ dropped \in BOOLEAN
    BY <2>1, <2>2
  <2>4. Len(writeQ) <= WriteCap /\ Len(screenQ) <= ScreenCap
    BY <2>1, <2>2, CapsAssumption
  <2>5. QED
    BY <2>3, <2>4 DEF QueuesOK
<1>4. KnobOK
  BY <1>1, <1>2, InputAssumption DEF Init, KnobOK, KnobPcs
<1>5. ParserOK
  BY <1>1, <1>2, WordFacts DEF Init, ParserOK
<1>6. ControllerOK
  BY <1>1, <1>2 DEF Init, ControllerOK
<1>7. QED
  BY <1>1, <1>2, <1>3, <1>4, <1>5, <1>6, TypeParts

LEMMA NextTypes == TypeOK /\ [Next]_vars => TypeOK'
<1>1. CASE UNCHANGED vars
  BY <1>1 DEF vars, queues, knob, knobSettings, knobFlags, knobTask, parser,
     controller, TypeOK
<1>2. QED
  BY <1>1, InterruptKeepsTypes, KnobTaskKeepsTypes, ParserKeepsTypes,
     ReadersKeepTypes DEF Next

(* Every variable keeps its type: the speed of the knob fits its 16 bits   *)
(* although a turn subtracts without a check (when Step does not divide    *)
(* it), and no queue outgrows its length.                                  *)
THEOREM TypeCorrect == Spec => []TypeOK
<1>1. Init => TypeOK
  BY InitTypes
<1>2. TypeOK /\ [Next]_vars => TypeOK'
  BY NextTypes
<1>3. QED
  BY <1>1, <1>2, PTL DEF Spec

-----------------------------------------------------------------------------
(* While `changed' is clear nothing has happened since the task cleared    *)
(* it, so every step of the task has worked with the present settings.     *)
KnobInv ==
  ~knobChanged =>
    /\ knobPc = "speed" => knobManual /\ command.type = "FAN_SPEED"
    /\ knobPc = "target" => ~knobManual /\ command.type = "CO2_TARGET"
    /\ knobPc \in {"write", "screen"} => Matches
    /\ knobPc = "idle" /\ modeSent => Matches

LEMMA TaskKeepsKnobInv ==
  ASSUME TypeOK, KnobInv, KnobTask, ~knobChanged'
  PROVE  KnobInv'
<1>1. command \in [type : Types, f : Int, w : Word]
  BY DEF TypeOK, Command
<1>2. UNCHANGED knobSettings
  BY DEF KnobTask, KnobClear, KnobToggle, KnobNoToggle, KnobModeType,
     KnobModeValue, KnobModeWrite, KnobModeScreen, KnobChooseSpeed,
     KnobChooseTarget, KnobSpeed, KnobTarget, KnobWrite, KnobScreen, Finish,
     KnobGo
<1>3. knobSpeed' = knobSpeed /\ knobTarget' = knobTarget /\ knobManual' = knobManual
  BY <1>2 DEF knobSettings
<1>4. CASE KnobClear \/ KnobToggle \/ KnobNoToggle \/ KnobModeType \/ KnobModeValue
           \/ KnobModeWrite \/ KnobModeScreen
  <2>1. knobPc' \in {"check", "modeType", "modeValue", "modeWrite", "modeScreen",
                     "choose"}
    BY <1>4 DEF KnobClear, KnobToggle, KnobNoToggle, KnobModeType, KnobModeValue,
       KnobModeWrite, KnobModeScreen, KnobGo
  <2>2. QED
    BY <2>1 DEF KnobInv
<1>5. CASE KnobChooseSpeed
  <2>1. knobPc' = "speed" /\ knobManual /\ command'.type = "FAN_SPEED"
    BY <1>1, <1>5 DEF KnobChooseSpeed, KnobGo, Rewrite
  <2>2. QED
    BY <1>3, <2>1 DEF KnobInv
<1>6. CASE KnobChooseTarget
  <2>1. knobPc' = "target" /\ ~knobManual /\ command'.type = "CO2_TARGET"
    BY <1>1, <1>6 DEF KnobChooseTarget, KnobGo, Rewrite
  <2>2. QED
    BY <1>3, <2>1 DEF KnobInv
<1>7. CASE KnobSpeed
  <2>1. ~knobChanged
    BY <1>7 DEF KnobSpeed, Rewrite, knobFlags
  <2>2. knobPc = "speed" /\ knobPc' = "write"
        /\ command' = [command EXCEPT !.w = knobSpeed]
    BY <1>7 DEF KnobSpeed, KnobGo, Rewrite
  <2>3. knobManual /\ command.type = "FAN_SPEED"
    BY <2>1, <2>2 DEF KnobInv
  <2>4. Matches'
    BY <1>1, <1>3, <2>2, <2>3 DEF Matches
  <2>5. QED
    BY <2>2, <2>4 DEF KnobInv
<1>8. CASE KnobTarget
  <2>1. ~knobChanged
    BY <1>8 DEF KnobTarget, Rewrite, knobFlags
  <2>2. knobPc = "target" /\ knobPc' = "write"
        /\ \E low \in LowHalves :
             command' = [command EXCEPT !.f = knobTarget, !.w = low]
    BY <1>8 DEF KnobTarget, KnobGo, Rewrite
  <2>3. ~knobManual /\ command.type = "CO2_TARGET"
    BY <2>1, <2>2 DEF KnobInv
  <2>4. Matches'
    BY <1>1, <1>3, <2>2, <2>3 DEF Matches
  <2>5. QED
    BY <2>2, <2>4 DEF KnobInv
<1>9. CASE KnobWrite \/ KnobScreen
  <2>1. ~knobChanged /\ command' = command
    BY <1>9 DEF KnobWrite, KnobScreen, Finish, knobFlags
  <2>2. knobPc \in {"write", "screen"} /\ knobPc' \in {"screen", "idle"}
    BY <1>9 DEF KnobWrite, KnobScreen, Finish, KnobGo
  <2>3. Matches
    BY <2>1, <2>2 DEF KnobInv
  <2>4. Matches'
    BY <1>3, <2>1, <2>3 DEF Matches
  <2>5. QED
    BY <2>2, <2>4 DEF KnobInv
<1>10. QED
  BY <1>4, <1>5, <1>6, <1>7, <1>8, <1>9 DEF KnobTask

LEMMA NextKnobInv == TypeOK /\ KnobInv /\ [Next]_vars => KnobInv'
<1> SUFFICES ASSUME TypeOK, KnobInv, [Next]_vars PROVE KnobInv'
  OBVIOUS
<1>1. CASE Interrupt
  <2>1. knobChanged' = TRUE
    BY <1>1 DEF Interrupt, Ignored, PressMode, PressButton, TurnUp, TurnDown, Turn,
       Edge
  <2>2. QED
    BY <2>1 DEF KnobInv
<1>2. CASE KnobTask
  <2>1. CASE knobChanged'
    BY <2>1 DEF KnobInv
  <2>2. QED
    BY <1>2, <2>1, TaskKeepsKnobInv
<1>3. CASE UNCHANGED knob
  BY <1>3 DEF knob, knobSettings, knobFlags, knobTask, KnobInv, Matches
<1>4. CASE \/ \E c \in WebCommands : ParserTake(c)
           \/ ParserTask \/ ReadCommand \/ ScreenTake \/ UNCHANGED vars
  <2>1. UNCHANGED knob
    BY <1>4 DEF ParserTake, ParserTask, ParserMode, ParserValue, ParserModeScreen,
       ParserValueScreen, ParserGo, ReadCommand, ScreenTake, vars
  <2>2. QED
    BY <1>3, <2>1
<1>5. QED
  BY <1>1, <1>2, <1>4 DEF Next

(* No edge is lost: when the task of the knob rests with `changed' clear,  *)
(* its last command says what the knob is set to, for every range of the   *)
(* knob and whatever the interrupt handler did in the meantime.  It rests  *)
(* on KnobInv: `changed' is cleared before the settings are read.          *)
THEOREM KnobSettles == Spec => []KnobSettled
<1>1. Init => KnobInv
  BY DEF Init, KnobInv
<1>2. TypeOK /\ KnobInv /\ [Next]_vars => KnobInv'
  BY NextKnobInv
<1>3. KnobInv => KnobSettled
  BY DEF KnobInv, KnobSettled
<1>4. QED
  BY <1>1, <1>2, <1>3, TypeCorrect, PTL DEF Spec
-----------------------------------------------------------------------------
(* The executions with one user: the other source of commands rests.       *)
Alone ==
  /\ user \in {"knob", "web"}
  /\ user = "knob" => parserPc = "idle"
  /\ user = "web" => knobPc = "idle" /\ ~knobChanged /\ ~modeSent

(* Where a reader's mode will be when it has taken a queue of commands: at *)
(* what the last MODE_SET of the queue says, or where it is now if there   *)
(* is none.                                                                *)
ModeWord(m) == IF m THEN 1 ELSE 0

Tells(c, m) == c.type = "MODE_SET" /\ c.w = ModeWord(m)

Silent(q, i) == \A j \in i..Len(q) : q[j].type # "MODE_SET"

EndsIn(q, now, m) ==
  \/ now = m /\ Silent(q, 1)
  \/ \E i \in 1..Len(q) : Tells(q[i], m) /\ Silent(q, i + 1)

(* While the knob's task has not begun to rewrite its record into a        *)
(* MODE_SET, both readers are on their way to the same mode, and the       *)
(* record, which the interrupt handler may send at any moment, does not    *)
(* say otherwise.  The controller is told before the screen is.            *)
OnTheWay(m) == EndsIn(writeQ, manualMode, m) /\ EndsIn(screenQ, shownMode, m)

RecordAgrees(m) == command.type = "MODE_SET" => Tells(command, m)

AgreeInv ==
  /\ knobPc = "modeValue" => command.type = "MODE_SET"
  /\ knobPc \in {"modeWrite", "modeScreen"} => \E m \in BOOLEAN : Tells(command, m)
  /\ knobPc \in {"speed", "target"} => command.type # "MODE_SET"
  /\ knobPc = "modeScreen" /\ ~dropped =>
       \A m \in BOOLEAN : Tells(command, m) => EndsIn(writeQ, manualMode, m)
  /\ modeSent /\ ~dropped /\ knobPc \notin {"modeValue", "modeWrite", "modeScreen"} =>
       \E m \in BOOLEAN : OnTheWay(m) /\ RecordAgrees(m)

(* What is left in the controller's queue of the parser's last answer, and *)
(* what the controller has done with the rest of it.                       *)
ModeTaken == licence /\ manualMode = web.manual

ValueTaken ==
  /\ manualMode = web.manual
  /\ web.value = IF web.manual THEN obeyed.speed ELSE obeyed.target

ModeUnderway ==
  LET n == Len(writeQ) IN
  /\ n = 0 => ModeTaken
  /\ n >= 1 => writeQ[n] = ModeCommand

ValueUnderway ==
  LET n == Len(writeQ) IN
  /\ n = 0 => ValueTaken
  /\ n >= 1 => writeQ[n] = ValueCommand
  /\ n = 1 => ModeTaken
  /\ n >= 2 => writeQ[n - 1] = ModeCommand

ScreenUnderway == EndsIn(screenQ, shownMode, web.manual)

WebInv ==
  user = "web" /\ ~dropped =>
    /\ parserPc = "value" => ModeUnderway
    /\ parserPc \in {"modeScreen", "valueScreen", "idle"} => ValueUnderway
    /\ parserPc \in {"valueScreen", "idle"} => ScreenUnderway

LEMMA ModeWords ==
  /\ \A m \in BOOLEAN : ModeWord(m) \in {0, 1} /\ (ModeWord(m) = 1 <=> m)
  /\ \A m \in BOOLEAN : ModeWord(m) # 0 <=> m
BY DEF ModeWord

(* A command told at the back of a queue is where the reader will end;     *)
(* one that says nothing else changes nothing.                             *)
LEMMA EndsWithTold ==
  ASSUME NEW q \in Seq(Command), NEW now, NEW m, NEW c, Tells(c, m)
  PROVE  EndsIn(Append(q, c), now, m)
<1>1. /\ Len(q) \in Nat
      /\ Len(Append(q, c)) = Len(q) + 1
      /\ Append(q, c)[Len(q) + 1] = c
  BY LenProperties, AppendProperties
<1>2. Silent(Append(q, c), Len(q) + 2)
  BY <1>1 DEF Silent
<1>3. Len(q) + 1 \in 1..Len(Append(q, c)) /\ Len(q) + 1 + 1 = Len(q) + 2
  BY <1>1
<1>4. QED
  BY <1>1, <1>2, <1>3 DEF EndsIn

LEMMA SilentAppend ==
  ASSUME NEW q \in Seq(Command), NEW c \in Command, c.type # "MODE_SET",
         NEW i \in Nat \ {0}, Silent(q, i)
  PROVE  Silent(Append(q, c), i)
<1>1. /\ Len(q) \in Nat
      /\ Len(Append(q, c)) = Len(q) + 1
      /\ Append(q, c)[Len(q) + 1] = c
      /\ \A j \in 1..Len(q) : Append(q, c)[j] = q[j]
  BY LenProperties, AppendProperties
<1>2. SUFFICES ASSUME NEW j \in i..Len(Append(q, c))
               PROVE  Append(q, c)[j].type # "MODE_SET"
  BY DEF Silent
<1>3. j \in Nat \ {0} /\ (j \in i..Len(q) \/ j = Len(q) + 1)
  BY <1>1
<1>4. CASE j \in i..Len(q)
  <2>1. j \in 1..Len(q)
    BY <1>1, <1>3, <1>4
  <2>2. q[j].type # "MODE_SET"
    BY <1>4 DEF Silent
  <2>3. QED
    BY <1>1, <2>1, <2>2
<1>5. CASE j = Len(q) + 1
  BY <1>1, <1>5
<1>6. QED
  BY <1>3, <1>4, <1>5

LEMMA EndsKept ==
  ASSUME NEW q \in Seq(Command), NEW now, NEW m, NEW c \in Command,
         EndsIn(q, now, m), c.type = "MODE_SET" => Tells(c, m)
  PROVE  EndsIn(Append(q, c), now, m)
<1>1. CASE c.type = "MODE_SET"
  BY <1>1, EndsWithTold
<1>2. CASE c.type # "MODE_SET"
  <2>1. CASE now = m /\ Silent(q, 1)
    <3>1. Silent(Append(q, c), 1)
      BY <1>2, <2>1, SilentAppend
    <3>2. QED
      BY <2>1, <3>1 DEF EndsIn
  <2>2. CASE \E i \in 1..Len(q) : Tells(q[i], m) /\ Silent(q, i + 1)
    <3>1. PICK i \in 1..Len(q) : Tells(q[i], m) /\ Silent(q, i + 1)
      BY <2>2
    <3>2. i + 1 \in Nat \ {0}
      BY <3>1, LenProperties
    <3>3. Silent(Append(q, c), i + 1)
      BY <1>2, <3>1, <3>2, SilentAppend
    <3>4. i \in 1..Len(Append(q, c)) /\ Append(q, c)[i] = q[i]
      BY LenProperties, AppendProperties
    <3>5. QED
      BY <3>1, <3>3, <3>4 DEF EndsIn
  <2>3. QED
    BY <2>1, <2>2 DEF EndsIn
<1>3. QED
  BY <1>1, <1>2

(* A reader that takes the next command, and follows it if it tells a      *)
(* mode, ends where it would have ended.                                   *)
LEMMA EndsTaken ==
  ASSUME NEW q \in Seq(Command), q # << >>, NEW now, NEW next, NEW m,
         EndsIn(q, now, m),
         Head(q).type # "MODE_SET" => next = now,
         Tells(Head(q), m) => next = m
  PROVE  EndsIn(Tail(q), next, m)
<1>1. /\ Len(q) \in Nat /\ Len(q) >= 1
      /\ Head(q) = q[1]
      /\ Len(Tail(q)) = Len(q) - 1
      /\ \A j \in 1..Len(Tail(q)) : Tail(q)[j] = q[j + 1]
  BY HeadTailProperties, LenProperties, EmptySeq
<1>2. ASSUME NEW i \in Nat \ {0}, Silent(q, i + 1)
      PROVE  Silent(Tail(q), i)
  <2>1. SUFFICES ASSUME NEW j \in i..Len(Tail(q))
                 PROVE  Tail(q)[j].type # "MODE_SET"
    BY DEF Silent
  <2>2. j \in 1..Len(Tail(q)) /\ j + 1 \in (i + 1)..Len(q)
    BY <1>1
  <2>3. q[j + 1].type # "MODE_SET"
    BY <1>2, <2>2 DEF Silent
  <2>4. QED
    BY <1>1, <2>2, <2>3
<1>3. CASE now = m /\ Silent(q, 1)
  <2>1. Head(q).type # "MODE_SET" /\ Silent(q, 1 + 1)
    BY <1>1, <1>3 DEF Silent
  <2>2. Silent(Tail(q), 1)
    BY <1>2, <2>1
  <2>3. QED
    BY <1>3, <2>1, <2>2 DEF EndsIn
<1>4. CASE \E i \in 1..Len(q) : Tells(q[i], m) /\ Silent(q, i + 1)
  <2>1. PICK i \in 1..Len(q) : Tells(q[i], m) /\ Silent(q, i + 1)
    BY <1>4
  <2>2. CASE i = 1
    <3>1. next = m /\ Silent(Tail(q), 1)
      BY <1>1, <1>2, <2>1, <2>2
    <3>2. QED
      BY <3>1 DEF EndsIn
  <2>3. CASE i # 1
    <3>1. i - 1 \in Nat \ {0} /\ i - 1 \in 1..Len(Tail(q)) /\ (i - 1) + 1 = i
      BY <1>1, <2>3
    <3>2. Tail(q)[i - 1] = q[i]
      BY <1>1, <3>1
    <3>3. Silent(q, (i - 1) + 1 + 1)
      BY <2>1, <3>1
    <3>4. Silent(Tail(q), (i - 1) + 1)
      BY <1>2, <3>1, <3>3
    <3>5. QED
      BY <2>1, <3>1, <3>2, <3>4 DEF EndsIn
  <2>4. QED
    BY <2>2, <2>3
<1>5. QED
  BY <1>3, <1>4 DEF EndsIn

LEMMA EndsEmpty ==
  ASSUME NEW now, NEW m, EndsIn(<< >>, now, m)
  PROVE  now = m
BY DEF EndsIn

(* Nothing has been dropped by a step unless it says so.                   *)
LEMMA SentToWrite ==
  ASSUME QueuesOK, NEW c, ToWrite(c), ~dropped'
  PROVE  ~dropped /\ writeQ' = Append(writeQ, c) /\ screenQ' = screenQ
<1>1. Len(writeQ) \in Nat /\ WriteCap \in Nat /\ dropped \in BOOLEAN
  BY CapsAssumption, LenProperties DEF QueuesOK
<1>2. ~dropped /\ ~(Len(writeQ) >= WriteCap)
  BY <1>1, Zenon DEF ToWrite
<1>3. Len(writeQ) < WriteCap
  BY <1>1, <1>2
<1>4. QED
  BY <1>2, <1>3 DEF ToWrite, SendNoWait

LEMMA SentToScreen ==
  ASSUME QueuesOK, NEW c, ToScreen(c), ~dropped'
  PROVE  ~dropped /\ screenQ' = Append(screenQ, c) /\ writeQ' = writeQ
<1>1. Len(screenQ) \in Nat /\ ScreenCap \in Nat /\ dropped \in BOOLEAN
  BY CapsAssumption, LenProperties DEF QueuesOK
<1>2. ~dropped /\ ~(Len(screenQ) >= ScreenCap)
  BY <1>1, Zenon DEF ToScreen
<1>3. Len(screenQ) < ScreenCap
  BY <1>1, <1>2
<1>4. QED
  BY <1>2, <1>3 DEF ToScreen, SendNoWait

LEMMA SentToBoth ==
  ASSUME QueuesOK, NEW c, ToBoth(c), ~dropped'
  PROVE  ~dropped /\ writeQ' = Append(writeQ, c) /\ screenQ' = Append(screenQ, c)
<1>1. /\ Len(writeQ) \in Nat /\ WriteCap \in Nat /\ dropped \in BOOLEAN
      /\ Len(screenQ) \in Nat /\ ScreenCap \in Nat
  BY CapsAssumption, LenProperties DEF QueuesOK
<1>2. ~dropped /\ ~(Len(writeQ) >= WriteCap) /\ ~(Len(screenQ) >= ScreenCap)
  BY <1>1, Zenon DEF ToBoth
<1>3. Len(writeQ) < WriteCap /\ Len(screenQ) < ScreenCap
  BY <1>1, <1>2
<1>4. QED
  BY <1>2, <1>3 DEF ToBoth, SendNoWait

-----------------------------------------------------------------------------
LEMMA KnobTaskLeaves ==
  ASSUME KnobTask
  PROVE  UNCHANGED <<knobSettings, parser, controller, shownMode>>
<1>1. \E from, to : KnobGo(from, to)
  <2>1. CASE KnobClear \/ KnobToggle \/ KnobNoToggle \/ KnobModeType
    BY <2>1 DEF KnobClear, KnobToggle, KnobNoToggle, KnobModeType
  <2>2. CASE KnobModeValue \/ KnobModeWrite \/ KnobModeScreen
    BY <2>2 DEF KnobModeValue, KnobModeWrite, KnobModeScreen
  <2>3. CASE KnobChooseSpeed \/ KnobChooseTarget
    BY <2>3 DEF KnobChooseSpeed, KnobChooseTarget
  <2>4. CASE KnobWrite \/ KnobScreen
    BY <2>4 DEF KnobWrite, KnobScreen, Finish
  <2>5. CASE KnobSpeed \/ KnobTarget
    <3>1. KnobSpeed => KnobGo("speed", "write")
      BY DEF KnobSpeed
    <3>2. KnobTarget => KnobGo("target", "write")
      BY DEF KnobTarget
    <3>3. QED
      BY <2>5, <3>1, <3>2
  <2>6. QED
    BY <2>1, <2>2, <2>3, <2>4, <2>5 DEF KnobTask
<1>2. QED
  BY <1>1 DEF KnobGo

LEMMA RestingKnob == knobPc = "idle" /\ ~knobChanged => ~KnobTask
BY DEF KnobTask, KnobClear, KnobToggle, KnobNoToggle, KnobModeType, KnobModeValue,
   KnobModeWrite, KnobModeScreen, KnobChooseSpeed, KnobChooseTarget, KnobSpeed,
   KnobTarget, KnobWrite, KnobScreen, Finish, KnobGo

(* One source rests for ever.                                              *)
LEMMA AloneKept == Alone /\ [OneUserNext]_<<vars, user>> => Alone'
<1> SUFFICES ASSUME Alone, [OneUserNext]_<<vars, user>> PROVE Alone'
  OBVIOUS
<1>1. CASE UNCHANGED <<vars, user>>
  BY <1>1 DEF Alone, vars, knob, knobFlags, knobTask, parser
<1>2. CASE user = "knob" /\ OneUserNext
  <2>1. user' = "knob" /\ parserPc = "idle"
    BY <1>2 DEF OneUserNext, Alone
  <2>2. ~ParserTask
    BY <2>1 DEF ParserTask, ParserMode, ParserValue, ParserModeScreen,
       ParserValueScreen, ParserGo
  <2>3. Interrupt => UNCHANGED parser
    BY DEF Interrupt, Ignored, PressMode, PressButton, TurnUp, TurnDown, Turn, Edge
  <2>4. KnobTask => parserPc' = parserPc
    BY KnobTaskLeaves DEF parser
  <2>5. ReadCommand \/ ScreenTake => UNCHANGED parser
    BY DEF ReadCommand, ScreenTake
  <2>6. parserPc' = parserPc
    BY <1>2, <2>2, <2>3, <2>4, <2>5 DEF OneUserNext, parser
  <2>7. QED
    BY <2>1, <2>6 DEF Alone
<1>3. CASE user = "web" /\ OneUserNext
  <2>1. user' = "web" /\ knobPc = "idle" /\ ~knobChanged /\ ~modeSent
    BY <1>3 DEF OneUserNext, Alone
  <2>2. ~KnobTask
    BY <2>1, RestingKnob
  <2>3. UNCHANGED knob
    BY <1>3, <2>2 DEF OneUserNext, ParserTake, ParserTask, ParserMode, ParserValue,
       ParserModeScreen, ParserValueScreen, ParserGo, ReadCommand, ScreenTake
  <2>4. QED
    BY <2>1, <2>3 DEF Alone, knob, knobFlags, knobTask
<1>4. QED
  BY <1>1, <1>2, <1>3 DEF Alone

LEMMA OneUserIsNext == [OneUserNext]_<<vars, user>> => [Next]_vars
BY DEF OneUserNext, Next

-----------------------------------------------------------------------------
(* AgreeInv, step by step.                                                 *)
Sends(c) == ToWrite(c) \/ ToScreen(c) \/ ToBoth(c)

(* A command that does not disagree keeps both readers on their way.       *)
LEMMA OnTheWayKept ==
  ASSUME QueuesOK, ~dropped', NEW c \in Command, NEW m, OnTheWay(m),
         c.type = "MODE_SET" => Tells(c, m),
         Sends(c) \/ UNCHANGED queues,
         manualMode' = manualMode, shownMode' = shownMode
  PROVE  ~dropped /\ OnTheWay(m)'
<1>1. /\ writeQ \in Seq(Command) /\ screenQ \in Seq(Command)
      /\ EndsIn(writeQ, manualMode, m) /\ EndsIn(screenQ, shownMode, m)
  BY DEF QueuesOK, OnTheWay
<1>2. /\ EndsIn(Append(writeQ, c), manualMode, m)
      /\ EndsIn(Append(screenQ, c), shownMode, m)
  BY <1>1, EndsKept
<1>3. /\ ~dropped
      /\ writeQ' \in {writeQ, Append(writeQ, c)}
      /\ screenQ' \in {screenQ, Append(screenQ, c)}
  BY SentToWrite, SentToScreen, SentToBoth DEF Sends, queues
<1>4. EndsIn(writeQ', manualMode, m) /\ EndsIn(screenQ', shownMode, m)
  BY <1>1, <1>2, <1>3
<1>5. QED
  BY <1>3, <1>4 DEF OnTheWay, EndsIn, Silent

(* An edge, and the record as it is sent by an edge.                       *)
LEMMA EdgeAgrees ==
  ASSUME TypeOK, AgreeInv, Interrupt
  PROVE  AgreeInv'
<1>1. UNCHANGED <<command, knobPc, modeSent, manualMode, shownMode>>
  BY DEF Interrupt, Ignored, PressMode, PressButton, TurnUp, TurnDown, Turn, Edge,
     knobTask, controller
<1>2. Sends(command) \/ UNCHANGED queues
  BY DEF Interrupt, Ignored, PressMode, PressButton, TurnUp, TurnDown, Turn, Sends
<1>3. QueuesOK /\ command \in Command
  BY DEF TypeOK, QueuesOK
<1>4. /\ knobPc' = "modeValue" => command'.type = "MODE_SET"
      /\ knobPc' \in {"modeWrite", "modeScreen"} =>
           \E m \in BOOLEAN : Tells(command', m)
      /\ knobPc' \in {"speed", "target"} => command'.type # "MODE_SET"
  BY <1>1 DEF AgreeInv
<1>5. ASSUME knobPc' = "modeScreen", ~dropped', NEW m \in BOOLEAN, Tells(command', m)
      PROVE  EndsIn(writeQ', manualMode', m)
  <2>1. ~dropped /\ writeQ' \in {writeQ, Append(writeQ, command)}
    BY <1>2, <1>3, <1>5, SentToWrite, SentToScreen, SentToBoth DEF Sends, queues
  <2>2. EndsIn(writeQ, manualMode, m)
    BY <1>1, <1>5, <2>1 DEF AgreeInv
  <2>3. EndsIn(Append(writeQ, command), manualMode, m)
    BY <1>1, <1>3, <1>5, <2>2, EndsKept DEF QueuesOK
  <2>4. QED
    BY <1>1, <2>1, <2>2, <2>3
<1>6. ASSUME modeSent', ~dropped',
             knobPc' \notin {"modeValue", "modeWrite", "modeScreen"}
      PROVE  \E m \in BOOLEAN : (OnTheWay(m) /\ RecordAgrees(m))'
  <2>1. ~dropped
    BY <1>2, <1>3, <1>6, SentToWrite, SentToScreen, SentToBoth DEF Sends, queues
  <2>2. PICK m \in BOOLEAN : OnTheWay(m) /\ RecordAgrees(m)
    BY <1>1, <1>6, <2>1 DEF AgreeInv
  <2>3. OnTheWay(m)'
    BY <1>1, <1>2, <1>3, <1>6, <2>2, OnTheWayKept DEF RecordAgrees
  <2>4. RecordAgrees(m)'
    BY <1>1, <2>2 DEF RecordAgrees, Tells
  <2>5. QED
    BY <2>3, <2>4
<1>7. QED
  BY <1>4, <1>5, <1>6 DEF AgreeInv, OnTheWay, RecordAgrees, EndsIn, Silent, Tells

(* The steps of the knob's task that only go on.                           *)
LEMMA GoingOnAgrees ==
  ASSUME AgreeInv, UNCHANGED <<command, modeSent, queues, manualMode, shownMode>>,
         knobPc \notin {"modeValue", "modeWrite", "modeScreen"},
         knobPc' \notin {"modeValue", "modeWrite", "modeScreen", "speed", "target"}
  PROVE  AgreeInv'
<1>1. ASSUME modeSent', ~dropped'
      PROVE  \E m \in BOOLEAN : (OnTheWay(m) /\ RecordAgrees(m))'
  <2>1. PICK m \in BOOLEAN : OnTheWay(m) /\ RecordAgrees(m)
    BY <1>1 DEF AgreeInv, queues
  <2>2. (OnTheWay(m) /\ RecordAgrees(m))'
    BY <2>1 DEF OnTheWay, RecordAgrees, EndsIn, Silent, Tells, queues
  <2>3. QED
    BY <2>2
<1>2. QED
  BY <1>1 DEF AgreeInv

LEMMA TaskAgrees ==
  ASSUME TypeOK, AgreeInv, KnobTask
  PROVE  AgreeInv'
<1>1. QueuesOK /\ command \in Command /\ knobManual \in BOOLEAN
  BY DEF TypeOK, QueuesOK
<1>2. UNCHANGED <<manualMode, shownMode>>
  BY KnobTaskLeaves DEF controller
<1>3. CASE KnobClear \/ KnobToggle \/ KnobNoToggle
  <2>1. UNCHANGED <<command, modeSent, queues>>
    BY <1>3 DEF KnobClear, KnobToggle, KnobNoToggle
  <2>2. knobPc \in {"idle", "check"} /\ knobPc' \in {"check", "modeType", "choose"}
    BY <1>3 DEF KnobClear, KnobToggle, KnobNoToggle, KnobGo
  <2>3. QED
    BY <1>2, <2>1, <2>2, GoingOnAgrees
<1>4. CASE KnobModeType
  <2>1. knobPc' = "modeValue" /\ command'.type = "MODE_SET"
    BY <1>1, <1>4 DEF KnobModeType, KnobGo, Rewrite, Command
  <2>2. QED
    BY <2>1 DEF AgreeInv
<1>5. CASE KnobModeValue
  <2>1. knobPc = "modeValue" /\ knobPc' = "modeWrite"
    BY <1>5 DEF KnobModeValue, KnobGo
  <2>2. command' = [command EXCEPT !.w = ModeWord(knobManual)]
    BY <1>5 DEF KnobModeValue, Rewrite, ModeWord
  <2>3. command'.type = "MODE_SET" /\ command'.w = ModeWord(knobManual)
    BY <1>1, <2>1, <2>2 DEF AgreeInv, Command
  <2>4. \E m \in BOOLEAN : Tells(command', m)
    BY <1>1, <2>3 DEF Tells
  <2>5. QED
    BY <2>1, <2>4 DEF AgreeInv, Tells
<1>6. CASE KnobModeWrite
  <2>1. /\ knobPc = "modeWrite" /\ knobPc' = "modeScreen" /\ command' = command
        /\ ToWrite(command)
    BY <1>6 DEF KnobModeWrite, KnobGo
  <2>2. \E m \in BOOLEAN : Tells(command', m)
    BY <2>1 DEF AgreeInv
  <2>3. ASSUME ~dropped', NEW m \in BOOLEAN, Tells(command', m)
        PROVE  EndsIn(writeQ', manualMode', m)
    <3>1. writeQ' = Append(writeQ, command) /\ Tells(command, m)
      BY <1>1, <2>1, <2>3, SentToWrite
    <3>2. QED
      BY <1>1, <3>1, EndsWithTold DEF QueuesOK
  <2>4. QED
    BY <2>1, <2>2, <2>3 DEF AgreeInv, Tells, EndsIn, Silent
<1>7. CASE KnobModeScreen
  <2>1. /\ knobPc = "modeScreen" /\ knobPc' = "choose" /\ command' = command
        /\ ToScreen(command)
    BY <1>7 DEF KnobModeScreen, KnobGo
  <2>2. ASSUME ~dropped'
        PROVE  \E m \in BOOLEAN : (OnTheWay(m) /\ RecordAgrees(m))'
    <3>1. ~dropped /\ screenQ' = Append(screenQ, command) /\ writeQ' = writeQ
      BY <1>1, <2>1, <2>2, SentToScreen
    <3>2. PICK m \in BOOLEAN : Tells(command, m)
      BY <2>1 DEF AgreeInv
    <3>3. EndsIn(writeQ', manualMode', m)
      BY <1>2, <2>1, <3>1, <3>2 DEF AgreeInv
    <3>4. EndsIn(screenQ', shownMode', m)
      BY <1>1, <3>1, <3>2, EndsWithTold DEF QueuesOK
    <3>5. Tells(command', m)
      BY <2>1, <3>2
    <3>6. QED
      BY <3>3, <3>4, <3>5 DEF OnTheWay, RecordAgrees, EndsIn, Silent, Tells
  <2>3. QED
    BY <2>1, <2>2 DEF AgreeInv
<1>8. CASE KnobChooseSpeed \/ KnobChooseTarget
  <2>1. knobPc = "choose" /\ knobPc' \in {"speed", "target"}
    BY <1>8 DEF KnobChooseSpeed, KnobChooseTarget, KnobGo
  <2>2. command'.type # "MODE_SET" /\ UNCHANGED <<modeSent, queues>>
    BY <1>1, <1>8 DEF KnobChooseSpeed, KnobChooseTarget, Rewrite, Command
  <2>3. ASSUME modeSent', ~dropped'
        PROVE  \E m \in BOOLEAN : (OnTheWay(m) /\ RecordAgrees(m))'
    <3>1. PICK m \in BOOLEAN : OnTheWay(m)
      BY <2>1, <2>2, <2>3 DEF AgreeInv, queues
    <3>2. OnTheWay(m)'
      BY <1>2, <2>2, <3>1 DEF OnTheWay, EndsIn, Silent, Tells, queues
    <3>3. QED
      BY <2>2, <3>2 DEF RecordAgrees
  <2>4. QED
    BY <2>1, <2>2, <2>3 DEF AgreeInv
<1>9. CASE KnobSpeed \/ KnobTarget
  <2>1. knobPc \in {"speed", "target"} /\ knobPc' = "write"
    <3>1. KnobSpeed => knobPc = "speed" /\ knobPc' = "write"
      BY DEF KnobSpeed, KnobGo
    <3>2. KnobTarget => knobPc = "target" /\ knobPc' = "write"
      BY DEF KnobTarget, KnobGo
    <3>3. QED
      BY <1>9, <3>1, <3>2
  <2>2. command'.type = command.type /\ UNCHANGED <<modeSent, queues>>
    <3>1. CASE KnobSpeed
      BY <1>1, <3>1 DEF KnobSpeed, Rewrite, Command
    <3>2. CASE KnobTarget
      BY <1>1, <3>2 DEF KnobTarget, Rewrite, Command
    <3>3. QED
      BY <1>9, <3>1, <3>2
  <2>3. command'.type # "MODE_SET"
    BY <2>1, <2>2 DEF AgreeInv
  <2>4. ASSUME modeSent', ~dropped'
        PROVE  \E m \in BOOLEAN : (OnTheWay(m) /\ RecordAgrees(m))'
    <3>1. PICK m \in BOOLEAN : OnTheWay(m)
      BY <2>1, <2>2, <2>4 DEF AgreeInv, queues
    <3>2. OnTheWay(m)'
      BY <1>2, <2>2, <3>1 DEF OnTheWay, EndsIn, Silent, Tells, queues
    <3>3. QED
      BY <2>3, <3>2 DEF RecordAgrees
  <2>5. QED
    BY <2>1, <2>3, <2>4 DEF AgreeInv
<1>10. CASE KnobWrite \/ KnobScreen
  <2>1. /\ knobPc \in {"write", "screen"} /\ knobPc' \in {"screen", "idle"}
        /\ command' = command /\ modeSent' = modeSent /\ Sends(command)
    BY <1>10 DEF KnobWrite, KnobScreen, Finish, KnobGo, Sends
  <2>2. ASSUME modeSent', ~dropped'
        PROVE  \E m \in BOOLEAN : (OnTheWay(m) /\ RecordAgrees(m))'
    <3>1. ~dropped
      BY <1>1, <2>1, <2>2, SentToWrite, SentToScreen, SentToBoth DEF Sends
    <3>2. PICK m \in BOOLEAN : OnTheWay(m) /\ RecordAgrees(m)
      BY <2>1, <2>2, <3>1 DEF AgreeInv
    <3>3. OnTheWay(m)'
      BY <1>1, <1>2, <2>1, <2>2, <3>2, OnTheWayKept DEF RecordAgrees
    <3>4. RecordAgrees(m)'
      BY <2>1, <3>2 DEF RecordAgrees, Tells
    <3>5. QED
      BY <3>3, <3>4
  <2>3. QED
    BY <2>1, <2>2 DEF AgreeInv
<1>11. QED
  BY <1>3, <1>4, <1>5, <1>6, <1>7, <1>8, <1>9, <1>10 DEF KnobTask

(* What the two readers make of a command that tells a mode, and of one    *)
(* that is no MODE_SET.                                                    *)
LEMMA ControllerFollows ==
  ASSUME TypeOK, ReadCommand
  PROVE  /\ Head(writeQ).type # "MODE_SET" => manualMode' = manualMode
         /\ \A m \in BOOLEAN : Tells(Head(writeQ), m) => manualMode' = m
<1> DEFINE c == Head(writeQ)
<1>1. SetMode(c) \/ ObeyValue(c) \/ DropValue(c)
  BY DEF ReadCommand
<1>2. ASSUME c.type # "MODE_SET" PROVE manualMode' = manualMode
  BY <1>1, <1>2 DEF SetMode, ObeyValue, DropValue, controller
<1>3. ASSUME NEW m \in BOOLEAN, Tells(c, m) PROVE manualMode' = m
  <2>1. SetMode(c)
    BY <1>1, <1>3 DEF ObeyValue, DropValue, Tells
  <2>2. manualMode' = (c.w = 1)
    BY <1>3, <2>1, ModeWords DEF SetMode, Tells
  <2>3. QED
    BY <1>3, <2>2 DEF Tells, ModeWord
<1>4. QED
  BY <1>2, <1>3

LEMMA ScreenFollows ==
  ASSUME TypeOK, ScreenTake
  PROVE  /\ Head(screenQ).type # "MODE_SET" => shownMode' = shownMode
         /\ \A m \in BOOLEAN : Tells(Head(screenQ), m) => shownMode' = m
<1>1. ASSUME NEW m \in BOOLEAN, Tells(Head(screenQ), m) PROVE shownMode' = m
  <2>1. shownMode' = (Head(screenQ).w # 0)
    BY <1>1 DEF ScreenTake, Tells
  <2>2. QED
    BY <1>1, <2>1 DEF Tells, ModeWord
<1>2. QED
  BY <1>1 DEF ScreenTake

LEMMA ReadersAgree ==
  ASSUME TypeOK, AgreeInv, ReadCommand \/ ScreenTake
  PROVE  AgreeInv'
<1>1. UNCHANGED <<dropped, command, knobPc, modeSent>>
  BY DEF ReadCommand, ScreenTake, knob, knobTask
<1>2. writeQ \in Seq(Command) /\ screenQ \in Seq(Command)
  BY DEF TypeOK
<1>3. ASSUME NEW m \in BOOLEAN, EndsIn(writeQ, manualMode, m)
      PROVE  EndsIn(writeQ', manualMode', m)
  <2>1. CASE ReadCommand
    <3>1. writeQ # << >> /\ writeQ' = Tail(writeQ)
      BY <2>1 DEF ReadCommand
    <3>2. QED
      BY <1>2, <1>3, <2>1, <3>1, ControllerFollows, EndsTaken
  <2>2. CASE ScreenTake
    BY <1>3, <2>2 DEF ScreenTake, controller
  <2>3. QED
    BY <2>1, <2>2
<1>4. ASSUME NEW m \in BOOLEAN, EndsIn(screenQ, shownMode, m)
      PROVE  EndsIn(screenQ', shownMode', m)
  <2>1. CASE ScreenTake
    <3>1. screenQ # << >> /\ screenQ' = Tail(screenQ)
      BY <2>1 DEF ScreenTake
    <3>2. QED
      BY <1>2, <1>4, <2>1, <3>1, ScreenFollows, EndsTaken
  <2>2. CASE ReadCommand
    BY <1>4, <2>2 DEF ReadCommand
  <2>3. QED
    BY <2>1, <2>2
<1>5. ASSUME NEW m \in BOOLEAN, OnTheWay(m) /\ RecordAgrees(m)
      PROVE  (OnTheWay(m) /\ RecordAgrees(m))'
  BY <1>1, <1>3, <1>4, <1>5 DEF OnTheWay, RecordAgrees, EndsIn, Silent, Tells
<1>6. /\ knobPc = "modeScreen" /\ ~dropped =>
           \A m \in BOOLEAN : Tells(command, m) => EndsIn(writeQ', manualMode', m)
      /\ modeSent /\ ~dropped /\ knobPc \notin {"modeValue", "modeWrite", "modeScreen"}
           => \E m \in BOOLEAN : (OnTheWay(m) /\ RecordAgrees(m))'
  BY <1>3, <1>5 DEF AgreeInv
<1>7. QED
  BY <1>1, <1>6 DEF AgreeInv, OnTheWay, RecordAgrees, EndsIn, Silent, Tells

LEMMA NextAgrees ==
  ASSUME TypeOK, Alone, AgreeInv, [OneUserNext]_<<vars, user>>
  PROVE  AgreeInv'
<1>1. CASE UNCHANGED <<vars, user>>
  BY <1>1 DEF vars, queues, knob, knobTask, controller, AgreeInv, OnTheWay,
     RecordAgrees, EndsIn, Silent, Tells
<1>2. CASE (user = "web" /\ \E c \in WebCommands : ParserTake(c)) \/ ParserTask
  <2>1. ParserTask => parserPc # "idle"
    BY DEF ParserTask, ParserMode, ParserValue, ParserModeScreen, ParserValueScreen,
       ParserGo
  <2>2. knobPc = "idle" /\ ~modeSent
    BY <1>2, <2>1 DEF Alone
  <2>3. UNCHANGED <<knobPc, modeSent>>
    BY <1>2 DEF ParserTake, ParserTask, ParserMode, ParserValue, ParserModeScreen,
       ParserValueScreen, ParserGo, knob, knobTask
  <2>4. QED
    BY <2>2, <2>3 DEF AgreeInv
<1>3. QED
  BY <1>1, <1>2, EdgeAgrees, TaskAgrees, ReadersAgree DEF OneUserNext

LEMMA InitAgrees == OneUserInit => Alone /\ AgreeInv
BY DEF OneUserInit, Init, Alone, AgreeInv

LEMMA OneUserTypes == OneUserSpec => []TypeOK
<1>1. OneUserInit => TypeOK
  BY InitTypes DEF OneUserInit
<1>2. TypeOK /\ [OneUserNext]_<<vars, user>> => TypeOK'
  BY NextTypes, OneUserIsNext
<1>3. QED
  BY <1>1, <1>2, PTL DEF OneUserSpec

LEMMA OneUserAlone == OneUserSpec => []Alone
BY InitAgrees, AloneKept, PTL DEF OneUserSpec

(* The screen and the controller end in the same mode when only the knob   *)
(* is used, for every length of the queues, every range of the knob and    *)
(* everything the heap may have held: the half-written records that the    *)
(* interrupt handler sends in between, which the two read differently, are *)
(* overtaken in both queues by a MODE_SET that both understand.            *)
THEOREM ModesAgree == OneUserSpec => []ScreenAgrees
<1>1. OneUserInit => AgreeInv
  BY InitAgrees
<1>2. TypeOK /\ Alone /\ AgreeInv /\ [OneUserNext]_<<vars, user>> => AgreeInv'
  BY NextAgrees
<1>3. AgreeInv => ScreenAgrees
  <2> SUFFICES ASSUME AgreeInv, modeSent, knobPc = "idle", ~dropped,
                      writeQ = << >>, screenQ = << >>
               PROVE  shownMode = manualMode
    BY DEF ScreenAgrees
  <2>1. PICK m \in BOOLEAN : OnTheWay(m)
    BY DEF AgreeInv
  <2>2. manualMode = m /\ shownMode = m
    BY <2>1, EndsEmpty DEF OnTheWay
  <2>3. QED
    BY <2>2
<1>4. QED
  BY <1>1, <1>2, <1>3, OneUserTypes, OneUserAlone, PTL DEF OneUserSpec

-----------------------------------------------------------------------------
(* WebInv, step by step.                                                   *)
LEMMA WebCommandFacts ==
  ASSUME TypeOK
  PROVE  /\ Tells(ModeCommand, web.manual)
         /\ ValueCommand \in Command /\ ValueCommand.type # "MODE_SET"
<1>1. web \in [manual : BOOLEAN, value : Int] /\ (web.manual => web.value \in Word)
  BY DEF TypeOK
<1>2. Tells(ModeCommand, web.manual)
  BY DEF Tells, ModeCommand, ModeWord
<1>3. CASE web.manual
  BY <1>1, <1>2, <1>3 DEF ValueCommand, Command, Types
<1>4. CASE ~web.manual
  BY <1>1, <1>2, <1>4, WordFacts DEF ValueCommand, Command, Types
<1>5. QED
  BY <1>3, <1>4

LEMMA ReadMode ==
  ASSUME TypeOK, ReadCommand, Head(writeQ) = ModeCommand
  PROVE  ModeTaken'
<1>1. web' = web /\ web.manual \in BOOLEAN
  BY DEF ReadCommand, parser, TypeOK
<1>2. manualMode' = web.manual
  BY <1>1, WebCommandFacts, ControllerFollows
<1>3. SetMode(ModeCommand)
  BY DEF ReadCommand, ObeyValue, DropValue, ModeCommand
<1>4. QED
  BY <1>1, <1>2, <1>3 DEF SetMode, ModeTaken

LEMMA ReadValue ==
  ASSUME TypeOK, ReadCommand, Head(writeQ) = ValueCommand, ModeTaken
  PROVE  ValueTaken'
<1>1. web' = web /\ obeyed \in [speed : Word, target : Int]
  BY DEF ReadCommand, parser, TypeOK
<1>2. SetMode(ValueCommand) \/ ObeyValue(ValueCommand) \/ DropValue(ValueCommand)
  BY DEF ReadCommand
<1>3. ~SetMode(ValueCommand)
  BY WebCommandFacts DEF SetMode
<1>4. CASE web.manual
  <2>1. ValueCommand = [type |-> "FAN_SPEED", f |-> 0, w |-> web.value]
    BY <1>4 DEF ValueCommand
  <2>2. ObeyValue(ValueCommand)
    BY <1>2, <1>3, <1>4, <2>1 DEF DropValue, ModeTaken
  <2>3. manualMode' = manualMode /\ obeyed' = [obeyed EXCEPT !.speed = web.value]
    <3>1. ValueCommand.type = "FAN_SPEED" /\ ValueCommand.w = web.value
      BY <2>1
    <3>2. QED
      BY <2>2, <3>1 DEF ObeyValue
  <2>4. QED
    BY <1>1, <1>4, <2>3 DEF ModeTaken, ValueTaken
<1>5. CASE ~web.manual
  <2>1. ValueCommand = [type |-> "CO2_TARGET", f |-> web.value, w |-> 0]
    BY <1>5 DEF ValueCommand
  <2>2. ObeyValue(ValueCommand)
    BY <1>2, <1>3, <1>5, <2>1 DEF DropValue, ModeTaken
  <2>3. manualMode' = manualMode /\ obeyed' = [obeyed EXCEPT !.target = web.value]
    BY <1>5, <2>1, <2>2 DEF ObeyValue, ModeTaken
  <2>4. QED
    BY <1>1, <1>5, <2>3 DEF ModeTaken, ValueTaken
<1>6. QED
  BY <1>4, <1>5

(* The controller takes what is underway.                                  *)
LEMMA ReadUnderway ==
  ASSUME TypeOK, ReadCommand
  PROVE  (ModeUnderway => ModeUnderway') /\ (ValueUnderway => ValueUnderway')
<1> DEFINE n == Len(writeQ)
<1>1. /\ n \in Nat /\ n >= 1 /\ Head(writeQ) = writeQ[1]
      /\ Len(writeQ') = n - 1
      /\ \A j \in 1..(n - 1) : writeQ'[j] = writeQ[j + 1]
  BY HeadTailProperties, LenProperties, EmptySeq DEF ReadCommand, TypeOK
<1>2. ModeCommand' = ModeCommand /\ ValueCommand' = ValueCommand
  BY DEF ReadCommand, parser, ModeCommand, ValueCommand
<1>3. ASSUME ModeUnderway PROVE ModeUnderway'
  <2>1. writeQ[n] = ModeCommand
    BY <1>1, <1>3 DEF ModeUnderway
  <2>2. CASE n = 1
    <3>1. ModeTaken'
      BY <1>1, <2>1, <2>2, ReadMode
    <3>2. QED
      BY <1>1, <2>2, <3>1 DEF ModeUnderway
  <2>3. CASE n # 1
    <3>1. n - 1 \in 1..(n - 1) /\ (n - 1) + 1 = n /\ n - 1 # 0
      BY <1>1, <2>3
    <3>2. writeQ'[n - 1] = ModeCommand
      BY <1>1, <2>1, <3>1
    <3>3. QED
      BY <1>1, <1>2, <3>1, <3>2 DEF ModeUnderway
  <2>4. QED
    BY <2>2, <2>3
<1>4. ASSUME ValueUnderway PROVE ValueUnderway'
  <2>1. writeQ[n] = ValueCommand
    BY <1>1, <1>4 DEF ValueUnderway
  <2>2. CASE n = 1
    <3>1. ModeTaken
      BY <1>4, <2>2 DEF ValueUnderway
    <3>2. ValueTaken'
      BY <1>1, <2>1, <2>2, <3>1, ReadValue
    <3>3. QED
      BY <1>1, <2>2, <3>2 DEF ValueUnderway
  <2>3. CASE n # 1
    <3>1. n - 1 \in 1..(n - 1) /\ (n - 1) + 1 = n /\ n - 1 # 0 /\ n >= 2
      BY <1>1, <2>3
    <3>2. writeQ'[n - 1] = ValueCommand
      BY <1>1, <2>1, <3>1
    <3>3. writeQ[n - 1] = ModeCommand
      BY <1>4, <3>1 DEF ValueUnderway
    <3>4. n - 1 = 1 => ModeTaken'
      BY <1>1, <3>3, ReadMode
    <3>5. ASSUME n - 1 >= 2 PROVE writeQ'[(n - 1) - 1] = ModeCommand
      <4>1. (n - 1) - 1 \in 1..(n - 1) /\ ((n - 1) - 1) + 1 = n - 1
        BY <1>1, <3>5
      <4>2. QED
        BY <1>1, <3>3, <4>1
    <3>6. QED
      BY <1>1, <1>2, <3>1, <3>2, <3>4, <3>5 DEF ValueUnderway
  <2>4. QED
    BY <2>2, <2>3
<1>5. QED
  BY <1>3, <1>4

(* The parser puts the next command behind what is underway.               *)
LEMMA SentUnderway ==
  ASSUME TypeOK, ~dropped', web' = web,
         UNCHANGED <<manualMode, licence, obeyed>>
  PROVE  /\ ToWrite(ModeCommand) => ModeUnderway'
         /\ ToWrite(ValueCommand) /\ ModeUnderway => ValueUnderway'
<1> DEFINE n == Len(writeQ)
<1>1. writeQ \in Seq(Command) /\ n \in Nat /\ QueuesOK
  BY LenProperties DEF TypeOK, QueuesOK
<1>2. ModeCommand' = ModeCommand /\ ValueCommand' = ValueCommand
  BY DEF ModeCommand, ValueCommand
<1>3. ASSUME NEW c, ToWrite(c)
      PROVE  /\ Len(writeQ') = n + 1 /\ writeQ'[n + 1] = c
             /\ \A j \in 1..n : writeQ'[j] = writeQ[j]
  BY <1>1, <1>3, SentToWrite, AppendProperties
<1>4. ASSUME ToWrite(ModeCommand) PROVE ModeUnderway'
  <2>1. Len(writeQ') = n + 1 /\ writeQ'[n + 1] = ModeCommand
    BY <1>3, <1>4
  <2>2. QED
    BY <1>1, <1>2, <2>1 DEF ModeUnderway
<1>5. ASSUME ToWrite(ValueCommand), ModeUnderway PROVE ValueUnderway'
  <2>1. /\ Len(writeQ') = n + 1 /\ writeQ'[n + 1] = ValueCommand
        /\ \A j \in 1..n : writeQ'[j] = writeQ[j]
    BY <1>3, <1>5
  <2>2. CASE n = 0
    <3>1. ModeTaken'
      BY <1>5, <2>2 DEF ModeUnderway, ModeTaken
    <3>2. QED
      BY <1>1, <1>2, <2>1, <2>2, <3>1 DEF ValueUnderway
  <2>3. CASE n # 0
    <3>1. n \in 1..n /\ n >= 1 /\ (n + 1) - 1 = n /\ n + 1 # 0 /\ n + 1 # 1
      BY <1>1, <2>3
    <3>2. writeQ'[(n + 1) - 1] = ModeCommand
      BY <1>5, <2>1, <3>1 DEF ModeUnderway
    <3>3. QED
      BY <1>2, <2>1, <3>1, <3>2 DEF ValueUnderway
  <2>4. QED
    BY <2>2, <2>3
<1>6. QED
  BY <1>4, <1>5

(* What neither the parser nor the controller touches stays underway.      *)
LEMMA StillUnderway ==
  ASSUME UNCHANGED <<writeQ, web, manualMode, licence, obeyed>>
  PROVE  /\ ModeUnderway => ModeUnderway'
         /\ ValueUnderway => ValueUnderway'
BY DEF ModeUnderway, ValueUnderway, ModeTaken, ValueTaken, ModeCommand, ValueCommand

LEMMA ParserWebInv ==
  ASSUME TypeOK, WebInv, user = "web", user' = user, ~dropped', ParserTask
  PROVE  WebInv'
<1>1. web' = web /\ UNCHANGED <<manualMode, licence, obeyed, shownMode>>
  BY DEF ParserTask, ParserMode, ParserValue, ParserModeScreen, ParserValueScreen,
     ParserGo, controller
<1>2. QueuesOK /\ writeQ \in Seq(Command) /\ screenQ \in Seq(Command)
  BY DEF TypeOK, QueuesOK
<1>3. CASE ParserMode
  <2>1. parserPc' = "value" /\ ToWrite(ModeCommand)
    BY <1>3 DEF ParserMode, ParserGo
  <2>2. ModeUnderway'
    BY <1>1, <2>1, SentUnderway
  <2>3. QED
    BY <2>1, <2>2 DEF WebInv
<1>4. CASE ParserValue
  <2>1. parserPc = "value" /\ parserPc' = "modeScreen" /\ ToWrite(ValueCommand)
    BY <1>4 DEF ParserValue, ParserGo
  <2>2. ~dropped
    BY <1>2, <2>1, SentToWrite
  <2>3. ModeUnderway
    BY <2>1, <2>2 DEF WebInv
  <2>4. ValueUnderway'
    BY <1>1, <2>1, <2>3, SentUnderway
  <2>5. QED
    BY <2>1, <2>4 DEF WebInv
<1>5. CASE ParserModeScreen
  <2>1. /\ parserPc = "modeScreen" /\ parserPc' = "valueScreen"
        /\ ToScreen(ModeCommand)
    BY <1>5 DEF ParserModeScreen, ParserGo
  <2>2. ~dropped /\ screenQ' = Append(screenQ, ModeCommand) /\ writeQ' = writeQ
    BY <1>2, <2>1, SentToScreen
  <2>3. ValueUnderway'
    BY <1>1, <2>1, <2>2, StillUnderway DEF WebInv
  <2>4. EndsIn(screenQ', shownMode', web'.manual)
    BY <1>1, <1>2, <2>2, WebCommandFacts, EndsWithTold
  <2>5. ScreenUnderway'
    BY <2>4 DEF ScreenUnderway, EndsIn, Silent, Tells
  <2>6. QED
    BY <2>1, <2>3, <2>5 DEF WebInv
<1>6. CASE ParserValueScreen
  <2>1. /\ parserPc = "valueScreen" /\ parserPc' = "idle"
        /\ ToScreen(ValueCommand)
    BY <1>6 DEF ParserValueScreen, ParserGo
  <2>2. ~dropped /\ screenQ' = Append(screenQ, ValueCommand) /\ writeQ' = writeQ
    BY <1>2, <2>1, SentToScreen
  <2>3. ValueUnderway'
    BY <1>1, <2>1, <2>2, StillUnderway DEF WebInv
  <2>4. EndsIn(screenQ, shownMode, web.manual)
    BY <2>1, <2>2 DEF WebInv, ScreenUnderway
  <2>5. EndsIn(screenQ', shownMode', web'.manual)
    BY <1>1, <1>2, <2>2, <2>4, WebCommandFacts, EndsKept
  <2>6. ScreenUnderway'
    BY <2>5 DEF ScreenUnderway, EndsIn, Silent, Tells
  <2>7. QED
    BY <2>1, <2>3, <2>6 DEF WebInv
<1>7. QED
  BY <1>3, <1>4, <1>5, <1>6 DEF ParserTask

LEMMA ReadersWebInv ==
  ASSUME TypeOK, WebInv, user = "web", user' = user, ~dropped',
         ReadCommand \/ ScreenTake
  PROVE  WebInv'
<1>1. UNCHANGED <<dropped, parserPc, web>>
  BY DEF ReadCommand, ScreenTake, parser
<1>2. /\ ModeUnderway => ModeUnderway'
      /\ ValueUnderway => ValueUnderway'
  <2>1. CASE ReadCommand
    BY <2>1, ReadUnderway
  <2>2. CASE ScreenTake
    <3>1. UNCHANGED <<writeQ, web, manualMode, licence, obeyed>>
      BY <1>1, <2>2 DEF ScreenTake, controller
    <3>2. QED
      BY <3>1, StillUnderway
  <2>3. QED
    BY <2>1, <2>2
<1>3. ScreenUnderway => ScreenUnderway'
  <2>1. CASE ReadCommand
    BY <1>1, <2>1 DEF ReadCommand, ScreenUnderway, EndsIn, Silent, Tells
  <2>2. CASE ScreenTake
    <3>1. /\ screenQ \in Seq(Command) /\ screenQ # << >> /\ screenQ' = Tail(screenQ)
          /\ web.manual \in BOOLEAN
      BY <2>2 DEF ScreenTake, TypeOK
    <3>2. EndsIn(screenQ, shownMode, web.manual)
            => EndsIn(screenQ', shownMode', web.manual)
      BY <2>2, <3>1, ScreenFollows, EndsTaken
    <3>3. QED
      BY <1>1, <3>2 DEF ScreenUnderway, EndsIn, Silent, Tells
  <2>3. QED
    BY <2>1, <2>2
<1>4. QED
  BY <1>1, <1>2, <1>3 DEF WebInv

LEMMA NextWebInv ==
  ASSUME TypeOK, Alone, WebInv, [OneUserNext]_<<vars, user>>
  PROVE  WebInv'
<1>1. CASE UNCHANGED <<vars, user>>
  <2>1. UNCHANGED <<writeQ, screenQ, dropped, parserPc, web, manualMode, licence,
                    obeyed, shownMode, user>>
    BY <1>1 DEF vars, queues, parser, controller
  <2>2. QED
    BY <2>1, StillUnderway DEF WebInv, ScreenUnderway, EndsIn, Silent, Tells
<1>2. CASE OneUserNext
  <2>1. user' = user
    BY <1>2 DEF OneUserNext
  <2>2. SUFFICES ASSUME user = "web", ~dropped' PROVE WebInv'
    BY <2>1 DEF WebInv
  <2>3. ~KnobTask
    BY <2>2, RestingKnob DEF Alone
  <2>4. CASE \E c \in WebCommands : ParserTake(c)
    <3>1. parserPc' = "mode"
      BY <2>4 DEF ParserTake, ParserGo
    <3>2. QED
      BY <3>1 DEF WebInv
  <2>5. QED
    BY <1>2, <2>1, <2>2, <2>3, <2>4, ParserWebInv, ReadersWebInv DEF OneUserNext
<1>3. QED
  BY <1>1, <1>2

LEMMA InitWebInv == OneUserInit => WebInv
<1> SUFFICES ASSUME OneUserInit PROVE WebInv
  OBVIOUS
<1>1. PICK s \in Stored :
        /\ manualMode = s.manual
        /\ obeyed = [speed |-> s.speed, target |-> s.target]
        /\ shownMode = s.manual
        /\ web = [manual |-> s.manual,
                  value |-> IF s.manual THEN s.speed ELSE s.target]
  BY DEF OneUserInit, Init
<1>2. parserPc = "idle" /\ writeQ = << >> /\ screenQ = << >>
  BY DEF OneUserInit, Init
<1>3. ValueTaken
  BY <1>1 DEF ValueTaken
<1>4. Len(writeQ) = 0
  BY <1>2
<1>5. ValueUnderway
  BY <1>3, <1>4 DEF ValueUnderway
<1>6. ScreenUnderway
  BY <1>1, <1>2 DEF ScreenUnderway, EndsIn, Silent
<1>7. QED
  BY <1>2, <1>5, <1>6 DEF WebInv

(* A command of the web service takes effect when nobody touches the knob, *)
(* for every sequence of commands, every length of the queues and every    *)
(* speed of the controller and the screen: the queues end in the last pair *)
(* of mode and value, and since a mode renews the licence, what happened   *)
(* to the pairs before it does not matter.                                 *)
THEOREM WebTakesEffect == OneUserSpec => []WebAloneHolds
<1>1. OneUserInit => WebInv
  BY InitWebInv
<1>2. TypeOK /\ Alone /\ WebInv /\ [OneUserNext]_<<vars, user>> => WebInv'
  BY NextWebInv
<1>3. TypeOK /\ WebInv => WebAloneHolds
  <2> SUFFICES ASSUME TypeOK, WebInv, user = "web", ~dropped PROVE WebCommandHolds
    BY DEF WebAloneHolds, WebCommandHolds
  <2>1. ASSUME parserPc \notin {"mode", "value"}, writeQ = << >>
        PROVE  ValueTaken
    <3>1. parserPc \in {"modeScreen", "valueScreen", "idle"} /\ Len(writeQ) = 0
      BY <2>1 DEF TypeOK
    <3>2. QED
      BY <3>1 DEF WebInv, ValueUnderway
  <2>2. ASSUME parserPc = "idle", screenQ = << >>
        PROVE  shownMode = web.manual
    BY <2>2, EndsEmpty DEF WebInv, ScreenUnderway
  <2>3. QED
    BY <2>1, <2>2 DEF WebCommandHolds, ValueTaken
<1>4. QED
  BY <1>1, <1>2, <1>3, OneUserTypes, OneUserAlone, PTL DEF OneUserSpec
=============================================================================
