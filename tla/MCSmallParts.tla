---------------------------- MODULE MCSmallParts ----------------------------
(***************************************************************************)
(* Small instances, for TLC, of the parts whose state spaces are small:    *)
(* the I2C bus (PicoI2C), the pages of the EEPROM (EepromPage), the Modbus *)
(* frames (ModbusFrame) and the wiring of the tasks (Boot).  They share    *)
(* nothing, so an execution follows one of them, `part', and the others    *)
(* rest.                                                                   *)
(***************************************************************************)
EXTENDS PicoI2C

CONSTANTS a, b, Bad

VARIABLES
  part,
  page, old, new, written,
  memory, registerCount, payload, rxbuf, put,
  todo, adding, created, fanctrl, registered, subscribers, storage, handle,
  sending, to, unheard, clashed

pageVars == <<page, old, new, written>>
frameVars == <<memory, registerCount, payload, rxbuf, put>>
bootVars == <<todo, adding, created, fanctrl, registered, subscribers, storage, handle,
              sending, to, unheard, clashed>>
all == <<part, vars, pageVars, frameVars, bootVars>>

-----------------------------------------------------------------------------
MCTasks == {a, b}

\* transactions that fit in the FIFO and that have to be refilled once and
\* twice: writes, a read and a combined one
MCJobs == {[w |-> 1, r |-> 0], [w |-> 5, r |-> 0], [w |-> 0, r |-> 3], [w |-> 1, r |-> 5]}

\* modes, speeds and targets of one to four digits
Page == INSTANCE EepromPage
          WITH Numbers <- {0, 1, 19, 100, 420, 999, 1000, 1500}

\* words whose bytes differ, with either bit at either end
Frame == INSTANCE ModbusFrame
           WITH Device <- 240, Address <- 258, Counts <- {1, 2},
                Words <- {0, 1, 255, 256, 4660, 32768, 65535},
                count <- registerCount

MCPublishers == {"CO2"}

Boot == INSTANCE Boot
          WITH Publishers <- MCPublishers

ASSUME MCAssumption == Boot!BootAssumption

-----------------------------------------------------------------------------
\* where the parts rest that are not followed
MCInit ==
  /\ part \in {"bus", "page", "frame", "boot"}
  /\ Init /\ Page!Init /\ Frame!Init /\ Boot!Init
  /\ part # "page" => old = 0
  /\ part # "frame" => registerCount = 1

MCNext ==
  /\ UNCHANGED part
  /\ \/ part = "bus" /\ Next /\ UNCHANGED <<pageVars, frameVars, bootVars>>
     \/ part = "page" /\ Page!Next /\ UNCHANGED <<vars, frameVars, bootVars>>
     \/ part = "frame" /\ Frame!Next /\ UNCHANGED <<vars, pageVars, bootVars>>
     \/ part = "boot" /\ Boot!Next /\ UNCHANGED <<vars, pageVars, frameVars>>

OnBus(A) == part = "bus" /\ A /\ UNCHANGED <<part, pageVars, frameVars, bootVars>>
OnBoot(A) == part = "boot" /\ A /\ UNCHANGED <<part, vars, pageVars, frameVars>>

\* the fairness of PicoI2C and of Boot, for the executions that follow them
MCFairness ==
  /\ \A t \in MCTasks : WF_all(OnBus(Step(t))) /\ SF_all(OnBus(Lock(t)))
  /\ WF_all(OnBoot(Boot!RunInit)) /\ WF_all(OnBoot(Boot!RunSetup))
  /\ \A t \in MCPublishers : WF_all(OnBoot(Boot!Publish(t)))

MCSpec == MCInit /\ [][MCNext]_all /\ MCFairness

-----------------------------------------------------------------------------
(* Every variable of the four modules has its type.                        *)
TypesOK ==
  /\ TypeOK /\ Boot!TypeOK
  /\ part = "page" => Page!TypeOK
  /\ part = "frame" => Frame!TypeOK

(* NoThirdNumber of EepromPage: a page is read as the old number or the    *)
(* new one, or does not verify, wherever its writing stopped.              *)
NoThirdNumber == part = "page" => Page!NoThirdNumber

(* crc16() and crc() are the remainders of their polynomials, of every     *)
(* page and of every request that occurs.                                  *)
ChecksumsDivide ==
  /\ part = "page" => Page!Crc16IsCcitt
  /\ part = "frame" => Frame!CrcIsModbus

(* FramesCarryNumbers of ModbusFrame: requests verify, and the device and  *)
(* the program agree on the words.                                         *)
FramesCarryNumbers == part = "frame" => Frame!FramesCarryNumbers

(* WhoHearsCanCommand of Boot: whatever the order of the two tasks, nobody *)
(* hears readings and commands a queue that is none.                       *)
WhoHearsCanCommand == part = "boot" => Boot!WhoHearsCanCommand

(* SubscribersAreFed of Boot: every receiver whose subscription is found   *)
(* gets its readings, in the end from the vector's own storage.            *)
SubscribersAreFed == part = "boot" => Boot!SubscribersAreFed
=============================================================================
