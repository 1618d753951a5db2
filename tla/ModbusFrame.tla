---------------------------- MODULE ModbusFrame -----------------------------
(***************************************************************************)
(* What is sent and received on the Modbus line, byte by byte: the         *)
(* requests that ReadRegister and WriteRegister build, the reply of a      *)
(* device that follows the Modbus protocol, and what get16, get32 and      *)
(* is_ok make of the reply.                                                *)
(*                                                                         *)
(* A number of 32 bits is a pair of words, the less significant one first. *)
(***************************************************************************)
EXTENDS Checksums

CONSTANTS
  Device,   \* the address of the device
  Address,  \* the address of the first of its two registers
  Words,    \* the words that are written
  Counts    \* numbers of registers that a MODBUSRegister may have

VARIABLES
  memory,   \* the device's registers at Address
  count,    \* number_of_registers
  payload,  \* the request
  rxbuf,    \* the reply
  put       \* the number that was written last

vars == <<memory, count, payload, rxbuf, put>>

Byte(n) == n % 256
High(word) == word \div 256

-----------------------------------------------------------------------------
(* Requests                                                                *)

WithCrc(bytes) == bytes \o << Byte(ModbusCrc(bytes)), High(ModbusCrc(bytes)) >>

Header(function, n) ==
  << Device, function, High(Address), Byte(Address), 0, n >>

ReadRequest(holding, n) == WithCrc(Header(IF holding THEN 3 ELSE 4, n))

(* start_transfer(uint16_t)                                                *)
WriteWord(word, n) ==
  WithCrc(Header(16, n) \o << 2, High(word), Byte(word) >>)

\* mutant: the more significant word goes first
HighWordFirst(low, high) == << High(high), Byte(high), High(low), Byte(low) >>

DataBytes(low, high) == << High(low), Byte(low), High(high), Byte(high) >>

(* start_transfer(uint32_t), and that of a float by its bits               *)
WriteNumber(low, high, n) ==
  IF n = 1 THEN WriteWord(low, n)
  ELSE WithCrc(Header(16, n) \o << 4 >> \o DataBytes(low, high))

-----------------------------------------------------------------------------
(* Replies                                                                 *)

RxWord(i) == 256 * rxbuf[i] + rxbuf[i + 1]

(* get32, which leaves a reply of one register to get16                    *)
Get32 == IF rxbuf[3] = 2 THEN << RxWord(4), 0 >> ELSE << RxWord(4), RxWord(6) >>

(* ReadRegister::is_ok                                                     *)
IsOk == ModbusCrc(rxbuf) = 0 /\ Len(rxbuf) # 5

(* The number of bytes that start() is told to wait for, a uint8_t         *)
RxLen(n) == Byte(5 + 2 * n)

-----------------------------------------------------------------------------
(* The device                                                              *)

Word(bytes, i) == 256 * bytes[i] + bytes[i + 1]

(* A request that is for the device and complete; what it cannot do, it    *)
(* refuses.                                                                *)
Addressed(p) == ModbusCrc(p) = 0 /\ p[1] = Device

Registers(p) == Word(p, 3)..(Word(p, 3) + Word(p, 5) - 1)

CanRead(p) == p[2] \in {3, 4} /\ Registers(p) \subseteq DOMAIN memory

CanWrite(p) ==
  /\ p[2] = 16
  /\ Registers(p) \subseteq DOMAIN memory
  /\ p[7] = 2 * Word(p, 5) /\ Len(p) = 9 + p[7]

ReadReply(p) ==
  WithCrc(<< Device, p[2], 2 * Word(p, 5) >>
            \o FlattenSeq([i \in 1..Word(p, 5) |->
                 LET w == memory[Word(p, 3) + i - 1] IN << High(w), Byte(w) >>]))

Refusal(p) == WithCrc(<< Device, p[2] + 128, 2 >>)

-----------------------------------------------------------------------------
Init ==
  /\ memory = [a \in Address..(Address + 1) |-> 0]
  /\ count \in Counts
  /\ payload = << >> /\ rxbuf = << >>
  /\ put = << 0, 0 >>

Request(p) == payload' = p /\ rxbuf' = << >>

(* A write of a number, and of a word alone.  The request for a word has a *)
(* byte count of 2 whatever the number of registers, so with two registers *)
(* it contradicts itself, the device refuses it and nothing is put.        *)
Write ==
  /\ payload = << >>
  /\ \E low, high \in Words :
       /\ Request(WriteNumber(low, high, count))
       /\ put' = << low, IF count = 1 THEN put[2] ELSE high >>
  /\ UNCHANGED <<memory, count>>

PutWord ==
  /\ payload = << >>
  /\ \E word \in Words :
       /\ Request(WriteWord(word, count))
       /\ put' = IF count = 1 THEN << word, put[2] >> ELSE put
  /\ UNCHANGED <<memory, count>>

Read ==
  /\ payload = << >>
  /\ \E holding \in BOOLEAN : Request(ReadRequest(holding, count))
  /\ UNCHANGED <<memory, count, put>>

Takes ==
  /\ payload # << >> /\ payload' = << >>
  /\ Addressed(payload) /\ CanWrite(payload)
  /\ memory' = [a \in DOMAIN memory |->
                  IF a \in Registers(payload)
                  THEN Word(payload, 8 + 2 * (a - Word(payload, 3)))
                  ELSE memory[a]]
  /\ UNCHANGED <<count, rxbuf, put>>

Answers ==
  /\ payload # << >> /\ payload' = << >>
  /\ Addressed(payload) /\ CanRead(payload)
  /\ rxbuf' = ReadReply(payload)
  /\ UNCHANGED <<memory, count, put>>

Refuses ==
  /\ payload # << >> /\ payload' = << >>
  /\ Addressed(payload) /\ ~CanRead(payload) /\ ~CanWrite(payload)
  /\ rxbuf' = Refusal(payload)
  /\ UNCHANGED <<memory, count, put>>

Next == Write \/ PutWord \/ Read \/ Takes \/ Answers \/ Refuses

Spec == Init /\ [][Next]_vars

-----------------------------------------------------------------------------
(* Every variable has its type.                                            *)
TypeOK ==
  /\ memory \in [Address..(Address + 1) -> 0..65535]
  /\ count \in Counts
  /\ payload \in Seq(0..255) /\ rxbuf \in Seq(0..255)
  /\ put \in (0..65535) \X (0..65535)

(* crc(), by its table, is the CRC of the Modbus protocol.                 *)
CrcIsModbus == ModbusCrc(payload) = ModbusReference(payload)

\* Every request is one that the device takes to be for it and complete.
RequestsVerify == payload # << >> => Addressed(payload)

\* What a reader gets is what the device holds: the two words in the order
\* that write and read agree on, or, of one register, its word.  A reply
\* that is_ok accepts has the length that was waited for.
ReadsBack ==
  rxbuf # << >> /\ IsOk =>
    /\ Len(rxbuf) = RxLen(count)
    /\ Get32 = << memory[Address], IF count = 1 THEN 0 ELSE memory[Address + 1] >>

\* "lower 16 bits go to the first register, higher 16 bits to the second"
\* (modbus_register.h): between transfers the device holds what was put.
WordOrder ==
  payload = << >> => << memory[Address], memory[Address + 1] >> = put

(* A number gets to a device that follows the protocol and back.           *)
FramesCarryNumbers == RequestsVerify /\ ReadsBack /\ WordOrder
=============================================================================
