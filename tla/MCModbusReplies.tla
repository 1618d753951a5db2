-------------------------- MODULE MCModbusReplies ---------------------------
(* A small instance of ModbusReplies for TLC: one reader and the writer,    *)
(* with replies of 3 and 2 bytes.                                           *)
EXTENDS ModbusReplies

CONSTANTS co2, fan

MCReaders == {co2}
MCWriter == fan
MCReplyLen == [r \in Registers |-> IF r = co2 THEN 3 ELSE 2]
=============================================================================
