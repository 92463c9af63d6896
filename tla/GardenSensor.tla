----------------------------- MODULE GardenSensor -----------------------------
(***************************************************************************)
(* Reading a garden sensor over one wire: SensorReadData of                *)
(* drivers/GardenSensor/master/garden_sensor_master.c with the slave's     *)
(* drivers/OneWire/slave/ow_cmd_slave.c and                                *)
(* drivers/GardenSensor/slave/garden_sensor_slave.c.                       *)
(*                                                                         *)
(* A slot is one step here: module OneWire shows that the slave takes it   *)
(* for what it is when its handler is fast enough.  When it is not, a slot *)
(* is missed, misread or taken for a reset, at most MaxFaults times in an   *)
(* attempt.                                                                *)
(***************************************************************************)
EXTENDS Integers, SequencesExt

CONSTANTS
    Types,        \* sensors that are read, of SensorType_e
    Readings,     \* values of a sensor, high byte and low byte
    Statuses,     \* values of SensorStatus_e
    GARDEN_SENSOR_CONFIG_NUM_RETRIES,
    MaxFaults,
    Crc(_)        \* crc8 of a sequence of bytes, module Crc8

(* What a slave may answer.                                                 *)
Answers == Readings \cup {<<status>> : status \in Statuses}

ASSUME GardenAssumption ==
    /\ Types \cup Statuses \subseteq 0 .. 255
    /\ Readings \subseteq (0 .. 255) \X (0 .. 255)
    /\ GARDEN_SENSOR_CONFIG_NUM_RETRIES \in Nat \ {0}
    /\ MaxFaults \in Nat
    /\ \A data \in Answers : Crc(data) \in 0 .. 255

VARIABLES
    call,     \* the call of SensorReadData: command, type and length
    pc,       \* where the master is
    retries,  \* n_retries
    got,      \* the bits the master has read since the reset
    result,   \* what the last call returned
    slave,    \* ow_cmd_slave and the Cmd, Type and Data of the sensor
    faults,   \* history: slots of this attempt that the slave took wrong
    frame,    \* history: what the slave is to answer
    wire      \* history: what it has answered

masterVars == <<call, pc, retries, got, result>>
hist == <<frame, wire>>
vars == <<masterVars, slave, faults, hist>>

OW_CMD_SIZE == 8
READ_STATUS == 0
READ_SENSOR == 1
NONE == 255  \* SENSOR_COMMAND_INVALID and SENSOR_TYPE_NONE
Ones == 255

(* Bytes on the wire, the lowest bit first.                                 *)
Power == <<1, 2, 4, 8, 16, 32, 64, 128>>
Bits(byte) == [i \in 1 .. OW_CMD_SIZE |-> (byte \div Power[i]) % 2]
BitsOf(bytes) ==
    [i \in 1 .. OW_CMD_SIZE * Len(bytes) |->
        Bits(bytes[((i - 1) \div OW_CMD_SIZE) + 1])[((i - 1) % OW_CMD_SIZE) + 1]]
Byte(bits) == FoldLeftDomain(LAMBDA sum, i : sum + bits[i] * Power[i], 0, bits)
ByteAt(bits, k) == Byte(SubSeq(bits, OW_CMD_SIZE * (k - 1) + 1, OW_CMD_SIZE * k))

-----------------------------------------------------------------------------
(* The slave.                                                               *)

ResetSlave ==
    [state |-> "RECEIVE", rx_data |-> 0, tx_data |-> <<>>, tx_cnt |-> 0,
     bit_cnt |-> 0, crc |-> 0, Cmd |-> NONE, Type |-> NONE]

(* shift_bit_in: bits are set in rx_data and none is ever cleared.          *)
ShiftIn(byte, bit, n) ==
    IF bit = 1 /\ (byte \div Power[n + 1]) % 2 = 0 THEN byte + Power[n + 1] ELSE byte

(* What OwCmdReceiveTransmit gives to transmit; nothing before there are a  *)
(* command and a type, nor for a command it does not know.                  *)
Responses(s) ==
    IF s.Cmd = NONE \/ s.Type = NONE THEN {<<>>}
    ELSE CASE s.Cmd = READ_STATUS -> {<<status>> : status \in Statuses}
           [] s.Cmd = READ_SENSOR -> Readings
           [] OTHER -> {<<>>}

Dispatch(s, data) ==
    [s EXCEPT
        !.Cmd = IF @ = NONE THEN s.rx_data ELSE @,
        !.Type = IF s.Cmd # NONE /\ @ = NONE THEN s.rx_data ELSE @,
        !.tx_data = data,
        !.bit_cnt = 0,
        !.crc = IF data = <<>> THEN @ ELSE Crc(data),
        !.state = IF data = <<>> THEN @ ELSE "RESPOND"]

(* A bit that is received in the RECEIVE state.                             *)
ReceiveBit(s, bit) ==
    [s EXCEPT !.rx_data = ShiftIn(@, bit, s.bit_cnt), !.bit_cnt = @ + 1]

(* A bit is answered in the other states.                                   *)
AnsweredBit(s) ==
    IF s.state = "RESPOND" THEN Bits(s.tx_data[s.tx_cnt + 1])[s.bit_cnt + 1]
    ELSE Bits(s.crc)[s.bit_cnt + 1]

\* Faulty: one byte more than there is.
AnswerBitBeyond(s) ==
    IF s.bit_cnt + 1 < OW_CMD_SIZE THEN [s EXCEPT !.bit_cnt = @ + 1]
    ELSE IF s.state = "RESPOND" /\ s.tx_cnt + 1 <= Len(s.tx_data)
         THEN [s EXCEPT !.bit_cnt = 0, !.tx_cnt = @ + 1]
         ELSE [s EXCEPT !.bit_cnt = 0, !.state = "RECEIVE"]

AnswerBit(s) ==
    CASE s.bit_cnt + 1 < OW_CMD_SIZE -> [s EXCEPT !.bit_cnt = @ + 1]
      [] s.bit_cnt + 1 = OW_CMD_SIZE /\ s.state = "RESPOND" ->
            IF s.tx_cnt + 1 < Len(s.tx_data)
            THEN [s EXCEPT !.bit_cnt = 0, !.tx_cnt = @ + 1]
            ELSE [s EXCEPT !.bit_cnt = 0, !.tx_cnt = 0, !.tx_data = <<>>, !.state = "CRC"]
      [] s.bit_cnt + 1 = OW_CMD_SIZE /\ s.state = "CRC" ->
            [s EXCEPT !.bit_cnt = 0, !.state = "RECEIVE"]

-----------------------------------------------------------------------------
Init ==
    /\ call = [cmd |-> READ_STATUS, type |-> NONE, len |-> 1]
    /\ pc = "idle"
    /\ retries = 0
    /\ got = <<>>
    /\ result = [ok |-> FALSE, data |-> <<>>]
    /\ slave = ResetSlave
    /\ faults = 0
    /\ frame = <<>>
    /\ wire = <<>>

Start(cmd, type, len) ==
    /\ pc = "idle"
    /\ call' = [cmd |-> cmd, type |-> type, len |-> len]
    /\ pc' = "reset"
    /\ retries' = GARDEN_SENSOR_CONFIG_NUM_RETRIES - 1
    /\ UNCHANGED <<got, result, slave, faults, hist>>

GardenSensorStatusRead == Start(READ_STATUS, NONE, 1)
SensorReadValue(type) == Start(READ_SENSOR, type, 2)

\* Faulty: an attempt too many each time.
RetryUncounted == pc' = "reset" /\ UNCHANGED <<retries, result>>

(* The end of an attempt that did not succeed.                              *)
Retry ==
    IF retries = 0
    THEN pc' = "idle" /\ result' = [ok |-> FALSE, data |-> <<>>] /\ UNCHANGED retries
    ELSE pc' = "reset" /\ retries' = retries - 1 /\ UNCHANGED result

\* Faulty: the slave goes on counting the bits of a byte that was cut short.
ResetKeepsCount ==
    /\ pc = "reset"
    /\ slave' = [ResetSlave EXCEPT !.bit_cnt = slave.bit_cnt]
    /\ pc' = "slots"
    /\ got' = <<>> /\ faults' = 0 /\ frame' = <<>> /\ wire' = <<>>
    /\ UNCHANGED <<call, retries, result>>

Reset ==
    /\ pc = "reset"
    /\ slave' = ResetSlave
    /\ pc' = "slots"
    /\ got' = <<>>
    /\ faults' = 0
    /\ frame' = <<>>
    /\ wire' = <<>>
    /\ UNCHANGED <<call, retries, result>>

(* No presence pulse.                                                       *)
ResetUnanswered ==
    /\ pc = "reset"
    /\ Retry
    /\ UNCHANGED <<call, got, slave, faults, hist>>

(* The bytes of an attempt; the master reads by sending ones.               *)
Command == IF call.type = NONE THEN <<call.cmd>> ELSE <<call.cmd, call.type>>
Bytes == Command \o [i \in 1 .. call.len + 1 |-> Ones]
AllSent == Len(got) = OW_CMD_SIZE * Len(Bytes)
NextBit ==
    Bits(Bytes[(Len(got) \div OW_CMD_SIZE) + 1])[(Len(got) % OW_CMD_SIZE) + 1]

(* The slave hears a bit and answers; what the master reads is low when one *)
(* of them pulls.                                                           *)
Hear(heard) ==
    \/ /\ slave.state = "RECEIVE"
       /\ got' = Append(got, NextBit)
       /\ LET s == ReceiveBit(slave, heard)
          IN  IF s.bit_cnt < OW_CMD_SIZE
              THEN slave' = s /\ UNCHANGED hist
              ELSE \E data \in Responses(s) :
                      /\ slave' = Dispatch(s, data)
                      /\ frame' = IF data = <<>> THEN <<>> ELSE BitsOf(data \o <<Crc(data)>>)
                      /\ wire' = <<>>
    \/ /\ slave.state \in {"RESPOND", "CRC"} /\ heard = 1
       /\ got' = Append(got, IF NextBit = 1 THEN AnsweredBit(slave) ELSE 0)
       /\ wire' = Append(wire, AnsweredBit(slave))
       /\ slave' = AnswerBit(slave)
       /\ UNCHANGED frame
    \/ /\ slave.state \in {"RESPOND", "CRC"} /\ heard = 0  \* ow_cmd_slave_error
       /\ got' = Append(got, NextBit)
       /\ slave' = ResetSlave
       /\ UNCHANGED hist

InSlots == pc = "slots" /\ ~AllSent

Slot ==
    /\ InSlots
    /\ Hear(NextBit)
    /\ UNCHANGED <<call, pc, retries, result, faults>>

(* The slave is not ready for the slot, or pulls a presence pulse over it.   *)
SlotMissed ==
    /\ InSlots
    /\ faults < MaxFaults
    /\ faults' = faults + 1
    /\ \E bit \in {0, NextBit} : got' = Append(got, bit)
    /\ UNCHANGED <<call, pc, retries, result, slave, hist>>

(* A late handler finds the line low when it looks for the end of a 0.      *)
SlotTakenForReset ==
    /\ InSlots
    /\ NextBit = 0
    /\ faults < MaxFaults
    /\ faults' = faults + 1
    /\ got' = Append(got, 0)
    /\ slave' = ResetSlave
    /\ UNCHANGED <<call, pc, retries, result, hist>>

SlotMisread ==
    /\ InSlots
    /\ faults < MaxFaults
    /\ faults' = faults + 1
    /\ Hear(1 - NextBit)
    /\ UNCHANGED <<call, pc, retries, result>>

(* ReceiveAndVerify.                                                        *)
Data == [i \in 1 .. call.len |-> ByteAt(got, Len(Command) + i)]
RxCrc == ByteAt(got, Len(Command) + call.len + 1)

Verify ==
    /\ pc = "slots"
    /\ AllSent
    /\ \/ /\ Crc(Data) = RxCrc
          /\ pc' = "idle"
          /\ result' = [ok |-> TRUE, data |-> Data]
          /\ UNCHANGED retries
       \/ /\ Crc(Data) # RxCrc
          /\ Retry
    /\ UNCHANGED <<call, got, slave, faults, hist>>

MasterStep ==
    \/ Reset \/ ResetUnanswered
    \/ Slot \/ SlotMissed \/ SlotMisread \/ SlotTakenForReset
    \/ Verify

Next ==
    \/ GardenSensorStatusRead \/ \E type \in Types : SensorReadValue(type)
    \/ MasterStep

Spec == Init /\ [][Next]_vars

(* The master runs until its call returns.                                  *)
FairSpec == Spec /\ WF_vars(MasterStep)

-----------------------------------------------------------------------------
(* What the slave has answered is the first part of its data and their CRC, *)
(* and its position in its buffer is that of the next bit, whatever it has  *)
(* missed or misread before: no answer is read past its end or after it was *)
(* given up (ow_cmd_slave.c, states RESPOND and CRC).                       *)
AnswersAreFramed ==
    /\ slave.state = "RESPOND" =>
          /\ slave.tx_cnt < Len(slave.tx_data)
          /\ Len(wire) = OW_CMD_SIZE * slave.tx_cnt + slave.bit_cnt
    /\ slave.state = "CRC" =>
          Len(wire) = Len(frame) - OW_CMD_SIZE + slave.bit_cnt
    /\ slave.state \in {"RESPOND", "CRC"} => IsPrefix(wire, frame)

(* In an attempt without a fault master and slave are at the same bit of a  *)
(* byte, and the slave has taken the command, whatever became of the        *)
(* attempts before.                                                         *)
InStep ==
    pc = "slots" /\ faults = 0 =>
        /\ slave.bit_cnt = Len(got) % OW_CMD_SIZE
        /\ Len(got) >= OW_CMD_SIZE => slave.Cmd = call.cmd

(* The inductive invariant.  A slave that answers has the data, their CRC   *)
(* and its place in them, and what it has sent is a part of both.           *)
States == {"RECEIVE", "RESPOND", "CRC"}
FrameOf(data) == BitsOf(data \o <<Crc(data)>>)

SlaveOK ==
    /\ slave \in [state: States, rx_data: Nat, tx_data: Seq(0 .. 255), tx_cnt: Nat,
                  bit_cnt: 0 .. OW_CMD_SIZE - 1, crc: 0 .. 255, Cmd: Nat, Type: Nat]
    /\ got \in Seq({0, 1}) /\ frame \in Seq({0, 1}) /\ wire \in Seq({0, 1})

CallOK ==
    /\ pc \in {"idle", "reset", "slots"}
    /\ call \in [cmd: {READ_STATUS, READ_SENSOR}, type: Types \cup {NONE}, len: 1 .. 2]
    /\ faults \in Nat
    /\ pc = "slots" => Len(got) <= OW_CMD_SIZE * Len(Bytes)

Answering ==
    /\ slave.state = "RECEIVE" => slave.tx_cnt = 0
    /\ slave.state = "RESPOND" =>
          /\ slave.tx_data \in Answers
          /\ slave.crc = Crc(slave.tx_data)
          /\ frame = FrameOf(slave.tx_data)
          /\ slave.tx_cnt < Len(slave.tx_data)
          /\ Len(wire) = OW_CMD_SIZE * slave.tx_cnt + slave.bit_cnt
    /\ slave.state = "CRC" => \E data \in Answers :
          /\ slave.crc = Crc(data)
          /\ frame = FrameOf(data)
          /\ slave.tx_cnt = 0
          /\ Len(wire) = OW_CMD_SIZE * Len(data) + slave.bit_cnt
    /\ slave.state # "RECEIVE" => \A i \in 1 .. Len(wire) : wire[i] = frame[i]

(* Without a fault: how far the slave has come after the bits of the        *)
(* command, of the type and of the first byte the master reads.             *)
Counting ==
    pc = "slots" /\ faults = 0 =>
        /\ slave.bit_cnt = Len(got) % OW_CMD_SIZE
        /\ Len(got) = 0 => slave.rx_data = 0
        /\ Len(got) \in 1 .. OW_CMD_SIZE - 1 => slave.rx_data = call.cmd
        /\ Len(got) < OW_CMD_SIZE => slave.Cmd = NONE /\ slave.Type = NONE
        /\ Len(got) >= OW_CMD_SIZE => slave.Cmd = call.cmd
        /\ slave.Type # NONE => Len(got) >= 2 * OW_CMD_SIZE
        /\ slave.state # "RECEIVE" => Len(got) >= 3 * OW_CMD_SIZE

IInv == SlaveOK /\ CallOK /\ Answering /\ Counting

(* A call returns.                                                          *)
ReadEnds == pc # "idle" ~> pc = "idle"
=============================================================================
