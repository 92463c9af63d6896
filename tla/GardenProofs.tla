----------------------------- MODULE GardenProofs -----------------------------
(***************************************************************************)
(* Proofs about reading a garden sensor, for any sensors, readings, CRC,   *)
(* number of attempts and of slots that go wrong in them.                  *)
(***************************************************************************)
EXTENDS GardenSensor, TLAPS

Bit == {0, 1}
Byte8 == 0 .. 255
SlaveType ==
    [state: States, rx_data: Nat, tx_data: Seq(Byte8), tx_cnt: Nat,
     bit_cnt: 0 .. 7, crc: Byte8, Cmd: Nat, Type: Nat]

-----------------------------------------------------------------------------
(* Bits and bytes.                                                          *)

LEMMA Powers ==
    /\ \A i \in 1 .. 8 : Power[i] \in Nat \ {0}
    /\ Power[1] = 1
    /\ \A i \in 2 .. 8 : Power[i] \in Nat /\ Power[i] >= 2
BY DEF Power

LEMMA BitsAreBits ==
    ASSUME NEW byte \in Nat
    PROVE  /\ Bits(byte) \in [1 .. 8 -> Bit]
           /\ byte \in Bit => Bits(byte)[1] = byte /\ \A i \in 2 .. 8 : Bits(byte)[i] = 0
<1>1. \A i \in 1 .. 8 : (byte \div Power[i]) % 2 \in Bit
  BY Powers DEF Bit
<1>2. Bits(byte) = [i \in 1 .. 8 |-> (byte \div Power[i]) % 2]
  BY DEF Bits, OW_CMD_SIZE
<1>3. Bits(byte) \in [1 .. 8 -> Bit]
  BY <1>1, <1>2
<1>4. ASSUME byte \in Bit PROVE Bits(byte)[1] = byte
  <2>1. Bits(byte)[1] = (byte \div 1) % 2
    BY <1>2, Powers
  <2>2. byte = 0 \/ byte = 1
    BY <1>4 DEF Bit
  <2>3. (0 \div 1) % 2 = 0 /\ (1 \div 1) % 2 = 1
    OBVIOUS
  <2> QED
    BY <2>1, <2>2, <2>3
<1>5. ASSUME byte \in Bit, NEW i \in 2 .. 8 PROVE Bits(byte)[i] = 0
  <2>1. byte \div Power[i] = 0
    BY <1>5, Powers DEF Bit
  <2> QED
    BY <1>2, <2>1
<1> QED
  BY <1>3, <1>4, <1>5

LEMMA OnesAreOnes == \A i \in 1 .. 8 : Bits(Ones)[i] = 1
BY DEF Bits, Ones, Power, OW_CMD_SIZE

LEMMA AnswersAreBytes ==
    ASSUME NEW data \in Answers
    PROVE  data \in Seq(Byte8) /\ (Len(data) = 1 \/ Len(data) = 2) /\ Crc(data) \in Byte8
<1>1. Crc(data) \in Byte8
  BY GardenAssumption DEF Byte8
<1>2. CASE data \in Readings
  <2>1. data \in Byte8 \X Byte8
    BY <1>2, GardenAssumption DEF Byte8
  <2>2. PICK high \in Byte8, low \in Byte8 : data = <<high, low>>
    BY <2>1
  <2>3. <<high, low>> \in Seq(Byte8) /\ Len(<<high, low>>) = 2
    OBVIOUS
  <2>4. data \in Seq(Byte8) /\ Len(data) = 2
    BY <2>2, <2>3, Zenon
  <2> QED
    BY <2>4, <1>1
<1>3. CASE \E status \in Statuses : data = <<status>>
  <2>1. PICK status \in Byte8 : data = <<status>>
    BY <1>3, GardenAssumption DEF Byte8
  <2>2. <<status>> \in Seq(Byte8) /\ Len(<<status>>) = 1
    OBVIOUS
  <2>3. data \in Seq(Byte8) /\ Len(data) = 1
    BY <2>1, <2>2, Zenon
  <2> QED
    BY <2>3, <1>1
<1> QED
  BY <1>2, <1>3 DEF Answers

(* Where a bit of an answer is in its frame.                                *)
LEMMA FrameHasBits ==
    ASSUME NEW data \in Answers
    PROVE  /\ FrameOf(data) \in Seq(Bit)
           /\ Len(FrameOf(data)) = 8 * Len(data) + 8
           /\ \A k \in 0 .. Len(data) - 1, j \in 0 .. 7 :
                 FrameOf(data)[8 * k + j + 1] = Bits(data[k + 1])[j + 1]
           /\ \A j \in 0 .. 7 :
                 FrameOf(data)[8 * Len(data) + j + 1] = Bits(Crc(data))[j + 1]
<1> DEFINE bytes == data \o <<Crc(data)>>
           n == Len(data)
<1>1. data \in Seq(Byte8) /\ n \in 1 .. 2 /\ Crc(data) \in Byte8
  BY AnswersAreBytes
<1>2. /\ bytes \in Seq(Byte8) /\ Len(bytes) = n + 1
      /\ \A k \in 1 .. n : bytes[k] = data[k]
      /\ bytes[n + 1] = Crc(data)
  BY <1>1
<1> HIDE DEF bytes, n
<1>3. FrameOf(data) = [i \in 1 .. 8 * (n + 1) |-> Bits(bytes[((i - 1) \div 8) + 1])[((i - 1) % 8) + 1]]
  BY <1>2 DEF FrameOf, BitsOf, bytes, OW_CMD_SIZE
<1>4. \A i \in 1 .. 8 * (n + 1) : Bits(bytes[((i - 1) \div 8) + 1])[((i - 1) % 8) + 1] \in Bit
  <2> TAKE i \in 1 .. 8 * (n + 1)
  <2>1. ((i - 1) \div 8) + 1 \in 1 .. n + 1 /\ ((i - 1) % 8) + 1 \in 1 .. 8
    BY <1>1
  <2>2. bytes[((i - 1) \div 8) + 1] \in Nat
    <3>1. bytes[((i - 1) \div 8) + 1] \in Byte8
      BY <1>1, <1>2, <2>1
    <3> QED
      BY <3>1 DEF Byte8
  <2> QED
    BY <2>1, <2>2, BitsAreBits
<1>5. FrameOf(data) \in Seq(Bit) /\ Len(FrameOf(data)) = 8 * n + 8
  BY <1>1, <1>3, <1>4
<1>6. ASSUME NEW k \in 0 .. n, NEW j \in 0 .. 7
      PROVE  FrameOf(data)[8 * k + j + 1] = Bits(bytes[k + 1])[j + 1]
  <2>1. 8 * k + j + 1 \in 1 .. 8 * (n + 1)
    BY <1>1
  <2>2. (8 * k + j) \div 8 = k /\ (8 * k + j) % 8 = j
    BY <1>1
  <2>3. (8 * k + j + 1) - 1 = 8 * k + j
    BY <1>1
  <2> QED
    BY <1>3, <2>1, <2>2, <2>3
<1>7. \A k \in 0 .. n - 1, j \in 0 .. 7 : FrameOf(data)[8 * k + j + 1] = Bits(data[k + 1])[j + 1]
  <2> TAKE k \in 0 .. n - 1, j \in 0 .. 7
  <2>1. k \in 0 .. n /\ k + 1 \in 1 .. n
    BY <1>1
  <2>2. bytes[k + 1] = data[k + 1]
    BY <1>2, <2>1
  <2>3. FrameOf(data)[8 * k + j + 1] = Bits(bytes[k + 1])[j + 1]
    BY <1>6, <2>1
  <2> QED
    BY <2>2, <2>3
<1>8. \A j \in 0 .. 7 : FrameOf(data)[8 * n + j + 1] = Bits(Crc(data))[j + 1]
  <2> TAKE j \in 0 .. 7
  <2>1. n \in 0 .. n
    BY <1>1
  <2>2. FrameOf(data)[8 * n + j + 1] = Bits(bytes[n + 1])[j + 1]
    BY <1>6, <2>1
  <2> QED
    BY <1>2, <2>2
<1> QED
  BY <1>5, <1>7, <1>8 DEF n

-----------------------------------------------------------------------------
(* What the master sends.                                                   *)

LEMMA BytesSent ==
    ASSUME CallOK
    PROVE  /\ Bytes \in Seq(Byte8)
           /\ Len(Command) = 1 \/ Len(Command) = 2
           /\ Len(Bytes) = Len(Command) + call.len + 1
           /\ Bytes[1] = call.cmd
           /\ \A k \in Len(Command) + 1 .. Len(Bytes) : Bytes[k] = Ones
<1> DEFINE ones == [i \in 1 .. call.len + 1 |-> Ones]
<1>1. call.cmd \in Byte8 /\ call.type \in Byte8 /\ call.len \in 1 .. 2
  BY GardenAssumption DEF CallOK, READ_STATUS, READ_SENSOR, NONE, Byte8
<1>2. Command \in Seq(Byte8) /\ (Len(Command) = 1 \/ Len(Command) = 2) /\ Command[1] = call.cmd
  <2>1. CASE call.type = NONE
    <3>1. Command = <<call.cmd>>
      BY <2>1 DEF Command
    <3> QED
      BY <1>1, <3>1
  <2>2. CASE call.type # NONE
    <3>1. Command = <<call.cmd, call.type>>
      BY <2>2 DEF Command
    <3> QED
      BY <1>1, <3>1
  <2> QED
    BY <2>1, <2>2
<1>3. ones \in Seq(Byte8) /\ Len(ones) = call.len + 1 /\ \A i \in 1 .. call.len + 1 : ones[i] = Ones
  <2>1. Ones \in Byte8
    BY DEF Ones, Byte8
  <2>2. call.len + 1 \in Nat
    BY <1>1
  <2>3. ones = [i \in 1 .. call.len + 1 |-> Ones]
    OBVIOUS
  <2> HIDE DEF ones
  <2> QED
    BY <2>1, <2>2, <2>3
<1>4. Bytes = Command \o ones
  BY DEF Bytes
<1> HIDE DEF ones
<1> QED
  BY <1>1, <1>2, <1>3, <1>4

LEMMA NextBitIs ==
    ASSUME SlaveOK, CallOK, InSlots
    PROVE  /\ NextBit \in Bit
           /\ Len(got) < 8 => NextBit = Bits(call.cmd)[Len(got) + 1]
           /\ Len(got) >= 16 => NextBit = 1
           /\ Len(got) + 1 <= 8 * Len(Bytes)
<1> DEFINE n == Len(got)
           k == (n \div 8) + 1
           j == (n % 8) + 1
<1>1. /\ Bytes \in Seq(Byte8) /\ Len(Bytes) \in Nat
      /\ Bytes[1] = call.cmd
      /\ \A m \in Len(Command) + 1 .. Len(Bytes) : Bytes[m] = Ones
  BY BytesSent
<1>2. n \in Nat /\ n < 8 * Len(Bytes)
  BY <1>1 DEF SlaveOK, CallOK, InSlots, AllSent, OW_CMD_SIZE
<1>3. NextBit = Bits(Bytes[k])[j]
  BY DEF NextBit, OW_CMD_SIZE
<1>4. k \in 1 .. Len(Bytes) /\ j \in 1 .. 8
  BY <1>1, <1>2
<1>5. NextBit \in Bit
  <2>1. Bytes[k] \in Byte8
    BY <1>1, <1>4
  <2>2. \A byte \in Byte8 : byte \in Nat
    BY DEF Byte8
  <2>3. Bytes[k] \in Nat
    BY <2>1, <2>2, Zenon
  <2>4. Bits(Bytes[k]) \in [1 .. 8 -> Bit]
    BY <2>3, BitsAreBits
  <2> QED
    BY <1>3, <1>4, <2>4
<1>6. ASSUME n < 8 PROVE NextBit = Bits(call.cmd)[n + 1]
  <2>1. k = 1 /\ j = n + 1
    BY <1>2, <1>6
  <2> QED
    BY <1>1, <1>3, <2>1
<1>7. ASSUME n >= 16 PROVE NextBit = 1
  <2>1. k \in Len(Command) + 1 .. Len(Bytes)
    <3>1. n \div 8 \in Nat /\ n \div 8 >= 2
      BY <1>2, <1>7
    <3>2. Len(Command) = 1 \/ Len(Command) = 2
      BY BytesSent
    <3>3. k \in Nat /\ k >= 3 /\ k <= Len(Bytes) /\ Len(Bytes) \in Nat
      BY <1>1, <1>4, <3>1
    <3>4. \A c \in {1, 2}, m, l \in Nat : m >= 3 /\ m <= l => m \in c + 1 .. l
      OBVIOUS
    <3>5. Len(Command) \in {1, 2}
      BY <3>2
    <3> HIDE DEF k
    <3> QED
      BY <3>3, <3>4, <3>5, Zenon
  <2> QED
    BY <1>1, <1>3, <1>4, <2>1, OnesAreOnes
<1> QED
  BY <1>1, <1>2, <1>5, <1>6, <1>7

-----------------------------------------------------------------------------
(* The slave.                                                               *)

LEMMA ShiftedIn ==
    ASSUME NEW byte \in Nat, NEW bit \in Bit, NEW n \in 0 .. 7
    PROVE  ShiftIn(byte, bit, n) \in Nat
<1>1. Power[n + 1] \in Nat
  BY Powers
<1> QED
  BY <1>1 DEF ShiftIn

LEMMA Received ==
    ASSUME slave \in SlaveType, NEW bit \in Bit
    PROVE  /\ ReceiveBit(slave, bit).rx_data = ShiftIn(slave.rx_data, bit, slave.bit_cnt)
           /\ ReceiveBit(slave, bit).bit_cnt = slave.bit_cnt + 1
           /\ ReceiveBit(slave, bit).state = slave.state
           /\ ReceiveBit(slave, bit).tx_cnt = slave.tx_cnt
           /\ ReceiveBit(slave, bit).Cmd = slave.Cmd
           /\ ReceiveBit(slave, bit).Type = slave.Type
           /\ ReceiveBit(slave, bit)
                 \in [state: States, rx_data: Nat, tx_data: Seq(Byte8), tx_cnt: Nat,
                      bit_cnt: 1 .. 8, crc: Byte8, Cmd: Nat, Type: Nat]
<1>1. slave.rx_data \in Nat /\ slave.bit_cnt \in 0 .. 7
  BY DEF SlaveType
<1>2. ShiftIn(slave.rx_data, bit, slave.bit_cnt) \in Nat
  BY <1>1, ShiftedIn
<1>3. slave.bit_cnt + 1 \in 1 .. 8
  BY <1>1
<1> QED
  BY <1>2, <1>3 DEF ReceiveBit, SlaveType

LEMMA ResponsesAreAnswers ==
    ASSUME NEW s, NEW data \in Responses(s)
    PROVE  /\ data = <<>> \/ data \in Answers
           /\ data # <<>> => s.Type # NONE
<1>1. CASE s.Cmd = NONE \/ s.Type = NONE
  BY <1>1 DEF Responses
<1>2. CASE ~(s.Cmd = NONE \/ s.Type = NONE)
  <2>1. data \in {<<status>> : status \in Statuses} \/ data \in Readings \/ data \in {<<>>}
    BY <1>2 DEF Responses, READ_STATUS, READ_SENSOR
  <2> QED
    BY <1>2, <2>1 DEF Answers
<1> QED
  BY <1>1, <1>2

(* The end of a byte.                                                       *)
LEMMA Dispatched ==
    ASSUME slave \in SlaveType, NEW bit \in Bit, slave.state = "RECEIVE",
           NEW data \in Responses(ReceiveBit(slave, bit)), NEW d,
           d = Dispatch(ReceiveBit(slave, bit), data)
    PROVE  /\ d \in SlaveType
           /\ d.bit_cnt = 0 /\ d.tx_data = data /\ d.tx_cnt = slave.tx_cnt
           /\ data = <<>> => d.state = "RECEIVE"
           /\ data # <<>> => /\ d.state = "RESPOND" /\ data \in Answers
                             /\ d.crc = Crc(data) /\ slave.Type # NONE
           /\ slave.Cmd = NONE => /\ d.Type = slave.Type
                                  /\ d.Cmd = ReceiveBit(slave, bit).rx_data
           /\ slave.Cmd # NONE => d.Cmd = slave.Cmd
<1> DEFINE r == ReceiveBit(slave, bit)
<1>1. /\ r \in [state: States, rx_data: Nat, tx_data: Seq(Byte8), tx_cnt: Nat,
                bit_cnt: 1 .. 8, crc: Byte8, Cmd: Nat, Type: Nat]
      /\ r.state = "RECEIVE" /\ r.tx_cnt = slave.tx_cnt
      /\ r.Cmd = slave.Cmd /\ r.Type = slave.Type
  BY Received
<1>2. /\ data = <<>> \/ data \in Answers
      /\ data # <<>> => r.Type # NONE
  BY ResponsesAreAnswers
<1>3. data \in Seq(Byte8) /\ (data # <<>> => Crc(data) \in Byte8)
  <2>1. CASE data = <<>>
    BY <2>1
  <2>2. CASE data # <<>>
    BY <1>2, <2>2, AnswersAreBytes
  <2> QED
    BY <2>1, <2>2
<1> HIDE DEF r
<1> DEFINE crc == IF data = <<>> THEN r.crc ELSE Crc(data)
           cmd == IF r.Cmd = NONE THEN r.rx_data ELSE r.Cmd
           type == IF r.Cmd # NONE /\ r.Type = NONE THEN r.rx_data ELSE r.Type
           state == IF data = <<>> THEN r.state ELSE "RESPOND"
<1>4. d = [state |-> state, rx_data |-> r.rx_data, tx_data |-> data, tx_cnt |-> r.tx_cnt,
           bit_cnt |-> 0, crc |-> crc, Cmd |-> cmd, Type |-> type]
  BY <1>1 DEF Dispatch, r
<1>5. /\ crc \in Byte8 /\ cmd \in Nat /\ type \in Nat /\ state \in States
  BY <1>1, <1>3 DEF States
<1>6. d \in SlaveType
  <2> HIDE DEF crc, cmd, type, state
  <2> QED
    BY <1>1, <1>3, <1>4, <1>5 DEF SlaveType
<1> QED
  BY <1>1, <1>2, <1>4, <1>6 DEF r

(* The slave with another place in an answer.                               *)
At(state, data, cnt, bits) ==
    [state |-> state, rx_data |-> slave.rx_data, tx_data |-> data, tx_cnt |-> cnt,
     bit_cnt |-> bits, crc |-> slave.crc, Cmd |-> slave.Cmd, Type |-> slave.Type]

LEMMA AtIsASlave ==
    ASSUME slave \in SlaveType, NEW state \in States, NEW data \in Seq(Byte8),
           NEW cnt \in Nat, NEW bits \in 0 .. 7
    PROVE  /\ At(state, data, cnt, bits) \in SlaveType
           /\ At(state, data, cnt, bits).state = state
           /\ At(state, data, cnt, bits).tx_data = data
           /\ At(state, data, cnt, bits).tx_cnt = cnt
           /\ At(state, data, cnt, bits).bit_cnt = bits
           /\ At(state, data, cnt, bits).crc = slave.crc
BY DEF At, SlaveType

LEMMA AnswerBitIs ==
    ASSUME slave \in SlaveType, slave.state # "RECEIVE", NEW a, a = AnswerBit(slave)
    PROVE  /\ slave.bit_cnt < 7 =>
                 a = At(slave.state, slave.tx_data, slave.tx_cnt, slave.bit_cnt + 1)
           /\ slave.bit_cnt = 7 /\ slave.state = "RESPOND" =>
                 IF slave.tx_cnt + 1 < Len(slave.tx_data)
                 THEN a = At("RESPOND", slave.tx_data, slave.tx_cnt + 1, 0)
                 ELSE a = At("CRC", <<>>, 0, 0)
           /\ slave.bit_cnt = 7 /\ slave.state = "CRC" =>
                 a = At("RECEIVE", slave.tx_data, slave.tx_cnt, 0)
           /\ slave.bit_cnt < 7 \/ slave.bit_cnt = 7
           /\ slave.state = "RESPOND" \/ slave.state = "CRC"
<1>1. slave.bit_cnt \in 0 .. 7 /\ slave.state \in States
  BY DEF SlaveType
<1>2. slave.bit_cnt < 7 \/ slave.bit_cnt = 7
  BY <1>1
<1>3. slave.bit_cnt < 7 => a = At(slave.state, slave.tx_data, slave.tx_cnt, slave.bit_cnt + 1)
  BY <1>1 DEF AnswerBit, OW_CMD_SIZE, At, SlaveType
<1>4. slave.bit_cnt = 7 => ~(slave.bit_cnt + 1 < 8) /\ slave.bit_cnt + 1 = 8
  OBVIOUS
<1>5. slave.bit_cnt = 7 /\ slave.state = "RESPOND" =>
         IF slave.tx_cnt + 1 < Len(slave.tx_data)
         THEN a = At("RESPOND", slave.tx_data, slave.tx_cnt + 1, 0)
         ELSE a = At("CRC", <<>>, 0, 0)
  BY <1>4 DEF AnswerBit, OW_CMD_SIZE, At, SlaveType
<1>6. slave.bit_cnt = 7 /\ slave.state = "CRC" =>
         a = At("RECEIVE", slave.tx_data, slave.tx_cnt, 0)
  BY <1>4 DEF AnswerBit, OW_CMD_SIZE, At, SlaveType
<1> QED
  BY <1>1, <1>2, <1>3, <1>5, <1>6 DEF States

-----------------------------------------------------------------------------
(* A bit that the slave hears.                                              *)

LEMMA SlaveOKIs ==
    SlaveOK <=> /\ slave \in SlaveType
                /\ got \in Seq(Bit) /\ frame \in Seq(Bit) /\ wire \in Seq(Bit)
BY DEF SlaveOK, SlaveType, Byte8, Bit, OW_CMD_SIZE

LEMMA SlaveOKNext ==
    ASSUME slave' \in SlaveType, got' \in Seq(Bit), frame' \in Seq(Bit), wire' \in Seq(Bit)
    PROVE  SlaveOK'
BY DEF SlaveOK, SlaveType, Byte8, Bit, OW_CMD_SIZE

LEMMA Silent == ResetSlave \in SlaveType /\ ResetSlave.state = "RECEIVE" /\ ResetSlave.tx_cnt = 0
BY DEF ResetSlave, SlaveType, States, Byte8, NONE

LEMMA HeardInReceive ==
    ASSUME SlaveOK, Answering, NEW bit \in Bit, NextBit \in Bit,
           slave.state = "RECEIVE", Hear(bit)
    PROVE  SlaveOK' /\ Answering'
<1> DEFINE r == ReceiveBit(slave, bit)
<1>1. /\ slave \in SlaveType
      /\ got \in Seq(Bit) /\ frame \in Seq(Bit) /\ wire \in Seq(Bit)
      /\ slave.tx_cnt = 0
  BY SlaveOKIs DEF Answering
<1>2. /\ got' = Append(got, NextBit)
      /\ \/ r.bit_cnt < 8 /\ slave' = r /\ UNCHANGED hist
         \/ ~(r.bit_cnt < 8) /\ \E data \in Responses(r) :
               /\ slave' = Dispatch(r, data)
               /\ frame' = IF data = <<>> THEN <<>> ELSE BitsOf(data \o <<Crc(data)>>)
               /\ wire' = <<>>
  BY DEF Hear, OW_CMD_SIZE
<1>3. got' \in Seq(Bit)
  BY <1>1, <1>2
<1>4. CASE r.bit_cnt < 8 /\ slave' = r /\ UNCHANGED hist
  <2>1. /\ r \in [state: States, rx_data: Nat, tx_data: Seq(Byte8), tx_cnt: Nat,
                  bit_cnt: 1 .. 8, crc: Byte8, Cmd: Nat, Type: Nat]
        /\ r.state = "RECEIVE" /\ r.tx_cnt = 0
    BY <1>1, Received
  <2>2. slave' \in SlaveType
    <3>1. slave' = r /\ r.bit_cnt < 8
      BY <1>4
    <3> HIDE DEF r
    <3>2. r.bit_cnt \in 0 .. 7
      BY <2>1, <3>1
    <3> QED
      BY <2>1, <3>1, <3>2 DEF SlaveType
  <2>3. frame' = frame /\ wire' = wire
    BY <1>4 DEF hist
  <2>4. slave'.state = "RECEIVE" /\ slave'.tx_cnt = 0
    BY <1>4, <2>1
  <2>5. SlaveOK'
    BY <1>1, <1>3, <2>2, <2>3, SlaveOKNext
  <2>6. Answering'
    BY <2>4 DEF Answering
  <2> QED
    BY <2>5, <2>6
<1>5. ASSUME NEW data \in Responses(r), slave' = Dispatch(r, data),
             frame' = IF data = <<>> THEN <<>> ELSE BitsOf(data \o <<Crc(data)>>),
             wire' = <<>>
      PROVE  SlaveOK' /\ Answering'
  <2>1. /\ slave' \in SlaveType
        /\ slave'.bit_cnt = 0 /\ slave'.tx_data = data /\ slave'.tx_cnt = 0
        /\ data = <<>> => slave'.state = "RECEIVE"
        /\ data # <<>> => /\ slave'.state = "RESPOND" /\ data \in Answers
                          /\ slave'.crc = Crc(data)
    BY <1>1, <1>5, Dispatched
  <2>2. CASE data = <<>>
    <3>1. frame' = <<>> /\ wire' = <<>> /\ slave'.state = "RECEIVE" /\ slave'.tx_cnt = 0
      BY <1>5, <2>1, <2>2
    <3>2. SlaveOK'
      BY <1>3, <2>1, <3>1, SlaveOKNext
    <3>3. Answering'
      BY <3>1 DEF Answering
    <3> QED
      BY <3>2, <3>3
  <2>3. CASE data # <<>>
    <3>1. /\ frame' = FrameOf(data) /\ slave'.state = "RESPOND" /\ data \in Answers
          /\ slave'.tx_data = data /\ slave'.crc = Crc(data)
      BY <1>5, <2>1, <2>3 DEF FrameOf
    <3>2. frame' \in Seq(Bit)
      BY <3>1, FrameHasBits
    <3>3. SlaveOK'
      BY <1>3, <1>5, <2>1, <3>2, SlaveOKNext
    <3>4. Len(data) = 1 \/ Len(data) = 2
      BY <3>1, AnswersAreBytes
    <3>5. /\ slave'.tx_data \in Answers
          /\ slave'.crc = Crc(slave'.tx_data)
          /\ frame' = FrameOf(slave'.tx_data)
          /\ slave'.tx_cnt < Len(slave'.tx_data)
          /\ Len(wire') = 8 * slave'.tx_cnt + slave'.bit_cnt
      BY <1>5, <2>1, <3>1, <3>4
    <3>6. \A i \in 1 .. Len(wire') : wire'[i] = frame'[i]
      BY <1>5
    <3>7. slave'.state = "RESPOND"
      BY <3>1
    <3>8. Answering'
      BY <3>5, <3>6, <3>7 DEF Answering, FrameOf, OW_CMD_SIZE
    <3> QED
      BY <3>3, <3>8
  <2> QED
    BY <2>2, <2>3
<1> QED
  BY <1>2, <1>4, <1>5

(* The bit that is answered is the next of the frame.                       *)
LEMMA AnsweredIsNext ==
    ASSUME SlaveOK, Answering, slave.state # "RECEIVE"
    PROVE  /\ Len(wire) + 1 \in 1 .. Len(frame)
           /\ AnsweredBit(slave) = frame[Len(wire) + 1]
           /\ AnsweredBit(slave) \in Bit
<1>1. /\ slave \in SlaveType /\ frame \in Seq(Bit) /\ wire \in Seq(Bit)
      /\ slave.bit_cnt \in 0 .. 7 /\ slave.tx_cnt \in Nat
      /\ slave.state = "RESPOND" \/ slave.state = "CRC"
  BY SlaveOKIs DEF SlaveType, States
<1> DEFINE j == slave.bit_cnt
           k == slave.tx_cnt
<1>2. CASE slave.state = "RESPOND"
  <2> DEFINE data == slave.tx_data
  <2>1. /\ data \in Answers /\ frame = FrameOf(data)
        /\ k < Len(data) /\ Len(wire) = 8 * k + j
    BY <1>2 DEF Answering, OW_CMD_SIZE
  <2>2. Len(data) = 1 \/ Len(data) = 2
    BY <2>1, AnswersAreBytes
  <2>3. k \in 0 .. Len(data) - 1
    BY <1>1, <2>1, <2>2
  <2>4. AnsweredBit(slave) = Bits(data[k + 1])[j + 1]
    BY <1>2 DEF AnsweredBit
  <2>5. Len(frame) = 8 * Len(data) + 8 /\ frame[8 * k + j + 1] = Bits(data[k + 1])[j + 1]
    BY <1>1, <2>1, <2>3, FrameHasBits
  <2>6. Len(wire) + 1 \in 1 .. Len(frame)
    <3>1. \A l \in {1, 2}, c \in Nat, b \in 0 .. 7 :
             c < l => (8 * c + b) + 1 \in 1 .. 8 * l + 8
      OBVIOUS
    <3>2. (8 * k + j) + 1 \in 1 .. 8 * Len(data) + 8
      BY <1>1, <2>1, <2>2, <3>1
    <3> QED
      BY <2>1, <2>5, <3>2
  <2>7. AnsweredBit(slave) = frame[Len(wire) + 1]
    BY <2>1, <2>4, <2>5
  <2> QED
    BY <1>1, <2>6, <2>7
<1>3. CASE slave.state = "CRC"
  <2>1. PICK data \in Answers :
            /\ slave.crc = Crc(data) /\ frame = FrameOf(data)
            /\ Len(wire) = 8 * Len(data) + j
    BY <1>3 DEF Answering, OW_CMD_SIZE
  <2>2. Len(data) = 1 \/ Len(data) = 2
    BY AnswersAreBytes
  <2>3. AnsweredBit(slave) = Bits(Crc(data))[j + 1]
    BY <1>3, <2>1 DEF AnsweredBit
  <2>4. Len(frame) = 8 * Len(data) + 8 /\ frame[8 * Len(data) + j + 1] = Bits(Crc(data))[j + 1]
    BY <1>1, <2>1, FrameHasBits
  <2>5. Len(wire) + 1 \in 1 .. Len(frame)
    BY <1>1, <2>1, <2>2, <2>4
  <2>6. AnsweredBit(slave) = frame[Len(wire) + 1]
    BY <2>1, <2>3, <2>4
  <2> QED
    BY <1>1, <2>5, <2>6
<1> QED
  BY <1>1, <1>2, <1>3

LEMMA HeardInAnswer ==
    ASSUME SlaveOK, Answering, NEW bit \in Bit, NextBit \in Bit,
           slave.state # "RECEIVE", Hear(bit)
    PROVE  SlaveOK' /\ Answering'
<1>1. /\ slave \in SlaveType
      /\ got \in Seq(Bit) /\ frame \in Seq(Bit) /\ wire \in Seq(Bit)
      /\ slave.bit_cnt \in 0 .. 7 /\ slave.tx_cnt \in Nat
      /\ slave.state = "RESPOND" \/ slave.state = "CRC"
  BY SlaveOKIs DEF SlaveType, States
<1>2. slave.state \in States /\ slave.tx_data \in Seq(Byte8)
  BY <1>1 DEF SlaveType
<1>3. <<>> \in Seq(Byte8) /\ 0 \in Nat /\ 0 \in 0 .. 7
  OBVIOUS
<1>4. CASE bit = 0
  <2>1. got' = Append(got, NextBit) /\ slave' = ResetSlave /\ frame' = frame /\ wire' = wire
    BY <1>1, <1>4 DEF Hear, hist
  <2>2. got' \in Seq(Bit)
    BY <1>1, <2>1
  <2>3. SlaveOK'
    BY <1>1, <2>1, <2>2, Silent, SlaveOKNext
  <2>4. slave'.state = "RECEIVE" /\ slave'.tx_cnt = 0
    BY <2>1, Silent
  <2> QED
    BY <2>3, <2>4 DEF Answering
<1>5. CASE bit = 1
  <2> DEFINE b == AnsweredBit(slave)
             n == Len(wire)
  <2>1. /\ got' = Append(got, IF NextBit = 1 THEN b ELSE 0)
        /\ wire' = Append(wire, b) /\ slave' = AnswerBit(slave) /\ frame' = frame
    BY <1>1, <1>5 DEF Hear
  <2>2. b \in Bit /\ n + 1 \in 1 .. Len(frame) /\ b = frame[n + 1]
    BY <1>1, AnsweredIsNext
  <2> HIDE DEF b
  <2>3. got' \in Seq(Bit)
    <3>1. (IF NextBit = 1 THEN b ELSE 0) \in Bit
      BY <2>2 DEF Bit
    <3> QED
      BY <1>1, <2>1, <3>1
  <2>4. wire' \in Seq(Bit) /\ Len(wire') = n + 1
    BY <1>1, <2>1, <2>2
  <2>5. \A i \in 1 .. Len(wire') : wire'[i] = frame'[i]
    <3>1. \A i \in 1 .. n : wire[i] = frame[i]
      BY <1>1 DEF Answering
    <3>2. \A i \in 1 .. n : wire'[i] = wire[i]
      BY <1>1, <2>1
    <3>3. wire'[n + 1] = b
      BY <1>1, <2>1
    <3>4. n \in Nat
      BY <1>1
    <3> QED
      BY <2>1, <2>2, <2>4, <3>1, <3>2, <3>3, <3>4
  <2>6. /\ slave.bit_cnt < 7 =>
              slave' = At(slave.state, slave.tx_data, slave.tx_cnt, slave.bit_cnt + 1)
        /\ slave.bit_cnt = 7 /\ slave.state = "RESPOND" =>
              IF slave.tx_cnt + 1 < Len(slave.tx_data)
              THEN slave' = At("RESPOND", slave.tx_data, slave.tx_cnt + 1, 0)
              ELSE slave' = At("CRC", <<>>, 0, 0)
        /\ slave.bit_cnt = 7 /\ slave.state = "CRC" =>
              slave' = At("RECEIVE", slave.tx_data, slave.tx_cnt, 0)
        /\ slave.bit_cnt < 7 \/ slave.bit_cnt = 7
    BY <1>1, <2>1, AnswerBitIs
  <2>7. CASE slave.bit_cnt < 7
    <3>1. /\ slave' = At(slave.state, slave.tx_data, slave.tx_cnt, slave.bit_cnt + 1)
          /\ slave.bit_cnt + 1 \in 0 .. 7
      BY <1>1, <2>6, <2>7
    <3>2. /\ slave' \in SlaveType
          /\ slave'.state = slave.state /\ slave'.tx_cnt = slave.tx_cnt
          /\ slave'.tx_data = slave.tx_data /\ slave'.crc = slave.crc
          /\ slave'.bit_cnt = slave.bit_cnt + 1
      <4> DEFINE s == At(slave.state, slave.tx_data, slave.tx_cnt, slave.bit_cnt + 1)
      <4>1. /\ s \in SlaveType
            /\ s.state = slave.state /\ s.tx_cnt = slave.tx_cnt
            /\ s.tx_data = slave.tx_data /\ s.crc = slave.crc
            /\ s.bit_cnt = slave.bit_cnt + 1
        BY <1>1, <1>2, <3>1 DEF At, SlaveType
      <4> HIDE DEF s
      <4> QED
        BY <3>1, <4>1 DEF s
    <3>3. Len(wire) + 1 = Len(wire') /\ Len(wire) \in Nat
      BY <1>1, <2>4
    <3>4. SlaveOK'
      BY <1>1, <2>1, <2>3, <2>4, <3>2, SlaveOKNext
    <3>5. CASE slave.state = "RESPOND"
      <4>1. /\ slave.tx_data \in Answers
            /\ slave.crc = Crc(slave.tx_data)
            /\ frame = FrameOf(slave.tx_data)
            /\ slave.tx_cnt < Len(slave.tx_data)
            /\ Len(wire) = 8 * slave.tx_cnt + slave.bit_cnt
        BY <3>5 DEF Answering, OW_CMD_SIZE
      <4>2. Len(wire') = 8 * slave'.tx_cnt + slave'.bit_cnt
        <5>1. Len(wire') = (8 * slave.tx_cnt + slave.bit_cnt) + 1
          BY <3>3, <4>1
        <5>2. \A c \in Nat, d \in 0 .. 7 : (8 * c + d) + 1 = 8 * c + (d + 1)
          OBVIOUS
        <5>3. (8 * slave.tx_cnt + slave.bit_cnt) + 1 = 8 * slave.tx_cnt + (slave.bit_cnt + 1)
          BY <1>1, <5>2
        <5> QED
          BY <3>2, <5>1, <5>3
      <4>3. slave'.state = "RESPOND"
        BY <3>2, <3>5
      <4>4. /\ slave'.tx_data \in Answers
            /\ slave'.crc = Crc(slave'.tx_data)
            /\ frame' = FrameOf(slave'.tx_data)
            /\ slave'.tx_cnt < Len(slave'.tx_data)
        BY <2>1, <3>2, <4>1
      <4> QED
        BY <2>5, <3>4, <4>2, <4>3, <4>4 DEF Answering, OW_CMD_SIZE
    <3>6. CASE slave.state = "CRC"
      <4>1. PICK data \in Answers :
                /\ slave.crc = Crc(data) /\ frame = FrameOf(data) /\ slave.tx_cnt = 0
                /\ Len(wire) = 8 * Len(data) + slave.bit_cnt
        BY <3>6 DEF Answering, OW_CMD_SIZE
      <4>2. Len(data) = 1 \/ Len(data) = 2
        BY AnswersAreBytes
      <4>3. Len(wire') = 8 * Len(data) + slave'.bit_cnt
        BY <1>1, <3>2, <3>3, <4>1, <4>2
      <4>4. slave'.state = "CRC"
        BY <3>2, <3>6
      <4>5. slave'.crc = Crc(data) /\ frame' = FrameOf(data) /\ slave'.tx_cnt = 0
        BY <2>1, <3>2, <4>1
      <4> QED
        BY <2>5, <3>4, <4>3, <4>4, <4>5 DEF Answering, OW_CMD_SIZE
    <3> QED
      BY <1>1, <3>5, <3>6
  <2>8. CASE slave.bit_cnt = 7 /\ slave.state = "RESPOND"
    <3> DEFINE data == slave.tx_data
    <3>1. /\ data \in Answers /\ slave.crc = Crc(data) /\ frame = FrameOf(data)
          /\ slave.tx_cnt < Len(data) /\ Len(wire) = 8 * slave.tx_cnt + 7
      BY <2>8 DEF Answering, OW_CMD_SIZE
    <3>2. Len(data) = 1 \/ Len(data) = 2
      BY <3>1, AnswersAreBytes
    <3>3. CASE slave.tx_cnt + 1 < Len(data)
      <4>1. /\ slave' = At("RESPOND", data, slave.tx_cnt + 1, 0)
            /\ slave.tx_cnt + 1 \in Nat
        BY <1>1, <2>6, <2>8, <3>3
      <4>2. /\ slave' \in SlaveType
            /\ slave'.state = "RESPOND" /\ slave'.tx_cnt = slave.tx_cnt + 1
            /\ slave'.tx_data = data /\ slave'.crc = slave.crc /\ slave'.bit_cnt = 0
        <5> DEFINE s == At("RESPOND", data, slave.tx_cnt + 1, 0)
        <5>1. /\ s \in SlaveType
              /\ s.state = "RESPOND" /\ s.tx_cnt = slave.tx_cnt + 1
              /\ s.tx_data = data /\ s.crc = slave.crc /\ s.bit_cnt = 0
          <6>1. "RESPOND" \in States
            BY DEF States
          <6> QED
            BY <1>1, <1>2, <1>3, <4>1, <6>1, AtIsASlave
        <5> QED
          BY <4>1, <5>1, Zenon
      <4>3. SlaveOK'
        BY <1>1, <2>1, <2>3, <2>4, <4>2, SlaveOKNext
      <4>4. Len(wire') = 8 * slave'.tx_cnt + slave'.bit_cnt
        BY <1>1, <2>4, <3>1, <4>2
      <4>5. /\ slave'.tx_data \in Answers
            /\ slave'.crc = Crc(slave'.tx_data)
            /\ frame' = FrameOf(slave'.tx_data)
            /\ slave'.tx_cnt < Len(slave'.tx_data)
        BY <2>1, <3>1, <3>3, <4>2
      <4> QED
        BY <2>5, <4>2, <4>3, <4>4, <4>5 DEF Answering, OW_CMD_SIZE
    <3>4. CASE ~(slave.tx_cnt + 1 < Len(data))
      <4>1. slave' = At("CRC", <<>>, 0, 0)
        BY <2>6, <2>8, <3>4
      <4>2. /\ slave' \in SlaveType
            /\ slave'.state = "CRC" /\ slave'.tx_cnt = 0
            /\ slave'.crc = slave.crc /\ slave'.bit_cnt = 0
        <5> DEFINE s == At("CRC", <<>>, 0, 0)
        <5>1. /\ s \in SlaveType
              /\ s.state = "CRC" /\ s.tx_cnt = 0 /\ s.crc = slave.crc /\ s.bit_cnt = 0
          <6>1. "CRC" \in States
            BY DEF States
          <6> QED
            BY <1>1, <1>3, <6>1 DEF At, SlaveType
        <5> QED
          BY <4>1, <5>1, Zenon
      <4>3. SlaveOK'
        BY <1>1, <2>1, <2>3, <2>4, <4>2, SlaveOKNext
      <4>4. Len(wire') = 8 * Len(data) + slave'.bit_cnt
        <5>1. Len(data) = slave.tx_cnt + 1
          BY <1>1, <3>1, <3>2, <3>4
        <5>2. \A c \in Nat : (8 * c + 7) + 1 = 8 * (c + 1) + 0
          OBVIOUS
        <5>3. (8 * slave.tx_cnt + 7) + 1 = 8 * Len(data) + 0
          BY <1>1, <5>1, <5>2
        <5> QED
          BY <2>4, <3>1, <4>2, <5>3
      <4>5. slave'.crc = Crc(data) /\ frame' = FrameOf(data)
        BY <2>1, <3>1, <4>2
      <4> QED
        BY <2>5, <3>1, <4>2, <4>3, <4>4, <4>5 DEF Answering, OW_CMD_SIZE
    <3> QED
      BY <3>3, <3>4
  <2>9. CASE slave.bit_cnt = 7 /\ slave.state = "CRC"
    <3>1. slave' = At("RECEIVE", slave.tx_data, slave.tx_cnt, 0)
      BY <2>6, <2>9
    <3>2. slave' \in SlaveType /\ slave'.state = "RECEIVE" /\ slave'.tx_cnt = slave.tx_cnt
      BY <1>1, <1>2, <1>3, <3>1, AtIsASlave DEF States
    <3>3. SlaveOK'
      BY <1>1, <2>1, <2>3, <2>4, <3>2, SlaveOKNext
    <3>4. slave.tx_cnt = 0
      BY <2>9 DEF Answering
    <3> QED
      BY <3>2, <3>3, <3>4 DEF Answering
  <2> QED
    BY <1>1, <2>6, <2>7, <2>8, <2>9
<1> QED
  BY <1>4, <1>5 DEF Bit

LEMMA Heard ==
    ASSUME SlaveOK, Answering, CallOK, InSlots, NEW bit \in Bit, Hear(bit)
    PROVE  SlaveOK' /\ Answering'
<1>1. NextBit \in Bit
  BY NextBitIs
<1> QED
  BY <1>1, HeardInReceive, HeardInAnswer

LEMMA HeardLength ==
    ASSUME SlaveOK, CallOK, InSlots, NEW bit \in Bit, Hear(bit)
    PROVE  Len(got') = Len(got) + 1 /\ Len(got) + 1 <= 8 * Len(Bytes)
<1>1. \E b : got' = Append(got, b)
  BY DEF Hear
<1>2. got \in Seq(Bit)
  BY SlaveOKIs
<1> QED
  BY <1>1, <1>2, NextBitIs

-----------------------------------------------------------------------------
(* The command in the slave, in an attempt without a fault.                 *)

(* The first byte of an attempt is 0 or 1: its first bit is all of it.      *)
LEMMA CommandShiftedIn ==
    ASSUME NEW cmd \in Bit, NEW n \in 0 .. 7
    PROVE  ShiftIn(IF n = 0 THEN 0 ELSE cmd, Bits(cmd)[n + 1], n) = cmd
<1>1. cmd \in Nat /\ (cmd = 0 \/ cmd = 1)
  BY DEF Bit
<1>2. CASE n = 0
  <2>1. Bits(cmd)[1] = cmd
    BY <1>1, BitsAreBits
  <2>2. Power[0 + 1] = 1
    BY DEF Power
  <2>3. (0 \div 1) % 2 = 0
    OBVIOUS
  <2> QED
    BY <1>1, <1>2, <2>1, <2>2, <2>3 DEF ShiftIn
<1>3. CASE n # 0
  <2>1. n + 1 \in 2 .. 8
    BY <1>3
  <2>2. Bits(cmd)[n + 1] = 0
    BY <1>1, <2>1, BitsAreBits
  <2> QED
    BY <1>3, <2>2 DEF ShiftIn
<1> QED
  BY <1>2, <1>3

LEMMA CountingOfSlot ==
    ASSUME SlaveOK, CallOK, Answering, Counting, InSlots, faults = 0,
           Hear(NextBit), UNCHANGED <<call, pc, retries, result, faults>>
    PROVE  Counting'
<1> DEFINE n == Len(got)
<1>1. /\ slave \in SlaveType
      /\ got \in Seq(Bit) /\ n \in Nat
      /\ slave.bit_cnt \in 0 .. 7 /\ slave.rx_data \in Nat
  BY SlaveOKIs DEF SlaveType
<1>2. /\ NextBit \in Bit
      /\ n < 8 => NextBit = Bits(call.cmd)[n + 1]
      /\ n >= 16 => NextBit = 1
  BY NextBitIs
<1>3. Len(got') = n + 1
  BY <1>2, HeardLength
<1>4. /\ slave.bit_cnt = n % 8
      /\ n = 0 => slave.rx_data = 0
      /\ n \in 1 .. 7 => slave.rx_data = call.cmd
      /\ n < 8 => slave.Cmd = NONE /\ slave.Type = NONE
      /\ n >= 8 => slave.Cmd = call.cmd
      /\ slave.Type # NONE => n >= 16
      /\ slave.state # "RECEIVE" => n >= 24
  BY DEF Counting, InSlots, OW_CMD_SIZE
<1>5. call.cmd \in Bit /\ call.cmd # NONE /\ call' = call
  BY DEF CallOK, READ_STATUS, READ_SENSOR, NONE, Bit
<1> HIDE DEF n
<1>6. CASE slave.state = "RECEIVE"
  <2> DEFINE r == ReceiveBit(slave, NextBit)
  <2>1. /\ r.rx_data = ShiftIn(slave.rx_data, NextBit, slave.bit_cnt)
        /\ r.bit_cnt = slave.bit_cnt + 1 /\ r.state = slave.state
        /\ r.Cmd = slave.Cmd /\ r.Type = slave.Type
    BY <1>1, <1>2, Received
  <2>2. n < 8 => r.rx_data = call.cmd
    <3> SUFFICES ASSUME n < 8 PROVE r.rx_data = call.cmd
      OBVIOUS
    <3>1. slave.bit_cnt = n /\ n \in 0 .. 7
      BY <1>1, <1>4
    <3>2. slave.rx_data = IF n = 0 THEN 0 ELSE call.cmd
      BY <1>1, <1>4
    <3>3. ShiftIn(IF n = 0 THEN 0 ELSE call.cmd, Bits(call.cmd)[n + 1], n) = call.cmd
      BY <1>5, <3>1, CommandShiftedIn
    <3> QED
      BY <1>2, <2>1, <3>1, <3>2, <3>3
  <2>3. CASE r.bit_cnt < 8 /\ slave' = r
    <3>1. (n + 1) % 8 = (n % 8) + 1 /\ n + 1 # 8 /\ n + 1 # 16 /\ n + 1 # 24
      BY <1>1, <1>4, <2>1, <2>3
    <3>2. slave'.bit_cnt = (n + 1) % 8
      BY <1>4, <2>1, <2>3, <3>1
    <3>3. n + 1 < 8 => slave'.rx_data = call.cmd /\ slave'.Cmd = NONE /\ slave'.Type = NONE
      BY <1>1, <1>4, <2>1, <2>2, <2>3
    <3>4. n + 1 >= 8 => slave'.Cmd = call.cmd
      BY <1>1, <1>4, <2>1, <2>3, <3>1
    <3>5. slave'.Type # NONE => n + 1 >= 16
      BY <1>1, <1>4, <2>1, <2>3
    <3>6. slave'.state = "RECEIVE"
      BY <1>6, <2>1, <2>3
    <3>7. n + 1 # 0 /\ (n + 1 \in 1 .. 7 => n + 1 < 8)
      BY <1>1
    <3> QED
      BY <1>3, <1>5, <3>2, <3>3, <3>4, <3>5, <3>6, <3>7 DEF Counting, OW_CMD_SIZE
  <2>4. ASSUME ~(r.bit_cnt < 8), NEW data \in Responses(r), slave' = Dispatch(r, data)
        PROVE  Counting'
    <3>1. /\ slave'.bit_cnt = 0
          /\ data = <<>> => slave'.state = "RECEIVE"
          /\ data # <<>> => slave.Type # NONE
          /\ slave.Cmd = NONE => slave'.Type = slave.Type /\ slave'.Cmd = r.rx_data
          /\ slave.Cmd # NONE => slave'.Cmd = slave.Cmd
      BY <1>1, <1>2, <1>6, <2>4, Dispatched
    <3>2. n % 8 = 7
      BY <1>1, <1>4, <2>1, <2>4
    <3>3. (n + 1) % 8 = 0 /\ n + 1 >= 8
      BY <1>1, <3>2
    <3>4. slave'.Cmd = call.cmd
      <4>1. CASE n < 8
        BY <1>4, <2>2, <3>1, <4>1
      <4>2. CASE ~(n < 8)
        BY <1>1, <1>4, <1>5, <3>1, <4>2
      <4> QED
        BY <4>1, <4>2
    <3>5. slave'.Type # NONE => n + 1 >= 16
      <4>1. CASE n < 8
        BY <1>4, <3>1, <4>1
      <4>2. CASE ~(n < 8)
        BY <1>1, <3>2, <4>2
      <4> QED
        BY <4>1, <4>2
    <3>6. slave'.state # "RECEIVE" => n + 1 >= 24
      <4>1. slave'.state # "RECEIVE" => n >= 16
        BY <1>4, <3>1
      <4>2. n >= 16 => n + 1 >= 24
        BY <1>1, <3>2
      <4> QED
        BY <4>1, <4>2
    <3>7. n + 1 # 0 /\ ~(n + 1 \in 1 .. 7) /\ ~(n + 1 < 8)
      BY <1>1, <3>3
    <3> QED
      BY <1>3, <1>5, <3>1, <3>3, <3>4, <3>5, <3>6, <3>7 DEF Counting, OW_CMD_SIZE
  <2>5. \/ r.bit_cnt < 8 /\ slave' = r
        \/ ~(r.bit_cnt < 8) /\ \E data \in Responses(r) : slave' = Dispatch(r, data)
    BY <1>6 DEF Hear, OW_CMD_SIZE
  <2> QED
    BY <2>3, <2>4, <2>5
<1>7. CASE slave.state # "RECEIVE"
  <2>1. n >= 24 /\ NextBit = 1
    BY <1>1, <1>2, <1>4, <1>7
  <2>2. slave' = AnswerBit(slave)
    BY <1>7, <2>1 DEF Hear
  <2>3. slave.state \in States /\ slave.tx_data \in Seq(Byte8) /\ slave.tx_cnt \in Nat
    BY <1>1 DEF SlaveType
  <2>4. slave'.Cmd = slave.Cmd
    BY <1>1, <1>7, <2>2, AnswerBitIs DEF At
  <2>5. slave'.bit_cnt = IF slave.bit_cnt < 7 THEN slave.bit_cnt + 1 ELSE 0
    BY <1>1, <1>7, <2>2, AnswerBitIs DEF At
  <2>6. slave'.bit_cnt = (n + 1) % 8
    <3>1. CASE slave.bit_cnt < 7
      BY <1>1, <1>4, <2>5, <3>1
    <3>2. CASE ~(slave.bit_cnt < 7)
      <4>1. n % 8 = 7
        BY <1>1, <1>4, <3>2
      <4>2. (n + 1) % 8 = 0
        BY <1>1, <4>1
      <4> QED
        BY <2>5, <3>2, <4>2
    <3> QED
      BY <3>1, <3>2
  <2>7. slave'.Cmd = call.cmd
    BY <1>1, <1>4, <2>1, <2>4
  <2>8. n + 1 >= 24 /\ n + 1 >= 16 /\ n + 1 >= 8 /\ n + 1 # 0
        /\ ~(n + 1 \in 1 .. 7) /\ ~(n + 1 < 8)
    BY <1>1, <2>1
  <2> QED
    BY <1>3, <1>5, <2>6, <2>7, <2>8 DEF Counting, OW_CMD_SIZE
<1> QED
  BY <1>6, <1>7

-----------------------------------------------------------------------------
(* The invariant is inductive.                                              *)

LEMMA InvariantHoldsAtFirst == Init => IInv
<1> SUFFICES ASSUME Init PROVE IInv
  OBVIOUS
<1>1. slave = ResetSlave /\ got = <<>> /\ frame = <<>> /\ wire = <<>>
  BY DEF Init
<1>2. SlaveOK
  BY <1>1, Silent, SlaveOKIs
<1>3. Answering
  BY <1>1, Silent DEF Answering
<1>4. CallOK
  BY DEF Init, CallOK
<1>5. Counting
  BY DEF Init, Counting
<1> QED
  BY <1>2, <1>3, <1>4, <1>5 DEF IInv

(* Between two attempts only the call, its result and its retries change.   *)
LEMMA BetweenAttempts ==
    ASSUME IInv, UNCHANGED <<got, slave, faults, hist>>, pc' \in {"idle", "reset"},
           call' \in [cmd: {READ_STATUS, READ_SENSOR}, type: Types \cup {NONE}, len: 1 .. 2]
    PROVE  IInv'
<1>1. got' = got /\ slave' = slave /\ faults' = faults /\ frame' = frame /\ wire' = wire
  BY DEF hist
<1>2. SlaveOK'
  BY <1>1 DEF IInv, SlaveOK
<1>3. Answering'
  BY <1>1 DEF IInv, Answering
<1>4. CallOK'
  BY <1>1 DEF IInv, CallOK
<1>5. Counting'
  BY DEF Counting
<1> QED
  BY <1>2, <1>3, <1>4, <1>5 DEF IInv

LEMMA AttemptEnds ==
    ASSUME IInv, Retry, UNCHANGED <<call, got, slave, faults, hist>>
    PROVE  IInv'
<1>1. pc' \in {"idle", "reset"}
  BY DEF Retry
<1>2. call' \in [cmd: {READ_STATUS, READ_SENSOR}, type: Types \cup {NONE}, len: 1 .. 2]
  BY DEF IInv, CallOK
<1> QED
  BY <1>1, <1>2, BetweenAttempts

(* The length that is read is bounded in a slot.                            *)
LEMMA CallOKInSlot ==
    ASSUME CallOK, UNCHANGED <<call, pc>>, faults' \in Nat,
           Len(got') = Len(got) + 1, Len(got) + 1 <= 8 * Len(Bytes)
    PROVE  CallOK'
<1>1. Bytes' = Bytes
  BY DEF Bytes, Command
<1> QED
  BY <1>1 DEF CallOK, OW_CMD_SIZE

LEMMA InvariantIsKept == IInv /\ [Next]_vars => IInv'
<1> SUFFICES ASSUME IInv, [Next]_vars PROVE IInv'
  OBVIOUS
<1>1. SlaveOK /\ CallOK /\ Answering /\ Counting
  BY DEF IInv
<1>2. CASE GardenSensorStatusRead
  <2>1. call' = [cmd |-> READ_STATUS, type |-> NONE, len |-> 1] /\ pc' = "reset"
        /\ UNCHANGED <<got, slave, faults, hist>>
    BY <1>2 DEF GardenSensorStatusRead, Start
  <2> QED
    BY <2>1, BetweenAttempts
<1>3. ASSUME NEW type \in Types, SensorReadValue(type) PROVE IInv'
  <2>1. call' = [cmd |-> READ_SENSOR, type |-> type, len |-> 2] /\ pc' = "reset"
        /\ UNCHANGED <<got, slave, faults, hist>>
    BY <1>3 DEF SensorReadValue, Start
  <2> QED
    BY <2>1, BetweenAttempts
<1>4. CASE Reset
  <2>1. /\ slave' = ResetSlave /\ got' = <<>> /\ frame' = <<>> /\ wire' = <<>>
        /\ pc' = "slots" /\ faults' = 0 /\ call' = call
    BY <1>4 DEF Reset
  <2>2. SlaveOK'
    BY <2>1, Silent, SlaveOKNext
  <2>3. Answering'
    BY <2>1, Silent DEF Answering
  <2>4. CallOK'
    <3>1. Bytes' = Bytes
      BY <2>1 DEF Bytes, Command
    <3>2. Len(Bytes) \in Nat
      BY <1>1, BytesSent
    <3> QED
      BY <1>1, <2>1, <3>1, <3>2 DEF CallOK, OW_CMD_SIZE
  <2>5. Counting'
    BY <2>1 DEF Counting, ResetSlave, OW_CMD_SIZE
  <2> QED
    BY <2>2, <2>3, <2>4, <2>5 DEF IInv
<1>5. CASE ResetUnanswered
  BY <1>5, AttemptEnds DEF ResetUnanswered
<1>6. CASE Slot
  <2>1. /\ InSlots /\ Hear(NextBit)
        /\ UNCHANGED <<call, pc, retries, result, faults>>
    BY <1>6 DEF Slot
  <2>2. NextBit \in Bit
    BY <1>1, <2>1, NextBitIs
  <2>3. SlaveOK' /\ Answering'
    BY <1>1, <2>1, <2>2, Heard
  <2>4. CallOK'
    BY <1>1, <2>1, <2>2, HeardLength, CallOKInSlot DEF CallOK
  <2>5. Counting'
    <3>1. CASE faults = 0
      BY <1>1, <2>1, <3>1, CountingOfSlot
    <3>2. CASE faults # 0
      BY <2>1, <3>2 DEF Counting
    <3> QED
      BY <3>1, <3>2
  <2> QED
    BY <2>3, <2>4, <2>5 DEF IInv
<1>7. CASE SlotMissed
  <2>1. PICK bit \in {0, NextBit} :
           /\ InSlots /\ faults' = faults + 1 /\ got' = Append(got, bit)
           /\ UNCHANGED <<call, pc, retries, result, slave, hist>>
    BY <1>7 DEF SlotMissed
  <2>2. bit \in Bit /\ Len(got) + 1 <= 8 * Len(Bytes)
    BY <1>1, <2>1, NextBitIs DEF Bit
  <2>3. slave \in SlaveType /\ got \in Seq(Bit) /\ frame \in Seq(Bit) /\ wire \in Seq(Bit)
    BY <1>1, SlaveOKIs
  <2>4. got' \in Seq(Bit) /\ Len(got') = Len(got) + 1
    BY <2>1, <2>2, <2>3
  <2>5. slave' = slave /\ frame' = frame /\ wire' = wire
    BY <2>1 DEF hist
  <2>6. SlaveOK'
    BY <2>3, <2>4, <2>5, SlaveOKNext
  <2>7. Answering'
    BY <1>1, <2>5 DEF Answering
  <2>8. faults \in Nat /\ faults' \in Nat /\ faults' # 0
    BY <1>1, <2>1 DEF CallOK
  <2>9. CallOK'
    BY <1>1, <2>1, <2>2, <2>4, <2>8, CallOKInSlot
  <2>10. Counting'
    BY <2>8 DEF Counting
  <2> QED
    BY <2>6, <2>7, <2>9, <2>10 DEF IInv
<1>8. CASE SlotMisread
  <2>1. /\ InSlots /\ faults' = faults + 1 /\ Hear(1 - NextBit)
        /\ UNCHANGED <<call, pc, retries, result>>
    BY <1>8 DEF SlotMisread
  <2>2. 1 - NextBit \in Bit
    BY <1>1, <2>1, NextBitIs DEF Bit
  <2>3. SlaveOK' /\ Answering'
    BY <1>1, <2>1, <2>2, Heard
  <2>4. faults \in Nat /\ faults' \in Nat /\ faults' # 0
    BY <1>1, <2>1 DEF CallOK
  <2>5. CallOK'
    BY <1>1, <2>1, <2>2, <2>4, HeardLength, CallOKInSlot
  <2>6. Counting'
    BY <2>4 DEF Counting
  <2> QED
    BY <2>3, <2>5, <2>6 DEF IInv
<1>9. CASE Verify
  <2>1. UNCHANGED <<call, got, slave, faults, hist>> /\ (pc' = "idle" \/ Retry)
    BY <1>9 DEF Verify
  <2>2. call' \in [cmd: {READ_STATUS, READ_SENSOR}, type: Types \cup {NONE}, len: 1 .. 2]
    BY <1>1, <2>1 DEF CallOK
  <2> QED
    BY <2>1, <2>2, BetweenAttempts, AttemptEnds
<1>10. CASE SlotTakenForReset
  <2>1. /\ InSlots /\ faults' = faults + 1 /\ got' = Append(got, 0) /\ slave' = ResetSlave
        /\ UNCHANGED <<call, pc, retries, result, hist>>
    BY <1>10 DEF SlotTakenForReset
  <2>2. Len(got) + 1 <= 8 * Len(Bytes)
    BY <1>1, <2>1, NextBitIs
  <2>3. got \in Seq(Bit) /\ frame \in Seq(Bit) /\ wire \in Seq(Bit) /\ 0 \in Bit
    BY <1>1, SlaveOKIs DEF Bit
  <2>4. got' \in Seq(Bit) /\ Len(got') = Len(got) + 1
    BY <2>1, <2>3
  <2>5. frame' = frame /\ wire' = wire
    BY <2>1 DEF hist
  <2>6. SlaveOK'
    BY <2>1, <2>3, <2>4, <2>5, Silent, SlaveOKNext
  <2>7. Answering'
    BY <2>1, Silent DEF Answering
  <2>8. faults \in Nat /\ faults' \in Nat /\ faults' # 0
    BY <1>1, <2>1 DEF CallOK
  <2>9. CallOK'
    BY <1>1, <2>1, <2>2, <2>4, <2>8, CallOKInSlot
  <2>10. Counting'
    BY <2>8 DEF Counting
  <2> QED
    BY <2>6, <2>7, <2>9, <2>10 DEF IInv
<1>11. CASE UNCHANGED vars
  <2>1. /\ call' = call /\ pc' = pc /\ got' = got /\ slave' = slave
        /\ faults' = faults /\ frame' = frame /\ wire' = wire
    BY <1>11 DEF vars, masterVars, hist
  <2>2. Bytes' = Bytes
    BY <2>1 DEF Bytes, Command
  <2>3. SlaveOK'
    BY <1>1, <2>1 DEF SlaveOK
  <2>4. Answering'
    BY <1>1, <2>1 DEF Answering
  <2>5. CallOK'
    BY <1>1, <2>1, <2>2 DEF CallOK
  <2>6. Counting'
    BY <1>1, <2>1 DEF Counting
  <2> QED
    BY <2>3, <2>4, <2>5, <2>6 DEF IInv
<1> QED
  BY <1>2, <1>3, <1>4, <1>5, <1>6, <1>7, <1>8, <1>9, <1>10, <1>11
  DEF Next, MasterStep

LEMMA InvariantIsInvariant == Spec => []IInv
<1>1. Init => IInv
  BY InvariantHoldsAtFirst
<1>2. IInv /\ [Next]_vars => IInv'
  BY InvariantIsKept
<1> QED
  BY <1>1, <1>2, PTL DEF Spec

-----------------------------------------------------------------------------
(* The theorems.                                                            *)

(* Whatever the slave has missed or misread, what it has answered is the    *)
(* first part of its data and their CRC, and its place in its buffer is     *)
(* that of the next bit (ow_cmd_slave.c, states RESPOND and CRC).           *)
THEOREM AnswersStayFramed == Spec => []AnswersAreFramed
<1>1. ASSUME IInv PROVE AnswersAreFramed
  <2>1. SlaveOK /\ Answering
    BY <1>1 DEF IInv
  <2>2. frame \in Seq(Bit) /\ wire \in Seq(Bit) /\ slave.bit_cnt \in 0 .. 7
    BY <2>1, SlaveOKIs DEF SlaveType
  <2>3. slave.state = "RESPOND" =>
            /\ slave.tx_cnt < Len(slave.tx_data)
            /\ Len(wire) = OW_CMD_SIZE * slave.tx_cnt + slave.bit_cnt
    BY <2>1 DEF Answering
  <2>4. ASSUME slave.state = "CRC"
        PROVE  Len(wire) = Len(frame) - OW_CMD_SIZE + slave.bit_cnt
    <3>1. PICK data \in Answers :
              frame = FrameOf(data) /\ Len(wire) = 8 * Len(data) + slave.bit_cnt
      BY <2>1, <2>4 DEF Answering, OW_CMD_SIZE
    <3>2. Len(data) = 1 \/ Len(data) = 2
      BY AnswersAreBytes
    <3>3. Len(frame) = 8 * Len(data) + 8
      BY <3>1, FrameHasBits
    <3> QED
      BY <2>2, <3>1, <3>2, <3>3 DEF OW_CMD_SIZE
  <2>5. ASSUME slave.state # "RECEIVE" PROVE IsPrefix(wire, frame)
    <3>1. Len(wire) <= Len(frame)
      BY <2>1, <2>2, <2>5, AnsweredIsNext
    <3>2. \A i \in 1 .. Len(wire) : wire[i] = frame[i]
      BY <2>1, <2>5 DEF Answering
    <3>3. SubSeq(frame, 1, Len(wire)) = wire
      BY <2>2, <3>1, <3>2
    <3> QED
      BY <2>2, <3>1, <3>3 DEF IsPrefix
  <2> QED
    BY <2>3, <2>4, <2>5 DEF AnswersAreFramed
<1> QED
  BY <1>1, InvariantIsInvariant, PTL

(* In an attempt without a fault master and slave are at the same bit of a  *)
(* byte and the slave has taken the command, for attempts and calls in any  *)
(* number before (ow_cmd_slave.c, the reset).                               *)
THEOREM StaysInStep == Spec => []InStep
<1>1. IInv => InStep
  BY DEF IInv, Counting, InStep
<1> QED
  BY <1>1, InvariantIsInvariant, PTL

=============================================================================
