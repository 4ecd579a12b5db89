---------------------------- MODULE Frames ----------------------------
(***************************************************************************)
(* The LuxPower wire format: the packets the program builds and the parser *)
(* that finds frames in a stream (collector/protocol.py).  A byte string   *)
(* is a sequence of numbers below 256.  Offsets are the source's, counted  *)
(* from 0.                                                                 *)
(***************************************************************************)
EXTENDS Integers, Sequences, SequencesExt

PREFIX == <<161, 26>>
HEADER_SIZE == 18
TCP_FUNC_HEARTBEAT == 193
TCP_FUNC_TRANSLATED_DATA == 194
MODBUS_READ_HOLD == 3
MODBUS_READ_INPUT == 4
MODBUS_WRITE_SINGLE == 6
MODBUS_WRITE_MULTI == 16

Byte == 0..255
Word == 0..65535

At(data, i) == data[i + 1]

(* data[from:to] *)
Slice(data, from, to) ==
    SubSeq(data, from + 1, IF to < Len(data) THEN to ELSE Len(data))

(* struct.pack and struct.unpack_from of '<H'. *)
U16(n) == <<n % 256, n \div 256>>
U16At(data, i) == At(data, i) + 256 * At(data, i + 1)

(* The values of several registers, two bytes each. *)
Words(values) ==
    [i \in 1..2 * Len(values) |->
        IF i % 2 = 1 THEN values[(i + 1) \div 2] % 256 ELSE values[i \div 2] \div 256]

----------------------------------------------------------------------------
(* CRC-16/MODBUS, by table as the dongle's side of the program computes it *)
(* and bit by bit as its RS-485 side does (rs485/eg4_bms.py).              *)

(* Exclusive or of two numbers below 2^16. *)
Xor(a, b) ==
    LET bits[k \in 0..16] ==
          IF k = 16 THEN 0
          ELSE ((a \div 2^k + b \div 2^k) % 2) + 2 * bits[k + 1]
    IN  bits[0]

CRC16_TABLE ==
    <<    0, 49345, 49537,   320, 49921,   960,   640, 49729, 50689,  1728,  1920, 51009,
       1280, 50625, 50305,  1088, 52225,  3264,  3456, 52545,  3840, 53185, 52865,  3648,
       2560, 51905, 52097,  2880, 51457,  2496,  2176, 51265, 55297,  6336,  6528, 55617,
       6912, 56257, 55937,  6720,  7680, 57025, 57217,  8000, 56577,  7616,  7296, 56385,
       5120, 54465, 54657,  5440, 55041,  6080,  5760, 54849, 53761,  4800,  4992, 54081,
       4352, 53697, 53377,  4160, 61441, 12480, 12672, 61761, 13056, 62401, 62081, 12864,
      13824, 63169, 63361, 14144, 62721, 13760, 13440, 62529, 15360, 64705, 64897, 15680,
      65281, 16320, 16000, 65089, 64001, 15040, 15232, 64321, 14592, 63937, 63617, 14400,
      10240, 59585, 59777, 10560, 60161, 11200, 10880, 59969, 60929, 11968, 12160, 61249,
      11520, 60865, 60545, 11328, 58369,  9408,  9600, 58689,  9984, 59329, 59009,  9792,
       8704, 58049, 58241,  9024, 57601,  8640,  8320, 57409, 40961, 24768, 24960, 41281,
      25344, 41921, 41601, 25152, 26112, 42689, 42881, 26432, 42241, 26048, 25728, 42049,
      27648, 44225, 44417, 27968, 44801, 28608, 28288, 44609, 43521, 27328, 27520, 43841,
      26880, 43457, 43137, 26688, 30720, 47297, 47489, 31040, 47873, 31680, 31360, 47681,
      48641, 32448, 32640, 48961, 32000, 48577, 48257, 31808, 46081, 29888, 30080, 46401,
      30464, 47041, 46721, 30272, 29184, 45761, 45953, 29504, 45313, 29120, 28800, 45121,
      20480, 37057, 37249, 20800, 37633, 21440, 21120, 37441, 38401, 22208, 22400, 38721,
      21760, 38337, 38017, 21568, 39937, 23744, 23936, 40257, 24320, 40897, 40577, 24128,
      23040, 39617, 39809, 23360, 39169, 22976, 22656, 38977, 34817, 18624, 18816, 35137,
      19200, 35777, 35457, 19008, 19968, 36545, 36737, 20288, 36097, 19904, 19584, 35905,
      17408, 33985, 34177, 17728, 34561, 18368, 18048, 34369, 33281, 17088, 17280, 33601,
      16640, 33217, 32897, 16448>>

crc16_modbus(data) ==
    LET crc[i \in 0..Len(data)] ==
          IF i = 0 THEN 65535
          ELSE LET c == crc[i - 1]
               IN  Xor(c \div 256, CRC16_TABLE[(Xor(c, data[i]) % 256) + 1])
    IN  crc[Len(data)]

(* Eight steps of the shift register. *)
Shifted(byte) ==
    LET crc[k \in 0..8] ==
          IF k = 0 THEN byte
          ELSE LET c == crc[k - 1]
               IN  IF c % 2 = 1 THEN Xor(c \div 2, 40961) ELSE c \div 2
    IN  crc[8]

crc16_bitwise(data) ==
    LET crc[i \in 0..Len(data)] ==
          IF i = 0 THEN 65535
          ELSE LET c == Xor(crc[i - 1], data[i])
               IN  IF c = 0 THEN 0 ELSE Shifted(c)
    IN  crc[Len(data)]

----------------------------------------------------------------------------
(* Building packets. *)

SerialBytes(s) == SubSeq(s \o [i \in 1..10 |-> 32], 1, 10)

Header(protocol, frame_length, function, datalog) ==
    PREFIX \o U16(protocol) \o U16(frame_length) \o <<1, function>> \o SerialBytes(datalog)

Sealed(frame) == frame \o U16(crc16_modbus(frame))

(* The head that reads and writes share: address 0, function, serial of    *)
(* the inverter, register.                                                 *)
DataHead(function, inverter, register) ==
    <<0, function>> \o SerialBytes(inverter) \o U16(register)

ReadRequest(datalog, inverter, function, register, count) ==
    Header(1, 32, TCP_FUNC_TRANSLATED_DATA, datalog) \o U16(18)
      \o Sealed(DataHead(function, inverter, register) \o U16(count))

WriteRequest(datalog, inverter, register, value) ==
    Header(1, 32, TCP_FUNC_TRANSLATED_DATA, datalog) \o U16(18)
      \o Sealed(DataHead(MODBUS_WRITE_SINGLE, inverter, register) \o U16(value))


WriteMultiRequest(datalog, inverter, register, values) ==
    LET n == Len(values)
        data_len == 1 + 1 + 10 + 2 + 2 + 1 + 2 * n + 2
    IN  Header(1, 18 + 2 + data_len - 6, TCP_FUNC_TRANSLATED_DATA, datalog) \o U16(data_len)
          \o Sealed(DataHead(MODBUS_WRITE_MULTI, inverter, register) \o U16(n) \o <<2 * n>>
                      \o Words(values))

HeartbeatPacket(datalog) == Header(2, 13, TCP_FUNC_HEARTBEAT, datalog) \o <<0>>

----------------------------------------------------------------------------
(* Parsing.  The checksum of a received frame is not looked at. *)

NoFrame == [raw |-> << >>]

BareOffByOne(data) ==
    [protocol |-> U16At(data, 2), tcp_function |-> At(data, 6), raw |-> data,
     datalog_serial |-> Slice(data, 8, 18), inverter_serial |-> << >>,
     address |-> 0, device_function |-> 0, register |-> 0, values |-> << >>,
     write_count |-> 0, is_error |-> FALSE, error_code |-> 0]

Bare(data) ==
    [protocol |-> U16At(data, 2), tcp_function |-> At(data, 7), raw |-> data,
     datalog_serial |-> Slice(data, 8, 18), inverter_serial |-> << >>,
     address |-> 0, device_function |-> 0, register |-> 0, values |-> << >>,
     write_count |-> 0, is_error |-> FALSE, error_code |-> 0]

IsRead(function) == function \in {MODBUS_READ_HOLD, MODBUS_READ_INPUT}

(* A read answer carries a length byte and that many bytes of values, as   *)
(* far as they fit before the checksum; a write of one register its value. *)
ParsedValues(data, function) ==
    LET fit == (Len(data) - 37) \div 2
        claimed == At(data, 34) \div 2
        n == IF claimed < fit THEN claimed ELSE fit
    IN  IF IsRead(function) /\ Len(data) > 34
        THEN [i \in 1..n |-> U16At(data, 33 + 2 * i)]
        ELSE IF function = MODBUS_WRITE_SINGLE /\ Len(data) >= 38
        THEN <<U16At(data, 34)>>
        ELSE << >>

ParseDataFrame(data, frame) ==
    LET function == At(data, 21)
        known == [frame EXCEPT !.address = At(data, 20), !.device_function = function]
    IN  IF Len(data) < 22 THEN frame
        ELSE IF function >= 128
        THEN [known EXCEPT !.is_error = TRUE,
                           !.error_code = IF Len(data) > 22 THEN At(data, 22) ELSE 0]
        ELSE [known EXCEPT
                !.inverter_serial = IF Len(data) >= 32 THEN Slice(data, 22, 32) ELSE << >>,
                !.register = IF Len(data) >= 34 THEN U16At(data, 32) ELSE 0,
                !.values = ParsedValues(data, function),
                !.write_count = IF function = MODBUS_WRITE_MULTI /\ Len(data) >= 38
                                THEN U16At(data, 34) ELSE 0]

ParseFrame(data) ==
    IF Len(data) < HEADER_SIZE \/ Slice(data, 0, 2) # PREFIX THEN NoFrame
    ELSE IF At(data, 7) = TCP_FUNC_TRANSLATED_DATA /\ Len(data) >= 20
    THEN ParseDataFrame(data, Bare(data))
    ELSE Bare(data)

(* All complete frames of a buffer.  Where a frame is not complete yet the *)
(* scan goes on one byte further, inside it.                               *)
FindFrames(data) ==
    LET complete(i) == /\ Slice(data, i, i + 2) = PREFIX
                       /\ i + 6 <= Len(data)
                       /\ i + 6 + U16At(data, i + 4) <= Len(data)
        scan[i \in 0..Len(data)] ==
            IF i >= Len(data) - 1 THEN << >>
            ELSE IF ~complete(i) THEN scan[i + 1]
            ELSE LET end == i + 6 + U16At(data, i + 4)
                     frame == ParseFrame(Slice(data, i, end))
                 IN  (IF frame = NoFrame THEN << >> ELSE <<frame>>) \o scan[end]
    IN  scan[0]

(* bytes.find: the first offset from start on at which part stands in data,*)
(* or -1.                                                                  *)
FindBytes(data, part, start) ==
    LET places == {i \in start..(Len(data) - Len(part)) : Slice(data, i, i + Len(part)) = part}
    IN  IF places = {} THEN -1 ELSE CHOOSE i \in places : \A j \in places : i <= j

=============================================================================
