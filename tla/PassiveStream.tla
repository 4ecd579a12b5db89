------------------------- MODULE PassiveStream -------------------------
(***************************************************************************)
(* The transports that only listen: TcpPassiveTransport reads the dongle's *)
(* broadcast from a socket, ReplayTransport a captured file.  Both cut the *)
(* byte stream into frames and hand these to the collector, which keeps    *)
(* the registers (collector/comm/tcp_passive.py, replay.py, protocol.py,   *)
(* collector.py _handle_frame).                                            *)
(***************************************************************************)
EXTENDS Frames, RegisterView

CONSTANTS
    Packets,       \* what a captured file may hold: [function, register, values]
    Broadcast,     \* those of them that the dongle sends unasked
    Datalog,       \* serial of the dongle, bytes
    Inverter,      \* serial of the inverter, bytes
    Transports,    \* subset of {"tcp", "replay"}
    Chunks,        \* how many bytes one recv() may return at most
    ReplayChunk,   \* chunk_size of the replay
    MaxBuffer,     \* 8192 in the source
    MaxSends,      \* bound: packets broadcast in a behaviour
    MaxFile,       \* bound: packets in the replayed file
    MaxLosses      \* bound: connections the dongle drops

VARIABLES
    transport,     \* which transport runs
    conn,          \* "down", "up", "lost" (dropped by the dongle), "stopped"
    sent,          \* packets of this connection or file not completely read
    got,           \* bytes of them that were read
    buffer,        \* the thread's buffer
    found,         \* frames found in it and not handed over yet
    input, hold,   \* _latest_input_raw, _latest_hold_raw
    last,          \* the frame handed over last, as its reader sees it
    sends, losses

passiveVars == <<transport, conn, sent, got, buffer, found, input, hold, last, sends, losses>>

----------------------------------------------------------------------------
(* The dongle's side (external).  Echoes and heartbeats have the layout of *)
(* the requests; a read answer carries a length byte and the values.       *)

ReadAnswer(p) ==
    LET frame == Sealed(DataHead(p.function, Inverter, p.register) \o <<2 * Len(p.values)>>
                          \o Words(p.values))
    IN  Header(2, 14 + Len(frame), TCP_FUNC_TRANSLATED_DATA, Datalog) \o U16(Len(frame)) \o frame

Refusal(p) ==
    LET frame == Sealed(<<0, p.function>> \o p.values)
    IN  Header(2, 14 + Len(frame), TCP_FUNC_TRANSLATED_DATA, Datalog) \o U16(Len(frame)) \o frame

Bytes(p) ==
    IF IsRead(p.function) THEN ReadAnswer(p)
    ELSE IF p.function = MODBUS_WRITE_SINGLE
    THEN WriteRequest(Datalog, Inverter, p.register, p.values[1])
    ELSE IF p.function = MODBUS_WRITE_MULTI
    THEN WriteMultiRequest(Datalog, Inverter, p.register, p.values)
    ELSE IF p.function = TCP_FUNC_HEARTBEAT THEN HeartbeatPacket(Datalog)
    ELSE Refusal(p)

Wire == [p \in Packets |-> Bytes(p)]

Functions == {MODBUS_READ_HOLD, MODBUS_READ_INPUT, MODBUS_WRITE_SINGLE, MODBUS_WRITE_MULTI}
Refusals == {128 + f : f \in Functions}

(* The fields that a packet of this function has. *)
WellFormed(p) ==
    /\ p \in [function : Functions \cup Refusals \cup {TCP_FUNC_HEARTBEAT},
              register : Word,
              values   : Seq(Word)]
    /\ p.function = MODBUS_WRITE_SINGLE \/ p.function \in Refusals
         => Len(p.values) = 1
    /\ p.function = TCP_FUNC_HEARTBEAT => p.register = 0 /\ p.values = << >>

(* Every packet is a string of bytes and fits into the buffer.  A register *)
(* value 6817 looks like the start of a frame: the parser may take the     *)
(* inside of an incomplete frame for one.  Not in these packets.           *)
PassiveStreamAssumption ==
    /\ Transports \subseteq {"tcp", "replay"} /\ Broadcast \subseteq Packets
    /\ Chunks \subseteq Nat \ {0} /\ ReplayChunk \in Nat \ {0}
    /\ {MaxBuffer, MaxSends, MaxFile, MaxLosses} \subseteq Nat
    /\ Datalog \in Seq(Byte) /\ Inverter \in Seq(Byte)
    /\ \A p \in Packets : /\ WellFormed(p)
                         /\ Wire[p] \in Seq(Byte) /\ Len(Wire[p]) < MaxBuffer
                         /\ FindBytes(Wire[p], PREFIX, 1) = -1
ASSUME PassiveStreamAssumption

(* The bytes of the first k packets. *)
Upto(packets) ==
    LET bytes[k \in 0..Len(packets)] ==
          IF k = 0 THEN << >> ELSE bytes[k - 1] \o Wire[packets[k]]
    IN  bytes

Stream == Upto(sent)[Len(sent)]
End(k) == Len(Upto(sent)[k])
Available == Len(Stream) - got

PassiveInit ==
    /\ transport \in Transports
    /\ sent \in IF transport = "replay" THEN BoundedSeq(Packets, MaxFile) ELSE {<< >>}
    /\ conn = IF transport = "replay" THEN "up" ELSE "down"
    /\ got = 0
    /\ buffer = << >> /\ found = << >>
    /\ input = NoRegisters /\ hold = NoRegisters
    /\ last = Nothing
    /\ sends = 0 /\ losses = 0

SendPacket(p) ==
    /\ transport = "tcp" /\ conn = "up" /\ sends < MaxSends
    /\ sent' = Append(sent, p)
    /\ sends' = sends + 1
    /\ UNCHANGED <<transport, conn, got, buffer, found, input, hold, last, losses>>

(* The dongle allows one connection and drops this one, or goes off. *)
Lose ==
    /\ transport = "tcp" /\ conn = "up" /\ losses < MaxLosses
    /\ conn' = "lost"
    /\ losses' = losses + 1
    /\ UNCHANGED <<transport, sent, got, buffer, found, input, hold, last, sends>>

----------------------------------------------------------------------------
(* The thread.  A failed connect only waits. *)

Ready == found = << >> /\ conn # "stopped"

ConnectKeepsBuffer ==
    /\ Ready /\ conn = "down"
    /\ conn' = "up"
    /\ UNCHANGED <<transport, sent, got, buffer, found, input, hold, last, sends, losses>>

Connect ==
    /\ Ready /\ conn = "down"
    /\ conn' = "up"
    /\ buffer' = << >>
    /\ UNCHANGED <<transport, sent, got, found, input, hold, last, sends, losses>>

(* What _consume_frames leaves: everything behind the first place where    *)
(* the bytes of the last frame stand.                                      *)
Remainder(bytes, frames) ==
    IF frames = << >> THEN bytes
    ELSE LET raw == Last(frames).raw
         IN  Slice(bytes, FindBytes(bytes, raw, 0) + Len(raw), Len(bytes))

Trimmed(bytes) ==
    LET next == FindBytes(bytes, PREFIX, 1)
    IN  IF Len(bytes) <= MaxBuffer THEN bytes
        ELSE IF next > 0 THEN Slice(bytes, next, Len(bytes)) ELSE << >>

(* One piece of the stream: frames are looked for in the whole buffer. *)
Take(n, keep(_)) ==
    /\ Available > 0
    /\ \E size \in {IF n < Available THEN n ELSE Available} :
       \E bytes \in {buffer \o Slice(Stream, got, got + size)} :
       \E frames \in {FindFrames(bytes)}, read \in 0..Len(sent) :
         /\ found' = frames
         /\ buffer' = keep(Remainder(bytes, frames))
         /\ End(read) <= got + size
         /\ read < Len(sent) => End(read + 1) > got + size
         /\ sent' = SubSeq(sent, read + 1, Len(sent))
         /\ got' = got + size - End(read)
    /\ UNCHANGED <<transport, conn, input, hold, last, sends, losses>>

Receive(n) ==
    /\ Ready /\ transport = "tcp" /\ conn \in {"up", "lost"}
    /\ Take(n, Trimmed)

Whole(bytes) == bytes

ReplayWholeChunks ==
    /\ Ready /\ transport = "replay" /\ Available >= ReplayChunk
    /\ Take(ReplayChunk, Whole)

ReplayNext ==
    /\ Ready /\ transport = "replay"
    /\ Take(ReplayChunk, Whole)

(* The collector keeps the registers of read answers; other frames leave   *)
(* no trace in it.                                                         *)
Translated(frame) == frame.tcp_function = TCP_FUNC_TRANSLATED_DATA

Reported(frame) ==
    [function |-> IF Translated(frame) THEN frame.device_function ELSE frame.tcp_function,
     register |-> frame.register,
     values   |-> IF frame.is_error THEN <<frame.error_code>>
                  ELSE IF frame.device_function = MODBUS_WRITE_MULTI
                  THEN <<frame.write_count>> ELSE frame.values]

HandleFrame(view, frame) ==
    [input |-> IF Translated(frame) /\ frame.device_function = MODBUS_READ_INPUT
               THEN Overlaid(view.input, frame) ELSE view.input,
     hold  |-> IF Translated(frame) /\ frame.device_function = MODBUS_READ_HOLD
               THEN Overlaid(view.hold, frame) ELSE view.hold,
     last  |-> Reported(frame)]

View == [input |-> input, hold |-> hold, last |-> last]

Emit ==
    /\ found # << >>
    /\ LET view == HandleFrame(View, Head(found))
       IN  /\ input' = view.input
           /\ hold' = view.hold
           /\ last' = view.last
    /\ found' = Tail(found)
    /\ UNCHANGED <<transport, conn, sent, got, buffer, sends, losses>>

(* recv() reports the end or an error, which may overtake unread bytes, or *)
(* nothing came for read_timeout: the socket is closed.                    *)
Close ==
    /\ Ready /\ transport = "tcp"
    /\ conn = "lost" \/ (conn = "up" /\ Available = 0)
    /\ conn' = "down"
    /\ sent' = << >> /\ got' = 0
    /\ UNCHANGED <<transport, buffer, found, input, hold, last, sends, losses>>

(* stop(): the thread ends where it looks at the flag. *)
Stop ==
    /\ Ready
    /\ conn' = "stopped"
    /\ sent' = << >> /\ got' = 0
    /\ UNCHANGED <<transport, buffer, found, input, hold, last, sends, losses>>

Work == Connect \/ (\E n \in Chunks : Receive(n)) \/ ReplayNext \/ Emit

PassiveNext == Work \/ Close \/ Stop \/ Lose \/ \E p \in Broadcast : SendPacket(p)

PassiveSpec == PassiveInit /\ [][PassiveNext]_passiveVars

(* The thread runs; a recv() that has bytes or an error returns. *)
PassiveFairSpec == PassiveSpec /\ WF_passiveVars(Work \/ Close)

----------------------------------------------------------------------------

PassiveTypeOK ==
    /\ transport \in Transports
    /\ conn \in {"down", "up", "lost", "stopped"}
    /\ sent \in Seq(Packets)
    /\ got \in 0..(Len(Stream)) /\ (sent # << >> => got < Len(Wire[Head(sent)]))
    /\ \A i \in DOMAIN buffer : buffer[i] \in Byte
    /\ \A i \in DOMAIN found : found[i].tcp_function \in {TCP_FUNC_HEARTBEAT, TCP_FUNC_TRANSLATED_DATA}
    /\ sends \in 0..MaxSends /\ losses \in 0..MaxLosses

Sound(bytes) ==
    LET size == Len(bytes)
    IN  /\ U16At(bytes, 4) = size - 6
        /\ At(bytes, 7) = TCP_FUNC_TRANSLATED_DATA =>
             /\ U16At(bytes, 18) = size - 20
             /\ U16At(bytes, size - 2) = crc16_bitwise(Slice(bytes, 20, size - 2))

Accepted == [p \in Packets |->
    /\ Sound(Wire[p])
    /\ IsRead(p.function) =>
         Sound(ReadRequest(Datalog, Inverter, p.function, p.register, Len(p.values)))]


Delivery == INSTANCE FrameDelivery WITH
    link <- conn \in {"up", "lost"},
    queue <- sent,
    latest <- After(View, [i \in 1..Len(found) |-> Reported(found[i])])

(* The registers the collector shows once the frames found are handed over *)
(* are those of the packets whose last byte was read, in the order they    *)
(* were sent, however recv() or the replay cuts the stream and although    *)
(* the cut after the first equal frame hands frames over again.            *)
DeliversFrames == Delivery!Spec

(* Nothing sent waits for ever in the socket or in the buffer: it is       *)
(* delivered or goes with its connection.                                  *)
DeliveryGoesOn == Delivery!Drained

=============================================================================
