----------------------------- MODULE Rs485 -----------------------------
(***************************************************************************)
(* The RS-485 collector: a process of its own that polls a battery over a  *)
(* serial port and stores a row now and then (collector/                   *)
(* rs485_collector.py, rs485/jk_bms.py, eg4_a5_bms.py, modbus_rtu.py,      *)
(* registry.py).  The battery's state is the index of one of the samples   *)
(* given for its protocol; it only moves on to the next.                   *)
(***************************************************************************)
EXTENDS Rs485Frames

CONSTANTS
    Drivers,       \* subset of {"jk_bms", "eg4_a5_bms", "modbus_rtu", "eg4_bms"}
    JkBattery, A5Battery, ModbusBattery,   \* sequences of samples, [field |-> value]
    Flips,         \* damage to one byte of a JK answer: <<offset, mask>>, the mask a power of 2
    A5Flips,       \* the same for a frame of an A5 battery
    Cuts,          \* how many bytes of a cut frame arrive
    MaxChunks,     \* bound: pieces of the broadcast heard in one window
    MaxNoise,      \* bound: damaged A5 frames
    MaxFaults      \* bound: unpluggings and outages of the database

VARIABLES
    driver, phase, \* "start", "idle", "ask", "fallback", "write", "stopped"
    version,       \* index of the battery's sample
    wire,          \* samples of JK answers on their way, too late for their own read()
    buffer,        \* samples of those that have come since
    chunks,        \* what the A5 driver has heard in this window
    handle,        \* the driver's port: "none", "open", "dead" (its device is gone)
    plugged, db,   \* the adapter is there; the database answers
    latest,        \* latest_data; also the A5 driver's _latest, which it equals
    due,           \* time.time() >= next_write
    row,           \* the row stored last
    asked,         \* observation: version when the round began, or that of an
                   \* answer still on its way at that time
    noise,         \* damaged A5 frames heard so far
    faults

line == <<wire, buffer, chunks, noise>>
vars == <<driver, phase, version, line, handle, plugged, db, latest, due, row, asked, faults>>

Battery(d) == IF d = "jk_bms" THEN JkBattery
              ELSE IF d = "eg4_a5_bms" THEN A5Battery ELSE ModbusBattery
Versions(d) == DOMAIN Battery(d)

(* The fields of an A5 battery, by the frame that carries them. *)
StatusPart == {"voltage", "current", "words"}
CellsPart == {"cells"}

Rs485Assumption ==
    /\ Drivers \subseteq {"jk_bms", "eg4_a5_bms", "modbus_rtu", "eg4_bms"}
    /\ \A d \in Drivers :
         /\ 1 \in Versions(d) /\ Versions(d) \subseteq Nat
         /\ DOMAIN Battery(d)[1] # {}
         /\ \A v \in Versions(d) : DOMAIN Battery(d)[v] = DOMAIN Battery(d)[1]
         /\ d = "eg4_a5_bms" => DOMAIN A5Battery[1] = StatusPart \union CellsPart
    /\ Flips \union A5Flips \subseteq Nat \X {2^k : k \in 0..7}
    /\ Cuts \subseteq Nat \ {0}
    /\ MaxChunks \in Nat /\ MaxNoise \in Nat /\ MaxFaults \in Nat
ASSUME Rs485Assumption

----------------------------------------------------------------------------
(* The wire (external): what the batteries send, as the drivers take it    *)
(* apart.                                                                  *)

B16(n) == <<n \div 256, n % 256>>
B32(n) == B16(n \div 65536) \o B16(n % 65536)
Magnitude(n) == IF n < 0 THEN -n ELSE n

JkAnswer(s) ==
    LET count == Len(s.cells)
        tagged(tag, t) == <<tag>> \o B16(IF t < 0 THEN t + 200 ELSE t)
        body == <<121, 3 * count, 0>>
                \o FlattenSeq([i \in 1..count |-> <<i>> \o B16(s.cells[i])])
                \o tagged(128, s.mosfet_temperature) \o tagged(129, s.battery_box_temperature)
                \o tagged(130, s.battery_temperature_1)
                \o tagged(131, s.total_voltage) \o tagged(132, Magnitude(s.current))
                \o s.direction
                \o <<133>>
                \o (IF s.ends_at_soc THEN << >>
                    ELSE <<s.soc, 134, 2>> \o tagged(135, s.cycle_count)
                         \o <<137>> \o B32(s.total_cycle_capacity) \o tagged(138, count)
                         \o tagged(139, s.warning_bitmask) \o tagged(140, s.operation_mode_bitmask)
                         \o <<170>> \o B32(s.full_charge_capacity) \o <<0>>)
        summed == JK_MAGIC \o B16(Len(body) + 14) \o <<0, 0, 0, 0, 6, 0>> \o B16(Len(body)) \o body
    IN  summed \o B32(JkSum(summed))

(* One bit of one byte is wrong. *)
Damaged(bytes, flip) ==
    LET i == flip[1] + 1
        up == (bytes[i] \div flip[2]) % 2 = 0
    IN  IF i > Len(bytes) THEN bytes
        ELSE [bytes EXCEPT ![i] = IF up THEN @ + flip[2] ELSE @ - flip[2]]

CutsOf(frame) == {k \in Cuts : k < Len(frame)}
CutShort(frame) == {SubSeq(frame, 1, k) : k \in CutsOf(frame)}
CutInto(frame) == {SubSeq(frame, k + 1, Len(frame)) : k \in CutsOf(frame)}
Changed(frame, flips) == {Damaged(frame, flip) : flip \in flips}

(* What comes of an answer that is too late (its first bytes were perhaps  *)
(* thrown away by the reset) and of one in time.                           *)
JkLate(v) ==
    IF v = 0 THEN {<< >>}
    ELSE LET answer == JkAnswer(JkBattery[v]) IN {answer} \union CutInto(answer)
JkOwn(v) ==
    IF v = 0 THEN {<< >>}
    ELSE LET answer == JkAnswer(JkBattery[v])
         IN  {answer} \union CutShort(answer) \union CutInto(answer) \union Changed(answer, Flips)

(* All that a read() may return, decoded: an earlier answer, of sample     *)
(* late, and behind it this request's, of sample own (0: there is none).   *)
JkHeard ==
    UNION {{[late |-> l, own |-> v, reading |-> JkParse(before \o answer)] :
              before \in JkLate(l), answer \in JkOwn(v)} :
           l \in {0} \union DOMAIN JkBattery, v \in {0} \union DOMAIN JkBattery}

A5Frame(kind, payload) ==
    LET body == <<Len(payload) + 3>> \o kind \o payload
    IN  A5_MAGIC \o body \o <<JkSum(body) % 256>>

A5StatusFrame(s) ==
    A5Frame(CMD_STATUS, <<0>> \o B16(s.voltage) \o B16(s.current % 65536)
                         \o FlattenSeq([i \in 1..15 |-> B16(s.words[i])]))
A5CellsFrame(s) ==
    A5Frame(CMD_CELLS, <<0>> \o FlattenSeq([i \in 1..16 |-> B16(s.cells[i])]) \o [i \in 1..24 |-> 0])
A5Beat == A5Frame(<<128, 1>>, << >>)

(* What an A5 battery sends in the state of sample v, and what is heard of *)
(* it: the whole frame, its end, its beginning, or all of it but changed.  *)
A5Sent(v) == {A5StatusFrame(A5Battery[v]), A5CellsFrame(A5Battery[v]), A5Beat}
A5Part(frame, how) ==
    CASE how = "whole" -> {frame} [] how = "end" -> CutInto(frame)
      [] how = "beginning" -> CutShort(frame) [] how = "changed" -> Changed(frame, A5Flips)
A5Pieces ==
    UNION {{[of |-> v, how |-> how, bytes |-> bytes] :
              bytes \in UNION {A5Part(frame, how) : frame \in A5Sent(v)}} :
           v \in DOMAIN A5Battery, how \in {"whole", "end", "beginning", "changed"}}

(* A window begins perhaps within a frame and ends perhaps within another. *)
Follows(heard, piece) ==
    /\ piece.how = "end" => heard = << >>
    /\ \A i \in DOMAIN heard : heard[i].how # "beginning" /\ heard[i].of <= piece.of
A5Windows ==
    {w \in UNION {[1..n -> A5Pieces] : n \in 0..MaxChunks} :
       /\ \A i \in DOMAIN w : Follows(SubSeq(w, 1, i - 1), w[i])
       /\ Cardinality({i \in DOMAIN w : w[i].how = "changed"}) <= MaxNoise}
A5Heard ==
    {[chunks |-> w, said |-> A5Decoded(FlattenSeq([i \in DOMAIN w |-> w[i].bytes]))] : w \in A5Windows}

----------------------------------------------------------------------------

Init ==
    /\ driver \in Drivers /\ phase = "start"
    /\ version = 1 /\ asked = 1
    /\ wire = {} /\ buffer = {} /\ chunks = << >> /\ noise = 0
    /\ handle = "none" /\ plugged \in BOOLEAN /\ db = TRUE
    /\ latest = NoReading /\ row = NoReading
    /\ due = TRUE
    /\ faults = 0

(* The EG4 LL driver is listed but has no read(): it cannot be made, and   *)
(* the process ends with that error.                                       *)
Start ==
    /\ phase = "start"
    /\ phase' = IF driver = "eg4_bms" THEN "stopped" ELSE "idle"
    /\ UNCHANGED <<driver, version, line, handle, plugged, db, latest, due, row, asked, faults>>

(* The Modbus client opens its port anew by itself; the other drivers keep *)
(* the object they opened once, even when its device is gone.              *)
Works == IF driver = "modbus_rtu" THEN plugged ELSE handle = "open"

(* The oldest state an answer to this round's requests may be of. *)
RoundStarts ==
    \E v \in wire' \union {version} : asked' = v /\ \A w \in wire' \union {version} : v <= w

BeginRoundNoReset ==
    /\ phase = "idle"
    /\ handle' = IF handle = "none" /\ plugged THEN "open" ELSE handle
    /\ phase' = IF handle' = "open" \/ driver = "modbus_rtu" THEN "ask" ELSE "idle"
    /\ UNCHANGED line
    /\ RoundStarts
    /\ UNCHANGED <<driver, version, plugged, db, latest, due, row, faults>>

(* _open() and reset_input_buffer(): an answer that came since the last    *)
(* round is thrown away, not one still on its way.  When either raises,    *)
(* this round is over.                                                     *)
BeginRound ==
    /\ phase = "idle"
    /\ handle' = IF handle = "none" /\ plugged THEN "open" ELSE handle
    /\ phase' = IF handle' = "open" \/ driver = "modbus_rtu" THEN "ask" ELSE "idle"
    /\ buffer' = {} /\ UNCHANGED <<wire, chunks, noise>>
    /\ RoundStarts
    /\ UNCHANGED <<driver, version, plugged, db, latest, due, row, faults>>

(* A write() or read() of the port raises: no row is stored in this round. *)
ReadRaises ==
    /\ phase \in {"ask", "fallback"} /\ driver # "modbus_rtu" /\ ~Works
    /\ phase' = "idle"
    /\ chunks' = << >> /\ UNCHANGED <<wire, buffer, noise>>
    /\ UNCHANGED <<driver, version, handle, plugged, db, latest, due, row, asked, faults>>

TakeRetriesAll(reading) ==
    /\ latest' = IF reading \in {NoReading, Raised} THEN latest ELSE reading
    /\ phase' = IF reading = Raised THEN "idle"
                ELSE IF reading = NoReading /\ phase = "ask" THEN "fallback" ELSE "write"
    /\ UNCHANGED <<driver, version, handle, plugged, db, due, row, asked, faults>>

(* The second request goes out when the first had no good answer.  An      *)
(* exception ends the round before anything is stored.                     *)
Take(reading) ==
    /\ latest' = IF reading \in {NoReading, Raised} THEN latest ELSE reading
    /\ phase' = IF reading = Raised THEN "idle"
                ELSE IF reading = NoReading /\ phase = "ask" /\ driver = "jk_bms" THEN "fallback"
                ELSE "write"
    /\ UNCHANGED <<driver, version, handle, plugged, db, due, row, asked, faults>>

(* A read() returns all that has come, and perhaps what comes now.  This   *)
(* request's own answer is the last of it, is on its way, or lost.         *)
JkRead ==
    /\ driver = "jk_bms" /\ phase \in {"ask", "fallback"} /\ Works
    /\ \E coming \in SUBSET wire, heard \in JkHeard :
         /\ heard.late \in (IF buffer \union coming = {} THEN {0} ELSE buffer \union coming)
         /\ \/ heard.own = version /\ coming = wire /\ wire' = {}
            \/ heard.own = 0 /\ wire' \in {wire \ coming, (wire \ coming) \union {version}}
         /\ Take(heard.reading)
    /\ buffer' = {}
    /\ UNCHANGED <<chunks, noise>>

(* The A5 driver listens: a frame of the battery's present state comes, at *)
(* the beginning perhaps only the end of one, or damaged.                  *)
A5Hear ==
    /\ driver = "eg4_a5_bms" /\ phase = "ask" /\ Works
    /\ Len(chunks) < MaxChunks
    /\ \E piece \in A5Pieces :
         /\ piece.of = version /\ Follows(chunks, piece)
         /\ noise' = noise + (IF piece.how = "changed" THEN 1 ELSE 0)
         /\ noise' <= MaxNoise
         /\ chunks' = Append(chunks, piece)
    /\ UNCHANGED <<wire, buffer>>
    /\ UNCHANGED <<driver, phase, version, handle, plugged, db, latest, due, row, asked, faults>>

(* The window ends.  Any frame in it makes a reading of all that is known, *)
(* also of what was heard in earlier windows.                              *)
A5Read ==
    /\ driver = "eg4_a5_bms" /\ phase = "ask" /\ Works
    /\ \E heard \in A5Heard : heard.chunks = chunks /\ Take(A5Update(latest, heard.said))
    /\ chunks' = << >> /\ UNCHANGED <<wire, buffer, noise>>

(* The registers as they are; without a connection or an answer, nothing. *)
ModbusRead ==
    /\ driver = "modbus_rtu" /\ phase = "ask"
    /\ \E reading \in {NoReading} \union (IF Works THEN {ModbusBattery[version]} ELSE {}) : Take(reading)
    /\ UNCHANGED line

WriteRowKeepsFields ==
    /\ phase = "write"
    /\ IF due /\ latest # NoReading
       THEN /\ row' = IF db THEN row @@ latest ELSE row
            /\ due' = FALSE
       ELSE UNCHANGED <<row, due>>
    /\ phase' = "idle"
    /\ UNCHANGED <<driver, version, line, handle, plugged, db, latest, asked, faults>>

(* The latest reading is stored once per write interval, however old it    *)
(* is; a failure of the database is not told.                              *)
WriteRow ==
    /\ phase = "write"
    /\ IF due /\ latest # NoReading
       THEN /\ row' = IF db THEN latest ELSE row
            /\ due' = FALSE
       ELSE UNCHANGED <<row, due>>
    /\ phase' = "idle"
    /\ UNCHANGED <<driver, version, line, handle, plugged, db, latest, asked, faults>>

(* A signal; the loop ends before its next round. *)
Stop ==
    /\ phase = "idle"
    /\ phase' = "stopped"
    /\ handle' = "none"
    /\ wire' = {} /\ buffer' = {} /\ UNCHANGED <<chunks, noise>>
    /\ UNCHANGED <<driver, version, plugged, db, latest, due, row, asked, faults>>

----------------------------------------------------------------------------
(* Around the process. *)

Tick ==
    /\ ~due /\ phase # "stopped"
    /\ due' = TRUE
    /\ UNCHANGED <<driver, phase, version, line, handle, plugged, db, latest, row, asked, faults>>

Change ==
    /\ version + 1 \in Versions(driver)
    /\ version' = version + 1
    /\ UNCHANGED <<driver, phase, line, handle, plugged, db, latest, due, row, asked, faults>>

(* An answer comes while nobody reads. *)
Arrive ==
    /\ \E l \in wire : wire' = wire \ {l} /\ buffer' = buffer \union {l}
    /\ UNCHANGED <<chunks, noise>>
    /\ UNCHANGED <<driver, phase, version, handle, plugged, db, latest, due, row, asked, faults>>

Unplug ==
    /\ plugged /\ faults < MaxFaults
    /\ plugged' = FALSE
    /\ handle' = IF handle = "open" THEN "dead" ELSE handle
    /\ wire' = {} /\ buffer' = {} /\ UNCHANGED <<chunks, noise>>
    /\ faults' = faults + 1
    /\ UNCHANGED <<driver, phase, version, db, latest, due, row, asked>>

Plug ==
    /\ ~plugged
    /\ plugged' = TRUE
    /\ UNCHANGED <<driver, phase, version, line, handle, db, latest, due, row, asked, faults>>

DbDown ==
    /\ db /\ faults < MaxFaults
    /\ db' = FALSE
    /\ faults' = faults + 1
    /\ UNCHANGED <<driver, phase, version, line, handle, plugged, latest, due, row, asked>>

DbUp ==
    /\ ~db
    /\ db' = TRUE
    /\ UNCHANGED <<driver, phase, version, line, handle, plugged, latest, due, row, asked, faults>>

Work == Start \/ BeginRound \/ ReadRaises \/ JkRead \/ A5Read \/ ModbusRead \/ WriteRow
Next == Work \/ A5Hear \/ Stop \/ Tick \/ Change \/ Arrive \/ Unplug \/ Plug \/ DbDown \/ DbUp

Spec == Init /\ [][Next]_vars

(* The loop runs, time passes and an outage of the database ends.  Nothing *)
(* is assumed of the battery.                                              *)
FairSpec == Spec /\ WF_vars(Work) /\ WF_vars(Tick) /\ WF_vars(DbUp)

----------------------------------------------------------------------------

(* The fields of a reading that the battery sends (others are derived from *)
(* these).  A value tells what sample v has; the sign of a JK current only *)
(* if the battery sends its direction: without that byte the driver takes  *)
(* the next tag for it (SignIsRight).                                      *)
Sent(reading) == {f \in DOMAIN reading : f \in DOMAIN Battery(driver)[1]}
SignUnknown(f, v) == driver = "jk_bms" /\ f = "current" /\ JkBattery[v].direction = << >>
Tells(f, value, v) ==
    \/ value = Battery(driver)[v][f]
    \/ SignUnknown(f, v) /\ Magnitude(value) = Magnitude(Battery(driver)[v][f])
Agrees(reading, fields, v) == \A f \in fields : Tells(f, reading[f], v)

(* The fields that come in one frame. *)
Parts == IF driver = "eg4_a5_bms" THEN {StatusPart, CellsPart} ELSE {DOMAIN Battery(driver)[1]}

(* Shape of the state: a reading is known or not at all, by driver. *)
TypeOK ==
    /\ driver \in Drivers
    /\ phase \in {"start", "idle", "ask", "fallback", "write", "stopped"}
    /\ phase = "fallback" => driver = "jk_bms"
    /\ version \in Versions(driver) /\ asked \in 1..version
    /\ wire \subseteq 1..version /\ buffer \subseteq 1..version
    /\ chunks \in Seq(A5Pieces) /\ Len(chunks) <= MaxChunks /\ noise \in 0..MaxNoise
    /\ handle \in {"none", "open", "dead"} /\ (handle = "open" => plugged)
    /\ {plugged, db, due} \subseteq BOOLEAN /\ faults \in 0..MaxFaults
    /\ \A reading \in {latest, row} : reading # NoReading => Sent(reading) # {}

(* The drivers decode as it was meant what they may hear now: it is a      *)
(* state of the battery since the round began, or that of the late answer, *)
(* or is refused (jk_bms.py _parse_frame: the checksum; eg4_a5_bms.py: the *)
(* lengths).  A damaged A5 frame has its part's fields, but their values   *)
(* are not promised: its checksum is not compared.                         *)
Meant(reading, v) ==
    \/ reading \in {NoReading, Raised}
    \/ Sent(reading) # {} /\ Agrees(reading, Sent(reading), v)

DecodedAsMeant ==
    /\ driver = "jk_bms" =>
         \A heard \in JkHeard :
            heard.late \in wire \union buffer \union {0} /\ heard.own \in {0, version} =>
              \/ heard.reading \in {NoReading, Raised}
              \/ \E v \in {heard.late, heard.own} \ {0} : Meant(heard.reading, v)
    /\ driver = "eg4_a5_bms" /\ phase = "ask" =>
         \A heard \in A5Heard :
            heard.chunks = chunks =>
              /\ heard.said \in Seq(Range(heard.said))
              /\ \A i \in DOMAIN heard.said :
                   /\ heard.said[i] = NoReading \/ Sent(heard.said[i]) \in Parts
                   /\ noise = 0 => \E v \in asked..version : Meant(heard.said[i], v)

(* What is read and what is stored are true: what comes in one frame was   *)
(* the battery's, all of it, at one time, although JK answers are cut,     *)
(* damaged or late and windows end in the middle of a frame (jk_bms.py     *)
(* _parse_frame checksum; eg4_a5_bms.py _split_frames).  Exempt is what    *)
(* follows a damaged A5 frame (DamageIsRefused).                           *)
ReadingIsTrue ==
    noise = 0 =>
      \A reading \in {latest, row} : \A part \in Parts :
        \E v \in 1..version : Agrees(reading, Sent(reading) \intersect part, v)

(* A reading is of its round: each part of it is left as it was or is      *)
(* wholly from one state of the battery since the round began, never an    *)
(* answer that had come before (reset_input_buffer() in read()).  An       *)
(* answer still on its way when the round began counts from its own state: *)
(* nothing tells it from this round's.                                     *)
Kept(part) == \A f \in Sent(latest') \intersect part : f \in DOMAIN latest /\ latest'[f] = latest[f]

ReadingIsRecent ==
    [][noise = 0 =>
         \A part \in Parts :
            \/ Kept(part)
            \/ \E v \in asked..version : Agrees(latest', Sent(latest') \intersect part, v)]_vars

(* While reads of the present state of the battery are made, a row with it *)
(* is stored again and again, whatever the database did in between         *)
(* (rs485_collector.py run).                                               *)
BatteryIsStored ==
    []<>(phase = "write" /\ latest # NoReading /\ Agrees(latest, Sent(latest), version))
      => []<>(row # NoReading /\ Agrees(row, Sent(row), version))

(* The inductive invariant behind ReadingIsRecent: an answer on its way is *)
(* not older than the round counts, nor is one that came in it.            *)
LateIsOfRound ==
    /\ \A l \in wire : asked <= l
    /\ phase \in {"ask", "fallback"} => \A l \in buffer : asked <= l

----------------------------------------------------------------------------
(* Three statements that are not so (README).                              *)

(* EG4_A5_5A_BMS_notes.md: the checksum byte was verified on captures; the *)
(* driver would have to refuse a damaged frame by it.                      *)
DamageIsRefused ==
    \A reading \in {latest, row} : \A part \in Parts :
      \E v \in 1..version : Agrees(reading, Sent(reading) \intersect part, v)

(* A current is stored with its sign, also without a direction byte. *)
SignIsRight ==
    driver = "jk_bms" /\ "current" \in DOMAIN latest =>
      \E v \in 1..version : latest.current = JkBattery[v].current

(* A stored row is of one time, also with an A5 battery. *)
RowIsOfOneTime ==
    noise = 0 => \E v \in 1..version : Agrees(row, Sent(row), v)

=============================================================================
