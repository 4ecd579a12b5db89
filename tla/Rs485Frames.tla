-------------------------- MODULE Rs485Frames --------------------------
(***************************************************************************)
(* The batteries' serial protocols as the RS-485 drivers decode them: JK   *)
(* answers (collector/rs485/jk_bms.py) and the A5/5A broadcast of EG4      *)
(* batteries (eg4_a5_bms.py).  A byte string is a sequence of numbers      *)
(* below 256; offsets are the source's, counted from 0.  Values stay in    *)
(* the unit of the wire (mV, 0.01 A, ...); an average is kept as its sum.  *)
(***************************************************************************)
EXTENDS Integers, Sequences, FiniteSets, SequencesExt, TLC

At(data, i) == data[i + 1]
Slice(data, from, to) == SubSeq(data, from + 1, to)
U16At(data, i) == 256 * At(data, i) + At(data, i + 1)
U32At(data, i) == 65536 * U16At(data, i) + U16At(data, i + 2)
Words(data, from, n) ==
    FoldLeft(LAMBDA words, i : Append(words, U16At(data, from + 2 * i)), << >>, [i \in 1..n |-> i - 1])
Total(s) ==
    LET sum[i \in 0..Len(s)] == IF i = 0 THEN 0 ELSE sum[i - 1] + s[i]
    IN  sum[Len(s)]
(* A current read as an unsigned word, and as the drivers read it. *)
Unsigned(n) == n
Signed(n) == IF n >= 32768 THEN n - 65536 ELSE n

NoReading == [field \in {} |-> 0]
(* In the place of a reading: the decoder raised an exception. *)
Raised == [raised |-> 0]

(* What both drivers derive from the cells; below top the first of the     *)
(* lowest counts, above 0 the first of the highest.                        *)
CellFields(mv, top) ==
    LET least == Min({top} \union Range(mv))
        most == Max({0} \union Range(mv))
        first(v) == CHOOSE i \in DOMAIN mv : mv[i] = v /\ \A j \in 1..(i - 1) : mv[j] # v
    IN  [cells |-> mv, cell_count |-> Len(mv), cell_sum |-> Total(mv),
         cell_min_voltage |-> least, cell_max_voltage |-> most,
         cell_delta_voltage |-> most - least,
         cell_min_index |-> IF least = top THEN 0 ELSE first(least),
         cell_max_index |-> IF most = 0 THEN 0 ELSE first(most)]

----------------------------------------------------------------------------
(* JK.  The sum of all bytes follows them; a sum without the two magic     *)
(* bytes is taken as well.                                                 *)

JK_MAGIC == <<78, 87>>

JkSum(data) == Total(data)

SumIs(data, end, sum) ==
    U16At(data, end) = sum \div 65536 /\ U16At(data, end + 2) = sum % 65536

JkBodyUnchecked(data) ==
    LET end == 12 + U16At(data, 10)
        whole == /\ Len(data) >= 20
                 /\ Slice(data, 0, 2) = JK_MAGIC
                 /\ At(data, 8) \in {3, 6}
                 /\ Len(data) >= end + 4
    IN  IF whole THEN Slice(data, 12, end) ELSE << >>

JkBody(data) ==
    LET end == 12 + U16At(data, 10)
        whole == /\ Len(data) >= 20
                 /\ Slice(data, 0, 2) = JK_MAGIC
                 /\ At(data, 8) \in {3, 6}
                 /\ Len(data) >= end + 4
                 /\ \E first \in {0, 2} : SumIs(data, end, JkSum(Slice(data, first, end)))
    IN  IF whole THEN Slice(data, 12, end) ELSE << >>

Temperature(raw) == IF raw > 100 THEN raw - 200 ELSE raw

(* The tagged values behind the cells, in the order they are looked for:   *)
(* field, tag, bytes.  The first three are taken whatever their tag.       *)
AnyTag == 0
JkTags ==
    << <<"mosfet_temperature", AnyTag, 2>>, <<"battery_box_temperature", AnyTag, 2>>,
       <<"battery_temperature_1", AnyTag, 2>>,
       <<"total_voltage", 131, 2>>, <<"current", 132, 2>>, <<"soc", 133, 1>>,
       <<"temperature_sensor_count", 134, 1>>, <<"cycle_count", 135, 2>>,
       <<"total_cycle_capacity", 137, 4>>, <<"total_strings", 138, 2>>,
       <<"warning_bitmask", 139, 2>>, <<"operation_mode_bitmask", 140, 2>> >>

Number(data, i, bytes) ==
    CASE bytes = 1 -> At(data, i) [] bytes = 2 -> U16At(data, i) [] bytes = 4 -> U32At(data, i)

(* The next value, where it stands here.  The byte behind the current says *)
(* its direction; it is not passed over, the next tag is looked for at it. *)
(* Only the length in front of the state of charge is checked one short.   *)
JkTake(data, walk, item) ==
    LET next == walk.at + 1 + item[3]
        raw == Number(data, walk.at + 1, item[3])
        discharge == next < Len(data) /\ At(data, next) % 2 = 1
        value == CASE item[2] = AnyTag     -> Temperature(raw)
                   [] item[1] = "current"  -> IF discharge THEN -raw ELSE raw
                   [] OTHER                -> raw
        overrun == item[1] = "soc" /\ walk.at + 1 = Len(data) /\ At(data, walk.at) = item[2]
    IN  IF walk.reading = Raised THEN walk
        ELSE IF overrun THEN [walk EXCEPT !.reading = Raised]
        ELSE IF next > Len(data) \/ item[2] \notin {AnyTag, At(data, walk.at)} THEN walk
        ELSE [at |-> next, reading |-> (item[1] :> value) @@ walk.reading]

Has(reading, field) == field \in DOMAIN reading

(* Power is worked out where voltage and current were found, the switches  *)
(* from the mode; a capacity is searched for in the 120 bytes that follow. *)
JkDerived(data, walk) ==
    LET r == walk.reading
        last == IF Len(data) - 5 < walk.at + 120 THEN Len(data) - 5 ELSE walk.at + 120
        marks == {i \in walk.at..(last - 1) : At(data, i) = 170}
        power == r.total_voltage * r.current
        mode == r.operation_mode_bitmask
    IN  IF r = Raised THEN Raised ELSE
        (IF Has(r, "current") /\ Has(r, "total_voltage") /\ r.total_voltage # 0
         THEN [power |-> power, charge_power |-> IF power > 0 THEN power ELSE 0,
               discharge_power |-> IF power < 0 THEN -power ELSE 0]
         ELSE NoReading)
        @@ (IF Has(r, "operation_mode_bitmask")
            THEN [charging_enabled |-> mode % 2, discharging_enabled |-> (mode \div 2) % 2,
                  balancing_enabled |-> (mode \div 4) % 2]
            ELSE NoReading)
        @@ (IF marks # {} THEN [full_charge_capacity |-> U32At(data, Min(marks) + 1)] ELSE NoReading)
        @@ r

JkStatus(data) ==
    LET count == At(data, 1) \div 3
        cells == FoldLeft(LAMBDA mv, i : Append(mv, U16At(data, 3 * i + 1)), << >>, [i \in 1..count |-> i])
    IN  IF Len(data) < 2 \/ At(data, 0) # 121 THEN NoReading
        ELSE IF count \notin 1..64 \/ Len(data) < 3 * count + 3 THEN NoReading
        ELSE JkDerived(data,
               FoldLeft(LAMBDA walk, item : JkTake(data, walk, item),
                        [at |-> 3 * count + 3, reading |-> CellFields(cells, 100000)], JkTags))

JkParse(data) == JkStatus(JkBody(data))

----------------------------------------------------------------------------
(* A5/5A.  The frame's last byte is a checksum nobody looks at. *)

A5_MAGIC == <<165, 90>>
CMD_STATUS == <<130, 16>>
CMD_CELLS == <<130, 17>>

A5Status(payload) ==
    IF Len(payload) < 35 THEN NoReading
    ELSE LET voltage == U16At(payload, 1)
             current == Signed(U16At(payload, 3))
         IN  [voltage |-> voltage, current |-> current, power |-> voltage * current,
              words |-> Words(payload, 5, 15)]

A5Cells(payload) ==
    IF Len(payload) < 33 THEN NoReading
    ELSE CellFields(Words(payload, 1, 16), 10000)

A5Fields(frame) ==
    LET kind == Slice(frame, 3, 5)
        payload == Slice(frame, 5, Len(frame))
    IN  CASE Len(frame) < 5    -> NoReading
          [] kind = CMD_STATUS -> A5Status(payload)
          [] kind = CMD_CELLS  -> A5Cells(payload)
          [] OTHER             -> NoReading

(* What the frames of one window say, one after the other.  Bytes in front *)
(* of a frame are passed over, and one that is not whole.                  *)
A5Decoded(data) ==
    LET end(i) == i + 3 + At(data, i + 2)
        scan[i \in 0..Len(data)] ==
            IF i >= Len(data) - 2 THEN << >>
            ELSE IF Slice(data, i, i + 2) = A5_MAGIC /\ end(i) <= Len(data)
            THEN <<A5Fields(Slice(data, i, end(i)))>> \o scan[end(i)]
            ELSE scan[i + 1]
    IN  scan[0]

(* What they make of the fields known so far: of each field the last frame *)
(* that has it counts.                                                     *)
A5Update(known, said) ==
    LET saying(f) == {i \in DOMAIN said : f \in DOMAIN said[i]}
    IN  [f \in DOMAIN known \union UNION {DOMAIN said[i] : i \in DOMAIN said} |->
           IF saying(f) = {} THEN known[f] ELSE said[Max(saying(f))][f]]

=============================================================================
