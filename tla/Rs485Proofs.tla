-------------------------- MODULE Rs485Proofs --------------------------
(***************************************************************************)
(* What the RS-485 loop makes of the answers it hears, for every battery,  *)
(* number of outages and way the line damages, cuts or delays an answer,   *)
(* as long as a single answer or window is decoded as it was meant         *)
(* (DecodedAsMeant, which the run checks of its batteries and damages).    *)
(***************************************************************************)
EXTENDS Rs485, WellFoundedInduction, TLAPS

----------------------------------------------------------------------------
(* Of the frames that have a field, one is the last. *)

LEMMA Greatest ==
    ASSUME NEW N \in Nat, NEW S, S \subseteq 1..N, S # {}
    PROVE  \E i \in S : \A j \in S : j <= i
<1> DEFINE T == {n \in Nat : \A j \in S : j <= n}
           R == OpToRel(<, Nat)
<1>1. IsWellFoundedOn(R, Nat)
  BY NatLessThanWellFounded
<1>2. \A x, y \in Nat : x < y => <<x, y>> \in R
  BY DEF OpToRel
<1>3. N \in T /\ T \subseteq Nat
  OBVIOUS
<1> HIDE DEF R
<1>4. PICK n \in T : \A m \in T : ~ (<<m, n>> \in R)
  BY <1>1, <1>3, WFMin
<1>5. n \in Nat /\ \A j \in S : j \in Nat /\ 0 < j /\ j <= n
  OBVIOUS
<1>6. n \in S
  <2> SUFFICES ASSUME n \notin S PROVE FALSE
    OBVIOUS
  <2>1. n > 0
    <3>1. PICK j \in S : TRUE
      OBVIOUS
    <3>2. QED
      BY <1>5, <3>1
  <2>2. n - 1 \in Nat /\ n - 1 < n
    BY <1>5, <2>1
  <2>3. \A j \in S : j <= n - 1
    BY <1>5
  <2>4. n - 1 \in T
    BY <2>2, <2>3
  <2>5. QED
    BY <1>2, <1>4, <1>5, <2>2, <2>4
<1>7. QED
  BY <1>5, <1>6

----------------------------------------------------------------------------
(* Samples of one battery. *)

LEMMA SampleFacts ==
    ASSUME NEW d \in Drivers
    PROVE  /\ 1 \in Versions(d) /\ Versions(d) \subseteq Nat
           /\ DOMAIN Battery(d)[1] # {}
           /\ \A v \in Versions(d) : DOMAIN Battery(d)[v] = DOMAIN Battery(d)[1]
           /\ d = "eg4_a5_bms" => DOMAIN Battery(d)[1] = StatusPart \union CellsPart
BY Rs485Assumption DEF Rs485Assumption, Battery

LEMMA PartFacts ==
    ASSUME driver \in Drivers
    PROVE  /\ \A part \in Parts : part # {} /\ part \subseteq DOMAIN Battery(driver)[1]
           /\ \A p, q \in Parts : p = q \/ p \intersect q = {}
<1>1. StatusPart # {} /\ CellsPart # {} /\ StatusPart \intersect CellsPart = {}
  BY DEF StatusPart, CellsPart
<1>2. QED
  BY <1>1, SampleFacts DEF Parts

Known(reading) == reading # NoReading => Sent(reading) # {}

(* Of a part, nothing is new but what one sample v says. *)
Same(old, new, part) == \A f \in Sent(new) \intersect part : f \in DOMAIN old /\ new[f] = old[f]
Says(new, part, v) == Agrees(new, Sent(new) \intersect part, v)
Adds(old, new, part, low, high) == Same(old, new, part) \/ \E v \in low..high : Says(new, part, v)

LEMMA MeantSays ==
    ASSUME NEW reading, NEW v, Meant(reading, v), reading # Raised
    PROVE  Known(reading) /\ \A part : Says(reading, part, v)
BY DEF Meant, Known, Says, Agrees, Sent, NoReading

----------------------------------------------------------------------------
(* The A5 driver's fields after a window. *)

(* Every frame has all the fields of one part, or none: the fields of a    *)
(* part are those of the frame heard last that has them, or as before.     *)
LEMMA UpdateAdds ==
    ASSUME driver \in Drivers, driver = "eg4_a5_bms",
           NEW old, NEW N \in Nat, NEW said, DOMAIN said = 1..N, NEW low, NEW high,
           \A i \in DOMAIN said : said[i] = NoReading \/ Sent(said[i]) \in Parts,
           \A i \in DOMAIN said : \E v \in low..high : Meant(said[i], v),
           NEW part \in Parts
    PROVE  Adds(old, A5Update(old, said), part, low, high)
<1> DEFINE new == A5Update(old, said)
           saying(f) == {i \in DOMAIN said : f \in DOMAIN said[i]}
           having == {i \in DOMAIN said : Sent(said[i]) = part}
<1>1. DOMAIN new = DOMAIN old \union UNION {DOMAIN said[i] : i \in DOMAIN said}
  BY DEF A5Update
<1>2. \A f \in DOMAIN new :
        new[f] = IF saying(f) = {} THEN old[f] ELSE said[Max(saying(f))][f]
  BY DEF A5Update
<1> HIDE DEF new
<1>3. ASSUME NEW f \in part
      PROVE  saying(f) = having
  <2>1. f \in DOMAIN Battery(driver)[1]
    BY PartFacts
  <2>2. ASSUME NEW i \in DOMAIN said, f \in DOMAIN said[i]
        PROVE  Sent(said[i]) = part
    <3>1. f \in Sent(said[i])
      BY <2>1, <2>2 DEF Sent
    <3>2. said[i] # NoReading
      BY <2>2 DEF NoReading
    <3>3. QED
      BY <3>1, <3>2, PartFacts
  <2>3. ASSUME NEW i \in DOMAIN said, Sent(said[i]) = part
        PROVE  f \in DOMAIN said[i]
    BY <2>3 DEF Sent
  <2>4. QED
    BY <2>2, <2>3
<1>4. CASE having = {}
  <2>1. ASSUME NEW f \in Sent(new) \intersect part
        PROVE  f \in DOMAIN old /\ new[f] = old[f]
    <3>1. f \in DOMAIN new /\ saying(f) = {}
      BY <1>3, <1>4 DEF Sent
    <3>2. \A i \in DOMAIN said : f \notin DOMAIN said[i]
      BY <3>1
    <3>3. new[f] = old[f]
      BY <1>2, <3>1
    <3>4. QED
      BY <1>1, <3>1, <3>2, <3>3
  <2>2. QED
    BY <2>1 DEF Adds, Same, new
<1>5. CASE having # {}
  <2>1. PICK m \in having : m = Max(having)
    BY <1>5, Greatest DEF Max
  <2>2. PICK v \in low..high : Meant(said[m], v)
    OBVIOUS
  <2>3. Sent(said[m]) = part /\ said[m] \notin {NoReading, Raised}
    <3>1. Sent(said[m]) = part /\ part \in {StatusPart, CellsPart}
      BY DEF Parts
    <3>2. \E f : f \in part /\ f # "raised"
      BY <3>1 DEF StatusPart, CellsPart
    <3>3. \E f : f \in DOMAIN said[m] /\ f # "raised"
      BY <3>1, <3>2 DEF Sent
    <3>4. QED
      BY <3>1, <3>3 DEF NoReading, Raised
  <2>4. \A f \in part : Tells(f, said[m][f], v)
    BY <2>2, <2>3 DEF Meant, Agrees
  <2>5. ASSUME NEW f \in Sent(new) \intersect part
        PROVE  new[f] = said[m][f]
    <3>1. f \in DOMAIN new /\ saying(f) = having
      BY <1>3 DEF Sent
    <3>2. QED
      BY <1>2, <1>5, <2>1, <3>1
  <2>6. Says(new, part, v)
    BY <2>4, <2>5 DEF Says, Agrees
  <2>7. QED
    BY <2>6 DEF Adds, new
<1>6. QED
  BY <1>4, <1>5

LEMMA UpdateKnown ==
    ASSUME driver \in Drivers, NEW old, Known(old), NEW said,
           \A i \in DOMAIN said : said[i] = NoReading \/ Sent(said[i]) \in Parts
    PROVE  Known(A5Update(old, said))
<1> DEFINE new == A5Update(old, said)
<1>1. DOMAIN new = DOMAIN old \union UNION {DOMAIN said[i] : i \in DOMAIN said}
  BY DEF A5Update
<1>2. SUFFICES ASSUME Sent(new) = {} PROVE new = NoReading
  BY DEF Known
<1>3. Sent(old) \subseteq Sent(new) /\ \A i \in DOMAIN said : Sent(said[i]) \subseteq Sent(new)
  BY <1>1 DEF Sent
<1>4. old = NoReading
  BY <1>2, <1>3 DEF Known
<1>5. \A i \in DOMAIN said : said[i] = NoReading
  BY <1>2, <1>3, PartFacts
<1>6. new = [f \in {} |-> 0]
  BY <1>4, <1>5 DEF NoReading, A5Update
<1>7. QED
  BY <1>6 DEF NoReading

----------------------------------------------------------------------------
(* The steps of a round. *)

Indices ==
    /\ driver \in Drivers
    /\ version \in Versions(driver) /\ asked \in 1..version
    /\ wire \subseteq 1..version /\ buffer \subseteq 1..version

Shape ==
    /\ phase \in {"start", "idle", "ask", "fallback", "write", "stopped"}
    /\ phase = "fallback" => driver = "jk_bms"
    /\ handle \in {"none", "open", "dead"} /\ (handle = "open" => plugged)
    /\ faults \in 0..MaxFaults

Heard == chunks \in Seq(A5Pieces) /\ Len(chunks) <= MaxChunks /\ noise \in 0..MaxNoise

Switches == plugged \in BOOLEAN /\ db \in BOOLEAN /\ due \in BOOLEAN

Readings == Known(latest) /\ Known(row)

Rs485Inv == Indices /\ Shape /\ Heard /\ Switches /\ Readings /\ LateIsOfRound /\ ReadingIsTrue

LEMMA TypeParts == Indices /\ Shape /\ Heard /\ Switches /\ Readings <=> TypeOK
BY DEF TypeOK, Indices, Shape, Heard, Switches, Readings, Known

(* Whatever a step makes of a part of the reading is of one state of the   *)
(* battery since the round began.                                          *)
Updated == noise = 0 => \A part \in Parts : Adds(latest, latest', part, asked, version)

LEMMA NoChange ==
    ASSUME UNCHANGED latest
    PROVE  Updated
BY DEF Updated, Adds, Same, Sent

LEMMA VersionFacts ==
    ASSUME Indices, LateIsOfRound
    PROVE  /\ version \in Nat /\ asked \in Nat /\ version \in asked..version
           /\ \A l \in wire : l \in asked..version
           /\ phase \in {"ask", "fallback"} => \A l \in buffer : l \in asked..version
BY SampleFacts DEF Indices, LateIsOfRound

LEMMA TakeUpdates ==
    ASSUME Indices, Readings, DecodedAsMeant, LateIsOfRound, JkRead \/ A5Read \/ ModbusRead
    PROVE  Updated /\ Known(latest')
<1>0. Known(latest) /\ driver \in Drivers
  BY DEF Readings, Indices
<1>1. ASSUME NEW reading, Take(reading),
             \/ reading \in {NoReading, Raised}
             \/ /\ Known(reading)
                /\ noise = 0 => \A part \in Parts : Adds(latest, reading, part, asked, version)
      PROVE  Updated /\ Known(latest')
  <2>1. CASE reading \in {NoReading, Raised}
    BY <1>0, <1>1, <2>1, NoChange DEF Take
  <2>2. CASE reading \notin {NoReading, Raised}
    <3>1. latest' = reading
      BY <1>1, <2>2 DEF Take
    <3>2. QED
      BY <1>1, <2>2, <3>1 DEF Updated
  <2>3. QED
    BY <2>1, <2>2
<1>2. ASSUME NEW v \in asked..version, NEW reading, Meant(reading, v), Take(reading)
      PROVE  Updated /\ Known(latest')
  <2>1. CASE reading \in {NoReading, Raised}
    BY <1>1, <1>2, <2>1
  <2>2. CASE reading \notin {NoReading, Raised}
    <3>1. Known(reading) /\ \A part : Says(reading, part, v)
      BY <1>2, <2>2, MeantSays
    <3>2. \A part \in Parts : Adds(latest, reading, part, asked, version)
      BY <3>1 DEF Adds
    <3>3. QED
      BY <1>1, <1>2, <3>1, <3>2
  <2>3. QED
    BY <2>1, <2>2
<1>3. CASE JkRead
  <2>1. PICK coming \in SUBSET wire, heard \in JkHeard :
           /\ heard.late \in (IF buffer \union coming = {} THEN {0} ELSE buffer \union coming)
           /\ heard.own \in {0, version}
           /\ Take(heard.reading)
    BY <1>3 DEF JkRead
  <2>2. driver = "jk_bms" /\ phase \in {"ask", "fallback"}
    BY <1>3 DEF JkRead
  <2>3. \A v \in {heard.late, heard.own} \ {0} : v \in asked..version
    BY <2>1, <2>2, VersionFacts
  <2>4. \/ heard.reading \in {NoReading, Raised}
        \/ \E v \in {heard.late, heard.own} \ {0} : Meant(heard.reading, v)
    BY <2>1, <2>2 DEF DecodedAsMeant
  <2>5. QED
    BY <1>1, <1>2, <2>1, <2>3, <2>4
<1>4. CASE A5Read
  <2>1. PICK heard \in A5Heard : heard.chunks = chunks /\ Take(A5Update(latest, heard.said))
    BY <1>4 DEF A5Read
  <2> DEFINE said == heard.said
  <2>2. /\ said \in Seq(Range(said))
        /\ \A i \in DOMAIN said :
             /\ said[i] = NoReading \/ Sent(said[i]) \in Parts
             /\ noise = 0 => \E v \in asked..version : Meant(said[i], v)
    BY <1>4, <2>1 DEF A5Read, DecodedAsMeant
  <2> HIDE DEF said
  <2>3. PICK N \in Nat : DOMAIN said = 1..N
    BY <2>2
  <2>4. Known(A5Update(latest, said))
    BY <1>0, <2>2, UpdateKnown
  <2>5. ASSUME noise = 0, NEW part \in Parts
        PROVE  Adds(latest, A5Update(latest, said), part, asked, version)
    <3>1. driver = "eg4_a5_bms"
      BY <1>4 DEF A5Read
    <3>2. QED
      BY <1>0, <2>2, <2>3, <2>5, <3>1, UpdateAdds
  <2>6. Take(A5Update(latest, said))
    BY <2>1 DEF said
  <2>7. QED
    BY <1>1, <2>4, <2>5, <2>6
<1>5. CASE ModbusRead
  <2>1. Battery(driver) = ModbusBattery
    BY <1>5 DEF ModbusRead, Battery
  <2>2. DOMAIN ModbusBattery[version] = DOMAIN ModbusBattery[1] /\ DOMAIN ModbusBattery[1] # {}
    BY <2>1, SampleFacts DEF Indices
  <2>3. Meant(ModbusBattery[version], version)
    BY <2>1, <2>2 DEF Meant, Agrees, Sent, Tells
  <2>4. Take(NoReading) \/ Take(ModbusBattery[version])
    BY <1>5 DEF ModbusRead
  <2>5. QED
    BY <1>1, <1>2, <2>3, <2>4, VersionFacts
<1>6. QED
  BY <1>3, <1>4, <1>5

----------------------------------------------------------------------------
(* Parts that were true stay so: the battery's states are never forgotten. *)
LEMMA TrueAfter ==
    ASSUME Indices, ReadingIsTrue, UNCHANGED driver, version \in Nat, version' \in Nat,
           version <= version', noise' = 0 => noise = 0, Updated, row' \in {row, latest}
    PROVE  ReadingIsTrue'
<1> SUFFICES ASSUME noise' = 0, NEW reading \in {latest', row'}, NEW part \in Parts
             PROVE  \E v \in 1..version' : Says(reading, part, v)
  <2>1. Parts' = Parts /\ Battery(driver)' = Battery(driver)
    BY DEF Parts, Battery
  <2>2. \A f, x, v : Tells(f, x, v) => Tells(f, x, v)'
    BY <2>1 DEF Tells, SignUnknown
  <2>3. \A r, p, v : Says(r, p, v) => \A f \in {g \in DOMAIN r : g \in DOMAIN Battery(driver)[1]} \intersect p :
                                       Tells(f, r[f], v)'
    BY <2>2 DEF Says, Agrees, Sent
  <2>4. QED
    BY <2>1, <2>3 DEF ReadingIsTrue, Agrees, Sent
<1>1. \A r \in {latest, row} : \E v \in 1..version' : Says(r, part, v)
  BY DEF ReadingIsTrue, Says
<1>2. \E v \in 1..version' : Says(latest', part, v)
  <2>1. CASE Same(latest, latest', part)
    <3>1. PICK v \in 1..version' : Says(latest, part, v)
      BY <1>1
    <3>2. Says(latest', part, v)
      BY <2>1, <3>1 DEF Same, Says, Agrees, Sent
    <3>3. QED
      BY <3>2
  <2>2. CASE \E v \in asked..version : Says(latest', part, v)
    BY <2>2 DEF Indices
  <2>3. QED
    BY <2>1, <2>2 DEF Updated, Adds
<1>3. QED
  BY <1>1, <1>2

(* Any other step leaves the reading alone. *)
Still == UNCHANGED latest

LEMMA StepCases ==
    ASSUME Next
    PROVE  JkRead \/ A5Read \/ ModbusRead \/ Still
BY DEF Next, Work, Start, BeginRound, ReadRaises, A5Hear, WriteRow, Stop, Tick, Change, Arrive,
       Unplug, Plug, DbDown, DbUp, Still

LEMMA NextUpdates ==
    ASSUME Indices, Readings, DecodedAsMeant, LateIsOfRound, [Next]_vars
    PROVE  Updated /\ Known(latest')
<1>1. CASE JkRead \/ A5Read \/ ModbusRead
  BY <1>1, TakeUpdates
<1>2. CASE Still
  BY <1>2, NoChange DEF Still, Readings
<1>3. CASE UNCHANGED vars
  BY <1>3, NoChange DEF vars, Readings
<1>4. QED
  BY <1>1, <1>2, <1>3, StepCases

LEMMA NextShape ==
    ASSUME Indices, Shape, Switches, [Next]_vars
    PROVE  Shape' /\ Switches'
<1>1. MaxFaults \in Nat
  BY Rs485Assumption DEF Rs485Assumption
<1>2. CASE Start \/ BeginRound \/ ReadRaises
  <2>1. UNCHANGED <<plugged, db, due, faults>>
    BY <1>2 DEF Start, BeginRound, ReadRaises
  <2>2. Switches'
    BY <2>1 DEF Switches
  <2>3. Shape'
    BY <1>2, <2>1 DEF Shape, Start, BeginRound, ReadRaises, Works
  <2>4. QED
    BY <2>2, <2>3
<1>3. CASE JkRead \/ A5Read \/ ModbusRead
  <2>1. \E reading : Take(reading)
    BY <1>3 DEF JkRead, A5Read, ModbusRead
  <2>2. UNCHANGED <<driver, handle, plugged, db, due, faults>>
        /\ (phase' \in {"idle", "write"} \/ (phase' = "fallback" /\ driver = "jk_bms"))
    BY <2>1 DEF Take
  <2>3. Switches'
    BY <2>2 DEF Switches
  <2>4. Shape'
    BY <2>2 DEF Shape
  <2>5. QED
    BY <2>3, <2>4
<1>4. CASE A5Hear \/ WriteRow \/ Stop \/ Tick \/ Change \/ Arrive
  <2>1. UNCHANGED <<driver, plugged, db, faults>> /\ (due' \in BOOLEAN)
    BY <1>4 DEF A5Hear, WriteRow, Stop, Tick, Change, Arrive, Switches
  <2>2. Switches'
    BY <2>1 DEF Switches
  <2>3. Shape'
    BY <1>4, <2>1 DEF Shape, A5Hear, WriteRow, Stop, Tick, Change, Arrive
  <2>4. QED
    BY <2>2, <2>3
<1>5. CASE Unplug \/ Plug \/ DbDown \/ DbUp
  <2>1. UNCHANGED <<driver, phase, due>> /\ plugged' \in BOOLEAN /\ db' \in BOOLEAN
    BY <1>5 DEF Unplug, Plug, DbDown, DbUp, Switches
  <2>2. Switches'
    BY <2>1 DEF Switches
  <2>3. faults' \in 0..MaxFaults
    BY <1>1, <1>5 DEF Shape, Unplug, Plug, DbDown, DbUp
  <2>4. /\ handle' \in {"none", "open", "dead"} /\ (handle' = "open" => plugged')
    BY <1>5 DEF Shape, Unplug, Plug, DbDown, DbUp
  <2>5. QED
    BY <2>1, <2>2, <2>3, <2>4 DEF Shape
<1>6. CASE UNCHANGED vars
  BY <1>6 DEF vars, Shape, Switches
<1>7. QED
  BY <1>2, <1>3, <1>4, <1>5, <1>6 DEF Next, Work

LEMMA NextHeard ==
    ASSUME Heard, [Next]_vars
    PROVE  Heard' /\ (noise' = 0 => noise = 0)
<1>1. MaxChunks \in Nat /\ MaxNoise \in Nat
  BY Rs485Assumption DEF Rs485Assumption
<1>2. CASE A5Hear
  <2>1. PICK piece \in A5Pieces :
          /\ noise' = noise + (IF piece.how = "changed" THEN 1 ELSE 0) /\ noise' <= MaxNoise
          /\ chunks' = Append(chunks, piece)
    BY <1>2 DEF A5Hear
  <2>2. Len(chunks) < MaxChunks
    BY <1>2 DEF A5Hear
  <2>3. chunks' \in Seq(A5Pieces) /\ Len(chunks') = Len(chunks) + 1
    BY <2>1 DEF Heard
  <2>4. noise' \in {noise, noise + 1}
    BY <2>1 DEF Heard
  <2>5. QED
    BY <1>1, <2>1, <2>2, <2>3, <2>4 DEF Heard
<1>3. CASE chunks' \in {chunks, << >>} /\ UNCHANGED noise
  <2>1. CASE chunks' = << >>
    <3>1. chunks' \in Seq(A5Pieces) /\ Len(chunks') = 0
      BY <2>1
    <3>2. QED
      BY <1>1, <1>3, <3>1 DEF Heard
  <2>2. CASE chunks' = chunks
    BY <1>3, <2>2 DEF Heard
  <2>3. QED
    BY <1>3, <2>1, <2>2
<1>4. QED
  BY <1>2, <1>3 DEF Next, Work, Start, BeginRound, ReadRaises, JkRead, A5Read, ModbusRead, WriteRow,
       Stop, Tick, Change, Arrive, Unplug, Plug, DbDown, DbUp, vars, line

(* Only Change moves the battery on; an answer that has come is thrown     *)
(* away when a round begins, and one on its way counts for the round.      *)
LEMMA NextIndices ==
    ASSUME Indices, LateIsOfRound, [Next]_vars
    PROVE  Indices' /\ LateIsOfRound' /\ UNCHANGED driver /\ version <= version'
<1> USE VersionFacts DEF Indices, LateIsOfRound
<1>1. CASE Start \/ ReadRaises \/ ModbusRead \/ A5Hear \/ WriteRow \/ Tick \/ Plug \/ DbDown \/ DbUp
  <2>1. UNCHANGED <<driver, version, wire, buffer, asked>>
    BY <1>1 DEF Start, ReadRaises, ModbusRead, Take, A5Hear, WriteRow, Tick, Plug, DbDown, DbUp, line
  <2>2. phase' \in {"ask", "fallback"} => phase \in {"ask", "fallback"}
    BY <1>1 DEF Start, ReadRaises, ModbusRead, Take, A5Hear, WriteRow, Tick, Plug, DbDown, DbUp
  <2>3. QED
    BY <2>1, <2>2
<1>2. CASE BeginRound
  <2>1. wire' = wire /\ buffer' = {} /\ UNCHANGED <<driver, version>>
    BY <1>2 DEF BeginRound
  <2>2. asked' \in wire \union {version} /\ \A w \in wire \union {version} : asked' <= w
    BY <1>2, <2>1 DEF BeginRound, RoundStarts
  <2>3. asked' \in 1..version
    BY <2>2
  <2>4. QED
    BY <2>1, <2>2, <2>3
<1>3. CASE JkRead \/ A5Read
  <2>1. wire' \subseteq wire \union {version} /\ buffer' \subseteq buffer
    BY <1>3 DEF JkRead, A5Read
  <2>2. phase \in {"ask", "fallback"} /\ \E reading : Take(reading)
    BY <1>3 DEF JkRead, A5Read
  <2>3. UNCHANGED <<driver, version, asked>>
    BY <2>2 DEF Take
  <2>4. QED
    BY <2>1, <2>2, <2>3
<1>4. CASE Stop \/ Unplug
  BY <1>4 DEF Stop, Unplug
<1>5. CASE Change
  BY <1>5, SampleFacts DEF Change, line
<1>6. CASE Arrive
  BY <1>6 DEF Arrive
<1>7. CASE UNCHANGED vars
  BY <1>7 DEF vars, line
<1>8. QED
  BY <1>1, <1>2, <1>3, <1>4, <1>5, <1>6, <1>7 DEF Next, Work

LEMMA NextRow ==
    ASSUME Readings, [Next]_vars
    PROVE  row' \in {row, latest}
BY DEF Next, Work, Start, BeginRound, ReadRaises, JkRead, A5Hear, A5Read, ModbusRead, Take, WriteRow,
       Stop, Tick, Change, Arrive, Unplug, Plug, DbDown, DbUp, vars

LEMMA Rs485Init == Init => Rs485Inv
<1> SUFFICES ASSUME Init PROVE Rs485Inv
  OBVIOUS
<1>1. Indices
  BY SampleFacts DEF Init, Indices
<1>2. Shape
  BY Rs485Assumption DEF Rs485Assumption, Init, Shape
<1>3. Switches
  BY DEF Init, Switches
<1>4. Readings
  BY DEF Init, Readings, Known
<1>5. LateIsOfRound
  BY DEF Init, LateIsOfRound
<1>6. ReadingIsTrue
  BY DEF Init, ReadingIsTrue, Agrees, Sent, NoReading
<1>7. Heard
  BY Rs485Assumption DEF Rs485Assumption, Init, Heard
<1>8. QED
  BY <1>1, <1>2, <1>3, <1>4, <1>5, <1>6, <1>7 DEF Rs485Inv

LEMMA Rs485Next == Rs485Inv /\ DecodedAsMeant /\ [Next]_vars => Rs485Inv'
<1> SUFFICES ASSUME Rs485Inv, DecodedAsMeant, [Next]_vars PROVE Rs485Inv'
  OBVIOUS
<1> USE DEF Rs485Inv
<1>1. Shape' /\ Switches'
  BY NextShape
<1>2. Indices' /\ LateIsOfRound' /\ UNCHANGED driver /\ version <= version'
  BY NextIndices
<1>3. Updated /\ Known(latest')
  BY NextUpdates
<1>4. row' \in {row, latest}
  BY NextRow
<1>5. Readings'
  BY <1>2, <1>3, <1>4 DEF Readings, Known, Sent
<1>6. version \in Nat /\ version' \in Nat
  BY <1>2, SampleFacts DEF Indices
<1>7. Heard' /\ (noise' = 0 => noise = 0)
  BY NextHeard
<1>8. ReadingIsTrue'
  BY <1>2, <1>3, <1>4, <1>6, <1>7, TrueAfter
<1>9. QED
  BY <1>1, <1>2, <1>5, <1>7, <1>8

LEMMA Rs485Invariant == Spec /\ []DecodedAsMeant => []Rs485Inv
BY Rs485Init, Rs485Next, PTL DEF Spec

----------------------------------------------------------------------------
(* The state of the loop keeps its shape: a second request goes out only   *)
(* on a JK line, no answer on its way or in the buffer is newer than the   *)
(* battery, and a reading that is kept has a field the battery sent.       *)
THEOREM LoopIsTyped == Spec /\ []DecodedAsMeant => []TypeOK
<1>1. Rs485Inv => TypeOK
  BY TypeParts DEF Rs485Inv
<1>2. QED
  BY <1>1, Rs485Invariant, PTL

(* What one frame carries of the reading in memory and of the row stored   *)
(* last was the battery's, all of it, at one time, also where the A5       *)
(* driver puts frames of several windows together and where the database   *)
(* was away; until the first damaged A5 frame.                             *)
THEOREM ReadingsAreTrue == Spec /\ []DecodedAsMeant => []ReadingIsTrue
<1>1. Rs485Inv => ReadingIsTrue
  BY DEF Rs485Inv
<1>2. QED
  BY <1>1, Rs485Invariant, PTL

(* What a round makes of the part of a reading that one frame carries is   *)
(* from one state of the battery since that round began, or from that of   *)
(* an answer still on its way then: reset_input_buffer() keeps out all     *)
(* that had come before, and nothing else does.                            *)
THEOREM ReadingsAreRecent == Spec /\ []DecodedAsMeant => ReadingIsRecent
<1>1. ASSUME Rs485Inv, DecodedAsMeant, [Next]_vars
      PROVE  noise = 0 =>
               \A part \in Parts :
                  \/ Kept(part)
                  \/ \E v \in asked..version : Agrees(latest', Sent(latest') \intersect part, v)
  <2>1. Updated /\ UNCHANGED driver
    BY <1>1, NextUpdates, NextIndices DEF Rs485Inv
  <2>2. QED
    BY <2>1 DEF Updated, Adds, Same, Says, Kept
<1>2. QED
  BY <1>1, Rs485Invariant, PTL DEF Spec, ReadingIsRecent
============================================================================
