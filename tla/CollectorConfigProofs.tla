------------------------ MODULE CollectorConfigProofs ------------------------
(***************************************************************************)
(* Machine-checked safety of CollectorConfig, for every environment, every *)
(* set of stored values and every number of requests and outages.          *)
(***************************************************************************)
EXTENDS CollectorConfig, TLAPS

-----------------------------------------------------------------------------
(***************************************************************************)
(* Settings and their keys.                                                *)
(***************************************************************************)
LEMMA KeyFacts ==
  /\ Serials \subseteq InCfg /\ Outs \subseteq InCfg /\ Core \subseteq InCfg
  /\ InCfg \subseteq Keys /\ RestartKeys \subseteq Keys
  /\ "alerts_soc_low" \in InCfg /\ "inverter_model" \in Keys
  /\ "dongle_host" \in InCfg /\ "inverter_serial" \in InCfg /\ "transport" \in InCfg
  /\ "alerts_soc_low" \notin {"dongle_host", "inverter_serial", "transport"}
  /\ InCfg = Serials \cup Outs \cup Core
BY DEF Serials, Outs, Core, InCfg, Keys, LiveKeys, RestartKeys

LEMMA StoredFacts ==
  /\ Empty \in Stored /\ NoRow \notin Stored
  /\ \A k \in Keys : /\ Env[k] \in Stored /\ Default[k] \in Stored
                     /\ EnvFallback[k] \in Stored /\ Choices[k] \subseteq Stored
  /\ Default \in Settings /\ AllEmpty \in Settings
<1>1. NoRow \notin Stored
  BY CollectorConfigAssumption
<1>2. Empty \in Stored
  BY DEF Stored
<1>3. \A k \in Keys : /\ Env[k] \in Stored /\ Default[k] \in Stored
                      /\ EnvFallback[k] \in Stored /\ Choices[k] \subseteq Stored
  BY DEF Stored
<1>4. Default \in Settings
  BY <1>3, CollectorConfigAssumption DEF Settings
<1>5. QED
  BY <1>1, <1>2, <1>3, <1>4 DEF AllEmpty, Settings

LEMMA GetType ==
  ASSUME TypeOK
  PROVE  /\ Got \in Settings /\ Read \in Settings
         /\ \A k \in Keys : Get(k) \in Stored
         /\ Read = IF dbUp THEN Got ELSE AllEmpty
<1>1. \A k \in Keys : Get(k) \in Stored
  BY StoredFacts DEF TypeOK, Get
<1>2. Got \in Settings
  BY <1>1 DEF Got, Settings
<1>3. Read = IF dbUp THEN Got ELSE AllEmpty
  BY DEF Read, Got, AllEmpty
<1>4. QED
  BY <1>1, <1>2, <1>3, StoredFacts

\* What a step leaves of the types that touches none of the records: the
\* rest it has to show.
LEMMA RecordsStay ==
  ASSUME TypeOK,
         UNCHANGED <<row, driver, transport, shared, stopped, fp, newFp, seen,
                     asked>>,
         loaded' = loaded \/ loaded' \in [RestartKeys -> Stored],
         dbUp' \in BOOLEAN,
         main' \in {"exited", "seed", "serials", "outputs", "core", "driver",
                    "build", "fingerprint", "restart values", "model value", "wait"},
         writer' \in {"none", "idle", "check", "decide", "serials", "outputs",
                      "core", "rebuild", "work", "done"},
         cfg' \in [InCfg -> Stored], half' \in Stored, mqtt' \in Stored,
         left' \in [puts : 0 .. MaxPuts, faults : 0 .. MaxFaults],
         disturbed' \in 0 .. 2
  PROVE  TypeOK'
<1>1. /\ row' \in [Keys -> Stored \cup {NoRow}] /\ driver' \in Stored
      /\ asked' \in [Keys -> Stored \cup {NoRow}]
  BY DEF TypeOK
<1>2. /\ transport' = NoTransport
           \/ transport' \in [kind : Stored, address : Stored \X Stored]
      /\ shared' = <<>> \/ shared' \in Stored \X Stored
  BY Zenon DEF TypeOK
<1>3. /\ fp' \in Settings \cup {Nothing} /\ newFp' \in Settings \cup {Nothing}
      /\ seen' \in Settings \cup {Nothing}
      /\ loaded' \in [RestartKeys -> Stored] \cup {Nothing}
  BY Zenon DEF TypeOK
<1>4. stopped' \in BOOLEAN
  BY DEF TypeOK
<1>5. QED
  BY <1>1, <1>2, <1>3, <1>4, Zenon DEF TypeOK

LEMMA SpendType ==
  ASSUME TypeOK, NEW what \in {"puts", "faults"}, Spend(what)
  PROVE  left' \in [puts : 0 .. MaxPuts, faults : 0 .. MaxFaults]
<1>1. /\ left \in [puts : 0 .. MaxPuts, faults : 0 .. MaxFaults]
      /\ left[what] > 0 /\ left' = [left EXCEPT ![what] = left[what] - 1]
  BY DEF TypeOK, Spend
<1>2. MaxPuts \in Nat /\ MaxFaults \in Nat
  BY CollectorConfigAssumption
<1>3. CASE what = "puts"
  BY <1>1, <1>2, <1>3
<1>4. CASE what = "faults"
  BY <1>1, <1>2, <1>4
<1>5. QED
  BY <1>3, <1>4

LEMMA ReadsType ==
  ASSUME TypeOK, NEW s \in {Read, Default}, Reads(s)
  PROVE  /\ s \in Settings /\ dbUp' \in BOOLEAN
         /\ left' \in [puts : 0 .. MaxPuts, faults : 0 .. MaxFaults]
<1>1. s \in Settings
  BY GetType, StoredFacts
<1>2. CASE UNCHANGED <<dbUp, left>>
  BY <1>1, <1>2 DEF TypeOK
<1>3. CASE Spend("faults") /\ dbUp' = FALSE
  BY <1>1, <1>3, SpendType
<1>4. QED
  BY <1>2, <1>3 DEF Reads

LEMMA OverrideFacts ==
  ASSUME TypeOK, NEW ks \in {Serials, Outs, Core},
         NEW values \in [ks -> Stored], cfg' = Override(values, ks)
  PROVE  /\ cfg' \in [InCfg -> Stored]
         /\ \A k \in InCfg : cfg'[k] = IF k \in ks /\ Taken(k, values[k])
                                       THEN values[k] ELSE cfg[k]
BY KeyFacts DEF TypeOK, Override

\* A loading function: what it leaves when it was not disturbed.
LEMMA LoadFacts ==
  ASSUME TypeOK, NEW ks \in {Serials, Outs, Core}, Load(ks)
  PROVE  /\ cfg' \in [InCfg -> Stored] /\ dbUp' \in BOOLEAN
         /\ left' \in [puts : 0 .. MaxPuts, faults : 0 .. MaxFaults]
         /\ disturbed' \in 0 .. 2
         /\ disturbed' < 2 =>
              /\ disturbed' = disturbed
              /\ \A k \in InCfg : cfg'[k] = IF k \in ks /\ Taken(k, Got[k])
                                            THEN Got[k] ELSE cfg[k]
<1>1. ks \subseteq Keys /\ \A k \in Keys : Got[k] = Get(k) /\ Get(k) \in Stored
  BY KeyFacts, GetType DEF Got
<1>2. CASE dbUp /\ cfg' = Override([k \in ks |-> Get(k)], ks)
           /\ UNCHANGED <<dbUp, left, disturbed>>
  <2>1. [k \in ks |-> Get(k)] \in [ks -> Stored]
    BY <1>1
  <2>2. /\ cfg' \in [InCfg -> Stored]
        /\ \A k \in InCfg : cfg'[k] = IF k \in ks /\ Taken(k, Got[k])
                                      THEN Got[k] ELSE cfg[k]
    BY <1>1, <1>2, <2>1, OverrideFacts
  <2>3. QED
    BY <1>2, <2>2 DEF TypeOK
<1>3. CASE disturbed' = 2 /\ UNCHANGED <<cfg, dbUp, left>>
  <2>1. /\ cfg' \in [InCfg -> Stored] /\ dbUp' \in BOOLEAN
        /\ left' \in [puts : 0 .. MaxPuts, faults : 0 .. MaxFaults]
    BY <1>3 DEF TypeOK
  <2>2. QED
    BY <1>3, <2>1
<1>4. CASE /\ Spend("faults") /\ dbUp' = FALSE /\ disturbed' = 2
           /\ \E done \in {{}, ks \ {"transport"}} \ {ks} :
                cfg' = Override([k \in ks |-> IF k \in done THEN Get(k)
                                              ELSE Default[k]], ks)
  <2>1. PICK done : cfg' = Override([k \in ks |-> IF k \in done THEN Get(k)
                                                  ELSE Default[k]], ks)
    BY <1>4
  <2>2. [k \in ks |-> IF k \in done THEN Get(k) ELSE Default[k]] \in [ks -> Stored]
    BY <1>1, StoredFacts
  <2>3. cfg' \in [InCfg -> Stored]
    BY <2>1, <2>2, OverrideFacts
  <2>4. left' \in [puts : 0 .. MaxPuts, faults : 0 .. MaxFaults]
    BY <1>4, SpendType
  <2>5. dbUp' \in BOOLEAN
    BY <1>4
  <2>6. QED
    BY <1>4, <2>3, <2>4, <2>5
<1>5. QED
  BY <1>2, <1>3, <1>4 DEF Load

\* Starting a transport, or failing to.
LEMMA StartType ==
  ASSUME TypeOK, StartTransport
  PROVE  /\ transport' = Started
         /\ transport' \in [kind : Stored, address : Stored \X Stored]
         /\ shared' = <<>> \/ shared' \in Stored \X Stored
         /\ left' = left
<1>1. Address \in Stored \X Stored /\ cfg["transport"] \in Stored
  BY KeyFacts DEF TypeOK, Address
<1>2. QED
  BY <1>1 DEF StartTransport, Started, TypeOK

LEMMA RefusedType ==
  ASSUME TypeOK, Refused
  PROVE  left' \in [puts : 0 .. MaxPuts, faults : 0 .. MaxFaults]
BY SpendType DEF Refused, TypeOK

LEMMA GoneType ==
  ASSUME Gone, row' \in [Keys -> Stored \cup {NoRow}], dbUp' \in BOOLEAN,
         left' \in [puts : 0 .. MaxPuts, faults : 0 .. MaxFaults],
         asked' \in [Keys -> Stored \cup {NoRow}]
  PROVE  ConfigInv'
<1>1. TypeOK'
  <2>1. cfg' \in [InCfg -> Stored] /\ driver' \in Stored /\ half' \in Stored
        /\ mqtt' \in Stored
    BY StoredFacts DEF Gone, NoCfg
  <2>2. /\ main' = "exited" /\ writer' = "none" /\ transport' = NoTransport
        /\ shared' = <<>> /\ fp' = Nothing /\ newFp' = Nothing
        /\ seen' = Nothing /\ loaded' = Nothing /\ disturbed' \in 0 .. 2
    BY DEF Gone
  <2>3. /\ main' \in {"exited", "seed", "serials", "outputs", "core", "driver",
                      "build", "fingerprint", "restart values", "model value", "wait"}
        /\ writer' \in {"none", "idle", "check", "decide", "serials", "outputs",
                        "core", "rebuild", "work", "done"}
    BY <2>2
  <2>4. stopped' \in BOOLEAN
    BY DEF Gone
  <2>5. QED
    BY <2>1, <2>2, <2>3, <2>4 DEF TypeOK
<1>2. Control' /\ StartHolds' /\ ReloadHolds' /\ QuietHolds'
  BY DEF Gone, Control, StartHolds, ReloadHolds, QuietHolds, Reloading
<1>3. QED
  BY <1>1, <1>2 DEF ConfigInv

LEMMA DisturbedType ==
  ASSUME ConfigInv
  PROVE  disturbed \in {0, 1, 2}
<1>1. disturbed \in 0 .. 2
  BY DEF ConfigInv, TypeOK
<1>2. QED
  BY <1>1

LEMMA SameGot ==
  ASSUME row' = row
  PROVE  Got' = Got
BY DEF Got, Get

-----------------------------------------------------------------------------
(***************************************************************************)
(* Start-up.                                                               *)
(***************************************************************************)
LEMMA LaunchKeeps ==
  ASSUME ConfigInv, Launch
  PROVE  ConfigInv'
<1>1. /\ main = "exited" /\ main' = "seed" /\ writer = "none" /\ writer' = "none"
      /\ UNCHANGED <<row, dbUp, driver, transport, shared, stopped, fp, newFp,
                     seen, loaded, half, mqtt, left, asked, disturbed>>
  BY DEF Launch, records, ConfigInv, Control
<1>2. cfg' \in [InCfg -> Stored]
  BY KeyFacts, StoredFacts DEF Launch
<1>3. TypeOK'
  BY <1>1, <1>2 DEF ConfigInv, TypeOK
<1>4. Control' /\ StartHolds' /\ ReloadHolds' /\ QuietHolds'
  BY <1>1 DEF ConfigInv, Control, StartHolds, ReloadHolds, QuietHolds, Reloading
<1>5. QED
  BY <1>3, <1>4 DEF ConfigInv

LEMMA SeedFromEnvKeeps ==
  ASSUME ConfigInv, SeedFromEnv
  PROVE  ConfigInv'
<1>1. /\ main = "seed" /\ main' = "serials" /\ writer = "none" /\ writer' = "none"
      /\ UNCHANGED <<dbUp, cfg, driver, transport, shared, stopped, fp, newFp,
                     seen, loaded, half, mqtt, left, asked, disturbed>>
  BY DEF SeedFromEnv, records, ConfigInv, Control
<1>2. row' \in [Keys -> Stored \cup {NoRow}]
  BY StoredFacts DEF SeedFromEnv, ConfigInv, TypeOK
<1>3. TypeOK'
  BY <1>1, <1>2 DEF ConfigInv, TypeOK
<1>4. Control' /\ StartHolds' /\ ReloadHolds' /\ QuietHolds'
  BY <1>1 DEF ConfigInv, Control, StartHolds, ReloadHolds, QuietHolds, Reloading
<1>5. QED
  BY <1>3, <1>4 DEF ConfigInv

LEMMA LoadAtStartKeeps ==
  ASSUME ConfigInv, LoadAtStart
  PROVE  ConfigInv'
<1>1. /\ UNCHANGED <<row, writer, driver, transport, shared, stopped, fp, newFp,
                     seen, loaded, half, mqtt, asked>>
      /\ \/ main = "serials" /\ main' = "outputs" /\ Load(Serials)
         \/ main = "outputs" /\ main' = "core"    /\ Load(Outs)
         \/ main = "core"    /\ main' = "driver"  /\ Load(Core)
  BY DEF LoadAtStart, records
<1>2. \E ks \in {Serials, Outs, Core} : Load(ks)
  BY <1>1
<1>3. /\ cfg' \in [InCfg -> Stored] /\ dbUp' \in BOOLEAN
      /\ left' \in [puts : 0 .. MaxPuts, faults : 0 .. MaxFaults]
      /\ disturbed' \in 0 .. 2
  BY <1>2, LoadFacts DEF ConfigInv
<1>4. TypeOK'
  <2>1. main' \in {"outputs", "core", "driver"}
    BY <1>1
  <2>2. /\ writer' \in {"none", "idle", "check", "decide", "serials", "outputs",
                         "core", "rebuild", "work", "done"}
        /\ half' \in Stored /\ mqtt' \in Stored
    BY <1>1 DEF ConfigInv, TypeOK
  <2>3. QED
    BY <1>1, <1>3, <2>1, <2>2, RecordsStay DEF ConfigInv
<1>5. writer = "none" /\ fp = Nothing /\ mqtt = Empty
  BY <1>1 DEF ConfigInv, Control
<1>6. Control' /\ ReloadHolds' /\ QuietHolds'
  BY <1>1, <1>5 DEF Control, ReloadHolds, QuietHolds, Reloading
<1>7. StartHolds'
  <2> SUFFICES ASSUME disturbed' < 2
               PROVE  /\ main' = "outputs" => Holds(Got, Serials)'
                      /\ main' = "core" => Holds(Got, Serials \cup Outs)'
                      /\ main' \in {"driver", "build", "fingerprint"}
                           => Holds(Got, InCfg)'
                      /\ main' # "fingerprint"
    BY DEF StartHolds
  <2>1. Got' = Got
    BY <1>1, SameGot
  <2>2. CASE main = "serials" /\ main' = "outputs" /\ Load(Serials)
    <3>1. \A k \in InCfg : cfg'[k] = IF k \in Serials /\ Taken(k, Got[k])
                                     THEN Got[k] ELSE cfg[k]
      BY <2>2, LoadFacts DEF ConfigInv
    <3>2. QED
      BY <2>1, <2>2, <3>1, KeyFacts DEF Holds
  <2>3. CASE main = "outputs" /\ main' = "core" /\ Load(Outs)
    <3>1. /\ disturbed' = disturbed
          /\ \A k \in InCfg : cfg'[k] = IF k \in Outs /\ Taken(k, Got[k])
                                        THEN Got[k] ELSE cfg[k]
      BY <2>3, LoadFacts DEF ConfigInv
    <3>2. Holds(Got, Serials)
      BY <2>3, <3>1 DEF ConfigInv, StartHolds
    <3>3. QED
      BY <2>1, <2>3, <3>1, <3>2, KeyFacts DEF Holds
  <2>4. CASE main = "core" /\ main' = "driver" /\ Load(Core)
    <3>1. /\ disturbed' = disturbed
          /\ \A k \in InCfg : cfg'[k] = IF k \in Core /\ Taken(k, Got[k])
                                        THEN Got[k] ELSE cfg[k]
      BY <2>4, LoadFacts DEF ConfigInv
    <3>2. Holds(Got, Serials \cup Outs)
      BY <2>4, <3>1 DEF ConfigInv, StartHolds
    <3>3. QED
      BY <2>1, <2>4, <3>1, <3>2, KeyFacts DEF Holds
  <2>5. QED
    BY <1>1, <2>2, <2>3, <2>4
<1>8. QED
  BY <1>4, <1>6, <1>7 DEF ConfigInv

LEMMA ChooseDriverKeeps ==
  ASSUME ConfigInv, ChooseDriver
  PROVE  ConfigInv'
<1>1. /\ main = "driver" /\ main' = "build"
      /\ UNCHANGED <<row, dbUp, writer, cfg, transport, shared, stopped, fp, newFp,
                     seen, loaded, half, mqtt, left, asked>>
      /\ disturbed' = IF dbUp THEN disturbed ELSE 2
  BY DEF ChooseDriver, records
<1>2. driver' \in Stored
  <2>1. Get("inverter_model") \in Stored
    BY GetType, KeyFacts DEF ConfigInv
  <2>2. QED
    BY <2>1, StoredFacts, KeyFacts DEF ChooseDriver
<1>3. disturbed' \in 0 .. 2 /\ (disturbed' < 2 => disturbed < 2)
  BY <1>1 DEF ConfigInv, TypeOK
<1>4. TypeOK'
  BY <1>1, <1>2, <1>3 DEF ConfigInv, TypeOK
<1>5. writer = "none" /\ fp = Nothing /\ mqtt = Empty /\ Got' = Got
  BY <1>1, SameGot DEF ConfigInv, Control
<1>6. Control' /\ ReloadHolds' /\ QuietHolds'
  BY <1>1, <1>5 DEF Control, ReloadHolds, QuietHolds, Reloading
<1>7. StartHolds'
  BY <1>1, <1>3, <1>5 DEF ConfigInv, StartHolds, Holds
<1>8. QED
  BY <1>4, <1>6, <1>7 DEF ConfigInv

LEMMA BuildKeeps ==
  ASSUME ConfigInv, Build
  PROVE  ConfigInv'
<1>1. main = "build" /\ UNCHANGED <<row, dbUp, asked>>
  BY DEF Build
<1>2. TypeOK /\ row \in [Keys -> Stored \cup {NoRow}] /\ dbUp \in BOOLEAN
      /\ asked \in [Keys -> Stored \cup {NoRow}]
  BY DEF ConfigInv, TypeOK
<1>3. CASE Refused /\ Gone
  <2>1. left' \in [puts : 0 .. MaxPuts, faults : 0 .. MaxFaults]
    BY <1>2, <1>3, RefusedType
  <2>2. dbUp' \in BOOLEAN
    BY <1>1, <1>2
  <2>3. QED
    BY <1>1, <1>2, <1>3, <2>1, <2>2, GoneType
<1>4. CASE /\ StartTransport /\ main' = "fingerprint" /\ writer' = "idle"
           /\ UNCHANGED <<cfg, driver, stopped, records, mqtt, disturbed>>
  <2>1. UNCHANGED <<cfg, driver, stopped, fp, newFp, seen, loaded, half, mqtt,
                    disturbed>>
    BY <1>4 DEF records
  <2>2. /\ transport' = Started
        /\ transport' \in [kind : Stored, address : Stored \X Stored]
        /\ shared' = <<>> \/ shared' \in Stored \X Stored
        /\ left' = left
    BY <1>2, <1>4, StartType
  <2>3. TypeOK'
    BY <1>1, <1>4, <2>1, <2>2 DEF ConfigInv, TypeOK
  <2>4. fp = Nothing
    BY <1>1 DEF ConfigInv, Control
  <2>5. Control' /\ ReloadHolds' /\ QuietHolds'
    BY <1>4, <2>1, <2>4 DEF Control, ReloadHolds, QuietHolds, Reloading
  <2>6. Got' = Got /\ Started' = Started
    BY <1>1, <2>1, SameGot DEF Started, Address
  <2>7. StartHolds'
    BY <1>1, <1>4, <2>1, <2>2, <2>6 DEF ConfigInv, StartHolds, Holds
  <2>8. QED
    BY <2>3, <2>5, <2>7 DEF ConfigInv
<1>5. QED
  BY <1>3, <1>4 DEF Build

LEMMA RecordFingerprintKeeps ==
  ASSUME ConfigInv, RecordFingerprint
  PROVE  ConfigInv'
<1>1. /\ main = "fingerprint" /\ main' = "restart values"
      /\ UNCHANGED <<row, writer, cfg, driver, transport, shared, stopped, newFp,
                     seen, loaded, half, mqtt, asked>>
  BY DEF RecordFingerprint
<1>2. PICK s \in {Read, Default} :
        Reads(s) /\ fp' = s /\ disturbed' = IF s = Read THEN disturbed ELSE 2
  BY DEF RecordFingerprint
<1>3. /\ s \in Settings /\ dbUp' \in BOOLEAN
      /\ left' \in [puts : 0 .. MaxPuts, faults : 0 .. MaxFaults]
  BY <1>2, ReadsType DEF ConfigInv
<1>4. disturbed' \in 0 .. 2 /\ (disturbed' < 2 => disturbed' = disturbed /\ s = Read)
  BY <1>2, DisturbedType
<1>5. TypeOK'
  <2>1. stopped' \in BOOLEAN
    BY <1>1 DEF ConfigInv, TypeOK
  <2>2. fp' \in Settings \cup {Nothing}
    BY <1>2, <1>3
  <2>3. QED
    BY <1>1, <1>3, <1>4, <2>1, <2>2 DEF ConfigInv, TypeOK
<1>6. Control' /\ StartHolds'
  BY <1>1 DEF ConfigInv, Control, StartHolds
<1>7. ReloadHolds'
  BY <1>1 DEF ConfigInv, Control, ReloadHolds, Reloading
<1>8. QuietHolds'
  <2> SUFFICES ASSUME disturbed' < 2
               PROVE  /\ transport' = Started'
                      /\ Holds(fp, InCfg)'
                      /\ Holds(Got, InCfg)'
    BY DEF QuietHolds
  <2>1. transport = Started /\ Holds(Got, InCfg)
    BY <1>1, <1>4 DEF ConfigInv, StartHolds
  <2>2. Got' = Got /\ Started' = Started
    BY <1>1, SameGot DEF Started, Address
  <2>3. Holds(Got, InCfg)'
    BY <1>1, <2>1, <2>2 DEF Holds
  <2>4. s \in {Got, AllEmpty}
    BY <1>4, GetType DEF ConfigInv
  <2>5. Holds(fp, InCfg)'
    BY <1>1, <1>2, <2>1, <2>4, KeyFacts DEF Holds, Taken, AllEmpty
  <2>6. QED
    BY <1>1, <2>1, <2>2, <2>3, <2>5
<1>9. QED
  BY <1>5, <1>6, <1>7, <1>8 DEF ConfigInv

\* A step that touches neither what is stored, nor what is running, nor the
\* fingerprints, after start-up.
LEMMA AsideKeeps ==
  ASSUME ConfigInv, TypeOK',
         UNCHANGED <<row, writer, cfg, transport, stopped, fp, newFp, seen,
                   disturbed>>,
         main \in {"restart values", "model value", "wait"},
         main' \in {"restart values", "model value", "wait"}
  PROVE  ConfigInv'
<1>1. Got' = Got /\ Started' = Started
  BY SameGot DEF Started, Address
<1>2. Control' /\ StartHolds'
  BY DEF ConfigInv, Control, StartHolds
<1>3. ReloadHolds' /\ QuietHolds'
  BY <1>1 DEF ConfigInv, ReloadHolds, QuietHolds, Reloading, Holds
<1>4. QED
  BY <1>2, <1>3 DEF ConfigInv

LEMMA RecordTransportKeeps ==
  ASSUME ConfigInv, RecordTransport
  PROVE  ConfigInv'
<1>1. /\ main = "restart values" /\ main' = "model value"
      /\ UNCHANGED <<row, writer, cfg, driver, transport, shared, stopped, fp,
                     newFp, seen, loaded, mqtt, asked, disturbed>>
  BY DEF RecordTransport
<1>2. PICK s \in {Read, Default} : Reads(s) /\ half' = s["transport"]
  BY DEF RecordTransport
<1>3. /\ s \in Settings /\ dbUp' \in BOOLEAN
      /\ left' \in [puts : 0 .. MaxPuts, faults : 0 .. MaxFaults]
  BY <1>2, ReadsType DEF ConfigInv
<1>4. half' \in Stored
  BY <1>2, <1>3, KeyFacts DEF Settings
<1>5. TypeOK'
  <2>1. /\ writer' \in {"none", "idle", "check", "decide", "serials", "outputs",
                         "core", "rebuild", "work", "done"}
        /\ cfg' \in [InCfg -> Stored] /\ mqtt' \in Stored /\ disturbed' \in 0 .. 2
    BY <1>1 DEF ConfigInv, TypeOK
  <2>2. QED
    BY <1>1, <1>3, <1>4, <2>1, RecordsStay DEF ConfigInv
<1>6. QED
  BY <1>1, <1>5, AsideKeeps

LEMMA RecordRestartValuesKeeps ==
  ASSUME ConfigInv, RecordRestartValues
  PROVE  ConfigInv'
<1>1. /\ main = "model value" /\ main' = "wait" /\ half' = Empty
      /\ UNCHANGED <<row, writer, cfg, driver, transport, shared, stopped, fp,
                     newFp, seen, mqtt, asked, disturbed>>
  BY DEF RecordRestartValues
<1>2. PICK s \in {Read, Default} :
        /\ Reads(s)
        /\ loaded' = [k \in RestartKeys |-> IF k = "transport" THEN half ELSE s[k]]
  BY DEF RecordRestartValues
<1>3. /\ s \in Settings /\ dbUp' \in BOOLEAN
      /\ left' \in [puts : 0 .. MaxPuts, faults : 0 .. MaxFaults]
  BY <1>2, ReadsType DEF ConfigInv
<1>4. loaded' \in [RestartKeys -> Stored]
  BY <1>2, <1>3, KeyFacts DEF Settings, ConfigInv, TypeOK
<1>5. TypeOK'
  <2>1. /\ writer' \in {"none", "idle", "check", "decide", "serials", "outputs",
                         "core", "rebuild", "work", "done"}
        /\ cfg' \in [InCfg -> Stored] /\ mqtt' \in Stored /\ disturbed' \in 0 .. 2
    BY <1>1 DEF ConfigInv, TypeOK
  <2>2. half' \in Stored
    BY <1>1, StoredFacts
  <2>3. QED
    BY <1>1, <1>3, <1>4, <2>1, <2>2, RecordsStay DEF ConfigInv
<1>6. QED
  BY <1>1, <1>5, AsideKeeps

LEMMA EndKeeps ==
  ASSUME ConfigInv, Exit \/ Crash
  PROVE  ConfigInv'
<1>1. /\ row \in [Keys -> Stored \cup {NoRow}] /\ asked \in [Keys -> Stored \cup {NoRow}]
      /\ left \in [puts : 0 .. MaxPuts, faults : 0 .. MaxFaults]
  BY DEF ConfigInv, TypeOK
<1>2. dbUp \in BOOLEAN
  BY DEF ConfigInv, TypeOK
<1>3. Gone /\ UNCHANGED <<row, dbUp, asked>>
  BY DEF Exit, Crash
<1>4. left' \in [puts : 0 .. MaxPuts, faults : 0 .. MaxFaults]
  BY <1>1, SpendType DEF Exit, Crash, ConfigInv
<1>5. dbUp' \in BOOLEAN
  BY <1>2, <1>3
<1>6. QED
  BY <1>1, <1>3, <1>4, <1>5, GoneType

-----------------------------------------------------------------------------
(***************************************************************************)
(* A round of the writer thread.                                           *)
(***************************************************************************)
\* There is a writer only once the transport has been started.
LEMMA WriterRuns ==
  ASSUME ConfigInv, writer # "none"
  PROVE  main \in {"fingerprint", "restart values", "model value", "wait"}
BY DEF ConfigInv, Control, TypeOK

LEMMA IdleStepsKeep ==
  ASSUME ConfigInv, Wake \/ CheckEarly \/ Work
  PROVE  ConfigInv'
<1>1. /\ UNCHANGED <<row, dbUp, main, cfg, driver, transport, shared, stopped, fp,
                     newFp, seen, loaded, half, mqtt, left, asked, disturbed>>
      /\ writer \in {"idle", "check", "work"}
      /\ writer' \in {"idle", "check", "work", "done"}
  BY DEF Wake, CheckEarly, Work, records
<1>2. TypeOK'
  <2>1. stopped' \in BOOLEAN /\ dbUp' \in BOOLEAN
    BY <1>1 DEF ConfigInv, TypeOK
  <2>2. /\ row' \in [Keys -> Stored \cup {NoRow}] /\ cfg' \in [InCfg -> Stored]
        /\ driver' \in Stored /\ half' \in Stored /\ mqtt' \in Stored
        /\ transport' = NoTransport
             \/ transport' \in [kind : Stored, address : Stored \X Stored]
        /\ shared' = <<>> \/ shared' \in Stored \X Stored
        /\ asked' \in [Keys -> Stored \cup {NoRow}]
    BY <1>1 DEF ConfigInv, TypeOK
  <2>3. /\ fp' \in Settings \cup {Nothing} /\ newFp' \in Settings \cup {Nothing}
        /\ seen' \in Settings \cup {Nothing}
        /\ loaded' \in [RestartKeys -> Stored] \cup {Nothing}
        /\ left' \in [puts : 0 .. MaxPuts, faults : 0 .. MaxFaults]
        /\ disturbed' \in 0 .. 2
    BY <1>1 DEF ConfigInv, TypeOK
  <2>4. /\ main' \in {"exited", "seed", "serials", "outputs", "core", "driver",
                      "build", "fingerprint", "restart values", "model value", "wait"}
        /\ writer' \in {"none", "idle", "check", "decide", "serials", "outputs",
                        "core", "rebuild", "work", "done"}
    BY <1>1 DEF ConfigInv, TypeOK
  <2>5. QED
    BY <2>1, <2>2, <2>3, <2>4 DEF TypeOK
<1>3. Got' = Got /\ Started' = Started
  BY <1>1, SameGot DEF Started, Address
<1>4. Control'
  BY <1>1 DEF ConfigInv, Control, Reloading
<1>5. StartHolds'
  BY <1>1, <1>3 DEF ConfigInv, StartHolds, Holds
<1>6. ReloadHolds'
  BY <1>1 DEF ReloadHolds, Reloading
<1>7. QuietHolds'
  BY <1>1, <1>3 DEF ConfigInv, QuietHolds, Holds
<1>8. QED
  BY <1>2, <1>4, <1>5, <1>6, <1>7 DEF ConfigInv

LEMMA CheckKeeps ==
  ASSUME ConfigInv, Check
  PROVE  ConfigInv'
<1>1. /\ writer = "check" /\ fp # Nothing
      /\ UNCHANGED <<row, main, cfg, driver, transport, shared, stopped, fp, seen,
                     loaded, half, mqtt, asked>>
  BY DEF Check
<1>2. PICK s \in {Read, Default} :
        /\ Reads(s)
        /\ newFp' = IF s = fp THEN Nothing ELSE s
        /\ writer' = IF s = fp THEN "work" ELSE "decide"
        /\ disturbed' = IF s # Read THEN 2
                        ELSE IF s = fp /\ disturbed = 2 THEN 2
                        ELSE 0
  BY DEF Check
<1>3. /\ s \in Settings /\ dbUp' \in BOOLEAN
      /\ left' \in [puts : 0 .. MaxPuts, faults : 0 .. MaxFaults]
  BY <1>2, ReadsType DEF ConfigInv
<1>4. main \in {"restart values", "model value", "wait"}
  BY <1>1, WriterRuns DEF ConfigInv, Control
<1>5. /\ disturbed' \in 0 .. 2 /\ newFp' \in Settings \cup {Nothing}
      /\ writer' \in {"work", "decide"}
  BY <1>2, <1>3
<1>6. TypeOK'
  <2>1. stopped' \in BOOLEAN
    BY <1>1 DEF ConfigInv, TypeOK
  <2>2. QED
    BY <1>1, <1>3, <1>5, <2>1 DEF ConfigInv, TypeOK
<1>7. Control' /\ StartHolds'
  BY <1>1, <1>4, <1>5 DEF Control, StartHolds
<1>8. Got' = Got /\ Started' = Started
  BY <1>1, SameGot DEF Started, Address
<1>9. ASSUME disturbed' < 2
      PROVE  s \in {Got, AllEmpty} /\ (s = fp => disturbed < 2)
  <2>1. s = Read /\ (s = fp => disturbed # 2)
    BY <1>2, <1>9
  <2>2. s \in {Got, AllEmpty}
    BY <2>1, GetType DEF ConfigInv
  <2>3. QED
    BY <2>1, <2>2, DisturbedType
<1>10. ReloadHolds'
  BY <1>2, <1>5, <1>8, <1>9 DEF ReloadHolds, Reloading
<1>11. QuietHolds'
  <2> SUFFICES ASSUME s = fp, ~stopped, disturbed' < 2
               PROVE  /\ transport' = Started'
                      /\ Holds(fp, InCfg)'
                      /\ fp' = Got' => Holds(Got, InCfg)'
    BY <1>1, <1>2 DEF QuietHolds
  <2>1. disturbed < 2 /\ fp \in {Got, AllEmpty}
    BY <1>9
  <2>2. transport = Started /\ (fp = Got => Holds(Got, InCfg))
    BY <1>1, <1>4, <2>1 DEF ConfigInv, QuietHolds
  <2>3. Holds(fp, InCfg)
    BY <2>1, <2>2, KeyFacts DEF Holds, Taken, AllEmpty
  <2>4. Holds(fp, InCfg)'
    BY <1>1, <2>3 DEF Holds
  <2>5. ASSUME fp' = Got' PROVE Holds(Got, InCfg)'
    BY <1>1, <1>8, <2>2, <2>5 DEF Holds
  <2>6. QED
    BY <1>1, <1>8, <2>2, <2>4, <2>5
<1>12. QED
  BY <1>6, <1>7, <1>10, <1>11 DEF ConfigInv

LEMMA DecideKeeps ==
  ASSUME ConfigInv, Decide
  PROVE  ConfigInv'
<1>1. /\ writer = "decide" /\ writer' \in {"work", "serials"}
      /\ UNCHANGED <<row, main, cfg, driver, shared, fp, loaded, half, mqtt, asked,
                     disturbed>>
  BY DEF Decide
<1>2. PICK s \in {Read, Default} :
        /\ Reads(s)
        /\ \/ /\ stopped' = TRUE /\ transport' = NoTransport
              /\ writer' = "work" /\ newFp' = Nothing /\ seen' = seen
           \/ /\ writer' = "serials" /\ seen' = s
              /\ UNCHANGED <<stopped, transport, newFp>>
  BY DEF Decide
<1>3. /\ s \in Settings /\ dbUp' \in BOOLEAN
      /\ left' \in [puts : 0 .. MaxPuts, faults : 0 .. MaxFaults]
  BY <1>2, ReadsType DEF ConfigInv
<1>4. main \in {"restart values", "model value", "wait"}
  BY <1>1, WriterRuns DEF ConfigInv, Control, Reloading
<1>5. Got' = Got
  BY <1>1, SameGot
<1>6. Control' /\ StartHolds'
  BY <1>1, <1>2, <1>3, <1>4 DEF Control, StartHolds
<1>7. CASE /\ stopped' = TRUE /\ transport' = NoTransport
           /\ writer' = "work" /\ newFp' = Nothing /\ seen' = seen
  <2>1. stopped' \in BOOLEAN
    BY <1>7
  <2>2. TypeOK'
    BY <1>1, <1>3, <1>7, <2>1 DEF ConfigInv, TypeOK
  <2>3. ReloadHolds' /\ QuietHolds'
    BY <1>7 DEF ReloadHolds, QuietHolds, Reloading
  <2>4. QED
    BY <1>6, <2>2, <2>3 DEF ConfigInv
<1>8. CASE writer' = "serials" /\ seen' = s /\ UNCHANGED <<stopped, transport, newFp>>
  <2>1. stopped' \in BOOLEAN
    BY <1>8 DEF ConfigInv, TypeOK
  <2>2. TypeOK'
    BY <1>1, <1>3, <1>8, <2>1 DEF ConfigInv, TypeOK
  <2>3. ReloadHolds' /\ QuietHolds'
    BY <1>1, <1>5, <1>8 DEF ConfigInv, ReloadHolds, QuietHolds, Reloading
  <2>4. QED
    BY <1>6, <2>2, <2>3 DEF ConfigInv
<1>9. QED
  BY <1>2, <1>7, <1>8

LEMMA LoadInRoundKeeps ==
  ASSUME ConfigInv, LoadInRound
  PROVE  ConfigInv'
<1>1. /\ UNCHANGED <<row, main, driver, transport, shared, stopped, fp, newFp,
                     seen, loaded, half, mqtt, asked>>
      /\ \/ writer = "serials" /\ writer' = "outputs" /\ Load(Serials)
         \/ writer = "outputs" /\ writer' = "core"    /\ Load(Outs)
         \/ writer = "core"    /\ writer' = "rebuild" /\ Load(Core)
  BY DEF LoadInRound, records
<1>2. \E ks \in {Serials, Outs, Core} : Load(ks)
  BY <1>1
<1>3. /\ cfg' \in [InCfg -> Stored] /\ dbUp' \in BOOLEAN
      /\ left' \in [puts : 0 .. MaxPuts, faults : 0 .. MaxFaults]
      /\ disturbed' \in 0 .. 2
  BY <1>2, LoadFacts DEF ConfigInv
<1>4. disturbed' < 2 => disturbed' = disturbed
  BY <1>2, LoadFacts DEF ConfigInv
<1>5. TypeOK'
  <2>1. writer' \in {"outputs", "core", "rebuild"}
    BY <1>1
  <2>2. /\ main' \in {"exited", "seed", "serials", "outputs", "core", "driver",
                       "build", "fingerprint", "restart values", "model value", "wait"}
        /\ half' \in Stored /\ mqtt' \in Stored
    BY <1>1 DEF ConfigInv, TypeOK
  <2>3. QED
    BY <1>1, <1>3, <2>1, <2>2, RecordsStay DEF ConfigInv
<1>6. main \in {"restart values", "model value", "wait"}
  BY <1>1, WriterRuns DEF ConfigInv, Control, Reloading
<1>7. Control' /\ StartHolds' /\ QuietHolds'
  BY <1>1, <1>6 DEF ConfigInv, Control, StartHolds, QuietHolds
<1>8. Got' = Got
  BY <1>1, SameGot
<1>9. ReloadHolds'
  <2> SUFFICES ASSUME disturbed' < 2
               PROVE  /\ disturbed' = 0 => newFp' \in {Got, AllEmpty}
                      /\ newFp' = Got =>
                           /\ writer' = "outputs" => Holds(Got, Serials)'
                           /\ writer' = "core" => Holds(Got, Serials \cup Outs)'
                           /\ writer' = "rebuild" => Holds(Got, InCfg)'
    BY <1>8 DEF ReloadHolds, AllEmpty
  <2>1. /\ disturbed = 0 => newFp \in {Got, AllEmpty}
        /\ newFp = Got =>
             /\ writer = "outputs" => Holds(Got, Serials)
             /\ writer = "core" => Holds(Got, Serials \cup Outs)
    BY <1>1, <1>4 DEF ConfigInv, ReloadHolds, Reloading
  <2>2. CASE writer = "serials" /\ writer' = "outputs" /\ Load(Serials)
    <3>1. \A k \in InCfg : cfg'[k] = IF k \in Serials /\ Taken(k, Got[k])
                                     THEN Got[k] ELSE cfg[k]
      BY <2>2, LoadFacts DEF ConfigInv
    <3>2. Holds(Got, Serials)'
      BY <1>8, <3>1, KeyFacts DEF Holds
    <3>3. QED
      BY <1>1, <1>4, <2>1, <2>2, <3>2
  <2>3. CASE writer = "outputs" /\ writer' = "core" /\ Load(Outs)
    <3>1. \A k \in InCfg : cfg'[k] = IF k \in Outs /\ Taken(k, Got[k])
                                     THEN Got[k] ELSE cfg[k]
      BY <2>3, LoadFacts DEF ConfigInv
    <3>2. Holds(Got, Serials) => Holds(Got, Serials \cup Outs)'
      BY <1>8, <3>1, KeyFacts DEF Holds
    <3>3. QED
      BY <1>1, <1>4, <2>1, <2>3, <3>2
  <2>4. CASE writer = "core" /\ writer' = "rebuild" /\ Load(Core)
    <3>1. \A k \in InCfg : cfg'[k] = IF k \in Core /\ Taken(k, Got[k])
                                     THEN Got[k] ELSE cfg[k]
      BY <2>4, LoadFacts DEF ConfigInv
    <3>2. Holds(Got, Serials \cup Outs) => Holds(Got, InCfg)'
      BY <1>8, <3>1, KeyFacts DEF Holds
    <3>3. QED
      BY <1>1, <1>4, <2>1, <2>4, <3>2
  <2>5. QED
    BY <1>1, <2>2, <2>3, <2>4
<1>10. QED
  BY <1>5, <1>7, <1>9 DEF ConfigInv

LEMMA RebuildKeeps ==
  ASSUME ConfigInv, Rebuild
  PROVE  ConfigInv'
<1>1. /\ writer = "rebuild" /\ writer' = "work" /\ newFp' = Nothing /\ seen' = Nothing
      /\ UNCHANGED <<row, dbUp, main, cfg, driver, stopped, half, mqtt, asked>>
      /\ \/ /\ StartTransport /\ fp' = newFp /\ disturbed' = disturbed
            /\ loaded' = [k \in RestartKeys |-> seen[k]]
         \/ /\ Refused /\ disturbed' = 2 /\ transport' = NoTransport
            /\ shared' = IF Creatable THEN Address ELSE shared
            /\ UNCHANGED <<fp, loaded>>
  BY DEF Rebuild
<1>2. main \in {"restart values", "model value", "wait"}
  BY <1>1, WriterRuns DEF ConfigInv, Control, Reloading
<1>3. Got' = Got /\ Started' = Started
  BY <1>1, SameGot DEF Started, Address
<1>4. Control' /\ StartHolds' /\ ReloadHolds'
  BY <1>1, <1>2 DEF Control, StartHolds, ReloadHolds, Reloading
<1>5. stopped' \in BOOLEAN /\ dbUp' \in BOOLEAN
  BY <1>1 DEF ConfigInv, TypeOK
<1>6. CASE /\ StartTransport /\ fp' = newFp /\ disturbed' = disturbed
           /\ loaded' = [k \in RestartKeys |-> seen[k]]
  <2>1. /\ transport' = Started
        /\ transport' \in [kind : Stored, address : Stored \X Stored]
        /\ shared' = <<>> \/ shared' \in Stored \X Stored
        /\ left' = left
    BY <1>6, StartType DEF ConfigInv
  <2>2. loaded' \in [RestartKeys -> Stored]
    BY <1>1, <1>6, KeyFacts DEF ConfigInv, Control, Settings
  <2>3. TypeOK'
    BY <1>1, <1>5, <1>6, <2>1, <2>2 DEF ConfigInv, TypeOK
  <2>4. QuietHolds'
    <3> SUFFICES ASSUME disturbed < 2
                 PROVE  /\ transport' = Started
                        /\ disturbed = 0 => Holds(fp, InCfg)'
                        /\ fp' = Got => Holds(Got, InCfg)'
      BY <1>3, <1>6 DEF QuietHolds
    <3>1. /\ disturbed = 0 => newFp \in {Got, AllEmpty}
          /\ newFp = Got => Holds(Got, InCfg)
      BY <1>1 DEF ConfigInv, ReloadHolds, Reloading
    <3>2. ASSUME newFp = Got PROVE Holds(Got, InCfg)' /\ Holds(fp, InCfg)'
      BY <1>1, <1>3, <1>6, <3>1, <3>2 DEF Holds
    <3>3. ASSUME newFp = AllEmpty PROVE Holds(fp, InCfg)'
      BY <1>6, <3>3, KeyFacts DEF Holds, Taken, AllEmpty
    <3>4. QED
      BY <1>6, <2>1, <3>1, <3>2, <3>3
  <2>5. QED
    BY <1>4, <2>3, <2>4 DEF ConfigInv
<1>7. CASE /\ Refused /\ disturbed' = 2 /\ transport' = NoTransport
           /\ shared' = IF Creatable THEN Address ELSE shared
           /\ UNCHANGED <<fp, loaded>>
  <2>1. left' \in [puts : 0 .. MaxPuts, faults : 0 .. MaxFaults]
    BY <1>7, RefusedType DEF ConfigInv
  <2>2. shared' = <<>> \/ shared' \in Stored \X Stored
    <3>1. Address \in Stored \X Stored
      BY KeyFacts DEF ConfigInv, TypeOK, Address
    <3>2. shared = <<>> \/ shared \in Stored \X Stored
      BY DEF ConfigInv, TypeOK
    <3>3. QED
      BY <1>7, <3>1, <3>2
  <2>3. disturbed' \in 0 .. 2
    BY <1>7
  <2>4. TypeOK'
    <3>1. /\ row' \in [Keys -> Stored \cup {NoRow}] /\ cfg' \in [InCfg -> Stored]
          /\ driver' \in Stored /\ half' \in Stored /\ mqtt' \in Stored
          /\ asked' \in [Keys -> Stored \cup {NoRow}]
      BY <1>1 DEF ConfigInv, TypeOK
    <3>2. /\ fp' \in Settings \cup {Nothing} /\ newFp' \in Settings \cup {Nothing}
          /\ seen' \in Settings \cup {Nothing}
          /\ loaded' \in [RestartKeys -> Stored] \cup {Nothing}
          /\ transport' = NoTransport
      BY <1>1, <1>7 DEF ConfigInv, TypeOK
    <3>3. /\ main' \in {"exited", "seed", "serials", "outputs", "core", "driver",
                        "build", "fingerprint", "restart values", "model value", "wait"}
          /\ writer' \in {"none", "idle", "check", "decide", "serials", "outputs",
                          "core", "rebuild", "work", "done"}
      BY <1>1, <1>2
    <3>4. QED
      BY <1>5, <2>1, <2>2, <2>3, <3>1, <3>2, <3>3 DEF TypeOK
  <2>5. QuietHolds'
    <3>1. ~(disturbed' < 2)
      BY <1>7
    <3>2. QED
      BY <3>1 DEF QuietHolds
  <2>6. QED
    BY <1>4, <2>4, <2>5 DEF ConfigInv
<1>8. QED
  BY <1>1, <1>6, <1>7

-----------------------------------------------------------------------------
(***************************************************************************)
(* Requests, and the surroundings.                                         *)
(***************************************************************************)
\* A stored value is one that its key may have.
LEMMA ChoiceFacts ==
  /\ \A k \in Keys : Choices[k] \subseteq Stored
  /\ "alerts_soc_low" \in Keys
  /\ \A v \in Stored : v # NoRow
BY StoredFacts, KeyFacts

LEMMA QuietNow ==
  ASSUME ConfigInv, disturbed = 0
  PROVE  /\ main \in {"restart values", "model value", "wait"}
         /\ writer \in {"idle", "check", "work"}
         /\ ~stopped
         => transport = Started /\ Holds(fp, InCfg)
<1>1. disturbed < 2
  BY DisturbedType
<1>2. QED
  BY <1>1 DEF ConfigInv, QuietHolds

\* Changing a row, however disturbed the loading already was.
LEMMA DisturbKeeps ==
  ASSUME ConfigInv, NEW k \in Keys, NEW v \in Stored, Disturb,
         row' = [row EXCEPT ![k] = v],
         UNCHANGED <<main, writer, cfg, transport, stopped, fp, newFp, seen>>
  PROVE  /\ disturbed' \in 0 .. 2
         /\ StartHolds' /\ ReloadHolds' /\ QuietHolds'
<1>1. disturbed' = IF Starting \/ disturbed > 0 THEN 2
                   ELSE IF Reloading THEN 1 ELSE 0
  BY DEF Disturb
<1>2. disturbed' \in 0 .. 2
  BY <1>1
<1>3. Started' = Started
  BY DEF Started, Address
<1>4. ASSUME disturbed' < 2
      PROVE  ~Starting /\ disturbed = 0
  <2>1. ~(Starting \/ disturbed > 0)
    BY <1>1, <1>4
  <2>2. QED
    BY <2>1, DisturbedType
<1>5. StartHolds'
  BY <1>4 DEF StartHolds, Starting
<1>6. row \in [Keys -> Stored \cup {NoRow}]
  BY DEF ConfigInv, TypeOK
\* A reload goes on with the settings it was started for: only if the change
\* did not change them are they still those stored.
<1>7. ReloadHolds'
  <2> SUFFICES ASSUME Reloading, disturbed' < 2
               PROVE  /\ disturbed' # 0
                      /\ newFp = Got' =>
                           /\ writer = "outputs" => Holds(Got, Serials)'
                           /\ writer = "core" => Holds(Got, Serials \cup Outs)'
                           /\ writer = "rebuild" => Holds(Got, InCfg)'
    BY DEF ReloadHolds, Reloading
  <2>1. ~Starting /\ disturbed = 0 /\ disturbed' = 1
    BY <1>1, <1>4
  <2>2. newFp \in {Got, AllEmpty}
    BY <2>1 DEF ConfigInv, ReloadHolds
  <2>3. CASE newFp = Got
    <3>1. /\ writer = "outputs" => Holds(Got, Serials)
          /\ writer = "core" => Holds(Got, Serials \cup Outs)
          /\ writer = "rebuild" => Holds(Got, InCfg)
      BY <2>1, <2>3 DEF ConfigInv, ReloadHolds
    <3>2. QED
      BY <2>1, <2>3, <3>1 DEF Holds
  <2>4. CASE newFp = AllEmpty
    <3>1. newFp = Got' => \A j \in Keys : Got'[j] = Empty
      BY <2>4 DEF AllEmpty
    <3>2. QED
      BY <2>1, <3>1, KeyFacts DEF Holds, Taken
  <2>5. QED
    BY <2>2, <2>3, <2>4
<1>8. QuietHolds'
  <2> SUFFICES ASSUME /\ main \in {"restart values", "model value", "wait"}
                      /\ writer \in {"idle", "check", "work"}
                      /\ ~stopped,
                      disturbed' < 2
               PROVE  /\ transport = Started /\ Holds(fp, InCfg)'
                      /\ fp = Got' => Holds(Got, InCfg)'
    BY <1>3 DEF QuietHolds
  <2>1. disturbed = 0
    BY <1>4
  <2>2. transport = Started /\ Holds(fp, InCfg)
    BY <2>1, QuietNow
  <2>3. QED
    BY <2>2 DEF Holds
<1>9. QED
  BY <1>2, <1>5, <1>7, <1>8

LEMMA ChangedRowType ==
  ASSUME TypeOK, NEW k \in Keys, NEW v \in Stored
  PROVE  /\ [row EXCEPT ![k] = v] \in [Keys -> Stored \cup {NoRow}]
         /\ [asked EXCEPT ![k] = v] \in [Keys -> Stored \cup {NoRow}]
BY DEF TypeOK

\* A step that leaves the collector alone.
LEMMA AloneType ==
  ASSUME TypeOK,
         UNCHANGED <<main, writer, cfg, driver, transport, shared, stopped, fp,
                     newFp, seen, loaded, half>>,
         mqtt' \in Stored, row' \in [Keys -> Stored \cup {NoRow}],
         asked' \in [Keys -> Stored \cup {NoRow}],
         left' \in [puts : 0 .. MaxPuts, faults : 0 .. MaxFaults],
         dbUp' \in BOOLEAN, disturbed' \in 0 .. 2
  PROVE  TypeOK'
<1>1. stopped' \in BOOLEAN
  BY DEF TypeOK
<1>2. /\ cfg' \in [InCfg -> Stored]
      /\ driver' \in Stored /\ half' \in Stored /\ mqtt' \in Stored
      /\ transport' = NoTransport
           \/ transport' \in [kind : Stored, address : Stored \X Stored]
      /\ shared' = <<>> \/ shared' \in Stored \X Stored
  BY DEF TypeOK
<1>3. /\ fp' \in Settings \cup {Nothing} /\ newFp' \in Settings \cup {Nothing}
      /\ seen' \in Settings \cup {Nothing}
      /\ loaded' \in [RestartKeys -> Stored] \cup {Nothing}
  BY DEF TypeOK
<1>4. /\ main' \in {"exited", "seed", "serials", "outputs", "core", "driver",
                    "build", "fingerprint", "restart values", "model value", "wait"}
      /\ writer' \in {"none", "idle", "check", "decide", "serials", "outputs",
                      "core", "rebuild", "work", "done"}
  BY DEF TypeOK
<1>5. QED
  BY <1>1, <1>2, <1>3, <1>4 DEF TypeOK

LEMMA PutSettingKeeps ==
  ASSUME ConfigInv, NEW k \in Keys, NEW v \in Choices[k], PutSetting(k, v)
  PROVE  ConfigInv'
<1>1. /\ Spend("puts") /\ Disturb /\ v \in Stored
      /\ row' = [row EXCEPT ![k] = v] /\ asked' = [asked EXCEPT ![k] = v]
      /\ UNCHANGED <<dbUp, main, writer, cfg, driver, transport, shared, stopped,
                     fp, newFp, seen, loaded, half, mqtt>>
  BY ChoiceFacts DEF PutSetting, process, records
<1>2. /\ disturbed' \in 0 .. 2
      /\ StartHolds' /\ ReloadHolds' /\ QuietHolds'
  BY <1>1, DisturbKeeps
<1>3. /\ row' \in [Keys -> Stored \cup {NoRow}]
      /\ asked' \in [Keys -> Stored \cup {NoRow}]
      /\ left' \in [puts : 0 .. MaxPuts, faults : 0 .. MaxFaults]
  BY <1>1, ChangedRowType, SpendType DEF ConfigInv
<1>4. TypeOK'
  <2>1. dbUp' \in BOOLEAN
    BY <1>1 DEF ConfigInv, TypeOK
  <2>2. QED
    BY <1>1, <1>2, <1>3, <2>1, AloneType DEF ConfigInv, TypeOK
<1>5. Control'
  BY <1>1 DEF ConfigInv, Control, Reloading
<1>6. QED
  BY <1>2, <1>4, <1>5 DEF ConfigInv

\* Filling the missing rows with the defaults changes no value that is read.
LEMMA SeedDefaultsKeeps ==
  ASSUME ConfigInv, SeedDefaults
  PROVE  ConfigInv'
<1>1. /\ row' = [k \in Keys |-> Get(k)]
      /\ UNCHANGED <<dbUp, main, writer, cfg, driver, transport, shared, stopped,
                     fp, newFp, seen, loaded, half, mqtt, left, asked, disturbed>>
  BY DEF SeedDefaults, process, records
<1>2. \A k \in Keys : Get(k) \in Stored
  BY GetType DEF ConfigInv
<1>3. row' \in [Keys -> Stored \cup {NoRow}]
  BY <1>1, <1>2
<1>4. \A k \in Keys : row'[k] = Get(k) /\ row'[k] # NoRow
  BY <1>1, <1>2, ChoiceFacts
<1>5. Got' = Got /\ Started' = Started
  BY <1>1, <1>4 DEF Got, Get, Started, Address
<1>6. TypeOK'
  <2>1. dbUp' \in BOOLEAN
    BY <1>1 DEF ConfigInv, TypeOK
  <2>2. /\ asked' \in [Keys -> Stored \cup {NoRow}]
        /\ left' \in [puts : 0 .. MaxPuts, faults : 0 .. MaxFaults]
        /\ disturbed' \in 0 .. 2 /\ mqtt' \in Stored
    BY <1>1 DEF ConfigInv, TypeOK
  <2>3. QED
    BY <1>1, <1>3, <2>1, <2>2, AloneType DEF ConfigInv
<1>7. Control' /\ StartHolds'
  BY <1>1, <1>5 DEF ConfigInv, Control, StartHolds, Reloading, Holds
<1>8. ReloadHolds' /\ QuietHolds'
  BY <1>1, <1>5 DEF ConfigInv, ReloadHolds, QuietHolds, Reloading, Holds, AllEmpty
<1>9. QED
  BY <1>6, <1>7, <1>8 DEF ConfigInv

LEMMA AloneKeeps ==
  ASSUME ConfigInv,
         UNCHANGED <<row, main, writer, cfg, transport, stopped, fp, newFp, seen,
                     disturbed>>
  PROVE  StartHolds' /\ ReloadHolds' /\ QuietHolds'
<1>1. Got' = Got /\ Started' = Started
  BY SameGot DEF Started, Address
<1>2. StartHolds'
  BY <1>1 DEF ConfigInv, StartHolds, Holds
<1>3. ReloadHolds'
  BY <1>1 DEF ConfigInv, ReloadHolds, Reloading, Holds, AllEmpty
<1>4. QuietHolds'
  BY <1>1 DEF ConfigInv, QuietHolds, Holds
<1>5. QED
  BY <1>2, <1>3, <1>4

LEMMA MqttStoreKeeps ==
  ASSUME ConfigInv, NEW v \in Choices["alerts_soc_low"] \cap Convertible, MqttStore(v)
  PROVE  ConfigInv'
<1>1. /\ main \in {"fingerprint", "restart values", "model value", "wait"}
      /\ mqtt' = v /\ v \in Stored
      /\ UNCHANGED <<main, writer, cfg, driver, transport, shared, stopped, fp,
                     newFp, seen, loaded, half>>
  BY ChoiceFacts DEF MqttStore, records
<1>2. Control'
  BY <1>1 DEF ConfigInv, Control, Reloading
<1>3. CASE /\ Spend("puts") /\ Disturb /\ UNCHANGED dbUp
           /\ row' = [row EXCEPT !["alerts_soc_low"] = v]
           /\ asked' = [asked EXCEPT !["alerts_soc_low"] = v]
  <2>1. /\ disturbed' \in 0 .. 2
        /\ StartHolds' /\ ReloadHolds' /\ QuietHolds'
    BY <1>1, <1>3, ChoiceFacts, DisturbKeeps
  <2>2. /\ row' \in [Keys -> Stored \cup {NoRow}]
        /\ asked' \in [Keys -> Stored \cup {NoRow}]
        /\ left' \in [puts : 0 .. MaxPuts, faults : 0 .. MaxFaults]
    BY <1>1, <1>3, ChoiceFacts, ChangedRowType, SpendType DEF ConfigInv
  <2>3. dbUp' \in BOOLEAN
    BY <1>3 DEF ConfigInv, TypeOK
  <2>4. TypeOK'
    BY <1>1, <2>1, <2>2, <2>3, AloneType DEF ConfigInv
  <2>5. QED
    BY <1>2, <2>1, <2>4 DEF ConfigInv
<1>4. CASE Spend("faults") /\ dbUp' = FALSE /\ UNCHANGED <<row, asked, disturbed>>
  <2>1. StartHolds' /\ ReloadHolds' /\ QuietHolds'
    BY <1>1, <1>4, AloneKeeps
  <2>2. /\ row' \in [Keys -> Stored \cup {NoRow}]
        /\ asked' \in [Keys -> Stored \cup {NoRow}]
        /\ left' \in [puts : 0 .. MaxPuts, faults : 0 .. MaxFaults]
        /\ disturbed' \in 0 .. 2
    BY <1>4, SpendType DEF ConfigInv, TypeOK
  <2>3. dbUp' \in BOOLEAN
    BY <1>4
  <2>4. TypeOK'
    BY <1>1, <2>2, <2>3, AloneType DEF ConfigInv
  <2>5. QED
    BY <1>2, <2>1, <2>4 DEF ConfigInv
<1>5. QED
  BY <1>3, <1>4 DEF MqttStore

\* The value that MQTT puts into cfg is the stored one, or the configuration
\* no longer counts as undisturbed.
LEMMA MqttApplyKeeps ==
  ASSUME ConfigInv, MqttApply
  PROVE  ConfigInv'
<1>1. /\ main \in {"fingerprint", "restart values", "model value", "wait"}
      /\ mqtt' = Empty
      /\ cfg' = [cfg EXCEPT !["alerts_soc_low"] = mqtt]
      /\ UNCHANGED <<row, dbUp, main, writer, driver, transport, shared, stopped,
                     fp, newFp, seen, loaded, half, left, asked>>
  BY DEF MqttApply, records
<1>2. mqtt \in Stored /\ cfg \in [InCfg -> Stored]
  BY DEF ConfigInv, TypeOK
<1>3. /\ cfg' \in [InCfg -> Stored]
      /\ \A k \in InCfg : cfg'[k] = IF k = "alerts_soc_low" THEN mqtt ELSE cfg[k]
  BY <1>1, <1>2
<1>4. /\ disturbed' \in 0 .. 2 /\ disturbed' # 0
      /\ disturbed' < 2 => disturbed < 2 /\ row["alerts_soc_low"] = mqtt
  <2>1. disturbed' = IF row["alerts_soc_low"] # mqtt THEN 2
                     ELSE IF disturbed = 0 THEN 1
                     ELSE disturbed
    BY DEF MqttApply
  <2>2. QED
    BY <2>1, DisturbedType
<1>5. ASSUME disturbed' < 2
      PROVE  disturbed < 2 /\ row["alerts_soc_low"] = mqtt
  BY <1>4, <1>5
<1>6. Got' = Got /\ Started' = Started
  <2>1. /\ cfg'["dongle_host"] = cfg["dongle_host"]
        /\ cfg'["inverter_serial"] = cfg["inverter_serial"]
        /\ cfg'["transport"] = cfg["transport"]
    BY <1>3, KeyFacts
  <2>2. QED
    BY <1>1, <2>1, SameGot DEF Started, Address
<1>7. ASSUME disturbed' < 2, NEW ks \in SUBSET InCfg, Holds(Got, ks)
      PROVE  Holds(Got, ks)'
  <2>1. row["alerts_soc_low"] = mqtt /\ mqtt # NoRow
    BY <1>2, <1>5, <1>7, ChoiceFacts
  <2>2. Got["alerts_soc_low"] = mqtt
    BY <2>1, ChoiceFacts DEF Got, Get
  <2>3. QED
    BY <1>3, <1>6, <1>7, <2>2 DEF Holds
<1>8. Control'
  BY <1>1 DEF ConfigInv, Control, Reloading
<1>9. StartHolds'
  BY <1>1, <1>5, <1>6, <1>7 DEF ConfigInv, StartHolds
<1>10. ReloadHolds'
  <2> SUFFICES ASSUME Reloading, disturbed' < 2, newFp = Got
               PROVE  /\ writer = "outputs" => Holds(Got, Serials)'
                      /\ writer = "core" => Holds(Got, Serials \cup Outs)'
                      /\ writer = "rebuild" => Holds(Got, InCfg)'
    BY <1>1, <1>4, <1>6 DEF ReloadHolds, Reloading
  <2>1. /\ writer = "outputs" => Holds(Got, Serials)
        /\ writer = "core" => Holds(Got, Serials \cup Outs)
        /\ writer = "rebuild" => Holds(Got, InCfg)
    BY <1>5 DEF ConfigInv, ReloadHolds
  <2>2. Serials \in SUBSET InCfg /\ Serials \cup Outs \in SUBSET InCfg
    BY KeyFacts
  <2>3. QED
    BY <1>7, <2>1, <2>2
<1>11. QuietHolds'
  <2> SUFFICES ASSUME main \in {"restart values", "model value", "wait"},
                      writer \in {"idle", "check", "work"},
                      ~stopped, disturbed' < 2
               PROVE  transport = Started /\ (fp = Got => Holds(Got, InCfg)')
    BY <1>1, <1>4, <1>6 DEF QuietHolds
  <2>1. transport = Started /\ (fp = Got => Holds(Got, InCfg))
    BY <1>5 DEF ConfigInv, QuietHolds
  <2>2. QED
    BY <1>7, <2>1
<1>12. TypeOK'
  <2>1. dbUp' \in BOOLEAN
    BY <1>1 DEF ConfigInv, TypeOK
  <2>2. /\ main' \in {"exited", "seed", "serials", "outputs", "core", "driver",
                       "build", "fingerprint", "restart values", "model value", "wait"}
        /\ writer' \in {"none", "idle", "check", "decide", "serials", "outputs",
                         "core", "rebuild", "work", "done"}
        /\ half' \in Stored
        /\ left' \in [puts : 0 .. MaxPuts, faults : 0 .. MaxFaults]
    BY <1>1 DEF ConfigInv, TypeOK
  <2>3. mqtt' \in Stored
    BY <1>1, StoredFacts
  <2>4. QED
    BY <1>1, <1>3, <1>4, <2>1, <2>2, <2>3, RecordsStay DEF ConfigInv
<1>13. QED
  BY <1>8, <1>9, <1>10, <1>11, <1>12 DEF ConfigInv

LEMMA DatabaseKeeps ==
  ASSUME ConfigInv, DbDown \/ DbUp
  PROVE  ConfigInv'
<1>1. UNCHANGED <<row, main, writer, cfg, driver, transport, shared, stopped, fp,
                  newFp, seen, loaded, half, mqtt, asked, disturbed>>
  BY DEF DbDown, DbUp, process, records
<1>2. /\ left' \in [puts : 0 .. MaxPuts, faults : 0 .. MaxFaults]
      /\ row' \in [Keys -> Stored \cup {NoRow}] /\ mqtt' \in Stored
      /\ asked' \in [Keys -> Stored \cup {NoRow}] /\ disturbed' \in 0 .. 2
  <2>1. left \in [puts : 0 .. MaxPuts, faults : 0 .. MaxFaults]
    BY DEF ConfigInv, TypeOK
  <2>2. left' \in [puts : 0 .. MaxPuts, faults : 0 .. MaxFaults]
    BY <2>1, SpendType DEF DbDown, DbUp, ConfigInv
  <2>3. QED
    BY <1>1, <2>2 DEF ConfigInv, TypeOK
<1>3. dbUp' \in BOOLEAN
  BY DEF DbDown, DbUp
<1>4. TypeOK'
  BY <1>1, <1>2, <1>3, AloneType DEF ConfigInv
<1>5. Control'
  BY <1>1 DEF ConfigInv, Control, Reloading
<1>6. QED
  BY <1>1, <1>4, <1>5, AloneKeeps DEF ConfigInv

LEMMA StutterKeeps ==
  ASSUME ConfigInv, UNCHANGED vars
  PROVE  ConfigInv'
<1>1. UNCHANGED <<row, dbUp, main, writer, cfg, driver, transport, shared, stopped,
                  fp, newFp, seen, loaded, half, mqtt, left, asked, disturbed>>
  BY DEF vars, process, records
<1>2. dbUp' \in BOOLEAN
  BY <1>1 DEF ConfigInv, TypeOK
<1>3. /\ left' \in [puts : 0 .. MaxPuts, faults : 0 .. MaxFaults]
      /\ row' \in [Keys -> Stored \cup {NoRow}] /\ mqtt' \in Stored
      /\ asked' \in [Keys -> Stored \cup {NoRow}] /\ disturbed' \in 0 .. 2
  BY <1>1 DEF ConfigInv, TypeOK
<1>4. TypeOK'
  BY <1>1, <1>2, <1>3, AloneType DEF ConfigInv
<1>5. Control'
  BY <1>1 DEF ConfigInv, Control, Reloading
<1>6. QED
  BY <1>1, <1>4, <1>5, AloneKeeps DEF ConfigInv

-----------------------------------------------------------------------------
(***************************************************************************)
(* The induction.                                                          *)
(***************************************************************************)
LEMMA ConfigInit ==
  ASSUME Init
  PROVE  ConfigInv
<1>1. dbUp \in BOOLEAN /\ stopped \in BOOLEAN
  BY DEF Init
<1>2. left \in [puts : 0 .. MaxPuts, faults : 0 .. MaxFaults]
  BY CollectorConfigAssumption DEF Init
<1>3. TypeOK
  BY <1>1, <1>2, StoredFacts DEF Init, TypeOK, NoCfg
<1>4. Control /\ StartHolds /\ ReloadHolds /\ QuietHolds
  BY DEF Init, Control, StartHolds, ReloadHolds, QuietHolds, Reloading
<1>5. QED
  BY <1>3, <1>4 DEF ConfigInv

LEMMA ConfigNext ==
  ASSUME ConfigInv, [Next]_vars
  PROVE  ConfigInv'
<1>1. CASE MainStep
  BY <1>1, LaunchKeeps, SeedFromEnvKeeps, LoadAtStartKeeps, ChooseDriverKeeps,
     BuildKeeps, RecordFingerprintKeeps, RecordTransportKeeps,
     RecordRestartValuesKeeps, EndKeeps DEF MainStep
<1>2. CASE WriterStep
  BY <1>2, IdleStepsKeep, CheckKeeps, DecideKeeps, LoadInRoundKeeps, RebuildKeeps
     DEF WriterStep
<1>3. CASE Requests
  BY <1>3, PutSettingKeeps, SeedDefaultsKeeps, MqttStoreKeeps DEF Requests
<1>4. CASE MqttApply
  BY <1>4, MqttApplyKeeps
<1>5. CASE DbDown \/ DbUp
  BY <1>5, DatabaseKeeps
<1>6. CASE Crash
  BY <1>6, EndKeeps
<1>7. CASE UNCHANGED vars
  BY <1>7, StutterKeeps
<1>8. QED
  BY <1>1, <1>2, <1>3, <1>4, <1>5, <1>6, <1>7 DEF Next

\* The state of the collector keeps its shape: in particular, a value read
\* from the table or taken from the environment is always one of the known
\* ones, never the mark of a missing row, and fingerprints are whole readings.
THEOREM ConfigurationIsTyped == Spec => []TypeOK
<1>1. Init => ConfigInv
  BY ConfigInit
<1>2. ConfigInv /\ [Next]_vars => ConfigInv'
  BY ConfigNext
<1>3. ConfigInv => TypeOK
  BY DEF ConfigInv
<1>4. QED
  BY <1>1, <1>2, <1>3, PTL DEF Spec

\* _check_config_change(): a settled collector whose fingerprint is that of
\* the table runs the stored configuration and its transport, unless its last
\* loading was disturbed in one of the ways listed at `disturbed'.
THEOREM FingerprintIsHonest == Spec => []FingerprintMeansLoaded
<1>1. Init => ConfigInv
  BY ConfigInit
<1>2. ConfigInv /\ [Next]_vars => ConfigInv'
  BY ConfigNext
<1>3. ConfigInv => FingerprintMeansLoaded
  <2> SUFFICES ASSUME ConfigInv, Settled, disturbed < 2, dbUp, fp = Read
               PROVE  Follows
    BY DEF FingerprintMeansLoaded
  <2>1. fp = Got
    BY GetType DEF ConfigInv
  <2>2. transport = Started /\ Holds(Got, InCfg)
    BY <2>1 DEF ConfigInv, QuietHolds, Settled
  <2>3. QED
    BY <2>2, KeyFacts DEF Follows, Holds, Got
<1>4. QED
  BY <1>1, <1>2, <1>3, PTL DEF Spec

-----------------------------------------------------------------------------
(***************************************************************************)
(* What a user stored stays stored.                                        *)
(***************************************************************************)
LEMMA StoringKeeps ==
  ASSUME TypeOK, UserValueKept, NEW k \in Keys, NEW v,
         row' = [row EXCEPT ![k] = v], asked' = [asked EXCEPT ![k] = v]
  PROVE  UserValueKept'
BY DEF TypeOK, UserValueKept

LEMMA UserValueNext ==
  ASSUME TypeOK, UserValueKept, [Next]_vars
  PROVE  UserValueKept'
<1>1. CASE UNCHANGED <<row, asked>>
  BY <1>1 DEF UserValueKept
<1>2. CASE SeedFromEnv
  <2>1. \A k \in Keys : row[k] \notin {NoRow, Empty} => row'[k] = row[k]
    BY <1>2 DEF SeedFromEnv
  <2>2. asked' = asked
    BY <1>2 DEF SeedFromEnv
  <2>3. QED
    BY <2>1, <2>2 DEF UserValueKept
<1>3. CASE SeedDefaults
  <2>1. \A k \in Keys : row[k] # NoRow => row'[k] = row[k]
    BY <1>3 DEF SeedDefaults, Get
  <2>2. asked' = asked
    BY <1>3 DEF SeedDefaults
  <2>3. QED
    BY <2>1, <2>2 DEF UserValueKept
<1>4. ASSUME NEW k \in Keys, NEW v \in Choices[k], PutSetting(k, v)
      PROVE  UserValueKept'
  BY <1>4, StoringKeeps DEF PutSetting
<1>5. ASSUME NEW v \in Choices["alerts_soc_low"] \cap Convertible, MqttStore(v)
      PROVE  UserValueKept'
  BY <1>1, <1>5, ChoiceFacts, StoringKeeps DEF MqttStore
<1>6. CASE MainStep
  <2>1. CASE ~SeedFromEnv
    <3>1. UNCHANGED <<row, asked>>
      BY <1>6, <2>1 DEF MainStep, Launch, LoadAtStart, ChooseDriver, Build,
         RecordFingerprint, RecordTransport, RecordRestartValues, Exit
    <3>2. QED
      BY <1>1, <3>1
  <2>2. QED
    BY <1>2, <2>1
<1>7. CASE WriterStep
  <2>1. UNCHANGED <<row, asked>>
    BY <1>7 DEF WriterStep, Wake, CheckEarly, Check, Decide, LoadInRound, Rebuild,
       Work
  <2>2. QED
    BY <1>1, <2>1
<1>8. CASE MqttApply \/ DbDown \/ DbUp \/ Crash \/ UNCHANGED vars
  <2>1. UNCHANGED <<row, asked>>
    BY <1>8 DEF MqttApply, DbDown, DbUp, Crash, vars
  <2>2. QED
    BY <1>1, <2>1
<1>9. QED
  BY <1>3, <1>4, <1>5, <1>6, <1>7, <1>8 DEF Next, Requests

\* seed_from_env(), seed_defaults() and every restart leave a value alone that
\* a user has stored over the API or by MQTT.
THEOREM UserValuesAreKept == Spec => []UserValueKept
<1>1. Init => UserValueKept
  BY DEF Init, UserValueKept
<1>2. TypeOK /\ UserValueKept /\ [Next]_vars => UserValueKept'
  BY UserValueNext
<1>3. QED
  BY <1>1, <1>2, ConfigurationIsTyped, PTL DEF Spec
==============================================================================
