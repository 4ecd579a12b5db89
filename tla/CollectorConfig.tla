---------------------------- MODULE CollectorConfig ----------------------------
(***************************************************************************)
(* Where the collector's configuration comes from and how a running        *)
(* collector follows it: environment, table lux_settings, start-up,        *)
(* fingerprint, reload in place, exit for a restart by Docker              *)
(* (collector/collector.py, collector/settings.py), with the requests that *)
(* change the table (api/__init__.py, collector/mqtt_commands.py).         *)
(*                                                                         *)
(* Three threads of the collector take steps: main (start-up), the writer  *)
(* (one round per write interval) and MQTT's network thread.  The API is a *)
(* second process on the same table.  The database goes down and comes     *)
(* back, and may do so between the queries of one load.                    *)
(*                                                                         *)
(* There are some forty settings; Keys keeps one of each kind the code     *)
(* treats alike.                                                           *)
(***************************************************************************)
EXTENDS Naturals

CONSTANTS
  Choices,     \* values a user may store for a key
  Env,         \* the environment of the containers; "" where it is unset
  EnvFallback, \* what config_from_env() takes for an unset variable
  Default,     \* settings.DEFAULTS
  Convertible, \* values that float() takes
  ReplayFile,  \* LUX_REPLAY_FILE is set
  MaxPuts,     \* bound: requests that change a setting
  MaxFaults    \* bound: times the database goes down, the dongle refuses the
               \* transport's start, or the collector's container is killed

LiveKeys    == {"inverter_serial", "alerts_soc_low", "dongle_host"}
RestartKeys == {"transport", "inverter_model"}
Keys        == LiveKeys \cup RestartKeys

\* What each of the three loading functions reads; the driver's model is
\* read by run_collector() alone.
Serials == {"inverter_serial"}
Outs    == {"alerts_soc_low"}
Core    == {"dongle_host", "transport"}
InCfg   == Serials \cup Outs \cup Core

\* Keys whose value is converted when it is loaded.
Numbers == {"alerts_soc_low"}

Empty  == ""
NoRow  == "no row"
Stored == (UNION {Choices[k] : k \in Keys})
            \cup {Env[k] : k \in Keys} \cup {Default[k] : k \in Keys}
            \cup {EnvFallback[k] : k \in Keys} \cup {Empty}

ASSUME CollectorConfigAssumption ==
  /\ Choices \in [Keys -> SUBSET STRING] /\ Env \in [Keys -> STRING]
  /\ EnvFallback \in [Keys -> STRING] /\ Default \in [Keys -> STRING]
  /\ NoRow \notin Stored
  /\ Empty \notin Convertible
  /\ ReplayFile \in BOOLEAN
  /\ MaxPuts \in Nat /\ MaxFaults \in Nat

VARIABLES
  row,       \* lux_settings
  dbUp,      \* the database answers
  main,      \* where run_collector() is; "exited" when there is no process
  writer,    \* where _writer_loop() is; "none" before start() creates it
  cfg,       \* self.cfg, the part of it that Keys stands for
  driver,    \* the model of self.driver
  transport, \* what self._transport was made from, or NoTransport
  shared,    \* the parameters of the process-wide dongle connection
  stopped,   \* _stop
  fp,        \* _config_fingerprint: the settings it hashes, or Nothing
  newFp,     \* new_fp of the round in progress
  seen,      \* settings of _check_config_change()
  loaded,    \* _loaded_restart_values
  half,      \* the first of them, while start() reads the second
  mqtt,      \* the value _on_set() has stored and not yet put into cfg
  left,      \* what is left of the bounds
  asked      \* history: the value last stored for a key at a user's request

\* Observation, read by no guard: how the loading that produced cfg was
\* disturbed.  1: a setting changed after the fingerprint was taken for it, or
\* MQTT changed cfg, and no round has compared since.  2: a reading failed, or
\* a second change can have hidden the first.
VARIABLE disturbed

records == <<fp, newFp, seen, loaded, half>>
process == <<main, writer, cfg, driver, transport, shared, stopped, records,
             mqtt>>
vars    == <<row, dbUp, process, left, asked, disturbed>>

NoCfg       == [k \in InCfg |-> Empty]
Nothing     == [k \in {} |-> Empty]
NoTransport == [kind |-> "none"]
Settings    == [Keys -> Stored]

-----------------------------------------------------------------------------
(***************************************************************************)
(* Reading the table.  get() returns the built-in default for a missing    *)
(* row and for a failed query alike; only a refused connection is an       *)
(* exception.  get_all() starts from the defaults.                         *)
(***************************************************************************)
\* Mutant of Get: a missing row is not looked up in DEFAULTS.
GetRow(k) == row[k]

Get(k) == IF row[k] = NoRow THEN Default[k] ELSE row[k]

Spend(what) == left[what] > 0 /\ left' = [left EXCEPT ![what] = @ - 1]

\* What _read_db_settings() hands to settings.get(k, "").
Read == [k \in Keys |-> IF dbUp THEN Get(k) ELSE Empty]

\* The database may also go down between the connection and the query.
Reads(settings) ==
  \/ settings = Read /\ UNCHANGED <<dbUp, left>>
  \/ settings = Default /\ dbUp /\ Spend("faults") /\ dbUp' = FALSE

\* _override() and _db(): a stored value wins, unless it is empty or raises
\* a ValueError when it is converted; PUT stores any text.
Taken(k, v) == v # Empty /\ (k \in Numbers => v \in Convertible)

Override(values, ks) ==
  [k \in InCfg |-> IF k \in ks /\ Taken(k, values[k]) THEN values[k] ELSE cfg[k]]

(***************************************************************************)
(* One loading function: all its rows, none when the connection is         *)
(* refused, or, when the database goes down among its queries, the rows    *)
(* read so far and the built-in defaults for the others.                   *)
(***************************************************************************)
Load(ks) ==
  \/ /\ dbUp
     /\ cfg' = Override([k \in ks |-> Get(k)], ks)
     /\ UNCHANGED <<dbUp, left, disturbed>>
  \/ /\ ~dbUp
     /\ disturbed' = 2
     /\ UNCHANGED <<cfg, dbUp, left>>
  \/ /\ dbUp
     /\ Spend("faults")
     /\ dbUp' = FALSE
     /\ \E done \in {{}, ks \ {"transport"}} \ {ks} :
          cfg' = Override([k \in ks |-> IF k \in done THEN Get(k)
                                        ELSE Default[k]], ks)
     /\ disturbed' = 2

(***************************************************************************)
(* _create_transport() and the transport's start().  The active transport  *)
(* needs the serials, the replay its file, and any other kind but the      *)
(* passive one is unknown: each of these is a ValueError.  The active one  *)
(* takes the process-wide connection; only a connection with new           *)
(* parameters is opened, and it is published before it is opened.          *)
(***************************************************************************)
Address   == <<cfg["dongle_host"], cfg["inverter_serial"]>>
Active    == cfg["transport"] = "tcp_active"
Creatable == \/ cfg["transport"] = "tcp_passive"
             \/ cfg["transport"] = "replay" /\ ReplayFile
             \/ Active /\ cfg["inverter_serial"] # Empty
Started   == [kind |-> cfg["transport"], address |-> Address]

StartTransport ==
  /\ Creatable
  /\ transport' = Started
  /\ shared' = IF Active THEN Address ELSE shared
  /\ UNCHANGED left

\* One of the two raises: there is nothing to build, or the dongle refuses a
\* connection.
Refused ==
  \/ ~Creatable /\ UNCHANGED left
  \/ Active /\ Creatable /\ shared # Address /\ Spend("faults")

-----------------------------------------------------------------------------
(***************************************************************************)
(* run_collector() and start(), on the main thread.                        *)
(***************************************************************************)
\* What is left of a process that has ended.
Gone ==
  /\ main' = "exited" /\ writer' = "none"
  /\ cfg' = NoCfg /\ driver' = Empty
  /\ transport' = NoTransport /\ shared' = <<>>
  /\ stopped' = FALSE
  /\ fp' = Nothing /\ newFp' = Nothing /\ seen' = Nothing /\ loaded' = Nothing
  /\ half' = Empty
  /\ mqtt' = Empty
  /\ disturbed' = 0

\* A new process: config_from_env().
Launch ==
  /\ main = "exited"
  /\ main' = "seed"
  /\ cfg' = [k \in InCfg |-> IF Env[k] = Empty THEN EnvFallback[k] ELSE Env[k]]
  /\ UNCHANGED <<row, dbUp, writer, driver, transport, shared, stopped, records,
                 mqtt, left, asked, disturbed>>

\* Mutant of SeedFromEnv: the environment wins over what is stored.
SeedFromEnvAlways ==
  /\ main = "seed"
  /\ main' = "serials"
  /\ row' = [k \in Keys |-> IF dbUp /\ Env[k] # Empty THEN Env[k] ELSE row[k]]
  /\ UNCHANGED <<dbUp, writer, cfg, driver, transport, shared, stopped,
                 records, mqtt, left, asked, disturbed>>

\* seed_from_env(): the environment fills rows that are missing or empty.
SeedFromEnv ==
  /\ main = "seed"
  /\ main' = "serials"
  /\ row' = [k \in Keys |->
               IF dbUp /\ row[k] \in {NoRow, Empty} /\ Env[k] # Empty
               THEN Env[k] ELSE row[k]]
  /\ UNCHANGED <<dbUp, writer, cfg, driver, transport, shared, stopped,
                 records, mqtt, left, asked, disturbed>>

LoadAtStart ==
  /\ \/ main = "serials" /\ main' = "outputs" /\ Load(Serials)
     \/ main = "outputs" /\ main' = "core"    /\ Load(Outs)
     \/ main = "core"    /\ main' = "driver"  /\ Load(Core)
  /\ UNCHANGED <<row, writer, driver, transport, shared, stopped, records,
                 mqtt, asked>>

\* The stored inverter_model, or the environment's, or the default one.
ChooseDriver ==
  /\ main = "driver"
  /\ main' = "build"
  /\ driver' = LET stored == IF dbUp THEN Get("inverter_model") ELSE Empty
               IN  IF stored # Empty THEN stored
                   ELSE IF Env["inverter_model"] # Empty
                        THEN Env["inverter_model"]
                        ELSE Default["inverter_model"]
  /\ disturbed' = IF dbUp THEN disturbed ELSE 2
  /\ UNCHANGED <<row, dbUp, writer, cfg, transport, shared, stopped, records,
                 mqtt, left, asked>>

\* start() as far as the writer thread.  An exception ends the process.
Build ==
  /\ main = "build"
  /\ \/ /\ StartTransport
        /\ main' = "fingerprint" /\ writer' = "idle"
        /\ UNCHANGED <<cfg, driver, stopped, records, mqtt, disturbed>>
     \/ Refused /\ Gone
  /\ UNCHANGED <<row, dbUp, asked>>

\* start() records what it believes to be running, after the fact.
RecordFingerprint ==
  /\ main = "fingerprint"
  /\ main' = "restart values"
  /\ \E s \in {Read, Default} :
       Reads(s) /\ fp' = s /\ disturbed' = IF s = Read THEN disturbed ELSE 2
  /\ UNCHANGED <<row, writer, cfg, driver, transport, shared, stopped, newFp,
                 seen, loaded, half, mqtt, asked>>

\* One query for each of the two keys.
RecordTransport ==
  /\ main = "restart values"
  /\ main' = "model value"
  /\ \E s \in {Read, Default} : Reads(s) /\ half' = s["transport"]
  /\ UNCHANGED <<row, writer, cfg, driver, transport, shared, stopped, fp,
                 newFp, seen, loaded, mqtt, asked, disturbed>>

RecordRestartValues ==
  /\ main = "model value"
  /\ main' = "wait"
  /\ half' = Empty
  /\ \E s \in {Read, Default} :
       /\ Reads(s)
       /\ loaded' = [k \in RestartKeys |-> IF k = "transport" THEN half
                                           ELSE s[k]]
  /\ UNCHANGED <<row, writer, cfg, driver, transport, shared, stopped, fp,
                 newFp, seen, mqtt, asked, disturbed>>

\* wait() returns when the writer is done, and the process ends.
Exit ==
  /\ main = "wait" /\ writer = "done"
  /\ Gone
  /\ UNCHANGED <<row, dbUp, left, asked>>

-----------------------------------------------------------------------------
(***************************************************************************)
(* _check_config_change() in a round of the writer thread.                 *)
(***************************************************************************)
\* Mutant of Wake: the loop does not look at _stop.
WakeAlways ==
  /\ writer = "idle"
  /\ writer' = "check"
  /\ UNCHANGED <<row, dbUp, main, cfg, driver, transport, shared, stopped,
                 records, mqtt, left, asked, disturbed>>

\* The wait for the write interval: a stopped collector leaves the loop.
Wake ==
  /\ writer = "idle"
  /\ writer' = IF stopped THEN "done" ELSE "check"
  /\ UNCHANGED <<row, dbUp, main, cfg, driver, transport, shared, stopped,
                 records, mqtt, left, asked, disturbed>>

\* Before start() has recorded a fingerprint there is nothing to compare.
CheckEarly ==
  /\ writer = "check" /\ fp = Nothing
  /\ writer' = "work"
  /\ UNCHANGED <<row, dbUp, main, cfg, driver, transport, shared, stopped,
                 records, mqtt, left, asked, disturbed>>

Check ==
  /\ writer = "check" /\ fp # Nothing
  /\ \E s \in {Read, Default} :
       /\ Reads(s)
       /\ newFp' = IF s = fp THEN Nothing ELSE s
       /\ writer' = IF s = fp THEN "work" ELSE "decide"
       /\ disturbed' = IF s # Read THEN 2
                       ELSE IF s = fp /\ disturbed = 2 THEN 2
                       ELSE 0
  /\ UNCHANGED <<row, main, cfg, driver, transport, shared, stopped, fp, seen,
                 loaded, half, mqtt, asked>>

\* loaded.get(k, "")
LoadedValue(k) == IF k \in DOMAIN loaded THEN loaded[k] ELSE Empty

\* A second reading of the table decides between stop() and a reload.
Decide ==
  /\ writer = "decide"
  /\ \E s \in {Read, Default} :
       /\ Reads(s)
       /\ IF \E k \in RestartKeys : s[k] # LoadedValue(k)
          THEN /\ stopped' = TRUE
               /\ transport' = NoTransport
               /\ writer' = "work"
               /\ newFp' = Nothing
               /\ UNCHANGED seen
          ELSE /\ writer' = "serials"
               /\ seen' = s
               /\ UNCHANGED <<stopped, transport, newFp>>
  /\ UNCHANGED <<row, main, cfg, driver, shared, fp, loaded, half, mqtt, asked,
                 disturbed>>

LoadInRound ==
  /\ \/ writer = "serials" /\ writer' = "outputs" /\ Load(Serials)
     \/ writer = "outputs" /\ writer' = "core"    /\ Load(Outs)
     \/ writer = "core"    /\ writer' = "rebuild" /\ Load(Core)
  /\ UNCHANGED <<row, main, driver, transport, shared, stopped, records, mqtt,
                 asked>>

\* Mutant of Rebuild: the table is read once more for the fingerprint.
RebuildReadsAgain ==
  /\ writer = "rebuild"
  /\ writer' = "work"
  /\ StartTransport
  /\ fp' = Read
  /\ loaded' = [k \in RestartKeys |-> seen[k]]
  /\ newFp' = Nothing /\ seen' = Nothing
  /\ UNCHANGED <<row, dbUp, main, cfg, driver, stopped, half, mqtt, asked,
                 disturbed>>

\* The old transport is stopped before the new one is made; only when that
\* succeeds are the fingerprint and the restart values replaced.
Rebuild ==
  /\ writer = "rebuild"
  /\ writer' = "work"
  /\ \/ /\ StartTransport
        /\ fp' = newFp
        /\ loaded' = [k \in RestartKeys |-> seen[k]]
        /\ UNCHANGED disturbed
     \/ /\ Refused
        /\ shared' = IF Creatable THEN Address ELSE shared
        /\ transport' = NoTransport
        /\ disturbed' = 2
        /\ UNCHANGED <<fp, loaded>>
  /\ newFp' = Nothing /\ seen' = Nothing
  /\ UNCHANGED <<row, dbUp, main, cfg, driver, stopped, half, mqtt, asked>>

\* The rest of the round: decode, write, alerts, quick charge, automations.
Work ==
  /\ writer = "work"
  /\ writer' = "idle"
  /\ UNCHANGED <<row, dbUp, main, cfg, driver, transport, shared, stopped,
                 records, mqtt, left, asked, disturbed>>

-----------------------------------------------------------------------------
(***************************************************************************)
(* Requests that change the table.                                         *)
(***************************************************************************)
Reloading == writer \in {"decide", "serials", "outputs", "core", "rebuild"}
Starting  == main \in {"serials", "outputs", "core", "driver", "build",
                       "fingerprint", "restart values", "model value"}

Disturb == disturbed' = IF Starting \/ disturbed > 0 THEN 2
                        ELSE IF Reloading THEN 1
                        ELSE 0

\* PUT /api/settings/{name}
PutSetting(k, v) ==
  /\ dbUp
  /\ Spend("puts")
  /\ row' = [row EXCEPT ![k] = v]
  /\ asked' = [asked EXCEPT ![k] = v]
  /\ Disturb
  /\ UNCHANGED <<dbUp, process>>

\* seed_defaults(), which GET /api/settings calls: INSERT IGNORE.
SeedDefaults ==
  /\ dbUp
  /\ \E k \in Keys : row[k] = NoRow
  /\ row' = [k \in Keys |-> Get(k)]
  /\ UNCHANGED <<dbUp, process, left, asked, disturbed>>

\* _on_set(), for a value that _validate_and_convert() takes: the row first.
\* set_() logs a failed query and returns, so the handler goes on and
\* acknowledges.
MqttStore(v) ==
  /\ main \in {"fingerprint", "restart values", "model value", "wait"}
  /\ mqtt = Empty
  /\ dbUp
  /\ mqtt' = v
  /\ \/ /\ Spend("puts")
        /\ row' = [row EXCEPT !["alerts_soc_low"] = v]
        /\ asked' = [asked EXCEPT !["alerts_soc_low"] = v]
        /\ Disturb
        /\ UNCHANGED dbUp
     \/ /\ Spend("faults")
        /\ dbUp' = FALSE
        /\ UNCHANGED <<row, asked, disturbed>>
  /\ UNCHANGED <<main, writer, cfg, driver, transport, shared, stopped,
                 records>>

\* Then the running configuration.
MqttApply ==
  /\ main \in {"fingerprint", "restart values", "model value", "wait"}
  /\ mqtt # Empty
  /\ cfg' = [cfg EXCEPT !["alerts_soc_low"] = mqtt]
  /\ mqtt' = Empty
  /\ disturbed' = IF row["alerts_soc_low"] # mqtt THEN 2
                  ELSE IF disturbed = 0 THEN 1
                  ELSE disturbed
  /\ UNCHANGED <<row, dbUp, main, writer, driver, transport, shared, stopped,
                 records, left, asked>>

-----------------------------------------------------------------------------
(***************************************************************************)
(* The surroundings (external): the database, the container runtime.       *)
(***************************************************************************)
DbDown ==
  /\ dbUp
  /\ Spend("faults")
  /\ dbUp' = FALSE
  /\ UNCHANGED <<row, process, asked, disturbed>>

DbUp ==
  /\ ~dbUp
  /\ dbUp' = TRUE
  /\ UNCHANGED <<row, process, left, asked, disturbed>>

Crash ==
  /\ main # "exited"
  /\ Spend("faults")
  /\ Gone
  /\ UNCHANGED <<row, dbUp, asked>>

-----------------------------------------------------------------------------
Init ==
  /\ row = [k \in Keys |-> NoRow]
  /\ dbUp = TRUE
  /\ main = "exited"
  /\ writer = "none"
  /\ cfg = NoCfg
  /\ driver = Empty
  /\ transport = NoTransport
  /\ shared = <<>>
  /\ stopped = FALSE
  /\ fp = Nothing /\ newFp = Nothing /\ seen = Nothing /\ loaded = Nothing
  /\ half = Empty
  /\ mqtt = Empty
  /\ left = [puts |-> MaxPuts, faults |-> MaxFaults]
  /\ asked = [k \in Keys |-> NoRow]
  /\ disturbed = 0

MainStep   == Launch \/ SeedFromEnv \/ LoadAtStart \/ ChooseDriver \/ Build
              \/ RecordFingerprint \/ RecordTransport \/ RecordRestartValues \/ Exit

\* The writer dies with its process.
WriterStep == /\ main # "exited"
              /\ \/ Wake \/ CheckEarly \/ Check \/ Decide \/ LoadInRound
                 \/ Rebuild \/ Work

Requests == \/ \E k \in Keys : \E v \in Choices[k] : PutSetting(k, v)
            \/ SeedDefaults
            \/ \E v \in Choices["alerts_soc_low"] \cap Convertible : MqttStore(v)

Next == MainStep \/ WriterStep \/ Requests \/ MqttApply
        \/ DbDown \/ DbUp \/ Crash

Spec == Init /\ [][Next]_vars

\* Docker restarts an exited collector, threads run, the database comes back.
Fairness == WF_vars(MainStep) /\ WF_vars(WriterStep) /\ WF_vars(MqttApply)
            /\ WF_vars(DbUp)

FairSpec == Spec /\ Fairness

-----------------------------------------------------------------------------
TypeOK ==
  /\ row \in [Keys -> Stored \cup {NoRow}]
  /\ dbUp \in BOOLEAN
  /\ main \in {"exited", "seed", "serials", "outputs", "core", "driver",
               "build", "fingerprint", "restart values", "model value", "wait"}
  /\ writer \in {"none", "idle", "check", "decide", "serials", "outputs",
                 "core", "rebuild", "work", "done"}
  /\ cfg \in [InCfg -> Stored]
  /\ driver \in Stored
  /\ transport = NoTransport
       \/ transport \in [kind : Stored, address : Stored \X Stored]
  /\ shared = <<>> \/ shared \in Stored \X Stored
  /\ stopped \in BOOLEAN
  /\ fp \in Settings \cup {Nothing}
  /\ newFp \in Settings \cup {Nothing}
  /\ seen \in Settings \cup {Nothing}
  /\ loaded \in [RestartKeys -> Stored] \cup {Nothing}
  /\ half \in Stored
  /\ mqtt \in Stored
  /\ left \in [puts : 0..MaxPuts, faults : 0..MaxFaults]
  /\ asked \in [Keys -> Stored \cup {NoRow}]
  /\ disturbed \in 0..2

\* The collector is between two reloads and has recorded what it runs.
Settled == /\ main = "wait" /\ writer \in {"idle", "check", "work"}
           /\ ~stopped /\ mqtt = Empty

\* The running objects are those the stored settings ask for; a value that
\* is empty or does not convert asks for nothing.
Follows == /\ \A k \in InCfg : Taken(k, Get(k)) => cfg[k] = Get(k)
           /\ transport = Started

(***************************************************************************)
(* When the fingerprint says that nothing has changed, nothing has: the    *)
(* configuration and the transport are those of the stored settings, also  *)
(* after a change that fell into a reload.  A stored value that is empty   *)
(* or does not convert counts for nothing: the collector goes on with the  *)
(* value it had, which the table does not tell.  The other exceptions are  *)
(* told by disturbed: a reading that failed, a transport that could not be *)
(* started, a change during start-up, a change during a reload or by MQTT  *)
(* followed by another one that may undo it, an MQTT value overtaken or    *)
(* not stored.                                                             *)
(***************************************************************************)
FingerprintMeansLoaded ==
  Settled /\ disturbed < 2 /\ dbUp /\ fp = Read => Follows

(***************************************************************************)
(* What a user stored stays stored, whatever is seeded from the defaults   *)
(* and from the environment, before and after restarts (an emptied row may *)
(* be filled again).                                                       *)
(***************************************************************************)
UserValueKept ==
  \A k \in Keys : asked[k] \notin {NoRow, Empty} => row[k] = asked[k]

(***************************************************************************)
(* Outages, crashes, refused starts and restart-required changes do not    *)
(* end in a restart loop: once a serial and a transport that can be made   *)
(* stay stored, whatever was stored before, the writer goes on making      *)
(* rounds in a process that is not stopping.                               *)
(***************************************************************************)
Usable ==
  /\ row["inverter_serial"] \notin {NoRow, Empty}
  /\ \/ Get("transport") \in {"tcp_active", "tcp_passive"}
     \/ Get("transport") = "replay" /\ ReplayFile

CollectorComesBack ==
  <>[]Usable
    => []<>(writer = "work" /\ main = "wait" /\ ~stopped)

(***************************************************************************)
(* collector.py:448-452 as it stands: the database is the source of truth, *)
(* and a change of it is re-applied, so that a collector which sees no     *)
(* difference runs what is stored.                                         *)
(***************************************************************************)
DatabaseIsTruth ==
  Settled /\ dbUp /\ fp = Read =>
    /\ \A k \in InCfg : Get(k) # Empty => cfg[k] = Get(k)
    /\ transport = Started

\* settings.py:409-413 offers three transports; the collector is to come back
\* with any of them.
EveryTransportComesBack ==
  <>[](/\ row["inverter_serial"] \notin {NoRow, Empty}
       /\ Get("transport") \in {"tcp_active", "tcp_passive", "replay"})
    => []<>(writer = "work" /\ main = "wait" /\ ~stopped)

-----------------------------------------------------------------------------
(***************************************************************************)
(* The inductive invariant: what the fingerprint stands for.               *)
(***************************************************************************)
Got      == [k \in Keys |-> Get(k)]
AllEmpty == [k \in Keys |-> Empty]

\* cfg holds what the settings s say about the keys ks.
Holds(s, ks) == \A k \in ks : Taken(k, s[k]) => cfg[k] = s[k]

\* There is no writer before the transport is started, nothing to compare
\* before the fingerprint is recorded, and a reload has read the settings.
Control ==
  /\ main \in {"exited", "seed", "serials", "outputs", "core", "driver", "build"}
       => writer = "none" /\ fp = Nothing /\ mqtt = Empty
  /\ main = "fingerprint" => fp = Nothing /\ ~Reloading
  /\ writer \in {"serials", "outputs", "core", "rebuild"} => seen \in Settings

\* What start-up has loaded so far is what is stored.
StartHolds ==
  disturbed < 2 =>
    /\ main = "outputs" => Holds(Got, Serials)
    /\ main = "core" => Holds(Got, Serials \cup Outs)
    /\ main \in {"driver", "build", "fingerprint"} => Holds(Got, InCfg)
    /\ main = "fingerprint" => transport = Started

\* The settings a reload was started for are still those stored, or what it
\* has loaded of them is what is stored now.
ReloadHolds ==
  Reloading /\ disturbed < 2 =>
    /\ disturbed = 0 => newFp \in {Got, AllEmpty}
    /\ newFp = Got =>
         /\ writer = "outputs" => Holds(Got, Serials)
         /\ writer = "core" => Holds(Got, Serials \cup Outs)
         /\ writer = "rebuild" => Holds(Got, InCfg)

\* Between two reloads the configuration is that of the fingerprint; after a
\* change by MQTT it is that of the stored settings, if they are those of the
\* fingerprint again.
QuietHolds ==
  /\ main \in {"restart values", "model value", "wait"}
  /\ writer \in {"idle", "check", "work"}
  /\ ~stopped /\ disturbed < 2
  => /\ transport = Started
     /\ disturbed = 0 => Holds(fp, InCfg)
     /\ fp = Got => Holds(Got, InCfg)

ConfigInv ==
  TypeOK /\ Control /\ StartHolds /\ ReloadHolds /\ QuietHolds
=============================================================================
