------------------------------- MODULE Outputs -------------------------------
(***************************************************************************)
(* What the collector's writer thread does with a decoded snapshot: the    *)
(* statements that store it, the connection they use, the alerts it raises *)
(* and the messages they cause (collector/outputs.py, alerts.py,           *)
(* notifiers.py), in the rounds of collector.py's _writer_loop().          *)
(*                                                                         *)
(* Outputs opens one connection to MariaDB and hands it to Alerts, which   *)
(* keeps it.  Outputs, Alerts and Notifiers are built anew when the        *)
(* settings change and when the process restarts; the process restarts     *)
(* when the database was away at the moment the settings were compared.    *)
(* What the broker retains, the rows stored and the messages delivered     *)
(* outlive them.                                                           *)
(*                                                                         *)
(* Time passes in rounds.  Readings are named by what the alerts make of   *)
(* them.                                                                   *)
(***************************************************************************)
EXTENDS Naturals

CONSTANTS
  Alerts,       \* names of level alerts, and perhaps "grid_loss"
  Readings,     \* what the inverter may report
  Fires,        \* Fires[n]: the readings a level alert n is active for
  NoGrid,       \* the readings without grid voltage or frequency
  GridDelay,    \* alerts_grid_lost_threshold_sec, in rounds
  DefaultDelay, \* what _cfg_float() puts in the place of 0
  Channels,     \* the configured notifiers, of "email" and "webhook"
  Throttle,     \* _min_interval_sec, in rounds
  MaxId,        \* bound: the last snapshot id stands for all later ones
  MaxFaults,    \* bound: outages, failed statements, failed messages, a broker
                \* that is away when Outputs is built
  MaxReloads    \* bound: changes of the settings

Grid == "grid_loss"

ASSUME OutputsAssumption ==
  /\ NoGrid \subseteq Readings
  /\ DOMAIN Fires = Alerts \ {Grid}
  /\ \A n \in DOMAIN Fires : Fires[n] \subseteq Readings
  /\ GridDelay \in Nat /\ DefaultDelay \in Nat \ {0}
  /\ Throttle \in Nat /\ MaxId \in Nat \ {0}
  /\ MaxFaults \in Nat /\ MaxReloads \in Nat

VARIABLES
  dbUp,      \* MariaDB answers
  pc,        \* where the writer thread is in its round
  known,     \* whether the fingerprint was read from a database that was up
  leaving,   \* _stop is set: the process ends with this round
  reading,   \* _latest_decoded
  conn,      \* Outputs._mariadb_conn: "ok", "dead" (its socket), or "none"
  alertConn, \* Alerts._mariadb_conn: "same" as conn, "closed", or "none"
  client,    \* the alerts have an MQTT client whose loop runs
  enabled,   \* alerts_enabled
  state,     \* Alerts._state
  lost,      \* rounds in a row without grid: _grid_lost_since
  age        \* age[ch][n]: rounds since _last_sent, up to Throttle

VARIABLES
  snap,      \* the newest row of lux_snapshots, and how far its write got
  broker,    \* the retained alert states at the broker
  rows,      \* the state in the last lux_alerts row of each alert
  said,      \* said[ch][n]: the last message delivered
  own,       \* observation: the alerts shown by the present Alerts object
  left       \* what is left of the bounds

process == <<known, leaving, conn, alertConn, client, enabled, state, lost,
             age, own>>
stores  == <<snap, broker, rows, said>>
outputVars == <<dbUp, pc, reading, process, stores, left>>

Unset  == "unset"
Shown  == {Unset, "ON", "OFF"}
OnOff(active) == IF active THEN "ON" ELSE "OFF"
Stages == {"row", "registers", "hourly"}

Spend(what) == left[what] > 0 /\ left' = [left EXCEPT ![what] = @ - 1]

-----------------------------------------------------------------------------
(***************************************************************************)
(* Outputs.__init__, with the Alerts and Notifiers it builds.              *)
(***************************************************************************)
\* Mutant of Fresh: the alert states survive.
FreshKeepsState ==
  /\ conn' = IF dbUp THEN "ok" ELSE "none"
  /\ alertConn' = IF dbUp THEN "same" ELSE "none"
  /\ state' = state
  /\ lost' = 0
  /\ own' = {}
  /\ age' = [ch \in Channels |-> [n \in Alerts |-> Throttle]]

Fresh ==
  /\ conn' = IF dbUp THEN "ok" ELSE "none"
  /\ alertConn' = IF dbUp THEN "same" ELSE "none"
  /\ state' = [n \in Alerts |-> FALSE]
  /\ lost' = 0
  /\ own' = {}
  /\ age' = [ch \in Channels |-> [n \in Alerts |-> Throttle]]

\* MQTT is connected here: by Outputs or, when that fails, by Alerts for
\* itself; a broker that is away for both is not tried again.  Either client
\* is stopped by close().
Connect(remaining, alerts) ==
  \/ client' = TRUE /\ left' = remaining
  \/ /\ left.faults > 0
     /\ left' = [remaining EXCEPT !.faults = @ - 1]
     /\ client' = FALSE \/ (alerts /\ client' = TRUE)

\* A new process.
Restart ==
  /\ pc = "gone"
  /\ pc' = "idle"
  /\ Fresh
  /\ Connect(left, enabled)
  /\ known' = dbUp
  /\ leaving' = FALSE
  /\ UNCHANGED <<dbUp, reading, enabled, stores>>

-----------------------------------------------------------------------------
(***************************************************************************)
(* A round of _writer_loop().                                              *)
(***************************************************************************)
\* _check_config_change(): settings that cannot be read differ from those that
\* could, also in what needs a restart.  stop() closes the outputs, and the
\* round goes on.
Begin(r) ==
  /\ pc = "idle"
  /\ pc' = "write"
  /\ reading' = r
  /\ IF dbUp = known
     THEN UNCHANGED process
     ELSE /\ leaving' = TRUE
          /\ client' = FALSE
          /\ conn' = IF conn = "none" THEN "none" ELSE "dead"
          /\ UNCHANGED <<known, alertConn, enabled, state, lost, age, own>>
  /\ UNCHANGED <<dbUp, stores, left>>

\* The same with a setting changed in the meantime: _reload_config().
BeginReload(r) ==
  /\ pc = "idle" /\ dbUp /\ known
  /\ pc' = "write"
  /\ reading' = r
  /\ left.reloads > 0
  /\ Fresh
  /\ enabled' \in BOOLEAN
  /\ Connect([left EXCEPT !.reloads = @ - 1], enabled')
  /\ UNCHANGED <<dbUp, known, leaving, stores>>

\* The connection is closed and forgotten by Outputs, not by Alerts.
Forget ==
  /\ conn' = "none"
  /\ alertConn' = IF alertConn = "same" THEN "closed" ELSE alertConn

\* Mutant of EnsureMariadb: only ping() reconnects, nothing connects anew.
EnsureByPing ==
  /\ pc = "write"
  /\ IF dbUp /\ conn # "none"
     THEN pc' = "snapshot" /\ conn' = "ok" /\ UNCHANGED alertConn
     ELSE pc' = "alerts" /\ Forget
  /\ UNCHANGED <<dbUp, known, leaving, reading, client, enabled, state, lost,
                 age, own, stores, left>>

\* _ensure_mariadb(): ping() revives the same connection, and when it cannot a
\* new one is opened.
EnsureMariadb ==
  /\ pc = "write"
  /\ IF dbUp
     THEN /\ pc' = "snapshot"
          /\ conn' = "ok"
          /\ UNCHANGED alertConn
     ELSE pc' = "alerts" /\ Forget
  /\ UNCHANGED <<dbUp, known, leaving, reading, client, enabled, state, lost,
                 age, own, stores, left>>

NextId == IF snap.id < MaxId THEN snap.id + 1 ELSE MaxId

\* _write_mariadb(): three statements, each committed by itself.
Statement(from, to, result) ==
  /\ pc = from /\ conn = "ok"
  /\ pc' = to
  /\ snap' = result
  /\ UNCHANGED <<dbUp, reading, process, broker, rows, said, left>>

InsertSnapshot ==
  Statement("snapshot", "registers", [id |-> NextId, stage |-> "row"])

InsertRegisters ==
  Statement("registers", "hourly", [snap EXCEPT !.stage = "registers"])

UpdateHourlyEnergy ==
  Statement("hourly", "written", [snap EXCEPT !.stage = "hourly"])

\* A statement fails, because the connection is gone or for itself.
WriteFails ==
  /\ pc \in {"snapshot", "registers", "hourly"}
  /\ \/ conn = "dead" /\ UNCHANGED left
     \/ conn = "ok" /\ Spend("faults")
  /\ pc' = "alerts"
  /\ Forget
  /\ UNCHANGED <<dbUp, known, leaving, reading, client, enabled, state, lost,
                 age, own, stores>>

\* InfluxDB and the state topics, which keep nothing.
Published ==
  /\ pc = "written"
  /\ pc' = "alerts"
  /\ UNCHANGED <<dbUp, reading, process, stores, left>>

-----------------------------------------------------------------------------
(***************************************************************************)
(* Alerts.evaluate(), and what it does on an edge.                         *)
(***************************************************************************)
\* float(value or default)
Delay == IF GridDelay = 0 THEN DefaultDelay ELSE GridDelay

LostNow == IF reading \notin NoGrid THEN 0
           ELSE IF lost <= Delay THEN lost + 1 ELSE lost

Active(n) == IF n = Grid THEN LostNow > Delay ELSE reading \in Fires[n]

Edges == {n \in Alerts : Active(n) # state[n]}

\* Mutant of Older: the time is not compared with the limit.
OlderStill(k) == k + 1

Older(k) == IF k < Throttle THEN k + 1 ELSE k

\* _rate_ok(): the time is noted before the message is sent.
Tried(ch, n) == n \in Edges /\ age[ch][n] = Throttle

\* A message that fails is logged; both kinds of failure look the same later.
Notify ==
  /\ age' = [ch \in Channels |-> [n \in Alerts |->
               IF Tried(ch, n) THEN 0 ELSE Older(age[ch][n])]]
  /\ \E failed \in SUBSET Channels :
       /\ said' = [ch \in Channels |-> [n \in Alerts |->
                     IF Tried(ch, n) /\ ch \notin failed
                     THEN OnOff(Active(n)) ELSE said[ch][n]]]
       /\ IF failed = {} THEN UNCHANGED left
          ELSE /\ \A ch \in failed : \E n \in Alerts : Tried(ch, n)
               /\ Spend("faults")

Shows(n) == client /\ n \in Edges

Evaluated ==
  /\ pc = "alerts" /\ enabled
  /\ pc' = IF leaving THEN "gone" ELSE "idle"
  /\ lost' = LostNow
  /\ state' = [n \in Alerts |-> Active(n)]
  /\ rows' = [n \in Alerts |-> IF /\ n \in Edges
                                  /\ alertConn = "same" /\ conn = "ok"
                               THEN OnOff(Active(n)) ELSE rows[n]]
  /\ Notify
  /\ UNCHANGED <<dbUp, known, leaving, reading, conn, alertConn, client,
                 enabled, snap>>

\* Mutant of Evaluate: an alert that clears is not published.
EvaluateOnly ==
  /\ Evaluated
  /\ broker' = [n \in Alerts |-> IF Shows(n) /\ Active(n) THEN "ON"
                                 ELSE broker[n]]
  /\ own' = own \cup {n \in Alerts : Shows(n)}

Evaluate ==
  /\ Evaluated
  /\ broker' = [n \in Alerts |-> IF Shows(n) THEN OnOff(Active(n)) ELSE broker[n]]
  /\ own' = own \cup {n \in Alerts : Shows(n)}

\* Without alerts_enabled there is no Alerts object.
NoAlerts ==
  /\ pc = "alerts" /\ ~enabled
  /\ pc' = IF leaving THEN "gone" ELSE "idle"
  /\ UNCHANGED <<dbUp, reading, process, stores, left>>

-----------------------------------------------------------------------------
(***************************************************************************)
(* The surroundings (external).                                            *)
(***************************************************************************)
DbDown ==
  /\ dbUp /\ Spend("faults")
  /\ dbUp' = FALSE
  /\ conn' = IF conn = "ok" THEN "dead" ELSE conn
  /\ UNCHANGED <<pc, known, leaving, reading, alertConn, client, enabled,
                 state, lost, age, own, stores>>

DbUp ==
  /\ ~dbUp
  /\ dbUp' = TRUE
  /\ UNCHANGED <<pc, reading, process, stores, left>>

Crash ==
  /\ pc # "gone" /\ Spend("faults")
  /\ pc' = "gone"
  /\ UNCHANGED <<dbUp, reading, process, stores>>

-----------------------------------------------------------------------------
OutputsInit ==
  /\ dbUp = TRUE
  /\ pc = "idle"
  /\ known = TRUE
  /\ leaving = FALSE
  /\ reading \in Readings
  /\ conn = "ok" /\ alertConn = "same"
  /\ client = TRUE
  /\ enabled = TRUE
  /\ state = [n \in Alerts |-> FALSE]
  /\ lost = 0
  /\ own = {}
  /\ age = [ch \in Channels |-> [n \in Alerts |-> Throttle]]
  /\ snap = [id |-> 0, stage |-> "hourly"]
  /\ broker = [n \in Alerts |-> Unset]
  /\ rows = [n \in Alerts |-> Unset]
  /\ said = [ch \in Channels |-> [n \in Alerts |-> Unset]]
  /\ left = [faults |-> MaxFaults, reloads |-> MaxReloads]

Writing  == InsertSnapshot \/ InsertRegisters \/ UpdateHourlyEnergy
            \/ WriteFails
Alerting == Evaluate \/ NoAlerts

\* The steps of the writer thread, and the restart of its process.
WriterStep == \/ \E r \in Readings : Begin(r)
              \/ EnsureMariadb \/ Writing \/ Published \/ Alerting \/ Restart

OutputsNext == \/ WriterStep
               \/ \E r \in Readings : BeginReload(r)
               \/ DbDown \/ DbUp \/ Crash

OutputsSpec == OutputsInit /\ [][OutputsNext]_outputVars

\* The writer loop runs, Docker restarts it, the database comes back.
OutputsFairness == WF_outputVars(WriterStep) /\ WF_outputVars(DbUp)

OutputsFairSpec == OutputsSpec /\ OutputsFairness

-----------------------------------------------------------------------------
OutputsTypeOK ==
  /\ dbUp \in BOOLEAN
  /\ pc \in {"idle", "write", "snapshot", "registers", "hourly", "written",
             "alerts", "gone"}
  /\ known \in BOOLEAN /\ leaving \in BOOLEAN
  /\ reading \in Readings
  /\ conn \in {"ok", "dead", "none"}
  /\ alertConn \in {"same", "closed", "none"}
  /\ client \in BOOLEAN /\ enabled \in BOOLEAN
  /\ state \in [Alerts -> BOOLEAN]
  /\ lost \in 0..Delay + 1
  /\ age \in [Channels -> [Alerts -> 0..Throttle]]
  /\ snap \in [id : 0..MaxId, stage : Stages]
  /\ broker \in [Alerts -> Shown]
  /\ rows \in [Alerts -> Shown]
  /\ said \in [Channels -> [Alerts -> Shown]]
  /\ own \subseteq Alerts
  /\ left \in [faults : 0..MaxFaults, reloads : 0..MaxReloads]

(***************************************************************************)
(* outputs.py:343-350: after an outage, after a failed statement and after *)
(* a restart the collector stores complete snapshots again.                *)
(***************************************************************************)
WritingResumes == <>[]dbUp => []<>(pc = "written")

(***************************************************************************)
(* An alert that stays active is shown by the broker in the end, and goes  *)
(* on being shown, whatever restarts and reloads forget in between: the    *)
(* edge is seen again by an Alerts object without a past.  (The opposite   *)
(* edge is lost with the state; see README.)                               *)
(***************************************************************************)
ActiveAlertIsShown ==
  \A n \in Alerts :
    <>[](client /\ enabled /\ state[n]) => <>[](broker[n] = "ON")

(***************************************************************************)
(* What the broker retains of an alert is its state, from the moment the   *)
(* present Alerts object has published it: over thresholds crossed back    *)
(* and forth, the delay of grid_loss, outages of the database and messages *)
(* that fail.  (A state retained from an earlier object may be wrong.)     *)
(***************************************************************************)
RetainedIsState ==
  \A n \in own : client => broker[n] = OnOff(state[n])

(***************************************************************************)
(* alerts.py:3-4: "Publishes alert state changes to MQTT [...] and writes  *)
(* alert events to MariaDB", here: when Outputs has a working connection.  *)
(***************************************************************************)
AlertEventsAreStored ==
  [][\A n \in Alerts : state[n] # state'[n] /\ pc = "alerts" /\ conn = "ok"
                         => rows'[n] = OnOff(state'[n])]_outputVars
=============================================================================
