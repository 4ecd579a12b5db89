----------------------------- MODULE OutputsProofs -----------------------------
(***************************************************************************)
(* Machine-checked safety of Outputs, for every set of alerts, readings    *)
(* and channels and every number of outages and reloads, and then of       *)
(* SnapshotStream, which feeds on it, for every set of clients and every   *)
(* number of connections.                                                  *)
(***************************************************************************)
EXTENDS SnapshotStream, FiniteSetTheorems, TLAPS

-----------------------------------------------------------------------------
LEMMA BoundFacts ==
  /\ Throttle \in Nat /\ MaxId \in Nat \ {0} /\ MaxFaults \in Nat
  /\ MaxReloads \in Nat /\ Delay \in Nat /\ NoGrid \subseteq Readings
BY OutputsAssumption DEF Delay

LEMMA SpendType ==
  ASSUME OutputsTypeOK, NEW what \in {"faults", "reloads"}, Spend(what)
  PROVE  left' \in [faults : 0 .. MaxFaults, reloads : 0 .. MaxReloads]
<1>1. /\ left \in [faults : 0 .. MaxFaults, reloads : 0 .. MaxReloads]
      /\ left[what] > 0 /\ left' = [left EXCEPT ![what] = left[what] - 1]
  BY DEF OutputsTypeOK, Spend
<1>2. CASE what = "faults"
  BY <1>1, <1>2, BoundFacts
<1>3. CASE what = "reloads"
  BY <1>1, <1>3, BoundFacts
<1>4. QED
  BY <1>2, <1>3

LEMMA OnOffType == \A b : OnOff(b) \in Shown
BY DEF OnOff, Shown

\* What a new Outputs starts with.
LEMMA FreshType ==
  ASSUME Fresh
  PROVE  /\ conn' \in {"ok", "dead", "none"}
         /\ alertConn' \in {"same", "closed", "none"}
         /\ state' \in [Alerts -> BOOLEAN]
         /\ lost' \in 0 .. Delay + 1
         /\ age' \in [Channels -> [Alerts -> 0 .. Throttle]]
         /\ own' = {}
<1>1. state' \in [Alerts -> BOOLEAN]
  BY DEF Fresh
<1>2. age' \in [Channels -> [Alerts -> 0 .. Throttle]]
  BY BoundFacts DEF Fresh
<1>3. lost' \in 0 .. Delay + 1
  BY BoundFacts DEF Fresh
<1>4. QED
  BY <1>1, <1>2, <1>3 DEF Fresh

LEMMA ConnectType ==
  ASSUME OutputsTypeOK, NEW remaining, NEW alerts \in BOOLEAN, Connect(remaining, alerts),
         remaining \in [faults : 0 .. MaxFaults, reloads : 0 .. MaxReloads],
         remaining.faults = left.faults
  PROVE  /\ client' \in BOOLEAN
         /\ left' \in [faults : 0 .. MaxFaults, reloads : 0 .. MaxReloads]
<1>1. CASE client' = TRUE /\ left' = remaining
  BY <1>1
<1>2. CASE /\ client' \in BOOLEAN /\ left.faults > 0
           /\ left' = [remaining EXCEPT !.faults = @ - 1]
  <2>1. client' \in BOOLEAN
    BY <1>2
  <2>2. left' \in [faults : 0 .. MaxFaults, reloads : 0 .. MaxReloads]
    BY <1>2, BoundFacts
  <2>3. QED
    BY <2>1, <2>2
<1>3. QED
  BY <1>1, <1>2 DEF Connect

-----------------------------------------------------------------------------
(***************************************************************************)
(* The stores, and what only the alerts read, are left alone by most       *)
(* steps.                                                                  *)
(***************************************************************************)
LEMMA RestartKeeps ==
  ASSUME OutputsTypeOK, Restart
  PROVE  OutputsTypeOK' /\ own' = {}
<1>1. /\ Fresh /\ Connect(left, enabled) /\ pc' = "idle"
      /\ UNCHANGED <<reading, snap, broker, rows, said>>
  BY DEF Restart, stores
<1>2. /\ left \in [faults : 0 .. MaxFaults, reloads : 0 .. MaxReloads]
      /\ enabled \in BOOLEAN
  BY DEF OutputsTypeOK
<1>3. /\ client' \in BOOLEAN
      /\ left' \in [faults : 0 .. MaxFaults, reloads : 0 .. MaxReloads]
  BY <1>1, <1>2, ConnectType
<1>4. known' \in BOOLEAN /\ leaving' \in BOOLEAN /\ dbUp' \in BOOLEAN
      /\ enabled' \in BOOLEAN
  BY DEF Restart, OutputsTypeOK
<1>5. OutputsTypeOK'
  BY <1>1, <1>3, <1>4, FreshType DEF OutputsTypeOK
<1>6. QED
  BY <1>1, <1>5, FreshType

LEMMA BeginKeeps ==
  ASSUME OutputsTypeOK, NEW r \in Readings, Begin(r)
  PROVE  OutputsTypeOK'
<1>1. /\ pc' = "write" /\ reading' = r
      /\ UNCHANGED <<dbUp, alertConn, enabled, state, lost, age, own, known, snap,
                     broker, rows, said, left>>
  BY DEF Begin, process, stores
<1>2. conn' \in {"ok", "dead", "none"}
  BY DEF Begin, process, OutputsTypeOK
<1>3. leaving' \in BOOLEAN /\ client' \in BOOLEAN
  BY DEF Begin, process, OutputsTypeOK
<1>4. dbUp' \in BOOLEAN /\ enabled' \in BOOLEAN /\ known' \in BOOLEAN
  BY <1>1 DEF OutputsTypeOK
<1>5. QED
  BY <1>1, <1>2, <1>3, <1>4 DEF OutputsTypeOK

LEMMA BeginReloadKeeps ==
  ASSUME OutputsTypeOK, NEW r \in Readings, BeginReload(r)
  PROVE  OutputsTypeOK' /\ own' = {}
<1>1. /\ Fresh /\ Connect([left EXCEPT !.reloads = @ - 1], enabled') /\ pc' = "write"
      /\ reading' = r /\ left.reloads > 0 /\ enabled' \in BOOLEAN
      /\ UNCHANGED <<snap, broker, rows, said>>
  BY DEF BeginReload, stores
<1>2. left \in [faults : 0 .. MaxFaults, reloads : 0 .. MaxReloads]
  BY DEF OutputsTypeOK
<1>3. /\ [left EXCEPT !.reloads = @ - 1]
            \in [faults : 0 .. MaxFaults, reloads : 0 .. MaxReloads]
      /\ [left EXCEPT !.reloads = @ - 1].faults = left.faults
  BY <1>1, <1>2, BoundFacts
<1>4. /\ client' \in BOOLEAN
      /\ left' \in [faults : 0 .. MaxFaults, reloads : 0 .. MaxReloads]
  BY <1>1, <1>3, ConnectType
<1>5. known' \in BOOLEAN /\ leaving' \in BOOLEAN /\ dbUp' \in BOOLEAN
      /\ enabled' \in BOOLEAN
  BY DEF BeginReload, OutputsTypeOK
<1>6. OutputsTypeOK'
  BY <1>1, <1>4, <1>5, FreshType DEF OutputsTypeOK
<1>7. QED
  BY <1>1, <1>6, FreshType

\* Steps outside the alerts.
LEMMA WriteType ==
  ASSUME OutputsTypeOK,
         UNCHANGED <<known, leaving, reading, client, enabled, state, lost, age,
                     own, broker, rows, said>>,
         pc' \in {"idle", "write", "snapshot", "registers", "hourly", "written",
                  "alerts", "gone"},
         conn' \in {"ok", "dead", "none"}, alertConn' \in {"same", "closed", "none"},
         snap' \in [id : 0 .. MaxId, stage : Stages], dbUp' \in BOOLEAN,
         left' \in [faults : 0 .. MaxFaults, reloads : 0 .. MaxReloads]
  PROVE  OutputsTypeOK'
<1>1. /\ known' \in BOOLEAN /\ leaving' \in BOOLEAN /\ client' \in BOOLEAN
      /\ enabled' \in BOOLEAN
  BY DEF OutputsTypeOK
<1>2. /\ reading' \in Readings /\ state' \in [Alerts -> BOOLEAN]
      /\ lost' \in 0 .. Delay + 1 /\ age' \in [Channels -> [Alerts -> 0 .. Throttle]]
      /\ own' \subseteq Alerts
  BY DEF OutputsTypeOK
<1>3. /\ broker' \in [Alerts -> Shown] /\ rows' \in [Alerts -> Shown]
      /\ said' \in [Channels -> [Alerts -> Shown]]
  BY DEF OutputsTypeOK
<1>4. QED
  BY <1>1, <1>2, <1>3 DEF OutputsTypeOK

LEMMA NextIdType ==
  ASSUME OutputsTypeOK
  PROVE  NextId \in 0 .. MaxId /\ snap.id <= NextId
<1>1. snap.id \in 0 .. MaxId
  BY DEF OutputsTypeOK
<1>2. QED
  BY <1>1, BoundFacts DEF NextId

\* The steps of a round that write, and the surroundings.
LEMMA WritingKeeps ==
  ASSUME OutputsTypeOK,
         EnsureMariadb \/ Writing \/ Published \/ NoAlerts \/ DbDown \/ DbUp \/ Crash
  PROVE  /\ OutputsTypeOK'
         /\ UNCHANGED <<client, own, broker, state>>
<1>1. /\ UNCHANGED <<known, leaving, reading, client, enabled, state, lost, age, own,
                     broker, rows, said>>
      /\ pc' \in {"idle", "write", "snapshot", "registers", "hourly", "written",
                  "alerts", "gone"}
  BY DEF OutputsTypeOK, EnsureMariadb, Forget, Writing, Statement, InsertSnapshot,
     InsertRegisters, UpdateHourlyEnergy, WriteFails, Published, NoAlerts, DbDown,
     DbUp, Crash, process, stores
<1>2. conn' \in {"ok", "dead", "none"} /\ alertConn' \in {"same", "closed", "none"}
  BY DEF OutputsTypeOK, EnsureMariadb, Forget, Writing, Statement, InsertSnapshot,
     InsertRegisters, UpdateHourlyEnergy, WriteFails, Published, NoAlerts, DbDown,
     DbUp, Crash, process
<1>3. dbUp' \in BOOLEAN
  BY DEF OutputsTypeOK, EnsureMariadb, Writing, Statement, InsertSnapshot,
     InsertRegisters, UpdateHourlyEnergy, WriteFails, Published, NoAlerts, DbDown,
     DbUp, Crash
<1>4. left' \in [faults : 0 .. MaxFaults, reloads : 0 .. MaxReloads]
  <2>1. left' = left \/ Spend("faults")
    BY DEF EnsureMariadb, Writing, Statement, InsertSnapshot, InsertRegisters,
       UpdateHourlyEnergy, WriteFails, Published, NoAlerts, DbDown, DbUp, Crash
  <2>2. left \in [faults : 0 .. MaxFaults, reloads : 0 .. MaxReloads]
    BY DEF OutputsTypeOK
  <2>3. QED
    BY <2>1, <2>2, SpendType
<1>5. snap' \in [id : 0 .. MaxId, stage : Stages]
  <2>1. snap \in [id : 0 .. MaxId, stage : Stages]
    BY DEF OutputsTypeOK
  <2>2. CASE snap' = snap
    BY <2>1, <2>2
  <2>3. CASE InsertSnapshot
    BY <2>3, NextIdType DEF InsertSnapshot, Statement, Stages
  <2>4. CASE InsertRegisters \/ UpdateHourlyEnergy
    BY <2>1, <2>4 DEF InsertRegisters, UpdateHourlyEnergy, Statement, Stages
  <2>5. QED
    BY <2>2, <2>3, <2>4 DEF EnsureMariadb, Writing, WriteFails, Published, NoAlerts,
       DbDown, DbUp, Crash, stores
<1>6. QED
  BY <1>1, <1>2, <1>3, <1>4, <1>5, WriteType

-----------------------------------------------------------------------------
(***************************************************************************)
(* Alerts.evaluate().                                                      *)
(***************************************************************************)
LEMMA ActiveType ==
  ASSUME OutputsTypeOK
  PROVE  LostNow \in 0 .. Delay + 1 /\ \A n \in Alerts : Active(n) \in BOOLEAN
<1>1. LostNow \in 0 .. Delay + 1
  BY BoundFacts DEF OutputsTypeOK, LostNow
<1>2. \A n \in Alerts : Active(n) \in BOOLEAN
  <2> TAKE n \in Alerts
  <2>1. CASE n = Grid
    BY <2>1 DEF Active
  <2>2. CASE n # Grid
    BY <2>2 DEF Active
  <2>3. QED
    BY <2>1, <2>2
<1>3. QED
  BY <1>1, <1>2

LEMMA NotifyType ==
  ASSUME OutputsTypeOK, Notify
  PROVE  /\ age' \in [Channels -> [Alerts -> 0 .. Throttle]]
         /\ said' \in [Channels -> [Alerts -> Shown]]
         /\ left' \in [faults : 0 .. MaxFaults, reloads : 0 .. MaxReloads]
<1>1. age' \in [Channels -> [Alerts -> 0 .. Throttle]]
  <2>1. \A ch \in Channels, n \in Alerts : age[ch][n] \in 0 .. Throttle
    BY DEF OutputsTypeOK
  <2>2. \A ch \in Channels, n \in Alerts :
          (IF Tried(ch, n) THEN 0 ELSE Older(age[ch][n])) \in 0 .. Throttle
    BY <2>1, BoundFacts DEF Older
  <2>3. QED
    BY <2>2 DEF Notify
<1>2. PICK unsent \in SUBSET Channels :
        /\ said' = [ch \in Channels |-> [n \in Alerts |->
                      IF Tried(ch, n) /\ ch \notin unsent
                      THEN OnOff(Active(n)) ELSE said[ch][n]]]
        /\ left' = left \/ Spend("faults")
  BY DEF Notify
<1>3. said' \in [Channels -> [Alerts -> Shown]]
  <2>1. \A ch \in Channels, n \in Alerts : said[ch][n] \in Shown
    BY DEF OutputsTypeOK
  <2>2. QED
    BY <1>2, <2>1, OnOffType
<1>4. left \in [faults : 0 .. MaxFaults, reloads : 0 .. MaxReloads]
  BY DEF OutputsTypeOK
<1>5. left' \in [faults : 0 .. MaxFaults, reloads : 0 .. MaxReloads]
  BY <1>2, <1>4, SpendType
<1>6. QED
  BY <1>1, <1>3, <1>5

LEMMA EvaluateKeeps ==
  ASSUME OutputsTypeOK, Evaluate
  PROVE  /\ OutputsTypeOK'
         /\ RetainedIsState => RetainedIsState'
<1>1. /\ Notify /\ pc' = (IF leaving THEN "gone" ELSE "idle") /\ lost' = LostNow
      /\ state' = [n \in Alerts |-> Active(n)]
      /\ rows' = [n \in Alerts |-> IF /\ n \in Edges
                                      /\ alertConn = "same" /\ conn = "ok"
                                   THEN OnOff(Active(n)) ELSE rows[n]]
      /\ broker' = [n \in Alerts |-> IF Shows(n) THEN OnOff(Active(n)) ELSE broker[n]]
      /\ own' = own \cup {n \in Alerts : Shows(n)}
      /\ UNCHANGED <<dbUp, known, leaving, reading, conn, alertConn, client, enabled,
                     snap>>
  BY DEF Evaluate, Evaluated
<1>2. OutputsTypeOK'
  <2>1. broker' \in [Alerts -> Shown] /\ rows' \in [Alerts -> Shown]
    BY <1>1, OnOffType DEF OutputsTypeOK
  <2>2. state' \in [Alerts -> BOOLEAN]
    BY <1>1, ActiveType
  <2>3. lost' \in 0 .. Delay + 1 /\ own' \subseteq Alerts
    BY <1>1, ActiveType DEF OutputsTypeOK
  <2>4. /\ dbUp' \in BOOLEAN /\ known' \in BOOLEAN /\ leaving' \in BOOLEAN
        /\ client' \in BOOLEAN /\ enabled' \in BOOLEAN
    BY <1>1 DEF OutputsTypeOK
  <2>5. /\ pc' \in {"idle", "gone"} /\ reading' \in Readings
        /\ conn' \in {"ok", "dead", "none"} /\ alertConn' \in {"same", "closed", "none"}
        /\ snap' \in [id : 0 .. MaxId, stage : Stages]
    BY <1>1 DEF OutputsTypeOK
  <2>6. QED
    BY <1>1, <2>1, <2>2, <2>3, <2>4, <2>5, NotifyType DEF OutputsTypeOK
<1>3. ASSUME RetainedIsState, NEW n \in own', client'
      PROVE  broker'[n] = OnOff(state'[n])
  <2>1. n \in Alerts /\ client /\ state'[n] = Active(n)
    BY <1>1, <1>3 DEF OutputsTypeOK
  <2>2. CASE Shows(n)
    BY <1>1, <2>1, <2>2
  <2>3. CASE ~Shows(n)
    <3>1. n \in own /\ broker'[n] = broker[n] /\ n \notin Edges
      BY <1>1, <1>3, <2>1, <2>3 DEF Shows
    <3>2. Active(n) = state[n]
      BY <2>1, <3>1 DEF Edges
    <3>3. QED
      BY <1>3, <2>1, <3>1, <3>2 DEF RetainedIsState
  <2>4. QED
    BY <2>2, <2>3
<1>4. QED
  BY <1>2, <1>3 DEF RetainedIsState

-----------------------------------------------------------------------------
(***************************************************************************)
(* The induction.                                                          *)
(***************************************************************************)
LEMMA OutputsInitType ==
  ASSUME OutputsInit
  PROVE  OutputsTypeOK /\ RetainedIsState
<1>1. /\ dbUp \in BOOLEAN /\ known \in BOOLEAN /\ leaving \in BOOLEAN
      /\ client \in BOOLEAN /\ enabled \in BOOLEAN
  BY DEF OutputsInit
<1>2. /\ state \in [Alerts -> BOOLEAN] /\ lost \in 0 .. Delay + 1
      /\ age \in [Channels -> [Alerts -> 0 .. Throttle]]
  BY BoundFacts DEF OutputsInit
<1>3. /\ snap \in [id : 0 .. MaxId, stage : Stages]
      /\ left \in [faults : 0 .. MaxFaults, reloads : 0 .. MaxReloads]
  BY BoundFacts DEF OutputsInit, Stages
<1>4. OutputsTypeOK
  BY <1>1, <1>2, <1>3 DEF OutputsInit, OutputsTypeOK, Shown
<1>5. QED
  BY <1>4 DEF OutputsInit, RetainedIsState

LEMMA OutputsNextKeeps ==
  ASSUME OutputsTypeOK, [OutputsNext]_outputVars
  PROVE  /\ OutputsTypeOK'
         /\ RetainedIsState => RetainedIsState'
<1>1. CASE Evaluate
  BY <1>1, EvaluateKeeps
<1>2. CASE EnsureMariadb \/ Writing \/ Published \/ NoAlerts \/ DbDown \/ DbUp \/ Crash
  BY <1>2, WritingKeeps DEF RetainedIsState
<1>3. CASE Restart
  BY <1>3, RestartKeeps DEF RetainedIsState
<1>4. ASSUME NEW r \in Readings, BeginReload(r)
      PROVE  OutputsTypeOK' /\ RetainedIsState'
  BY <1>4, BeginReloadKeeps DEF RetainedIsState
<1>5. ASSUME NEW r \in Readings, Begin(r)
      PROVE  OutputsTypeOK' /\ (RetainedIsState => RetainedIsState')
  <2>1. UNCHANGED <<own, broker, state>> /\ (client' => client)
    BY <1>5 DEF Begin, process, stores
  <2>2. QED
    BY <1>5, <2>1, BeginKeeps DEF RetainedIsState
<1>6. CASE UNCHANGED outputVars
  <2>1. UNCHANGED <<dbUp, pc, known, leaving, reading, conn, alertConn, client,
                    enabled, state, lost, age, own, snap, broker, rows, said, left>>
    BY <1>6 DEF outputVars, process, stores
  <2>2. dbUp' \in BOOLEAN
    BY <2>1 DEF OutputsTypeOK
  <2>3. OutputsTypeOK'
    BY <2>1, <2>2, WriteType DEF OutputsTypeOK
  <2>4. QED
    BY <2>1, <2>3 DEF RetainedIsState
<1>7. QED
  BY <1>1, <1>2, <1>3, <1>4, <1>5, <1>6 DEF OutputsNext, WriterStep, Alerting

\* The writer's state keeps its shape: the counters of the grid alert and of
\* the notifiers' throttle stop at their limits, and only shown states are
\* retained, stored or sent.
THEOREM OutputsAreTyped == OutputsSpec => []OutputsTypeOK
<1>1. OutputsInit => OutputsTypeOK
  BY OutputsInitType
<1>2. OutputsTypeOK /\ [OutputsNext]_outputVars => OutputsTypeOK'
  BY OutputsNextKeeps
<1>3. QED
  BY <1>1, <1>2, PTL DEF OutputsSpec

\* Alerts.evaluate() publishes on edges only; what the broker retains of an
\* alert is its state all the same, once this Alerts object has shown it.
THEOREM RetainedAlertsAreRight == OutputsSpec => []RetainedIsState
<1>1. OutputsInit => RetainedIsState
  BY OutputsInitType
<1>2. OutputsTypeOK /\ RetainedIsState /\ [OutputsNext]_outputVars => RetainedIsState'
  BY OutputsNextKeeps
<1>3. QED
  BY <1>1, <1>2, OutputsAreTyped, PTL DEF OutputsSpec

-----------------------------------------------------------------------------
(***************************************************************************)
(* The stream, on top of what is proved of Outputs.                        *)
(***************************************************************************)
StreamInv == OutputsTypeOK /\ StreamTypeOK /\ FeedOrder

-----------------------------------------------------------------------------
(***************************************************************************)
(* The tables the stream reads.                                            *)
(***************************************************************************)
LEMMA SizeFacts ==
  /\ MaxConnects \in Nat
  /\ \A s \in SUBSET Clients : Cardinality(s) \in 0 .. Cardinality(Clients)
<1>1. IsFiniteSet(Clients) /\ MaxConnects \in Nat
  BY StreamAssumption
<1>2. Cardinality(Clients) \in Nat
  BY <1>1, FS_CardinalityType
<1>3. ASSUME NEW s \in SUBSET Clients
      PROVE  Cardinality(s) \in 0 .. Cardinality(Clients)
  <2>1. IsFiniteSet(s) /\ Cardinality(s) <= Cardinality(Clients)
    BY <1>1, <1>3, FS_Subset
  <2>2. Cardinality(s) \in Nat
    BY <2>1, FS_CardinalityType
  <2>3. QED
    BY <1>2, <2>1, <2>2
<1>4. QED
  BY <1>1, <1>3

LEMMA NewestType ==
  ASSUME OutputsTypeOK
  PROVE  snap.id \in 0 .. MaxId /\ MaxId \in Nat
BY BoundFacts DEF OutputsTypeOK

\* Ids grow.
LEMMA NewestGrows ==
  ASSUME OutputsTypeOK, [OutputsNext]_outputVars
  PROVE  snap.id <= snap'.id
<1>1. snap.id \in Nat
  BY NewestType
<1>2. CASE InsertSnapshot
  BY <1>2, NextIdType DEF InsertSnapshot, Statement
<1>3. CASE InsertRegisters \/ UpdateHourlyEnergy
  <2>1. snap' \in {[snap EXCEPT !.stage = "registers"], [snap EXCEPT !.stage = "hourly"]}
    BY <1>3 DEF InsertRegisters, UpdateHourlyEnergy, Statement
  <2>2. snap \in [id : 0 .. MaxId, stage : Stages]
    BY DEF OutputsTypeOK
  <2>3. snap'.id = snap.id
    BY <2>1, <2>2
  <2>4. QED
    BY <1>1, <2>3
<1>4. CASE snap' = snap
  BY <1>1, <1>4
<1>5. snap' = snap \/ InsertSnapshot \/ InsertRegisters \/ UpdateHourlyEnergy
  BY DEF OutputsNext, WriterStep, Writing, Alerting, Begin, BeginReload, EnsureMariadb,
     WriteFails, Published, Evaluate, Evaluated, NoAlerts, Restart, DbDown, DbUp,
     Crash, stores, outputVars
<1>6. QED
  BY <1>2, <1>3, <1>4, <1>5

-----------------------------------------------------------------------------
(***************************************************************************)
(* A step of the stream: its tables are left alone.                        *)
(***************************************************************************)
LEMMA TablesKept ==
  ASSUME StreamInv, UNCHANGED outputVars
  PROVE  OutputsTypeOK' /\ snap' = snap /\ snap.id \in Nat /\ snap.id <= MaxId
<1>1. OutputsTypeOK'
  BY OutputsNextKeeps DEF StreamInv
<1>2. snap' = snap
  BY DEF outputVars, stores
<1>3. QED
  BY <1>1, <1>2, NewestType DEF StreamInv

\* The arithmetic of FeedOrder, on numbers.
LEMMA FeedFacts ==
  ASSUME StreamInv
  PROVE  /\ lastId \in Nat /\ fetched \in Nat /\ snap.id \in Nat /\ MaxId \in Nat
         /\ lastId <= snap.id /\ fetched <= snap.id /\ snap.id <= MaxId
         /\ \A c \in Clients : got[c] \in Nat /\ got[c] <= snap.id
BY NewestType DEF StreamInv, StreamTypeOK, FeedOrder

LEMMA WakeKeeps ==
  ASSUME StreamInv, Wake, UNCHANGED outputVars
  PROVE  StreamInv'
<1>1. /\ task' \in {"sleep", "newest"} /\ lastId' \in {0, lastId}
      /\ UNCHANGED <<fetched, set, size, visited, failed, link, got, joined, missed,
                     connects>>
  BY DEF Wake, Loop
<1>2. lastId' \in 0 .. MaxId /\ lastId' <= snap.id
  BY <1>1, FeedFacts
<1>3. StreamTypeOK'
  BY <1>1, <1>2 DEF StreamInv, StreamTypeOK
<1>4. FeedOrder'
  BY <1>1, <1>2, TablesKept DEF StreamInv, FeedOrder
<1>5. QED
  BY <1>3, <1>4, TablesKept DEF StreamInv

LEMMA ReadNewestKeeps ==
  ASSUME StreamInv, ReadNewest, UNCHANGED outputVars
  PROVE  StreamInv'
<1>1. /\ \/ task' = "sleep" /\ fetched' = 0
         \/ task' = "registers" /\ fetched' = snap.id
      /\ UNCHANGED <<lastId, set, size, visited, failed, link, got, joined, missed,
                     connects>>
  BY DEF ReadNewest, Loop
<1>2. fetched' \in 0 .. MaxId /\ fetched' <= snap.id
  BY <1>1, FeedFacts
<1>3. StreamTypeOK'
  BY <1>1, <1>2 DEF StreamInv, StreamTypeOK
<1>4. FeedOrder'
  BY <1>1, <1>2, TablesKept DEF StreamInv, FeedOrder
<1>5. QED
  BY <1>3, <1>4, TablesKept DEF StreamInv

LEMMA ReadRegistersKeeps ==
  ASSUME StreamInv, ReadRegisters, UNCHANGED outputVars
  PROVE  StreamInv'
<1>1. /\ task = "registers" /\ fetched' = 0
      /\ UNCHANGED <<set, link, got, missed, connects>>
  BY DEF ReadRegisters
<1>2. CASE /\ task' = "sleep" /\ joined' = {}
           /\ UNCHANGED <<lastId, size, visited, failed>>
  <2>1. StreamTypeOK'
    BY <1>1, <1>2, FeedFacts DEF StreamInv, StreamTypeOK
  <2>2. FeedOrder'
    BY <1>1, <1>2, FeedFacts, TablesKept DEF StreamInv, FeedOrder
  <2>3. QED
    BY <2>1, <2>2, TablesKept DEF StreamInv
<1>3. CASE /\ task' = "send" /\ joined' = joined /\ lastId' = fetched
           /\ size' = Cardinality(set) /\ visited' = {} /\ failed' = {}
  <2>1. size' \in 0 .. Cardinality(Clients)
    BY <1>3, SizeFacts DEF StreamInv, StreamTypeOK
  <2>2. StreamTypeOK'
    BY <1>1, <1>3, <2>1, FeedFacts DEF StreamInv, StreamTypeOK
  <2>3. FeedOrder'
    BY <1>1, <1>3, FeedFacts, TablesKept DEF StreamInv, FeedOrder
  <2>4. QED
    BY <2>2, <2>3, TablesKept DEF StreamInv
<1>4. QED
  BY <1>2, <1>3 DEF ReadRegisters

\* The broadcast is over, in one way or another.
LEMMA RestKeeps ==
  ASSUME StreamInv, FetchFails \/ Sent \/ Die, UNCHANGED outputVars
  PROVE  StreamInv'
<1>1. /\ task' \in {"sleep", "dead"} /\ joined' = {} /\ fetched' \in {0, fetched}
      /\ UNCHANGED <<lastId, link, got, missed, connects>>
  BY DEF FetchFails, Sent, Die, Loop
<1>2. set' \subseteq Clients /\ visited' \subseteq Clients /\ failed' \subseteq visited'
  BY DEF FetchFails, Sent, Die, Loop, StreamInv, StreamTypeOK
<1>3. size' \in 0 .. Cardinality(Clients)
  <2>1. size \in 0 .. Cardinality(Clients) /\ 0 \in 0 .. Cardinality(Clients)
    BY SizeFacts DEF StreamInv, StreamTypeOK
  <2>2. QED
    BY <2>1 DEF FetchFails, Sent, Die, Loop
<1>4. fetched' \in 0 .. MaxId /\ fetched' <= snap.id
  BY <1>1, FeedFacts
<1>5. StreamTypeOK'
  BY <1>1, <1>2, <1>3, <1>4 DEF StreamInv, StreamTypeOK
<1>6. FeedOrder'
  BY <1>1, <1>4, TablesKept DEF StreamInv, FeedOrder
<1>7. QED
  BY <1>5, <1>6, TablesKept DEF StreamInv

LEMMA SendKeeps ==
  ASSUME StreamInv, NEW c \in Clients, Send(c), UNCHANGED outputVars
  PROVE  /\ StreamInv'
         /\ \A d \in Clients \ joined : link[d] = "up" => got'[d] >= got[d]
<1>1. /\ task = "send" /\ c \in set /\ visited' = visited \cup {c}
      /\ UNCHANGED <<task, fetched, lastId, set, size, link, joined, missed, connects>>
  BY DEF Send
<1>2. /\ got' \in [Clients -> 0 .. MaxId]
      /\ \A d \in Clients : \/ got'[d] = got[d]
                            \/ d = c /\ link[c] = "up" /\ got'[d] = lastId
      /\ failed' \subseteq visited'
  <2>1. got \in [Clients -> 0 .. MaxId] /\ lastId \in 0 .. MaxId /\ failed \subseteq visited
    BY DEF StreamInv, StreamTypeOK
  <2>2. QED
    BY <1>1, <2>1 DEF Send
<1>3. StreamTypeOK'
  BY <1>1, <1>2 DEF StreamInv, StreamTypeOK
<1>4. \A d \in Clients : got'[d] <= snap.id /\ got'[d] \in Nat
  BY <1>2, FeedFacts
<1>5. FeedOrder'
  BY <1>1, <1>2, <1>4, FeedFacts, TablesKept DEF StreamInv, FeedOrder
<1>6. \A d \in Clients \ joined : link[d] = "up" => got[d] <= lastId
  BY <1>1 DEF StreamInv, FeedOrder
<1>7. \A d \in Clients \ joined : link[d] = "up" => got'[d] >= got[d]
  BY <1>2, <1>6, FeedFacts
<1>8. QED
  BY <1>3, <1>5, <1>7, TablesKept DEF StreamInv

LEMMA JoinKeeps ==
  ASSUME StreamInv, NEW c \in Clients, Join(c), UNCHANGED outputVars
  PROVE  /\ StreamInv'
         /\ \A d \in Clients : link[d] = "up" => got'[d] = got[d]
<1>1. /\ link[c] # "up" /\ connects > 0 /\ connects' = connects - 1
      /\ set' = set \cup {c}
      /\ joined' = IF task \in {"registers", "send"} THEN joined \cup {c} ELSE joined
      /\ UNCHANGED <<task, fetched, lastId, size, visited, failed>>
  BY DEF Join
<1>2. PICK i \in {0, snap.id}, j \in {0, snap.id}, l \in {"up", "down"} :
        /\ got' = [got EXCEPT ![c] = i]
        /\ missed' = [missed EXCEPT ![c] = j]
        /\ link' = [link EXCEPT ![c] = l]
  BY DEF Join, Replay
<1>3. /\ got \in [Clients -> 0 .. MaxId] /\ missed \in [Clients -> 0 .. MaxId]
      /\ link \in [Clients -> {"away", "up", "down"}]
      /\ connects \in 0 .. MaxConnects /\ MaxConnects \in Nat
      /\ joined \subseteq Clients /\ set \subseteq Clients
  BY SizeFacts DEF StreamInv, StreamTypeOK
<1>4. i \in 0 .. MaxId /\ j \in 0 .. MaxId /\ i \in Nat /\ i <= snap.id
  BY <1>2, FeedFacts
<1>5. /\ got' \in [Clients -> 0 .. MaxId] /\ missed' \in [Clients -> 0 .. MaxId]
      /\ link' \in [Clients -> {"away", "up", "down"}]
      /\ got'[c] = i
      /\ \A d \in Clients \ {c} : got'[d] = got[d] /\ link'[d] = link[d]
  BY <1>1, <1>2, <1>3, <1>4
<1>6. connects' \in 0 .. MaxConnects
  BY <1>1, <1>3
<1>7. joined' \subseteq Clients /\ set' \subseteq Clients
  BY <1>1, <1>3
<1>8. StreamTypeOK'
  BY <1>1, <1>5, <1>6, <1>7 DEF StreamInv, StreamTypeOK
<1>9. FeedOrder'
  <2>1. \A d \in Clients : got'[d] <= snap.id
    BY <1>4, <1>5, FeedFacts
  <2>2. ASSUME NEW d \in Clients \ joined', link'[d] = "up"
        PROVE  /\ task = "registers" => got'[d] <= fetched
               /\ task = "send" => got'[d] <= lastId
    <3>1. d \notin joined /\ (task \in {"registers", "send"} => d # c)
      BY <1>1, <2>2
    <3>2. QED
      BY <1>5, <2>2, <3>1 DEF StreamInv, FeedOrder
  <2>3. QED
    BY <1>1, <2>1, <2>2, TablesKept DEF StreamInv, FeedOrder
<1>10. \A d \in Clients : link[d] = "up" => got'[d] = got[d]
  BY <1>1, <1>5
<1>11. QED
  BY <1>8, <1>9, <1>10, TablesKept DEF StreamInv

LEMMA DisconnectKeeps ==
  ASSUME StreamInv, NEW c \in Clients, Disconnect(c), UNCHANGED outputVars
  PROVE  /\ StreamInv'
         /\ \A d \in Clients : link'[d] = "up" => got'[d] = got[d]
<1>1. /\ link' = [link EXCEPT ![c] = "down"] /\ set' \subseteq set
      /\ got' = [got EXCEPT ![c] = 0] /\ missed' = [missed EXCEPT ![c] = 0]
      /\ UNCHANGED <<task, fetched, lastId, size, visited, failed, joined, connects>>
  BY DEF Disconnect
<1>2. /\ got \in [Clients -> 0 .. MaxId] /\ missed \in [Clients -> 0 .. MaxId]
      /\ link \in [Clients -> {"away", "up", "down"}] /\ 0 \in 0 .. MaxId
  BY FeedFacts DEF StreamInv, StreamTypeOK
<1>3. /\ got' \in [Clients -> 0 .. MaxId] /\ missed' \in [Clients -> 0 .. MaxId]
      /\ link' \in [Clients -> {"away", "up", "down"}]
      /\ got'[c] = 0 /\ link'[c] = "down"
      /\ \A d \in Clients \ {c} : got'[d] = got[d] /\ link'[d] = link[d]
  BY <1>1, <1>2
<1>4. StreamTypeOK'
  BY <1>1, <1>3 DEF StreamInv, StreamTypeOK
<1>5. FeedOrder'
  <2>1. \A d \in Clients : got'[d] <= snap.id
    BY <1>3, FeedFacts
  <2>2. QED
    BY <1>1, <1>3, <2>1, TablesKept DEF StreamInv, FeedOrder
<1>6. \A d \in Clients : link'[d] = "up" => got'[d] = got[d]
  BY <1>3
<1>7. QED
  BY <1>4, <1>5, <1>6, TablesKept DEF StreamInv

-----------------------------------------------------------------------------
(***************************************************************************)
(* The induction.                                                          *)
(***************************************************************************)
LEMMA StreamInitInv ==
  ASSUME Init
  PROVE  StreamInv
<1>1. OutputsTypeOK /\ snap.id \in Nat
  BY OutputsInitType, NewestType DEF Init
<1>2. 0 \in 0 .. MaxId /\ 0 \in 0 .. Cardinality(Clients)
      /\ MaxConnects \in 0 .. MaxConnects
  BY BoundFacts, SizeFacts
<1>3. StreamTypeOK
  BY <1>2 DEF Init, StreamInit, StreamTypeOK
<1>4. FeedOrder
  BY <1>1 DEF Init, StreamInit, FeedOrder
<1>5. QED
  BY <1>1, <1>3, <1>4 DEF StreamInv

\* The writer adds to the tables and the stream does not notice yet.
LEMMA WriterKeeps ==
  ASSUME StreamInv, [OutputsNext]_outputVars, UNCHANGED streamVars
  PROVE  StreamInv'
<1>1. UNCHANGED <<task, fetched, lastId, set, size, visited, failed, link, got, joined,
                  missed, connects>>
  BY DEF streamVars
<1>2. OutputsTypeOK' /\ snap.id <= snap'.id
  BY OutputsNextKeeps, NewestGrows DEF StreamInv
<1>3. snap'.id \in Nat
  <2>1. snap' \in [id : 0 .. MaxId, stage : Stages]
    BY <1>2 DEF OutputsTypeOK
  <2>2. QED
    BY <2>1, BoundFacts
<1>4. StreamTypeOK'
  BY <1>1 DEF StreamInv, StreamTypeOK
<1>5. FeedOrder'
  <2>1. lastId <= snap'.id /\ fetched <= snap'.id /\ \A c \in Clients : got[c] <= snap'.id
    BY <1>2, <1>3, FeedFacts
  <2>2. QED
    BY <1>1, <2>1 DEF StreamInv, FeedOrder
<1>6. QED
  BY <1>2, <1>4, <1>5 DEF StreamInv

LEMMA StreamNextInv ==
  ASSUME StreamInv, [Next]_vars
  PROVE  /\ StreamInv'
         /\ \A c \in Clients : link[c] = "up" /\ link'[c] = "up" /\ c \notin joined
                                 => got'[c] >= got[c]
<1>1. ASSUME got' = got
      PROVE  \A c \in Clients : got'[c] >= got[c]
  BY <1>1, FeedFacts
<1>2. CASE [OutputsNext]_outputVars /\ UNCHANGED streamVars
  <2>1. got' = got
    BY <1>2 DEF streamVars
  <2>2. QED
    BY <1>1, <1>2, <2>1, WriterKeeps
<1>3. CASE Wake /\ UNCHANGED outputVars
  BY <1>1, <1>3, WakeKeeps DEF Wake
<1>4. CASE ReadNewest /\ UNCHANGED outputVars
  BY <1>1, <1>4, ReadNewestKeeps DEF ReadNewest
<1>5. CASE ReadRegisters /\ UNCHANGED outputVars
  BY <1>1, <1>5, ReadRegistersKeeps DEF ReadRegisters
<1>6. CASE (FetchFails \/ Sent \/ Die) /\ UNCHANGED outputVars
  BY <1>1, <1>6, RestKeeps DEF FetchFails, Sent, Die
<1>7. ASSUME NEW c \in Clients, Send(c), UNCHANGED outputVars
      PROVE  /\ StreamInv'
             /\ \A d \in Clients : link[d] = "up" /\ link'[d] = "up" /\ d \notin joined
                                     => got'[d] >= got[d]
  BY <1>7, SendKeeps
<1>8. ASSUME NEW c \in Clients, Join(c) \/ Disconnect(c), UNCHANGED outputVars
      PROVE  /\ StreamInv'
             /\ \A d \in Clients : link[d] = "up" /\ link'[d] = "up" /\ d \notin joined
                                     => got'[d] >= got[d]
  BY <1>8, JoinKeeps, DisconnectKeeps, FeedFacts
<1>9. QED
  BY <1>2, <1>3, <1>4, <1>5, <1>6, <1>7, <1>8 DEF Next, StreamNext, Broadcast, vars

\* The broadcaster's state keeps its shape: a client counts as failed only
\* after the loop has visited it, and no snapshot id is made up.
THEOREM StreamIsTyped == Spec => []StreamTypeOK
<1>1. Init => StreamInv
  BY StreamInitInv
<1>2. StreamInv /\ [Next]_vars => StreamInv'
  BY StreamNextInv
<1>3. StreamInv => StreamTypeOK
  BY DEF StreamInv
<1>4. QED
  BY <1>1, <1>2, <1>3, PTL DEF Spec

\* The endpoint and the broadcaster each read the newest snapshot on their own,
\* and still no client that was there when the fetch began is sent an older
\* snapshot after a newer one.
THEOREM FeedNeverGoesBack == Spec => NeverBackwards
<1>1. Init => StreamInv
  BY StreamInitInv
<1>2. StreamInv /\ [Next]_vars => StreamInv'
  BY StreamNextInv
<1>3. StreamInv /\ [Next]_vars =>
        [\A c \in Clients : link[c] = "up" /\ link'[c] = "up" /\ c \notin joined
                              => got'[c] >= got[c]]_vars
  BY StreamNextInv
<1>4. QED
  BY <1>1, <1>2, <1>3, PTL DEF Spec, NeverBackwards
================================================================================
