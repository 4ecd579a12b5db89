--------------------------- MODULE Forecast ---------------------------
(***************************************************************************)
(* The solar forecast (collector/forecast.py), refreshed by the writer     *)
(* thread (collector.py _maybe_refresh_forecast): weather of the coming    *)
(* hours is turned into predicted watts, calibrated with what the array    *)
(* produced under like conditions in the last days, and stored by hour.    *)
(* Time is counted in hours; hour t is hour t % Day of day t \div Day.     *)
(***************************************************************************)
EXTENDS Integers, FiniteSets, FiniteSetsExt

CONSTANTS
    Day,             \* hours of a day
    Hours,           \* forecast_hours
    Interval,        \* forecast_refresh_min, in hours
    Lookback,        \* forecast_bias_lookback_days
    MinSamples,      \* forecast_bias_min_samples
    ClearSky,        \* hour of the day -> clear-sky watts of pvlib (external)
    Peak,            \* array_kwp
    Gain,            \* array_bifacial_gain, per cent
    Weathers,        \* weather of an hour: [cloud: 0..100 or NoCloud, sun: W/m^2]
    NoCloud,         \* stands for None
    Past,            \* hour -> the weather the archive tells of it (external)
    Productions,     \* hourly averages of pv_power_total
    MaxTime, MaxFaults, MaxToggles   \* bounds

Start0 == -Lookback * Day
Times == Start0..(MaxTime + Hours)

ForecastAssumption ==
    /\ {Day, Hours, Interval, Lookback, MinSamples} \subseteq Nat \ {0}
    /\ ClearSky \in [0..(Day - 1) -> Nat] /\ Peak \in Nat /\ Gain \in Nat
    /\ Weathers \subseteq [cloud : (0..100) \cup {NoCloud}, sun : Nat]
    /\ Past \in [Times -> Weathers]
    /\ Productions \subseteq Nat /\ NoCloud = -1
    /\ {MaxTime, MaxFaults, MaxToggles} \subseteq Nat
ASSUME ForecastAssumption

VARIABLES
    now,             \* the current hour
    actual,          \* hour -> average production recorded for it
    table,           \* solar_forecast: hour -> row
    enabled,         \* forecast_enabled in the settings
    last,            \* _last_forecast_refresh
    phase,           \* where refresh() is
    rows,            \* the rows it is about to store
    began,           \* the time it noted at its start
    conn,            \* its connection still works
    db, net,         \* the database answers; the weather service answers
    faults, toggles

process == <<last, phase, rows, began, conn>>
outside == <<now, actual, enabled, db, net, faults, toggles>>
vars == <<process, outside, table>>

NoRows == [t \in {} |-> 0]
Never == -1000

HourOfDay(t) == t % Day
DayStart(t) == t - HourOfDay(t)

(* Function f with the value v at t. *)
With(f, t, v) == [u \in DOMAIN f \cup {t} |-> IF u = t THEN v ELSE f[u]]

----------------------------------------------------------------------------
(* From weather to rows. *)

(* Transmission of the clouds, per mille. *)
CloudFactor(cloud) == IF cloud = NoCloud THEN 1000 ELSE 1000 - (850 * cloud) \div 100

(* With sunshine reported it replaces the cloud factor. *)
Factor(w) == IF w.sun > 0 THEN (IF w.sun < 1000 THEN w.sun ELSE 1000) ELSE CloudFactor(w.cloud)

(* Without a clear-sky model (pvlib is missing, or it failed) the reported  *)
(* sunshine alone counts.                                                  *)
Watts(t, w, modelled) ==
    IF modelled THEN (ClearSky[HourOfDay(t)] * Factor(w) * (100 + Gain)) \div 100000
    ELSE (Peak * w.sun * (100 + Gain)) \div 100

(* What the weather service may report of these hours: no sun at night. *)
Reports(hours) ==
    {weather \in [hours -> Weathers] :
        \A t \in hours : weather[t].sun > 0 => ClearSky[HourOfDay(t)] > 0}

None == -1

AssembleRows(weather, source, modelled) ==
    [t \in DOMAIN weather |-> [predicted |-> Watts(t, weather[t], modelled), corrected |-> None,
                               cloud |-> weather[t].cloud, source |-> source]]

----------------------------------------------------------------------------
(* Calibration with history. *)

Bucket(cloud) == IF cloud = NoCloud THEN -1
                 ELSE IF cloud <= 20 THEN 0
                 ELSE IF cloud <= 60 THEN 1 ELSE 2

Since == now - Lookback * Day

(* The hour in which the window begins is recorded in part, so its average *)
(* counts, but the forecast row stamped with its beginning does not.       *)
ActualHours(h, b) ==
    {t \in DOMAIN actual : /\ t >= Since /\ HourOfDay(t) = h
                           /\ Bucket(IF t \in DOMAIN table THEN table[t].cloud ELSE NoCloud) = b}

ForecastHours(h, b) ==
    {t \in DOMAIN table : t > Since /\ HourOfDay(t) = h /\ Bucket(table[t].cloud) = b}

First(n, hours) == CHOOSE s \in SUBSET hours :
                      Cardinality(s) = n /\ \A t \in s, u \in hours \ s : t < u

(* A sum of natural numbers.  That it is one needs an induction over the   *)
(* fold, so the definition says it for the proofs.                         *)
Total(f, hours) ==
    LET sum == FoldSet(LAMBDA t, s : f[t] + s, 0, hours)
    IN  IF sum \in Nat THEN sum ELSE 0

(* The averages are paired by position: the first n of each kind.  The     *)
(* forecast rows come in no stated order, so any n of them may be taken.   *)
Ratios(h, b) ==
    LET a == ActualHours(h, b)
        f == ForecastHours(h, b)
        n == IF Cardinality(a) < Cardinality(f) THEN Cardinality(a) ELSE Cardinality(f)
        produced == Total(actual, First(n, a))
        predicted == [t \in DOMAIN table |-> table[t].predicted]
    IN  IF n < MinSamples THEN {}
        ELSE {[actual |-> produced, predicted |-> Total(predicted, s)] :
                s \in {x \in kSubset(n, f) : Total(predicted, x) > 0}}

(* The ratio is kept below 3. *)
Clamped(r) == IF r.actual > 3 * r.predicted THEN [actual |-> 3, predicted |-> 1] ELSE r

ScaledUnclamped(watts, r) == (2 * watts * r.actual + r.predicted) \div (2 * r.predicted)

Scaled(watts, r) ==
    LET c == Clamped(r) IN (2 * watts * c.actual + c.predicted) \div (2 * c.predicted)

Keys == (0..(Day - 1)) \X (-1..2)

(* Every bias map the history allows: a ratio for the buckets with enough  *)
(* samples.                                                                *)
BiasMaps ==
    LET known == {k \in Keys : Ratios(k[1], k[2]) # {}}
    IN  {m \in [known -> UNION {Ratios(k[1], k[2]) : k \in known}] :
            \A k \in known : m[k] \in Ratios(k[1], k[2])}

CorrectedBothColumns(plain, m) ==
    [t \in DOMAIN plain |->
        LET k == <<HourOfDay(t), Bucket(plain[t].cloud)>>
            watts == IF k \in DOMAIN m THEN Scaled(plain[t].predicted, m[k]) ELSE plain[t].predicted
        IN  [plain[t] EXCEPT !.predicted = watts, !.corrected = watts]]

Corrected(plain, m) ==
    [t \in DOMAIN plain |->
        LET k == <<HourOfDay(t), Bucket(plain[t].cloud)>>
        IN  [plain[t] EXCEPT !.corrected = IF k \in DOMAIN m THEN Scaled(plain[t].predicted, m[k])
                                           ELSE plain[t].predicted]]

----------------------------------------------------------------------------

Init ==
    /\ now = 0
    /\ actual \in UNION {[s -> Productions] : s \in {{}, Start0..-1}}
    /\ table = NoRows
    /\ enabled = FALSE
    /\ last = Never /\ phase = "idle" /\ rows = NoRows /\ began = Never /\ conn = FALSE
    /\ db = TRUE /\ net = TRUE
    /\ faults = 0 /\ toggles = 0

(* _maybe_refresh_forecast: settings read fresh, nothing to do before the  *)
(* interval is over; with no archive rows yet, history is fetched first.   *)
(* With forecast_bias_enabled off there is no history and no correction.   *)
Begin ==
    /\ phase = "idle" /\ db /\ enabled
    /\ now - last >= Interval
    /\ \/ phase' = "build_raw"
       \/ phase' = IF \E t \in DOMAIN table : table[t].source = "archive" THEN "build" ELSE "archive"
    /\ began' = now
    /\ conn' = TRUE
    /\ UNCHANGED <<last, rows, table, outside>>

(* backfill_historical: the whole days before today. *)
FetchArchive ==
    /\ phase = "archive"
    /\ IF net
       THEN /\ LET days == (DayStart(now) - Lookback * Day)..(DayStart(now) - 1)
               IN  \E modelled \in BOOLEAN :
                     rows' = AssembleRows([t \in days |-> Past[t]], "archive", modelled)
            /\ phase' = "store_archive"
       ELSE phase' = "build" /\ UNCHANGED rows
    /\ UNCHANGED <<last, began, conn, table, outside>>

BuildNotesFailure ==
    /\ phase \in {"build", "build_raw"}
    /\ IF net
       THEN /\ \E weather \in Reports(DayStart(now)..(DayStart(now) + Hours - 1)),
                 modelled \in BOOLEAN : rows' = AssembleRows(weather, "live", modelled)
            /\ phase' = IF phase = "build" THEN "correct" ELSE "store_live"
            /\ UNCHANGED last
       ELSE phase' = "idle" /\ last' = began /\ UNCHANGED rows
    /\ UNCHANGED <<began, conn, table, outside>>

(* build_forecast: from the beginning of today, Hours hours. *)
Build ==
    /\ phase \in {"build", "build_raw"}
    /\ IF net
       THEN /\ \E weather \in Reports(DayStart(now)..(DayStart(now) + Hours - 1)),
                 modelled \in BOOLEAN : rows' = AssembleRows(weather, "live", modelled)
            /\ phase' = IF phase = "build" THEN "correct" ELSE "store_live"
       ELSE phase' = "idle" /\ UNCHANGED rows
    /\ UNCHANGED <<last, began, conn, table, outside>>

(* Without buckets, or if the query fails, the rows stay uncorrected. *)
Correct ==
    /\ phase = "correct"
    /\ phase' = "store_live"
    /\ IF conn
       THEN \E m \in BiasMaps : rows' = IF DOMAIN m = {} THEN rows ELSE Corrected(rows, m)
       ELSE UNCHANGED rows
    /\ UNCHANGED <<last, began, conn, table, outside>>

(* store_forecast: row by row, each committed, all columns replaced. *)
StoreRow ==
    /\ phase \in {"store_archive", "store_live"} /\ conn /\ DOMAIN rows # {}
    /\ \E t \in DOMAIN rows :
         /\ \A u \in DOMAIN rows : t <= u
         /\ table' = With(table, t, rows[t])
         /\ rows' = [u \in DOMAIN rows \ {t} |-> rows[u]]
    /\ UNCHANGED <<last, phase, began, conn, outside>>

Stored ==
    /\ phase \in {"store_archive", "store_live"} /\ DOMAIN rows = {}
    /\ phase' = IF phase = "store_archive" THEN "build" ELSE "idle"
    /\ last' = IF phase = "store_live" THEN began ELSE last
    /\ UNCHANGED <<rows, began, conn, table, outside>>

StoreFailsKeepsRows ==
    /\ phase \in {"store_archive", "store_live"} /\ ~conn /\ DOMAIN rows # {}
    /\ phase' = IF phase = "store_archive" THEN "build" ELSE "idle"
    /\ UNCHANGED <<last, rows, began, conn, table, outside>>

(* A failed backfill is only logged; a failure of the second store ends    *)
(* the refresh, and the next round of the writer tries again.              *)
StoreFails ==
    /\ phase \in {"store_archive", "store_live"} /\ ~conn /\ DOMAIN rows # {}
    /\ phase' = IF phase = "store_archive" THEN "build" ELSE "idle"
    /\ rows' = NoRows
    /\ UNCHANGED <<last, began, conn, table, outside>>

----------------------------------------------------------------------------
(* Outside the refresh. *)

(* An hour passes.  What the array produced in it is known as an average,  *)
(* unless the collector recorded nothing.                                  *)
Tick ==
    /\ now < MaxTime
    /\ now' = now + 1
    /\ \/ UNCHANGED actual
       \/ \E p \in Productions : actual' = With(actual, now, p)
    /\ UNCHANGED <<process, table, enabled, db, net, faults, toggles>>

Toggle ==
    /\ toggles < MaxToggles
    /\ enabled' = ~enabled
    /\ toggles' = toggles + 1
    /\ UNCHANGED <<process, table, now, actual, db, net, faults>>

(* An outage of the database ends the connection of a refresh under way. *)
DbDown ==
    /\ db /\ faults < MaxFaults
    /\ db' = FALSE /\ conn' = FALSE
    /\ faults' = faults + 1
    /\ UNCHANGED <<last, phase, rows, began, table, now, actual, enabled, net, toggles>>

NetDown ==
    /\ net /\ faults < MaxFaults
    /\ net' = FALSE
    /\ faults' = faults + 1
    /\ UNCHANGED <<process, table, now, actual, enabled, db, toggles>>

Recover ==
    /\ ~db \/ ~net
    /\ db' = TRUE /\ net' = TRUE
    /\ UNCHANGED <<process, table, now, actual, enabled, faults, toggles>>

(* The collector restarts: the time of the last refresh was only in memory.*)
Crash ==
    /\ faults < MaxFaults
    /\ faults' = faults + 1
    /\ last' = Never /\ phase' = "idle" /\ rows' = NoRows /\ began' = Never /\ conn' = FALSE
    /\ UNCHANGED <<table, now, actual, enabled, db, net, toggles>>

Refresh == Begin \/ FetchArchive \/ Build \/ Correct \/ StoreRow \/ Stored \/ StoreFails

Next == Refresh \/ Tick \/ Toggle \/ DbDown \/ NetDown \/ Recover \/ Crash

Spec == Init /\ [][Next]_vars

(* The writer comes back every write interval; outages end. *)
FairSpec == Spec /\ WF_vars(Refresh) /\ WF_vars(Recover)

----------------------------------------------------------------------------

Phases == {"idle", "archive", "store_archive", "build", "build_raw", "correct", "store_live"}

RowOK(t, row) ==
    /\ row.source \in {"archive", "live"}
    /\ row.source = "archive" => row.corrected = None

TypeOK ==
    /\ now \in 0..MaxTime
    /\ \A t \in DOMAIN actual : t <= now /\ actual[t] \in Productions
    /\ \A t \in DOMAIN table : t \in Times /\ RowOK(t, table[t])
    /\ \A t \in DOMAIN rows : t \in Times /\ RowOK(t, rows[t])
    /\ phase \in Phases
    /\ phase \in {"idle", "archive", "build", "build_raw"} => DOMAIN rows = {}
    /\ last \in {Never} \cup (0..now) /\ began \in {Never} \cup (0..now)

(* The calibration never feeds on itself: the predicted watts of every     *)
(* stored hour are those of the weather alone, whatever corrections were   *)
(* computed from the table before (forecast.py _apply_correction writes a  *)
(* column of its own).                                                     *)
PredictedStaysRaw ==
    \A t \in DOMAIN table : \E w \in Weathers, modelled \in BOOLEAN :
        table[t].cloud = w.cloud /\ table[t].predicted = Watts(t, w, modelled)

(* No history, with gaps, with hours recorded in part or with rows of two  *)
(* refreshes, makes the corrected watts of an hour more than three times   *)
(* the predicted watts stored beside them (forecast.py: the clamp of the   *)
(* ratio, and the upsert that replaces both columns).                      *)
CorrectionBounded ==
    \A t \in DOMAIN table : table[t].corrected <= 3 * table[t].predicted

(* While the forecast is enabled, the hour that has come gets its row in   *)
(* the end, in spite of outages of the database, of the weather service    *)
(* and restarts.                                                           *)
HourIsForecast == []<>(enabled => now \in DOMAIN table)

----------------------------------------------------------------------------
(* The inductive invariant: what is said of the stored rows holds of those *)
(* about to be stored as well.                                             *)

Row == [predicted : Nat, corrected : Nat \cup {None}, cloud : (0..100) \cup {NoCloud},
        source : {"archive", "live"}]

SoundRow(t, row) ==
    /\ t \in Times /\ row \in Row
    /\ row.source = "archive" => row.corrected = None
    /\ \E w \in Weathers, modelled \in BOOLEAN :
         row.cloud = w.cloud /\ row.predicted = Watts(t, w, modelled)
    /\ row.corrected <= 3 * row.predicted

TimeOK ==
    /\ now \in 0..MaxTime
    /\ last \in {Never} \cup (0..now) /\ began \in {Never} \cup (0..now)

ActualOK == \A t \in DOMAIN actual : t \in Int /\ t <= now /\ actual[t] \in Productions

TableOK == \A t \in DOMAIN table : SoundRow(t, table[t])

RowsOK ==
    /\ phase \in Phases
    /\ phase \in {"idle", "archive", "build", "build_raw"} => DOMAIN rows = {}
    /\ \A t \in DOMAIN rows : SoundRow(t, rows[t])
    /\ phase = "correct" => \A t \in DOMAIN rows : rows[t].source = "live"

ForecastInv == TimeOK /\ ActualOK /\ TableOK /\ RowsOK

=============================================================================
