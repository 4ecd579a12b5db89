---------------------------- MODULE ForecastProofs ----------------------------
(***************************************************************************)
(* Machine-checked safety of Forecast, for every length of the day, every  *)
(* horizon, lookback, clear sky, weather and production.                   *)
(***************************************************************************)
EXTENDS Forecast, TLAPS

----------------------------------------------------------------------------
(* Numbers. *)

LEMMA Constants ==
    /\ Day \in Nat \ {0} /\ Hours \in Nat \ {0} /\ Lookback \in Nat \ {0}
    /\ Interval \in Nat \ {0} /\ MaxTime \in Nat /\ Gain \in Nat /\ Peak \in Nat
    /\ NoCloud = -1 /\ Productions \subseteq Nat
    /\ \A h \in 0 .. (Day - 1) : ClearSky[h] \in Nat
    /\ \A w \in Weathers : w.cloud \in 0 .. 100 \cup {NoCloud} /\ w.sun \in Nat
    /\ \A t \in Times : Past[t] \in Weathers
BY ForecastAssumption DEF ForecastAssumption

LEMMA Products == \A a, b \in Nat : a * b \in Nat
BY SMT

LEMMA HourFacts ==
    ASSUME NEW t \in Int
    PROVE  /\ HourOfDay(t) \in 0 .. (Day - 1)
           /\ t \in Nat => DayStart(t) \in 0 .. t
<1>1. Day \in Nat \ {0}
  BY Constants
<1>2. t % Day \in 0 .. (Day - 1)
  BY <1>1
<1>3. t \in Nat => t - (t % Day) \in 0 .. t
  BY <1>1
<1>4. QED
  BY <1>2, <1>3 DEF HourOfDay, DayStart

LEMMA TimesFacts ==
    /\ Start0 \in Int /\ Start0 <= 0 /\ Times = Start0 .. (MaxTime + Hours)
    /\ Lookback * Day \in Nat /\ Start0 = -(Lookback * Day)
    /\ Times \subseteq Int
<1>1. Lookback \in Nat /\ Day \in Nat /\ MaxTime \in Nat /\ Hours \in Nat
  BY Constants
<1>2. Lookback * Day \in Nat
  BY <1>1, Products
<1>3. Start0 = -(Lookback * Day)
  BY <1>1 DEF Start0
<1>4. QED
  BY <1>1, <1>2, <1>3 DEF Times

LEMMA WattsType ==
    ASSUME NEW t \in Int, NEW w \in Weathers, NEW modelled \in BOOLEAN
    PROVE  Watts(t, w, modelled) \in Nat
<1>1. w.sun \in Nat /\ w.cloud \in 0 .. 100 \cup {-1}
  BY Constants
<1>2. CloudFactor(w.cloud) \in Nat
  <2>1. CASE w.cloud = -1
    BY <2>1, Constants DEF CloudFactor
  <2>2. CASE w.cloud \in 0 .. 100
    <3>1. CloudFactor(w.cloud) = 1000 - (850 * w.cloud) \div 100
      BY <2>2, Constants DEF CloudFactor
    <3>2. (850 * w.cloud) \div 100 \in 0 .. 850
      BY <2>2
    <3>3. QED
      BY <3>1, <3>2
  <2>3. QED
    BY <1>1, <2>1, <2>2
<1>3. Factor(w) \in Nat
  BY <1>1, <1>2 DEF Factor
<1>4. ClearSky[HourOfDay(t)] \in Nat
  BY HourFacts, Constants
<1>5. (ClearSky[HourOfDay(t)] * Factor(w)) * (100 + Gain) \in Nat
  <2>1. ClearSky[HourOfDay(t)] * Factor(w) \in Nat
    BY <1>3, <1>4, Products
  <2>2. 100 + Gain \in Nat
    BY Constants
  <2>3. QED
    BY <2>1, <2>2, Products
<1>6. (Peak * w.sun) * (100 + Gain) \in Nat
  <2>1. Peak * w.sun \in Nat
    BY <1>1, Constants, Products
  <2>2. 100 + Gain \in Nat
    BY Constants
  <2>3. QED
    BY <2>1, <2>2, Products
<1>7. \A n \in Nat : n \div 100000 \in Nat /\ n \div 100 \in Nat
  OBVIOUS
<1>8. QED
  BY <1>5, <1>6, <1>7 DEF Watts

LEMMA DivBound ==
    ASSUME NEW x \in Nat, NEW d \in Nat \ {0}
    PROVE  /\ x \div d \in Nat
           /\ d * (x \div d) <= x
BY Z3

(* The clamp: at most three times the watts it is applied to. *)
LEMMA ScaledBound ==
    ASSUME NEW watts \in Nat, NEW r \in [actual : Nat, predicted : Nat \ {0}]
    PROVE  Scaled(watts, r) \in 0 .. 3 * watts
<1> DEFINE c == Clamped(r)
<1>1. c \in [actual : Nat, predicted : Nat \ {0}] /\ c.actual <= 3 * c.predicted
  BY DEF Clamped
<1>2. PICK a \in Nat, p \in Nat \ {0} : c.actual = a /\ c.predicted = p /\ a <= 3 * p
  BY <1>1
<1>3. 2 * watts * a + p \in Nat /\ 2 * p \in Nat \ {0}
  BY <1>2
<1> DEFINE q == (2 * watts * a + p) \div (2 * p)
<1>4. q \in Nat /\ (2 * p) * q <= 2 * watts * a + p
  BY <1>3, DivBound
<1>5. watts * a <= 3 * (watts * p)
  BY <1>2, Z3
<1>6. (2 * p) * q <= 6 * (watts * p) + p
  BY <1>2, <1>4, <1>5, Z3
<1>7. q <= 3 * watts
  BY <1>2, <1>4, <1>6, Z3
<1>8. Scaled(watts, r) = q
  BY <1>2 DEF Scaled
<1>9. QED
  BY <1>4, <1>7, <1>8

----------------------------------------------------------------------------
(* Rows. *)

LEMMA AssembledRows ==
    ASSUME NEW weather, NEW source \in {"archive", "live"}, NEW modelled \in BOOLEAN,
           DOMAIN weather \subseteq Times,
           \A t \in DOMAIN weather : weather[t] \in Weathers
    PROVE  LET fresh == AssembleRows(weather, source, modelled)
           IN  /\ DOMAIN fresh = DOMAIN weather
               /\ \A t \in DOMAIN fresh : SoundRow(t, fresh[t]) /\ fresh[t].source = source
<1> DEFINE fresh == AssembleRows(weather, source, modelled)
<1>1. /\ DOMAIN fresh = DOMAIN weather
      /\ \A t \in DOMAIN weather :
           fresh[t] = [predicted |-> Watts(t, weather[t], modelled), corrected |-> None,
                       cloud |-> weather[t].cloud, source |-> source]
  BY DEF AssembleRows
<1>2. ASSUME NEW t \in DOMAIN weather
      PROVE  SoundRow(t, fresh[t]) /\ fresh[t].source = source
  <2>1. t \in Times /\ weather[t] \in Weathers /\ t \in Int
    BY TimesFacts
  <2>2. Watts(t, weather[t], modelled) \in Nat
    BY <2>1, WattsType
  <2>3. weather[t].cloud \in (0 .. 100) \cup {NoCloud}
    BY <2>1, Constants
  <2>4. /\ fresh[t] \in Row /\ fresh[t].source = source /\ fresh[t].corrected = None
        /\ fresh[t].cloud = weather[t].cloud
        /\ fresh[t].predicted = Watts(t, weather[t], modelled)
    BY <1>1, <2>2, <2>3 DEF Row
  <2>5. fresh[t].corrected <= 3 * fresh[t].predicted
    BY <2>2, <2>4 DEF None
  <2>6. QED
    BY <2>1, <2>4, <2>5 DEF SoundRow
<1>3. QED
  BY <1>1, <1>2

LEMMA TotalType == \A f, hours : Total(f, hours) \in Nat
BY DEF Total

LEMMA RatioType ==
    ASSUME NEW h, NEW b
    PROVE  Ratios(h, b) \subseteq [actual : Nat, predicted : Nat \ {0}]
<1> DEFINE a         == ActualHours(h, b)
           f         == ForecastHours(h, b)
           n         == IF Cardinality(a) < Cardinality(f) THEN Cardinality(a)
                        ELSE Cardinality(f)
           produced  == Total(actual, First(n, a))
           predicted == [t \in DOMAIN table |-> table[t].predicted]
           some      == {x \in kSubset(n, f) : Total(predicted, x) > 0}
<1>1. Ratios(h, b) = IF n < MinSamples THEN {}
                     ELSE {[actual |-> produced, predicted |-> Total(predicted, s)] :
                             s \in some}
  BY DEF Ratios
<1>2. produced \in Nat
  BY TotalType
<1>3. \A s \in some : Total(predicted, s) \in Nat /\ Total(predicted, s) > 0
  BY TotalType
<1> HIDE DEF n, produced, predicted, some
<1>4. ASSUME NEW r \in Ratios(h, b)
      PROVE  r \in [actual : Nat, predicted : Nat \ {0}]
  <2>1. PICK s \in some : r = [actual |-> produced, predicted |-> Total(predicted, s)]
    BY <1>1
  <2>2. Total(predicted, s) \in Nat \ {0}
    BY <1>3
  <2>3. QED
    BY <1>2, <2>1, <2>2
<1>5. QED
  BY <1>4

LEMMA CorrectedRows ==
    ASSUME NEW plain, NEW m \in BiasMaps,
           \A t \in DOMAIN plain : SoundRow(t, plain[t]) /\ plain[t].source = "live"
    PROVE  LET after == Corrected(plain, m)
           IN  /\ DOMAIN after = DOMAIN plain
               /\ \A t \in DOMAIN after : SoundRow(t, after[t])
<1> DEFINE after == Corrected(plain, m)
<1>1. DOMAIN after = DOMAIN plain
  BY DEF Corrected
<1>2. ASSUME NEW t \in DOMAIN plain
      PROVE  SoundRow(t, after[t])
  <2> DEFINE key == <<HourOfDay(t), Bucket(plain[t].cloud)>>
             watts == IF key \in DOMAIN m THEN Scaled(plain[t].predicted, m[key])
                      ELSE plain[t].predicted
  <2>1. after[t] = [plain[t] EXCEPT !.corrected = watts]
    BY <1>2 DEF Corrected
  <2>2. /\ t \in Times /\ plain[t] \in Row /\ plain[t].source = "live"
        /\ \E w \in Weathers, modelled \in BOOLEAN :
             plain[t].cloud = w.cloud /\ plain[t].predicted = Watts(t, w, modelled)
    BY DEF SoundRow
  <2>3. plain[t].predicted \in Nat
    BY <2>2 DEF Row
  <2>4. watts \in 0 .. 3 * plain[t].predicted
    <3>1. CASE key \in DOMAIN m
      <4>1. m[key] \in Ratios(key[1], key[2])
        BY <3>1 DEF BiasMaps
      <4>2. m[key] \in [actual : Nat, predicted : Nat \ {0}]
        BY <4>1, RatioType
      <4>3. QED
        BY <2>3, <3>1, <4>2, ScaledBound
    <3>2. CASE key \notin DOMAIN m
      BY <2>3, <3>2
    <3>3. QED
      BY <3>1, <3>2
  <2> HIDE DEF watts, after
  <2>5. /\ after[t] \in Row /\ after[t].corrected = watts
        /\ after[t].cloud = plain[t].cloud /\ after[t].predicted = plain[t].predicted
        /\ after[t].source = "live"
    BY <2>1, <2>2, <2>3, <2>4 DEF Row
  <2>6. QED
    BY <2>2, <2>3, <2>4, <2>5 DEF SoundRow
<1>3. QED
  BY <1>1, <1>2

(* A sound row is as TypeOK wants it. *)
LEMMA SoundIsTyped ==
    ASSUME NEW t, NEW row, SoundRow(t, row)
    PROVE  t \in Times /\ RowOK(t, row)
BY DEF SoundRow, RowOK, Row

----------------------------------------------------------------------------
(* The steps of a refresh. *)

LEMMA BeginKeeps ==
    ASSUME ForecastInv, Begin
    PROVE  ForecastInv'
<1>1. /\ phase = "idle" /\ phase' \in {"build", "build_raw", "archive"} /\ began' = now
      /\ UNCHANGED <<last, rows, table, now, actual>>
  BY DEF Begin, outside
<1>2. TimeOK' /\ ActualOK' /\ TableOK' /\ RowsOK'
  BY <1>1 DEF ForecastInv, TimeOK, ActualOK, TableOK, RowsOK, Phases
<1>3. QED
  BY <1>2 DEF ForecastInv

LEMMA FetchArchiveKeeps ==
    ASSUME ForecastInv, FetchArchive
    PROVE  ForecastInv'
<1>1. phase = "archive" /\ UNCHANGED <<last, began, table, now, actual>>
  BY DEF FetchArchive, outside
<1>2. TimeOK' /\ ActualOK' /\ TableOK'
  BY <1>1 DEF ForecastInv, TimeOK, ActualOK, TableOK
<1>3. CASE phase' = "build" /\ rows' = rows
  BY <1>1, <1>2, <1>3 DEF ForecastInv, RowsOK, Phases
<1> DEFINE days    == (DayStart(now) - Lookback * Day)..(DayStart(now) - 1)
           weather == [t \in days |-> Past[t]]
<1>4. CASE phase' = "store_archive"
           /\ \E modelled \in BOOLEAN : rows' = AssembleRows(weather, "archive", modelled)
  <2>1. now \in Nat /\ now <= MaxTime
    BY Constants DEF ForecastInv, TimeOK
  <2>2. DayStart(now) \in 0 .. now
    BY <2>1, HourFacts
  <2>3. days \subseteq Times
    BY <2>1, <2>2, TimesFacts, Constants
  <2>4. DOMAIN weather = days /\ \A t \in days : weather[t] \in Weathers
    BY <2>3, Constants
  <2> HIDE DEF weather, days
  <2>5. \A t \in DOMAIN rows' : SoundRow(t, rows'[t])
    BY <1>4, <2>3, <2>4, AssembledRows
  <2>6. RowsOK'
    BY <1>4, <2>5 DEF RowsOK, Phases
  <2>7. QED
    BY <1>2, <2>6 DEF ForecastInv
<1>5. QED
  BY <1>3, <1>4 DEF FetchArchive

LEMMA BuildKeeps ==
    ASSUME ForecastInv, Build
    PROVE  ForecastInv'
<1>1. phase \in {"build", "build_raw"} /\ UNCHANGED <<last, began, table, now, actual>>
  BY DEF Build, outside
<1>2. TimeOK' /\ ActualOK' /\ TableOK'
  BY <1>1 DEF ForecastInv, TimeOK, ActualOK, TableOK
<1>3. CASE phase' = "idle" /\ rows' = rows
  BY <1>1, <1>2, <1>3 DEF ForecastInv, RowsOK, Phases
<1> DEFINE hours == DayStart(now)..(DayStart(now) + Hours - 1)
<1>4. CASE /\ \E weather \in Reports(hours), modelled \in BOOLEAN :
                rows' = AssembleRows(weather, "live", modelled)
           /\ phase' \in {"correct", "store_live"}
  <2>1. now \in Nat /\ now <= MaxTime
    BY Constants DEF ForecastInv, TimeOK
  <2>2. DayStart(now) \in 0 .. now
    BY <2>1, HourFacts
  <2>3. hours \subseteq Times
    <3>1. PICK d \in 0 .. now : d = DayStart(now)
      BY <2>2
    <3>2. d .. (d + Hours - 1) \subseteq Start0 .. (MaxTime + Hours)
      <4>1. /\ Hours \in Nat /\ MaxTime \in Nat /\ d \in Nat /\ d <= MaxTime
            /\ Start0 \in Int /\ Start0 <= 0
        BY <2>1, <3>1, TimesFacts, Constants
      <4>2. \A t \in d .. (d + Hours - 1) : t \in Int /\ Start0 <= t /\ t <= MaxTime + Hours
        BY <4>1
      <4>3. QED
        BY <4>1, <4>2
    <3>3. QED
      BY <3>1, <3>2, TimesFacts
  <2>4. PICK weather \in Reports(hours), modelled \in BOOLEAN :
          rows' = AssembleRows(weather, "live", modelled)
    BY <1>4
  <2>5. DOMAIN weather = hours /\ \A t \in hours : weather[t] \in Weathers
    BY <2>4 DEF Reports
  <2> HIDE DEF hours
  <2>6. \A t \in DOMAIN rows' : SoundRow(t, rows'[t]) /\ rows'[t].source = "live"
    BY <2>3, <2>4, <2>5, AssembledRows
  <2>7. RowsOK'
    BY <1>4, <2>6 DEF RowsOK, Phases
  <2>8. QED
    BY <1>2, <2>7 DEF ForecastInv
<1>5. QED
  BY <1>3, <1>4 DEF Build

(* The correction touches one column, and not beyond the clamp. *)
LEMMA CorrectKeeps ==
    ASSUME ForecastInv, Correct
    PROVE  ForecastInv'
<1>1. /\ phase = "correct" /\ phase' = "store_live"
      /\ UNCHANGED <<last, began, table, now, actual>>
      /\ rows' = rows \/ \E m \in BiasMaps : rows' = Corrected(rows, m)
  BY DEF Correct, outside
<1>2. TimeOK' /\ ActualOK' /\ TableOK'
  BY <1>1 DEF ForecastInv, TimeOK, ActualOK, TableOK
<1>3. \A t \in DOMAIN rows : SoundRow(t, rows[t]) /\ rows[t].source = "live"
  BY <1>1 DEF ForecastInv, RowsOK
<1>4. \A t \in DOMAIN rows' : SoundRow(t, rows'[t])
  BY <1>1, <1>3, CorrectedRows
<1>5. RowsOK'
  BY <1>1, <1>4 DEF RowsOK, Phases
<1>6. QED
  BY <1>2, <1>5 DEF ForecastInv

LEMMA StoreRowKeeps ==
    ASSUME ForecastInv, StoreRow
    PROVE  ForecastInv'
<1>1. /\ phase \in {"store_archive", "store_live"}
      /\ UNCHANGED <<last, phase, began, now, actual>>
  BY DEF StoreRow, outside
<1>2. PICK t \in DOMAIN rows : /\ table' = With(table, t, rows[t])
                               /\ rows' = [u \in DOMAIN rows \ {t} |-> rows[u]]
  BY DEF StoreRow
<1>3. TimeOK' /\ ActualOK'
  BY <1>1 DEF ForecastInv, TimeOK, ActualOK
<1>4. \A u \in DOMAIN rows : SoundRow(u, rows[u])
  BY DEF ForecastInv, RowsOK
<1>5. RowsOK'
  BY <1>1, <1>2, <1>4 DEF RowsOK, Phases
<1>6. TableOK'
  <2>1. ASSUME NEW u \in DOMAIN table'
        PROVE  SoundRow(u, table'[u])
    <3>1. /\ u \in DOMAIN table \cup {t}
          /\ table'[u] = IF u = t THEN rows[t] ELSE table[u]
      BY <1>2, <2>1 DEF With
    <3>2. QED
      BY <1>4, <3>1 DEF ForecastInv, TableOK
  <2>2. QED
    BY <2>1 DEF TableOK
<1>7. QED
  BY <1>3, <1>5, <1>6 DEF ForecastInv

LEMMA StoredKeeps ==
    ASSUME ForecastInv, Stored \/ StoreFails
    PROVE  ForecastInv'
<1>1. /\ phase' \in {"build", "idle"} /\ DOMAIN rows' = {}
      /\ last' \in {began, last}
      /\ UNCHANGED <<began, table, now, actual>>
  BY DEF Stored, StoreFails, NoRows, outside
<1>2. TimeOK' /\ ActualOK' /\ TableOK' /\ RowsOK'
  BY <1>1 DEF ForecastInv, TimeOK, ActualOK, TableOK, RowsOK, Phases
<1>3. QED
  BY <1>2 DEF ForecastInv

----------------------------------------------------------------------------
(* Around it. *)

LEMMA TickKeeps ==
    ASSUME ForecastInv, Tick
    PROVE  ForecastInv'
<1>1. /\ now < MaxTime /\ now' = now + 1
      /\ \/ actual' = actual
         \/ \E p \in Productions : actual' = With(actual, now, p)
      /\ UNCHANGED <<last, phase, rows, began, table>>
  BY DEF Tick, process
<1>2. now \in Nat /\ now' \in 0..MaxTime /\ now <= now'
  BY <1>1, Constants DEF ForecastInv, TimeOK
<1>3. TimeOK'
  BY <1>1, <1>2 DEF ForecastInv, TimeOK
<1>4. TableOK' /\ RowsOK'
  BY <1>1 DEF ForecastInv, TableOK, RowsOK
<1>5. ActualOK'
  <2>1. \A t \in DOMAIN actual : t \in Int /\ t <= now /\ t <= now' /\ actual[t] \in Productions
    BY <1>1, <1>2 DEF ForecastInv, ActualOK
  <2>2. CASE actual' = actual
    BY <2>1, <2>2 DEF ActualOK
  <2>3. ASSUME NEW p \in Productions, actual' = With(actual, now, p)
        PROVE  ActualOK'
    <3>1. ASSUME NEW t \in DOMAIN actual'
          PROVE  t \in Int /\ t <= now' /\ actual'[t] \in Productions
      <4>1. /\ t \in DOMAIN actual \cup {now}
            /\ actual'[t] = IF t = now THEN p ELSE actual[t]
        BY <2>3, <3>1 DEF With
      <4>2. QED
        BY <1>2, <2>1, <4>1
    <3>2. QED
      BY <3>1 DEF ActualOK
  <2>4. QED
    BY <1>1, <2>2, <2>3
<1>6. QED
  BY <1>3, <1>4, <1>5 DEF ForecastInv

LEMMA OutsideKeeps ==
    ASSUME ForecastInv, Toggle \/ DbDown \/ NetDown \/ Recover \/ UNCHANGED vars
    PROVE  ForecastInv'
<1>1. UNCHANGED <<last, phase, rows, began, table, now, actual>>
  BY DEF Toggle, DbDown, NetDown, Recover, vars, process, outside
<1>2. TimeOK' /\ ActualOK' /\ TableOK' /\ RowsOK'
  BY <1>1 DEF ForecastInv, TimeOK, ActualOK, TableOK, RowsOK
<1>3. QED
  BY <1>2 DEF ForecastInv

LEMMA CrashKeeps ==
    ASSUME ForecastInv, Crash
    PROVE  ForecastInv'
<1>1. /\ last' = Never /\ phase' = "idle" /\ DOMAIN rows' = {} /\ began' = Never
      /\ UNCHANGED <<table, now, actual>>
  BY DEF Crash, NoRows
<1>2. TimeOK' /\ ActualOK' /\ TableOK' /\ RowsOK'
  BY <1>1 DEF ForecastInv, TimeOK, ActualOK, TableOK, RowsOK, Phases
<1>3. QED
  BY <1>2 DEF ForecastInv

----------------------------------------------------------------------------
(* The induction. *)

LEMMA ForecastInit ==
    ASSUME Init
    PROVE  ForecastInv
<1>1. TimeOK
  BY Constants DEF Init, TimeOK
<1>2. ActualOK
  <2>1. PICK s \in {{}, Start0..-1} : actual \in [s -> Productions]
    BY DEF Init
  <2>2. QED
    BY <2>1, TimesFacts DEF Init, ActualOK
<1>3. TableOK /\ RowsOK
  BY DEF Init, TableOK, RowsOK, Phases, NoRows
<1>4. QED
  BY <1>1, <1>2, <1>3 DEF ForecastInv

LEMMA ForecastNext ==
    ASSUME ForecastInv, [Next]_vars
    PROVE  ForecastInv'
BY BeginKeeps, FetchArchiveKeeps, BuildKeeps, CorrectKeeps, StoreRowKeeps, StoredKeeps,
   TickKeeps, OutsideKeeps, CrashKeeps DEF Next, Refresh

(* The state keeps its shape: rows are of hours within the lookback and    *)
(* the horizon, history is not corrected, and nothing is left to store     *)
(* between two refreshes.                                                  *)
THEOREM ForecastIsTyped == Spec => []TypeOK
<1>1. Init => ForecastInv
  BY ForecastInit
<1>2. ForecastInv /\ [Next]_vars => ForecastInv'
  BY ForecastNext
<1>3. ForecastInv => TypeOK
  BY SoundIsTyped DEF ForecastInv, TypeOK, TimeOK, ActualOK, TableOK, RowsOK, Phases
<1>4. QED
  BY <1>1, <1>2, <1>3, PTL DEF Spec

(* _apply_correction() and the upsert of store_forecast(): the predicted   *)
(* watts a later calibration compares with are the weather's alone.        *)
THEOREM PredictionIsNeverCorrected == Spec => []PredictedStaysRaw
<1>1. Init => ForecastInv
  BY ForecastInit
<1>2. ForecastInv /\ [Next]_vars => ForecastInv'
  BY ForecastNext
<1>3. ForecastInv => PredictedStaysRaw
  BY DEF ForecastInv, TableOK, SoundRow, PredictedStaysRaw
<1>4. QED
  BY <1>1, <1>2, <1>3, PTL DEF Spec

(* _compute_bias_map() clamps the ratio: whatever history and forecast are *)
(* paired, no stored hour is corrected to more than three times its        *)
(* prediction.                                                             *)
THEOREM CorrectionIsBounded == Spec => []CorrectionBounded
<1>1. Init => ForecastInv
  BY ForecastInit
<1>2. ForecastInv /\ [Next]_vars => ForecastInv'
  BY ForecastNext
<1>3. ForecastInv => CorrectionBounded
  BY DEF ForecastInv, TableOK, SoundRow, CorrectionBounded
<1>4. QED
  BY <1>1, <1>2, <1>3, PTL DEF Spec
===============================================================================
