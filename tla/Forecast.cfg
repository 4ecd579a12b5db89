SPECIFICATION FairSpec
CONSTANTS
  Day = 2
  Hours = 2
  Interval = 1
  Lookback = 1
  MinSamples = 1
  ClearSky <- MCClearSky
  Peak = 1
  Gain = 10
  Weathers <- MCWeathers
  NoCloud <- MCNoCloud
  Past <- MCPast
  Productions = {900}
  MaxTime = 2
  MaxFaults = 1
  MaxToggles = 1
INVARIANTS
  TypeOK
  PredictedStaysRaw
  CorrectionBounded
PROPERTIES
  HourIsForecast
CHECK_DEADLOCK FALSE
