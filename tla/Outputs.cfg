SPECIFICATION OutputsFairSpec
CONSTANTS
  Alerts = {"battery_soc_low", "grid_loss"}
  Readings = {"fine", "low", "dark"}
  Fires <- LowFires
  NoGrid = {"dark"}
  GridDelay = 1
  DefaultDelay = 2
  Channels = {"email"}
  Throttle = 2
  MaxId = 1
  MaxFaults = 1
  MaxReloads = 1
INVARIANTS
  OutputsTypeOK
  RetainedIsState
PROPERTIES
  WritingResumes
  ActiveAlertIsShown
