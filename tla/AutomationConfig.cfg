SPECIFICATION Spec
CONSTANTS
  Collector = collector
  Users = {u1}
  Ids = {"t"}
  Rule <- OneSimple
  Settings = {"s"}
  Mapped = {"s"}
  Values = {"v0", "v1"}
  Readings <- NoReadings
  Hours = {"day"}
  None = None
  Lists <- TableOnly
  MaxTime = 1
  MaxTries = 2
  Faults <- AllFaults
  MaxFaults = 2
INVARIANTS
  TypeOK
  DryRunKept
PROPERTIES
  RoundsRespectDryRun
