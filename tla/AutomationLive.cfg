SPECIFICATION FairSpec
CONSTANTS
  Collector = collector
  Users = {u1}
  Ids = {"p"}
  Rule <- Protecting
  Settings = {"s"}
  Mapped = {"s"}
  Values = {"v0", "v1"}
  Readings = {"low", "high"}
  Hours = {"day"}
  None = None
  Lists <- ProtectionOnly
  MaxTime = 0
  MaxTries = 2
  Faults <- Writing
  MaxFaults = 1
PROPERTIES
  ActionEventuallyHolds
