SPECIFICATION FairSpec
CONSTANTS
  Alerts = {}
  Readings = {"fine"}
  Fires <- NoFires
  NoGrid = {}
  GridDelay = 0
  DefaultDelay = 1
  Channels = {}
  Throttle = 0
  MaxId = 2
  MaxFaults = 1
  MaxReloads = 0
  Clients = {c1, c2}
  MaxConnects = 2
INVARIANTS
  StreamTypeOK
PROPERTIES
  NeverBackwards
  ClientsFollow
