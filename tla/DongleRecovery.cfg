SPECIFICATION FairSpec
CONSTANTS
  Callers = {poll}
  Poller = poll
  NoThread = NoThread
  Batches <- OneBatch
  Commands <- NoCommands
  Values <- OnlyValue
  Err = "err"
  MaxRetries = 1
  StaleThreshold = 2
  MaxInFlight = 1
PROPERTIES
  PollingRecovers
