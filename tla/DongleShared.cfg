SPECIFICATION FairSpec
CONSTANTS
  Callers = {poll, api}
  Poller = poll
  NoThread = NoThread
  Batches <- OneBatch
  Commands <- OneCommand
  Values <- OnlyValue
  Err = "err"
  MaxRetries = 1
  StaleThreshold = 2
  MaxInFlight = 1
INVARIANTS
  TypeOK
  AnswerIsOwnUnlessTimedOut
  IdenticalRunBounded
PROPERTIES
  TransactionTerminates
