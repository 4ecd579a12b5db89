SPECIFICATION FairSpec
CONSTANTS
  Users = {u1}
  Collector = collector
  Requested <- MCRequested
  MinMinutes = 1
  MaxMinutes = 2
  RestBits <- TwoRests
  Puts = {"rest1"}
  MaxTries = 2
  Faults <- AllFaults
  MaxFaults = 1
INVARIANTS
  TypeOK
  StateMatchesInverter
PROPERTIES
  EnableNeedsDuration
  OtherBitsKept
  ExpiredIsStopped
