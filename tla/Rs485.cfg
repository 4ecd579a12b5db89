SPECIFICATION FairSpec
CONSTANTS
  Drivers = {"jk_bms", "eg4_a5_bms", "modbus_rtu", "eg4_bms"}
  JkBattery <- MCJkBattery
  A5Battery <- MCA5Battery
  ModbusBattery <- MCModbusBattery
  Flips <- MCFlips
  A5Flips <- MCA5Flips
  MaxChunks = 2
  MaxNoise = 1
  Cuts = {1, 17}
  MaxFaults = 1
INVARIANTS
  TypeOK
  ReadingIsTrue
  DecodedAsMeant
PROPERTIES
  ReadingIsRecent
  BatteryIsStored
CHECK_DEADLOCK FALSE
