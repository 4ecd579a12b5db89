SPECIFICATION PassiveFairSpec
CONSTANTS
  Packets <- MCPackets
  Datalog <- MCDatalog
  Inverter <- MCInverter
  Transports = {"tcp", "replay"}
  Chunks = {1, 4096}
  ReplayChunk = 30
  MaxBuffer = 60
  Broadcast <- MCBroadcast
  MaxSends = 4
  MaxFile = 3
  MaxLosses = 1
INVARIANTS
  PassiveTypeOK
  
PROPERTIES
  DeliversFrames
  DeliveryGoesOn
CHECK_DEADLOCK FALSE
