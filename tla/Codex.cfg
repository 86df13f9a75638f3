CONSTANTS
  None = None
  Handshake = 1
  MaxTurns = 2
  MaxWire = 2
  Disturbances = 2
SPECIFICATION FairSpec
INVARIANTS SettledOnce RequestsAnswered
PROPERTIES SessionEnds
CHECK_DEADLOCK FALSE
