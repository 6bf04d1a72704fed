SPECIFICATION Spec
CONSTANTS
  Depth = 3
  Interval = 2
  Window = 4
  Modulus = 8
  MaxLag = 1
  MaxSkew = 1
  MaxClock = 6
  MaxLives = 2
  Strangers = {2}
INVARIANTS
  TypeOK
  RingIsHistory
  NoTrafficIsMadeUp
  SpacedSamplesGiveARate
  
CHECK_DEADLOCK FALSE
