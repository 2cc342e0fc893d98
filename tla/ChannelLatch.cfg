SPECIFICATION FairSpec
CONSTANTS
  PreambleTime = 2
  PacketTime = 5
  Noise = TRUE
  BusFails = TRUE
PROPERTY
  NeverLatched
