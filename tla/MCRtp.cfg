SPECIFICATION Spec
CONSTANTS
  SeqMod = 16
  TsMod = 16
  TsJump = 2
  MaxQueue = 2
  FirstSeqs = {3, 14}
  FirstTs = {0, 14}
  Jumps = {5, 14, 11}
  MaxSent = 6
  MaxLines = 1
  Window = 2
  MaxFaults = 1
INVARIANTS TypeOK NeverDeaf
PROPERTIES PlaysForward
CHECK_DEADLOCK FALSE
