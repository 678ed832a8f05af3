SPECIFICATION SpecReport
CONSTANTS
  SeqMod = 16
  TsMod = 32
  WrapZone = 4
  TsJump = 2
  MaxQueue = 2
  FirstSeqs = {14}
  FirstTs = {0}
  Jumps = {6}
  MaxSent = 5
  MaxLines = 0
  Window = 2
  MaxFaults = 1
  MaxReports = 2
PROPERTIES LossIsReal
CHECK_DEADLOCK FALSE
