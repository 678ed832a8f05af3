SPECIFICATION Spec
CONSTANTS
  MaxCid = 1
  MaxCalls = 1
  MaxQueue = 2
  Answers <- Ordinary
  Offers <- Ordinary
  Features = {"srtp"}
CHECK_DEADLOCK FALSE
INVARIANTS
  ReleasedIsNotRetained
