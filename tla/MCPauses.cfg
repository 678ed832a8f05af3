SPECIFICATION Spec
CONSTANTS
  MaxCid = 2
  MaxCalls = 2
  MaxQueue = 2
  Answers <- HeldOrNot
  Offers <- Ordinary
  Features = {"refer", "hold"}
CHECK_DEADLOCK FALSE
INVARIANTS
  ReferencesAreCounted
  PausedHasNoPendingTransfer
  PausedIsAgreed
  PauseIsAsked
  NoCallOnDeadDialog
