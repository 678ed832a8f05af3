SPECIFICATION FairSpec
CONSTANTS
  MaxCid = 1
  MaxCalls = 1
  MaxQueue = 3
  Answers <- Ordinary
  Offers <- Offerless
  Features = {"incoming", "reaction", "earlymedia", "reinvite"}
CHECK_DEADLOCK FALSE
INVARIANTS
  AwaitedAckIsPending
PROPERTIES
  EndedIsReleased
