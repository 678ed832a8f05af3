SPECIFICATION Spec
CONSTANTS
  MaxCid = 1
  MaxCalls = 1
  MaxQueue = 3
  Answers <- Holding
  Offers <- AnyOffer
  Features = {"hold", "reinvite", "refusal", "update"}
CHECK_DEADLOCK FALSE
INVARIANTS
  ListedIffLive
  RunningHasMedia
PROPERTIES
  EndIsFinal
