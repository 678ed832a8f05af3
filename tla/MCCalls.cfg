SPECIFICATION Spec
CONSTANTS
  MaxCid = 2
  MaxCalls = 2
  MaxQueue = 2
  Answers <- Ordinary
  Offers <- Offerless
  Features = {"incoming", "earlymedia", "ping", "presence", "reaction"}
CHECK_DEADLOCK FALSE
INVARIANTS
  NothingRetainedIsFreed
  RingIsForSomeone
  NoOrphanDialog
  EndedIsSilent
  FriendsKnow
  CoreInv
PROPERTIES
  AnsweredStaysAnswered
