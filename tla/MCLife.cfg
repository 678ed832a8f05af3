SPECIFICATION Spec
CONSTANTS
  MaxCid = 2
  MaxCalls = 1
  MaxQueue = 2
  Answers <- Ordinary
  Offers <- Ordinary
  Features = {"incoming", "refer", "ping", "sendfailure"}
CHECK_DEADLOCK FALSE
PROPERTIES
  CallsLiveOnce
