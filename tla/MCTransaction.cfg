SPECIFICATION Spec
CONSTANTS
  MaxCopies = 1
  MaxFaults = 1
  MaxFifo = 2
INVARIANTS TypeOK
PROPERTIES Implements EveryRequestEnds AnswerIsSettled CallsAgree
CHECK_DEADLOCK FALSE
