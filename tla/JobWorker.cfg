SPECIFICATION Spec
CONSTANTS
  MaxConns = 2
  MaxGiven = 2
INVARIANTS
  AnswersArrive
  BeatsAsItself
  CountedWasAccepted
  NeverStandsStill
PROPERTIES
  StopReturns
CHECK_DEADLOCK FALSE
