SPECIFICATION Spec
CONSTANTS
  Setup <- MCSetup
  Call = {"c1", "c2"}
  MaxDepth = 2
  MaxFaults = 2
INVARIANTS
  AnswerIsOwn
  KilledOnlyAfterGoodbye
PROPERTIES
  EveryCallReturns
  JoinsInTheEnd
CHECK_DEADLOCK FALSE
