SPECIFICATION FairSpec
CONSTANTS
  MaxPolls = 2
  MaxStarts = 2
  MaxFaults = 2
  ByHand = TRUE
CHECK_DEADLOCK FALSE
INVARIANTS StartsWithWhole PartialIsExplained
PROPERTIES NeverBack ScriptEnds ComesUp
