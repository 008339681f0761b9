SPECIFICATION Spec
CONSTANTS
  Starts <- MCStarts
  NewStrings <- MCNewStrings
  NewNodes <- MCNewNodes
  MaxMods = 2
INVARIANTS
  ObserversFit
PROPERTIES
  PositionsFollow
  LeavesPassive
  LinksHold
CHECK_DEADLOCK FALSE
