SPECIFICATION Spec
CONSTANTS
  View = {"v1", "v2"}
  Slave = {}
  Handlers = {"key", "shortcut"}
  Commands = {"edit"}
  MaxEvents = 4
  MaxRounds = 12
  InitialDoc <- MCDoc
  EditsOf <- MCEditsOf
  CursorsOf <- MCCursorsOf
  MarkerOf <- MCMarkerOf
  PSwap <- MCSwap
  PInvert <- MCInvert
  PApplicable <- MCApplicable
  PMods <- MCMods
  PJoin <- MCJoin
  PCompactify <- MCCompactify
  PRemoveSetCursor <- MCRemoveSetCursor
  PIsMarker <- MCIsMarker
  FSplit <- MCSplit
  FMake <- MCMake
INVARIANTS
  HistoryApplies
CHECK_DEADLOCK FALSE
