SPECIFICATION Spec
CONSTANTS
  View = {"v1"}
  Slave = {}
  Handlers = {"key", "shortcut", "suspend", "click", "pre-edit"}
  Commands = {"edit", "move", "undo"}
  MaxEvents = 5
  MaxRounds = 12
  InitialDoc <- MCDoc
  EditsOf <- MCEditsOf
  CursorsOf <- MCCursorsOf
  MarkerOf <- MCMarkerOf
  PSwap <- MCSwap
  PInvert <- MCInvert
  PApplicable <- MCApplicable
  PMods <- MCMods
  PJoin <- MCJoin
  PCompactify <- MCCompactify
  PRemoveSetCursor <- MCRemoveSetCursor
  PIsMarker <- MCIsMarker
  FSplit <- MCSplit
  FMake <- MCMake
INVARIANTS
  OneMark
  MarkInReach
PROPERTIES
  TakesBack
CHECK_DEADLOCK FALSE
