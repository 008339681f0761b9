SPECIFICATION Spec
CONSTANTS
  View = {"v1"}
  Slave = {}
  Handlers = {"key", "menu-undo", "menu-redo", "menu-clear"}
  Commands = {}
  MaxEvents = 7
  MaxRounds = 12
  InitialDoc <- MCDoc
  EditsOf <- MCEditsOf
  CursorsOf <- MCCursorsOf
  MarkerOf <- MCMarkerOf
  PSwap <- MCSwap
  PInvert <- MCInvert
  PApplicable <- MCApplicable
  PMods <- MCMods
  PJoin <- MCJoin
  PCompactify <- MCCompactify
  PRemoveSetCursor <- MCRemoveSetCursor
  PIsMarker <- MCIsMarker
  FSplit <- MCSplit
  FMake <- MCMake
INVARIANTS
  HistoryApplies
  RedoReversesUndo
PROPERTIES
  KeepsUndoTree
CHECK_DEADLOCK FALSE
