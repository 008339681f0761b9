SPECIFICATION Spec
CONSTANTS
  View = {"v1"}
  Slave = {}
  Handlers = {"key", "menu-edit", "menu-undo", "menu-save", "menu-clear", "autosave"}
  Commands = {}
  MaxEvents = 6
  MaxRounds = 12
  InitialDoc <- MCDoc
  EditsOf <- MCEditsOf
  CursorsOf <- MCCursorsOf
  MarkerOf <- MCMarkerOf
  PSwap <- MCSwap
  PInvert <- MCInvert
  PApplicable <- MCApplicable
  PMods <- MCMods
  PJoin <- MCJoin
  PCompactify <- MCCompactify
  PRemoveSetCursor <- MCRemoveSetCursor
  PIsMarker <- MCIsMarker
  FSplit <- MCSplit
  FMake <- MCMake
INVARIANTS
  SavedIsSaved
CHECK_DEADLOCK FALSE
