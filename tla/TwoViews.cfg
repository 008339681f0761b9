SPECIFICATION Spec
CONSTANTS
  View = {"v1", "v2"}
  Slave = {}
  Handlers = {"key", "menu-undo", "menu-redo"}
  Commands = {}
  MaxEvents = 6
  MaxRounds = 12
  InitialDoc <- MCDoc
  EditsOf <- MCOwnParagraph
  CursorsOf <- MCOwnCursors
  MarkerOf <- MCMarkerOf
  PSwap <- MCSwap
  PInvert <- MCInvert
  PApplicable <- MCApplicable
  PMods <- MCMods
  PJoin <- MCJoin
  PCompactify <- MCCompactify
  PRemoveSetCursor <- MCRemoveSetCursor
  PIsMarker <- MCIsMarker
  FSplit <- MCSplit
  FMake <- MCMake
PROPERTIES
  UndoIsOwn
CHECK_DEADLOCK FALSE
