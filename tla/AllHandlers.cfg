SPECIFICATION Spec
CONSTANTS
  View = {"v1"}
  Slave = {"p"}
  Handlers = {"key", "shortcut", "suspend", "click", "menu-edit", "menu-undo", "menu-redo", "menu-save", "menu-clear", "menu-try", "drag", "plugin", "autosave"}
  Commands = {"edit", "move", "save", "undo"}
  MaxEvents = 4
  MaxRounds = 12
  InitialDoc <- MCDoc
  EditsOf <- MCEditsOf
  CursorsOf <- MCCursorsOf
  MarkerOf <- MCMarkerOf
  PSwap <- MCSwap
  PInvert <- MCInvert
  PApplicable <- MCApplicable
  PMods <- MCMods
  PJoin <- MCJoin
  PCompactify <- MCCompactify
  PRemoveSetCursor <- MCRemoveSetCursor
  PIsMarker <- MCIsMarker
  FSplit <- MCSplit
  FMake <- MCMake
INVARIANTS
  TypeOK
  ArchiveShape
  NoFailure
  Confirmed
  ResultAfterBirth
PROPERTIES
  DragIsOneItem
  TryLeavesNoTrace
CHECK_DEADLOCK FALSE
