SPECIFICATION Spec
CONSTANTS
  Docs = {"text"}
  Sockets = {"maxima"}
  Keys = {"k1"}
  Cmds = {"close"}
  Prefs = {0, 2}
  Idle = 1
  Slice = 1
  MaxProc = 1
  MaxDelayed = 2
INVARIANTS
  TypeOK
  NothingForgotten
PROPERTIES
  AllServed
  Autosaving
  SettlesDown
