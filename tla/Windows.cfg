SPECIFICATION Spec
CONSTANTS
  Buffers = {"new", "file", "widget"}
  Scratch = {"new"}
  Hidden = {"widget"}
  Wins = {w1, w2}
  NrViews = 4
  MaxEvents = 6
  NoWin = NoWin
  NoQuestion = NoQuestion
INVARIANTS
  TypeOK
  ViewsShown
  UnsavedIsKnown
PROPERTIES
  NothingLostUnasked
CHECK_DEADLOCK FALSE
