SPECIFICATION Spec
CONSTANTS
  Documents <- SmallDocuments
  ModsOf <- SmallModsOf
INVARIANTS
  TestCommute
CHECK_DEADLOCK FALSE
