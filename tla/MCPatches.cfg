SPECIFICATION Spec
CONSTANTS
  Documents <- SmallDocuments
  ModsOf <- SmallModsOf
INVARIANTS
  InverseRestores
  SwapKeepsEffect
  SwapBack
  ShrinkKeepsEffect
  SwapKeepsHistory
CHECK_DEADLOCK FALSE
