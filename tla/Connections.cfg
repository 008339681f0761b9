SPECIFICATION Spec
CONSTANTS
  Evals = {"a", "b", "nil"}
  Empty = {"nil"}
  Prompt = "prompt"
  MaxOut = 2
INVARIANTS
  TypeOK
  InStep
  PendingWaits
PROPERTIES
  OwnOutput
  EndsInOrder
  NobodyWaits
CHECK_DEADLOCK FALSE
