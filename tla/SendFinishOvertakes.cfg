SPECIFICATION Spec
CONSTANTS
  MaxCalls = 2
  Kinds = {"write", "finish"}
  Code = {0}
  NoCode = NoCode
  Prio = {0}
  Size = 1
  Window = 1
  LostCauses = {}
INVARIANT FinishWaitsForWrites
