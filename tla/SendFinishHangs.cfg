SPECIFICATION Spec
CONSTANTS
  MaxCalls = 2
  Kinds = {"write", "finish", "wait_closed"}
  Code = {0}
  NoCode = NoCode
  Prio = {0}
  Size = 1
  Window = 1
  LostCauses = {}
PROPERTY FinishCompletes
