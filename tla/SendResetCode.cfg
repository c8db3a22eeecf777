SPECIFICATION Spec
CONSTANTS
  MaxCalls = 2
  Kinds = {"write", "aexit_exc"}
  Code = {0, 7}
  NoCode = NoCode
  Prio = {0}
  Size = 1
  Window = 1
  LostCauses = {}
PROPERTY ResetCodeKept
