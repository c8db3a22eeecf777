SPECIFICATION Spec
CONSTANTS
  MaxCalls = 2
  Kinds = {"write", "write_some", "finish", "wait_closed", "aexit_ok", "aexit_exc"}
  Code = {0}
  NoCode = NoCode
  Prio = {0}
  Size = 2
  Window = 1
  LostCauses = {}
PROPERTY ResetUnblocks
PROPERTY OpsComplete
