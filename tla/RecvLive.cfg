SPECIFICATION Spec
CONSTANTS
  MaxCalls = 2
  Kinds = {"anext", "read_n", "read_0", "read_all", "readexactly", "wait_closed", "aexit_ok", "aexit_exc"}
  Code = {0}
  NoCode = NoCode
  Units = 1
  Want = 2
  Limit = 2
  LostCauses = {}
PROPERTY StopUnblocks
PROPERTY OpsComplete
CHECK_DEADLOCK FALSE
