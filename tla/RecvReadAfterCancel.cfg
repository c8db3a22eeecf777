SPECIFICATION Spec
CONSTANTS
  MaxCalls = 2
  Kinds = {"read_n", "read_all"}
  Code = {0}
  NoCode = NoCode
  Units = 1
  Want = 1
  Limit = 1
  LostCauses = {}
INVARIANT UsableAfterCancel
CHECK_DEADLOCK FALSE
