SPECIFICATION Spec
CONSTANTS
  MaxCalls = 2
  Kinds = {"read_n", "aexit_ok"}
  Code = {0}
  NoCode = NoCode
  Units = 1
  Want = 1
  Limit = 1
  LostCauses = {}
PROPERTY ExitIsPrompt
CHECK_DEADLOCK FALSE
