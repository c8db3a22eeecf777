SPECIFICATION Spec
CONSTANTS
  MaxCalls = 2
  Kinds = {"anext", "read_n", "read_0", "read_all", "readexactly", "wait_closed", "aexit_ok", "aexit_exc"}
  Code = {0, 7}
  NoCode = NoCode
  Units = 3
  Want = 2
  Limit = 2
  LostCauses = {"TimedOut", "LocallyClosed"}
INVARIANT TypeOK
INVARIANT LockInv
INVARIANT ExceptionsAreTrue
INVARIANT EndIsReal
INVARIANT ReadsKeepPromises
INVARIANT ReadsContiguous
INVARIANT StopCodeRequested
INVARIANT ExitStops
PROPERTY ImplementsStream
CHECK_DEADLOCK FALSE
