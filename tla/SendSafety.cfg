SPECIFICATION Spec
CONSTANTS
  MaxCalls = 2
  Kinds = {"write", "write_some", "finish", "wait_closed", "aexit_ok", "aexit_exc"}
  Code = {0, 7}
  NoCode = NoCode
  Prio = {0, 1}
  Size = 2
  Window = 1
  LostCauses = {"LocallyClosed", "ApplicationClosed"}
INVARIANT TypeOK
INVARIANT LockInv
INVARIANT ExceptionsAreTrue
INVARIANT ResetCodeRequested
INVARIANT ExitCloses
INVARIANT SyncedIsApplied
INVARIANT WritesContiguous
INVARIANT NoFinMidWrite
INVARIANT WriteAllOrRaise
PROPERTY ImplementsStream
