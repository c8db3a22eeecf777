SPECIFICATION Spec
CONSTANTS
  Programs <- MCPrograms
  Conn = {"c1", "c2"}
  TrustedRoots = {"cert"}
INVARIANT TypeOK
INVARIANT OneAnswer
INVARIANT ExitIsFinal
INVARIANT CausesAreTrue
INVARIANT Authenticated
PROPERTY NoUseAfterExit
PROPERTY AcceptsProgress
PROPERTY ClosersReturn
PROPERTY CloseEndsSession
PROPERTY ConnectReturns
CHECK_DEADLOCK FALSE
