SPECIFICATION Spec
CONSTANTS
  Programs <- MCPrograms
  Conn = {"c1", "c2"}
  TrustedRoots = {"cert"}
INVARIANT AlreadyAnswered
CHECK_DEADLOCK FALSE
