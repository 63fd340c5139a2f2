CONSTANTS
  Name <- MCName
  Image <- Scoping
SPECIFICATION Spec
INVARIANT InnermostScopeWins
CHECK_DEADLOCK FALSE
