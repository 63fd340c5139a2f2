CONSTANTS
  Name <- MCName
  Image <- Returning
SPECIFICATION Spec
INVARIANT ReturnAlwaysEmitted
CHECK_DEADLOCK FALSE
