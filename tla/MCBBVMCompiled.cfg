CONSTANTS
  Name <- MCName
  Image <- MCImage
SPECIFICATION Spec
INVARIANT CompiledMeaning
INVARIANT CompiledIsCertified
INVARIANT ParsedBack
PROPERTY AcceptedTerminate
CHECK_DEADLOCK FALSE
