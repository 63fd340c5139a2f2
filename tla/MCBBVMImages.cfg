CONSTANTS
  Name <- MCName
  Image <- MCImage
SPECIFICATION Spec
INVARIANT TypeOK
INVARIANT CertificateHolds
INVARIANT NoUnderflow
CHECK_DEADLOCK FALSE
