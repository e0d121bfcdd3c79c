CONSTANTS
  MaskBits = 3
  Window = 4
  MaxCtr = 6
  MaxKeys = 2

SPECIFICATION Spec

INVARIANT TypeOK
INVARIANT NeverAgain
INVARIANT LateAdmitted

\* Both ends may have forgotten the last key.
CHECK_DEADLOCK FALSE
