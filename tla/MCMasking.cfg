SPECIFICATION Spec
CONSTANTS
  Byte <- MCByte
  XorByte <- MCXor
  Unset = Unset
  Inputs <- MCInputs
INVARIANTS MaskCorrect PayloadSurvives InBounds
\* the receiver's call has returned
CHECK_DEADLOCK FALSE
