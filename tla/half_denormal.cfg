SPECIFICATION HSpec
CONSTANTS
  HalfSet <- MCHalfSet
  FloatSet <- MCFloatSet
INVARIANTS HalfKept
CHECK_DEADLOCK FALSE
