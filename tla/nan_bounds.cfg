\* What params.h says of the bounds of the mitigation's parameters.
SPECIFICATION Spec
CONSTANTS
  Infinity = 30000
  NaN = NaN
  FirstParams <- MCFirstParams
  Floats <- MCFloats
  Ints <- MCInts
  Unset = Unset
  MaxEdits = 2
INVARIANT
  AcceptedBoundsHold
