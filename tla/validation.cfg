\* Parameters filled in field by field, from defaults and from tuned ones.
SPECIFICATION Spec
CONSTANTS
  Infinity = 30000
  NaN = NaN
  FirstParams <- MCFirstParams
  Floats <- MCFloats
  Ints <- MCInts
  Unset = Unset
  MaxEdits = 2
INVARIANTS
  AcceptedNumbersAreUsable
  RefusedIsUnusable
PROPERTIES
  IgnoredFieldsDoNotMatter
