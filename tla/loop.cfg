\* The speed window and the interpolation value.
SPECIFICATION Spec
CONSTANTS
  Params <- MCParams
  Speeds <- MCSpeeds
  Times <- MCTimes
  One = 4
  NoSave = NoSave
  MaxUpdates = 4
INVARIANTS
  TypeOK
  WindowIsRecent
  ValueBetweenStrengths
