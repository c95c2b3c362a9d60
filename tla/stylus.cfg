\* Windows and queries over strokes, rejected Moves, Saves and Restores.
SPECIFICATION Spec
CONSTANTS
  Params <- MCParams
  Inputs <- MCInputs
  FullTurn = 12
  TipPositions <- MCPositions
  Hits <- MCHits
  NoStroke = NoStroke
  NoSave = NoSave
  NoOutput = NoOutput
  NoNormal = NoNormal
  Unknown = Unknown
  MaxInputs = 4
INVARIANTS
  TypeOK
  WindowSufficient
  MissingFieldsStick
  ProjectionIsClosest
  ProjectionIsOutside
  OrientationTakesShorterPath
