\* The smoother over strokes, rejected Moves, Saves and Restores.
SPECIFICATION Spec
CONSTANTS
  Params <- MCParams
  Positions <- MCPositions
  Times <- MCTimes
  NoStroke = NoStroke
  NoSave = NoSave
  NoOutput = NoOutput
  MaxInputs = 4
INVARIANTS
  TypeOK
  SumsMatchWindow
  WindowIsPreviousTimeout
  SmoothedInsideWindow
