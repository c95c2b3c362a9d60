\* A client that restores only in the stroke it saved, prediction always on.
SPECIFICATION Spec
CONSTANTS
  a = a
  b = b
  far = far
  nan = nan
  Params <- MCParams
  Inputs <- MCSessionInputs
  NonFinite <- MCNonFinite
  FarPositions <- MCFarPositions
  NoParams = NoParams
  NoInput = NoInput
  NoPredictor = NoPredictor
  NoSave = NoSave
  MaxCalls = 3
  PredictionCap = 2
  RestoreOnlyInSavedStroke = TRUE
INVARIANTS
  TypeOK
  StrokeCoherent
  PredictorFollowsStroke
PROPERTIES
  SessionSpec
