\* The time a Move's stroke normals start from.
SPECIFICATION Spec
CONSTANTS
  a = a
  b = b
  far = far
  nan = nan
  Params <- MCParams
  Inputs <- MCInputs
  NonFinite <- MCNonFinite
  FarPositions <- MCFarPositions
  NoParams = NoParams
  NoInput = NoInput
  NoPredictor = NoPredictor
  NoSave = NoSave
  MaxCalls = 3
  PredictionCap = 2
  RestoreOnlyInSavedStroke = FALSE
PROPERTY
  NormalFollowsPath
