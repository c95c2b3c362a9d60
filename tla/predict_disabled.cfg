\* Predict after prediction was disabled.
SPECIFICATION Spec
CONSTANTS
  a = a
  b = b
  far = far
  nan = nan
  Params <- MCToggledParams
  Inputs <- MCInputs
  NonFinite <- MCNonFinite
  FarPositions <- MCFarPositions
  NoParams = NoParams
  NoInput = NoInput
  NoPredictor = NoPredictor
  NoSave = NoSave
  MaxCalls = 3
  PredictionCap = 2
  RestoreOnlyInSavedStroke = FALSE
INVARIANT
  PredictHonoursDisabled
