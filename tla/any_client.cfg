\* A client that calls anything at any time, and switches prediction off.
SPECIFICATION Spec
CONSTANTS
  a = a
  b = b
  far = far
  nan = nan
  Params <- MCToggledParams
  Inputs <- MCFewInputs
  NonFinite <- MCNonFinite
  FarPositions <- MCFarPositions
  NoParams = NoParams
  NoInput = NoInput
  NoPredictor = NoPredictor
  NoSave = NoSave
  MaxCalls = 3
  PredictionCap = 2
  RestoreOnlyInSavedStroke = FALSE
INVARIANTS
  OneParamsPerStroke
  DefaultStateNeverBlended
