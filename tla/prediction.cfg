\* Predictions over strokes, Saves and Restores.
SPECIFICATION Spec
CONSTANTS
  Prime = 1009
  ProcessNoise = 3
  MeasurementNoise = 10
  Params <- MCParams
  AccelerationWeight = 5
  JerkWeight = 7
  Tick = 4
  Interval = 10
  Inputs <- MCInputs
  Tips <- MCTips
  ConnectorSizes = {1, 3}
  NoStroke = NoStroke
  NoSave = NoSave
  NoOutput = NoOutput
  NotFinite = NotFinite
  MaxInputs = 4
INVARIANTS
  TypeOK
  WindowIsLatestTimes
  FilterIsOfThisStroke
  EstimateShifts
  FilterIsOptimal
  PredictsFromStableOn
  PredictionAdvances
  PredictionIsSmooth
