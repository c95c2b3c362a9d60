\* Paths, ends of strokes and predictions of them, their loops step by step.
SPECIFICATION Spec
CONSTANTS
  Points <- MCPoints
  Times <- MCTimes
  Tick = 8
  StopDistance = 2
  MaxIterations = 3
  MaxOutputs = 2
  NoStroke = NoStroke
  NoSave = NoSave
  NoCall = NoCall
  NoCopy = NoCopy
INVARIANTS
  TypeOK
  TipAtLastInput
PROPERTIES
  OutputsAdvance
  EndApproachesInput
  UpGivesTip
  CallsReturn
