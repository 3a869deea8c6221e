SPECIFICATION Spec
CONSTANTS
  a = a
  b = b
  Models = {a, b}
  NoOne = NoOne
  Prompts <- Shared
  Keyframe = 0
  Quantized = FALSE
  Cap = 1
  LowWater = 1
  MaxWrites = 3
  MaxFaults = 0
PROPERTIES
  StoreSpec
  NewestSurvives
  OperationsEnd
