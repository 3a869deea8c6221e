SPECIFICATION Spec
CONSTANTS
  a = a
  b = b
  Models = {a}
  NoOne = NoOne
  Prompts <- Nested
  Keyframe = 3
  Quantized = TRUE
  Cap = 2
  LowWater = 1
  MaxWrites = 4
  MaxFaults = 2
PROPERTY
  StoreSpec
