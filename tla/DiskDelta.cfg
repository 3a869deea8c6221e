SPECIFICATION Spec
CONSTANTS
  a = a
  b = b
  Models = {a, b}
  NoOne = NoOne
  Prompts <- Disjoint
  Keyframe = 3
  Quantized = FALSE
  Cap = 2
  LowWater = 1
  MaxWrites = 3
  MaxFaults = 1
INVARIANTS
  TypeOK
  ReaderKeepsChain
  WithinCap
PROPERTIES
  StoreSpec
  BaseOutlivesDelta
