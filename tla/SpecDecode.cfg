SPECIFICATION Spec
CONSTANTS
  e = e
  x = x
  y = y
  Vocab = {e, x, y}
  Eos = e
  NoTok = NoTok
  Streams <- AnyStreams
  Modes <- AnyModes
  MaxK = 3
  MinDraft = 2
  MaxTokens = 6
  MaxFaults = 1
INVARIANTS
  TypeOK
  InStep
PROPERTIES
  StreamSpec
