SPECIFICATION Spec
CONSTANTS
  e = e
  x = x
  y = y
  Vocab = {e, x, y}
  Eos = e
  NoTok = NoTok
  Streams <- AnyStreams
  Modes <- SuffixOnly
  MaxK = 3
  MinDraft = 2
  MaxTokens = 4
  MaxFaults = 0
INVARIANT
  StoredIsOwn
