SPECIFICATION Spec
CONSTANTS
  r1 = r1
  r2 = r2
  r3 = r3
  Reqs = {r1, r2, r3}
  NoCfg = NoCfg
  StopCfg <- MCStopCfg
  Prefill <- MCPrefill
  StopStrings = {r2}
  MaxTokens = 2
  MaxNumSeqs = 2
  MaxConcurrent = 2
  MaxRetries = 1
  InsertFaults = {}
  NextFaults = {}
  MaxFaults = 0
  Streams = {r1}
  Impatient = {r1, r2}
  CancelRoute = {r2}
INVARIANTS
  OwnStopTokens
PROPERTIES
  TokensInOrder
  ContractHolds
CHECK_DEADLOCK FALSE
