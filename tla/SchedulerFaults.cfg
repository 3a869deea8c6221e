SPECIFICATION SchedSpec
CONSTANTS
  r1 = r1
  r2 = r2
  r3 = r3
  Reqs = {r1, r2}
  NoCfg = NoCfg
  StopCfg <- MCStopCfg
  Prefill <- MCPrefill
  StopStrings = {r2}
  MaxTokens = 2
  MaxNumSeqs = 2
  MaxConcurrent = 2
  MaxRetries = 1
  InsertFaults = {"generation", "corruption", "typeerror"}
  NextFaults = {"generation", "corruption", "typeerror"}
  MaxFaults = 3
INVARIANTS
  SchedTypeOK
  OnePlace
  UidMaps
  TokenOwner
  CountedOnce
  CancelledIsGone
PROPERTIES
  GoneForGood
