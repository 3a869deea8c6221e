SPECIFICATION FairSpec
CONSTANTS
  r1 = r1
  r2 = r2
  r3 = r3
  Reqs = {r1, r2}
  NoCfg = NoCfg
  StopCfg <- MCStopCfg
  Prefill <- MCPrefill
  StopStrings = {r2}
  MaxTokens = 2
  MaxNumSeqs = 1
  MaxConcurrent = 2
  MaxRetries = 1
  InsertFaults = {"typeerror"}
  NextFaults = {"generation", "corruption", "typeerror"}
  MaxFaults = 1
  Streams = {r1}
  Impatient = {r1}
  CancelRoute = {}
PROPERTIES
  EveryCallEnds
  AbortTakesEffect
  
CHECK_DEADLOCK FALSE
