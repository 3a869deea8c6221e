SPECIFICATION FairSpec
CONSTANTS
  r1 = r1
  r2 = r2
  r3 = r3
  Reqs = {r1}
  NoCfg = NoCfg
  StopCfg <- MCStopCfg
  Prefill <- MCPrefill
  StopStrings = {}
  MaxTokens = 1
  MaxNumSeqs = 1
  MaxConcurrent = 1
  MaxRetries = 1
  InsertFaults = {"generation"}
  NextFaults = {}
  MaxFaults = 1
  Streams = {r1}
  Impatient = {}
  CancelRoute = {}
PROPERTY
  EveryCallEnds
CHECK_DEADLOCK FALSE
