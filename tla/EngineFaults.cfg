SPECIFICATION Spec
CONSTANTS
  r1 = r1
  r2 = r2
  r3 = r3
  Reqs = {r1, r2}
  NoCfg = NoCfg
  StopCfg <- MCStopCfg
  Prefill <- MCPrefill
  StopStrings = {r2}
  MaxTokens = 2
  MaxNumSeqs = 2
  MaxConcurrent = 2
  MaxRetries = 1
  InsertFaults = {"generation", "typeerror"}
  NextFaults = {"generation", "corruption", "typeerror"}
  MaxFaults = 2
  Streams = {r1}
  Impatient = {r1, r2}
  CancelRoute = {r2}
INVARIANTS
  EngineTypeOK
  NoZombie
  NothingLeaks
  NoLostWakeup
CHECK_DEADLOCK FALSE
