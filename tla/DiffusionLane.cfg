SPECIFICATION FairSpec
CONSTANTS
  Reqs = {r1, r2, r3}
  r1 = r1
  r2 = r2
  r3 = r3
  Impatient = {r1}
  StopWords = {r1, r2}
  NoReq = NoReq
  Cap = 2
  MaxBlocks = 1
  MaxStops = 1
INVARIANTS
  TypeOK
  HeadOfLine
  LockedOnce
  AdmissionExact
PROPERTIES
  EveryCallEnds
CHECK_DEADLOCK FALSE
