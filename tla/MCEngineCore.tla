---------------------------- MODULE MCEngineCore ----------------------------
(* Small instances of EngineCore for TLC.                                   *)
EXTENDS EngineCore

CONSTANTS r1, r2, r3

MCStopCfg == [r \in Reqs |-> IF r = r3 THEN "ignore_eos" ELSE "eos"]
MCPrefill == [r \in Reqs |-> IF r = r1 THEN 1 ELSE 0]
=============================================================================
