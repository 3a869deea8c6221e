---------------------------- MODULE MCScheduler ----------------------------
(* Small instances of Scheduler for TLC.                                    *)
EXTENDS Scheduler

CONSTANTS r1, r2, r3

\* r1 and r2 share their stop tokens, the others do not.
MCStopCfg == [r \in Reqs |-> IF r \in {r1, r2} THEN "eos" ELSE "ignore_eos"]
\* The prompt of r1 takes one more call of next() than the others.
MCPrefill == [r \in Reqs |-> IF r = r1 THEN 1 ELSE 0]
=============================================================================
