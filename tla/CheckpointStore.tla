--------------------------- MODULE CheckpointStore ---------------------------
(***************************************************************************)
(* What a server promises of its checkpoint store: it may lose anything at *)
(* any time, but what it hands to a request is the KV state that the       *)
(* request's own model computed, row by row, for a prefix of its prompt.   *)
(***************************************************************************)
EXTENDS Naturals, Sequences, SequencesExt

CONSTANTS
  Models,        \* the models the server runs
  Prompts,       \* the token sequences of requests, and their prefixes
  Nothing        \* a miss

VARIABLES
  stored,        \* every <<model, tokens>> a checkpoint was ever written for
  answer         \* what the last lookup of each model handed over

\* The KV rows model m computes for the token sequence k.
Rows(m, k) == [i \in 1..Len(k) |-> <<m, i>>]

Init == stored = {} /\ answer = [m \in Models |-> Nothing]

Put(m, k) == stored' = stored \cup {<<m, k>>} /\ UNCHANGED answer

Hit(m) ==
  /\ \E k, q \in Prompts :
       /\ <<m, k>> \in stored /\ IsPrefix(k, q)
       /\ answer' = [answer EXCEPT ![m] = [query |-> q, tokens |-> k, rows |-> Rows(m, k)]]
  /\ UNCHANGED stored

Miss(m) == answer' = [answer EXCEPT ![m] = Nothing] /\ UNCHANGED stored

\* A new process knows of no earlier answer.
Restart == answer' = [m \in Models |-> Nothing] /\ UNCHANGED stored

Next == \/ \E m \in Models, k \in Prompts : Put(m, k)
        \/ \E m \in Models : Hit(m) \/ Miss(m)
        \/ Restart

Spec == Init /\ [][Next]_<<stored, answer>>
=============================================================================
