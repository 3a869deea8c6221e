--------------------------- MODULE ClientContract ---------------------------
(***************************************************************************)
(* What the server promises a client, whatever happens inside: the tokens  *)
(* of its answer arrive once each and in order, the answer ends once, what *)
(* it is told about the end is true, and nothing follows the end.          *)
(***************************************************************************)
EXTENDS Naturals, Sequences

CONSTANTS Reqs, MaxTokens

VARIABLES delivered, verdict

UpTo(n) == [i \in 1..n |-> i]

\* An answer is cut at its length limit, and only there, and a stop needs at
\* least the token that stopped it.
Truthful(n, v) ==
  /\ v = "length" => n = MaxTokens
  /\ v = "stop" => n > 0

Init == /\ delivered = [r \in Reqs |-> <<>>]
        /\ verdict = [r \in Reqs |-> "none"]

\* Some more tokens arrive, and with them perhaps the end.
Receive(r) ==
  /\ verdict[r] = "none"
  /\ \E n \in Len(delivered[r])..MaxTokens, v \in {"none", "stop", "length"} :
       /\ n > Len(delivered[r]) /\ Truthful(n, v)
       /\ delivered' = [delivered EXCEPT ![r] = UpTo(n)]
       /\ verdict' = [verdict EXCEPT ![r] = v]

\* The call ends without more tokens: refused, failed, or left by its client.
End(r) ==
  /\ verdict[r] = "none"
  /\ \E v \in {"refused", "error", "gone"} : verdict' = [verdict EXCEPT ![r] = v]
  /\ UNCHANGED delivered

Next == \E r \in Reqs : Receive(r) \/ End(r)

Spec == Init /\ [][Next]_<<delivered, verdict>>
=============================================================================
