----------------------------- MODULE PlainDecode -----------------------------
(***************************************************************************)
(* Greedy decoding without speculation: a request is given the tokens its  *)
(* model would choose one after the other, up to the first stop token or   *)
(* to its limit, and ends there.                                           *)
(***************************************************************************)
EXTENDS Naturals, Sequences, SequencesExt

CONSTANTS
  Eos,           \* the stop token
  MaxTokens      \* the request's limit

VARIABLES
  stream,        \* the model's own continuation; stop tokens after its end
  out,           \* the tokens the request was given
  done

Token(i) == IF i <= Len(stream) THEN stream[i] ELSE Eos

\* A response of these tokens is complete.
Complete(o) == o # <<>> /\ (Last(o) = Eos \/ Len(o) = MaxTokens)

Init == out = <<>> /\ done = FALSE

\* One call of the batch hands over one token, or several.
Emit ==
  /\ ~done
  /\ \E n \in 1..(MaxTokens - Len(out)) :
       /\ out' = out \o [i \in 1..n |-> Token(Len(out) + i)]
       /\ \A i \in Len(out) + 1..Len(out) + n - 1 : Token(i) # Eos
  /\ done' = Complete(out')
  /\ UNCHANGED stream

Spec == Init /\ [][Emit]_<<stream, out, done>>
=============================================================================
