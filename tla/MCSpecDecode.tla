---------------------------- MODULE MCSpecDecode ----------------------------
(* Streams for SpecDecode. *)
EXTENDS SpecDecode

CONSTANTS e, x, y

\* Streams of x and y with any end, up to one token past the limit. They begin
\* with x or with the stop token: x and y may be exchanged.
AnyStreams ==
  {<<>>} \cup {<<x>> \o s : s \in UNION {[1..n -> {x, y}] : n \in 0..MaxTokens}}

AnyModes == {<<"mtp", FALSE>>, <<"mtp", TRUE>>, <<"suffix", FALSE>>}
SuffixOnly == {<<"suffix", FALSE>>}
=============================================================================
