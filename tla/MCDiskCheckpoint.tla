-------------------------- MODULE MCDiskCheckpoint --------------------------
(* Token sequences for DiskCheckpoint: two engines that share their prompts, *)
(* two whose tokenizers have nothing in common, and one engine.              *)
EXTENDS DiskCheckpoint

CONSTANTS a, b

Shared   == [m \in Models |-> {<<1>>, <<1, 2>>}]
Nested   == [m \in Models |-> {<<1>>, <<1, 2>>, <<1, 2, 3>>}]
Disjoint == a :> {<<1>>, <<1, 2>>, <<1, 2, 3>>} @@ b :> {<<4>>}
=============================================================================
