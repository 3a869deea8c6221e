--------------------------- MODULE MCPromptCache ---------------------------
(* Prompts for PromptCache. *)
EXTENDS PromptCache

CONSTANTS r1, r2, r3

\* Each starts with the one before, and may be what that one became.
Growing == r1 :> <<1>> @@ r2 :> <<1, 2>> @@ r3 :> <<1, 2, 2>>

\* Two prompts whose second blocks have the same tokens, after other first ones,
\* and a third that has the first block of one and the second of both.
Crossed == r1 :> <<1, 1, 2>> @@ r2 :> <<3, 3>> @@ r3 :> <<3, 3, 2, 2>>
=============================================================================
