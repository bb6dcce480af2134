------------------------------ MODULE MCHybrid ------------------------------
\* Three of the four requests share two or more first tokens; 7 opens a tool
\* call and 9 ends a generation.
EXTENDS HybridCache

Prompts == (0 :> <<1, 1, 1, 1, 1, 1>>) @@ (1 :> <<1, 1, 1, 1, 1, 1>>) @@ (2 :> <<1, 1, 2, 2, 2>>) @@ (3 :> <<3, 3, 3>>)
Outputs == (0 :> 3) @@ (1 :> 2) @@ (2 :> 2) @@ (3 :> 1)
=============================================================================
