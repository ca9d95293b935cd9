---------------------------- MODULE MCConnection ----------------------------
(* Instances of Connection for TLC. *)
EXTENDS Connection, TLC

CONSTANTS near, far, h1, h2

\* far has a second login node, which it shares with near; the nodes differ in
\* how they let one log in.
Nodes == (near :> <<h2>>) @@ (far :> <<h1, h2>>)
Ways == (h1 :> {"keyWithoutRsa2"}) @@ (h2 :> {"agent", "key"})

==============================================================================
