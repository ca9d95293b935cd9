----------------------------- MODULE MCJobList -----------------------------
(* Instances of JobList for TLC. *)
EXTENDS JobList, TLC

CONSTANTS a, b, c

\* The parents of each job, from pairs <<job, parent>>.
ParentsIn(edges) == [j \in Jobs |-> {p \in Jobs : <<j, p>> \in edges}]

NoEdges == ParentsIn({})
Join == ParentsIn({<<c, a>>, <<c, b>>})

\* c may start once a runs, and needs b COMPLETED.
StartsWithA == {<<c, a, "RUNNING">>}

\* c is the chunk after a, in the instances where it may start while a runs.
ChunkOfA == [j \in Jobs |-> IF j = a THEN {c} ELSE {}]
NoChunks == [j \in Jobs |-> {}]

\* b is the chunk after a and may start while a runs; c needs both.
AfterBoth == ParentsIn({<<b, a>>, <<c, a>>, <<c, b>>})
BWithA == {<<b, a, "RUNNING">>}
ChunkAfterA == [j \in Jobs |-> IF j = a THEN {b} ELSE {}]

==============================================================================
