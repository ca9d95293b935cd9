---- MODULE MCCommands ----
\* A chain of two jobs, first in the list the one that runs first.
EXTENDS Commands

Chain == [j \in Jobs |-> IF j = "A" THEN {} ELSE {"A"}]

Order == <<"A", "B">>

Kept(backend, backupFile) ==
  [backend |-> backend, order |-> Order, backup |-> backupFile]

Both == {Kept("pkl", Blank), Kept("db", Absent)}

Request(name, jobs, target, opts) ==
  [name |-> name, jobs |-> jobs, target |-> target, opts |-> opts]

Plain(name) == Request(name, {}, "WAITING", {})

\* Each command with the options that change what it does.
Mixed ==
  {Plain("run"), Request("pklfix", {}, "WAITING", {"force"}), Plain("create"),
   Request("create", {}, "WAITING", {"force"}),
   Request("setstatus", {"A"}, "READY", {"save"}),
   Request("setstatus", {"A", "B"}, "SUSPENDED", {"save"}),
   Request("setstatus", {"B"}, "WAITING", {"save"}),
   Request("recovery", {}, "WAITING", {"all", "force", "save"}),
   Request("recovery", {}, "WAITING", {"force", "save", "offline"}),
   Request("recovery", {}, "WAITING", {"all"}),
   Request("stop", {}, "SUSPENDED", {"cancel"}),
   Request("stop", {}, "SUSPENDED", {"cancel", "force"})}

SomeEdits == {<<"A", "COMPLETED">>, <<"B", "SUSPENDED">>}

\* What the theorems assume holds here.
ASSUME ShapesOK == Parents = Chain /\ Installation /\ ParentsFirst
====
