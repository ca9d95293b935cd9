----------------------------- MODULE MCWrappers -----------------------------
(* Instances of Wrappers for TLC.  *)
EXTENDS Wrappers

CONSTANTS j1, j2, j3

\* Two chunks; two members; two members, the first of two chunks; two members of a
\* first chunk, and the second chunk after both.
ListsOf == [t \in Types |->
  CASE t = "vertical" -> <<<<j1, j2, j3>>>>
    [] t = "horizontal" -> <<<<j1>>, <<j2>>, <<j3>>>>
    [] t = "vertical-horizontal" -> <<<<j1, j3>>, <<j2>>>>
    [] OTHER -> <<<<j1, j2>>, <<j3>>>>]

ParentsOf == [t \in Types |-> [j \in Jobs |->
  CASE t = "vertical" /\ j = j2 -> {j1}
    [] t = "vertical" /\ j = j3 -> {j2}
    [] t = "vertical-horizontal" /\ j = j3 -> {j1}
    [] t = "horizontal-vertical" /\ j = j3 -> {j1, j2}
    [] OTHER -> {}]]

\* All kinds for a vertical wrapper; fewer for the others, which have more states.
Troubles == [t \in Types |->
  CASE t = "vertical" -> Reasons \cup {"kill", "failure", "late", "stopped", "suspended", "no answer"}
    [] t = "horizontal" -> Reasons \cup {"kill", "failure"}
    [] t = "vertical-horizontal" -> {"kill", "failure", "JobHeldAdmin"}
    [] OTHER -> Reasons \cup {"kill", "failure", "late", "stopped", "suspended"}]
=============================================================================
