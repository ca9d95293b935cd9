----------------------------- MODULE MCCreation -----------------------------
(* What create does, for TLC: the copy of the project (Projects), the       *)
(* generation of the workflow (Generation), what is selected of it          *)
(* (Selection), and how the run packs its jobs (JobPackager).  None reads   *)
(* the state of another here: a behaviour is one of one of them, and the    *)
(* variables of the others stay as they are.                                *)
EXTENDS MCJobPackager, Projects

CONSTANTS Configurations, Workflows, Requests, Statuses

\* What OncePerJob needs (PackedTwice.cfg is an instance without it).
ASSUME ChainedMembers == Chained

VARIABLES part,
  config, phase, dic, todo, onPrevious, selected, edges, problematic, parents, list, statusOf,
  workflow, request, statuses, step, jobs, above, picked, left, shown

Samples == INSTANCE MCGeneration WITH Configurations <- {}, status <- statusOf
MCConfigurations == Samples!ExperimentsToGenerate
G == INSTANCE Generation WITH status <- statusOf

OneTwo == {1, 2}
Cases == INSTANCE MCSelection WITH
  Workflows <- {}, Requests <- <<>>, Statuses <- <<>>,
  DateList <- OneTwo, MemberList <- OneTwo, ChunkList <- OneTwo,
  status <- statuses, phase <- step, list <- jobs, parents <- above, todo <- left
MCWorkflows == Cases!MCWorkflows
MCRequests == Cases!MCRequests
MCStatuses == Cases!MCStatuses
S == INSTANCE Selection WITH
  DateList <- OneTwo, MemberList <- OneTwo, ChunkList <- OneTwo,
  status <- statuses, phase <- step, list <- jobs, parents <- above, todo <- left

ofG == <<config, phase, dic, todo, onPrevious, selected, edges, problematic, parents, list, statusOf>>
ofS == <<workflow, request, statuses, step, jobs, above, picked, left, shown>>

NoG ==
  /\ config = 0 /\ phase = 0 /\ dic = 0 /\ todo = 0 /\ onPrevious = 0 /\ selected = 0
  /\ edges = 0 /\ problematic = 0 /\ parents = 0 /\ list = 0 /\ statusOf = 0
NoS ==
  /\ workflow = 0 /\ request = 0 /\ statuses = 0 /\ step = 0 /\ jobs = 0 /\ above = 0
  /\ picked = 0 /\ left = 0 /\ shown = 0

NoPackages ==
  /\ policy = "strict" /\ status = [j \in Jobs |-> "WAITING"] /\ fails = [j \in Jobs |-> 0]
  /\ wtype = [j \in Jobs |-> "none"] /\ subs = <<>> /\ stopped = TRUE /\ failures = 0

MCInit ==
  /\ part \in {"projects", "generation", "selection", "packaging"}
  /\ ProjectsInit
  /\ part # "projects" => setup = CHOOSE s \in Setups : s.kind = "local"
  /\ IF part = "packaging" THEN Init ELSE NoPackages
  /\ IF part = "generation" THEN G!Init ELSE NoG
  /\ IF part = "selection" THEN S!Init ELSE NoS

MCNext ==
  \/ part = "projects" /\ ProjectsNext /\ UNCHANGED <<part, ofG, ofS, vars>>
  \/ part = "generation" /\ G!Next /\ UNCHANGED <<part, projectsVars, ofS, vars>>
  \/ part = "selection" /\ S!Next /\ UNCHANGED <<part, projectsVars, ofG, vars>>
  \/ part = "packaging" /\ Next /\ UNCHANGED <<part, projectsVars, ofG, ofS>>

MCSpec == MCInit /\ [][MCNext]_<<part, projectsVars, ofG, ofS, vars>>

-----------------------------------------------------------------------------
(* The properties of the second and the third.                             *)

WorkflowAsAsked == part = "generation" => G!WorkflowAsAsked
SelectedAsNamed == part = "selection" => S!SelectedAsNamed
OrderIsKept == part = "selection" => S!OrderIsKept
GroupsAreTrue == part = "selection" => S!GroupsAreTrue
==============================================================================
