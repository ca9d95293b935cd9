------------------------------ MODULE Workflow ------------------------------
(***************************************************************************)
(* What `autosubmit run' promises of a workflow, whatever fails on the     *)
(* way: a job is handed to the scheduler only after the jobs it depends on *)
(* are done in the saved job list, and a job is done only if it has been   *)
(* handed to the scheduler, or may be skipped.                             *)
(***************************************************************************)
CONSTANTS
  Jobs,       \* the jobs of the workflow
  Hard,       \* [Jobs -> SUBSET Jobs]: the dependencies that must be done
  Skippable,  \* jobs that may be skipped
  Ids,        \* the scheduler's ids
  NoJob       \* the id has not been handed out

VARIABLES
  done,       \* jobs saved as COMPLETED or SKIPPED
  owner       \* the job an id was handed out for

Init ==
  /\ done = {}
  /\ owner = [i \in Ids |-> NoJob]

Launched(j) == \E i \in Ids : owner[i] = j

Launch(i, j) ==
  /\ owner[i] = NoJob
  /\ Hard[j] \subseteq done
  /\ owner' = [owner EXCEPT ![i] = j]
  /\ UNCHANGED done

Settle(S) ==
  /\ done' = done \cup S
  /\ \A j \in S : /\ Hard[j] \subseteq done'
                  /\ Launched(j) \/ j \in Skippable
  /\ UNCHANGED owner

Next ==
  \/ \E i \in Ids, j \in Jobs : Launch(i, j)
  \/ \E S \in SUBSET Jobs : Settle(S)

Spec == Init /\ [][Next]_<<done, owner>>
==============================================================================
