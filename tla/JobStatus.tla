------------------------------ MODULE JobStatus ------------------------------
(***************************************************************************)
(* The statuses a job of the workflow can have and their logical order     *)
(* (autosubmit/job/job_common.py, class Status).  The order is what start  *)
(* conditions of dependencies are compared with.                           *)
(***************************************************************************)
EXTENDS Naturals

\* Position of a status in Status.LOGICAL_ORDER.
LogicalOrder ==
  [WAITING |-> 0, DELAYED |-> 1, PREPARED |-> 2, READY |-> 3, SUBMITTED |-> 4,
   HELD |-> 5, QUEUING |-> 6, RUNNING |-> 7, SKIPPED |-> 8, FAILED |-> 9,
   UNKNOWN |-> 10, COMPLETED |-> 11, SUSPENDED |-> 12]

Status == DOMAIN LogicalOrder

\* LOGICAL_ORDER.index(s) >= LOGICAL_ORDER.index(t)
HasReached(s, t) == LogicalOrder[s] >= LogicalOrder[t]

\* JobList.get_in_queue: the statuses the platforms are asked about.
InQueueStatus == {"SUBMITTED", "RUNNING", "QUEUING", "UNKNOWN", "HELD"}

\* Position of the status in the concatenation get_in_queue builds, which is
\* the order the main loop updates the polled jobs in.
QueueGroup ==
  [SUBMITTED |-> 0, RUNNING |-> 1, QUEUING |-> 2, UNKNOWN |-> 3, HELD |-> 4]

ActiveStatusNoDelayed == InQueueStatus \cup {"READY"}
\* JobList.get_active, for jobs that are never submitted on hold.
ActiveStatus == InQueueStatus \cup {"READY", "DELAYED"}

\* Statuses that Job.__init__ turns into WAITING when the list is loaded.
VolatileStatus == {"READY", "DELAYED", "PREPARED"}

\* What satisfies an ordinary dependency in JobList.update_list.
DoneStatus == {"COMPLETED", "SKIPPED"}
==============================================================================
