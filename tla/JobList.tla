------------------------------- MODULE JobList -------------------------------
(***************************************************************************)
(* The main loop of `autosubmit run' over one platform: the job list in    *)
(* memory, its saved copy, and the scheduler of the platform.              *)
(*                                                                         *)
(* Code: Autosubmit.prepare_run, run_experiment, submit_ready_jobs         *)
(* (autosubmit/autosubmit.py); JobList.update_list, load, save             *)
(* (autosubmit/job/job_list.py); Job.update_status (autosubmit/job/job.py);*)
(* ParamikoPlatform.check_all_jobs, Platform.submit_ready_jobs,            *)
(* SlurmPlatform.process_batch_ready_jobs (autosubmit/platforms).          *)
(*                                                                         *)
(* A step is the code between two points where something outside the       *)
(* process can be observed or can interfere: the scheduler, a kill, the    *)
(* loss of the connection.  Wrappers, the choice among ready jobs, the log *)
(* recovery process and `setstatus' are other modules' subject.            *)
(***************************************************************************)
EXTENDS JobStatus, FiniteSets, Sequences, Functions

CONSTANTS
  Jobs,        \* the jobs of the workflow
  Parents,     \* Job._parents: [Jobs -> SUBSET Jobs]
  EdgeInfo,    \* Job.edge_info: <<job, parent, status>>, edges with a STATUS
  Sync,        \* jobs with a SYNCHRONIZE value
  Later,       \* for a SKIPPABLE job, the later chunks of the same section
  HasDelay,    \* jobs whose retrials are delayed (DELAY_RETRY_TIME > 0)
  Retrials,    \* RETRIALS
  TotalJobs,   \* TOTALJOBS of the platform
  MaxWaiting,  \* MAX_WAITING_JOBS of the platform
  Batch,       \* TRUE: one submit script per iteration (Slurm); FALSE: job by job
  Ids,         \* the ids the scheduler can hand out (bounds the submissions)
  NoJob, NoId, \* no job: the id is not used yet; Job.id is None
  Faults,      \* which things can go wrong in this instance
  MaxFaults,   \* how many times something goes wrong (bound)
  MaxFailures  \* how many submitted jobs fail by themselves (bound)

FaultKinds ==
  {"kill",      \* the process is killed (or the machine stops)
   "stop",      \* SIGINT: Autosubmit.exit becomes True
   "poll",      \* the command that asks for the jobs' states fails
   "hidden",    \* the answer of the scheduler misses some of the jobs
   "reason",    \* a job queues for a reason it can never leave the queue
   "nofile",    \* the script ends well for the scheduler, without _COMPLETED
   "refuse",    \* the scheduler refuses a submission
   "lost",      \* the connection is lost while jobs are submitted
   "io"}        \* the files of a job cannot be sent

ASSUME JobsAssumption ==
  /\ IsFiniteSet(Jobs)
  /\ Parents \in [Jobs -> SUBSET Jobs]
  /\ EdgeInfo \subseteq Jobs \X Jobs \X Status
  /\ Sync \subseteq Jobs
  /\ Later \in [Jobs -> SUBSET Jobs]
  /\ HasDelay \subseteq Jobs
  \* update_list goes through the jobs in the order of the list, which would
  \* matter for a synchronised job that depends on another one.
  /\ \A j \in Sync : Parents[j] \cap Sync = {}

ASSUME SchedulerAssumption ==
  /\ NoJob \notin Jobs
  /\ NoId \notin Ids \cup {0} /\ 0 \notin Ids
  /\ Batch \in BOOLEAN
  /\ Faults \subseteq FaultKinds

ASSUME NumbersAssumption ==
  /\ Retrials \in Nat
  /\ TotalJobs \in Nat
  /\ MaxWaiting \in Nat
  /\ MaxFaults \in Nat
  /\ MaxFailures \in Nat

VARIABLES
  pc,       \* where the process is; "off" when there is none
  exit,     \* Autosubmit.exit
  mem,      \* the jobs in memory: status, id, fails (fail_count)
  disk,     \* the saved job list, same fields
  due,      \* DELAYED jobs whose delay_end has passed
  checked,  \* jobs_to_check: polled jobs whose status is still to be updated
  pending,  \* packages built in this iteration that are still to be processed
  dropped,  \* failed_packages: ids (or None) of jobs that could not be prepared
  jobsId,   \* ids read from the output of the submit script, still unassigned
  script,   \* lines of the submit script the remote shell has not executed
  owner,    \* scheduler: the job an id was handed out for
  state,    \* scheduler: the state of every id
  file,     \* jobs with a _COMPLETED file in the remote log directory
  faults    \* how many things have gone wrong

iterVars == <<checked, pending, dropped, jobsId>>   \* local to an iteration
processVars == <<pc, exit, mem, due, iterVars>>
remoteVars == <<script, owner, state, file>>
vars == <<pc, exit, mem, disk, due, checked, pending, dropped, jobsId,
          script, owner, state, file, faults>>

JobRecords ==
  [status : [Jobs -> Status], id : [Jobs -> Ids \cup {NoId, 0}],
   fails : [Jobs -> Nat]]

\* States of a submission: queuing, running, ending well or badly (Slurm's
\* COMPLETING), ended well, ended badly, ended without the _COMPLETED file,
\* cancelled; "-" before the id is used.
LiveStates == {"Q", "R", "XS", "XF"}
States == LiveStates \cup {"S", "F", "E", "K", "-"}

CheckRecords == [job : Jobs, prev : DOMAIN QueueGroup, new : Status]

ProcessPoints ==
  {"off", "head", "check", "update", "submit", "sbatch", "assign", "qsub",
   "saveone", "list", "recover", "done"}

InQueue(m) == {j \in Jobs : m.status[j] \in InQueueStatus}
Active(m)  == {j \in Jobs : m.status[j] \in ActiveStatus}
Ready(m)   == {j \in Jobs : m.status[j] = "READY"}

\* Ids of a job the scheduler still has to run or to finish.
Live(j) == {i \in Ids : owner[i] = j /\ state[i] \in LiveStates}

\* The scheduler's entries once those of the set S have been cancelled.
Cancelled(S) ==
  [i \in Ids |-> IF i \in S /\ state[i] \in LiveStates THEN "K" ELSE state[i]]

CanFault(kind) == kind \in Faults /\ faults < MaxFaults

-----------------------------------------------------------------------------
(* JobList.update_list, in the order of the code.                          *)

\* FAILED jobs that have retrials left.
Retried(m) == {j \in Jobs : m.status[j] = "FAILED" /\ m.fails[j] < Retrials}

\* A retried job is READY (or DELAYED) when all its parents are COMPLETED,
\* else it waits for them again.
RetryFailed(m) ==
  LET again == {j \in Retried(m) :
                  \A p \in Parents[j] : m.status[p] = "COMPLETED"}
  IN [status |-> [j \in Jobs |->
                    IF j \in again
                    THEN IF j \in HasDelay THEN "DELAYED" ELSE "READY"
                    ELSE IF j \in Retried(m) THEN "WAITING" ELSE m.status[j]],
      id     |-> [j \in Jobs |-> IF j \in again THEN NoId ELSE m.id[j]],
      fails  |-> [j \in Jobs |->
                    IF j \in Retried(m) THEN m.fails[j] + 1 ELSE m.fails[j]]]

\* first_time: nothing is retried, and jobs not started lose their fail_count.
ForgetFails(m) ==
  [m EXCEPT !.fails = [j \in Jobs |->
     IF m.status[j] \in {"WAITING"} \cup VolatileStatus
     THEN 0 ELSE m.fails[j]]]

SpecialFulfilledByOne(m, j, target) ==
  \E p \in Parents[j] :
    <<j, p, target>> \in EdgeInfo /\ HasReached(m.status[p], target)

\* check_special_status: every parent is COMPLETED or, for one and the same
\* target status, has an edge with that target and has reached it.
SpecialFulfilled(m, j, target) ==
  /\ \E p \in Parents[j] : <<j, p, target>> \in EdgeInfo
  /\ \A p \in Parents[j] :
       \/ m.status[p] = "COMPLETED"
       \/ <<j, p, target>> \in EdgeInfo /\ HasReached(m.status[p], target)

Special(m) ==
  {j \in Jobs : /\ m.status[j] = "WAITING"
                /\ \E target \in Status : SpecialFulfilled(m, j, target)}

StartSpecial(m) ==
  [status |-> [j \in Jobs |-> IF j \in Special(m) THEN "READY" ELSE m.status[j]],
   id     |-> [j \in Jobs |-> IF j \in Special(m) THEN NoId ELSE m.id[j]],
   fails  |-> m.fails]

\* Mutant: a parent that runs again is not looked for.
ResyncWaiting(m) ==
  [m EXCEPT !.status = [j \in Jobs |->
     IF /\ j \in Sync /\ m.status[j] = "COMPLETED"
        /\ \E p \in Parents[j] : m.status[p] = "WAITING"
     THEN "WAITING" ELSE m.status[j]]]

\* A COMPLETED synchronised job waits again when a parent is neither
\* COMPLETED, SKIPPED nor FAILED.  (When all are, the code resets nothing:
\* its condition starts with an empty tuple.)
Resync(m) ==
  [m EXCEPT !.status = [j \in Jobs |->
     IF /\ j \in Sync /\ m.status[j] = "COMPLETED"
        /\ \E p \in Parents[j] : m.status[p] \notin DoneStatus \cup {"FAILED"}
     THEN "WAITING" ELSE m.status[j]]]

ReleaseOnOneParent(m, expired) ==
  [m EXCEPT !.status = [j \in Jobs |->
     IF \/ m.status[j] = "DELAYED" /\ j \in expired
        \/ /\ m.status[j] = "WAITING"
           /\ Parents[j] # {} => \E p \in Parents[j] : m.status[p] \in DoneStatus
     THEN "READY" ELSE m.status[j]]]

\* DELAYED jobs whose time has come and WAITING jobs whose parents are done.
\* The branches for optional parents never fire: edge_info is keyed by status,
\* and the code looks the name of the parent up in it.
Release(m, expired) ==
  [m EXCEPT !.status = [j \in Jobs |->
     IF \/ m.status[j] = "DELAYED" /\ j \in expired
        \/ /\ m.status[j] = "WAITING"
           /\ \A p \in Parents[j] : m.status[p] \in DoneStatus
     THEN "READY" ELSE m.status[j]]]

\* get_skippable_jobs and the loop over them: a job that is READY or QUEUING
\* while a later chunk of its section is on its way.
Skipped(m) ==
  {j \in Jobs :
     /\ m.status[j] \in {"READY", "QUEUING"}
     /\ \E k \in Later[j] :
          m.status[k] \in {"QUEUING", "RUNNING", "COMPLETED", "READY"}}

SkipOlder(m) ==
  [m EXCEPT !.status = [j \in Jobs |->
     IF j \in Skipped(m) THEN "SKIPPED" ELSE m.status[j]]]

BeforeSkip(m, first, expired) ==
  Release(Resync(StartSpecial(IF first THEN ForgetFails(m) ELSE RetryFailed(m))),
          expired)

UpdateList(m, first, expired) == SkipOlder(BeforeSkip(m, first, expired))

\* Ids of skipped jobs that were QUEUING; the cancel command is sent for them
\* and a failure of that command is ignored.
ToCancel(m, first, expired) ==
  LET before == BeforeSkip(m, first, expired)
  IN {before.id[j] : j \in {k \in Skipped(before) : before.status[k] = "QUEUING"}}

\* Job.__init__ with loaded_data.
Load(d) ==
  [d EXCEPT !.status = [j \in Jobs |->
     IF d.status[j] \in VolatileStatus THEN "WAITING" ELSE d.status[j]]]

-----------------------------------------------------------------------------
(* The start of a run, recoveries and ends.                                *)

Init ==
  /\ pc = "off"
  /\ exit = FALSE
  /\ mem = [status |-> [j \in Jobs |-> "WAITING"],
            id |-> [j \in Jobs |-> 0],
            fails |-> [j \in Jobs |-> 0]]
  /\ disk = mem
  /\ due = {}
  /\ checked = {}
  /\ pending = <<>>
  /\ dropped = {}
  /\ jobsId = <<>>
  /\ script = <<>>
  /\ owner = [i \in Ids |-> NoJob]
  /\ state = [i \in Ids |-> "-"]
  /\ file = {}
  /\ faults = 0

\* What prepare_run does to the job list: load it, update it, save it.
LoadUpdateSave ==
  /\ mem' = UpdateList(Load(disk), TRUE, {})
  /\ disk' = mem'
  /\ \E S \in SUBSET ToCancel(Load(disk), TRUE, {}) : state' = Cancelled(S)
  /\ due' = {}
  /\ pc' = "head"
  /\ UNCHANGED <<iterVars, script, owner, file, faults>>

\* `autosubmit run'.  The submit script of an earlier process takes seconds
\* and has ended by then.
PrepareRun ==
  /\ pc = "off"
  /\ script = <<>>
  /\ exit' = FALSE
  /\ LoadUpdateSave

\* The handler of AutosubmitError in run_experiment, once prepare_run
\* (recover=True) has succeeded.  It sleeps 15 s before each try.
Recover ==
  /\ pc = "recover"
  /\ script = <<>>
  /\ UNCHANGED exit
  /\ LoadUpdateSave

\* The process ends without saving: memory goes, what is loaded next is disk.
Leave(next) ==
  /\ pc' = next
  /\ mem' = disk
  /\ due' = {}
  /\ checked' = {}
  /\ pending' = <<>>
  /\ dropped' = {}
  /\ jobsId' = <<>>

\* RECOVERY_RETRIALS is reached and AutosubmitCritical is raised.
GiveUp ==
  /\ pc = "recover"
  /\ Leave("off")
  /\ UNCHANGED <<exit, disk, remoteVars, faults>>

Kill ==
  /\ pc \notin {"off", "done"}
  /\ CanFault("kill")
  /\ faults' = faults + 1
  /\ Leave("off")
  /\ UNCHANGED <<exit, disk, remoteVars>>

\* signal_handler
Signal ==
  /\ pc \notin {"off", "done"}
  /\ ~exit
  /\ CanFault("stop")
  /\ exit' = TRUE
  /\ faults' = faults + 1
  /\ UNCHANGED <<pc, mem, disk, due, iterVars, remoteVars>>

\* The head of the main loop when there are active jobs and the exit flag is
\* set: the run returns.  Nothing is saved here.
ReturnOnExit ==
  /\ pc = "head"
  /\ Active(mem) # {}
  /\ exit
  /\ Leave("off")
  /\ UNCHANGED <<exit, disk, remoteVars, faults>>

StartIteration ==
  /\ pc = "head"
  /\ Active(mem) # {}
  /\ ~exit
  /\ pc' = "check"
  /\ UNCHANGED <<exit, mem, disk, due, iterVars, remoteVars, faults>>

\* "No more jobs to run."
EndRun ==
  /\ pc = "head"
  /\ Active(mem) = {}
  /\ pc' = "done"
  /\ disk' = mem
  /\ UNCHANGED <<exit, mem, due, iterVars, remoteVars, faults>>

-----------------------------------------------------------------------------
(* Checking the jobs in the queue.                                         *)

\* The status check_all_jobs gives to a job: `late' when some id was missing
\* from the answer, the retries ran out, and an unlisted state then counts as
\* COMPLETED.
NewStatus(s, late) ==
  CASE s = "Q" -> "QUEUING"
    [] s = "R" -> "RUNNING"
    [] s \in {"S", "E"} -> "COMPLETED"
    [] s \in {"F", "K"} -> "FAILED"
    [] OTHER -> IF late THEN "COMPLETED" ELSE "UNKNOWN"

\* What is found out about the jobs asked for: those of `hidden' are missing
\* from the answer, those of `stuck' can never leave the queue.
Answers(asked, hidden, stuck, late) ==
  {[job |-> j, prev |-> mem.status[j],
    new |-> IF j \in hidden THEN "UNKNOWN"
            ELSE IF j \in stuck THEN "FAILED"
            ELSE NewStatus(state[mem.id[j]], late)] : j \in asked}

\* check_wrappers collects the jobs (none if the exit flag is set by now),
\* check_all_jobs asks the scheduler about all of them at once, and
\* get_queue_status cancels those that can never leave the queue.
Poll ==
  LET asked == IF exit THEN {} ELSE InQueue(mem)
      queued == {j \in asked : state[mem.id[j]] = "Q"}
  IN /\ pc = "check"
     /\ pc' = "update"
     /\ \E hidden \in SUBSET asked :
        \E stuck \in SUBSET (IF hidden = {} THEN queued ELSE {}) :
          /\ hidden # {} => CanFault("hidden")
          /\ stuck # {} => CanFault("reason")
          /\ faults' = IF hidden = stuck THEN faults ELSE faults + 1
          /\ state' = Cancelled({mem.id[j] : j \in stuck})
          /\ \E late \in IF hidden = {} THEN {FALSE} ELSE BOOLEAN :
               checked' = Answers(asked, hidden, stuck, late)
     /\ UNCHANGED <<exit, mem, disk, due, pending, dropped, jobsId, script,
                    owner, file>>

\* The command fails: AutosubmitError.
PollError ==
  /\ pc = "check"
  /\ ~exit
  /\ InQueue(mem) # {}
  /\ CanFault("poll")
  /\ faults' = faults + 1
  /\ Leave("recover")
  /\ UNCHANGED <<exit, disk, remoteVars>>

\* update_children_status: the children in the queue, and theirs in turn.
FailedWith(m, j) ==
  LET inQueue == {k \in Jobs :
                   m.status[k] \in {"SUBMITTED", "RUNNING", "QUEUING", "UNKNOWN"}}
      closed(C) == \A k \in inQueue : Parents[k] \cap (C \cup {j}) # {} => k \in C
  IN {k \in Jobs : \A C \in SUBSET Jobs : closed(C) => k \in C}

ConfirmedByScheduler(j, s) ==
  IF s = "UNKNOWN" /\ j \in file THEN "COMPLETED" ELSE s

NeverConfirmed(j, s) ==
  IF s \in {"COMPLETED", "UNKNOWN"}
  THEN IF j \in file THEN "COMPLETED" ELSE "UNKNOWN"
  ELSE s

\* check_completion: whether a job is COMPLETED is decided by its _COMPLETED
\* file, as it is now; without it the job is FAILED, or still UNKNOWN.
Confirmed(j, s) ==
  IF s \in {"COMPLETED", "UNKNOWN"} /\ j \in file THEN "COMPLETED"
  ELSE IF s = "COMPLETED" THEN "FAILED" ELSE s

\* Job.update_status for one polled job.
UpdateStatus(c) ==
  LET s == Confirmed(c.job, c.new)
      m == [mem EXCEPT !.status[c.job] = s]
      failed == FailedWith(m, c.job)
  IN /\ pc = "update"
     /\ \A other \in checked : QueueGroup[c.prev] <= QueueGroup[other.prev]
     /\ checked' = checked \ {c}
     /\ mem' = IF s # "FAILED" THEN m
               ELSE [m EXCEPT !.status = [j \in Jobs |->
                       IF j \in failed THEN "FAILED" ELSE m.status[j]]]
     /\ UNCHANGED <<pc, exit, disk, due, pending, dropped, jobsId, remoteVars,
                    faults>>

UpdateWithoutSave ==
  /\ mem' = UpdateList(mem, FALSE, due)
  /\ \E S \in SUBSET ToCancel(mem, FALSE, due) : state' = Cancelled(S)
  /\ due' = {}
  /\ UNCHANGED <<exit, disk, iterVars, script, owner, file, faults>>

\* job_list.update_list and job_list.save.
UpdateAndSave ==
  /\ mem' = UpdateList(mem, FALSE, due)
  /\ disk' = mem'
  /\ \E S \in SUBSET ToCancel(mem, FALSE, due) : state' = Cancelled(S)
  /\ due' = {}
  /\ UNCHANGED <<exit, iterVars, script, owner, file, faults>>

AfterCheck ==
  /\ pc = "update"
  /\ checked = {}
  /\ UpdateAndSave
  /\ pc' = IF Ready(mem') # {} THEN "submit" ELSE "head"

AfterSubmit ==
  /\ pc = "list"
  /\ UpdateAndSave
  /\ pc' = "head"

-----------------------------------------------------------------------------
(* Submitting the ready jobs.                                              *)

\* calculate_job_limits: there is room for another submission.
HasRoom(m) ==
  LET with(S) == Cardinality({j \in Jobs : m.status[j] \in S})
  IN /\ with({"SUBMITTED", "QUEUING"}) < MaxWaiting
     /\ with({"QUEUING", "RUNNING"}) < TotalJobs

\* The ways to list the elements of a set.
Orders(S) == {q \in [1..Cardinality(S) -> S] : Range(q) = S}

FreeIds == {i \in Ids : owner[i] = NoJob}

\* The packager picks ready jobs, some at least if there is room (and, the
\* bound of an instance, no more than there are ids left).
Packages(m) ==
  IF HasRoom(m) /\ FreeIds # {}
  THEN {S \in SUBSET Ready(m) \ {{}} : Cardinality(S) <= Cardinality(FreeIds)}
  ELSE {{}}

\* The ids noted for packages that could not be prepared, unless they are still
\* the 0 every job is created with.
Noted(S) == {mem.id[j] : j \in S} \ {0}

\* The packages are processed, of which `valid' are the ones whose files can be
\* sent.
Built(pack, valid) ==
  /\ faults' = IF valid # pack THEN faults + 1 ELSE faults
  /\ dropped' = IF valid = {} THEN {} ELSE Noted(pack \ valid)
  /\ file' = file \ valid
  /\ mem' = [mem EXCEPT !.id = [j \in Jobs |->
               IF j \in valid THEN NoId ELSE mem.id[j]]]
  /\ pending' \in Orders(valid)
  /\ script' = pending'
  /\ pc' = IF valid = {} THEN "list" ELSE "sbatch"

\* Slurm: each package writes a line of the submit script, after the remote
\* _COMPLETED file is removed and the id is set to None; then the script is
\* sent and started.  A package whose files cannot be sent is left out.
BuildScript ==
  /\ pc = "submit" /\ Batch
  /\ \E pack \in Packages(mem) : \E valid \in SUBSET pack :
       /\ valid # pack => CanFault("io")
       /\ Built(pack, valid)
  /\ disk' = mem
  /\ UNCHANGED <<exit, due, checked, jobsId, owner, state>>

\* The id of a new submission; which one it is makes no difference.
Fresh(i) == i \in FreeIds /\ i = CHOOSE k \in FreeIds : TRUE

\* The remote shell executes a line: the job is queued under a fresh id, which
\* is printed, or the scheduler refuses it.
RemoteLine ==
  /\ script # <<>>
  /\ script' = Tail(script)
  /\ \/ \E i \in Ids :
          /\ Fresh(i)
          /\ owner' = [owner EXCEPT ![i] = Head(script)]
          /\ state' = [state EXCEPT ![i] = "Q"]
          /\ jobsId' = IF pc = "sbatch" THEN Append(jobsId, i) ELSE jobsId
          /\ UNCHANGED faults
     \/ /\ CanFault("refuse")
        /\ faults' = faults + 1
        /\ UNCHANGED <<owner, state, jobsId>>
  /\ UNCHANGED <<pc, exit, mem, disk, due, checked, pending, dropped, file>>

\* The shell dies with the connection before the rest of the script.
RemoteDies ==
  /\ script # <<>>
  /\ pc # "sbatch"
  /\ script' = <<>>
  /\ UNCHANGED <<processVars, disk, owner, state, file, faults>>

\* submit_script returns: some line succeeded, and errors of the others are
\* ignored by send_command.
ReadIds ==
  /\ pc = "sbatch"
  /\ script = <<>>
  /\ jobsId # <<>>
  /\ pc' = "assign"
  /\ UNCHANGED <<exit, mem, disk, due, iterVars, remoteVars, faults>>

\* The handler of AutosubmitError around submit_script: what is found under
\* the jobs' names is cancelled; an error on the way ends that silently.
\* Either AutosubmitError or AutosubmitCritical is raised next.
CancelAndRaise ==
  /\ \E named \in SUBSET Range(pending) :
       state' = Cancelled(UNION {Live(j) : j \in named})
  /\ \E next \in {"recover", "off"} : Leave(next)
  /\ UNCHANGED <<exit, disk, script, owner, file>>

\* No line succeeded.
NothingSubmitted ==
  /\ pc = "sbatch"
  /\ script = <<>>
  /\ jobsId = <<>>
  /\ CancelAndRaise
  /\ UNCHANGED faults

\* The connection is lost while the script runs.
ScriptError ==
  /\ pc = "sbatch"
  /\ CanFault("lost")
  /\ faults' = faults + 1
  /\ CancelAndRaise

KeepTwins(j, i) == state

\* When several jobs are listed under the name, those with another id are
\* cancelled.
CancelTwins(j, i) ==
  IF Cardinality(Live(j)) > 1 THEN Cancelled(Live(j) \ {i}) ELSE state

\* The job is submitted under the id.
Submitted(m, j, i) == [m EXCEPT !.id[j] = i, !.status[j] = "SUBMITTED"]

\* process_batch_ready_jobs, one package: the next id is given to it.
AssignId ==
  /\ pc = "assign"
  /\ pending # <<>> /\ jobsId # <<>>
  /\ LET j == Head(pending)
         i == Head(jobsId)
     IN /\ mem' = Submitted(mem, j, i)
        /\ state' = CancelTwins(j, i)
  /\ pending' = Tail(pending)
  /\ jobsId' = Tail(jobsId)
  /\ UNCHANGED <<pc, exit, disk, due, checked, dropped, script, owner, file,
                 faults>>

\* jobs_id[jobid_index] raises IndexError, or the connection is lost while
\* duplicates are looked for: AutosubmitError, and nothing is cancelled.
AssignError ==
  /\ pc = "assign"
  /\ pending # <<>>
  /\ \/ jobsId = <<>> /\ UNCHANGED faults
     \/ CanFault("lost") /\ faults' = faults + 1
  /\ Leave("recover")
  /\ UNCHANGED <<exit, disk, remoteVars>>

\* All packages have an id, but another one had been left out: its old id is
\* cancelled, if it had one, and AutosubmitError is raised.
DroppedError ==
  /\ pc = "assign"
  /\ pending = <<>>
  /\ dropped # {}
  /\ state' = Cancelled(dropped)
  /\ Leave("recover")
  /\ UNCHANGED <<exit, disk, script, owner, file, faults>>

SaveBatchWithoutIds ==
  /\ pc = "assign"
  /\ pending = <<>> \/ jobsId = <<>>
  /\ dropped = {}
  /\ pc' = "list"
  /\ disk' = mem
  /\ jobsId' = <<>>
  /\ pending' = <<>>
  /\ UNCHANGED <<exit, mem, due, checked, dropped, remoteVars, faults>>

\* All packages have an id: job_list.save().
SaveBatch ==
  /\ pc = "assign"
  /\ pending = <<>>
  /\ dropped = {}
  /\ pc' = "list"
  /\ disk' = mem
  /\ jobsId' = <<>>
  /\ UNCHANGED <<exit, mem, due, checked, pending, dropped, remoteVars, faults>>

\* Other platforms: the packages are submitted one by one.
StartOneByOne ==
  /\ pc = "submit" /\ ~Batch
  /\ \E pack \in Packages(mem) : pending' \in Orders(pack)
  /\ pc' = "qsub"
  /\ disk' = mem
  /\ UNCHANGED <<exit, mem, due, checked, dropped, jobsId, remoteVars, faults>>

\* JobPackageSimple._do_submission for one job.  When the answer is lost, the
\* AutosubmitError is caught and the loop goes on without the package.
SubmitOne ==
  /\ pc = "qsub"
  /\ pending # <<>>
  /\ LET j == Head(pending)
     IN \E i \in Ids :
          /\ Fresh(i)
          /\ owner' = [owner EXCEPT ![i] = j]
          /\ state' = [state EXCEPT ![i] = "Q"]
          /\ file' = file \ {j}
          /\ \/ /\ mem' = Submitted(mem, j, i)
                /\ pc' = "saveone"
                /\ UNCHANGED faults
             \/ /\ CanFault("lost")
                /\ faults' = faults + 1
                /\ UNCHANGED <<mem, pc>>
  /\ pending' = Tail(pending)
  /\ UNCHANGED <<exit, disk, due, checked, dropped, jobsId, script>>

\* The files of the job cannot be sent, or the scheduler refuses it: also an
\* AutosubmitError the loop goes on after.
SubmitOneFails ==
  /\ pc = "qsub"
  /\ pending # <<>>
  /\ \/ CanFault("io") /\ UNCHANGED file
     \/ CanFault("refuse") /\ file' = file \ {Head(pending)}
  /\ faults' = faults + 1
  /\ pending' = Tail(pending)
  /\ UNCHANGED <<pc, exit, mem, disk, due, checked, dropped, jobsId,
                 script, owner, state>>

SaveOneAtTheEnd ==
  /\ pc = "saveone"
  /\ pc' = "qsub"
  /\ UNCHANGED <<exit, mem, disk, due, iterVars, remoteVars, faults>>

\* Platform.submit_ready_jobs saves after each package.
SaveOne ==
  /\ pc = "saveone"
  /\ pc' = "qsub"
  /\ disk' = mem
  /\ UNCHANGED <<exit, mem, due, iterVars, remoteVars, faults>>

EndOneByOne ==
  /\ pc = "qsub"
  /\ pending = <<>>
  /\ pc' = "list"
  /\ disk' = mem
  /\ UNCHANGED <<exit, mem, due, iterVars, remoteVars, faults>>

-----------------------------------------------------------------------------
(* The platform and the clock.                                             *)

Move(i, from, to) ==
  /\ state[i] = from
  /\ state' = [state EXCEPT ![i] = to]
  /\ UNCHANGED <<processVars, disk, script, owner>>

JobStarts(i) == Move(i, "Q", "R") /\ UNCHANGED <<file, faults>>

\* The last command of the script creates the _COMPLETED file.
JobSucceeds(i) ==
  /\ Move(i, "R", "XS")
  /\ file' = file \cup {owner[i]}
  /\ UNCHANGED faults

JobFails(i) ==
  /\ Cardinality({k \in Ids : state[k] \in {"XF", "F"}}) < MaxFailures
  /\ Move(i, "R", "XF")
  /\ UNCHANGED <<file, faults>>

JobEndsWithoutFile(i) ==
  /\ CanFault("nofile")
  /\ Move(i, "R", "E")
  /\ faults' = faults + 1
  /\ UNCHANGED file

JobEnds(i) ==
  /\ Move(i, "XS", "S") \/ Move(i, "XF", "F")
  /\ UNCHANGED <<file, faults>>

DelayPasses(j) ==
  /\ mem.status[j] = "DELAYED"
  /\ j \notin due
  /\ pc \notin {"off", "done"}
  /\ due' = due \cup {j}
  /\ UNCHANGED <<pc, exit, mem, disk, iterVars, remoteVars, faults>>

\* The run is over.
Terminated == pc = "done" /\ UNCHANGED vars

Submission ==
  \/ BuildScript \/ ReadIds \/ NothingSubmitted \/ ScriptError
  \/ AssignId \/ AssignError \/ DroppedError \/ SaveBatch
  \/ StartOneByOne \/ SubmitOne \/ SubmitOneFails \/ SaveOne \/ EndOneByOne

Loop ==
  \/ ReturnOnExit \/ StartIteration \/ EndRun
  \/ Poll \/ PollError
  \/ \E c \in checked : UpdateStatus(c)
  \/ AfterCheck \/ AfterSubmit

Remote ==
  \/ RemoteLine \/ RemoteDies
  \/ \E i \in Ids : JobStarts(i) \/ JobSucceeds(i) \/ JobFails(i)
                    \/ JobEndsWithoutFile(i) \/ JobEnds(i)

Next ==
  \/ PrepareRun \/ Recover \/ GiveUp \/ Kill \/ Signal
  \/ Loop
  \/ Submission
  \/ Remote
  \/ \E j \in Jobs : DelayPasses(j)
  \/ Terminated

Spec == Init /\ [][Next]_vars

(* The process always takes its next step, `autosubmit run' is started again *)
(* after it stops, the scheduler starts every job and every job ends.        *)
Fairness ==
  /\ WF_vars(PrepareRun)
  /\ WF_vars(Recover)
  /\ WF_vars(Loop)
  /\ WF_vars(Submission)
  /\ WF_vars(RemoteLine)
  /\ \A i \in Ids : /\ WF_vars(JobStarts(i))
                    /\ WF_vars(JobSucceeds(i) \/ JobFails(i))
                    /\ WF_vars(JobEnds(i))
  /\ \A j \in Jobs : WF_vars(DelayPasses(j))

FairSpec == Spec /\ Fairness

-----------------------------------------------------------------------------
(* Properties.                                                             *)

\* Types of the variables.
TypeOK ==
  /\ pc \in ProcessPoints
  /\ exit \in BOOLEAN
  /\ mem \in JobRecords
  /\ disk \in JobRecords
  /\ due \subseteq Jobs
  /\ checked \subseteq CheckRecords
  /\ pending \in Seq(Jobs)
  /\ dropped \subseteq Ids \cup {NoId}
  /\ jobsId \in Seq(Ids)
  /\ script \in Seq(Jobs)
  /\ owner \in [Ids -> Jobs \cup {NoJob}]
  /\ state \in [Ids -> States]
  /\ file \subseteq Jobs
  /\ faults \in Nat

\* The dependencies without a STATUS of their own, on jobs that never go back
\* from COMPLETED.
Hard ==
  [j \in Jobs |->
    {p \in Parents[j] \ Sync : \A s \in Status : <<j, p, s>> \notin EdgeInfo}]

Done(m) == {j \in Jobs : m.status[j] \in DoneStatus}

\* The scheduler never gets a job before its ordinary dependencies are
\* COMPLETED or SKIPPED, in the job list a restart would load.
LaunchedAfterParents ==
  \A i \in Ids : owner[i] # NoJob => Hard[owner[i]] \subseteq Done(disk)

\* A saved job the platform will be asked about is asked for under an id the
\* scheduler handed out for that very job.
SavedIdIsOwn ==
  \A j \in Jobs : disk.status[j] \in InQueueStatus =>
    disk.id[j] \in Ids /\ owner[disk.id[j]] = j

\* No job is COMPLETED, in memory or saved, without its _COMPLETED file.
CompletedHasFile ==
  \A j \in Jobs : "COMPLETED" \in {mem.status[j], disk.status[j]} => j \in file

\* While the job an iteration knows is in the queue, it is the only one of its
\* name there: duplicates left by an interrupted submission were cancelled.
NoTwins ==
  pc = "head" =>
    \A j \in InQueue(mem) : state[mem.id[j]] \in LiveStates => Live(j) = {mem.id[j]}

\* A job is submitted once, and once more for each of its retrials.
RetrialsRespected ==
  \A j \in Jobs : Cardinality({i \in Ids : owner[i] = j}) <= Retrials + 1

\* When the run ends no job is left that could be run: failed jobs have used
\* their retrials and waiting jobs have a parent that is not done.
NothingLeftToRun ==
  pc = "done" =>
    \A j \in Jobs :
      \/ j \in Done(mem)
      \/ mem.status[j] = "FAILED" /\ mem.fails[j] >= Retrials
      \/ mem.status[j] = "WAITING" /\ Parents[j] \ Done(mem) # {}

\* Whatever a run had decided when it stops at the head of an iteration, on
\* SIGINT or at its end, is in the saved list.
CleanStop == pc = "head" => disk = mem

\* Submissions that wait or run and that the saved list does not know of: the
\* next run would submit their jobs again beside them.
Unsaved == {i \in Ids : state[i] \in {"Q", "R"} /\ disk.id[owner[i]] # i}

\* Where jobs are submitted one by one, the saved list misses no more than one
\* submission for each thing that went wrong, a kill or an answer that was lost,
\* and the one that is about to be saved.
OneLostPerFault ==
  Cardinality(Unsaved) <= faults + IF pc = "saveone" THEN 1 ELSE 0

\* Whenever an iteration is over, a synchronised job that is COMPLETED has
\* only parents that are done or have failed for good: one that ran ahead of a
\* parent, on a start condition, will run again.
SyncAfterParents ==
  pc \in {"head", "done"} =>
    \A j \in Sync : mem.status[j] = "COMPLETED" =>
      Parents[j] \subseteq Done(mem) \cup ({p \in Jobs : mem.status[p] = "FAILED"} \ Retried(mem))

\* The run ends.
Ends == <>(pc = "done")

SavedDone == Done(disk) \ Sync
MaySkip == {j \in Jobs : Later[j] # {}}

Promise == INSTANCE Workflow WITH done <- SavedDone, Skippable <- MaySkip

\* The scheduler and the saved job list implement the abstract workflow.
ImplementsWorkflow == Promise!Spec

==============================================================================
