---------------------------- MODULE LogRecovery ----------------------------
(***************************************************************************)
(* The retrieval of the logs of finished jobs: the run loop hands jobs to  *)
(* a child process through a queue, the child moves and downloads the log  *)
(* files, and the run loop looks for the files to learn that it did.       *)
(*                                                                         *)
(* Code: Platform.recover_platform_job_logs and what it calls, the events, *)
(* the queue and their replacement (platforms/platform.py);                *)
(* Job.retrieve_logfiles (job/job.py); check_logs_status,                  *)
(* refresh_log_recovery_process, run_experiment (autosubmit.py);           *)
(* update_log_status, set_ready_date (job/job_list.py, job/job.py).        *)
(*                                                                         *)
(* One remote platform, jobs without dependencies and outside wrappers.    *)
(* Time is a counter that moves on between two ready dates: a file that    *)
(* was downloaded before a job got ready again is older than its ready     *)
(* date.  An item is in the queue as soon as it is put: the feeder thread  *)
(* of the queue is given the sleep of the iteration to deliver.            *)
(***************************************************************************)
EXTENDS Naturals, FiniteSets, FiniteSetsExt, Sequences, SequencesExt

CONSTANTS
  Jobs,        \* jobs of the platform
  Preset,      \* jobs that are COMPLETED without ever having been submitted
  Retrials,    \* RETRIALS
  Tries,       \* how often the child tries to get a log (5 in the code)
  MaxRuns,     \* how many times the user starts `autosubmit run' (bound)
  Faults,      \* what can go wrong in this instance
  MaxFaults    \* how many times something goes wrong (bound)

FaultKinds ==
  {"kill",      \* the run is killed; its child goes on
   "stop",      \* SIGINT: Autosubmit.exit becomes True
   "reload",    \* AutosubmitError: prepare_run(recover=True)
   "critical",  \* AutosubmitCritical: the run ends
   "unknown",   \* the state of a job is not known: UNKNOWN
   "nolog",     \* a job leaves no log
   "refused",   \* the log cannot be looked for or moved
   "transfer",  \* the log is moved but cannot be downloaded
   "stats",     \* an error after the download, writing the statistics
   "child"}     \* the child dies or cannot restore its connection

ASSUME LogsAssumption ==
  /\ IsFiniteSet(Jobs)
  /\ Preset \subseteq Jobs
  /\ Retrials \in Nat
  /\ Tries \in Nat \ {0, 1}
  /\ MaxRuns \in Nat
  /\ Faults \subseteq FaultKinds
  /\ MaxFaults \in Nat

VARIABLES
  pc,       \* where the run loop is; "down" when no run is on
  exit,     \* Autosubmit.exit
  didRun,   \* did_run
  runs,     \* runs started so far
  mem,      \* the job list in memory: status, fails, sub, ready, flag
  disk,     \* the saved job list
  toCheck,  \* jobs_to_check: polled jobs whose status is still to be updated
  queue,    \* recovery_queue
  work,     \* work_event
  cleanup,  \* cleanup_event
  child,    \* what the child does
  last,     \* the child makes its last pass over the queue
  pend,     \* jobs_pending_to_process, with _log_recovery_retries
  orphan,   \* items a child is busy with whose run was killed
  remote,   \* <<job, count>>: script_name.out.<count> is on the platform
  local,    \* downloaded log files
  stats,    \* items whose statistics were written, how many times
  clock,    \* time, as far as ready dates and file times are compared
  done,     \* items of this run that were retrieved or given up
  gone,     \* items of this run that were lost with a child
  faults    \* how many things have gone wrong

runVars == <<pc, exit, didRun, runs, toCheck>>
childVars == <<child, last, pend, done, gone>>
fileVars == <<remote, local, stats>>
vars == <<pc, exit, didRun, runs, toCheck, mem, disk, queue, work, cleanup, child, last,
          pend, orphan, remote, local, stats, clock, done, gone, faults>>

Statuses == {"READY", "RUNNING", "UNKNOWN", "COMPLETED", "FAILED"}

\* sub numbers the submissions of a job (the local log is named after the time
\* of submission); 0 is also a job without an id.  ready is ready_date, flag
\* updated_log.
JobRecords ==
  [status : [Jobs -> Statuses], fails : [Jobs -> 0..Retrials],
   sub : [Jobs -> Nat], ready : [Jobs -> Nat], flag : [Jobs -> BOOLEAN]]

\* What CopyQueue.put copies of a job, as far as it matters to the child.
Items == [job : Jobs, count : 0..Retrials, sub : Nat]
Item(m, j) == [job |-> j, count |-> m.fails[j], sub |-> m.sub[j]]

LogFiles == [job : Jobs, sub : Nat, stamp : Nat]

Alive == {"wait", "drain", "retry"}

CanFault(kind) == kind \in Faults /\ faults < MaxFaults
Fault(kind) == CanFault(kind) /\ faults' = faults + 1

-----------------------------------------------------------------------------
(* The job list.                                                           *)

InState(m, S) == {j \in Jobs : m.status[j] \in S}
Active(m) == InState(m, {"READY", "RUNNING", "UNKNOWN"})
Ready(m) == InState(m, {"READY"})

\* get_completed_failed_without_logs
Unlogged(m) == {j \in InState(m, {"COMPLETED", "FAILED"}) : ~m.flag[j]}

\* update_list: FAILED jobs that have retrials left are READY again.
Retried(m) ==
  LET again == {j \in InState(m, {"FAILED"}) : m.fails[j] < Retrials}
  IN [m EXCEPT
        !.status = [j \in Jobs |-> IF j \in again THEN "READY" ELSE @[j]],
        !.fails = [j \in Jobs |-> IF j \in again THEN @[j] + 1 ELSE @[j]]]

\* update_list(first_time=True) forgets the failures of what has not started.
Forgotten(m) ==
  [m EXCEPT !.fails = [j \in Jobs |-> IF j \in Ready(m) THEN 0 ELSE @[j]]]

\* The end of update_list: set_ready_date for every READY job.
Dated(m) ==
  [m EXCEPT
     !.ready = [j \in Jobs |-> IF j \in Ready(m) THEN clock + 1 ELSE @[j]],
     !.flag = [j \in Jobs |-> IF j \in Ready(m) THEN FALSE ELSE @[j]]]

ClockAfter(m) == IF Ready(m) = {} THEN clock ELSE clock + 1

\* Without the comparison of dates.
AnyLogIsRecovered(m, j) == m.ready[j] > 0 /\ \E f \in local : f.job = j

\* check_if_log_is_recovered: any log of the job that is not older than its
\* ready date.
LogIsRecovered(m, j) ==
  /\ m.ready[j] > 0
  /\ \E f \in local : f.job = j /\ f.stamp >= m.ready[j]

\* check_logs_status(new_run=False)
LogsChecked(m) ==
  [m EXCEPT !.flag = [j \in Jobs |->
     @[j] \/ (j \in Unlogged(m) /\ LogIsRecovered(m, j))]]

\* Without the failed jobs.
CompletedToHandOver(m) ==
  {j \in Unlogged(LogsChecked(m)) : m.sub[j] > 0 /\ m.status[j] = "COMPLETED"}

\* check_logs_status(new_run=True) also hands over the jobs whose log is still
\* missing; add_job_to_log_recover does not take a job without an id.
ToHandOver(m) == {j \in Unlogged(LogsChecked(m)) : m.sub[j] > 0}

\* Their items, in the order of the job list, which is any order here.
QueuesOf(m) ==
  {[n \in DOMAIN order |-> Item(m, order[n])] : order \in SetToSeqs(ToHandOver(m))}

HandedOver(m) ==
  LET c == LogsChecked(m)
  IN [c EXCEPT !.flag = [j \in Jobs |-> @[j] \/ (j \in Unlogged(c) /\ c.sub[j] = 0)]]

-----------------------------------------------------------------------------
(* The run loop.                                                           *)

Init ==
  /\ pc = "down"
  /\ exit = FALSE
  /\ didRun = FALSE
  /\ runs = 0
  /\ mem = [status |-> [j \in Jobs |-> IF j \in Preset THEN "COMPLETED" ELSE "READY"],
            fails |-> [j \in Jobs |-> 0], sub |-> [j \in Jobs |-> 0],
            ready |-> [j \in Jobs |-> 0], flag |-> [j \in Jobs |-> FALSE]]
  /\ disk = mem
  /\ toCheck = {}
  /\ queue = <<>>
  /\ work = FALSE
  /\ cleanup = FALSE
  /\ child = "off"
  /\ last = FALSE
  /\ pend = {}
  /\ orphan = {}
  /\ remote = {}
  /\ local = {}
  /\ stats = [i \in {} |-> 0]
  /\ clock = 0
  /\ done = {}
  /\ gone = {}
  /\ faults = 0

\* A new child with its own queue and events.
Spawn ==
  /\ child' = "wait"
  /\ last' = FALSE
  /\ cleanup' = FALSE

\* load, update_list(first_time=True), save.
LoadUpdateSave ==
  /\ disk' = Dated(Forgotten(disk))
  /\ clock' = ClockAfter(disk)

\* prepare_run connects to the platform if it is still needed, which starts the
\* child; check_logs_status(new_run=True) starts it for the jobs it hands over.
Start ==
  /\ pc = "down"
  /\ runs < MaxRuns
  /\ runs' = runs + 1
  /\ pc' = "head"
  /\ exit' = FALSE
  /\ didRun' = FALSE
  /\ LoadUpdateSave
  /\ mem' = HandedOver(disk')
  /\ queue' \in QueuesOf(disk')
  /\ IF Unlogged(disk') = {} /\ InState(disk', {"COMPLETED"}) = Jobs
     THEN child' = "off" /\ last' = FALSE /\ cleanup' = FALSE
     ELSE Spawn
  /\ work' = FALSE
  /\ pend' = {}
  /\ done' = {}
  /\ gone' = {}
  /\ UNCHANGED <<toCheck, orphan, fileVars, faults>>

\* refresh_log_recovery_process: a dead child is replaced, and the queue with
\* it; work_event keeps the child alive.
StartIteration ==
  /\ pc = "head"
  /\ Active(mem) # {}
  /\ ~exit
  /\ pc' = "check"
  /\ didRun' = TRUE
  /\ toCheck' = InState(mem, {"RUNNING", "UNKNOWN"})
  /\ work' = TRUE
  /\ IF child \in Alive
     THEN UNCHANGED <<child, last, cleanup, queue, gone>>
     ELSE /\ Spawn
          /\ gone' = gone \cup Range(queue)
          /\ queue' = <<>>
  /\ UNCHANGED <<exit, runs, mem, disk, pend, orphan, fileVars, clock, done, faults>>

\* Job.update_status of a job that was polled: a finished or UNKNOWN job is put
\* in the queue, an UNKNOWN one in every iteration.
UpdateStatus(j) ==
  /\ pc = "check"
  /\ j \in toCheck
  /\ toCheck' = toCheck \ {j}
  /\ \E s \in {"RUNNING", "COMPLETED", "FAILED", "UNKNOWN"} :
       /\ IF s = "UNKNOWN" THEN Fault("unknown") ELSE UNCHANGED faults
       /\ mem' = [mem EXCEPT !.status[j] = s]
       /\ queue' = IF s = "RUNNING" THEN queue ELSE Append(queue, Item(mem, j))
  /\ UNCHANGED <<pc, exit, didRun, runs, disk, work, cleanup, childVars, orphan,
                 fileVars, clock>>

\* A polled job has ended.
JobEnds(j) == UpdateStatus(j) /\ mem'.status[j] # "RUNNING"

\* update_list and save.
UpdateAndSave ==
  /\ pc = "check"
  /\ toCheck = {}
  /\ pc' = IF Ready(Retried(mem)) = {} THEN "sleep" ELSE "submit"
  /\ mem' = Dated(Retried(mem))
  /\ disk' = mem'
  /\ clock' = ClockAfter(Retried(mem))
  /\ UNCHANGED <<exit, didRun, runs, toCheck, queue, work, cleanup, childVars, orphan,
                 fileVars, faults>>

Submitted(m) ==
  [m EXCEPT
     !.status = [j \in Jobs |-> IF j \in Ready(m) THEN "RUNNING" ELSE @[j]],
     !.sub = [j \in Jobs |-> IF j \in Ready(m) THEN @[j] + 1 ELSE @[j]]]

\* submit_ready_jobs, update_list and save.  A job that starts writes its log
\* under the name of its retrial.
Submit ==
  /\ pc = "submit"
  /\ pc' = "sleep"
  /\ mem' = Submitted(mem)
  /\ disk' = mem'
  /\ \E S \in SUBSET Ready(mem) :
       /\ IF S = Ready(mem) THEN UNCHANGED faults ELSE Fault("nolog")
       /\ remote' = remote \cup {<<j, mem.fails[j]>> : j \in S}
  /\ UNCHANGED <<exit, didRun, runs, toCheck, queue, work, cleanup, childVars, orphan,
                 local, stats, clock>>

\* The end of an iteration.
Sleep ==
  /\ pc = "sleep"
  /\ pc' = "head"
  /\ IF exit
     THEN mem' = LogsChecked(mem) /\ disk' = mem'
     ELSE UNCHANGED <<mem, disk>>
  /\ UNCHANGED <<exit, didRun, runs, toCheck, queue, work, cleanup, childVars, orphan,
                 fileVars, clock, faults>>

\* The process ends: send_cleanup_signal, registered with atexit.
Leaving ==
  /\ pc' = "leaving"
  /\ cleanup' = TRUE
  /\ work' = FALSE

ReturnOnExit ==
  /\ pc = "head"
  /\ Active(mem) # {}
  /\ exit
  /\ Leaving
  /\ mem' = LogsChecked(mem)
  /\ UNCHANGED <<exit, didRun, runs, toCheck, disk, queue, childVars, orphan, fileVars,
                 clock, faults>>

\* AutosubmitError while jobs are polled or submitted: the list is loaded again,
\* the platforms and their children stay.
Recover ==
  /\ pc \in {"check", "submit"}
  /\ Fault("reload")
  /\ pc' = "head"
  /\ LoadUpdateSave
  /\ mem' = disk'
  /\ toCheck' = {}
  /\ UNCHANGED <<exit, didRun, runs, queue, work, cleanup, childVars, orphan, fileVars>>

Critical ==
  /\ pc \in {"check", "submit"}
  /\ Fault("critical")
  /\ Leaving
  /\ UNCHANGED <<exit, didRun, runs, toCheck, mem, disk, queue, childVars, orphan,
                 fileVars, clock>>

\* When the run did nothing and logs are missing, the platforms are built anew:
\* the children that are told to end and waited for are not those that got the
\* items.
Awaited == didRun \/ Unlogged(mem) = {}

EndRun ==
  /\ pc = "head"
  /\ Active(mem) = {}
  /\ pc' = "join"
  /\ disk' = mem
  /\ cleanup' = (cleanup \/ Awaited)
  /\ UNCHANGED <<exit, didRun, runs, toCheck, mem, queue, work, childVars, orphan,
                 fileVars, clock, faults>>

\* log_recovery_process.join(), check_logs_status(new_run=False), save.
Join ==
  /\ pc = "join"
  /\ Awaited => child \notin Alive
  /\ pc' = "report"
  /\ mem' = LogsChecked(mem)
  /\ disk' = mem'
  /\ UNCHANGED <<exit, didRun, runs, toCheck, queue, work, cleanup, childVars, orphan,
                 fileVars, clock, faults>>

Report ==
  /\ pc = "report"
  /\ Leaving
  /\ UNCHANGED <<exit, didRun, runs, toCheck, mem, disk, queue, childVars, orphan,
                 fileVars, clock, faults>>

\* join(timeout=60): a child that is still there is terminated.
Leave ==
  /\ pc = "leaving"
  /\ pc' = "down"
  /\ mem' = disk
  /\ child' = "off"
  /\ queue' = <<>>
  /\ pend' = {}
  /\ toCheck' = {}
  /\ UNCHANGED <<exit, didRun, runs, disk, work, cleanup, last, orphan, fileVars,
                 clock, done, gone, faults>>

\* SIGINT
Signal ==
  /\ pc \notin {"down", "leaving"}
  /\ ~exit
  /\ Fault("stop")
  /\ exit' = TRUE
  /\ UNCHANGED <<pc, didRun, runs, toCheck, mem, disk, queue, work, cleanup, childVars,
                 orphan, fileVars, clock>>

PendingItems == {p.item : p \in pend}

\* SIGKILL: the child is not told and goes on with what is in its queue.
Kill ==
  /\ pc # "down"
  /\ Fault("kill")
  /\ pc' = "down"
  /\ mem' = disk
  /\ orphan' = orphan \cup
       (IF child \in Alive THEN Range(queue) \cup PendingItems ELSE {})
  /\ child' = "off"
  /\ queue' = <<>>
  /\ pend' = {}
  /\ toCheck' = {}
  /\ UNCHANGED <<exit, didRun, runs, disk, work, cleanup, last, fileVars, clock,
                 done, gone>>

-----------------------------------------------------------------------------
(* The child.                                                              *)

OnPlatform(i) == <<i.job, i.count>> \in remote

Counted(i) ==
  [k \in DOMAIN stats \cup {i} |->
     IF k \in DOMAIN stats THEN stats[k] + (IF k = i THEN 1 ELSE 0) ELSE 1]

Downloaded(i) == local \cup {[job |-> i.job, sub |-> i.sub, stamp |-> clock]}

\* retrieve_logfiles: the log is looked for under its first name, moved to the
\* name of the submission, downloaded, and the statistics are written.
\* get_file does not raise when the download fails.
Retrieved(i) ==
  /\ OnPlatform(i)
  /\ remote' = remote \ {<<i.job, i.count>>}
  /\ stats' = Counted(i)
  /\ \/ local' = Downloaded(i) /\ UNCHANGED faults
     \/ Fault("transfer") /\ UNCHANGED local

\* retrieve_logfiles raises: the log is not there (or was moved before), it
\* cannot be reached, or the statistics cannot be written.
NotRetrieved(i) ==
  \/ ~OnPlatform(i) /\ UNCHANGED <<fileVars, faults>>
  \/ OnPlatform(i) /\ Fault("refused") /\ UNCHANGED fileVars
  \/ /\ OnPlatform(i)
     /\ Fault("stats")
     /\ remote' = remote \ {<<i.job, i.count>>}
     /\ local' = Downloaded(i)
     /\ UNCHANGED stats

childUnchanged == <<runVars, mem, disk, cleanup, orphan, clock>>

\* wait_for_work returns True.
ChildWakes ==
  /\ child = "wait"
  /\ work \/ cleanup \/ queue # <<>>
  /\ child' = "drain"
  /\ work' = FALSE
  /\ UNCHANGED <<childUnchanged, queue, last, pend, fileVars, done, gone, faults>>

\* wait_for_work returns False: no signal for keep_alive_timeout.
ChildTimesOut ==
  /\ child = "wait"
  /\ ~work /\ ~cleanup /\ queue = <<>>
  /\ child' = "left"
  /\ UNCHANGED <<childUnchanged, queue, work, last, pend, fileVars, done, gone, faults>>

\* The first loop of recover_job_log.
ChildTakes ==
  /\ child = "drain"
  /\ queue # <<>>
  /\ queue' = Tail(queue)
  /\ LET i == Head(queue)
     IN \/ Retrieved(i) /\ done' = done \cup {i} /\ UNCHANGED pend
        \/ NotRetrieved(i) /\ pend' = pend \cup {[item |-> i, tries |-> 1]}
           /\ UNCHANGED done
  /\ UNCHANGED <<childUnchanged, work, child, last, gone>>

ChildDrained ==
  /\ child = "drain"
  /\ queue = <<>>
  /\ child' = "retry"
  /\ UNCHANGED <<childUnchanged, queue, work, last, pend, fileVars, done, gone, faults>>

\* Kept until it is retrieved.
KeptForever(p) == {p}

\* A job that failed to be retrieved is kept until it was tried Tries times.
Kept(p) == IF p.tries + 1 < Tries
           THEN {[item |-> p.item, tries |-> p.tries + 1]}
           ELSE {}

\* The second loop of recover_job_log.
ChildRetries ==
  /\ child = "retry"
  /\ \E p \in pend :
       \/ /\ Retrieved(p.item)
          /\ pend' = pend \ {p}
          /\ done' = done \cup {p.item}
       \/ /\ NotRetrieved(p.item)
          /\ pend' = (pend \ {p}) \cup Kept(p)
          /\ done' = IF Kept(p) = {} THEN done \cup {p.item} ELSE done
  /\ UNCHANGED <<childUnchanged, queue, work, child, last, gone>>

\* Without the pass after cleanup_event.
NoLastPass == IF cleanup THEN "ended" ELSE "wait"

\* The loop of recover_platform_job_logs: once it sees cleanup_event it makes
\* one more pass.
AfterPass ==
  IF last THEN "ended" ELSE IF cleanup THEN "drain" ELSE "wait"

ChildEndsPass ==
  /\ child = "retry"
  /\ pend = {}
  /\ child' = AfterPass
  /\ last' = cleanup
  /\ UNCHANGED <<childUnchanged, queue, work, pend, fileVars, done, gone, faults>>

\* The child fails, or restore_connection raises in it.
ChildDies ==
  /\ child \in Alive
  /\ Fault("child")
  /\ child' = "left"
  /\ pend' = {}
  /\ gone' = gone \cup PendingItems
  /\ UNCHANGED <<childUnchanged, queue, work, last, fileVars, done>>

\* The child of a killed run.  Its tries that change nothing are left out.
OrphanRetrieves ==
  /\ \E i \in orphan : Retrieved(i) /\ orphan' = orphan \ {i}
  /\ UNCHANGED <<runVars, mem, disk, queue, work, cleanup, childVars, clock>>

OrphanEnds ==
  /\ orphan # {}
  /\ orphan' = {}
  /\ UNCHANGED <<runVars, mem, disk, queue, work, cleanup, childVars, fileVars,
                 clock, faults>>

-----------------------------------------------------------------------------
RunLoop ==
  \/ StartIteration
  \/ \E j \in Jobs : UpdateStatus(j)
  \/ UpdateAndSave
  \/ Submit
  \/ Sleep
  \/ ReturnOnExit
  \/ EndRun
  \/ Join
  \/ Report
  \/ Leave

Child ==
  \/ ChildWakes
  \/ ChildTakes
  \/ ChildDrained
  \/ ChildRetries
  \/ ChildEndsPass

Outside ==
  \/ Start
  \/ Recover
  \/ Critical
  \/ Signal
  \/ Kill
  \/ ChildTimesOut
  \/ ChildDies
  \/ OrphanRetrieves
  \/ OrphanEnds

Next == RunLoop \/ Child \/ Outside

Spec == Init /\ [][Next]_vars

\* The process and its child run; jobs end.
FairSpec == Spec /\ WF_vars(RunLoop) /\ WF_vars(Child)
                 /\ \A j \in Jobs : SF_vars(JobEnds(j))

-----------------------------------------------------------------------------
(* Properties.                                                             *)

TypeOK ==
  /\ pc \in {"down", "head", "check", "submit", "sleep", "join", "report", "leaving"}
  /\ exit \in BOOLEAN
  /\ didRun \in BOOLEAN
  /\ runs \in 0..MaxRuns
  /\ toCheck \subseteq Jobs
  /\ mem \in JobRecords
  /\ disk \in JobRecords
  /\ queue \in Seq(Items)
  /\ work \in BOOLEAN
  /\ cleanup \in BOOLEAN
  /\ child \in Alive \cup {"off", "left", "ended"}
  /\ last \in BOOLEAN
  /\ pend \subseteq [item : Items, tries : 1..(Tries - 1)]
  /\ orphan \subseteq Items
  /\ remote \subseteq Jobs \X (0..Retrials)
  /\ local \subseteq LogFiles
  /\ DOMAIN stats \subseteq Items
  /\ \A i \in DOMAIN stats : stats[i] \in Nat
  /\ clock \in Nat
  /\ done \subseteq Items
  /\ gone \subseteq Items
  /\ faults \in 0..MaxFaults

\* While a run is on, each finished job whose log was not recorded and is not
\* found was handed to a child of this run: it is in the queue, being retried,
\* dealt with, or was lost with a child.  Restarts and reloads forget no job.
Accounted ==
  pc \in {"head", "check", "submit", "sleep", "join", "report"} =>
    \A j \in Unlogged(LogsChecked(mem)) :
      mem.sub[j] > 0 => Item(mem, j) \in Range(queue) \cup PendingItems \cup done \cup gone

\* updated_log means that there is a log that is not older than the ready date,
\* in memory and in the saved list, for a job that has an id.
FlagHasLog ==
  \A m \in {mem, disk} : \A j \in Jobs :
    m.flag[j] /\ m.sub[j] > 0 =>
      \E f \in local : f.job = j /\ f.stamp >= m.ready[j]

\* A child that was told to end and was waited for leaves nothing undone, even
\* what was put while it was between its last look at the queue and its look at
\* cleanup_event.
ChildEndsWithNothingLeft ==
  child = "ended" /\ pc \in {"join", "report"} => queue = <<>> /\ pend = {}

\* The run ends: the child it waits for gives up what it cannot retrieve, and
\* sees that it has to end.
RunEnds == (pc # "down") ~> (pc = "down")

==============================================================================
