------------------------------ MODULE Wrappers ------------------------------
(***************************************************************************)
(* Wrappers: several jobs sent to Slurm as one submission, the script that   *)
(* runs them there, and the WrapperJob that follows them from here.          *)
(*                                                                         *)
(* Code: WrapperJob (autosubmit/job/job.py); manage_wrapper_job,            *)
(* check_wrappers, check_wrapper_stored_status (autosubmit/autosubmit.py);  *)
(* the scripts of platforms/wrappers/wrapper_builder.py; JobPackageThread   *)
(* and the packages made from it (job/job_packages.py);                     *)
(* job/job_package_persistence.py.                                         *)
(*                                                                         *)
(* JobPackager models how packages are formed; here the policy is flexible  *)
(* and all jobs are of the wrapper's sections.  CHECK_TIME_WRAPPER is 0: a  *)
(* wrapper is checked in every iteration.                                  *)
(***************************************************************************)
EXTENDS Naturals, Sequences, SequencesExt, FiniteSets

CONSTANTS
  Jobs,
  Types,     \* types of wrapper to try
  Chains,    \* of each type: its lists of jobs, or its levels
  Parents,   \* of each type and job
  Retrials,  \* RETRIALS, of the wrapper and of its jobs
  MaxId,     \* submissions (bound)
  Faults,    \* of each type: what may go wrong
  MaxFaults  \* how often (bound)

AllTypes == {"vertical", "horizontal", "vertical-horizontal", "horizontal-vertical"}

ASSUME WrappersAssumption ==
  /\ Types \subseteq AllTypes
  /\ IsFiniteSet(Jobs)
  /\ Chains \in [Types -> Seq(Seq(Jobs))]
  /\ Parents \in [Types -> [Jobs -> SUBSET Jobs]]
  /\ Retrials \in Nat /\ MaxId \in Nat /\ MaxFaults \in Nat

NoSub == 0
Ids == 1..MaxId
InQueue == {"SUBMITTED", "QUEUING", "RUNNING", "HELD"}
\* Why Slurm keeps a submission waiting, of the reasons the code looks at.
Reasons == {"JobHeldUser", "JobHeldAdmin", "BadConstraints"}
Statuses == InQueue \cup {"WAITING", "READY", "COMPLETED", "FAILED"}

VARIABLES
  type,     \* the type of wrapper of this run
  list,     \* the jobs: status, fail_count, id, wrapper_type
  saved,    \* the list, as it was saved
  wrappers, \* job_package_map: id -> WrapperJob
  packages, \* the rows of job_packages.db, in order
  todo,     \* ids this iteration has still to check
  subs,     \* what Slurm knows of each submission
  lastId,
  files,    \* in the remote directory
  faults    \* what went wrong: how often, and of which kinds

vars == <<type, list, saved, wrappers, packages, todo, subs, lastId, files, faults>>
local == <<list, saved, wrappers, packages, todo, lastId>>

NoWrapper == [jobs |-> <<>>, status |-> "none", started |-> {}, inner |-> {}, failed |-> FALSE]

WrapperJob(jobs, status) == [NoWrapper EXCEPT !.jobs = jobs, !.status = status]

Fault(what) ==
  /\ what \in Faults[type] /\ faults.count < MaxFaults
  /\ faults' = [count |-> faults.count + 1, kinds |-> faults.kinds \cup {what}]

-----------------------------------------------------------------------------
(* The WrapperJob.  A check takes x = [l |-> the list, w |-> the wrapper,  *)
(* cancel, forget |-> whether scancel is sent, WRAPPER_FAILED deleted].    *)

\* The elements of seq that are in S, in their order.
Keep(S, acc, x) == IF x \in S THEN Append(acc, x) ELSE acc
Among(seq, S) ==
  LET f[n \in 0..Len(seq)] == IF n = 0 THEN <<>> ELSE Keep(S, f[n - 1], seq[n])
  IN f[Len(seq)]

\* F(v), of which TLC evaluates v once.
With(v, F(_)) == CHOOSE r \in {F(w) : w \in {v}} : TRUE

\* Jobs of the wrapper that may be running.
Open(x) ==
  {j \in Range(x.w.jobs) :
     /\ x.l.status[j] \notin {"COMPLETED", "FAILED"}
     /\ \A p \in Parents[type][j] : x.l.status[p] = "COMPLETED" \/ x.w.status = "COMPLETED"}

SetStatus(x, js, s) ==
  [x EXCEPT !.l.status = [j \in Jobs |-> IF j \in js THEN s ELSE @[j]]]

\* _check_finished_job
Finished(x, js) ==
  [x EXCEPT
     !.l.status = [j \in Jobs |-> IF j \notin js THEN @[j]
                                  ELSE IF j \in files.completed THEN "COMPLETED" ELSE "FAILED"],
     !.w.started = @ \ js]

\* _check_running_jobs.  stat is the number of lines of _STAT_0.  The job that is
\* the last of those that run tells whether the wallclock is exceeded.
CheckRunning(x) ==
  LET open == Open(x)
      seen == {j \in open : files.stat[j] > 0}
      y == Finished(SetStatus([x EXCEPT !.w.inner = open, !.w.started = @ \cup seen],
                              seen \ x.w.started, "RUNNING"),
                    {j \in seen : files.stat[j] = 2})
      running == Among(x.w.jobs, {j \in seen : files.stat[j] = 1})
      late == Range(running) \cap files.late
  IN [SetStatus(y, IF type = "vertical" THEN {} ELSE late, "FAILED")
        EXCEPT !.w.status = IF running # <<>> /\ Last(running) \in late THEN "FAILED" ELSE @]

\* check_inner_jobs_completed
CheckCompleted(x) ==
  Finished(x, {j \in Range(x.w.jobs) : x.l.status[j] # "COMPLETED"})

UpdateFailedKeeps(x, ready) ==
  [SetStatus(x, x.w.inner \cap files.failed, "FAILED") EXCEPT !.w.inner = @ \ files.failed]

\* update_failed_jobs.  No job is in the deep copy of the list it is looked up in.
UpdateFailed(x, ready) ==
  LET js == x.w.inner \cup
              (IF ready THEN {j \in Range(x.w.jobs) : x.l.status[j] \in {"READY", "SUBMITTED", "QUEUING"}}
               ELSE {})
  IN [SetStatus(x, js \cap files.failed, "FAILED")
        EXCEPT !.w.inner = {}, !.w.started = @ \ files.failed]

ForgetWrapper(x) ==
  With(CheckRunning(x), LAMBDA y :
    With(SetStatus(y, y.w.inner, "FAILED"), LAMBDA z :
      SetStatus(z, {j \in Range(x.w.jobs) : z.l.status[j] \notin {"COMPLETED", "FAILED"}}, "WAITING")))

\* cancel_failed_wrapper_job
CancelWrapper(x) ==
  With(CheckRunning(x), LAMBDA y :
    With(SetStatus(y, y.w.inner, "FAILED"), LAMBDA z :
      LET js == Range(x.w.jobs)
          over == {j \in js : z.l.status[j] \in {"COMPLETED", "FAILED"}}
      IN [SetStatus(z, js \ over, "WAITING")
            EXCEPT !.cancel = TRUE,
                   !.l.fails = [j \in Jobs |->
                      IF j \in over /\ x.l.wtype[j] = "vertical" THEN Retrials ELSE @[j]]]))

\* _queuing_reason_cancel, of the reasons squeue can give.
QueuingReasonCancel(reason) == reason = "BadConstraints"

\* _check_inner_jobs_queue
CheckQueue(x, before, reason) ==
  With([x EXCEPT !.w.status = CASE reason = "JobHeldUser" -> "HELD"
                                [] reason = "JobHeldAdmin" -> "WAITING"
                                [] OTHER -> @,
                 !.cancel = @ \/ reason = "JobHeldAdmin"], LAMBDA y :
    CASE QueuingReasonCancel(reason) ->
           With(CheckRunning(x), LAMBDA z : With(UpdateFailed(z, TRUE), CancelWrapper))
      [] ~QueuingReasonCancel(reason) /\ y.w.status = before -> y
      [] OTHER -> SetStatus(y, Range(y.w.jobs), y.w.status))

\* The last part of check_status, for a wrapper that is FAILED.
CheckFailed(x, before) ==
  With(CASE before \in {"SUBMITTED", "QUEUING"} -> UpdateFailed(x, TRUE)
         [] before = "FAILED" -> CheckRunning([x EXCEPT !.w.failed = TRUE])
         [] OTHER -> x, LAMBDA y :
    LET noticed == /\ ~y.w.failed
                   /\ files.wrapperFailed
                   /\ y.w.inner \cap files.failed # {}
        z == [y EXCEPT !.w.failed = @ \/ noticed, !.forget = noticed]
    IN CASE y.w.inner = {} -> CancelWrapper(y)
         [] y.w.inner # {} /\ z.w.failed ->
                With(UpdateFailed(z, FALSE), LAMBDA u : IF u.w.inner = {} THEN CancelWrapper(u) ELSE u)
         [] OTHER -> z)

\* check_status
CheckStatus(x, status, reason) ==
  LET before == x.w.status IN
  With([x EXCEPT !.w.status = status], LAMBDA y :
    With(CASE status = "QUEUING" -> CheckQueue(y, before, reason)
           [] status = "RUNNING" ->
                With(IF before = "SUBMITTED" THEN SetStatus(y, Range(y.w.jobs), "QUEUING") ELSE y,
                     CheckRunning)
           [] status = "COMPLETED" -> With(CheckRunning(y), CheckCompleted)
           [] OTHER -> y, LAMBDA z :
      IF z.w.status = "FAILED" THEN CheckFailed(z, before) ELSE z))

-----------------------------------------------------------------------------
(* The list and the packages.                                              *)

Done(l, j) == l.status[j] = "COMPLETED"
ParentsDone(l, j) == \A p \in Parents[type][j] : Done(l, p)

\* The failed jobs in update_list.
Retry(l) ==
  LET f == [j \in Jobs |-> IF l.status[j] = "FAILED" /\ l.wtype[j] = "vertical"
                           THEN Retrials ELSE l.fails[j]]
      again == {j \in Jobs : l.status[j] = "FAILED" /\ f[j] < Retrials}
  IN [l EXCEPT !.status = [j \in Jobs |-> IF j \notin again THEN @[j]
                                          ELSE IF ParentsDone(l, j) THEN "READY" ELSE "WAITING"],
               !.fails = [j \in Jobs |-> IF j \in again THEN f[j] + 1 ELSE f[j]],
               !.id = [j \in Jobs |-> IF j \in again /\ ParentsDone(l, j) THEN NoSub ELSE @[j]]]

Released(l) ==
  [l EXCEPT !.status = [j \in Jobs |-> IF @[j] = "WAITING" /\ ParentsDone(l, j) THEN "READY" ELSE @[j]]]

UpdateList(l) == Released(Retry(l))

\* prepare_run: what is loaded, and the first update of the list.
Loaded(l) ==
  Released([l EXCEPT !.status = [j \in Jobs |-> IF @[j] = "READY" THEN "WAITING" ELSE @[j]],
                     !.fails = [j \in Jobs |-> IF l.status[j] \in {"READY", "WAITING"}
                                               THEN 0 ELSE @[j]]])

ReadyJobs(l) == {j \in Jobs : l.status[j] = "READY"}

\* The jobs of a package: the ones that are READY and those that only wait for
\* jobs of the package.
InPackage(l) ==
  LET in[j \in Jobs] ==
        \/ j \in ReadyJobs(l)
        \/ /\ l.status[j] = "WAITING" /\ Parents[type][j] # {}
           /\ \A p \in Parents[type][j] : Done(l, p) \/ in[p]
  IN {j \in Jobs : in[j]}

PackageLists(js) ==
  Among([k \in DOMAIN Chains[type] |-> Among(Chains[type][k], js)], Seq(Jobs) \ {<<>>})

Package(kind, lists, wtype) == [kind |-> kind, lists |-> lists, wtype |-> wtype]
Simple(j, wtype) == Package("simple", <<<<j>>>>, wtype)
PackageJobs(p) == FlattenSeq(p.lists)

WrapperType == IF type = "vertical" THEN "vertical" ELSE "none"

\* The packages of this iteration.  Jobs that failed before are not wrapped with
\* others unless no other job of the section is left.
ToSubmit(l) ==
  LET js == InPackage(l)
      wrap(t) == <<Package(type, PackageLists(js), t)>>
      ready == SetToSeq(ReadyJobs(l))
  IN CASE ready = <<>> -> <<>>
       [] ready # <<>> /\ Cardinality(js) > 1 /\ (\A j \in js : l.fails[j] = 0) -> wrap(WrapperType)
       [] OTHER ->
            IF \E j \in Jobs : l.status[j] \in InQueue THEN <<>>
            ELSE IF \A j \in Jobs \ js : Done(l, j)
                 THEN IF Cardinality(js) = 1 THEN <<Simple(ready[1], "Simple")>> ELSE wrap("keep")
            ELSE [k \in DOMAIN ready |-> Simple(ready[k], "keep")]

\* What Slurm is given.
NewSub(p, l) ==
  LET js == Range(PackageJobs(p)) IN
  [state |-> "pending", reason |-> "none", kind |-> p.kind, lists |-> p.lists,
   job |-> [j \in Jobs |-> IF j \in js THEN "todo" ELSE "no"],
   first |-> {j \in js : l.fails[j] = 0},  \* those that write _STAT_0
   tries |-> [j \in Jobs |-> 0]]

NoneSub == [state |-> "none", reason |-> "none", kind |-> "simple", lists |-> <<>>,
            job |-> [j \in Jobs |-> "no"], first |-> {}, tries |-> [j \in Jobs |-> 0]]

Submitted(l, ps) ==
  LET idOf(j) == LET k == {k \in DOMAIN ps : j \in Range(PackageJobs(ps[k]))}
                 IN IF k = {} THEN NoSub ELSE lastId + CHOOSE n \in k : TRUE
      wt(j) == ps[idOf(j) - lastId].wtype
  IN [l EXCEPT !.id = [j \in Jobs |-> IF idOf(j) = NoSub THEN @[j] ELSE idOf(j)],
               !.status = [j \in Jobs |-> IF idOf(j) = NoSub THEN @[j] ELSE "SUBMITTED"],
               !.wtype = [j \in Jobs |-> IF idOf(j) = NoSub \/ wt(j) = "keep" THEN @[j] ELSE wt(j)]]

\* remove_multiple_files asks for <job>_STAT, which is no file; a job that goes
\* alone has its _STAT_<fail_count> removed.
Removed(l, ps) ==
  LET js == UNION {Range(PackageJobs(ps[k])) : k \in DOMAIN ps}
      alone == {j \in js : l.fails[j] = 0 /\ \E k \in DOMAIN ps : ps[k] = Simple(j, ps[k].wtype)}
  IN [files EXCEPT !.completed = @ \ js,
                   !.stat = [j \in Jobs |-> IF j \in alone THEN 0 ELSE @[j]]]

Wrapped(ps) == Among(ps, {p \in Range(ps) : p.kind # "simple"})

\* check_wrapper_stored_status: the status of the k-th package in the database.  A
\* package none of whose jobs is under way gets that of the one before it.
StoredStatus(l) ==
  LET order == <<"RUNNING", "FAILED", "QUEUING", "HELD", "SUBMITTED">>
      has(k) == {n \in DOMAIN order : \E j \in Range(packages[k]) : l.status[j] = order[n]}
      f[k \in 0..Len(packages)] ==
        IF k = 0 THEN "SUBMITTED"
        ELSE IF \A j \in Range(packages[k]) : Done(l, j) THEN "COMPLETED"
        ELSE IF has(k) = {} THEN f[k - 1]
        ELSE order[CHOOSE n \in has(k) : \A m \in has(k) : n <= m]
  IN f

\* The wrappers of a new process, by the id of their first job.
StoredWrappers(l) ==
  [i \in Ids |->
     LET ks == {k \in DOMAIN packages : l.id[packages[k][1]] = i}
         last == CHOOSE k \in ks : \A m \in ks : m <= k
     IN IF ks = {} THEN NoWrapper ELSE WrapperJob(packages[last], StoredStatus(l)[last])]

-----------------------------------------------------------------------------
Init ==
  /\ type \in Types
  /\ list = [status |-> [j \in Jobs |-> IF Parents[type][j] = {} THEN "READY" ELSE "WAITING"],
             fails |-> [j \in Jobs |-> 0], id |-> [j \in Jobs |-> NoSub],
             wtype |-> [j \in Jobs |-> "none"]]
  /\ saved = list
  /\ wrappers = [i \in Ids |-> NoWrapper]
  /\ packages = <<>>
  /\ todo = {}
  /\ subs = [i \in Ids |-> NoneSub]
  /\ lastId = 0
  /\ files = [completed |-> {}, failed |-> {}, stat |-> [j \in Jobs |-> 0],
              wrapperFailed |-> FALSE, late |-> {}]
  /\ faults = [count |-> 0, kinds |-> {}]

\* A job without id is asked for as 0: Slurm does not know it, and it stays queued.
QueuedIds(l) == Ids \cap {l.id[j] : j \in {k \in Jobs : l.status[k] \in InQueue}}

\* The end of an iteration: update_list, save, submit_ready_jobs.
Iteration ==
  \E l \in {UpdateList(list)} : \E ps \in {ToSubmit(l)} : \E new \in {Submitted(l, ps)} :
  /\ todo = {}
  /\ lastId + Len(ps) <= MaxId
  /\ list' = new /\ saved' = new
  /\ lastId' = lastId + Len(ps)
  /\ subs' = [i \in Ids |-> IF i - lastId \in DOMAIN ps THEN NewSub(ps[i - lastId], l) ELSE subs[i]]
  /\ files' = Removed(l, ps)
  /\ wrappers' = [i \in Ids |->
       IF i - lastId \in DOMAIN ps /\ ps[i - lastId].kind # "simple"
       THEN WrapperJob(PackageJobs(ps[i - lastId]), "SUBMITTED") ELSE wrappers[i]]
  /\ packages' = packages \o [k \in DOMAIN Wrapped(ps) |-> PackageJobs(Wrapped(ps)[k])]
  /\ todo' = QueuedIds(new)
  /\ UNCHANGED <<type, faults>>

\* A process that is killed and started again.
Restart ==
  /\ Fault("kill")
  /\ list' = Loaded(saved) /\ saved' = list'
  /\ wrappers' = StoredWrappers([saved EXCEPT
       !.status = [j \in Jobs |-> IF @[j] = "READY" THEN "WAITING" ELSE @[j]]])
  /\ todo' = QueuedIds(list')
  /\ UNCHANGED <<type, packages, subs, lastId, files>>

\* Attempts that end because the submission does.  The script of a job that gets
\* SIGTERM writes when it ended, one that gets SIGKILL does not.
Stopped(i, state, trapped) ==
  LET js == {j \in Jobs : subs[i].job[j] = "run"} IN
  /\ subs' = [subs EXCEPT ![i].state = state, ![i].reason = "none",
                          ![i].job = [j \in Jobs |-> IF j \in js THEN "bad" ELSE @[j]]]
  /\ files' = [files EXCEPT !.late = @ \ js,
                            !.stat = [j \in Jobs |-> IF j \in js \cap subs[i].first /\ trapped
                                                     THEN 2 ELSE @[j]]]

Alive(i) == subs[i].state \in {"pending", "running", "suspended"}

\* check_job: Slurm says SUSPENDED and the platform takes it for a failure.
Answer(i) ==
  CASE subs[i].state = "pending" -> "QUEUING"
    [] subs[i].state = "running" -> "RUNNING"
    [] subs[i].state = "completed" -> "COMPLETED"
    [] OTHER -> "FAILED"

\* No answer of sacct in all retries is taken for COMPLETED.
Answers(i, a) ==
  \/ a = Answer(i) /\ UNCHANGED faults
  \/ a = "COMPLETED" /\ Answer(i) # a /\ Fault("no answer")

CheckWrapper(i) ==
  /\ i \in todo
  /\ wrappers[i] # NoWrapper
  /\ \E a \in {"QUEUING", "RUNNING", "COMPLETED", "FAILED"} :
       \E x \in {CheckStatus([l |-> list, w |-> wrappers[i], cancel |-> FALSE, forget |-> FALSE],
                             a, subs[i].reason)} :
       /\ Answers(i, a)
       /\ list' = x.l
       /\ wrappers' = [wrappers EXCEPT ![i] = IF x.w.status = "WAITING" THEN NoWrapper ELSE x.w]
       /\ IF x.cancel /\ Alive(i) THEN Stopped(i, "failed", TRUE)
          ELSE /\ files' = [files EXCEPT !.wrapperFailed = @ /\ ~x.forget]
               /\ UNCHANGED subs
  /\ todo' = todo \ {i}
  /\ UNCHANGED <<type, saved, packages, lastId>>

\* A job that is checked alone: check_all_jobs and update_status.
CheckSimple(i) ==
  LET js == {j \in Jobs : list.id[j] = i /\ list.status[j] \in InQueue} IN
  /\ i \in todo
  /\ wrappers[i] = NoWrapper
  /\ list' = [list EXCEPT !.status = [j \in Jobs |->
       IF j \notin js THEN @[j]
       ELSE IF Answer(i) # "COMPLETED" THEN Answer(i)
       ELSE IF j \in files.completed THEN "COMPLETED" ELSE "FAILED"]]
  /\ todo' = todo \ {i}
  /\ UNCHANGED <<type, saved, wrappers, packages, subs, lastId, files, faults>>

-----------------------------------------------------------------------------
(* Slurm and the script of the wrapper.                                    *)

Starts(i) ==
  /\ subs[i].state = "pending" /\ subs[i].reason = "none"
  /\ subs' = [subs EXCEPT ![i].state = "running"]
  /\ UNCHANGED <<type, local, files, faults>>

Waits(i) ==
  /\ subs[i].state = "pending" /\ subs[i].reason = "none" /\ subs[i].kind # "simple"
  /\ \E r \in Reasons :
       Fault(r) /\ subs' = [subs EXCEPT ![i].reason = r]
  /\ UNCHANGED <<type, local, files>>

UserReleases(i) ==
  /\ subs[i].reason = "JobHeldUser"
  /\ subs' = [subs EXCEPT ![i].reason = "none"]
  /\ UNCHANGED <<type, local, files, faults>>

Ok(s, js) == \A j \in js : s.job[j] = "ok"

MayStartAnyway(s, j) == j \in Range(FlattenSeq(s.lists))

\* JobThread: one after the other in a list; side by side; or level by level.
MayStart(s, j) ==
  \E k \in DOMAIN s.lists : \E n \in DOMAIN s.lists[k] :
    /\ s.lists[k][n] = j
    /\ IF s.kind = "horizontal-vertical" THEN \A m \in 1..(k - 1) : Ok(s, Range(s.lists[m]))
       ELSE Ok(s, Range(SubSeq(s.lists[k], 1, n - 1)))

JobStarts(i, j) ==
  /\ subs[i].state = "running" /\ subs[i].job[j] = "todo"
  /\ MayStart(subs[i], j)
  /\ subs' = [subs EXCEPT ![i].job[j] = "run"]
  /\ files' = [files EXCEPT !.stat[j] = IF j \in subs[i].first THEN 1 ELSE @]
  /\ UNCHANGED <<type, local, faults>>

\* A job runs for longer than its own wallclock.
RunsLate(i, j) ==
  /\ subs[i].state = "running" /\ subs[i].job[j] = "run" /\ subs[i].kind # "simple"
  /\ j \notin files.late
  /\ Fault("late")
  /\ files' = [files EXCEPT !.late = @ \cup {j}]
  /\ UNCHANGED <<type, local, subs>>

JobSucceeds(i, j) ==
  /\ subs[i].state = "running" /\ subs[i].job[j] = "run"
  /\ subs' = [subs EXCEPT ![i].job[j] = "ok"]
  /\ files' = [files EXCEPT !.completed = @ \cup {j}, !.late = @ \ {j},
                            !.stat[j] = IF j \in subs[i].first THEN 2 ELSE @]
  /\ UNCHANGED <<type, local, faults>>

\* A vertical wrapper tries the job again.
Again(s, j) == s.kind = "vertical" /\ s.tries[j] < Retrials

JobFails(i, j) ==
  /\ subs[i].state = "running" /\ subs[i].job[j] = "run"
  /\ Fault("failure")
  /\ subs' = [subs EXCEPT ![i].job[j] = IF Again(subs[i], j) THEN "todo" ELSE "bad",
                          ![i].tries[j] = IF Again(subs[i], j) THEN @ + 1 ELSE @]
  /\ files' = [files EXCEPT !.late = @ \ {j}, !.stat[j] = IF j \in subs[i].first THEN 2 ELSE @]
  /\ UNCHANGED <<type, local>>

\* Lists that are over, when the script looks: sequential lists one by one,
\* parallel ones when all their jobs ended.
BadJobs(s) == {j \in Jobs : s.job[j] = "bad"}
OverList(s, k) == \A j \in Range(s.lists[k]) : s.job[j] \in {"ok", "bad"}
AllOver(s) == \A k \in DOMAIN s.lists : OverList(s, k)

\* The script notices that a job has no _COMPLETED file.  All but the horizontal
\* one end there and then, with the jobs that run.
ScriptFails(i) ==
  LET s == subs[i]
      bad == BadJobs(s)
      js == {j \in Jobs : s.job[j] = "run"}
  IN
  /\ s.state = "running" /\ bad # {}
  /\ s.kind \notin {"horizontal", "simple"}
  /\ s.kind = "horizontal-vertical" => \E k \in DOMAIN s.lists : OverList(s, k) /\ bad \subseteq Range(s.lists[k])
  /\ subs' = [subs EXCEPT ![i].state = "failed",
                          ![i].job = [j \in Jobs |-> IF j \in js THEN "bad" ELSE @[j]]]
  /\ files' = [files EXCEPT !.failed = @ \cup bad, !.wrapperFailed = TRUE, !.late = @ \ js]
  /\ UNCHANGED <<type, local, faults>>

\* The script ends; a horizontal one always with success.
ScriptEnds(i) ==
  LET s == subs[i] IN
  /\ s.state = "running" /\ AllOver(s)
  /\ BadJobs(s) = {} \/ s.kind \in {"horizontal", "simple"}
  /\ subs' = [subs EXCEPT ![i].state =
       IF s.kind = "simple" /\ BadJobs(s) # {} THEN "failed" ELSE "completed"]
  /\ files' = [files EXCEPT !.failed = @ \cup (IF s.kind = "simple" THEN {} ELSE BadJobs(s))]
  /\ UNCHANGED <<type, local, faults>>

\* TIMEOUT, NODE_FAIL, OUT_OF_MEMORY, or scancel of the user.
SlurmStops(i) ==
  /\ subs[i].state = "running" /\ subs[i].kind # "simple"
  /\ Fault("stopped")
  /\ \E trapped \in BOOLEAN : Stopped(i, "failed", trapped)
  /\ UNCHANGED <<type, local>>

Suspends(i) ==
  /\ subs[i].state = "running" /\ subs[i].kind # "simple"
  /\ Fault("suspended")
  /\ subs' = [subs EXCEPT ![i].state = "suspended"]
  /\ UNCHANGED <<type, local, files>>

Resumes(i) ==
  /\ subs[i].state = "suspended"
  /\ subs' = [subs EXCEPT ![i].state = "running"]
  /\ UNCHANGED <<type, local, files, faults>>

-----------------------------------------------------------------------------
Check(i) == CheckWrapper(i) \/ CheckSimple(i)

Script(i) ==
  \/ Starts(i) \/ UserReleases(i) \/ Resumes(i) \/ ScriptFails(i) \/ ScriptEnds(i)
  \/ \E j \in Jobs : JobStarts(i, j) \/ JobSucceeds(i, j)

Trouble(i) ==
  \/ Waits(i) \/ SlurmStops(i) \/ Suspends(i)
  \/ \E j \in Jobs : JobFails(i, j) \/ RunsLate(i, j)

Process == Iteration \/ \E i \in Ids : Check(i)
Slurm == \E i \in Ids : Script(i)

Next == Process \/ Restart \/ Slurm \/ \E i \in Ids : Trouble(i)

\* The process goes on, and so do Slurm, what runs there, and the user who releases
\* what he held.
Fairness == WF_vars(Process) /\ WF_vars(Slurm)

Spec == Init /\ [][Next]_vars /\ Fairness
-----------------------------------------------------------------------------
(* Properties.                                                             *)

\* The state is well formed; no job has more than RETRIALS failures counted.
TypeOK ==
  /\ list.status \in [Jobs -> Statuses] /\ list.fails \in [Jobs -> 0..Retrials]
  /\ list.id \in [Jobs -> Ids \cup {NoSub}]
  /\ saved.status \in [Jobs -> Statuses] /\ saved.fails \in [Jobs -> 0..Retrials]
  /\ \A i \in Ids : wrappers[i].inner \subseteq Range(wrappers[i].jobs)
  /\ \A i \in Ids : Range(wrappers[i].jobs) \subseteq Jobs /\ subs[i].tries \in [Jobs -> 0..Retrials]
  /\ todo \subseteq Ids /\ lastId \in 0..MaxId
  /\ files.completed \cup files.failed \cup files.late \subseteq Jobs
  /\ files.stat \in [Jobs -> 0..2]

\* A submission in which the job runs, or will.
Runs(i, j) == Alive(i) /\ subs[i].job[j] \in {"todo", "run"}

\* A job of a vertical wrapper is never under way in two submissions at once, whatever
\* goes wrong: a wrapper that is given up is cancelled before its jobs go again
\* (cancel_failed_wrapper_job, _check_inner_jobs_queue).  One of a horizontal wrapper is
\* not either, if all that goes wrong is that jobs fail and that Slurm keeps it waiting.
NoTwins ==
  \/ type = "vertical"
  \/ type = "horizontal" /\ faults.kinds \subseteq Reasons \cup {"failure"}
  => \A j \in Jobs : Cardinality({i \in Ids : Runs(i, j)}) <= 1

\* A job of a wrapper that is COMPLETED here has its _COMPLETED file there
\* (check_inner_jobs_completed, _check_finished_job): that Slurm says COMPLETED of the
\* wrapper, as it does of a horizontal one whose jobs failed, is not enough.
CompletedHasFile == \A j \in Jobs : list.status[j] = "COMPLETED" => j \in files.completed

\* A job runs only when the jobs it depends on have succeeded, in the same submission
\* or before, whatever of a wrapper is submitted again (PackageLists, the scripts): in a
\* vertical wrapper whatever goes wrong, in the others as long as the process that
\* follows it goes on and is not misled by Slurm or a wallclock.
OrderKept ==
  \/ type = "vertical"
  \/ faults.kinds \subseteq Reasons \cup {"failure", "stopped"}
  => \A i \in Ids, j \in Jobs : subs[i].job[j] = "run" => Parents[type][j] \subseteq files.completed

\* In the end no job is READY or in the queue for ever: a wrapper that failed, was
\* stopped, held or suspended, or found by a new process, does not hold up its jobs
\* (check_status, check_wrapper_stored_status).
Ends == <>[](\A j \in Jobs : list.status[j] \notin InQueue \cup {"READY"})

=============================================================================
