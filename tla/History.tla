------------------------------ MODULE History ------------------------------
(***************************************************************************)
(* The historical database of an experiment: one row per attempt of a job  *)
(* (job_data), one row per run of the experiment (experiment_run).         *)
(*                                                                         *)
(* Code: ExperimentHistory (history/experiment_history.py), the database   *)
(* manager under it (history/database_managers), the strategies that share *)
(* the energy of a wrapper among its jobs (history/strategies.py), and who *)
(* writes: the log recovery process (Job.write_stats, job/job.py), the     *)
(* threads it starts for Slurm (Job.write_end_time), and the commands run, *)
(* create and setstatus (autosubmit.py); who reads: recovery               *)
(* (job/job_list.py) and the experiments that wait for this one            *)
(* (helpers/autosubmit_helper.py).                                         *)
(*                                                                         *)
(* Every statement is a transaction of its own, and rows are written back  *)
(* whole: what was read some statements ago overwrites what others wrote   *)
(* since.  Commands are serialized by the lock of the experiment, the      *)
(* recovery process and its threads are not.                               *)
(***************************************************************************)
EXTENDS Naturals, FiniteSets, Sequences, FiniteSetsExt, SequencesExt

CONSTANTS
  Jobs,         \* the jobs, all of a date and a member
  Wrapped,      \* those of the (one, vertical) wrapper
  Settings,     \* what this instance is: [slurm, writers, tries, test, edits]
  MaxAttempts,  \* submissions (bound)
  UserStatuses, \* what setstatus is asked for
  MaxOrders     \* commands and faults (bound)

Statuses == {"WAITING", "RUNNING", "COMPLETED", "FAILED", "SUSPENDED"}

ASSUME HistoryAssumption ==
  /\ Jobs # {} /\ IsFiniteSet(Jobs) /\ Wrapped \subseteq Jobs
  /\ Settings \subseteq
       [slurm : BOOLEAN, writers : Nat \ {0}, tries : Nat \ {0}, test : BOOLEAN,
        edits : BOOLEAN]
  /\ UserStatuses \subseteq Statuses
  /\ MaxAttempts \in Nat /\ MaxOrders \in Nat

VARIABLES
  setting,   \* the experiment and its platform
  list,      \* the statuses of the job list
  id,        \* job.id, 0 before the first submission
  ids,       \* the last id a platform gave
  jobData,   \* job_data: for each job, its rows in the order of insertion
  runs,      \* experiment_run
  command,   \* what the owner of the lock does
  current,   \* the recovery process of the run
  queue,     \* what each process has to log
  writer,    \* what each process does
  threads,   \* write_platform_data_after_finish
  commands,  \* commands and faults so far
  logged,    \* <<job, id>> whose logs are taken for recovered (updated_log)
  behind,    \* the list was changed without its counts (ghost)
  stopped,   \* jobs a process was killed at after it wrote last=0 and before it
             \* inserted the row that is the last, until one is inserted (ghost)
  missed     \* <<job, id>> that need not be in the history: see Unregistered and
             \* FlaggedTooSoon (ghost)

tables == <<jobData, runs>>
ghosts == <<stopped, missed>>
listVars == <<list, id, ids, behind>>
processes == <<queue, writer, threads, logged, ghosts>>
historyVars == <<setting, list, id, ids, jobData, runs, command, current, queue, writer,
                 threads, commands, logged, behind, ghosts>>

Slurm == setting.slurm      \* a thread asks for the energy of each attempt
Writers == setting.writers  \* recovery processes at the same time (bound)
MaxTries == setting.tries   \* attempts inside the wrapper (bound)
Test == setting.test        \* the name of the experiment starts with t
Edits == setting.edits      \* users change NUMCHUNKS, CHUNKSIZE or their unit

\* The id that recover_last_data gives a job that has none; a platform gives others.
MadeUpId == 1

-----------------------------------------------------------------------------
(* The tables.                                                             *)

Final == {"COMPLETED", "FAILED"}

JobDataRows ==
  [counter : Nat, id : Nat, start : BOOLEAN, finish : BOOLEAN,
   status : Statuses, last : BOOLEAN]
RunRows == [total : Nat, completed : Nat, suspended : Nat, finish : BOOLEAN]

\* The rows of a job among which the code looks for the last one.
LastRows(j) == {k \in DOMAIN jobData[j] : jobData[j][k].last}

\* _get_job_data_last_by_name: those with last=1, or else all of them.
FoundLast(j) == IF LastRows(j) # {} THEN LastRows(j) ELSE DOMAIN jobData[j]

\* The row with the highest counter among some rows of a job.
Newest(j, S) == CHOOSE k \in S : \A l \in S : jobData[j][l].counter <= jobData[j][k].counter

\* get_job_data_max_counter
MaxCounter(j) == Max({0} \cup {jobData[j][k].counter : k \in DOMAIN jobData[j]})

\* _get_next_counter_by_job_name
NextCounter(j) ==
  IF jobData[j] = <<>> THEN MaxCounter(j)
  ELSE Max({MaxCounter(j), jobData[j][Newest(j, FoundLast(j))].counter + 1})

\* UNIQUE(counter, job_name)
Accepts(j, n) == \A k \in DOMAIN jobData[j] : jobData[j][k].counter # n

\* get_job_data_by_job_id_name looks among the rows of a job with an id.
WithId(j, n) == {k \in DOMAIN jobData[j] : jobData[j][k].id = n}

\* _update_job_data_by_id for rows that were read before: function from
\* <<job, row>> to what is written.
Updated(f) ==
  [j \in Jobs |-> [k \in DOMAIN jobData[j] |->
     IF <<j, k>> \in DOMAIN f THEN f[<<j, k>>] ELSE jobData[j][k]]]
One(j, k, r) == [key \in {<<j, k>>} |-> r]

\* get_status_counts_from_job_list
Count(status) == Cardinality({j \in Jobs : list[j] = status})

\* For a mutant: failed jobs are counted as done.
CountedAnyEnd(run) ==
  [run EXCEPT !.total = Cardinality(Jobs), !.suspended = Count("SUSPENDED"),
              !.completed = Count("COMPLETED") + Count("FAILED")]

\* update_counts_on_experiment_run_dc
Counted(run) ==
  [run EXCEPT !.total = Cardinality(Jobs), !.completed = Count("COMPLETED"),
              !.suspended = Count("SUSPENDED")]

NewRun == Counted([total |-> 0, completed |-> 0, suspended |-> 0, finish |-> FALSE])

\* update_experiment_run_dc_by_id for the run with the highest id
WithCounts(run) == [runs EXCEPT ![Len(runs)] = run]

-----------------------------------------------------------------------------
(* process_status_changes, by the command that owns the lock.              *)

NoCommand == [name |-> "none", step |-> "", changes |-> {}]
Begin(name) == [name |-> name, step |-> "read", changes |-> {}]
Does(name) == command.name = name
At(step) == command.step = step
Free == Does("none") /\ commands < MaxOrders

\* What follows: the run starts its loop, the other commands are over.
Done == IF Does("run") THEN [NoCommand EXCEPT !.name = "loop"] ELSE NoCommand

\* detect_changes_in_job_list: <<job, row>> for each last row of which the
\* list says something else, unless the job ended and is to run again.
Changes ==
  {key \in UNION {{<<j, k>> : k \in LastRows(j)} : j \in Jobs} :
     LET was == jobData[key[1]][key[2]].status
     IN /\ was # list[key[1]]
        /\ ~(was \in Final /\ list[key[1]] = "WAITING")}

\* should_we_create_a_new_run: the chunks are compared in any experiment, the rest
\* in those that are not tests.
NeedsNewRun(changes, edited) ==
  \/ Does("create")
  \/ ~Test /\ runs[Len(runs)].total # Cardinality(Jobs)
  \/ ~Test /\ Cardinality(changes) > Count("COMPLETED")
  \/ edited

\* Without a run there is nothing to compare with: the error is logged, but that
\* of a test, which has a run made.
ReadChanges ==
  /\ At("read")
  /\ \E edited \in {FALSE, Edits} :
       command' =
         IF runs = <<>>
         THEN IF Does("create") \/ Test THEN [command EXCEPT !.step = "finish"] ELSE Done
         ELSE IF NeedsNewRun(Changes, edited) THEN [command EXCEPT !.step = "finish"]
         ELSE IF Changes # {}
              THEN [command EXCEPT !.step = "change", !.changes = Changes]
         ELSE [command EXCEPT !.step = "count"]
  /\ UNCHANGED <<tables, listVars, current, processes, commands>>

\* update_many_job_data_change_status
ChangeStatuses ==
  /\ At("change")
  /\ jobData' = Updated([key \in command.changes |->
                        [jobData[key[1]][key[2]] EXCEPT !.status = list[key[1]]]])
  /\ command' = [command EXCEPT !.step = "count", !.changes = {}]
  /\ UNCHANGED <<runs, listVars, current, processes, commands>>

CountRun ==
  /\ At("count")
  /\ runs' = WithCounts(Counted(runs[Len(runs)]))
  /\ behind' = FALSE
  /\ command' = IF Does("end") THEN [command EXCEPT !.step = "finished"] ELSE Done
  /\ UNCHANGED <<jobData, list, id, ids, current, processes, commands>>

Finished(run) == [run EXCEPT !.finish = TRUE]

\* create_new_experiment_run: the run before ends, with the counts it has.
FinishRun ==
  /\ At("finish")
  /\ runs' = IF runs = <<>> THEN runs ELSE WithCounts(Finished(runs[Len(runs)]))
  /\ command' = [command EXCEPT !.step = "insert"]
  /\ UNCHANGED <<jobData, listVars, current, processes, commands>>

InsertRun ==
  /\ At("insert")
  /\ runs' = Append(runs, NewRun)
  /\ behind' = FALSE
  /\ command' = Done
  /\ UNCHANGED <<jobData, list, id, ids, current, processes, commands>>

-----------------------------------------------------------------------------
(* The commands.                                                           *)

Create ==
  /\ Free
  /\ list' = [j \in Jobs |-> "WAITING"]
  /\ id' = [j \in Jobs |-> 0]
  /\ behind' = TRUE
  /\ logged' = {attempt \in logged : attempt[2] # MadeUpId}
  /\ command' = Begin("create")
  /\ commands' = commands + 1
  /\ UNCHANGED <<tables, ids, current, queue, writer, threads, ghosts>>

\* get_jobs_data_last_row: the newest of the rows with last=1.
LastRow(j) == jobData[j][Newest(j, LastRows(j))]

\* recover_last_data: jobs get the id of their last row, or one that is made up if
\* they have neither; those with a row, or (setstatus) all, are flagged.
WithLastIds(S) ==
  [j \in Jobs |->
     IF j \in S /\ LastRows(j) # {} THEN LastRow(j).id
     ELSE IF j \in S /\ id[j] = 0 THEN MadeUpId ELSE id[j]]
Flagged(S, flagged) == logged \cup {<<j, WithLastIds(S)[j]>> : j \in flagged}

\* What is flagged although no row says that it was logged: without a row, what a
\* recovery process has not come to is not registered any more; in a row without its
\* end, what the process that was killed had not written is not written any more.
FlaggedTooSoon(flagged) ==
  {<<j, WithLastIds(flagged)[j]>> :
     j \in {j \in flagged : LastRows(j) = {} \/ ~LastRow(j).finish}}

SetStatus(j, status) ==
  /\ Free
  /\ list[j] # status
  /\ list' = [list EXCEPT ![j] = status]
  /\ id' = WithLastIds({j})
  /\ logged' = Flagged({j}, {j})
  /\ missed' = missed \cup FlaggedTooSoon({j})
  /\ behind' = TRUE
  /\ command' = Begin("setstatus")
  /\ commands' = commands + 1
  /\ UNCHANGED <<tables, ids, current, queue, writer, threads, stopped>>

\* recover_all_completed_jobs_from_exp_history
CompletedInHistory ==
  {j \in Jobs : LastRows(j) # {} /\ LastRow(j).status = "COMPLETED"}

\* recovery --offline, of all jobs or of the active ones: no lock, and no
\* counts.
Recovery ==
  /\ Free
  /\ \E S \in {Jobs, {j \in Jobs : list[j] \in {"WAITING", "RUNNING"}}} :
       list' = [j \in Jobs |->
                  IF j \notin S THEN list[j]
                  ELSE IF j \in CompletedInHistory THEN "COMPLETED"
                  ELSE IF list[j] = "SUSPENDED" THEN "SUSPENDED" ELSE "WAITING"]
  /\ LET found == {j \in Jobs : list'[j] \in Final}
         withRow == {j \in found : LastRows(j) # {}}
     IN /\ id' = WithLastIds(found)
        /\ logged' = Flagged(found, withRow)
        /\ missed' = missed \cup FlaggedTooSoon(withRow)
  /\ behind' = TRUE
  /\ commands' = commands + 1
  /\ UNCHANGED <<tables, ids, command, current, queue, writer, threads, stopped>>

NothingToDo(w) == writer[w].pc = "idle" /\ queue[w] = <<>> /\ \A t \in threads : t.of # w

Item(j, tries) == [job |-> j, id |-> id[j], status |-> list[j], tries |-> tries]
Tries(j) == IF j \in Wrapped THEN 1..MaxTries ELSE {1}

\* The jobs that ended and whose logs no process of an earlier run has done
\* with are sent to the process of this one (check_logs_status).
Unlogged == {j \in Jobs : list[j] \in Final /\ id[j] # 0 /\ <<j, id[j]>> \notin logged}

Run(w) ==
  /\ Free
  /\ NothingToDo(w)
  /\ current' = w
  /\ \E order \in SetToSeqs(Unlogged) :
       queue' = [queue EXCEPT ![w] = [n \in DOMAIN order |-> Item(order[n], 1)]]
  /\ command' = Begin("run")
  /\ commands' = commands + 1
  /\ UNCHANGED <<tables, listVars, writer, threads, logged, ghosts>>

Submit(j) ==
  /\ Does("loop")
  /\ list[j] = "WAITING"
  /\ ids < MaxAttempts + MadeUpId
  /\ ids' = ids + 1
  /\ id' = [id EXCEPT ![j] = ids + 1]
  /\ list' = [list EXCEPT ![j] = "RUNNING"]
  /\ UNCHANGED <<tables, command, current, processes, commands, behind>>

Ends(j, status, tries) ==
  /\ Does("loop")
  /\ list[j] = "RUNNING"
  /\ list' = [list EXCEPT ![j] = status]
  /\ queue' = [queue EXCEPT ![current] =
                 Append(@, [job |-> j, id |-> id[j], status |-> status, tries |-> tries])]
  /\ UNCHANGED <<tables, id, ids, command, current, writer, threads, commands, logged,
                 behind, ghosts>>

Retry(j) ==
  /\ Does("loop")
  /\ list[j] = "FAILED"
  /\ list' = [list EXCEPT ![j] = "WAITING"]
  /\ UNCHANGED <<tables, id, ids, behind, command, current, processes, commands>>

\* process_historical_data_iteration
Totals ==
  /\ Does("loop")
  /\ runs # <<>>
  /\ runs' = WithCounts(Counted(runs[Len(runs)]))
  /\ runs' # runs
  /\ behind' = FALSE
  /\ UNCHANGED <<jobData, list, id, ids, command, current, processes, commands>>

\* No job is active and the recovery process was waited for.
EndRun ==
  /\ Does("loop")
  /\ \A j \in Jobs : list[j] # "RUNNING"
  /\ NothingToDo(current)
  /\ command' = IF runs = <<>> THEN NoCommand
                ELSE [name |-> "end", step |-> "count", changes |-> {}]
  /\ UNCHANGED <<tables, listVars, current, processes, commands>>

\* finish_current_experiment_run, if no job failed
EndFinished ==
  /\ At("finished")
  /\ runs' = IF Count("FAILED") = 0 THEN WithCounts(Finished(runs[Len(runs)])) ELSE runs
  /\ command' = NoCommand
  /\ UNCHANGED <<jobData, listVars, current, processes, commands>>

NoItem == [job |-> CHOOSE j \in Jobs : TRUE, id |-> 0, status |-> "WAITING", tries |-> 0]
Resting == [pc |-> "idle", item |-> NoItem, counter |-> 0, seen |-> <<>>]

\* The command dies; the recovery process of a run with it, or not: then it
\* goes on, and the next run has one more.
KillCommand ==
  /\ ~Does("none")
  /\ commands < MaxOrders
  /\ command' = NoCommand
  /\ commands' = commands + 1
  /\ UNCHANGED <<tables, listVars, current>>
  /\ \/ UNCHANGED processes
     \/ /\ ~NothingToDo(current)
        /\ stopped' = IF writer[current].pc = "insert"
                      THEN stopped \cup {writer[current].item.job} ELSE stopped
        /\ writer' = [writer EXCEPT ![current] = Resting]
        /\ queue' = [queue EXCEPT ![current] = <<>>]
        /\ threads' = {t \in threads : t.of # current}
        /\ UNCHANGED <<logged, missed>>

-----------------------------------------------------------------------------
(* The recovery process: Job.write_stats.                                  *)

Writes(w, pc) == writer[w].pc = pc
Moves(w, pc) == writer' = [writer EXCEPT ![w].pc = pc]
Sees(w, pc, f) == writer' = [writer EXCEPT ![w].pc = pc, ![w].seen = f]
Others == <<listVars, command, current, commands>>

TakeJob(w) ==
  /\ Writes(w, "idle")
  /\ queue[w] # <<>>
  /\ writer' = [writer EXCEPT ![w].pc = "submit", ![w].item = Head(queue[w])]
  /\ queue' = [queue EXCEPT ![w] = Tail(@)]
  /\ UNCHANGED <<tables, threads, logged, ghosts, Others>>

\* The processes that register a row of a job, between the two statements.
Registering(j) == {w \in 1..Writers : /\ writer[w].pc \in {"clear", "insert"}
                                      /\ writer[w].item.job = j}

\* The attempts that may be left without a row when w begins to register its own:
\* there is no run; the row before was not replaced, and one that is older may have
\* become the last again; or another process registers one of the same job at the
\* same time, and both have the same counter.
Unregistered(w) ==
  LET j == writer[w].item.job IN
  IF runs = <<>> \/ j \in stopped THEN {<<j, writer[w].item.id>>}
  ELSE IF Registering(j) = {} THEN {}
  ELSE {<<j, writer[v].item.id>> : v \in Registering(j) \cup {w}}

\* write_submit_time: the counter and the run (without a run nothing is
\* registered); register_submitted_job_data_dc: the last rows of the job are
\* read,
ReadLastRows(w) ==
  LET j == writer[w].item.job
      zeroed == [key \in {<<j, k>> : k \in FoundLast(j)} |->
                   [jobData[j][key[2]] EXCEPT !.last = FALSE]]
  IN /\ Writes(w, "submit")
     /\ missed' = missed \cup Unregistered(w)
     /\ IF runs = <<>>
        THEN Moves(w, "start")
        ELSE writer' = [writer EXCEPT ![w].pc = "clear", ![w].seen = zeroed,
                                      ![w].counter = NextCounter(j)]
     /\ UNCHANGED <<tables, queue, threads, logged, stopped, Others>>

\* ... written back with last=0,
ClearLast(w) ==
  /\ Writes(w, "clear")
  /\ jobData' = Updated(writer[w].seen)
  /\ Sees(w, "insert", <<>>)
  /\ UNCHANGED <<runs, queue, threads, logged, ghosts, Others>>

\* For a mutant: a new row is not yet the last.
NewRowNotLast(w) ==
  [counter |-> writer[w].counter, id |-> writer[w].item.id, start |-> FALSE,
   finish |-> FALSE, status |-> writer[w].item.status, last |-> FALSE]

\* ... and the new row inserted, unless its counter is taken.
NewRow(w) ==
  [counter |-> writer[w].counter, id |-> writer[w].item.id, start |-> FALSE,
   finish |-> FALSE, status |-> writer[w].item.status, last |-> TRUE]

InsertRow(w) ==
  LET j == writer[w].item.job
  IN /\ Writes(w, "insert")
     /\ IF Accepts(j, writer[w].counter)
        THEN /\ jobData' = [jobData EXCEPT ![j] = Append(@, NewRow(w))]
             /\ stopped' = stopped \ {j}
        ELSE UNCHANGED <<jobData, stopped>>
     /\ Moves(w, "start")
     /\ UNCHANGED <<runs, queue, threads, logged, missed, Others>>

\* The newest row with the id of the job, to be written with f applied to it;
\* none is an error that is logged.
RowOf(item, f(_)) ==
  LET S == WithId(item.job, item.id)
      k == Newest(item.job, S)
  IN IF S = {} THEN <<>>
     ELSE One(item.job, k, f([jobData[item.job][k] EXCEPT !.status = item.status]))

WriteStart(w) ==
  /\ Writes(w, "start")
  /\ Sees(w, "started", RowOf(writer[w].item, LAMBDA row : [row EXCEPT !.start = TRUE]))
  /\ UNCHANGED <<tables, queue, threads, logged, ghosts, Others>>

UpdateStart(w) ==
  /\ Writes(w, "started")
  /\ jobData' = Updated(writer[w].seen)
  /\ Sees(w, "finish", <<>>)
  /\ UNCHANGED <<runs, queue, threads, logged, ghosts, Others>>

WriteFinish(w) ==
  /\ Writes(w, "finish")
  /\ Sees(w, "finished", RowOf(writer[w].item, LAMBDA row : [row EXCEPT !.finish = TRUE]))
  /\ UNCHANGED <<tables, queue, threads, logged, ghosts, Others>>

\* update_job_data_dc_by_job_id_name returns the row as it is after the write.
Reread(w, key) == writer[w].seen[key]

\* The row is written and read again, for the thread; then the next attempt
\* inside the wrapper, or the next job.
UpdateFinish(w) ==
  LET item == writer[w].item
      seen == writer[w].seen
  IN /\ Writes(w, "finished")
     /\ jobData' = Updated(seen)
     /\ threads' =
          IF ~Slurm THEN threads
          ELSE threads \cup {[of |-> w, key |-> key, row |-> Reread(w, key), asked |-> FALSE,
                              todo |-> <<>>] : key \in DOMAIN seen}
     /\ IF item.tries > 1
        THEN /\ writer' = [writer EXCEPT ![w].pc = "submit", ![w].item.tries = @ - 1,
                                         ![w].seen = <<>>]
             /\ UNCHANGED logged
        ELSE /\ writer' = [writer EXCEPT ![w] = Resting]
             /\ logged' = logged \cup {<<item.job, item.id>>}
     /\ UNCHANGED <<runs, queue, ghosts, Others>>

-----------------------------------------------------------------------------
(* write_platform_data_after_finish, a thread per attempt.                 *)

\* get_job_data_dcs_last_by_wrapper_code, those COMPLETED
WrapperRows ==
  {key \in UNION {{<<j, k>> : k \in LastRows(j)} : j \in Wrapped} :
     jobData[key[1]][key[2]].status = "COMPLETED"}

\* The strategies: besides the row of the job, those of its wrapper, or (a job
\* on its own, numbers of steps that fit no strategy, an error) none.
Distributions(t) == {{}, IF t.key[1] \in Wrapped THEN WrapperRows ELSE {}}

\* check_job_energy: without an answer that can be read the thread ends.
AskEnergy(t) ==
  /\ t \in threads /\ ~t.asked
  /\ \/ threads' = threads \ {t}
     \/ \E S \in Distributions(t) :
          threads' = (threads \ {t}) \cup
            {[t EXCEPT !.asked = TRUE, !.todo = [key \in S |-> jobData[key[1]][key[2]]]]}
  /\ UNCHANGED <<tables, queue, writer, logged, ghosts, Others>>

\* update_list_job_data_dc_by_each_id: the row of the job comes last.
UpdateRow(t) ==
  /\ t \in threads /\ t.asked
  /\ \/ \E key \in DOMAIN t.todo :
          /\ jobData' = Updated(One(key[1], key[2], t.todo[key]))
          /\ threads' = (threads \ {t}) \cup
               {[t EXCEPT !.todo = [other \in DOMAIN t.todo \ {key} |-> t.todo[other]]]}
     \/ /\ DOMAIN t.todo = {}
        /\ jobData' = Updated(One(t.key[1], t.key[2], t.row))
        /\ threads' = threads \ {t}
  /\ UNCHANGED <<runs, queue, writer, logged, ghosts, Others>>

-----------------------------------------------------------------------------
HistoryInit ==
  /\ setting \in Settings
  /\ list = [j \in Jobs |-> "WAITING"]
  /\ id = [j \in Jobs |-> 0]
  /\ ids = MadeUpId
  /\ jobData = [j \in Jobs |-> <<>>]
  /\ runs = <<>>
  /\ command = Begin("create")
  /\ current = 1
  /\ queue = [w \in 1..Writers |-> <<>>]
  /\ writer = [w \in 1..Writers |-> Resting]
  /\ threads = {}
  /\ commands = 0
  /\ logged = {}
  /\ behind = TRUE
  /\ stopped = {} /\ missed = {}

CommandSteps ==
  \/ Create
  \/ \E j \in Jobs, status \in UserStatuses : SetStatus(j, status)
  \/ Recovery
  \/ \E w \in 1..Writers : Run(w)
  \/ KillCommand

StatusChanges ==
  \/ ReadChanges
  \/ ChangeStatuses
  \/ CountRun
  \/ FinishRun
  \/ InsertRun

Loop ==
  \/ \E j \in Jobs : Submit(j)
  \/ \E j \in Jobs, status \in Final : \E tries \in Tries(j) : Ends(j, status, tries)
  \/ \E j \in Jobs : Retry(j)
  \/ Totals
  \/ EndRun
  \/ EndFinished

WriteStats(w) ==
  \/ TakeJob(w)
  \/ ReadLastRows(w)
  \/ ClearLast(w)
  \/ InsertRow(w)
  \/ WriteStart(w)
  \/ UpdateStart(w)
  \/ WriteFinish(w)
  \/ UpdateFinish(w)

HistoryNext ==
  /\ \/ CommandSteps
     \/ StatusChanges
     \/ Loop
     \/ \E w \in 1..Writers : WriteStats(w)
     \/ \E t \in threads : AskEnergy(t)
     \/ \E t \in threads : UpdateRow(t)
  /\ UNCHANGED setting

HistorySpec == HistoryInit /\ [][HistoryNext]_historyVars

-----------------------------------------------------------------------------
(* Properties.                                                             *)

\* The values the tables, the list and the processes may have: between two
\* items a process holds nothing, a thread holds rows that are there.
HistoryTypeOK ==
  /\ setting \in Settings
  /\ list \in [Jobs -> Statuses]
  /\ id \in [Jobs -> 0..ids] /\ ids \in MadeUpId..(MaxAttempts + MadeUpId)
  /\ \A j \in Jobs : jobData[j] \in Seq(JobDataRows)
  /\ runs \in Seq(RunRows)
  /\ command.name \in {"none", "create", "setstatus", "run", "loop", "end"}
  /\ command.step \in {"", "read", "change", "finish", "insert", "count", "finished"}
  /\ Does("none") => command = NoCommand
  /\ current \in 1..Writers
  /\ \A w \in 1..Writers :
       /\ writer[w].item.job \in Jobs
       /\ writer[w].pc = "idle" => writer[w] = Resting
       /\ \A key \in DOMAIN writer[w].seen :
            key[2] \in DOMAIN jobData[key[1]] /\ writer[w].seen[key] \in JobDataRows
  /\ \A t \in threads :
       /\ t.of \in 1..Writers /\ t.row \in JobDataRows
       /\ \A key \in DOMAIN t.todo \cup {t.key} : key[2] \in DOMAIN jobData[key[1]]
  /\ logged \subseteq Jobs \X (0..ids)
  /\ commands \in 0..MaxOrders
  /\ behind \in BOOLEAN /\ stopped \subseteq Jobs /\ missed \subseteq Jobs \X (0..ids)

Writing(j) == \E w \in 1..Writers : writer[w].pc = "insert" /\ writer[w].item.job = j

\* What recovery --offline takes for the last attempt of a job, the row with
\* last=1 and the highest counter, is its last attempt, whatever processes and
\* threads write back rows they read before it was inserted; but not between the
\* two statements that replace it, nor when a process was killed there.
NewestIsLast ==
  \A j \in Jobs \ stopped :
    (jobData[j] # <<>> /\ ~Writing(j)) =>
      /\ LastRows(j) # {}
      /\ Newest(j, LastRows(j)) = Newest(j, DOMAIN jobData[j])

\* Where every write is of the process or of the command that did the read before:
\* no thread, and no process of a killed run beside that of the next one.
OneWriter == ~Slurm /\ Writers = 1

\* There, no row of an earlier attempt is ever the last again beside the newest.
OneLastRow == \A j \in Jobs : OneWriter => Cardinality(LastRows(j)) <= 1

\* Nothing overwrites the end of an attempt: but a thread that writes the rows of
\* the other jobs of the wrapper back, and a process beside another.
EndsKept(j) == Writers = 1 /\ (~Slurm \/ j \notin Wrapped)

\* Every submission, and not only the last of a job, whose logs are taken for
\* recovered has a row in the history, with its end where EndsKept says so; but for
\* those of Unregistered and FlaggedTooSoon: one process alone never computes a
\* counter that is taken, and never writes into the row of another attempt.
NoAttemptLost ==
  \A attempt \in logged \ missed :
    LET rows == WithId(attempt[1], attempt[2])
    IN /\ rows # {}
       /\ EndsKept(attempt[1]) => \E k \in rows : jobData[attempt[1]][k].finish

\* handle_start_after: what an experiment that waits for this one waits for.
Triggers ==
  /\ runs # <<>>
  /\ LET run == runs[Len(runs)]
     IN run.finish /\ run.total > 0 /\ run.total = run.completed + run.suspended

\* An experiment that waits for this one starts only when every job is over,
\* whatever the order of the statements that count jobs, finish a run and
\* begin another; unless the list was changed by a command that had no time,
\* or (recovery) no intention, to count.
OthersStartAfterEnd ==
  Triggers => (behind \/ \A j \in Jobs : list[j] \in {"COMPLETED", "SUSPENDED"})

\* No attempt at a job is lost or hidden by another: the recovery process, the
\* run and setstatus write rows of the same job without knowing of each other.
AttemptsKept == NewestIsLast /\ OneLastRow /\ NoAttemptLost
==============================================================================
