------------------------------ MODULE Commands ------------------------------
(***************************************************************************)
(* The commands that change the saved job list of one experiment, run by   *)
(* processes of their own: run, create, setstatus, recovery, stop --cancel *)
(* and pklfix, with the lock of the experiment, the file or the row the    *)
(* list is saved in, and the jobs they leave in or take from the scheduler.*)
(*                                                                         *)
(* Code: Autosubmit.create, set_status, change_status, recovery, stop,     *)
(* pkl_fix, run_experiment (autosubmit/autosubmit.py); cancel_jobs         *)
(* (job/job_utils.py); JobList.generate, load, save, update_from_file,     *)
(* recover_last_data (job/job_list.py); job/job_list_persistence.py.       *)
(*                                                                         *)
(* The iteration of `run' is in JobList with its faults; here it is coarse,*)
(* without start conditions, synchronised jobs, delays and skipping.       *)
(***************************************************************************)
EXTENDS JobStatus, FiniteSets, Sequences

CONSTANTS
  Jobs,        \* the jobs of the workflow
  Parents,     \* Job._parents: [Jobs -> SUBSET Jobs]
  Retrials,    \* RETRIALS
  Ids,         \* the ids the scheduler can hand out (bounds the submissions)
  NoId,        \* Job.id is None
  DummyId,     \* the id recover_last_data gives to jobs that have none
  Procs,       \* processes: commands that can be under way at a time
  NoProc,      \* nobody holds the lock
  Unlinked,    \* no pkl file: create -f removed it
  NoRow,       \* the row was deleted and not inserted yet
  Partial,     \* a file that is not completely written
  Empty,       \* a file of at most 6 bytes
  Absent,      \* no such file
  NoList,      \* nothing that can be loaded
  NoEdit,      \* no updated_list file
  Requests,    \* commands the users give, with their arguments
  Edits,       \* <<job, status>>: lines the users write in updated_list
  Settings,    \* how the list is kept: [backend, order, backup]
  MaxCommands, \* commands and edits of the users (bound)
  MaxFaults    \* kills and lost cancel commands (bound)

ASSUME JobsAssumption ==
  /\ IsFiniteSet(Jobs)
  /\ Parents \in [Jobs -> SUBSET Jobs]
  /\ Retrials \in Nat

ASSUME IdsAssumption ==
  /\ NoId \notin Ids /\ DummyId \notin Ids /\ NoId # DummyId
  /\ NoProc \notin Procs

ASSUME BoundsAssumption == MaxCommands \in Nat /\ MaxFaults \in Nat

VARIABLES
  setting,  \* the persistence of this experiment
  holder,   \* who holds tmp/autosubmit.lock
  list,     \* the saved list: job_list_<expid>.pkl, or its row
  tmp,      \* job_list_<expid>.pkl.tmp
  backup,   \* job_list_<expid>_backup.pkl
  upd,      \* updated_list_<expid>.txt
  pc,       \* where each process is
  cmd,      \* the command it executes
  mem,      \* the list in its memory
  after,    \* where it goes on once the list is saved
  todo,     \* jobs it still has to change or to cancel
  reach,    \* the platform answers it
  found,    \* names of COMPLETED jobs the recovery got
  exit,     \* Autosubmit.exit
  stale,    \* processes whose list was loaded before another one saved
  owner, state,  \* scheduler: the job of each id, and its state
  file,     \* jobs with a _COMPLETED file on the platform
  logged,   \* history: the id in the last row of each job
  missed,   \* ids a cancel command was sent for that never arrived
  asked, faults

diskVars == <<list, tmp, backup, upd>>
localVars == <<cmd, mem, after, todo, reach, found, exit>>
remoteVars == <<owner, state, file, missed>>
vars == <<setting, holder, diskVars, pc, localVars, stale, remoteVars, logged,
          asked, faults>>

Lists ==
  [status : [Jobs -> Status], id : [Jobs -> Ids \cup {NoId, DummyId}],
   fails : [Jobs -> 0..Retrials]]

ASSUME MarksAssumption ==
  \A mark \in {Unlinked, NoRow, Partial, Empty, Absent, NoList} : mark \notin Lists

LiveStates == {"Q", "R", "H"}   \* queuing, running, held by scontrol
States == LiveStates \cup {"S", "F", "K", "-"}

InQueue(m) == {j \in Jobs : m.status[j] \in InQueueStatus}
Ready(m) == {j \in Jobs : m.status[j] = "READY"}
Active(m) == {j \in Jobs : m.status[j] \in ActiveStatus}

CommandNames == {"run", "create", "setstatus", "recovery", "stop", "pklfix"}

Commands ==
  [name : CommandNames, jobs : SUBSET Jobs, target : Status,
   opts : SUBSET {"save", "all", "force", "offline", "cancel"}]

\* Commands whose body is inside `with Lock(...autosubmit.lock)'.
Unlocked == {"recovery", "stop"}

\* No experiment begins with an empty backup file: pklfix would take it for a list.
Installation ==
  /\ \A s \in Settings : s.backend = "pkl" => s.backup \in Lists \cup {Absent}
  /\ \A s \in Settings : s.backup \in Lists \cup {Absent, Empty}
  /\ Requests \subseteq Commands
  /\ Edits \subseteq Jobs \X Status

\* The sections of the configuration, and with them the jobs of the list, are written in
\* an order in which nothing comes before what it depends on: "we are assuming that the
\* jobs are sorted in topological order (which is the default)", job_list.py:109.
ParentsFirst ==
  \A s \in Settings :
    /\ s.order \in Seq(Jobs)
    /\ \A j \in Jobs : \E k \in 1..Len(s.order) : s.order[k] = j
    /\ \A k, l \in 1..Len(s.order) : s.order[k] \in Parents[s.order[l]] => k < l

-----------------------------------------------------------------------------
(* The job list.                                                           *)

\* What JobList.load returns: the list or, when it cannot be read, the
\* backup.  The loader of rows looks for the same row again.
Loadable ==
  CASE list \in Lists -> list
    [] setting.backend = "pkl" /\ list \notin Lists /\ backup \in Lists -> backup
    [] OTHER -> NoList

\* Job.__init__ with loaded_data.
Loaded(l) ==
  [l EXCEPT !.status = [j \in Jobs |->
     IF l.status[j] \in VolatileStatus THEN "WAITING" ELSE l.status[j]]]

\* JobList.update_from_file.
Edited(m) ==
  IF upd = NoEdit THEN m
  ELSE [m EXCEPT !.status[upd[1]] = upd[2], !.fails[upd[1]] = 0]

Retries(m, j) == m.status[j] = "FAILED" /\ m.fails[j] < Retrials

\* FAILED jobs with retrials left are READY again, or wait for their parents.
Retried(m) ==
  LET again == {j \in Jobs : Retries(m, j)}
      now == {j \in again : \A p \in Parents[j] : m.status[p] = "COMPLETED"}
  IN [status |-> [j \in Jobs |-> IF j \in now THEN "READY"
                                 ELSE IF j \in again THEN "WAITING"
                                 ELSE m.status[j]],
      id |-> [j \in Jobs |-> IF j \in now THEN NoId ELSE m.id[j]],
      fails |-> [j \in Jobs |-> IF j \in again THEN m.fails[j] + 1 ELSE m.fails[j]]]

ForgetFails(m) ==
  [m EXCEPT !.fails = [j \in Jobs |->
     IF m.status[j] \in {"WAITING"} \cup VolatileStatus THEN 0 ELSE m.fails[j]]]

Released(m) ==
  [m EXCEPT !.status = [j \in Jobs |->
     IF m.status[j] = "WAITING" /\ \A p \in Parents[j] : m.status[p] \in DoneStatus
     THEN "READY" ELSE m.status[j]]]

\* JobList.update_list: with first_time, from setstatus, and otherwise.
FirstUpdate(m) == Released(ForgetFails(Edited(m)))
SetStatusUpdate(m) == Retried(Edited(m))
Update(m) == Released(Retried(Edited(m)))

\* The file is renamed unless store_change is False.
TakeEdit == upd' = NoEdit

\* JobList.generate for `create': every job starts again, under its old id.
Generated(l) ==
  [status |-> [j \in Jobs |-> IF Parents[j] = {} THEN "READY" ELSE "WAITING"],
   id |-> IF l = NoList THEN [j \in Jobs |-> NoId] ELSE l.id,
   fails |-> [j \in Jobs |-> 0]]

\* JobList.recover_last_data for the jobs of the set S.
WithLastIds(m, S) ==
  [m EXCEPT !.id = [j \in Jobs |->
     IF j \notin S THEN m.id[j]
     ELSE IF logged[j] # NoId THEN logged[j]
     ELSE IF m.id[j] = NoId THEN DummyId ELSE m.id[j]]]

CheckedForReady(m) ==
  [m EXCEPT !.status = [j \in Jobs |->
     IF m.status[j] = "COMPLETED" /\ \E p \in Parents[j] : m.status[p] = "READY"
     THEN "WAITING" ELSE m.status[j]]]

\* JobList.check_completed_jobs_after_recovery: one pass over the list.
TakenBack(m) ==
  LET upTo[k \in 0..Len(setting.order)] ==
        IF k = 0 THEN {}
        ELSE LET j == setting.order[k]
             IN upTo[k - 1] \cup
                  {i \in {j} : /\ m.status[i] = "COMPLETED"
                              /\ \E p \in Parents[i] : m.status[p] = "WAITING" \/ p \in upTo[k - 1]}
  IN upTo[Len(setting.order)]

WithoutThem(m, back) ==
  [m EXCEPT !.status = [j \in Jobs |-> IF j \in back THEN "WAITING" ELSE m.status[j]],
            !.id = [j \in Jobs |-> IF j \in back THEN NoId ELSE m.id[j]]]

Checked(m) == WithoutThem(m, TakenBack(m))

-----------------------------------------------------------------------------
(* Processes, the lock, and saving.                                        *)

Blank == [status |-> [j \in Jobs |-> "WAITING"], id |-> [j \in Jobs |-> NoId],
          fails |-> [j \in Jobs |-> 0]]

Idle == [name |-> "pklfix", jobs |-> {}, target |-> "WAITING", opts |-> {}]

Init ==
  /\ setting \in Settings
  /\ holder = NoProc
  /\ list = Generated(NoList)
  /\ tmp = Absent
  /\ backup = setting.backup
  /\ upd \in Edits \cup {NoEdit}
  /\ pc = [p \in Procs |-> "idle"]
  /\ cmd = [p \in Procs |-> Idle]
  /\ mem = [p \in Procs |-> Blank]
  /\ after = [p \in Procs |-> "idle"]
  /\ todo = [p \in Procs |-> {}]
  /\ reach = [p \in Procs |-> TRUE]
  /\ found = [p \in Procs |-> {}]
  /\ exit = [p \in Procs |-> FALSE]
  /\ stale = {}
  /\ owner = [i \in Ids |-> NoId]
  /\ state = [i \in Ids |-> "-"]
  /\ file = {}
  /\ logged = [j \in Jobs |-> NoId]
  /\ missed = {}
  /\ asked = 0
  /\ faults = 0

Go(p, point) == pc' = [pc EXCEPT ![p] = point]

\* The end of process p, clean or not: the lock goes with it.
End(p) ==
  /\ pc' = [pc EXCEPT ![p] = "idle"]
  /\ cmd' = [cmd EXCEPT ![p] = Idle]
  /\ mem' = [mem EXCEPT ![p] = Blank]
  /\ after' = [after EXCEPT ![p] = "idle"]
  /\ todo' = [todo EXCEPT ![p] = {}]
  /\ reach' = [reach EXCEPT ![p] = TRUE]
  /\ found' = [found EXCEPT ![p] = {}]
  /\ exit' = [exit EXCEPT ![p] = FALSE]
  /\ stale' = stale \ {p}
  /\ holder' = IF holder = p THEN NoProc ELSE holder

Running(p) == pc[p] # "idle" /\ cmd[p].name = "run"

\* What the documentation asks of the users: recovery is for an experiment
\* that does not run, and nothing else is started until it or stop has ended.  The
\* run stop -f kills is the first process_id finds: it has to be the only one.
Careful(c) ==
  /\ \A p \in Procs : pc[p] # "idle" =>
       /\ cmd[p].name \notin Unlocked
       /\ c.name # "recovery"
       /\ c.name = "stop" => cmd[p].name = "run"
  /\ c.name = "stop" /\ "force" \in c.opts =>
       \A p, q \in Procs : pc[p] # "idle" /\ pc[q] # "idle" => p = q

Start(p, c) ==
  /\ pc[p] = "idle"
  /\ asked < MaxCommands
  /\ Careful(c)
  /\ asked' = asked + 1
  /\ cmd' = [cmd EXCEPT ![p] = c]
  /\ Go(p, IF c.name \in Unlocked THEN "begin" ELSE "lock")
  /\ UNCHANGED <<setting, holder, diskVars, mem, after, todo, reach, found, exit,
                 stale, remoteVars, logged, faults>>

\* Lock(..., timeout=1): taken, or the command ends with LockException.
Acquire(p) ==
  /\ pc[p] = "lock"
  /\ holder = NoProc
  /\ holder' = p
  /\ Go(p, "begin")
  /\ UNCHANGED <<setting, diskVars, localVars, stale, remoteVars, logged, asked, faults>>

Refused(p) ==
  /\ pc[p] = "lock"
  /\ holder # NoProc
  /\ End(p)
  /\ UNCHANGED <<setting, diskVars, remoteVars, logged, asked, faults>>

\* p has read the list and holds l; the next save is p's to make.
Holds(p, l) ==
  /\ mem' = [mem EXCEPT ![p] = l]
  /\ stale' = stale \ {p}

CannotLoad(p) ==
  /\ pc[p] = "begin"
  /\ cmd[p].name \in {"run", "setstatus", "recovery"}
  /\ Loadable = NoList
  /\ End(p)
  /\ UNCHANGED <<setting, diskVars, remoteVars, logged, asked, faults>>

\* The list is saved next, and p then goes on at `next'.
Saving(p, next) ==
  /\ Go(p, "save")
  /\ after' = [after EXCEPT ![p] = next]

BeginSaveInPlace(p) ==
  /\ pc[p] = "save"
  /\ Go(p, "writing")
  /\ list' = IF setting.backend = "pkl" THEN Partial ELSE NoRow
  /\ UNCHANGED <<setting, holder, tmp, backup, upd, localVars, stale, remoteVars, logged,
                 asked, faults>>

\* The pickle is written to a file of its own; the row is deleted.
BeginSave(p) ==
  /\ pc[p] = "save"
  /\ Go(p, "writing")
  /\ IF setting.backend = "pkl"
     THEN tmp' = Partial /\ UNCHANGED list
     ELSE list' = NoRow /\ UNCHANGED tmp
  /\ UNCHANGED <<setting, holder, backup, upd, localVars, stale, remoteVars, logged,
                 asked, faults>>

\* os.replace, or the insertion of the row.
EndSave(p) ==
  /\ pc[p] = "writing"
  /\ list' = mem[p]
  /\ tmp' = Absent
  /\ stale' = stale \cup {q \in Procs \ {p} : pc[q] \notin {"idle", "lock", "begin"}}
  /\ Go(p, after[p])
  /\ UNCHANGED <<setting, holder, backup, upd, localVars, remoteVars, logged, asked, faults>>

Leave(p) ==
  /\ pc[p] = "exit"
  /\ End(p)
  /\ UNCHANGED <<setting, diskVars, remoteVars, logged, asked, faults>>

\* SIGKILL, a second Ctrl-C, the machine: at any point.
Kill(p) ==
  /\ pc[p] # "idle"
  /\ faults < MaxFaults
  /\ faults' = faults + 1
  /\ End(p)
  /\ UNCHANGED <<setting, diskVars, remoteVars, logged, asked>>

-----------------------------------------------------------------------------
(* run                                                                     *)

\* prepare_run.
RunBegins(p) ==
  /\ pc[p] = "begin" /\ cmd[p].name = "run"
  /\ Loadable # NoList
  /\ Holds(p, FirstUpdate(Loaded(Loadable)))
  /\ TakeEdit
  /\ Saving(p, "head")
  /\ UNCHANGED <<setting, holder, list, tmp, backup, cmd, todo, reach, found, exit,
                 remoteVars, logged, asked, faults>>

\* What the poll makes of a job that is in the queue.
Polled(m, j) ==
  CASE state[m.id[j]] = "Q" -> "QUEUING"
    [] state[m.id[j]] = "H" -> "HELD"
    [] state[m.id[j]] = "R" -> "RUNNING"
    [] state[m.id[j]] \notin LiveStates /\ j \in file -> "COMPLETED"
    [] OTHER -> "FAILED"

Poll(m) ==
  [m EXCEPT !.status = [j \in Jobs |->
     IF j \in InQueue(m) THEN IF m.id[j] \in Ids THEN Polled(m, j) ELSE "FAILED"
     ELSE m.status[j]]]

\* Poll, update and save; the logs of some of the jobs that ended are fetched
\* and their attempts recorded.
Iteration(p) ==
  /\ pc[p] = "head"
  /\ Active(mem[p]) # {}
  /\ ~exit[p]
  /\ LET polled == Poll(mem[p])
         ended == {j \in InQueue(mem[p]) : /\ polled.status[j] \in {"COMPLETED", "FAILED"}
                                           /\ mem[p].id[j] \in Ids}
     IN /\ mem' = [mem EXCEPT ![p] = Update(polled)]
        /\ \E S \in SUBSET ended :
             logged' = [j \in Jobs |-> IF j \in S THEN mem[p].id[j] ELSE logged[j]]
  /\ Saving(p, IF Ready(mem'[p]) = {} THEN "turn" ELSE "submit")
  /\ TakeEdit
  /\ UNCHANGED <<setting, holder, list, tmp, backup, cmd, todo, reach, found, exit,
                 stale, remoteVars, asked, faults>>

Submit(p, j, i) ==
  /\ pc[p] = "submit"
  /\ mem[p].status[j] = "READY"
  /\ state[i] = "-"
  /\ owner' = [owner EXCEPT ![i] = j]
  /\ state' = [state EXCEPT ![i] = "Q"]
  /\ file' = file \ {j}
  /\ mem' = [mem EXCEPT ![p].status[j] = "SUBMITTED", ![p].id[j] = i]
  /\ UNCHANGED <<setting, holder, diskVars, pc, cmd, after, todo, reach, found, exit,
                 stale, missed, logged, asked, faults>>

Submitted(p) ==
  /\ pc[p] = "submit"
  /\ Ready(mem[p]) = {}
  /\ mem' = [mem EXCEPT ![p] = Update(mem[p])]
  /\ TakeEdit
  /\ Saving(p, "turn")
  /\ UNCHANGED <<setting, holder, list, tmp, backup, cmd, todo, reach, found, exit,
                 stale, remoteVars, logged, asked, faults>>

\* The end of an iteration: saved once more when the run is to stop.
Turn(p) ==
  /\ pc[p] = "turn"
  /\ IF exit[p] THEN Saving(p, "head") ELSE Go(p, "head") /\ UNCHANGED after
  /\ UNCHANGED <<setting, holder, diskVars, cmd, mem, todo, reach, found, exit, stale,
                 remoteVars, logged, asked, faults>>

RunEnds(p) ==
  /\ pc[p] = "head"
  /\ \/ Active(mem[p]) = {} /\ Saving(p, "exit")
     \/ Active(mem[p]) # {} /\ exit[p] /\ Go(p, "exit") /\ UNCHANGED after
  /\ UNCHANGED <<setting, holder, diskVars, cmd, mem, todo, reach, found, exit, stale,
                 remoteVars, logged, asked, faults>>

-----------------------------------------------------------------------------
(* create, setstatus, pklfix                                               *)

\* create -f removes the files first.
RemoveList(p) ==
  /\ pc[p] = "begin" /\ cmd[p].name = "create"
  /\ "force" \in cmd[p].opts /\ setting.backend = "pkl"
  /\ list \in Lists \cup {Empty} \/ backup # Absent
  /\ list' = Unlinked
  /\ backup' = Absent
  /\ UNCHANGED <<setting, holder, tmp, upd, pc, localVars, stale, remoteVars, logged,
                 asked, faults>>

Create(p) ==
  /\ pc[p] = "begin" /\ cmd[p].name = "create"
  /\ "force" \in cmd[p].opts /\ setting.backend = "pkl" =>
       list \notin Lists \cup {Empty} /\ backup = Absent
  /\ Holds(p, Generated(Loadable))
  /\ Saving(p, "exit")
  /\ UNCHANGED <<setting, holder, diskVars, cmd, todo, reach, found, exit, remoteVars,
                 logged, asked, faults>>

\* The platforms of the jobs that are in the queue are tried.
SetStatusBegins(p) ==
  /\ pc[p] = "begin" /\ cmd[p].name = "setstatus"
  /\ Loadable # NoList
  /\ Holds(p, Loaded(Loadable))
  /\ \E r \in BOOLEAN : reach' = [reach EXCEPT ![p] = r]
  /\ todo' = [todo EXCEPT ![p] = cmd[p].jobs]
  /\ Go(p, "change")
  /\ UNCHANGED <<setting, holder, diskVars, cmd, after, found, exit, remoteVars, logged,
                 asked, faults>>

CancelsQueuing(old, new) ==
  old \in {"QUEUING", "HELD"} /\ new \notin {"QUEUING", "HELD", "SUSPENDED"}

\* The three commands of change_status.
Cancels(old, new) ==
  old \in {"SUBMITTED", "QUEUING", "HELD"} /\ new \notin {"QUEUING", "HELD", "SUSPENDED"}

Suspends(old, new) ==
  old \in {"QUEUING", "RUNNING", "SUBMITTED"} /\ new = "SUSPENDED"

Resumes(old, new) ==
  old = "SUSPENDED" /\ new \in {"QUEUING", "RUNNING"}

\* scancel, scontrol hold and scontrol release.
Moved(i, from, to) ==
  IF i \in Ids /\ state[i] \in from THEN [state EXCEPT ![i] = to] ELSE state

AfterCommand(i, old, new) ==
  IF Cancels(old, new) THEN Moved(i, LiveStates, "K")
  ELSE IF Suspends(old, new) THEN Moved(i, {"Q"}, "H")
  ELSE IF Resumes(old, new) THEN Moved(i, {"H"}, "Q")
  ELSE state

\* One job of final_list.  A command that fails ends setstatus.
Change(p, j) ==
  LET m == mem[p]
      old == m.status[j]
      new == cmd[p].target
      skipped == old \in {"QUEUING", "RUNNING", "SUBMITTED"} /\ ~reach[p]
      reset == new \in {"WAITING", "PREPARED", "DELAYED", "READY"} \/
               (~skipped /\ old = "FAILED" /\ old # new)
      sends == ~skipped /\ old # new /\
               (Cancels(old, new) \/ Suspends(old, new) \/ Resumes(old, new))
  IN
  /\ pc[p] = "change"
  /\ j \in todo[p]
  /\ \/ /\ mem' = [mem EXCEPT
                     ![p].fails[j] = IF reset THEN 0 ELSE @,
                     ![p].status[j] = IF skipped THEN @ ELSE new]
        /\ state' = IF sends THEN AfterCommand(m.id[j], old, new) ELSE state
        /\ todo' = [todo EXCEPT ![p] = @ \ {j}]
        /\ UNCHANGED <<holder, pc, cmd, after, reach, found, exit, stale>>
     \/ /\ sends
        /\ End(p)
        /\ UNCHANGED state
  /\ UNCHANGED <<setting, diskVars, owner, file, missed, logged, asked, faults>>

SetStatusEnds(p) ==
  /\ pc[p] = "change"
  /\ todo[p] = {}
  /\ mem' = [mem EXCEPT ![p] = WithLastIds(SetStatusUpdate(mem[p]), cmd[p].jobs)]
  /\ Saving(p, "exit")
  /\ UNCHANGED <<setting, holder, diskVars, cmd, todo, reach, found, exit, stale,
                 remoteVars, logged, asked, faults>>

\* pkl_fix: the message about an empty backup does not end it.  Without -f the
\* user is asked before a list that is not empty is replaced.
PklFix(p) ==
  /\ pc[p] = "begin" /\ cmd[p].name = "pklfix"
  /\ IF setting.backend = "pkl" /\ backup # Absent
        /\ (list \in {Empty, Unlinked} \/ "force" \in cmd[p].opts)
     THEN list' = backup /\ backup' = Absent
     ELSE UNCHANGED <<list, backup>>
  /\ End(p)
  /\ UNCHANGED <<setting, tmp, upd, remoteVars, logged, asked, faults>>

-----------------------------------------------------------------------------
(* recovery                                                                *)

Has(p, opt) == opt \in cmd[p].opts

\* load_job_list and online_recovery: names from the files on the platform or,
\* with --offline and no connection, from the history.
RecoveryBegins(p) ==
  /\ pc[p] = "begin" /\ cmd[p].name = "recovery"
  /\ Loadable # NoList
  /\ Holds(p, Loaded(Loadable))
  /\ \E r \in BOOLEAN :
       /\ r \/ Has(p, "offline")
       /\ reach' = [reach EXCEPT ![p] = r]
       /\ found' = [found EXCEPT ![p] =
            IF r THEN file
            ELSE {j \in Jobs : logged[j] \in Ids /\ state[logged[j]] = "S"}]
  /\ Go(p, "active")
  /\ UNCHANGED <<setting, holder, diskVars, cmd, after, todo, exit, remoteVars, logged,
                 asked, faults>>

NoConnection(p) ==
  /\ pc[p] = "begin" /\ cmd[p].name = "recovery"
  /\ ~Has(p, "offline")
  /\ End(p)
  /\ UNCHANGED <<setting, diskVars, remoteVars, logged, asked, faults>>

\* Jobs in the queue need -f and -s; they are cancelled unless --offline.
RecoveryActive(p) ==
  LET inQueue == InQueue(mem[p])
  IN
  /\ pc[p] = "active"
  /\ \/ /\ inQueue # {} /\ ~(Has(p, "force") /\ Has(p, "save"))
        /\ End(p)
     \/ /\ inQueue # {} => Has(p, "force") /\ Has(p, "save")
        /\ todo' = [todo EXCEPT ![p] =
             IF Has(p, "save") /\ reach[p] /\ ~Has(p, "offline") THEN inQueue ELSE {}]
        /\ Go(p, "cancel")
        /\ UNCHANGED <<holder, cmd, mem, after, reach, found, exit, stale>>
  /\ UNCHANGED <<setting, diskVars, remoteVars, logged, asked, faults>>

\* One cancel command of recovery or of stop; an error is only logged.
Cancel(p, j) ==
  /\ pc[p] = "cancel"
  /\ j \in todo[p]
  /\ \/ /\ state' = Moved(mem[p].id[j], LiveStates, "K")
        /\ UNCHANGED <<missed, faults>>
     \/ /\ faults < MaxFaults
        /\ faults' = faults + 1
        /\ missed' = missed \cup ({mem[p].id[j]} \cap Ids)
        /\ UNCHANGED state
  /\ todo' = [todo EXCEPT ![p] = @ \ {j}]
  /\ mem' = IF cmd[p].name = "stop"
            THEN [mem EXCEPT ![p].status[j] = cmd[p].target] ELSE mem
  /\ UNCHANGED <<setting, holder, diskVars, pc, cmd, after, reach, found, exit, stale,
                 owner, file, logged, asked>>

\* Statuses given by the recovery, to all jobs or to those in the queue.
Recovered(m, S, names) ==
  [m EXCEPT !.status = [j \in Jobs |->
              IF j \in S THEN IF j \in names THEN "COMPLETED"
                              ELSE IF m.status[j] = "SUSPENDED" THEN "SUSPENDED"
                              ELSE "WAITING"
              ELSE m.status[j]],
            !.fails = [j \in Jobs |->
              IF j \in S \ names /\ m.status[j] # "SUSPENDED" THEN 0 ELSE m.fails[j]]]

\* The updated_list file is taken whether the list is going to be saved or not.
Recover(p) ==
  LET S == IF Has(p, "all") THEN Jobs ELSE Active(mem[p])
      m == Update(Checked(Recovered(mem[p], S, found[p])))
      over == {j \in Jobs : m.status[j] \in {"COMPLETED", "FAILED", "SKIPPED"}}
  IN
  /\ pc[p] = "cancel" /\ cmd[p].name = "recovery"
  /\ todo[p] = {}
  /\ TakeEdit
  /\ IF Has(p, "save")
     THEN /\ mem' = [mem EXCEPT ![p] = WithLastIds(m, over)]
          /\ Saving(p, "exit")
     ELSE /\ mem' = [mem EXCEPT ![p] = m]
          /\ Go(p, "exit")
          /\ UNCHANGED after
  /\ UNCHANGED <<setting, holder, list, tmp, backup, cmd, todo, reach, found, exit,
                 stale, remoteVars, logged, asked, faults>>

-----------------------------------------------------------------------------
(* stop                                                                    *)

\* process_id finds no run.
NothingToStop(p) ==
  /\ pc[p] = "begin" /\ cmd[p].name = "stop"
  /\ \A r \in Procs : ~Running(r)
  /\ End(p)
  /\ UNCHANGED <<setting, diskVars, remoteVars, logged, asked, faults>>

\* SIGINT ends a run that has no handler yet, and sets Autosubmit.exit of the
\* others.
Interrupt(p, r) ==
  /\ pc[p] = "begin" /\ cmd[p].name = "stop" /\ ~Has(p, "force")
  /\ Running(r) /\ pc[r] \notin {"lock", "begin"}
  /\ exit' = [exit EXCEPT ![r] = TRUE]
  /\ Go(p, "wait")
  /\ UNCHANGED <<setting, holder, diskVars, cmd, mem, after, todo, reach, found, stale,
                 remoteVars, logged, asked, faults>>

\* SIGKILL, and SIGINT where there is no handler.
Terminate(p, r) ==
  /\ pc[p] = "begin" /\ cmd[p].name = "stop"
  /\ Running(r)
  /\ Has(p, "force") \/ pc[r] \in {"lock", "begin"}
  /\ pc' = [pc EXCEPT ![r] = "idle", ![p] = "wait"]
  /\ cmd' = [cmd EXCEPT ![r] = Idle]
  /\ mem' = [mem EXCEPT ![r] = Blank]
  /\ after' = [after EXCEPT ![r] = "idle"]
  /\ exit' = [exit EXCEPT ![r] = FALSE]
  /\ stale' = stale \ {r}
  /\ holder' = IF holder = r THEN NoProc ELSE holder
  /\ UNCHANGED <<setting, diskVars, todo, reach, found, remoteVars, logged, asked, faults>>

\* prepare_run, without the lock, once there is no run any more; or the end.
Stopped(p) ==
  /\ pc[p] = "wait"
  /\ Has(p, "force") \/ \A r \in Procs : ~Running(r)
  /\ \/ /\ Has(p, "cancel") /\ Loadable # NoList
        /\ Holds(p, FirstUpdate(Loaded(Loadable)))
        /\ TakeEdit
        /\ Saving(p, "select")
        /\ UNCHANGED <<holder, cmd, todo, reach, found, exit>>
     \/ /\ ~Has(p, "cancel") \/ Loadable = NoList
        /\ End(p)
        /\ UNCHANGED upd
  /\ UNCHANGED <<setting, list, tmp, backup, remoteVars, logged, asked, faults>>

\* The default of --filter_status.
Selected(m) == {j \in Jobs : m.status[j] \in {"SUBMITTED", "QUEUING", "RUNNING"}}

\* cancel_jobs.
Select(p) ==
  /\ pc[p] = "select"
  /\ IF Selected(mem[p]) = {}
     THEN Go(p, "exit") /\ UNCHANGED todo
     ELSE Go(p, "cancel") /\ todo' = [todo EXCEPT ![p] = Selected(mem[p])]
  /\ UNCHANGED <<setting, holder, diskVars, cmd, mem, after, reach, found, exit, stale,
                 remoteVars, logged, asked, faults>>

CancelJobsEnds(p) ==
  /\ pc[p] = "cancel" /\ cmd[p].name = "stop"
  /\ todo[p] = {}
  /\ Saving(p, "exit")
  /\ UNCHANGED <<setting, holder, diskVars, cmd, mem, todo, reach, found, exit, stale,
                 remoteVars, logged, asked, faults>>

-----------------------------------------------------------------------------
(* The users and the scheduler.                                            *)

\* A line is written in updated_list_<expid>.txt.
Edit(e) ==
  /\ upd = NoEdit
  /\ asked < MaxCommands
  /\ asked' = asked + 1
  /\ upd' = e
  /\ UNCHANGED <<setting, holder, list, tmp, backup, pc, localVars, stale, remoteVars,
                 logged, faults>>

JobStarts(i) ==
  /\ state[i] = "Q"
  /\ state' = [state EXCEPT ![i] = "R"]
  /\ UNCHANGED <<setting, holder, diskVars, pc, localVars, stale, owner, file, missed,
                 logged, asked, faults>>

JobEnds(i) ==
  /\ state[i] = "R"
  /\ \/ /\ state' = [state EXCEPT ![i] = "S"]
        /\ file' = file \cup {owner[i]}
     \/ state' = [state EXCEPT ![i] = "F"] /\ UNCHANGED file
  /\ UNCHANGED <<setting, holder, diskVars, pc, localVars, stale, owner, missed, logged,
                 asked, faults>>

-----------------------------------------------------------------------------
Locking(p) == Acquire(p) \/ Refused(p) \/ CannotLoad(p)

Saves(p) == BeginSave(p) \/ EndSave(p) \/ Leave(p)

Run(p) ==
  \/ RunBegins(p) \/ Iteration(p) \/ Submitted(p) \/ Turn(p) \/ RunEnds(p)
  \/ \E j \in Jobs, i \in Ids : Submit(p, j, i)

Locked(p) ==
  \/ RemoveList(p) \/ Create(p) \/ SetStatusBegins(p) \/ SetStatusEnds(p) \/ PklFix(p)
  \/ \E j \in Jobs : Change(p, j)

Recovery(p) ==
  \/ RecoveryBegins(p) \/ NoConnection(p) \/ RecoveryActive(p) \/ Recover(p)
  \/ \E j \in Jobs : Cancel(p, j)

Stop(p) ==
  \/ NothingToStop(p) \/ Stopped(p) \/ Select(p) \/ CancelJobsEnds(p)
  \/ \E r \in Procs : Interrupt(p, r) \/ Terminate(p, r)

Users == (\E p \in Procs, c \in Requests : Start(p, c)) \/ \E e \in Edits : Edit(e)

Scheduler == \E i \in Ids : JobStarts(i) \/ JobEnds(i)

Next ==
  \/ \E p \in Procs :
       Locking(p) \/ Saves(p) \/ Run(p) \/ Locked(p) \/ Recovery(p) \/ Stop(p) \/ Kill(p)
  \/ Users
  \/ Scheduler

Spec == Init /\ [][Next]_vars

-----------------------------------------------------------------------------
(* Properties.                                                             *)

\* Every variable has its type.
TypeOK ==
  /\ setting \in Settings
  /\ holder \in Procs \cup {NoProc}
  /\ list \in Lists \cup {Unlinked, NoRow, Partial, Empty}
  /\ tmp \in {Absent, Partial}
  /\ backup \in Lists \cup {Absent, Empty}
  /\ upd \in Edits \cup {NoEdit}
  /\ pc \in [Procs -> {"idle", "lock", "begin", "save", "writing", "exit", "head",
                      "submit", "turn", "change", "active", "cancel", "wait", "select"}]
  /\ cmd \in [Procs -> Commands]
  /\ mem \in [Procs -> Lists]
  /\ after \in [Procs -> {"idle", "exit", "head", "submit", "turn", "select"}]
  /\ todo \in [Procs -> SUBSET Jobs] /\ found \in [Procs -> SUBSET Jobs]
  /\ reach \in [Procs -> BOOLEAN] /\ exit \in [Procs -> BOOLEAN]
  /\ stale \subseteq Procs
  /\ owner \in [Ids -> Jobs \cup {NoId}] /\ state \in [Ids -> States]
  /\ file \subseteq Jobs
  /\ logged \in [Jobs -> Ids \cup {NoId, DummyId}]
  /\ missed \subseteq Ids
  /\ asked \in 0..MaxCommands /\ faults \in 0..MaxFaults

\* Whatever process is killed between whatever two steps, the pkl file of an
\* experiment is a list that can be read, or was removed by create -f.
ListWhole == setting.backend = "pkl" => list \in Lists \cup {Unlinked}

\* No command overwrites a list another command saved after this one had read
\* it: with the lock, and with recovery and stop used as documented, no update
\* of the saved list is lost.
SavesInTurn == \A p \in Procs : pc[p] = "writing" => p \notin stale

\* The list l accounts for attempt i.
Accounts(l, i, statuses) ==
  l \in Lists /\ owner[i] \in Jobs /\ l.id[owner[i]] = i /\ l.status[owner[i]] \in statuses

\* The attempts a command has to cancel when it makes the list forget them.  setstatus
\* cancels nothing when the job is to stay in the queue, or in SUSPENDED.
MustCancel(p) ==
  CASE cmd[p].name = "stop" -> {"SUBMITTED", "QUEUING", "RUNNING"}
    [] cmd[p].name = "setstatus" /\ reach[p]
         /\ cmd[p].target \notin InQueueStatus \cup {"SUSPENDED"} -> {"SUBMITTED", "QUEUING"}
    [] cmd[p].name = "recovery" /\ reach[p] /\ ~Has(p, "offline") -> InQueueStatus
    [] OTHER -> {}

\* An attempt that is alive in the scheduler and that the saved list accounts
\* for is not forgotten by setstatus, recovery or stop --cancel without having
\* been cancelled: it would run beside the next attempt of the job.  Exempted are
\* the jobs of an updated_list file, and cancel commands that got lost.
ForgetsOnlyCancelled ==
  [][\A p \in Procs, i \in Ids :
       /\ EndSave(p) /\ after[p] = "exit"
       /\ state[i] \in LiveStates \ {"H"}
       /\ Accounts(list, i, MustCancel(p))
       /\ upd = NoEdit
       => i \in missed \/ Accounts(mem[p], i, InQueueStatus \cup {"SUSPENDED"})]_vars

\* recovery --all leaves no COMPLETED job below a job that will still run: what
\* it found completed is taken back when a parent has to run again.
RecoveredInOrder ==
  [][\A p \in Procs :
       Recover(p) /\ Has(p, "all") /\ upd = NoEdit =>
         \A j \in Jobs : mem'[p].status[j] = "COMPLETED" =>
           \A q \in Parents[j] : mem'[p].status[q] \notin {"WAITING", "READY"}]_vars

\* The saved list is never half of one, nor one that was made from what another
\* command has replaced since.
ListKept == ListWhole /\ SavesInTurn
=============================================================================
