--------------------------- MODULE CommandsProofs ---------------------------
(***************************************************************************)
(* Proofs about Commands, for any workflow, any commands and any number of *)
(* processes, kills and lost commands: the saved list is whole and no older *)
(* than what was saved last, no live attempt is forgotten, and a recovery  *)
(* keeps the order of the workflow.                                        *)
(*                                                                         *)
(* run, create, setstatus and pklfix hold the lock; recovery and stop do   *)
(* not, and are kept apart by what the documentation asks of the users.    *)
(***************************************************************************)
EXTENDS Commands, WellFoundedInduction, TLAPS

IsActive(p) == pc[p] # "idle"

\* p is past the lock, or is a command that takes none.
AtWork(p) == pc[p] \notin {"idle", "lock"}

\* Who is at work and took the lock still has it.
LockInv ==
  \A p \in Procs :
    /\ pc[p] = "lock" => cmd[p].name \notin Unlocked
    /\ AtWork(p) /\ cmd[p].name \notin Unlocked => holder = p

\* Beside recovery there is nobody, and beside stop there are runs, until it has seen them
\* end or has killed the only one.
ApartInv ==
  \A p, q \in Procs :
    p # q /\ IsActive(p) /\ IsActive(q) /\ cmd[p].name \in Unlocked =>
      /\ cmd[p].name = "stop" /\ cmd[q].name = "run"
      /\ pc[p] = "begin" \/ (pc[p] = "wait" /\ ~Has(p, "force"))
      /\ pc[p] = "begin" /\ Has(p, "force") =>
           \A r \in Procs : r # p /\ IsActive(r) => r = q

\* Only a stop that waits has not yet read a list that was saved since it began.
StaleInv == \A p \in stale : pc[p] = "wait" /\ cmd[p].name = "stop"

\* The points of stop are its own.
WaitInv == \A p \in Procs : pc[p] = "wait" => cmd[p].name = "stop"

\* Where a command goes on when its list is saved.
Onward == {"exit", "head", "submit", "turn", "select"}
AfterInv == \A p \in Procs : pc[p] \in {"save", "writing"} => after[p] \in Onward

SavesInv == LockInv /\ ApartInv /\ StaleInv /\ WaitInv /\ AfterInv

\* What is alive in the scheduler was submitted for a job.
OwnedInv == \A i \in Ids : state[i] \in LiveStates => owner[i] \in Jobs

\* What pklfix puts in the place of the list is one.
BackupInv == setting.backend = "pkl" => backup \in Lists \cup {Absent}

-----------------------------------------------------------------------------
(* Who is at work, step by step.                                           *)

LEMMA InitSaves == Init => SavesInv
BY DEF Init, SavesInv, LockInv, ApartInv, StaleInv, WaitInv, AfterInv, AtWork, IsActive

\* Steps that move no process.
LEMMA StillSaves ==
  ASSUME SavesInv, UNCHANGED <<pc, cmd, holder, stale, after>>
  PROVE  SavesInv'
BY DEF SavesInv, LockInv, ApartInv, StaleInv, WaitInv, AfterInv, AtWork, IsActive, Has

\* p goes on at a point beyond the lock and the waiting.
Further == {"save", "writing", "exit", "head", "submit", "turn", "change", "active", "cancel",
            "select"}

GoesFurther(p) ==
  /\ UNCHANGED <<holder, cmd>>
  /\ \E x \in Further :
       /\ pc' = [pc EXCEPT ![p] = x]
       /\ \/ x = "save" /\ \E y \in Onward : after' = [after EXCEPT ![p] = y]
          \/ x = "writing" /\ pc[p] = "save" /\ UNCHANGED after
          \/ x \notin {"save", "writing"} /\ UNCHANGED after

\* None but p is active, or p is not one of the commands that take no lock.
MayGoFurther(p) ==
  /\ AtWork(p)
  /\ cmd[p].name \in Unlocked /\ pc[p] \in {"begin", "wait"} =>
       \A q \in Procs : IsActive(q) => q = p

LEMMA FurtherSaves ==
  ASSUME TypeOK, SavesInv, NEW p \in Procs, GoesFurther(p), MayGoFurther(p),
         stale' \subseteq stale, p \notin stale'
  PROVE  SavesInv'
<1>1. PICK x \in Further : pc'[p] = x /\ \A q \in Procs \ {p} : pc'[q] = pc[q]
  BY DEF GoesFurther, TypeOK
<1>2. UNCHANGED <<holder, cmd>>
  BY DEF GoesFurther
<1>3. LockInv'
  BY <1>1, <1>2 DEF SavesInv, LockInv, AtWork, MayGoFurther, Further
<1>4. ApartInv'
  <2> SUFFICES ASSUME NEW q \in Procs, NEW r \in Procs, q # r, IsActive(q)', IsActive(r)',
                      (cmd[q].name \in Unlocked)'
               PROVE  /\ cmd[q].name = "stop" /\ cmd[r].name = "run"
                      /\ pc'[q] = "begin" \/ (pc'[q] = "wait" /\ ~Has(q, "force"))
                      /\ pc'[q] = "begin" /\ Has(q, "force") =>
                           \A s \in Procs : s # q /\ IsActive(s)' => s = r
    BY <1>2 DEF ApartInv, Has
  <2>1. IsActive(q) /\ IsActive(r) /\ \A s \in Procs : IsActive(s)' => IsActive(s)
    BY <1>1 DEF IsActive, MayGoFurther, AtWork
  <2>2. cmd[q].name \in Unlocked
    BY <1>2
  <2>3. q # p
    BY <2>1, <2>2 DEF SavesInv, ApartInv, MayGoFurther
  <2> QED
    BY <1>1, <2>1, <2>2, <2>3 DEF SavesInv, ApartInv
<1>5. StaleInv' /\ WaitInv'
  <2>1. stale \subseteq Procs
    BY DEF TypeOK
  <2>2. StaleInv'
    BY <1>1, <1>2, <2>1 DEF SavesInv, StaleInv
  <2>3. WaitInv'
    BY <1>1, <1>2 DEF SavesInv, WaitInv, Further
  <2> QED
    BY <2>2, <2>3
<1>6. AfterInv'
  BY DEF SavesInv, AfterInv, GoesFurther, Further, Onward, TypeOK
<1> QED
  BY <1>3, <1>4, <1>5, <1>6 DEF SavesInv

\* p ends, and the lock it may have had is free.
LEMMA EndSaves ==
  ASSUME TypeOK, SavesInv, NEW p \in Procs, End(p)
  PROVE  SavesInv'
<1>1. pc'[p] = "idle" /\ \A q \in Procs \ {p} : /\ pc'[q] = pc[q] /\ cmd'[q] = cmd[q]
                                               /\ after'[q] = after[q]
  BY DEF End, TypeOK
<1>2. LockInv'
  BY <1>1 DEF SavesInv, LockInv, AtWork, End
<1>3. ApartInv'
  BY <1>1 DEF SavesInv, ApartInv, IsActive, Has
<1>4. StaleInv' /\ WaitInv' /\ AfterInv'
  BY <1>1 DEF SavesInv, StaleInv, WaitInv, AfterInv, End, TypeOK
<1> QED
  BY <1>2, <1>3, <1>4 DEF SavesInv

LEMMA StartSaves ==
  ASSUME Installation, TypeOK, SavesInv, NEW p \in Procs, NEW c \in Requests, Start(p, c)
  PROVE  SavesInv'
<1>1. /\ pc[p] = "idle" /\ pc'[p] \in {"begin", "lock"} /\ cmd'[p] = c
      /\ pc'[p] = "begin" <=> c.name \in Unlocked
      /\ \A q \in Procs \ {p} : pc'[q] = pc[q] /\ cmd'[q] = cmd[q]
      /\ UNCHANGED <<holder, stale, after>>
  BY DEF Start, Go, TypeOK
<1>2. Careful(c)
  BY DEF Start
<1>3. LockInv'
  BY <1>1 DEF SavesInv, LockInv, AtWork
<1>4. StaleInv' /\ WaitInv' /\ AfterInv'
  <2>1. stale \subseteq Procs /\ p \notin stale
    BY <1>1 DEF SavesInv, StaleInv, TypeOK
  <2> QED
    BY <1>1, <2>1 DEF SavesInv, StaleInv, WaitInv, AfterInv
<1>5. ApartInv'
  <2> SUFFICES ASSUME NEW q \in Procs, NEW r \in Procs, q # r, IsActive(q)', IsActive(r)',
                      cmd'[q].name \in Unlocked
               PROVE  /\ cmd'[q].name = "stop" /\ cmd'[r].name = "run"
                      /\ pc'[q] = "begin" \/ (pc'[q] = "wait" /\ ~Has(q, "force")')
                      /\ pc'[q] = "begin" /\ Has(q, "force")' =>
                           \A s \in Procs : s # q /\ IsActive(s)' => s = r
    BY DEF ApartInv
  <2>1. CASE q = p
    <3>1. IsActive(r) /\ cmd'[r] = cmd[r]
      BY <1>1, <2>1 DEF IsActive
    <3>2. c.name = "stop" /\ cmd[r].name = "run"
      BY <1>1, <1>2, <2>1, <3>1 DEF Careful, IsActive, Unlocked
    <3>3. "force" \in c.opts => \A s \in Procs : s # p /\ IsActive(s)' => s = r
      BY <1>1, <1>2, <3>1, <3>2 DEF Careful, IsActive
    <3> QED
      BY <1>1, <2>1, <3>1, <3>2, <3>3 DEF Has
  <2>2. CASE q # p
    <3>1. IsActive(q) /\ cmd[q].name \in Unlocked
      BY <1>1, <2>2 DEF IsActive
    <3> QED
      BY <1>2, <3>1 DEF Careful, IsActive
  <2> QED
    BY <2>1, <2>2
<1> QED
  BY <1>3, <1>4, <1>5 DEF SavesInv

LEMMA AcquireSaves ==
  ASSUME TypeOK, SavesInv, NEW p \in Procs, Acquire(p)
  PROVE  SavesInv'
<1>1. /\ pc[p] = "lock" /\ pc'[p] = "begin" /\ holder = NoProc /\ holder' = p
      /\ \A q \in Procs \ {p} : pc'[q] = pc[q]
      /\ UNCHANGED <<cmd, stale, after>>
  BY DEF Acquire, Go, localVars, TypeOK
<1>2. LockInv'
  BY <1>1, IdsAssumption DEF SavesInv, LockInv, AtWork
<1>3. ApartInv'
  BY <1>1 DEF SavesInv, ApartInv, LockInv, IsActive, Has
<1>4. StaleInv' /\ WaitInv' /\ AfterInv'
  <2>1. stale \subseteq Procs /\ p \notin stale
    BY <1>1 DEF SavesInv, StaleInv, TypeOK
  <2> QED
    BY <1>1, <2>1 DEF SavesInv, StaleInv, WaitInv, AfterInv
<1> QED
  BY <1>2, <1>3, <1>4 DEF SavesInv

LEMMA EndSaveSaves ==
  ASSUME TypeOK, SavesInv, NEW p \in Procs, EndSave(p)
  PROVE  SavesInv'
<1>1. /\ pc[p] = "writing" /\ pc' = [pc EXCEPT ![p] = after[p]] /\ after[p] \in Onward
      /\ UNCHANGED <<holder, cmd, after>>
      /\ stale' = stale \cup {q \in Procs \ {p} : pc[q] \notin {"idle", "lock", "begin"}}
  BY DEF EndSave, Go, localVars, SavesInv, AfterInv
<1>2. pc'[p] = after[p] /\ \A q \in Procs \ {p} : pc'[q] = pc[q]
  BY <1>1 DEF TypeOK
<1>3. LockInv'
  BY <1>1, <1>2 DEF SavesInv, LockInv, AtWork, Onward
<1>4. ASSUME NEW q \in Procs, IsActive(q), cmd[q].name \in Unlocked, q = p
      PROVE  \A r \in Procs : IsActive(r) => r = p
  BY <1>1, <1>4 DEF SavesInv, ApartInv, IsActive
<1>5. ApartInv'
  BY <1>1, <1>2, <1>4 DEF SavesInv, ApartInv, IsActive, Has
<1>6. ASSUME NEW q \in Procs \ {p}, pc[q] \notin {"idle", "lock", "begin"}
      PROVE  pc[q] = "wait" /\ cmd[q].name = "stop"
  <2>1. IsActive(p) /\ IsActive(q) /\ AtWork(p) /\ AtWork(q)
    BY <1>1, <1>6 DEF IsActive, AtWork
  <2>2. cmd[p].name \notin Unlocked
    BY <1>4, <2>1
  <2>3. cmd[q].name \in Unlocked
    BY <2>1, <2>2 DEF SavesInv, LockInv
  <2> QED
    BY <1>6, <2>1, <2>3 DEF SavesInv, ApartInv
<1>7. StaleInv'
  BY <1>1, <1>2, <1>6 DEF SavesInv, StaleInv
<1>8. WaitInv' /\ AfterInv'
  BY <1>1, <1>2 DEF SavesInv, WaitInv, AfterInv, Onward
<1> QED
  BY <1>3, <1>5, <1>7, <1>8 DEF SavesInv

Saved(p) == \E y \in Onward : Saving(p, y)

\* The steps by which the commands that hold the lock, and recovery, go on.
GoesOn(p) ==
  \/ BeginSave(p) \/ RunBegins(p) \/ Iteration(p) \/ Submitted(p) \/ Turn(p)
  \/ RunEnds(p) \/ Create(p) \/ SetStatusBegins(p) \/ SetStatusEnds(p) \/ RecoveryBegins(p)
  \/ (RecoveryActive(p) /\ Go(p, "cancel")) \/ Recover(p) \/ Select(p) \/ CancelJobsEnds(p)

LEMMA SavedGoesFurther ==
  ASSUME NEW p \in Procs, UNCHANGED <<holder, cmd>>,
         Saved(p) \/ (UNCHANGED after /\ \E x \in Further \ {"save", "writing"} : Go(p, x))
  PROVE  GoesFurther(p)
BY DEF Saved, Saving, Go, GoesFurther, Further

LEMMA GoesOnFurther ==
  ASSUME TypeOK, NEW p \in Procs, GoesOn(p)
  PROVE  GoesFurther(p) /\ pc[p] \notin {"idle", "lock", "wait"}
         /\ (pc[p] = "begin" => cmd[p].name \in {"run", "create", "setstatus", "recovery"})
         /\ stale' \subseteq stale
<1>1. CASE BeginSave(p)
  BY <1>1 DEF BeginSave, Go, GoesFurther, Further, localVars
<1>2. CASE RunBegins(p) \/ Create(p)
  <2>1. Saved(p)
    BY <1>2 DEF RunBegins, Create, Saved, Onward
  <2> QED
    BY <1>2, <2>1, SavedGoesFurther DEF RunBegins, Create, Holds
<1>3. CASE Iteration(p)
  <2>1. Saving(p, "turn") \/ Saving(p, "submit")
    BY <1>3 DEF Iteration
  <2>2. Saved(p)
    BY <2>1, Zenon DEF Saved, Onward
  <2> QED
    BY <1>3, <2>2, SavedGoesFurther DEF Iteration
<1>4. CASE Submitted(p) \/ SetStatusEnds(p) \/ CancelJobsEnds(p)
  <2>1. Saved(p)
    BY <1>4 DEF Submitted, SetStatusEnds, CancelJobsEnds, Saved, Onward
  <2> QED
    BY <1>4, <2>1, SavedGoesFurther DEF Submitted, SetStatusEnds, CancelJobsEnds
<1>5. CASE Turn(p) \/ RunEnds(p)
  <2>1. Saved(p) \/ (UNCHANGED after /\ (Go(p, "head") \/ Go(p, "exit")))
    BY <1>5 DEF Turn, RunEnds, Saved, Onward
  <2> QED
    BY <1>5, <2>1, SavedGoesFurther DEF Turn, RunEnds, Further
<1>6. CASE SetStatusBegins(p) \/ RecoveryBegins(p)
  <2>1. UNCHANGED after /\ (Go(p, "change") \/ Go(p, "active"))
    BY <1>6 DEF SetStatusBegins, RecoveryBegins
  <2> QED
    BY <1>6, <2>1, SavedGoesFurther DEF SetStatusBegins, RecoveryBegins, Holds, Further
<1>7. CASE RecoveryActive(p) /\ Go(p, "cancel")
  <2>1. pc[p] = "active" /\ (End(p) \/ UNCHANGED <<holder, cmd, after, stale>>)
    BY <1>7 DEF RecoveryActive
  <2>2. ~End(p)
    BY <1>7 DEF End, Go, TypeOK
  <2> QED
    BY <1>7, <2>1, <2>2, SavedGoesFurther DEF Further
<1>8. CASE Recover(p)
  <2>1. Saving(p, "exit") \/ (Go(p, "exit") /\ UNCHANGED after)
    BY <1>8 DEF Recover
  <2>2. Saved(p) \/ (Go(p, "exit") /\ UNCHANGED after)
    BY <2>1, Zenon DEF Saved, Onward
  <2> QED
    BY <1>8, <2>2, SavedGoesFurther DEF Recover, Further
<1>9. CASE Select(p)
  <2>1. UNCHANGED after /\ (Go(p, "cancel") \/ Go(p, "exit"))
    BY <1>9 DEF Select
  <2> QED
    BY <1>9, <2>1, SavedGoesFurther DEF Select, Further
<1> QED
  BY <1>1, <1>2, <1>3, <1>4, <1>5, <1>6, <1>7, <1>8, <1>9, Zenon DEF GoesOn

LEMMA GoesOnSaves ==
  ASSUME TypeOK, SavesInv, NEW p \in Procs, GoesOn(p)
  PROVE  SavesInv'
<1>1. p \notin stale
  BY GoesOnFurther DEF SavesInv, StaleInv
<1>2. MayGoFurther(p)
  <2>1. AtWork(p)
    BY GoesOnFurther DEF AtWork
  <2>2. ASSUME cmd[p].name \in Unlocked, pc[p] \in {"begin", "wait"}, NEW q \in Procs, IsActive(q)
        PROVE  q = p
    <3>1. cmd[p].name = "recovery"
      BY <2>2, GoesOnFurther DEF Unlocked
    <3> QED
      BY <2>1, <2>2, <3>1 DEF SavesInv, ApartInv, AtWork, IsActive
  <2> QED
    BY <2>1, <2>2 DEF MayGoFurther
<1> QED
  BY <1>1, <1>2, GoesOnFurther, FurtherSaves

LEMMA StopSaves ==
  ASSUME TypeOK, SavesInv, NEW p \in Procs,
         Stopped(p) \/ \E r \in Procs : Interrupt(p, r) \/ Terminate(p, r)
  PROVE  SavesInv'
<1>1. CASE Stopped(p)
  <2>1. CASE End(p)
    BY <2>1, EndSaves
  <2>2. CASE Saving(p, "select") /\ UNCHANGED <<holder, cmd>> /\ stale' = stale \ {p}
    <3>1. GoesFurther(p)
      BY <2>2, SavedGoesFurther DEF Saved, Onward
    <3>2. pc[p] = "wait" /\ cmd[p].name = "stop" /\ (Has(p, "force") \/ \A r \in Procs : ~Running(r))
      BY <1>1 DEF Stopped, SavesInv, WaitInv
    <3>3. MayGoFurther(p)
      BY <3>2 DEF SavesInv, ApartInv, MayGoFurther, AtWork, IsActive, Running, Unlocked
    <3> QED
      BY <2>2, <3>1, <3>3, FurtherSaves
  <2> QED
    BY <1>1, <2>1, <2>2 DEF Stopped, Holds
<1>2. ASSUME NEW r \in Procs, Interrupt(p, r) PROVE SavesInv'
  <2>1. /\ pc[p] = "begin" /\ cmd[p].name = "stop" /\ ~Has(p, "force")
        /\ pc' = [pc EXCEPT ![p] = "wait"] /\ UNCHANGED <<holder, cmd, after, stale>>
    BY <1>2 DEF Interrupt, Go
  <2>2. pc'[p] = "wait" /\ \A q \in Procs \ {p} : pc'[q] = pc[q]
    BY <2>1 DEF TypeOK
  <2>3. LockInv' /\ WaitInv' /\ AfterInv'
    BY <2>1, <2>2 DEF SavesInv, LockInv, WaitInv, AfterInv, AtWork, Unlocked
  <2>4. StaleInv'
    BY <2>1, <2>2 DEF SavesInv, StaleInv, TypeOK
  <2>5. ApartInv'
    BY <2>1, <2>2 DEF SavesInv, ApartInv, IsActive, Has
  <2> QED
    BY <2>3, <2>4, <2>5 DEF SavesInv
<1>3. ASSUME NEW r \in Procs, Terminate(p, r) PROVE SavesInv'
  <2>1. /\ pc[p] = "begin" /\ cmd[p].name = "stop" /\ Running(r) /\ r # p
        /\ pc' = [pc EXCEPT ![r] = "idle", ![p] = "wait"] /\ cmd' = [cmd EXCEPT ![r] = Idle]
        /\ after' = [after EXCEPT ![r] = "idle"] /\ stale' = stale \ {r}
        /\ holder' = IF holder = r THEN NoProc ELSE holder
    BY <1>3 DEF Terminate, Running
  <2>2. /\ pc'[p] = "wait" /\ pc'[r] = "idle"
        /\ \A q \in Procs \ {p, r} : pc'[q] = pc[q]
        /\ \A q \in Procs \ {r} : cmd'[q] = cmd[q] /\ after'[q] = after[q]
    BY <2>1 DEF TypeOK
  <2>3. LockInv'
    BY <2>1, <2>2 DEF SavesInv, LockInv, AtWork, Unlocked
  <2>4. WaitInv' /\ AfterInv'
    BY <2>1, <2>2 DEF SavesInv, WaitInv, AfterInv
  <2>5. StaleInv'
    BY <2>1, <2>2 DEF SavesInv, StaleInv, TypeOK
  <2>6. IsActive(p) /\ IsActive(r)
    BY <2>1 DEF IsActive, Running
  <2>7. ASSUME Has(p, "force"), NEW q \in Procs, IsActive(q), q # p PROVE q = r
    BY <2>1, <2>6, <2>7 DEF SavesInv, ApartInv, Unlocked
  <2>8. ApartInv'
    <3> SUFFICES ASSUME NEW q \in Procs, NEW s \in Procs, q # s, IsActive(q)', IsActive(s)',
                        cmd'[q].name \in Unlocked
                 PROVE  /\ cmd'[q].name = "stop" /\ cmd'[s].name = "run"
                        /\ pc'[q] = "wait" /\ ~Has(q, "force")'
      BY Zenon DEF ApartInv
    <3>1. q # r /\ s # r /\ IsActive(q) /\ IsActive(s) /\ cmd'[q] = cmd[q] /\ cmd'[s] = cmd[s]
      BY <2>2, <2>6 DEF IsActive
    <3>2. cmd[q].name = "stop" /\ cmd[s].name = "run"
      BY <3>1 DEF SavesInv, ApartInv
    <3>3. q = p
      BY <2>1, <2>6, <3>1, <3>2 DEF SavesInv, ApartInv
    <3> QED
      BY <2>2, <2>7, <3>1, <3>2, <3>3 DEF Has
  <2> QED
    BY <2>3, <2>4, <2>5, <2>8 DEF SavesInv
<1> QED
  BY <1>1, <1>2, <1>3

-----------------------------------------------------------------------------
(* What the operators on a list return.                                    *)

LEMMA ListTypes ==
  ASSUME NEW m \in Lists
  PROVE  /\ m.status \in [Jobs -> Status]
         /\ m.id \in [Jobs -> Ids \cup {NoId, DummyId}]
         /\ m.fails \in [Jobs -> 0..Retrials]
         /\ \A f \in [Jobs -> Status] : [m EXCEPT !.status = f] \in Lists
         /\ \A f \in [Jobs -> Ids \cup {NoId, DummyId}] : [m EXCEPT !.id = f] \in Lists
         /\ \A f \in [Jobs -> 0..Retrials] : [m EXCEPT !.fails = f] \in Lists
BY DEF Lists

LEMMA Statuses ==
  /\ {"WAITING", "READY", "SUBMITTED", "COMPLETED", "FAILED", "SUSPENDED", "QUEUING", "HELD",
      "RUNNING"} \subseteq Status
  /\ VolatileStatus \subseteq Status
BY DEF Status, LogicalOrder, VolatileStatus

LEMMA BlankType == Blank \in Lists
BY Statuses, JobsAssumption DEF Blank, Lists

LEMMA LoadableType == TypeOK /\ Loadable # NoList => Loadable \in Lists
BY DEF Loadable, TypeOK

LEMMA LoadedType == ASSUME NEW m \in Lists PROVE Loaded(m) \in Lists
BY ListTypes, Statuses DEF Loaded

LEMMA EditedType == ASSUME Installation, TypeOK, NEW m \in Lists PROVE Edited(m) \in Lists
<1>1. CASE upd = NoEdit
  BY <1>1 DEF Edited
<1>2. CASE upd # NoEdit
  <2>1. upd[1] \in Jobs /\ upd[2] \in Status
    BY <1>2 DEF Installation, TypeOK
  <2>2. [m.status EXCEPT ![upd[1]] = upd[2]] \in [Jobs -> Status]
    BY <2>1, ListTypes
  <2>3. [m.fails EXCEPT ![upd[1]] = 0] \in [Jobs -> 0..Retrials]
    BY <2>1, ListTypes, JobsAssumption
  <2> QED
    BY <1>2, <2>2, <2>3 DEF Edited, Lists
<1> QED
  BY <1>1, <1>2

LEMMA RetriedType == ASSUME NEW m \in Lists PROVE Retried(m) \in Lists
<1> DEFINE again == {j \in Jobs : Retries(m, j)}
           now == {j \in again : \A p \in Parents[j] : m.status[p] = "COMPLETED"}
<1>1. [j \in Jobs |-> IF j \in now THEN "READY" ELSE IF j \in again THEN "WAITING"
                     ELSE m.status[j]] \in [Jobs -> Status]
  BY ListTypes, Statuses
<1>2. [j \in Jobs |-> IF j \in now THEN NoId ELSE m.id[j]]
        \in [Jobs -> Ids \cup {NoId, DummyId}]
  BY ListTypes
<1>3. [j \in Jobs |-> IF j \in again THEN m.fails[j] + 1 ELSE m.fails[j]]
        \in [Jobs -> 0..Retrials]
  BY ListTypes, JobsAssumption DEF Retries
<1> QED
  BY <1>1, <1>2, <1>3 DEF Retried, Lists

LEMMA ForgetType == ASSUME NEW m \in Lists PROVE ForgetFails(m) \in Lists
BY ListTypes, JobsAssumption DEF ForgetFails

LEMMA ReleasedType == ASSUME NEW m \in Lists PROVE Released(m) \in Lists
BY ListTypes, Statuses DEF Released

LEMMA UpdateTypes ==
  ASSUME Installation, TypeOK, NEW m \in Lists
  PROVE  /\ FirstUpdate(m) \in Lists
         /\ SetStatusUpdate(m) \in Lists
         /\ Update(m) \in Lists
<1>1. Edited(m) \in Lists
  BY EditedType
<1>2. Released(ForgetFails(Edited(m))) \in Lists
  BY <1>1, ForgetType, ReleasedType
<1>3. Retried(Edited(m)) \in Lists
  BY <1>1, RetriedType
<1>4. Released(Retried(Edited(m))) \in Lists
  BY <1>3, ReleasedType
<1> QED
  BY <1>2, <1>3, <1>4 DEF FirstUpdate, SetStatusUpdate, Update

LEMMA GeneratedType ==
  ASSUME NEW m, m = NoList \/ m \in Lists
  PROVE  Generated(m) \in Lists
<1>1. [j \in Jobs |-> IF Parents[j] = {} THEN "READY" ELSE "WAITING"] \in [Jobs -> Status]
  BY Statuses
<1>2. (IF m = NoList THEN [j \in Jobs |-> NoId] ELSE m.id) \in [Jobs -> Ids \cup {NoId, DummyId}]
  BY ListTypes
<1>3. [j \in Jobs |-> 0] \in [Jobs -> 0..Retrials]
  BY JobsAssumption
<1> QED
  BY <1>1, <1>2, <1>3 DEF Generated, Lists

LEMMA LastIdsType ==
  ASSUME TypeOK, NEW m \in Lists, NEW S
  PROVE  WithLastIds(m, S) \in Lists
BY ListTypes DEF WithLastIds, TypeOK

LEMMA CheckedType == ASSUME NEW m \in Lists PROVE Checked(m) \in Lists
<1> DEFINE back == TakenBack(m)
<1> HIDE DEF back
<1>1. [j \in Jobs |-> IF j \in back THEN "WAITING" ELSE m.status[j]] \in [Jobs -> Status]
  BY ListTypes, Statuses
<1>2. [j \in Jobs |-> IF j \in back THEN NoId ELSE m.id[j]] \in [Jobs -> Ids \cup {NoId, DummyId}]
  BY ListTypes
<1>3. WithoutThem(m, back) \in Lists
  BY <1>1, <1>2 DEF WithoutThem, Lists
<1> QED
  BY <1>3 DEF Checked, back

LEMMA RecoveredType ==
  ASSUME NEW m \in Lists, NEW S, NEW names
  PROVE  Recovered(m, S, names) \in Lists
<1>1. [j \in Jobs |-> IF j \in S THEN IF j \in names THEN "COMPLETED"
                                     ELSE IF m.status[j] = "SUSPENDED" THEN "SUSPENDED"
                                     ELSE "WAITING"
                     ELSE m.status[j]] \in [Jobs -> Status]
  BY ListTypes, Statuses
<1>2. [j \in Jobs |-> IF j \in S \ names /\ m.status[j] # "SUSPENDED" THEN 0 ELSE m.fails[j]]
        \in [Jobs -> 0..Retrials]
  BY ListTypes, JobsAssumption
<1> QED
  BY <1>1, <1>2 DEF Recovered, Lists

LEMMA PollType == ASSUME NEW m \in Lists PROVE Poll(m) \in Lists
<1>1. \A j \in Jobs : Polled(m, j) \in Status
  BY Statuses DEF Polled
<1>2. [j \in Jobs |-> IF j \in InQueue(m) THEN IF m.id[j] \in Ids THEN Polled(m, j) ELSE "FAILED"
                     ELSE m.status[j]] \in [Jobs -> Status]
  BY <1>1, ListTypes, Statuses
<1> QED
  BY <1>2, ListTypes DEF Poll

-----------------------------------------------------------------------------
(* Types, step by step: what is on disk and in the scheduler, and what the *)
(* processes have.                                                         *)

DiskTypes ==
  /\ setting \in Settings
  /\ list \in Lists \cup {Unlinked, NoRow, Partial, Empty}
  /\ tmp \in {Absent, Partial}
  /\ backup \in Lists \cup {Absent, Empty}
  /\ upd \in Edits \cup {NoEdit}

QueueTypes ==
  /\ owner \in [Ids -> Jobs \cup {NoId}] /\ state \in [Ids -> States]
  /\ file \subseteq Jobs
  /\ logged \in [Jobs -> Ids \cup {NoId, DummyId}]
  /\ missed \subseteq Ids
  /\ asked \in 0..MaxCommands /\ faults \in 0..MaxFaults

PlaceTypes ==
  /\ holder \in Procs \cup {NoProc}
  /\ pc \in [Procs -> {"idle", "lock", "begin"} \cup Further \cup {"wait"}]
  /\ cmd \in [Procs -> Commands]
  /\ after \in [Procs -> {"idle"} \cup Onward]
  /\ stale \subseteq Procs

MemoryTypes ==
  /\ mem \in [Procs -> Lists]
  /\ todo \in [Procs -> SUBSET Jobs] /\ found \in [Procs -> SUBSET Jobs]
  /\ reach \in [Procs -> BOOLEAN] /\ exit \in [Procs -> BOOLEAN]

LEMMA TypesAre == TypeOK <=> DiskTypes /\ QueueTypes /\ PlaceTypes /\ MemoryTypes
<1>1. {"idle", "lock", "begin"} \cup Further \cup {"wait"} =
        {"idle", "lock", "begin", "save", "writing", "exit", "head",
         "submit", "turn", "change", "active", "cancel", "wait", "select"}
  BY DEF Further
<1>2. {"idle"} \cup Onward = {"idle", "exit", "head", "submit", "turn", "select"}
  BY DEF Onward
<1> QED
  BY <1>1, <1>2, Zenon DEF TypeOK, DiskTypes, QueueTypes, PlaceTypes, MemoryTypes

LEMMA TypesAreNext == DiskTypes' /\ QueueTypes' /\ PlaceTypes' /\ MemoryTypes' => TypeOK'
<1>1. {"idle", "lock", "begin"} \cup Further \cup {"wait"} =
        {"idle", "lock", "begin", "save", "writing", "exit", "head",
         "submit", "turn", "change", "active", "cancel", "wait", "select"}
  BY DEF Further
<1>2. {"idle"} \cup Onward = {"idle", "exit", "head", "submit", "turn", "select"}
  BY DEF Onward
<1> QED
  BY <1>1, <1>2, Zenon DEF TypeOK, DiskTypes, QueueTypes, PlaceTypes, MemoryTypes

LEMMA IdleType == Idle \in Commands
BY Statuses DEF Idle, Commands, CommandNames

LEMMA InitTypes == Installation /\ Init => TypeOK
<1> SUFFICES ASSUME Installation, Init PROVE DiskTypes /\ QueueTypes /\ PlaceTypes /\ MemoryTypes
  BY TypesAre
<1>1. Generated(NoList) \in Lists
  BY GeneratedType
<1>2. DiskTypes
  BY <1>1 DEF Init, DiskTypes, Installation
<1>3. QueueTypes
  BY BoundsAssumption DEF Init, QueueTypes, States
<1>4. PlaceTypes
  BY IdleType DEF Init, PlaceTypes
<1>5. MemoryTypes
  BY BlankType DEF Init, MemoryTypes
<1> QED
  BY <1>2, <1>3, <1>4, <1>5

\* A process ends.
LEMMA EndTypes ==
  ASSUME TypeOK, NEW p \in Procs, End(p)
  PROVE  PlaceTypes' /\ MemoryTypes'
<1>1. PlaceTypes'
  BY TypesAre, IdleType DEF PlaceTypes, End
<1>2. MemoryTypes'
  BY TypesAre, BlankType DEF MemoryTypes, End
<1> QED
  BY <1>1, <1>2

\* A process goes on, or its list is saved.
LEMMA GoTypes ==
  ASSUME TypeOK, NEW p \in Procs, NEW x \in {"begin", "lock"} \cup Further \cup {"wait"}, Go(p, x),
         UNCHANGED <<holder, cmd, after, stale>>
  PROVE  PlaceTypes'
BY TypesAre DEF PlaceTypes, Go

LEMMA FurtherTypes ==
  ASSUME TypeOK, NEW p \in Procs, GoesFurther(p), stale' \subseteq stale
  PROVE  PlaceTypes'
BY TypesAre DEF PlaceTypes, GoesFurther, Further

\* p gets another list.
LEMMA MemoryStep ==
  ASSUME TypeOK, NEW p \in Procs, NEW l \in Lists, mem' = [mem EXCEPT ![p] = l],
         UNCHANGED <<found, exit>>,
         todo' = todo \/ \E S \in SUBSET Jobs : todo' = [todo EXCEPT ![p] = S],
         reach' = reach \/ \E r \in BOOLEAN : reach' = [reach EXCEPT ![p] = r]
  PROVE  MemoryTypes'
BY TypesAre DEF MemoryTypes

LEMMA RestTypes ==
  ASSUME TypeOK
  PROVE  /\ UNCHANGED <<setting, diskVars>> => DiskTypes'
         /\ UNCHANGED <<remoteVars, logged, asked, faults>> => QueueTypes'
         /\ UNCHANGED <<holder, pc, cmd, after, stale>> => PlaceTypes'
         /\ UNCHANGED <<mem, todo, reach, found, exit>> => MemoryTypes'
BY TypesAre DEF DiskTypes, QueueTypes, PlaceTypes, MemoryTypes, diskVars, remoteVars

LEMMA TakeEditTypes ==
  ASSUME TypeOK, UNCHANGED <<setting, list, tmp, backup>>, upd' = NoEdit
  PROVE  DiskTypes'
BY TypesAre DEF DiskTypes

LEMMA LockingTypes ==
  ASSUME Installation, TypeOK, NEW p \in Procs, Locking(p) \/ Saves(p) \/ Kill(p)
  PROVE  TypeOK'
<1>1. CASE Acquire(p)
  <2>1. PlaceTypes'
    BY <1>1, TypesAre DEF PlaceTypes, Acquire, Go, localVars
  <2> QED
    BY <1>1, <2>1, RestTypes, TypesAreNext DEF Acquire, localVars
<1>2. CASE Refused(p) \/ CannotLoad(p) \/ Leave(p)
  BY <1>2, EndTypes, RestTypes, TypesAreNext DEF Refused, CannotLoad, Leave
<1>3. CASE BeginSave(p)
  <2>1. PlaceTypes'
    BY <1>3, TypesAre DEF PlaceTypes, BeginSave, Go, localVars, Further
  <2>2. DiskTypes'
    BY <1>3, TypesAre DEF DiskTypes, BeginSave
  <2> QED
    BY <1>3, <2>1, <2>2, RestTypes, TypesAreNext DEF BeginSave, localVars
<1>4. CASE EndSave(p)
  <2>1. after[p] \in {"idle"} \cup Onward /\ mem[p] \in Lists
    BY TypesAre DEF PlaceTypes, MemoryTypes
  <2>2. PlaceTypes'
    BY <1>4, <2>1, TypesAre DEF PlaceTypes, EndSave, Go, localVars, Further, Onward
  <2>3. DiskTypes'
    BY <1>4, <2>1, TypesAre DEF DiskTypes, EndSave
  <2> QED
    BY <1>4, <2>2, <2>3, RestTypes, TypesAreNext DEF EndSave, localVars
<1>5. CASE Kill(p)
  <2>1. QueueTypes'
    BY <1>5, TypesAre, BoundsAssumption DEF QueueTypes, Kill, remoteVars
  <2> QED
    BY <1>5, <2>1, EndTypes, RestTypes, TypesAreNext DEF Kill
<1> QED
  BY <1>1, <1>2, <1>3, <1>4, <1>5 DEF Locking, Saves

LEMMA RunTypes ==
  ASSUME Installation, TypeOK, NEW p \in Procs, Run(p)
  PROVE  TypeOK'
<1>1. mem[p] \in Lists
  BY TypesAre DEF MemoryTypes
<1>2. GoesOn(p) => PlaceTypes'
  BY GoesOnFurther, FurtherTypes
<1>3. CASE RunBegins(p)
  <2>1. FirstUpdate(Loaded(Loadable)) \in Lists
    BY <1>3, LoadableType, LoadedType, UpdateTypes DEF RunBegins
  <2>2. MemoryTypes'
    BY <1>3, <2>1, MemoryStep DEF RunBegins, Holds
  <2>3. DiskTypes'
    BY <1>3, TakeEditTypes DEF RunBegins, TakeEdit
  <2> QED
    BY <1>2, <1>3, <2>2, <2>3, RestTypes, TypesAreNext DEF RunBegins, GoesOn
<1>4. CASE Iteration(p)
  <2>1. Update(Poll(mem[p])) \in Lists
    BY <1>1, PollType, UpdateTypes
  <2>2. MemoryTypes'
    BY <1>4, <2>1, MemoryStep DEF Iteration
  <2>3. DiskTypes'
    BY <1>4, TakeEditTypes DEF Iteration, TakeEdit
  <2>4. PICK S \in SUBSET Jobs :
          /\ \A j \in S : mem[p].id[j] \in Ids
          /\ logged' = [j \in Jobs |-> IF j \in S THEN mem[p].id[j] ELSE logged[j]]
    <3> DEFINE ended == {j \in InQueue(mem[p]) :
                          /\ Poll(mem[p]).status[j] \in {"COMPLETED", "FAILED"}
                          /\ mem[p].id[j] \in Ids}
    <3>1. PICK S \in SUBSET ended :
            logged' = [j \in Jobs |-> IF j \in S THEN mem[p].id[j] ELSE logged[j]]
      BY <1>4, Zenon DEF Iteration
    <3>2. S \subseteq Jobs /\ \A j \in S : mem[p].id[j] \in Ids
      BY <3>1 DEF InQueue
    <3> QED
      BY <3>1, <3>2
  <2>5. QueueTypes'
    BY <1>4, <2>4, TypesAre DEF QueueTypes, Iteration, remoteVars
  <2> QED
    BY <1>2, <1>4, <2>2, <2>3, <2>5, TypesAreNext DEF Iteration, GoesOn
<1>5. CASE Submitted(p)
  <2>1. MemoryTypes'
    BY <1>1, <1>5, UpdateTypes, MemoryStep DEF Submitted
  <2>2. DiskTypes'
    BY <1>5, TakeEditTypes DEF Submitted, TakeEdit
  <2> QED
    BY <1>2, <1>5, <2>1, <2>2, RestTypes, TypesAreNext DEF Submitted, GoesOn
<1>6. CASE Turn(p) \/ RunEnds(p)
  BY <1>2, <1>6, RestTypes, TypesAreNext DEF Turn, RunEnds, GoesOn
<1>7. ASSUME NEW j \in Jobs, NEW i \in Ids, Submit(p, j, i) PROVE TypeOK'
  <2>1. [mem[p] EXCEPT !.status[j] = "SUBMITTED", !.id[j] = i] \in Lists
    <3>1. /\ [mem[p].status EXCEPT ![j] = "SUBMITTED"] \in [Jobs -> Status]
          /\ [mem[p].id EXCEPT ![j] = i] \in [Jobs -> Ids \cup {NoId, DummyId}]
      BY <1>1, Statuses DEF Lists
    <3> QED
      BY <1>1, <3>1 DEF Lists
  <2>2. mem' = [mem EXCEPT ![p] = [mem[p] EXCEPT !.status[j] = "SUBMITTED", !.id[j] = i]]
    BY <1>7, TypesAre DEF Submit, MemoryTypes
  <2>3. MemoryTypes'
    BY <1>7, <2>1, <2>2, MemoryStep DEF Submit
  <2>4. QueueTypes'
    BY <1>7, TypesAre DEF QueueTypes, Submit, States, LiveStates
  <2> QED
    BY <1>7, <2>3, <2>4, RestTypes, TypesAreNext DEF Submit
<1> QED
  BY <1>3, <1>4, <1>5, <1>6, <1>7 DEF Run

\* One job of p's list gets a status, and its failures are counted from 0 or not.
LEMMA StatusGiven ==
  ASSUME TypeOK, NEW p \in Procs, NEW j \in Jobs, NEW s \in Status, NEW n \in 0..Retrials
  PROVE  [mem[p] EXCEPT !.fails[j] = n, !.status[j] = s] \in Lists
<1>1. mem[p] \in Lists
  BY TypesAre DEF MemoryTypes
<1>2. /\ [mem[p].status EXCEPT ![j] = s] \in [Jobs -> Status]
      /\ [mem[p].fails EXCEPT ![j] = n] \in [Jobs -> 0..Retrials]
  BY <1>1 DEF Lists
<1> QED
  BY <1>1, <1>2 DEF Lists

LEMMA MovedType ==
  ASSUME TypeOK, NEW i, NEW S \in SUBSET LiveStates, NEW to \in States
  PROVE  /\ Moved(i, S, to) \in [Ids -> States]
         /\ \A k \in Ids : Moved(i, S, to)[k] \in LiveStates => state[k] \in LiveStates
BY TypesAre DEF Moved, QueueTypes

LEMMA ChangeTypes ==
  ASSUME TypeOK, NEW p \in Procs, NEW j \in Jobs, Change(p, j)
  PROVE  TypeOK'
<1> DEFINE m == mem[p]
           old == m.status[j]
           new == cmd[p].target
           skipped == old \in {"QUEUING", "RUNNING", "SUBMITTED"} /\ ~reach[p]
           reset == new \in {"WAITING", "PREPARED", "DELAYED", "READY"} \/
                    (~skipped /\ old = "FAILED" /\ old # new)
           sends == ~skipped /\ old # new /\
                    (Cancels(old, new) \/ Suspends(old, new) \/ Resumes(old, new))
           fails == IF reset THEN 0 ELSE m.fails[j]
           status == IF skipped THEN old ELSE new
<1>1. m \in Lists /\ new \in Status
  BY TypesAre DEF MemoryTypes, PlaceTypes, Commands
<1>2. UNCHANGED <<setting, diskVars, owner, file, missed, logged, asked, faults>>
  BY Zenon DEF Change
<1>3. CASE /\ mem' = [mem EXCEPT ![p].fails[j] = IF reset THEN 0 ELSE @,
                               ![p].status[j] = IF skipped THEN @ ELSE new]
           /\ state' = IF sends THEN AfterCommand(m.id[j], old, new) ELSE state
           /\ todo' = [todo EXCEPT ![p] = @ \ {j}]
           /\ UNCHANGED <<holder, pc, cmd, after, reach, found, exit, stale>>
  <2>1. fails \in 0..Retrials /\ status \in Status
    <3>1. old \in Status /\ m.fails[j] \in 0..Retrials
      BY <1>1 DEF Lists
    <3> QED
      BY <1>1, <3>1, JobsAssumption
  <2>2. [m EXCEPT !.fails[j] = fails, !.status[j] = status] \in Lists
    BY <2>1, StatusGiven
  <2>3. mem' = [mem EXCEPT ![p] = [m EXCEPT !.fails[j] = fails, !.status[j] = status]]
    BY <1>3, TypesAre DEF MemoryTypes
  <2>4. todo[p] \ {j} \in SUBSET Jobs
    BY TypesAre DEF MemoryTypes
  <2>5. MemoryTypes'
    BY <1>3, <2>2, <2>3, <2>4, MemoryStep
  <2>6. state' \in [Ids -> States]
    <3>1. \A S \in SUBSET LiveStates : \A to \in States : Moved(m.id[j], S, to) \in [Ids -> States]
      BY MovedType
    <3>2. state \in [Ids -> States]
      BY TypesAre DEF QueueTypes
    <3>3. {"K", "H", "Q"} \subseteq States /\ {"H"} \subseteq LiveStates /\ {"Q"} \subseteq LiveStates
      BY DEF States, LiveStates
    <3> HIDE DEF old, new, sends, m
    <3>4. AfterCommand(m.id[j], old, new) \in [Ids -> States]
      BY <3>1, <3>2, <3>3 DEF AfterCommand
    <3> QED
      BY <1>3, <3>2, <3>4
  <2>7. QueueTypes'
    BY <1>2, <2>6, TypesAre DEF QueueTypes
  <2> QED
    BY <1>2, <1>3, <2>5, <2>7, RestTypes, TypesAreNext
<1>4. CASE End(p) /\ UNCHANGED state
  <2>1. QueueTypes'
    BY <1>2, <1>4, TypesAre DEF QueueTypes
  <2> QED
    BY <1>2, <1>4, <2>1, EndTypes, RestTypes, TypesAreNext
<1> QED
  BY <1>3, <1>4, Zenon DEF Change

LEMMA LockedTypes ==
  ASSUME Installation, TypeOK, NEW p \in Procs, Locked(p)
  PROVE  TypeOK'
<1>1. mem[p] \in Lists /\ cmd[p] \in Commands
  BY TypesAre DEF MemoryTypes, PlaceTypes
<1>2. GoesOn(p) => PlaceTypes'
  BY GoesOnFurther, FurtherTypes
<1>3. CASE RemoveList(p)
  <2>1. DiskTypes'
    BY <1>3, TypesAre DEF DiskTypes, RemoveList
  <2> QED
    BY <1>3, <2>1, RestTypes, TypesAreNext DEF RemoveList, localVars
<1>4. CASE Create(p)
  <2>1. Generated(Loadable) \in Lists
    BY LoadableType, GeneratedType
  <2>2. MemoryTypes'
    BY <1>4, <2>1, MemoryStep DEF Create, Holds
  <2> QED
    BY <1>2, <1>4, <2>2, RestTypes, TypesAreNext DEF Create, GoesOn
<1>5. CASE SetStatusBegins(p)
  <2>1. Loaded(Loadable) \in Lists
    BY <1>5, LoadableType, LoadedType DEF SetStatusBegins
  <2>2. cmd[p].jobs \in SUBSET Jobs
    BY <1>1 DEF Commands
  <2>3. MemoryTypes'
    BY <1>5, <2>1, <2>2, MemoryStep DEF SetStatusBegins, Holds
  <2> QED
    BY <1>2, <1>5, <2>3, RestTypes, TypesAreNext DEF SetStatusBegins, GoesOn
<1>6. CASE SetStatusEnds(p)
  <2>1. WithLastIds(SetStatusUpdate(mem[p]), cmd[p].jobs) \in Lists
    BY <1>1, UpdateTypes, LastIdsType
  <2>2. MemoryTypes'
    BY <1>6, <2>1, MemoryStep DEF SetStatusEnds
  <2> QED
    BY <1>2, <1>6, <2>2, RestTypes, TypesAreNext DEF SetStatusEnds, GoesOn
<1>7. CASE PklFix(p)
  <2>1. DiskTypes'
    BY <1>7, TypesAre DEF DiskTypes, PklFix
  <2>2. End(p) /\ UNCHANGED <<remoteVars, logged, asked, faults>>
    BY <1>7 DEF PklFix
  <2> QED
    BY <2>1, <2>2, EndTypes, RestTypes, TypesAreNext
<1> QED
  BY <1>3, <1>4, <1>5, <1>6, <1>7, ChangeTypes DEF Locked

LEMMA CancelTypes ==
  ASSUME TypeOK, NEW p \in Procs, NEW j \in Jobs, Cancel(p, j)
  PROVE  TypeOK'
<1>1. mem[p] \in Lists /\ cmd[p].target \in Status
  BY TypesAre DEF MemoryTypes, PlaceTypes, Commands
<1>2. QueueTypes'
  <2>1. Moved(mem[p].id[j], LiveStates, "K") \in [Ids -> States]
    BY MovedType DEF States
  <2> QED
    BY <2>1, TypesAre, BoundsAssumption DEF Cancel, QueueTypes
<1>3. MemoryTypes'
  <2>1. [mem[p] EXCEPT !.fails[j] = mem[p].fails[j], !.status[j] = cmd[p].target] \in Lists
    BY <1>1, StatusGiven DEF Lists
  <2>2. [mem[p] EXCEPT !.status[j] = cmd[p].target] =
          [mem[p] EXCEPT !.fails[j] = mem[p].fails[j], !.status[j] = cmd[p].target]
    BY <1>1 DEF Lists
  <2>3. \E l \in Lists : mem' = [mem EXCEPT ![p] = l]
    <3>1. mem[p] \in Lists /\ [mem[p] EXCEPT !.status[j] = cmd[p].target] \in Lists
      BY <1>1, <2>1, <2>2
    <3>2. mem' = [mem EXCEPT ![p] = mem[p]]
            \/ mem' = [mem EXCEPT ![p] = [mem[p] EXCEPT !.status[j] = cmd[p].target]]
      BY TypesAre DEF Cancel, MemoryTypes
    <3> QED
      BY <3>1, <3>2
  <2>4. todo[p] \ {j} \in SUBSET Jobs
    BY TypesAre DEF MemoryTypes
  <2> QED
    BY <2>3, <2>4, MemoryStep DEF Cancel
<1> QED
  BY <1>2, <1>3, RestTypes, TypesAreNext DEF Cancel

LEMMA RecoveryTypes ==
  ASSUME Installation, TypeOK, NEW p \in Procs, Recovery(p)
  PROVE  TypeOK'
<1>1. mem[p] \in Lists
  BY TypesAre DEF MemoryTypes
<1>2. GoesOn(p) => PlaceTypes'
  BY GoesOnFurther, FurtherTypes
<1>3. CASE RecoveryBegins(p)
  <2>1. Loaded(Loadable) \in Lists
    BY <1>3, LoadableType, LoadedType DEF RecoveryBegins
  <2>2. \E r \in BOOLEAN, S \in SUBSET Jobs :
          reach' = [reach EXCEPT ![p] = r] /\ found' = [found EXCEPT ![p] = S]
    BY <1>3, TypesAre DEF RecoveryBegins, QueueTypes
  <2>3. MemoryTypes'
    BY <1>3, <2>1, <2>2, TypesAre DEF RecoveryBegins, Holds, MemoryTypes
  <2> QED
    BY <1>2, <1>3, <2>3, RestTypes, TypesAreNext DEF RecoveryBegins, GoesOn
<1>4. CASE NoConnection(p)
  BY <1>4, EndTypes, RestTypes, TypesAreNext DEF NoConnection
<1>5. CASE RecoveryActive(p)
  <2>1. UNCHANGED <<setting, diskVars, remoteVars, logged, asked, faults>>
    BY <1>5 DEF RecoveryActive
  <2>2. CASE End(p)
    BY <2>1, <2>2, EndTypes, RestTypes, TypesAreNext
  <2>3. CASE Go(p, "cancel") /\ ~End(p)
    <3>1. UNCHANGED <<mem, reach, found, exit>>
          /\ \E S \in SUBSET Jobs : todo' = [todo EXCEPT ![p] = S]
      BY <1>5, <2>3 DEF RecoveryActive, InQueue
    <3>2. MemoryTypes'
      BY <3>1, TypesAre DEF MemoryTypes
    <3> QED
      BY <1>2, <1>5, <2>1, <2>3, <3>2, RestTypes, TypesAreNext DEF GoesOn
  <2> QED
    BY <1>5, <2>2, <2>3 DEF RecoveryActive
<1>6. CASE Recover(p)
  <2> DEFINE S == IF Has(p, "all") THEN Jobs ELSE Active(mem[p])
             m == Update(Checked(Recovered(mem[p], S, found[p])))
             over == {j \in Jobs : m.status[j] \in {"COMPLETED", "FAILED", "SKIPPED"}}
  <2>1. m \in Lists
    BY <1>1, RecoveredType, CheckedType, UpdateTypes
  <2> HIDE DEF m
  <2>2. WithLastIds(m, over) \in Lists
    BY <2>1, LastIdsType
  <2>3. mem' = [mem EXCEPT ![p] = m] \/ mem' = [mem EXCEPT ![p] = WithLastIds(m, over)]
    BY <1>6, Zenon DEF Recover, m
  <2>4. UNCHANGED <<found, exit, todo, reach>>
    BY <1>6, Zenon DEF Recover
  <2>5. MemoryTypes'
    <3> HIDE DEF over
    <3> QED
      BY <2>1, <2>2, <2>3, <2>4, MemoryStep
  <2>6. DiskTypes'
    BY <1>6, TakeEditTypes, Zenon DEF Recover, TakeEdit
  <2>7. UNCHANGED <<remoteVars, logged, asked, faults>>
    BY <1>6, Zenon DEF Recover
  <2> QED
    BY <1>2, <1>6, <2>5, <2>6, <2>7, RestTypes, TypesAreNext DEF GoesOn
<1> QED
  BY <1>3, <1>4, <1>5, <1>6, CancelTypes DEF Recovery

LEMMA StopTypes ==
  ASSUME Installation, TypeOK, SavesInv, NEW p \in Procs, Stop(p)
  PROVE  TypeOK'
<1>1. mem[p] \in Lists
  BY TypesAre DEF MemoryTypes
<1>2. GoesOn(p) => PlaceTypes'
  BY GoesOnFurther, FurtherTypes
<1>3. CASE NothingToStop(p)
  BY <1>3, EndTypes, RestTypes, TypesAreNext DEF NothingToStop
<1>4. CASE Stopped(p)
  <2>1. CASE /\ Loadable # NoList
             /\ Holds(p, FirstUpdate(Loaded(Loadable)))
             /\ TakeEdit
             /\ Saving(p, "select")
             /\ UNCHANGED <<holder, cmd, todo, reach, found, exit>>
    <3>1. FirstUpdate(Loaded(Loadable)) \in Lists
      BY <2>1, LoadableType, LoadedType, UpdateTypes
    <3>2. MemoryTypes'
      BY <2>1, <3>1, MemoryStep DEF Holds
    <3>3. GoesFurther(p) /\ stale' \subseteq stale
      BY <2>1, SavedGoesFurther DEF Saved, Onward, Holds
    <3>4. DiskTypes'
      BY <1>4, <2>1, TakeEditTypes DEF Stopped, TakeEdit
    <3> QED
      BY <1>4, <3>2, <3>3, <3>4, FurtherTypes, RestTypes, TypesAreNext DEF Stopped
  <2>2. CASE End(p) /\ UNCHANGED upd
    <3>1. UNCHANGED <<setting, diskVars, remoteVars, logged, asked, faults>>
      BY <1>4, <2>2 DEF Stopped, diskVars
    <3> QED
      BY <2>2, <3>1, EndTypes, RestTypes, TypesAreNext
  <2> QED
    BY <1>4, <2>1, <2>2, Zenon DEF Stopped
<1>5. CASE Select(p)
  <2>1. Selected(mem[p]) \in SUBSET Jobs
    BY DEF Selected
  <2>2. MemoryTypes'
    BY <1>5, <2>1, TypesAre DEF Select, MemoryTypes
  <2> QED
    BY <1>2, <1>5, <2>2, RestTypes, TypesAreNext DEF Select, GoesOn
<1>6. CASE CancelJobsEnds(p)
  BY <1>2, <1>6, RestTypes, TypesAreNext DEF CancelJobsEnds, GoesOn
<1>7. ASSUME NEW r \in Procs, Interrupt(p, r) PROVE TypeOK'
  <2>1. PlaceTypes'
    BY <1>7, GoTypes DEF Interrupt
  <2>2. MemoryTypes'
    BY <1>7, TypesAre DEF Interrupt, MemoryTypes
  <2> QED
    BY <1>7, <2>1, <2>2, RestTypes, TypesAreNext DEF Interrupt
<1>8. ASSUME NEW r \in Procs, Terminate(p, r) PROVE TypeOK'
  <2>1. PlaceTypes'
    BY <1>8, TypesAre, IdleType DEF Terminate, PlaceTypes
  <2>2. MemoryTypes'
    BY <1>8, TypesAre, BlankType DEF Terminate, MemoryTypes
  <2> QED
    BY <1>8, <2>1, <2>2, RestTypes, TypesAreNext DEF Terminate
<1> QED
  BY <1>3, <1>4, <1>5, <1>6, <1>7, <1>8 DEF Stop

LEMMA OutsideTypes ==
  ASSUME Installation, TypeOK, OwnedInv, Users \/ Scheduler
  PROVE  TypeOK'
<1>1. ASSUME NEW p \in Procs, NEW c \in Requests, Start(p, c) PROVE TypeOK'
  <2>1. c \in Commands
    BY DEF Installation
  <2>2. PlaceTypes'
    BY <1>1, <2>1, TypesAre DEF Start, Go, PlaceTypes
  <2>3. QueueTypes'
    BY <1>1, TypesAre, BoundsAssumption DEF Start, QueueTypes, remoteVars
  <2> QED
    BY <1>1, <2>2, <2>3, RestTypes, TypesAreNext DEF Start
<1>2. ASSUME NEW e \in Edits, Edit(e) PROVE TypeOK'
  <2>1. DiskTypes'
    BY <1>2, TypesAre DEF Edit, DiskTypes
  <2>2. QueueTypes'
    BY <1>2, TypesAre, BoundsAssumption DEF Edit, QueueTypes, remoteVars
  <2> QED
    BY <1>2, <2>1, <2>2, RestTypes, TypesAreNext DEF Edit, localVars
<1>3. ASSUME NEW i \in Ids, JobStarts(i) \/ JobEnds(i) PROVE TypeOK'
  <2>1. UNCHANGED <<setting, holder, diskVars, pc, localVars, stale, owner, missed, logged,
                    asked, faults>>
    BY <1>3 DEF JobStarts, JobEnds
  <2>2. state' \in [Ids -> States]
    BY <1>3, TypesAre DEF JobStarts, JobEnds, QueueTypes, States, LiveStates
  <2>3. file' \subseteq Jobs
    BY <1>3, TypesAre DEF JobStarts, JobEnds, QueueTypes, OwnedInv, LiveStates
  <2>4. QueueTypes'
    BY <2>1, <2>2, <2>3, TypesAre DEF QueueTypes
  <2> QED
    BY <2>1, <2>4, RestTypes, TypesAreNext DEF localVars
<1> QED
  BY <1>1, <1>2, <1>3 DEF Users, Scheduler

\* An id is only given to an attempt of a job.
LEMMA OwnedStep == ASSUME TypeOK, OwnedInv, [Next]_vars PROVE OwnedInv'
<1>1. CASE /\ UNCHANGED owner
           /\ \A i \in Ids : state'[i] \in LiveStates => state[i] \in LiveStates
  BY <1>1 DEF OwnedInv
<1>2. CASE UNCHANGED <<owner, state>>
  BY <1>1, <1>2
<1>3. ASSUME NEW p \in Procs, NEW j \in Jobs, NEW i \in Ids, Submit(p, j, i) PROVE OwnedInv'
  BY <1>3, TypesAre DEF Submit, OwnedInv, QueueTypes
<1>4. ASSUME NEW p \in Procs, NEW j \in Jobs, Cancel(p, j) PROVE OwnedInv'
  <2>1. "K" \in States
    BY DEF States
  <2> QED
    BY <1>1, <1>4, <2>1, MovedType DEF Cancel
<1>5. ASSUME NEW p \in Procs, NEW j \in Jobs, Change(p, j) PROVE OwnedInv'
  <2>1. /\ UNCHANGED owner
        /\ UNCHANGED state
             \/ \E old, new : state' = AfterCommand(mem[p].id[j], old, new)
    BY <1>5, Zenon DEF Change
  <2>2. {"K", "H", "Q"} \subseteq States /\ {"H"} \subseteq LiveStates /\ {"Q"} \subseteq LiveStates
    BY DEF States, LiveStates
  <2>3. \A S \in SUBSET LiveStates : \A to \in States : \A k \in Ids :
          Moved(mem[p].id[j], S, to)[k] \in LiveStates => state[k] \in LiveStates
    BY MovedType
  <2>4. ASSUME NEW old, NEW new, state' = AfterCommand(mem[p].id[j], old, new) PROVE OwnedInv'
    BY <1>1, <2>1, <2>2, <2>3, <2>4 DEF AfterCommand
  <2> QED
    BY <1>2, <2>1, <2>4
<1>6. ASSUME NEW i \in Ids, JobStarts(i) \/ JobEnds(i) PROVE OwnedInv'
  BY <1>1, <1>6, TypesAre DEF JobStarts, JobEnds, QueueTypes, LiveStates
<1>7. ASSUME NEW p \in Procs, Locking(p) \/ Saves(p) \/ Kill(p) PROVE OwnedInv'
  BY <1>2, <1>7 DEF Locking, Acquire, Refused, CannotLoad, Saves, BeginSave, EndSave, Leave, Kill,
                    remoteVars
<1>8. ASSUME NEW p \in Procs, Run(p) PROVE OwnedInv'
  BY <1>2, <1>3, <1>8 DEF Run, RunBegins, Iteration, Submitted, Turn, RunEnds, remoteVars
<1>9. ASSUME NEW p \in Procs, Locked(p) PROVE OwnedInv'
  BY <1>2, <1>5, <1>9 DEF Locked, RemoveList, Create, SetStatusBegins, SetStatusEnds, PklFix,
                          remoteVars
<1>10. ASSUME NEW p \in Procs, Recovery(p) PROVE OwnedInv'
  <2>1. CASE Recover(p)
    BY <1>2, <2>1, Zenon DEF Recover, remoteVars
  <2> QED
    BY <1>2, <1>4, <1>10, <2>1 DEF Recovery, RecoveryBegins, NoConnection, RecoveryActive, remoteVars
<1>11. ASSUME NEW p \in Procs, Stop(p) PROVE OwnedInv'
  BY <1>2, <1>11 DEF Stop, NothingToStop, Interrupt, Terminate, Stopped, Select, CancelJobsEnds,
                     remoteVars
<1>12. CASE Users
  BY <1>2, <1>12 DEF Users, Start, Edit, remoteVars
<1>13. CASE UNCHANGED vars
  BY <1>2, <1>13 DEF vars, remoteVars
<1> QED
  BY <1>6, <1>7, <1>8, <1>9, <1>10, <1>11, <1>12, <1>13 DEF Next, Scheduler

-----------------------------------------------------------------------------
(* What is in the place of the list.                                       *)

Restorable == ListWhole /\ BackupInv

LEMMA RestorableStep == ASSUME TypeOK, Restorable, [Next]_vars PROVE Restorable'
<1>1. CASE UNCHANGED <<setting, list, backup>>
  BY <1>1 DEF Restorable, ListWhole, BackupInv
<1>2. ASSUME NEW p \in Procs, Locking(p) \/ Saves(p) \/ Kill(p) PROVE Restorable'
  <2>1. CASE BeginSave(p)
    BY <2>1 DEF BeginSave, Restorable, ListWhole, BackupInv
  <2>2. CASE EndSave(p)
    <3>1. mem[p] \in Lists
      BY TypesAre DEF MemoryTypes
    <3> QED
      BY <2>2, <3>1 DEF EndSave, Restorable, ListWhole, BackupInv
  <2> QED
    BY <1>1, <1>2, <2>1, <2>2 DEF Locking, Acquire, Refused, CannotLoad, Saves, Leave, Kill, diskVars
<1>3. ASSUME NEW p \in Procs, Run(p) PROVE Restorable'
  BY <1>1, <1>3 DEF Run, RunBegins, Iteration, Submit, Submitted, Turn, RunEnds, diskVars
<1>4. ASSUME NEW p \in Procs, Locked(p) PROVE Restorable'
  <2>1. CASE RemoveList(p)
    BY <2>1 DEF RemoveList, Restorable, ListWhole, BackupInv
  <2>2. CASE PklFix(p)
    BY <2>2 DEF PklFix, Restorable, ListWhole, BackupInv
  <2>3. ASSUME NEW j \in Jobs, Change(p, j) PROVE Restorable'
    BY <1>1, <2>3, Zenon DEF Change, diskVars
  <2> QED
    BY <1>1, <1>4, <2>1, <2>2, <2>3 DEF Locked, Create, SetStatusBegins, SetStatusEnds, diskVars
<1>5. ASSUME NEW p \in Procs, Recovery(p) PROVE Restorable'
  <2>1. CASE Recover(p)
    BY <1>1, <2>1, Zenon DEF Recover
  <2> QED
    BY <1>1, <1>5, <2>1 DEF Recovery, RecoveryBegins, NoConnection, RecoveryActive, Cancel, diskVars
<1>6. ASSUME NEW p \in Procs, Stop(p) PROVE Restorable'
  BY <1>1, <1>6 DEF Stop, NothingToStop, Interrupt, Terminate, Stopped, Select, CancelJobsEnds,
                    diskVars
<1>7. CASE Users \/ Scheduler
  BY <1>1, <1>7 DEF Users, Scheduler, Start, Edit, JobStarts, JobEnds, diskVars
<1>8. CASE UNCHANGED vars
  BY <1>1, <1>8 DEF vars, diskVars
<1> QED
  BY <1>2, <1>3, <1>4, <1>5, <1>6, <1>7, <1>8 DEF Next

-----------------------------------------------------------------------------
(* Where the commands are.                                                 *)

\* A command of this name may be at point x, and go on at y once its list is saved.
Fits(x, y, name) ==
  /\ x = "change" => name = "setstatus"
  /\ x = "active" => name = "recovery"
  /\ x = "cancel" => name \in {"recovery", "stop"}
  /\ x = "select" => name = "stop"
  /\ x \in {"head", "submit", "turn"} => name = "run"
  /\ x \in {"save", "writing"} /\ y = "select" => name = "stop"
  /\ x \in {"save", "writing"} /\ y \in {"head", "submit", "turn"} => name = "run"

PlaceInv == \A p \in Procs : Fits(pc[p], after[p], cmd[p].name)

\* p goes on at x, and at y once its list is saved.
LEMMA PlaceMoves ==
  ASSUME TypeOK, PlaceInv, NEW p \in Procs, NEW x, NEW y, pc' = [pc EXCEPT ![p] = x],
         after' = [after EXCEPT ![p] = y], UNCHANGED cmd, Fits(x, y, cmd[p].name)
  PROVE  PlaceInv'
BY DEF PlaceInv, TypeOK

LEMMA PlaceGoes ==
  ASSUME TypeOK, PlaceInv, NEW p \in Procs, NEW x, Go(p, x), UNCHANGED <<after, cmd>>,
         Fits(x, after[p], cmd[p].name)
  PROVE  PlaceInv'
BY DEF PlaceInv, Go, TypeOK

LEMMA PlaceSaves ==
  ASSUME TypeOK, PlaceInv, NEW p \in Procs, NEW y, Saving(p, y), UNCHANGED cmd,
         Fits("save", y, cmd[p].name)
  PROVE  PlaceInv'
BY PlaceMoves DEF Saving, Go

LEMMA PlaceEnds ==
  ASSUME TypeOK, PlaceInv, NEW p \in Procs, End(p)
  PROVE  PlaceInv'
BY DEF PlaceInv, Fits, End, TypeOK

LEMMA PlaceStays == ASSUME PlaceInv, UNCHANGED <<pc, after, cmd>> PROVE PlaceInv'
BY DEF PlaceInv

LEMMA LockedPlaces ==
  ASSUME TypeOK, SavesInv, PlaceInv, NEW p \in Procs,
         Locking(p) \/ Saves(p) \/ Kill(p) \/ Locked(p)
  PROVE  PlaceInv'
<1>1. CASE Refused(p) \/ CannotLoad(p) \/ Leave(p) \/ Kill(p) \/ PklFix(p)
  BY <1>1, PlaceEnds DEF Refused, CannotLoad, Leave, Kill, PklFix
<1>2. CASE Acquire(p)
  BY <1>2, PlaceGoes DEF Acquire, Fits, localVars
<1>3. CASE BeginSave(p)
  <2>1. Fits("writing", after[p], cmd[p].name)
    BY <1>3 DEF BeginSave, PlaceInv, Fits
  <2> QED
    BY <1>3, <2>1, PlaceGoes DEF BeginSave, localVars
<1>4. CASE EndSave(p)
  <2>1. Fits(after[p], after[p], cmd[p].name)
    BY <1>4 DEF EndSave, PlaceInv, Fits, SavesInv, AfterInv, Onward
  <2> QED
    BY <1>4, <2>1, PlaceGoes DEF EndSave, localVars
<1>5. CASE RemoveList(p)
  BY <1>5, PlaceStays DEF RemoveList, localVars
<1>6. CASE Create(p) \/ SetStatusEnds(p)
  BY <1>6, PlaceSaves DEF Create, SetStatusEnds, Fits
<1>7. CASE SetStatusBegins(p)
  BY <1>7, PlaceGoes DEF SetStatusBegins, Fits
<1>8. ASSUME NEW j \in Jobs, Change(p, j) PROVE PlaceInv'
  <2>1. End(p) \/ UNCHANGED <<pc, after, cmd>>
    BY <1>8, Zenon DEF Change
  <2> QED
    BY <2>1, PlaceEnds, PlaceStays
<1> QED
  BY <1>1, <1>2, <1>3, <1>4, <1>5, <1>6, <1>7, <1>8 DEF Locking, Saves, Locked

LEMMA RunPlaces ==
  ASSUME TypeOK, PlaceInv, NEW p \in Procs, Run(p)
  PROVE  PlaceInv'
<1>1. pc[p] \in {"head", "submit", "turn"} => cmd[p].name = "run"
  BY DEF PlaceInv, Fits
<1>2. CASE RunBegins(p) \/ Submitted(p)
  BY <1>1, <1>2, PlaceSaves DEF RunBegins, Submitted, Fits
<1>3. CASE Iteration(p)
  <2>1. Saving(p, "turn") \/ Saving(p, "submit")
    BY <1>3 DEF Iteration
  <2>2. UNCHANGED cmd /\ cmd[p].name = "run"
    BY <1>1, <1>3 DEF Iteration
  <2> QED
    BY <2>1, <2>2, PlaceSaves DEF Fits
<1>4. CASE Turn(p) \/ RunEnds(p)
  <2>1. UNCHANGED cmd /\ cmd[p].name = "run"
    BY <1>1, <1>4 DEF Turn, RunEnds
  <2>2. \/ Saving(p, "head") \/ Saving(p, "exit")
        \/ UNCHANGED after /\ (Go(p, "head") \/ Go(p, "exit"))
    BY <1>4 DEF Turn, RunEnds
  <2> QED
    BY <2>1, <2>2, PlaceSaves, PlaceGoes DEF Fits
<1>5. ASSUME NEW j \in Jobs, NEW i \in Ids, Submit(p, j, i) PROVE PlaceInv'
  BY <1>5, PlaceStays DEF Submit
<1> QED
  BY <1>2, <1>3, <1>4, <1>5 DEF Run

LEMMA UnlockedPlaces ==
  ASSUME TypeOK, SavesInv, PlaceInv, NEW p \in Procs, Recovery(p) \/ Stop(p)
  PROVE  PlaceInv'
<1>1. CASE NoConnection(p) \/ NothingToStop(p)
  BY <1>1, PlaceEnds DEF NoConnection, NothingToStop
<1>2. CASE RecoveryBegins(p)
  BY <1>2, PlaceGoes DEF RecoveryBegins, Fits
<1>3. CASE RecoveryActive(p)
  <2>1. End(p) \/ (Go(p, "cancel") /\ UNCHANGED <<after, cmd>>)
    BY <1>3, Zenon DEF RecoveryActive
  <2>2. cmd[p].name = "recovery"
    BY <1>3 DEF RecoveryActive, PlaceInv, Fits
  <2> QED
    BY <2>1, <2>2, PlaceEnds, PlaceGoes DEF Fits
<1>4. ASSUME NEW j \in Jobs, Cancel(p, j) PROVE PlaceInv'
  BY <1>4, PlaceStays DEF Cancel
<1>5. CASE Recover(p)
  <2>1. UNCHANGED cmd /\ (Saving(p, "exit") \/ (Go(p, "exit") /\ UNCHANGED after))
    BY <1>5, Zenon DEF Recover
  <2> QED
    BY <2>1, PlaceSaves, PlaceGoes DEF Fits
<1>6. CASE Stopped(p)
  <2>1. End(p) \/ (Saving(p, "select") /\ UNCHANGED cmd)
    BY <1>6, Zenon DEF Stopped
  <2>2. cmd[p].name = "stop"
    BY <1>6 DEF Stopped, SavesInv, WaitInv
  <2> QED
    BY <2>1, <2>2, PlaceEnds, PlaceSaves DEF Fits
<1>7. CASE Select(p)
  <2>1. UNCHANGED <<after, cmd>> /\ (Go(p, "exit") \/ Go(p, "cancel"))
    BY <1>7 DEF Select
  <2>2. cmd[p].name = "stop"
    BY <1>7 DEF Select, PlaceInv, Fits
  <2> QED
    BY <2>1, <2>2, PlaceGoes DEF Fits
<1>8. CASE CancelJobsEnds(p)
  BY <1>8, PlaceSaves DEF CancelJobsEnds, Fits
<1>9. ASSUME NEW r \in Procs, Interrupt(p, r) PROVE PlaceInv'
  BY <1>9, PlaceGoes DEF Interrupt, Fits
<1>10. ASSUME NEW r \in Procs, Terminate(p, r) PROVE PlaceInv'
  <2>1. /\ pc' = [pc EXCEPT ![r] = "idle", ![p] = "wait"]
        /\ cmd' = [cmd EXCEPT ![r] = Idle] /\ after' = [after EXCEPT ![r] = "idle"]
    BY <1>10 DEF Terminate
  <2>2. /\ pc'[r] \in {"idle", "wait"} /\ pc'[p] \in {"idle", "wait"}
        /\ \A q \in Procs \ {p, r} : pc'[q] = pc[q] /\ cmd'[q] = cmd[q] /\ after'[q] = after[q]
    BY <2>1 DEF TypeOK
  <2> QED
    BY <2>2 DEF PlaceInv, Fits
<1> QED
  BY <1>1, <1>2, <1>3, <1>4, <1>5, <1>6, <1>7, <1>8, <1>9, <1>10 DEF Recovery, Stop

LEMMA PlaceStep == ASSUME TypeOK, SavesInv, PlaceInv, [Next]_vars PROVE PlaceInv'
<1>1. ASSUME NEW p \in Procs, NEW c \in Requests, Start(p, c) PROVE PlaceInv'
  <2>1. /\ pc'[p] \in {"begin", "lock"} /\ UNCHANGED after
        /\ \A q \in Procs \ {p} : pc'[q] = pc[q] /\ cmd'[q] = cmd[q]
    BY <1>1 DEF Start, Go, TypeOK
  <2> QED
    BY <2>1 DEF PlaceInv, Fits
<1>2. ASSUME NEW e \in Edits, Edit(e) PROVE PlaceInv'
  BY <1>2, PlaceStays DEF Edit, localVars
<1>3. CASE Scheduler
  BY <1>3, PlaceStays DEF Scheduler, JobStarts, JobEnds, localVars
<1>4. CASE UNCHANGED vars
  BY <1>4, PlaceStays DEF vars, localVars
<1> QED
  BY <1>1, <1>2, <1>3, <1>4, LockedPlaces, RunPlaces, UnlockedPlaces DEF Next, Users

-----------------------------------------------------------------------------
(* What setstatus, recovery and stop have still to cancel.                 *)

\* Attempt i is alive, the saved list accounts for it, and p has to cancel it.
Due(p, i) ==
  state[i] \in LiveStates \ {"H"} /\ i \notin missed /\ Accounts(list, i, MustCancel(p))

\* p knows of job j what the saved list says.
AsSaved(p, j) == mem[p].id[j] = list.id[j] /\ mem[p].status[j] = list.status[j]

\* p knows of the job of attempt i, and has on its way to the end still to come to it.
Pending(p, i) ==
  /\ pc[p] \in {"active", "select"} => AsSaved(p, owner[i])
  /\ pc[p] = "change" =>
       AsSaved(p, owner[i]) /\ (owner[i] \in cmd[p].jobs => owner[i] \in todo[p])
  /\ pc[p] = "cancel" /\ (cmd[p].name = "stop" \/ Has(p, "save")) =>
       mem[p].id[owner[i]] = i /\ owner[i] \in todo[p]
  /\ pc[p] \in {"save", "writing"} /\ after[p] = "exit" =>
       cmd[p].name = "setstatus" /\ (upd = NoEdit => AsSaved(p, owner[i]))

DueInv == \A p \in Procs, i \in Ids : Due(p, i) => Pending(p, i)

\* The points where Pending says something, and the commands that have to cancel.
Working == {"change", "active", "select", "cancel", "save", "writing"}
Cancelling == {"setstatus", "recovery", "stop"}

LEMMA DueCommands ==
  ASSUME NEW p \in Procs, NEW i \in Ids, Due(p, i)
  PROVE  /\ cmd[p].name \in Cancelling
         /\ list \in Lists /\ owner[i] \in Jobs /\ list.id[owner[i]] = i
         /\ list.status[owner[i]] \in InQueueStatus
BY DEF Due, Accounts, MustCancel, Cancelling, InQueueStatus

LEMMA NextDueCommands ==
  ASSUME NEW p \in Procs, NEW i \in Ids, Due(p, i)'
  PROVE  cmd'[p].name \in Cancelling /\ list' \in Lists
BY DEF Due, Accounts, MustCancel, Cancelling

\* Nobody else is at work while a command that has to cancel is.
LEMMA Alone ==
  ASSUME SavesInv, NEW p \in Procs, pc[p] \in Working, cmd[p].name \in Cancelling,
         NEW q \in Procs, q # p
  PROVE  pc[q] \in {"idle", "lock"}
BY DEF SavesInv, LockInv, ApartInv, Working, Cancelling, AtWork, IsActive, Unlocked

\* A step that leaves p, the list and the attempt where they are.
LEMMA PendingStays ==
  ASSUME DueInv, NEW p \in Procs, NEW i \in Ids, Due(p, i)',
         UNCHANGED <<list, owner>>,
         UNCHANGED <<pc[p], cmd[p], mem[p], after[p], todo[p], reach[p]>>,
         upd' = upd \/ upd = NoEdit, missed \subseteq missed',
         state'[i] \in LiveStates \ {"H"} => state[i] \in LiveStates \ {"H"}
  PROVE  Pending(p, i)'
<1>1. Due(p, i)
  BY DEF Due, Accounts, MustCancel, Has
<1>2. Pending(p, i)
  BY <1>1 DEF DueInv
<1> QED
  BY <1>2 DEF Pending, AsSaved, Has

\* At other points Pending says nothing.
LEMMA PendingElsewhere ==
  ASSUME NEW p \in Procs, NEW i \in Ids, pc'[p] \notin Working
  PROVE  Pending(p, i)'
BY DEF Pending, Working

\* The steps a process takes from the start or from the lock.
LEMMA StepsOf ==
  ASSUME TypeOK, SavesInv, NEW q \in Procs,
         Locking(q) \/ Saves(q) \/ Run(q) \/ Locked(q) \/ Recovery(q) \/ Stop(q) \/ Kill(q)
  PROVE  \/ Acquire(q) \/ Refused(q) \/ Kill(q)
         \/ /\ pc[q] \notin {"idle", "lock"}
            /\ \A p \in Procs \ {q} : pc'[p] = "idle" \/ (pc'[p] = pc[p] /\ cmd'[p] = cmd[p])
<1> DEFINE Here == /\ pc[q] \notin {"idle", "lock"}
                   /\ \A p \in Procs \ {q} : pc'[p] = "idle" \/ (pc'[p] = pc[p] /\ cmd'[p] = cmd[p])
<1>1. ASSUME pc[q] \notin {"idle", "lock"}, End(q) PROVE Here
  BY <1>1 DEF End, TypeOK
<1>2. ASSUME pc[q] \notin {"idle", "lock"}, UNCHANGED <<pc, cmd>> PROVE Here
  BY <1>2
<1>3. ASSUME GoesOn(q) PROVE Here
  BY <1>3, GoesOnFurther DEF GoesFurther, TypeOK
<1>4. ASSUME NEW x, pc[q] \notin {"idle", "lock"}, pc' = [pc EXCEPT ![q] = x], UNCHANGED cmd
      PROVE  Here
  BY <1>4 DEF TypeOK
<1> HIDE DEF Here
<1>5. CannotLoad(q) \/ Leave(q) \/ PklFix(q) \/ NoConnection(q) \/ NothingToStop(q) => Here
  BY <1>1 DEF CannotLoad, Leave, PklFix, NoConnection, NothingToStop
<1>6. EndSave(q) => Here
  BY <1>4 DEF EndSave, Go, localVars
<1>7. ASSUME NEW j \in Jobs, NEW i \in Ids, Submit(q, j, i) PROVE Here
  BY <1>2, <1>7 DEF Submit
<1>8. RemoveList(q) => Here
  BY <1>2 DEF RemoveList, localVars
<1>9. ASSUME NEW j \in Jobs, Change(q, j) PROVE Here
  <2>1. pc[q] = "change" /\ (End(q) \/ UNCHANGED <<pc, cmd>>)
    BY <1>9, Zenon DEF Change
  <2> QED
    BY <1>1, <1>2, <2>1
<1>10. ASSUME NEW j \in Jobs, Cancel(q, j) PROVE Here
  BY <1>2, <1>10 DEF Cancel
<1>11. RecoveryActive(q) => Here
  <2>1. RecoveryActive(q) => pc[q] = "active" /\ (End(q) \/ Go(q, "cancel"))
    BY Zenon DEF RecoveryActive
  <2> QED
    BY <1>1, <1>3, <2>1 DEF GoesOn
<1>12. Stopped(q) => Here
  <2>1. Stopped(q) => pc[q] = "wait" /\ (End(q) \/ (Saving(q, "select") /\ UNCHANGED cmd))
    BY Zenon DEF Stopped
  <2> QED
    BY <1>1, <1>4, <2>1 DEF Saving, Go
<1>13. ASSUME NEW r \in Procs, Interrupt(q, r) PROVE Here
  BY <1>4, <1>13 DEF Interrupt, Go
<1>14. ASSUME NEW r \in Procs, Terminate(q, r) PROVE Here
  BY <1>14 DEF Terminate, Here, TypeOK
<1>15. Acquire(q) \/ Refused(q) \/ Kill(q) \/ Here
  BY <1>3, <1>5, <1>6, <1>7, <1>8, <1>9, <1>10, <1>11, <1>12, <1>13, <1>14
     DEF Locking, Saves, Run, Locked, Recovery, Stop, GoesOn
<1> QED
  BY <1>15 DEF Here

\* What others do while p has something to cancel.
LEMMA PendingBeside ==
  ASSUME TypeOK, SavesInv, DueInv, NEW p \in Procs, NEW i \in Ids, Due(p, i)',
         NEW q \in Procs, q # p,
         Locking(q) \/ Saves(q) \/ Run(q) \/ Locked(q) \/ Recovery(q) \/ Stop(q) \/ Kill(q)
  PROVE  Pending(p, i)'
<1>1. CASE pc'[p] \notin Working
  BY <1>1, PendingElsewhere
<1>2. ASSUME pc'[p] \in Working, pc'[p] = pc[p], cmd'[p] = cmd[p], pc[q] \notin {"idle", "lock"}
      PROVE  FALSE
  BY <1>2, Alone, NextDueCommands
<1>3. CASE Acquire(q)
  <2>1. pc'[p] = pc[p]
    BY <1>3 DEF Acquire, Go, TypeOK
  <2> QED
    BY <1>3, <2>1, PendingStays DEF Acquire, localVars, diskVars, remoteVars
<1>4. CASE Refused(q) \/ Kill(q)
  <2>1. End(q) /\ UNCHANGED <<diskVars, remoteVars>>
    BY <1>4 DEF Refused, Kill
  <2>2. UNCHANGED <<pc[p], cmd[p], mem[p], after[p], todo[p], reach[p]>>
    BY <2>1 DEF End, TypeOK
  <2> QED
    BY <2>1, <2>2, PendingStays DEF diskVars, remoteVars
<1>5. "idle" \notin Working
  BY DEF Working
<1> QED
  BY <1>1, <1>2, <1>3, <1>4, <1>5, StepsOf

LEMMA LoadedAsSaved ==
  ASSUME NEW j \in Jobs, list \in Lists, list.status[j] \notin VolatileStatus
  PROVE  Loaded(Loadable).id[j] = list.id[j] /\ Loaded(Loadable).status[j] = list.status[j]
<1>1. Loadable = list
  BY DEF Loadable
<1>2. list.status \in [Jobs -> Status]
  BY DEF Lists
<1> QED
  BY <1>1, <1>2 DEF Loaded, Lists

\* p reads the list.
LEMMA PendingRead ==
  ASSUME TypeOK, NEW p \in Procs, NEW i \in Ids, Due(p, i)', SetStatusBegins(p) \/ RecoveryBegins(p)
  PROVE  Pending(p, i)'
<1>1. /\ list' \in Lists /\ owner'[i] \in Jobs
      /\ list'.status[owner'[i]] \in InQueueStatus
  BY DEF Due, Accounts, MustCancel, InQueueStatus
<1>2. UNCHANGED <<list, owner>> /\ mem' = [mem EXCEPT ![p] = Loaded(Loadable)]
  BY DEF SetStatusBegins, RecoveryBegins, Holds, diskVars, remoteVars
<1>3. mem'[p] = Loaded(Loadable)
  BY <1>2 DEF TypeOK
<1>4. AsSaved(p, owner[i])'
  BY <1>1, <1>2, <1>3, LoadedAsSaved DEF AsSaved, InQueueStatus, VolatileStatus
<1>5. CASE SetStatusBegins(p)
  <2>1. pc'[p] = "change" /\ todo'[p] = cmd'[p].jobs
    BY <1>5 DEF SetStatusBegins, Go, TypeOK
  <2> QED
    BY <1>4, <2>1 DEF Pending
<1>6. CASE RecoveryBegins(p)
  <2>1. pc'[p] = "active"
    BY <1>6 DEF RecoveryBegins, Go, TypeOK
  <2> QED
    BY <1>4, <2>1 DEF Pending
<1> QED
  BY <1>5, <1>6

\* What scancel was sent for is not alive.
LEMMA MovedAway ==
  ASSUME TypeOK, NEW i \in Ids, NEW k, state' = Moved(k, LiveStates, "K")
  PROVE  state'[i] \in LiveStates => state'[i] = state[i] /\ i # k
BY DEF Moved, TypeOK, LiveStates

\* setstatus changes one job.
LEMMA PendingChange ==
  ASSUME TypeOK, PlaceInv, DueInv, NEW p \in Procs, NEW i \in Ids, Due(p, i)', NEW j \in Jobs,
         Change(p, j), ~End(p)
  PROVE  Pending(p, i)'
<1> DEFINE old == mem[p].status[j]
           new == cmd[p].target
           skipped == old \in {"QUEUING", "RUNNING", "SUBMITTED"} /\ ~reach[p]
           reset == new \in {"WAITING", "PREPARED", "DELAYED", "READY"} \/
                    (~skipped /\ old = "FAILED" /\ old # new)
           sends == ~skipped /\ old # new /\
                    (Cancels(old, new) \/ Suspends(old, new) \/ Resumes(old, new))
<1>1. /\ pc[p] = "change" /\ j \in todo[p]
      /\ mem' = [mem EXCEPT ![p].fails[j] = IF reset THEN 0 ELSE @,
                            ![p].status[j] = IF skipped THEN @ ELSE new]
      /\ state' = IF sends THEN AfterCommand(mem[p].id[j], old, new) ELSE state
      /\ todo' = [todo EXCEPT ![p] = @ \ {j}]
      /\ UNCHANGED <<pc, cmd, after, reach, upd, list, owner, missed>>
  BY Zenon DEF Change, diskVars
<1> HIDE DEF reset
<1>2. /\ mem'[p].id = mem[p].id /\ todo'[p] = todo[p] \ {j}
      /\ \A k \in Jobs \ {j} : mem'[p].status[k] = mem[p].status[k]
  BY <1>1 DEF TypeOK, Lists
<1>3. cmd[p].name = "setstatus"
  BY <1>1 DEF PlaceInv, Fits
<1>4. /\ reach[p] /\ new \notin InQueueStatus \cup {"SUSPENDED"}
      /\ list \in Lists /\ owner[i] \in Jobs /\ list.id[owner[i]] = i
      /\ list.status[owner[i]] \in {"SUBMITTED", "QUEUING"}
      /\ i \notin missed /\ state'[i] \in LiveStates \ {"H"}
  BY <1>1, <1>3 DEF Due, Accounts, MustCancel
<1>5. state' = state \/ state' = Moved(mem[p].id[j], LiveStates, "K")
  BY <1>1, <1>4 DEF AfterCommand, Suspends, Resumes, InQueueStatus
<1>6. state[i] \in LiveStates \ {"H"}
  BY <1>4, <1>5, MovedAway
<1>7. AsSaved(p, owner[i]) /\ (owner[i] \in cmd[p].jobs => owner[i] \in todo[p])
  BY <1>1, <1>3, <1>4, <1>6 DEF DueInv, Pending, Due, Accounts, MustCancel
<1>8. owner[i] # j
  <2> SUFFICES ASSUME owner[i] = j PROVE FALSE
    OBVIOUS
  <2>1. old \in {"SUBMITTED", "QUEUING"} /\ mem[p].id[j] = i
    BY <1>4, <1>7 DEF AsSaved
  <2>2. sends /\ Cancels(old, new)
    BY <1>4, <2>1 DEF Cancels, InQueueStatus
  <2>3. state' = Moved(i, LiveStates, "K")
    BY <1>1, <2>1, <2>2 DEF AfterCommand
  <2> QED
    BY <1>4, <2>3, MovedAway
<1>9. AsSaved(p, owner[i])'
  BY <1>1, <1>2, <1>4, <1>7, <1>8 DEF AsSaved
<1> QED
  BY <1>1, <1>2, <1>7, <1>8, <1>9 DEF Pending

\* setstatus has changed all its jobs.
LEMMA PendingSetStatusEnds ==
  ASSUME TypeOK, PlaceInv, DueInv, NEW p \in Procs, NEW i \in Ids, Due(p, i)', SetStatusEnds(p)
  PROVE  Pending(p, i)'
<1> DEFINE j == owner[i]
           m == mem[p]
           last == WithLastIds(SetStatusUpdate(m), cmd[p].jobs)
<1>1. /\ pc[p] = "change" /\ todo[p] = {} /\ mem' = [mem EXCEPT ![p] = last]
      /\ Saving(p, "exit")
      /\ UNCHANGED <<cmd, upd, list, owner, missed, state, reach>>
  BY DEF SetStatusEnds, diskVars, remoteVars
<1>2. mem'[p] = last /\ pc'[p] = "save" /\ after'[p] = "exit"
  BY <1>1, Zenon DEF TypeOK, Saving, Go
<1>3. cmd'[p].name = "setstatus"
  BY <1>1 DEF PlaceInv, Fits
<1>4. Due(p, i)
  BY <1>1 DEF Due, Accounts, MustCancel, Has
<1>5. AsSaved(p, j) /\ j \notin cmd[p].jobs
  BY <1>1, <1>4 DEF DueInv, Pending
<1>6. j \in Jobs /\ list.status[j] \in InQueueStatus
  BY <1>4, DueCommands
<1>7. ASSUME upd = NoEdit PROVE last.id[j] = m.id[j] /\ last.status[j] = m.status[j]
  <2>1. SetStatusUpdate(m) = Retried(m)
    BY <1>7 DEF SetStatusUpdate, Edited
  <2>2. m.status[j] # "FAILED"
    BY <1>5, <1>6 DEF AsSaved, InQueueStatus
  <2>3. Retried(m).status[j] = m.status[j] /\ Retried(m).id[j] = m.id[j]
    BY <1>6, <2>2 DEF Retried, Retries
  <2>4. m \in Lists
    BY DEF TypeOK
  <2>5. Retried(m) \in Lists
    BY <2>4, RetriedType
  <2> HIDE DEF m
  <2>6. WithLastIds(Retried(m), cmd[p].jobs).id[j] = Retried(m).id[j]
        /\ WithLastIds(Retried(m), cmd[p].jobs).status[j] = Retried(m).status[j]
    BY <1>5, <1>6, <2>5 DEF WithLastIds, Lists
  <2> QED
    BY <2>1, <2>3, <2>6
<1> QED
  BY <1>1, <1>2, <1>3, <1>5, <1>7 DEF Pending, AsSaved

\* p saves the list.
LEMMA PendingSaves ==
  ASSUME TypeOK, SavesInv, DueInv, NEW p \in Procs, NEW i \in Ids, Due(p, i)',
         BeginSave(p) \/ EndSave(p)
  PROVE  Pending(p, i)'
<1>1. CASE BeginSave(p)
  <2>1. /\ pc[p] = "save" /\ pc'[p] = "writing"
        /\ UNCHANGED <<cmd, upd, owner, missed, state, reach, mem, after>>
    BY <1>1 DEF BeginSave, Go, localVars, remoteVars, TypeOK
  <2>2. list' = list
    BY <1>1, NextDueCommands, MarksAssumption DEF BeginSave
  <2>3. Due(p, i)
    BY <2>1, <2>2 DEF Due, Accounts, MustCancel, Has
  <2>4. Pending(p, i)
    BY <2>3 DEF DueInv
  <2> QED
    BY <2>1, <2>2, <2>4 DEF Pending, AsSaved
<1>2. CASE EndSave(p)
  <2>1. /\ pc'[p] = after[p] /\ after[p] \in Onward
        /\ list' = mem[p] /\ UNCHANGED <<mem, owner>>
    BY <1>2 DEF EndSave, Go, localVars, remoteVars, TypeOK, SavesInv, AfterInv
  <2> QED
    BY <2>1 DEF Pending, AsSaved, Onward
<1> QED
  BY <1>1, <1>2

\* recovery and stop decide what they cancel.
LEMMA PendingChosen ==
  ASSUME TypeOK, PlaceInv, DueInv, NEW p \in Procs, NEW i \in Ids, Due(p, i)',
         (RecoveryActive(p) /\ ~End(p)) \/ Select(p)
  PROVE  Pending(p, i)'
<1>1. UNCHANGED <<cmd, list, owner, missed, state, reach, mem>> /\ pc[p] \in {"active", "select"}
  BY DEF RecoveryActive, Select, diskVars, remoteVars
<1>2. Due(p, i)
  BY <1>1 DEF Due, Accounts, MustCancel, Has
<1>3. AsSaved(p, owner[i])
  BY <1>1, <1>2 DEF DueInv, Pending
<1>4. owner[i] \in Jobs /\ list.id[owner[i]] = i /\ list.status[owner[i]] \in MustCancel(p)
  BY <1>2 DEF Due, Accounts
<1>5. CASE RecoveryActive(p) /\ ~End(p)
  <2>1. pc'[p] = "cancel"
    BY <1>5 DEF RecoveryActive, Go, TypeOK
  <2>2. cmd[p].name = "recovery"
    BY <1>5 DEF RecoveryActive, PlaceInv, Fits
  <2>3. reach[p] /\ ~Has(p, "offline") /\ list.status[owner[i]] \in InQueueStatus
    BY <1>4, <2>2 DEF MustCancel
  <2>4. Has(p, "save") => owner[i] \in todo'[p]
    BY <1>3, <1>4, <1>5, <2>3 DEF RecoveryActive, InQueue, AsSaved, TypeOK
  <2> QED
    BY <1>1, <1>3, <1>4, <2>1, <2>2, <2>4 DEF Pending, AsSaved, Has
<1>6. CASE Select(p)
  <2>1. cmd[p].name = "stop"
    BY <1>6 DEF Select, PlaceInv, Fits
  <2>2. owner[i] \in Selected(mem[p])
    BY <1>3, <1>4, <2>1 DEF MustCancel, Selected, AsSaved
  <2>3. pc'[p] = "cancel" /\ owner[i] \in todo'[p]
    BY <1>6, <2>2 DEF Select, Go, TypeOK
  <2> QED
    BY <1>1, <1>3, <1>4, <2>3 DEF Pending, AsSaved
<1> QED
  BY <1>5, <1>6

\* One job is cancelled, or the command is lost.
LEMMA PendingCancel ==
  ASSUME TypeOK, DueInv, NEW p \in Procs, NEW i \in Ids, Due(p, i)', NEW j \in Jobs, Cancel(p, j)
  PROVE  Pending(p, i)'
<1>1. /\ pc[p] = "cancel" /\ todo' = [todo EXCEPT ![p] = @ \ {j}]
      /\ UNCHANGED <<pc, cmd, list, owner, reach>>
      /\ mem' = mem \/ mem' = [mem EXCEPT ![p].status[j] = cmd[p].target]
      /\ \/ state' = Moved(mem[p].id[j], LiveStates, "K") /\ UNCHANGED missed
         \/ missed' = missed \cup ({mem[p].id[j]} \cap Ids) /\ UNCHANGED state
  BY DEF Cancel, diskVars
<1>2. mem'[p].id = mem[p].id /\ todo'[p] = todo[p] \ {j}
  BY <1>1 DEF TypeOK, Lists
<1>3. state[i] \in LiveStates \ {"H"} /\ i \notin missed /\ i # mem[p].id[j]
  BY <1>1, MovedAway DEF Due
<1>4. Due(p, i)
  BY <1>1, <1>3 DEF Due, Accounts, MustCancel, Has
<1>5. Pending(p, i)
  BY <1>4 DEF DueInv
<1> QED
  BY <1>1, <1>2, <1>3, <1>5 DEF Pending, Has

\* recovery and stop have cancelled what they had to, and what is left is not theirs.
LEMMA PendingDone ==
  ASSUME TypeOK, PlaceInv, DueInv, NEW p \in Procs, NEW i \in Ids, Due(p, i)',
         Recover(p) \/ CancelJobsEnds(p)
  PROVE  Pending(p, i)'
<1>1. /\ pc[p] = "cancel" /\ todo[p] = {}
      /\ UNCHANGED <<cmd, list, owner, missed, state, reach>>
  BY Zenon DEF Recover, CancelJobsEnds, diskVars, remoteVars
<1>2. Due(p, i)
  BY <1>1 DEF Due, Accounts, MustCancel, Has
<1>3. ~(cmd[p].name = "stop" \/ Has(p, "save"))
  BY <1>1, <1>2 DEF DueInv, Pending
<1>4. Go(p, "exit")
  BY <1>3, Zenon DEF Recover, CancelJobsEnds
<1> QED
  BY <1>4, PendingElsewhere DEF Go, TypeOK, Working

LEMMA PendingOwn ==
  ASSUME TypeOK, SavesInv, PlaceInv, DueInv, NEW p \in Procs, NEW i \in Ids, Due(p, i)',
         Locking(p) \/ Saves(p) \/ Run(p) \/ Locked(p) \/ Recovery(p) \/ Stop(p) \/ Kill(p)
  PROVE  Pending(p, i)'
<1>1. CASE End(p)
  BY <1>1, PendingElsewhere DEF End, TypeOK, Working
<1>2. CASE cmd'[p] = cmd[p] /\ cmd[p].name \notin Cancelling
  BY <1>2, NextDueCommands
<1>3. CASE Acquire(p)
  BY <1>3, PendingElsewhere DEF Acquire, Go, TypeOK, Working
<1>4. CASE Run(p)
  <2>1. UNCHANGED cmd /\ cmd[p].name = "run"
    BY <1>4 DEF Run, RunBegins, Iteration, Submit, Submitted, Turn, RunEnds, PlaceInv, Fits
  <2> QED
    BY <1>2, <2>1 DEF Cancelling
<1>5. CASE RemoveList(p) \/ Create(p)
  <2>1. UNCHANGED cmd /\ cmd[p].name = "create"
    BY <1>5 DEF RemoveList, Create, localVars
  <2> QED
    BY <1>2, <2>1 DEF Cancelling
<1>6. ASSUME NEW j \in Jobs, Change(p, j) PROVE Pending(p, i)'
  BY <1>1, <1>6, PendingChange
<1>7. ASSUME NEW j \in Jobs, Cancel(p, j) PROVE Pending(p, i)'
  BY <1>7, PendingCancel
<1>8. CASE Stopped(p)
  <2>1. End(p) \/ Saving(p, "select")
    BY <1>8 DEF Stopped
  <2>2. ASSUME Saving(p, "select") PROVE Pending(p, i)'
    <3>1. pc'[p] = "save" /\ after'[p] = "select"
      BY <2>2 DEF Saving, Go, TypeOK
    <3> QED
      BY <3>1 DEF Pending
  <2> QED
    BY <1>1, <2>1, <2>2
<1>9. ASSUME NEW r \in Procs, Interrupt(p, r) \/ Terminate(p, r) PROVE Pending(p, i)'
  <2>1. pc'[p] \in {"idle", "wait"}
    BY <1>9 DEF Interrupt, Terminate, Go, TypeOK
  <2> QED
    BY <2>1, PendingElsewhere DEF Working
<1>10. CASE Locking(p) \/ Saves(p) \/ Kill(p)
  BY <1>1, <1>3, <1>10, PendingSaves DEF Locking, Refused, CannotLoad, Saves, Leave, Kill
<1>11. CASE Locked(p)
  BY <1>1, <1>5, <1>6, <1>11, PendingRead, PendingSetStatusEnds DEF Locked, PklFix
<1>12. CASE Recovery(p)
  BY <1>1, <1>7, <1>12, PendingRead, PendingChosen, PendingDone DEF Recovery, NoConnection
<1>13. CASE Stop(p)
  BY <1>1, <1>8, <1>9, <1>13, PendingChosen, PendingDone DEF Stop, NothingToStop
<1> QED
  BY <1>4, <1>10, <1>11, <1>12, <1>13

LEMMA DueStep == ASSUME TypeOK, SavesInv, PlaceInv, DueInv, [Next]_vars PROVE DueInv'
<1> SUFFICES ASSUME NEW p \in Procs, NEW i \in Ids, Due(p, i)' PROVE Pending(p, i)'
  BY DEF DueInv
<1>1. ASSUME NEW q \in Procs,
             Locking(q) \/ Saves(q) \/ Run(q) \/ Locked(q) \/ Recovery(q) \/ Stop(q) \/ Kill(q)
      PROVE  Pending(p, i)'
  BY <1>1, PendingOwn, PendingBeside
<1>2. ASSUME NEW q \in Procs, NEW c \in Requests, Start(q, c) PROVE Pending(p, i)'
  <2>1. CASE q = p
    BY <1>2, <2>1, PendingElsewhere DEF Start, Go, TypeOK, Working
  <2>2. CASE q # p
    BY <1>2, <2>2, PendingStays DEF Start, Go, diskVars, remoteVars, TypeOK
  <2> QED
    BY <2>1, <2>2
<1>3. ASSUME NEW e \in Edits, Edit(e) PROVE Pending(p, i)'
  BY <1>3, PendingStays DEF Edit, localVars, remoteVars
<1>4. ASSUME NEW k \in Ids, JobStarts(k) \/ JobEnds(k) PROVE Pending(p, i)'
  <2>1. state'[i] \in LiveStates \ {"H"} => state[i] \in LiveStates \ {"H"}
    BY <1>4 DEF JobStarts, JobEnds, LiveStates, TypeOK
  <2> QED
    BY <1>4, <2>1, PendingStays DEF JobStarts, JobEnds, localVars, diskVars
<1>5. CASE UNCHANGED vars
  BY <1>5, PendingStays DEF vars, localVars, diskVars, remoteVars
<1> QED
  BY <1>1, <1>2, <1>3, <1>4, <1>5 DEF Next, Users, Scheduler

-----------------------------------------------------------------------------
(* The pass of recovery over the list.                                     *)

\* What the pass over the first k jobs takes back, if f is what it takes back before.
UpTo(m, f, k) ==
  IF k = 0 THEN {}
  ELSE LET j == setting.order[k]
       IN f[k - 1] \cup
            {i \in {j} : /\ m.status[i] = "COMPLETED"
                        /\ \E p \in Parents[i] : m.status[p] = "WAITING" \/ p \in f[k - 1]}

Pass(m, f, n) == f = [k \in 0..n |-> UpTo(m, f, k)]

LEMMA TakenBackIs ==
  ASSUME NEW m
  PROVE  TakenBack(m) = (CHOOSE f : Pass(m, f, Len(setting.order)))[Len(setting.order)]
BY DEF TakenBack, UpTo, Pass

LEMMA LeastNumber ==
  ASSUME NEW T, T \subseteq Nat, T # {}
  PROVE  \E n \in T : \A k \in T : n <= k
<1>1. PICK n \in T : \A k \in T : ~ (<<k, n>> \in OpToRel(<, Nat))
  BY NatLessThanWellFounded, WFMin
<1>2. \A k \in T : ~ (k < n)
  BY <1>1 DEF OpToRel
<1> QED
  BY <1>2

\* There is such a function.
LEMMA PassExists ==
  ASSUME NEW m, NEW n \in Nat, \A k \in 1..n : setting.order[k] \in Jobs
  PROVE  \E f : Pass(m, f, n)
<1> DEFINE Is(f, b) == f \in [0..b -> SUBSET Jobs] /\ \A k \in 0..b : f[k] = UpTo(m, f, k)
           Bad == {b \in 0..n : ~ \E f \in [0..b -> SUBSET Jobs] : Is(f, b)}
<1>1. CASE Bad = {}
  <2>1. \E f \in [0..n -> SUBSET Jobs] : Is(f, n)
    <3> HIDE DEF Is
    <3>1. n \in 0..n /\ n \notin Bad
      BY <1>1
    <3> QED
      BY <3>1
  <2>2. PICK f \in [0..n -> SUBSET Jobs] : Is(f, n)
    BY <2>1
  <2>3. f = [k \in 0..n |-> UpTo(m, f, k)]
    BY <2>2
  <2> QED
    BY <2>3 DEF Pass
<1>2. CASE Bad # {}
  <2>1. PICK b \in Bad : \A k \in Bad : b <= k
    <3> HIDE DEF Is
    <3>1. Bad \subseteq Nat
      OBVIOUS
    <3> QED
      BY <1>2, <3>1, LeastNumber
  <2>2. CASE b = 0
    <3>1. Is([k \in 0..0 |-> {}], 0)
      BY DEF UpTo
    <3> QED
      BY <2>1, <2>2, <3>1
  <2>3. CASE b # 0
    <3>1. b - 1 \in 0..n /\ b - 1 \notin Bad /\ b \in 1..n
      BY <2>1, <2>3
    <3>2. PICK f \in [0..(b - 1) -> SUBSET Jobs] : Is(f, b - 1)
      BY <3>1
    <3> DEFINE g == [k \in 0..b |-> IF k = b THEN UpTo(m, f, b) ELSE f[k]]
    <3>3. UpTo(m, f, b) \in SUBSET Jobs
      BY <3>1, <3>2 DEF UpTo
    <3>4. g \in [0..b -> SUBSET Jobs]
      BY <3>1, <3>3
    <3>5. \A k \in 0..(b - 1) : g[k] = f[k]
      BY <3>1
    <3>6. ASSUME NEW k \in 0..b PROVE UpTo(m, g, k) = UpTo(m, f, k)
      <4>1. k # 0 => g[k - 1] = f[k - 1]
        BY <3>1, <3>5
      <4> HIDE DEF g
      <4> QED
        BY <4>1 DEF UpTo
    <3>7. ASSUME NEW k \in 0..b PROVE g[k] = UpTo(m, g, k)
      <4>1. CASE k = b
        BY <3>6, <4>1
      <4>2. CASE k # b
        BY <3>2, <3>6, <4>2, <3>1
      <4> QED
        BY <4>1, <4>2
    <3>8. Is(g, b)
      <4> HIDE DEF g
      <4> QED
        BY <3>4, <3>7
    <3> QED
      BY <2>1, <3>4, <3>8
  <2> QED
    BY <2>2, <2>3
<1> QED
  BY <1>1, <1>2

\* It grows, and what it has it got when it came to it.
Grown(f, n) ==
  /\ \A b \in 0..n : \A a \in 0..b : f[a] \subseteq f[b]
  /\ \A b \in 0..n : \A j \in f[b] : \E k \in 1..b : setting.order[k] = j /\ j \in f[k]

LEMMA PassGrows ==
  ASSUME NEW m, NEW n \in Nat, NEW f, Pass(m, f, n)
  PROVE  Grown(f, n)
<1>1. f[0] = {} /\ \A k \in 1..n : /\ f[k - 1] \subseteq f[k]
                                  /\ f[k] \subseteq f[k - 1] \cup {setting.order[k]}
  <2>1. \A k \in 0..n : f[k] = UpTo(m, f, k)
    BY DEF Pass
  <2>2. UpTo(m, f, 0) = {}
    BY DEF UpTo
  <2>3. ASSUME NEW k \in 1..n
        PROVE  /\ f[k - 1] \subseteq UpTo(m, f, k)
               /\ UpTo(m, f, k) \subseteq f[k - 1] \cup {setting.order[k]}
    BY DEF UpTo
  <2> QED
    BY <2>1, <2>2, <2>3
<1> DEFINE Grows(b) == \A a \in 0..b : f[a] \subseteq f[b]
           Came(b) == \A j \in f[b] : \E k \in 1..b : setting.order[k] = j /\ j \in f[k]
           Bad == {b \in 0..n : ~ (Grows(b) /\ Came(b))}
<1>2. ASSUME Bad # {} PROVE FALSE
  <2>1. PICK b \in Bad : \A k \in Bad : b <= k
    <3> HIDE DEF Grows, Came
    <3>1. Bad \subseteq Nat
      OBVIOUS
    <3> QED
      BY <1>2, <3>1, LeastNumber
  <2>2. CASE b = 0
    BY <1>1, <2>1, <2>2
  <2>3. CASE b # 0
    <3>1. b - 1 \in 0..n /\ b - 1 \notin Bad /\ b \in 1..n
      <4> HIDE DEF Grows, Came
      <4> QED
        BY <2>1, <2>3
    <3>2. Grows(b - 1) /\ Came(b - 1)
      BY <3>1
    <3>3. f[b - 1] \subseteq f[b] /\ f[b] \subseteq f[b - 1] \cup {setting.order[b]}
      BY <1>1, <3>1
    <3>4. Grows(b)
      BY <3>1, <3>2, <3>3
    <3>5. Came(b)
      BY <3>1, <3>2, <3>3
    <3> QED
      BY <2>1, <3>4, <3>5
  <2> QED
    BY <2>2, <2>3
<1> QED
  BY <1>2 DEF Grown

\* Above what stays COMPLETED nothing waits, and nothing was taken back.
LEMMA NothingWaitsAbove ==
  ASSUME ParentsFirst, setting \in Settings, NEW m, NEW j \in Jobs,
         m.status[j] = "COMPLETED", j \notin TakenBack(m), NEW q \in Parents[j], q \in Jobs
  PROVE  m.status[q] # "WAITING" /\ q \notin TakenBack(m)
<1> DEFINE n == Len(setting.order)
<1>1. n \in Nat /\ \A k \in 1..n : setting.order[k] \in Jobs
  BY DEF ParentsFirst
<1> HIDE DEF n
<1>2. PICK f : Pass(m, f, n) /\ TakenBack(m) = f[n]
  <2>1. \E f : Pass(m, f, n)
    BY <1>1, PassExists
  <2>2. TakenBack(m) = (CHOOSE f : Pass(m, f, n))[n]
    BY TakenBackIs DEF n
  <2> QED
    BY <2>1, <2>2
<1>3. Grown(f, n)
  BY <1>1, <1>2, PassGrows
<1>4. PICK k \in 1..n : setting.order[k] = j
  BY DEF ParentsFirst, n
<1>5. k - 1 \in 0..n /\ k \in 0..n /\ n \in 0..n /\ k # 0
  BY <1>1
<1>6. j \notin f[k]
  BY <1>2, <1>3, <1>5 DEF Grown
<1>7. m.status[q] # "WAITING" /\ q \notin f[k - 1]
  <2>1. f[k] = UpTo(m, f, k)
    BY <1>2, <1>5 DEF Pass
  <2> QED
    BY <1>4, <1>5, <1>6, <2>1 DEF UpTo
<1>8. ASSUME q \in f[n] PROVE FALSE
  <2>1. PICK l \in 1..n : setting.order[l] = q /\ q \in f[l]
    BY <1>3, <1>5, <1>8 DEF Grown
  <2>2. l < k
    BY <1>4, <2>1 DEF ParentsFirst, n
  <2>3. l \in 0..(k - 1)
    BY <1>1, <2>2
  <2> QED
    BY <1>3, <1>5, <1>7, <2>1, <2>3 DEF Grown
<1> QED
  BY <1>2, <1>7, <1>8

\* What recovery --all makes of the list.
LEMMA RecoveredAll ==
  ASSUME Installation, ParentsFirst, setting \in Settings, upd = NoEdit, NEW m \in Lists, NEW names,
         NEW j \in Jobs, Update(Checked(Recovered(m, Jobs, names))).status[j] = "COMPLETED",
         NEW q \in Parents[j]
  PROVE  Update(Checked(Recovered(m, Jobs, names))).status[q] \notin {"WAITING", "READY"}
<1> DEFINE r == Recovered(m, Jobs, names)
           c == Checked(r)
<1>1. q \in Jobs
  BY JobsAssumption
<1>2. r \in Lists /\ \A i \in Jobs : r.status[i] \in {"COMPLETED", "SUSPENDED", "WAITING"}
  <2>1. r \in Lists
    BY RecoveredType
  <2>2. \A i \in Jobs : r.status[i] \in {"COMPLETED", "SUSPENDED", "WAITING"}
    BY DEF Recovered, Lists
  <2> QED
    BY <2>1, <2>2
<1> HIDE DEF r
<1>3. /\ c \in Lists
      /\ \A i \in Jobs : c.status[i] = IF i \in TakenBack(r) THEN "WAITING" ELSE r.status[i]
  <2>1. c \in Lists
    BY <1>2, CheckedType
  <2>2. ASSUME NEW S, NEW i \in Jobs
        PROVE  WithoutThem(r, S).status[i] = IF i \in S THEN "WAITING" ELSE r.status[i]
    BY <1>2 DEF WithoutThem, Lists
  <2> QED
    BY <2>1, <2>2 DEF Checked
<1> HIDE DEF c
<1>4. \A i \in Jobs : ~Retries(c, i)
  BY <1>2, <1>3 DEF Retries
<1>5. Retried(c) \in Lists /\ \A i \in Jobs : Retried(c).status[i] = c.status[i]
  <2>1. \A i \in Jobs : Retried(c).status[i] = c.status[i]
    BY <1>4 DEF Retried
  <2> QED
    BY <1>3, <2>1, RetriedType
<1>6. ASSUME NEW l \in Lists, NEW i \in Jobs
      PROVE  \/ Released(l).status[i] = l.status[i]
             \/ l.status[i] = "WAITING" /\ Released(l).status[i] = "READY"
  BY DEF Released, Lists
<1>7. Update(c) = Released(Retried(c))
  BY DEF Update, Edited
<1>8. r.status[j] = "COMPLETED" /\ j \notin TakenBack(r)
  BY <1>3, <1>5, <1>6, <1>7 DEF c, r
<1>9. r.status[q] # "WAITING" /\ q \notin TakenBack(r)
  BY <1>1, <1>8, NothingWaitsAbove
<1>10. c.status[q] \in {"COMPLETED", "SUSPENDED"}
  BY <1>1, <1>2, <1>3, <1>9
<1>11. Update(c).status[q] = c.status[q]
  BY <1>1, <1>5, <1>6, <1>7, <1>10
<1> QED
  BY <1>10, <1>11 DEF c, r

-----------------------------------------------------------------------------
(* The theorems.                                                           *)

LEMMA SavesStep == ASSUME Installation, TypeOK, SavesInv, [Next]_vars PROVE SavesInv'
<1>1. ASSUME NEW p \in Procs, Locking(p) \/ Saves(p) \/ Kill(p) PROVE SavesInv'
  BY <1>1, AcquireSaves, EndSaves, EndSaveSaves, GoesOnSaves
     DEF Locking, Saves, Refused, CannotLoad, Leave, Kill, GoesOn
<1>2. ASSUME NEW p \in Procs, Run(p) PROVE SavesInv'
  <2>1. ASSUME NEW j \in Jobs, NEW i \in Ids, Submit(p, j, i) PROVE SavesInv'
    BY <2>1, StillSaves DEF Submit
  <2> QED
    BY <1>2, <2>1, GoesOnSaves DEF Run, GoesOn
<1>3. ASSUME NEW p \in Procs, Locked(p) PROVE SavesInv'
  <2>1. ASSUME NEW j \in Jobs, Change(p, j) PROVE SavesInv'
    <3>1. End(p) \/ UNCHANGED <<pc, cmd, holder, stale, after>>
      BY <2>1, Zenon DEF Change
    <3> QED
      BY <3>1, EndSaves, StillSaves
  <2>2. CASE RemoveList(p) \/ PklFix(p)
    BY <2>2, EndSaves, StillSaves DEF RemoveList, PklFix, localVars
  <2> QED
    BY <1>3, <2>1, <2>2, GoesOnSaves DEF Locked, GoesOn
<1>4. ASSUME NEW p \in Procs, Recovery(p) PROVE SavesInv'
  <2>1. ASSUME NEW j \in Jobs, Cancel(p, j) PROVE SavesInv'
    BY <2>1, StillSaves DEF Cancel
  <2>2. CASE NoConnection(p)
    BY <2>2, EndSaves DEF NoConnection
  <2>3. CASE RecoveryActive(p)
    <3>1. End(p) \/ Go(p, "cancel")
      BY <2>3, Zenon DEF RecoveryActive
    <3> QED
      BY <2>3, <3>1, EndSaves, GoesOnSaves DEF GoesOn
  <2> QED
    BY <1>4, <2>1, <2>2, <2>3, GoesOnSaves DEF Recovery, GoesOn
<1>5. ASSUME NEW p \in Procs, Stop(p) PROVE SavesInv'
  BY <1>5, EndSaves, StopSaves, GoesOnSaves DEF Stop, NothingToStop, GoesOn
<1>6. CASE Users \/ Scheduler
  <2>1. ASSUME NEW e \in Edits, Edit(e) PROVE SavesInv'
    BY <2>1, StillSaves DEF Edit, localVars
  <2>2. ASSUME NEW i \in Ids, JobStarts(i) \/ JobEnds(i) PROVE SavesInv'
    BY <2>2, StillSaves DEF JobStarts, JobEnds, localVars
  <2> QED
    BY <1>6, <2>1, <2>2, StartSaves DEF Users, Scheduler
<1>7. CASE UNCHANGED vars
  BY <1>7, StillSaves DEF vars, localVars
<1> QED
  BY <1>1, <1>2, <1>3, <1>4, <1>5, <1>6, <1>7 DEF Next

LEMMA TypesStep == ASSUME Installation, TypeOK, SavesInv, OwnedInv, [Next]_vars PROVE TypeOK'
<1>1. CASE UNCHANGED vars
  BY <1>1, RestTypes, TypesAreNext DEF vars, localVars
<1> QED
  BY <1>1, LockingTypes, RunTypes, LockedTypes, RecoveryTypes, StopTypes, OutsideTypes DEF Next

CommandsInv == TypeOK /\ OwnedInv /\ SavesInv /\ Restorable /\ PlaceInv /\ DueInv

LEMMA InitCommands == Installation /\ Init => CommandsInv
<1> SUFFICES ASSUME Installation, Init PROVE CommandsInv
  OBVIOUS
<1>1. TypeOK /\ SavesInv
  BY InitTypes, InitSaves
<1>2. OwnedInv
  BY DEF Init, OwnedInv, LiveStates
<1>3. Restorable
  <2>1. Generated(NoList) \in Lists
    BY GeneratedType
  <2> QED
    BY <2>1 DEF Init, Restorable, ListWhole, BackupInv, Installation
<1>4. PlaceInv
  BY DEF Init, PlaceInv, Fits
<1>5. DueInv
  BY DEF Init, DueInv, Due, LiveStates
<1> QED
  BY <1>1, <1>2, <1>3, <1>4, <1>5 DEF CommandsInv

LEMMA CommandsInductive == ASSUME Installation PROVE Spec => []CommandsInv
<1>1. CommandsInv /\ [Next]_vars => CommandsInv'
  BY TypesStep, OwnedStep, SavesStep, RestorableStep, PlaceStep, DueStep DEF CommandsInv
<1> QED
  BY <1>1, InitCommands, PTL DEF Spec

\* Every variable keeps its type, whatever the users ask for: no command leaves the list, a
\* job's status or a process's place outside what the others expect (Commands.TypeOK).
THEOREM CommandTypesCorrect == ASSUME Installation PROVE Spec => []TypeOK
BY CommandsInductive, PTL DEF CommandsInv

\* Whatever commands run side by side and whichever are killed between whatever steps, the
\* pkl file is a whole list or was removed by create -f, and nobody writes a list made from
\* one that another process has replaced since.
THEOREM ListsAreKept == ASSUME Installation PROVE Spec => []ListKept
<1>1. CommandsInv => ListKept
  <2>1. SavesInv => SavesInTurn
    BY DEF SavesInv, StaleInv, SavesInTurn
  <2> QED
    BY <2>1 DEF CommandsInv, Restorable, ListKept
<1> QED
  BY <1>1, CommandsInductive, PTL

\* No command makes the list forget an attempt that is alive and that it had to cancel,
\* unless the cancel command got lost: when the list is saved for the last time, everything
\* that was due is done (Commands.ForgetsOnlyCancelled).
THEOREM OnlyCancelledAreForgotten == ASSUME Installation PROVE Spec => ForgetsOnlyCancelled
<1> DEFINE Forgets ==
             \A p \in Procs, i \in Ids :
               /\ EndSave(p) /\ after[p] = "exit"
               /\ state[i] \in LiveStates \ {"H"}
               /\ Accounts(list, i, MustCancel(p))
               /\ upd = NoEdit
               => i \in missed \/ Accounts(mem[p], i, InQueueStatus \cup {"SUSPENDED"})
<1>1. CommandsInv => Forgets
  <2> SUFFICES ASSUME CommandsInv, NEW p \in Procs, NEW i \in Ids, EndSave(p), after[p] = "exit",
                      state[i] \in LiveStates \ {"H"}, Accounts(list, i, MustCancel(p)),
                      upd = NoEdit, i \notin missed
               PROVE  Accounts(mem[p], i, InQueueStatus \cup {"SUSPENDED"})
    OBVIOUS
  <2>1. Due(p, i)
    BY DEF Due
  <2>2. AsSaved(p, owner[i])
    BY <2>1 DEF CommandsInv, DueInv, Pending, EndSave
  <2>3. mem[p] \in Lists
    BY DEF CommandsInv, TypeOK
  <2> QED
    BY <2>1, <2>2, <2>3, DueCommands DEF Accounts, AsSaved
<1> QED
  BY <1>1, CommandsInductive, PTL DEF ForgetsOnlyCancelled

\* Where the list is in an order of the workflow, one pass over it is enough: recovery --all
\* leaves nothing COMPLETED below a job that runs again (Commands.RecoveredInOrder).
THEOREM RecoveriesKeepOrder ==
  ASSUME Installation, ParentsFirst PROVE Spec => RecoveredInOrder
<1> DEFINE InOrder ==
             \A p \in Procs :
               Recover(p) /\ Has(p, "all") /\ upd = NoEdit =>
                 \A j \in Jobs : mem'[p].status[j] = "COMPLETED" =>
                   \A q \in Parents[j] : mem'[p].status[q] \notin {"WAITING", "READY"}
<1>1. CommandsInv => InOrder
  <2> SUFFICES ASSUME CommandsInv, NEW p \in Procs, Recover(p), Has(p, "all"), upd = NoEdit,
                      NEW j \in Jobs, mem'[p].status[j] = "COMPLETED", NEW q \in Parents[j]
               PROVE  mem'[p].status[q] \notin {"WAITING", "READY"}
    OBVIOUS
  <2> DEFINE m == Update(Checked(Recovered(mem[p], Jobs, found[p])))
             over == {i \in Jobs : m.status[i] \in {"COMPLETED", "FAILED", "SKIPPED"}}
  <2>1. TypeOK /\ setting \in Settings /\ mem[p] \in Lists
    BY DEF CommandsInv, TypeOK
  <2>2. mem' = [mem EXCEPT ![p] = m] \/ mem' = [mem EXCEPT ![p] = WithLastIds(m, over)]
    BY Zenon DEF Recover
  <2>3. m \in Lists
    BY <2>1, RecoveredType, CheckedType, UpdateTypes
  <2> HIDE DEF m
  <2>4. WithLastIds(m, over).status = m.status
    BY <2>3 DEF WithLastIds, Lists
  <2>5. mem'[p].status = m.status
    <3> HIDE DEF over
    <3> QED
      BY <2>1, <2>2, <2>4 DEF TypeOK
  <2> QED
    BY <2>1, <2>5, RecoveredAll DEF m
<1> QED
  BY <1>1, CommandsInductive, PTL DEF RecoveredInOrder
=============================================================================
