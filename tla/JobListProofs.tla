---------------------------- MODULE JobListProofs ----------------------------
(***************************************************************************)
(* Proofs about JobList for every workflow, every choice of the constants  *)
(* and every combination of faults: types, the invariants about            *)
(* dependencies and _COMPLETED files, that JobList implements Workflow,    *)
(* what is left when a run ends, and the ids: an id that is saved is that  *)
(* of a submission of the job, where one script submits all jobs no other  *)
(* submission of the job is left in the queue, and where they are          *)
(* submitted one by one the saved list misses no more submissions than     *)
(* things went wrong.                                                      *)
(***************************************************************************)
EXTENDS JobList, FiniteSetTheorems, SequenceTheorems, TLAPS

-----------------------------------------------------------------------------
(* Facts about the data.                                                   *)

\* The statuses, listed.
LEMMA Statuses ==
  /\ Status = {"WAITING", "DELAYED", "PREPARED", "READY", "SUBMITTED", "HELD",
               "QUEUING", "RUNNING", "SKIPPED", "FAILED", "UNKNOWN",
               "COMPLETED", "SUSPENDED"}
  /\ DOMAIN QueueGroup = InQueueStatus
  /\ InQueueStatus = {"SUBMITTED", "RUNNING", "QUEUING", "UNKNOWN", "HELD"}
  /\ DoneStatus = {"COMPLETED", "SKIPPED"}
  /\ VolatileStatus = {"READY", "DELAYED", "PREPARED"}
BY DEF Status, LogicalOrder, QueueGroup, InQueueStatus, DoneStatus, VolatileStatus

\* A list of the elements of S is a sequence with exactly them.
LEMMA OrdersType ==
  ASSUME NEW S \in SUBSET Jobs, NEW q \in Orders(S)
  PROVE  q \in Seq(Jobs) /\ Range(q) = S
<1>1. Cardinality(S) \in Nat
  BY JobsAssumption, FS_Subset, FS_CardinalityType
<1>2. q \in [1..Cardinality(S) -> Jobs] /\ Range(q) = S
  BY DEF Orders
<1> QED
  BY <1>1, <1>2

\* Taking the first element off a sequence leaves only elements it had.
LEMMA HeadAndTail ==
  ASSUME NEW S, NEW q \in Seq(S), q # <<>>
  PROVE  /\ Head(q) \in S /\ Head(q) \in Range(q)
         /\ Tail(q) \in Seq(S) /\ Range(Tail(q)) \subseteq Range(q)
<1>1. /\ Head(q) \in S /\ Tail(q) \in Seq(S)
      /\ Len(Tail(q)) = Len(q) - 1
      /\ \A i \in 1 .. Len(Tail(q)) : Tail(q)[i] = q[i + 1]
  BY HeadTailProperties
<1>2. Len(q) \in Nat \ {0} /\ DOMAIN q = 1 .. Len(q) /\ Head(q) = q[1]
  BY EmptySeq, LenProperties
<1>3. Head(q) \in Range(q)
  BY <1>2 DEF Range
<1>4. Range(Tail(q)) \subseteq Range(q)
  BY <1>1, <1>2, LenProperties DEF Range
<1> QED
  BY <1>1, <1>3, <1>4

\* The jobs that fail with a job are in the queue.
LEMMA FailedWithInQueue ==
  ASSUME NEW m, NEW j \in Jobs, NEW k \in FailedWith(m, j)
  PROVE  k \in Jobs /\ m.status[k] \in {"SUBMITTED", "RUNNING", "QUEUING", "UNKNOWN"}
BY DEF FailedWith

\* What update_list and load make of a job list is a job list.
LEMMA RetryFailedType ==
  ASSUME NEW m \in JobRecords
  PROVE  RetryFailed(m) \in JobRecords
<1> DEFINE again == {j \in Retried(m) :
                       \A p \in Parents[j] : m.status[p] = "COMPLETED"}
<1>1. [j \in Jobs |-> IF j \in again
                    THEN IF j \in HasDelay THEN "DELAYED" ELSE "READY"
                    ELSE IF j \in Retried(m) THEN "WAITING" ELSE m.status[j]]
      \in [Jobs -> Status]
  BY Statuses DEF JobRecords
<1>2. [j \in Jobs |-> IF j \in again THEN NoId ELSE m.id[j]]
      \in [Jobs -> Ids \cup {NoId, 0}]
  BY DEF JobRecords
<1>3. [j \in Jobs |-> IF j \in Retried(m) THEN m.fails[j] + 1 ELSE m.fails[j]]
      \in [Jobs -> Nat]
  BY DEF JobRecords
<1> QED
  BY <1>1, <1>2, <1>3 DEF RetryFailed, JobRecords

LEMMA ForgetFailsType ==
  ASSUME NEW m \in JobRecords
  PROVE  ForgetFails(m) \in JobRecords
BY DEF ForgetFails, JobRecords

LEMMA StartSpecialType ==
  ASSUME NEW m \in JobRecords
  PROVE  StartSpecial(m) \in JobRecords
BY Statuses DEF StartSpecial, JobRecords

LEMMA ResyncType ==
  ASSUME NEW m \in JobRecords
  PROVE  Resync(m) \in JobRecords
BY Statuses DEF Resync, JobRecords

LEMMA ReleaseType ==
  ASSUME NEW m \in JobRecords, NEW expired
  PROVE  Release(m, expired) \in JobRecords
BY Statuses DEF Release, JobRecords

LEMMA SkipOlderType ==
  ASSUME NEW m \in JobRecords
  PROVE  SkipOlder(m) \in JobRecords
BY Statuses DEF SkipOlder, JobRecords

LEMMA UpdateListType ==
  ASSUME NEW m \in JobRecords, NEW first \in BOOLEAN, NEW expired
  PROVE  UpdateList(m, first, expired) \in JobRecords
BY RetryFailedType, ForgetFailsType, StartSpecialType, ResyncType, ReleaseType,
   SkipOlderType
   DEF UpdateList, BeforeSkip

LEMMA LoadType ==
  ASSUME NEW m \in JobRecords
  PROVE  Load(m) \in JobRecords
BY Statuses DEF Load, JobRecords

LEMMA CancelledType ==
  ASSUME state \in [Ids -> States], NEW S
  PROVE  /\ Cancelled(S) \in [Ids -> States]
         /\ \A i \in Ids : Cancelled(S)[i] = "-" <=> state[i] = "-"
BY DEF Cancelled, States, LiveStates

-----------------------------------------------------------------------------
(* Types.                                                                  *)

\* An id the scheduler knows of was handed out for a job.
OwnerKnown == \A i \in Ids : state[i] # "-" => owner[i] \in Jobs

LEMMA InitTypes == Init => TypeOK /\ OwnerKnown
<1> SUFFICES ASSUME Init PROVE TypeOK /\ OwnerKnown
  OBVIOUS
<1>1. mem \in JobRecords /\ disk \in JobRecords
  BY Statuses DEF Init, JobRecords
<1>2. pending \in Seq(Jobs) /\ jobsId \in Seq(Ids) /\ script \in Seq(Jobs)
  BY EmptySeq DEF Init
<1> QED
  BY <1>1, <1>2, Zenon
     DEF Init, TypeOK, OwnerKnown, ProcessPoints, States

\* Losing the memory of the process.
LEMMA LeaveTypes ==
  ASSUME TypeOK, NEW next \in ProcessPoints, Leave(next)
  PROVE  /\ pc' \in ProcessPoints /\ mem' \in JobRecords /\ due' \subseteq Jobs
         /\ checked' \subseteq CheckRecords /\ pending' \in Seq(Jobs)
         /\ dropped' \subseteq Ids \cup {NoId} /\ jobsId' \in Seq(Ids)
BY EmptySeq DEF Leave, TypeOK

LEMMA CancelAndRaiseTypes ==
  ASSUME TypeOK, OwnerKnown, CancelAndRaise, faults' \in Nat
  PROVE  TypeOK' /\ OwnerKnown'
<1>1. PICK named \in SUBSET Range(pending) :
        state' = Cancelled(UNION {Live(j) : j \in named})
  BY DEF CancelAndRaise
<1>2. state' \in [Ids -> States] /\ \A i \in Ids : state'[i] = "-" <=> state[i] = "-"
  BY <1>1, CancelledType DEF TypeOK
<1>3. PICK next \in {"recover", "off"} : Leave(next)
  BY DEF CancelAndRaise
<1>4. next \in ProcessPoints
  BY DEF ProcessPoints
<1> QED
  BY <1>2, <1>3, <1>4, LeaveTypes DEF CancelAndRaise, TypeOK, OwnerKnown

LEMMA LoadUpdateSaveTypes ==
  ASSUME TypeOK, OwnerKnown, LoadUpdateSave, exit' \in BOOLEAN
  PROVE  TypeOK' /\ OwnerKnown'
<1>1. mem' \in JobRecords /\ disk' \in JobRecords
  BY LoadType, UpdateListType DEF LoadUpdateSave, TypeOK
<1>2. state' \in [Ids -> States] /\ \A i \in Ids : state'[i] = "-" <=> state[i] = "-"
  BY CancelledType DEF LoadUpdateSave, TypeOK
<1> QED
  BY <1>1, <1>2
     DEF LoadUpdateSave, TypeOK, OwnerKnown, iterVars, ProcessPoints

LEMMA UpdateAndSaveTypes ==
  ASSUME TypeOK, OwnerKnown, UpdateAndSave, pc' \in ProcessPoints
  PROVE  TypeOK' /\ OwnerKnown'
<1>1. mem' \in JobRecords /\ disk' \in JobRecords
  BY UpdateListType DEF UpdateAndSave, TypeOK
<1>2. state' \in [Ids -> States] /\ \A i \in Ids : state'[i] = "-" <=> state[i] = "-"
  BY CancelledType DEF UpdateAndSave, TypeOK
<1> QED
  BY <1>1, <1>2 DEF UpdateAndSave, TypeOK, OwnerKnown, iterVars

LEMMA PollTypes ==
  ASSUME TypeOK, OwnerKnown, Poll
  PROVE  TypeOK' /\ OwnerKnown'
<1> DEFINE asked == IF exit THEN {} ELSE InQueue(mem)
<1>1. \A j \in asked : j \in Jobs /\ mem.status[j] \in DOMAIN QueueGroup
  BY Statuses DEF InQueue
<1>2. \A s, late : NewStatus(s, late) \in Status
  BY Statuses DEF NewStatus
<1>3. \E hidden, stuck, late : checked' = Answers(asked, hidden, stuck, late)
  BY Zenon DEF Poll
<1>4. checked' \subseteq CheckRecords
  BY <1>1, <1>2, <1>3, Statuses DEF CheckRecords, Answers
<1>5. \E S : state' = Cancelled(S)
  BY Zenon DEF Poll
<1>6. state' \in [Ids -> States] /\ \A i \in Ids : state'[i] = "-" <=> state[i] = "-"
  BY <1>5, CancelledType DEF TypeOK
<1>7. faults' \in Nat
  <2>1. \E hidden, stuck : faults' = IF hidden = stuck THEN faults ELSE faults + 1
    BY Zenon DEF Poll
  <2> QED
    BY <2>1 DEF TypeOK
<1>8. pc' = "update" /\ UNCHANGED <<exit, mem, disk, due, pending, dropped, jobsId,
                                    script, owner, file>>
  BY DEF Poll
<1> QED
  BY <1>4, <1>6, <1>7, <1>8 DEF TypeOK, OwnerKnown, ProcessPoints

LEMMA UpdateStatusTypes ==
  ASSUME TypeOK, OwnerKnown, NEW c \in checked, UpdateStatus(c)
  PROVE  TypeOK' /\ OwnerKnown'
<1> DEFINE s == Confirmed(c.job, c.new)
           m == [mem EXCEPT !.status[c.job] = s]
           failed == FailedWith(m, c.job)
<1>1. c.job \in Jobs /\ c.new \in Status
  BY DEF TypeOK, CheckRecords
<1>2. s \in Status
  BY <1>1, Statuses DEF Confirmed
<1>3. m \in JobRecords
  BY <1>1, <1>2 DEF TypeOK, JobRecords
<1>4. [m EXCEPT !.status = [j \in Jobs |->
         IF j \in failed THEN "FAILED" ELSE m.status[j]]] \in JobRecords
  BY <1>3, Statuses DEF JobRecords
<1>5. mem' \in JobRecords
  BY <1>3, <1>4 DEF UpdateStatus
<1> QED
  BY <1>5 DEF UpdateStatus, TypeOK, OwnerKnown, remoteVars

\* Every other action changes few variables, each by a value of its type.
LEMMA LoopTypes ==
  ASSUME TypeOK, OwnerKnown,
         GiveUp \/ Kill \/ Signal \/ ReturnOnExit \/ StartIteration \/ EndRun
  PROVE  TypeOK' /\ OwnerKnown'
<1> USE DEF TypeOK, OwnerKnown, remoteVars, iterVars, ProcessPoints
<1>1. CASE GiveUp
  BY <1>1, LeaveTypes DEF GiveUp
<1>2. CASE Kill
  BY <1>2, LeaveTypes DEF Kill
<1>3. CASE Signal
  BY <1>3 DEF Signal
<1>4. CASE ReturnOnExit
  BY <1>4, LeaveTypes DEF ReturnOnExit
<1>5. CASE StartIteration
  BY <1>5 DEF StartIteration
<1>6. CASE EndRun
  BY <1>6 DEF EndRun
<1> QED
  BY <1>1, <1>2, <1>3, <1>4, <1>5, <1>6

\* The head of a sequence of jobs, and the id a scheduler hands out.
LEMMA HandOutTypes ==
  ASSUME TypeOK, OwnerKnown, NEW i \in Ids, NEW j \in Jobs,
         owner' = [owner EXCEPT ![i] = j], state' = [state EXCEPT ![i] = "Q"]
  PROVE  owner' \in [Ids -> Jobs \cup {NoJob}] /\ state' \in [Ids -> States] /\ OwnerKnown'
BY DEF TypeOK, OwnerKnown, States, LiveStates

LEMMA BatchTypes ==
  ASSUME TypeOK, OwnerKnown,
         BuildScript \/ RemoteLine \/ RemoteDies \/ ReadIds \/ NothingSubmitted
         \/ ScriptError \/ AssignId \/ AssignError \/ DroppedError \/ SaveBatch
  PROVE  TypeOK' /\ OwnerKnown'
<1>1. CASE BuildScript
  <2>1. PICK pack \in Packages(mem) : \E valid \in SUBSET pack : Built(pack, valid)
    BY <1>1 DEF BuildScript
  <2>8. PICK valid \in SUBSET pack : Built(pack, valid)
    BY <2>1
  <2>2. pack \subseteq Jobs
    BY DEF Packages, Ready
  <2>3. mem' \in JobRecords
    BY <2>8 DEF Built, TypeOK, JobRecords
  <2>4. pending' \in Seq(Jobs)
    BY <2>8, <2>2, OrdersType DEF Built
  <2>5. dropped' \subseteq Ids \cup {NoId}
    BY <2>1, <2>2 DEF Built, Noted, TypeOK, JobRecords
  <2>6. faults' \in Nat /\ pc' \in ProcessPoints /\ file' \subseteq Jobs
    BY <2>8 DEF Built, TypeOK, ProcessPoints
  <2>7. disk' = mem /\ UNCHANGED <<exit, due, checked, jobsId, owner, state>>
    BY <1>1 DEF BuildScript
  <2> QED
    BY <2>8, <2>3, <2>4, <2>5, <2>6, <2>7 DEF Built, TypeOK, OwnerKnown
<1>2. CASE RemoteLine
  <2>1. Head(script) \in Jobs /\ script' \in Seq(Jobs)
    BY <1>2, HeadAndTail DEF RemoteLine, TypeOK
  <2>2. UNCHANGED <<pc, exit, mem, disk, due, checked, pending, dropped, file>>
    BY <1>2 DEF RemoteLine
  <2>3. CASE UNCHANGED <<owner, state, jobsId>> /\ faults' = faults + 1
    BY <2>1, <2>2, <2>3 DEF TypeOK, OwnerKnown
  <2>4. CASE \E i \in Ids :
               /\ owner' = [owner EXCEPT ![i] = Head(script)]
               /\ state' = [state EXCEPT ![i] = "Q"]
               /\ jobsId' = IF pc = "sbatch" THEN Append(jobsId, i) ELSE jobsId
               /\ UNCHANGED faults
    <3>1. PICK i \in Ids :
               /\ owner' = [owner EXCEPT ![i] = Head(script)]
               /\ state' = [state EXCEPT ![i] = "Q"]
               /\ jobsId' = IF pc = "sbatch" THEN Append(jobsId, i) ELSE jobsId
               /\ UNCHANGED faults
      BY <2>4
    <3>2. jobsId' \in Seq(Ids)
      BY <3>1, AppendProperties DEF TypeOK
    <3> QED
      BY <2>1, <2>2, <3>1, <3>2, HandOutTypes DEF TypeOK
  <2> QED
    BY <1>2, <2>3, <2>4 DEF RemoteLine
<1>3. CASE RemoteDies
  BY <1>3, EmptySeq DEF RemoteDies, TypeOK, OwnerKnown, processVars, iterVars
<1>4. CASE ReadIds
  BY <1>4 DEF ReadIds, TypeOK, OwnerKnown, iterVars, remoteVars, ProcessPoints
<1>5. CASE NothingSubmitted
  BY <1>5, CancelAndRaiseTypes DEF NothingSubmitted, TypeOK
<1>6. CASE ScriptError
  BY <1>6, CancelAndRaiseTypes DEF ScriptError, TypeOK
<1>7. CASE AssignId
  <2>1. Head(pending) \in Jobs /\ pending' \in Seq(Jobs)
    BY <1>7, HeadAndTail DEF AssignId, TypeOK
  <2>2. Head(jobsId) \in Ids /\ jobsId' \in Seq(Ids)
    BY <1>7, HeadAndTail DEF AssignId, TypeOK
  <2>3. mem' = Submitted(mem, Head(pending), Head(jobsId))
    BY <1>7 DEF AssignId
  <2>4. mem' \in JobRecords
    BY <2>1, <2>2, <2>3, Statuses DEF TypeOK, JobRecords, Submitted
  <2>5. state' = CancelTwins(Head(pending), Head(jobsId))
    BY <1>7 DEF AssignId
  <2>6. state' \in [Ids -> States] /\ \A i \in Ids : state'[i] = "-" <=> state[i] = "-"
    BY <2>5, CancelledType DEF TypeOK, CancelTwins
  <2>7. UNCHANGED <<pc, exit, disk, due, checked, dropped, script, owner, file, faults>>
    BY <1>7 DEF AssignId
  <2> QED
    BY <2>1, <2>2, <2>4, <2>6, <2>7 DEF TypeOK, OwnerKnown
<1>8. CASE AssignError
  <2>1. Leave("recover") /\ faults' \in Nat /\ UNCHANGED <<exit, disk, remoteVars>>
    BY <1>8 DEF AssignError, TypeOK
  <2> QED
    BY <2>1, LeaveTypes DEF TypeOK, OwnerKnown, remoteVars, ProcessPoints
<1>9. CASE DroppedError
  <2>1. state' \in [Ids -> States] /\ \A i \in Ids : state'[i] = "-" <=> state[i] = "-"
    BY <1>9, CancelledType DEF DroppedError, TypeOK
  <2> QED
    BY <1>9, <2>1, LeaveTypes DEF DroppedError, TypeOK, OwnerKnown, ProcessPoints
<1>10. CASE SaveBatch
  BY <1>10, EmptySeq DEF SaveBatch, TypeOK, OwnerKnown, remoteVars, ProcessPoints
<1> QED
  BY <1>1, <1>2, <1>3, <1>4, <1>5, <1>6, <1>7, <1>8, <1>9, <1>10

LEMMA OneByOneTypes ==
  ASSUME TypeOK, OwnerKnown,
         StartOneByOne \/ SubmitOne \/ SubmitOneFails \/ SaveOne \/ EndOneByOne
  PROVE  TypeOK' /\ OwnerKnown'
<1>1. CASE StartOneByOne
  <2>1. PICK pack \in Packages(mem) : pending' \in Orders(pack)
    BY <1>1 DEF StartOneByOne
  <2>2. pack \subseteq Jobs
    BY DEF Packages, Ready
  <2>3. pending' \in Seq(Jobs)
    BY <2>1, <2>2, OrdersType
  <2> QED
    BY <1>1, <2>3 DEF StartOneByOne, TypeOK, OwnerKnown, remoteVars, ProcessPoints
<1>2. CASE SubmitOne
  <2>1. Head(pending) \in Jobs /\ pending' \in Seq(Jobs)
    BY <1>2, HeadAndTail DEF SubmitOne, TypeOK
  <2>2. PICK i \in Ids :
          /\ owner' = [owner EXCEPT ![i] = Head(pending)]
          /\ state' = [state EXCEPT ![i] = "Q"]
          /\ file' = file \ {Head(pending)}
          /\ \/ /\ mem' = Submitted(mem, Head(pending), i)
                /\ pc' = "saveone"
                /\ UNCHANGED faults
             \/ /\ faults' = faults + 1
                /\ UNCHANGED <<mem, pc>>
    BY <1>2 DEF SubmitOne
  <2>3. mem' \in JobRecords
    <3>1. CASE mem' = Submitted(mem, Head(pending), i)
      BY <2>1, <3>1, Statuses DEF TypeOK, JobRecords, Submitted
    <3>2. CASE mem' = mem
      BY <3>2 DEF TypeOK
    <3> QED
      BY <2>2, <3>1, <3>2
  <2>4. pc' \in ProcessPoints /\ faults' \in Nat /\ file' \subseteq Jobs
    BY <2>2 DEF TypeOK, ProcessPoints
  <2>5. UNCHANGED <<exit, disk, due, checked, dropped, jobsId, script>>
    BY <1>2 DEF SubmitOne
  <2> QED
    BY <2>1, <2>2, <2>3, <2>4, <2>5, HandOutTypes DEF TypeOK
<1>3. CASE SubmitOneFails
  <2>1. pending' \in Seq(Jobs)
    BY <1>3, HeadAndTail DEF SubmitOneFails, TypeOK
  <2>2. file' \subseteq Jobs /\ faults' \in Nat
    BY <1>3 DEF SubmitOneFails, TypeOK
  <2> QED
    BY <1>3, <2>1, <2>2 DEF SubmitOneFails, TypeOK, OwnerKnown
<1>4. CASE SaveOne
  BY <1>4 DEF SaveOne, TypeOK, OwnerKnown, iterVars, remoteVars, ProcessPoints
<1>5. CASE EndOneByOne
  BY <1>5 DEF EndOneByOne, TypeOK, OwnerKnown, iterVars, remoteVars, ProcessPoints
<1> QED
  BY <1>1, <1>2, <1>3, <1>4, <1>5

LEMMA SchedulerTypes ==
  ASSUME TypeOK, OwnerKnown, NEW i \in Ids,
         JobStarts(i) \/ JobSucceeds(i) \/ JobFails(i) \/ JobEndsWithoutFile(i)
         \/ JobEnds(i)
  PROVE  TypeOK' /\ OwnerKnown'
<1>1. \E from \in States \ {"-"}, to \in States : Move(i, from, to)
  BY DEF JobStarts, JobSucceeds, JobFails, JobEndsWithoutFile, JobEnds, States,
         LiveStates
<1>2. /\ state' \in [Ids -> States] /\ state[i] # "-"
      /\ \A k \in Ids : state'[k] # "-" => state[k] # "-"
  BY <1>1 DEF Move, TypeOK
<1>3. UNCHANGED <<processVars, disk, script, owner>>
  BY <1>1 DEF Move
<1>4. owner[i] \in Jobs
  BY <1>2 DEF OwnerKnown
<1>5. file' \subseteq Jobs /\ faults' \in Nat
  BY <1>4 DEF TypeOK, JobStarts, JobSucceeds, JobFails, JobEndsWithoutFile, JobEnds
<1> QED
  BY <1>2, <1>3, <1>5 DEF TypeOK, OwnerKnown, processVars, iterVars

LEMMA NextTypes ==
  ASSUME TypeOK, OwnerKnown, Next
  PROVE  TypeOK' /\ OwnerKnown'
<1>1. CASE PrepareRun \/ Recover
  BY <1>1, LoadUpdateSaveTypes DEF PrepareRun, Recover, TypeOK
<1>2. CASE GiveUp \/ Kill \/ Signal
  BY <1>2, LoopTypes
<1>3. CASE Loop
  <2>1. CASE ReturnOnExit \/ StartIteration \/ EndRun
    BY <2>1, LoopTypes
  <2>2. CASE Poll
    BY <2>2, PollTypes
  <2>3. CASE PollError
    <3>1. Leave("recover") /\ faults' \in Nat /\ UNCHANGED <<exit, disk, remoteVars>>
      BY <2>3 DEF PollError, TypeOK
    <3> QED
      BY <3>1, LeaveTypes DEF TypeOK, OwnerKnown, remoteVars, ProcessPoints
  <2>4. CASE \E c \in checked : UpdateStatus(c)
    BY <2>4, UpdateStatusTypes
  <2>5. CASE AfterCheck \/ AfterSubmit
    BY <2>5, UpdateAndSaveTypes DEF AfterCheck, AfterSubmit, ProcessPoints
  <2> QED
    BY <1>3, <2>1, <2>2, <2>3, <2>4, <2>5 DEF Loop
<1>4. CASE Submission
  BY <1>4, BatchTypes, OneByOneTypes DEF Submission
<1>5. CASE Remote
  BY <1>5, BatchTypes, SchedulerTypes DEF Remote
<1>6. CASE \E j \in Jobs : DelayPasses(j)
  BY <1>6 DEF DelayPasses, TypeOK, OwnerKnown, iterVars, remoteVars
<1>7. CASE Terminated
  BY <1>7 DEF Terminated, vars, TypeOK, OwnerKnown
<1> QED
  BY <1>1, <1>2, <1>3, <1>4, <1>5, <1>6, <1>7 DEF Next

LEMMA TypesInvariant == Spec => [](TypeOK /\ OwnerKnown)
<1>1. Init => TypeOK /\ OwnerKnown
  BY InitTypes
<1>2. TypeOK /\ OwnerKnown /\ [Next]_vars => TypeOK' /\ OwnerKnown'
  BY NextTypes DEF vars, TypeOK, OwnerKnown
<1> QED
  BY <1>1, <1>2, PTL DEF Spec

\* Every variable keeps its type: no step of the run, of the platform or of a
\* failure loses the shape of the job list.
THEOREM TypeCorrect == Spec => []TypeOK
BY TypesInvariant, PTL

-----------------------------------------------------------------------------
(* The inductive invariant of the order of the workflow.                   *)

\* The job has been handed to the scheduler.
Handed(j) == \E i \in Ids : owner[i] = j

\* Jobs that are past WAITING have their ordinary dependencies done.
Released(m) == \A j \in Jobs : m.status[j] # "WAITING" => Hard[j] \subseteq Done(m)

\* Jobs are COMPLETED or SKIPPED for a reason.
Justified(m) ==
  \A j \in Jobs : /\ m.status[j] = "COMPLETED" => j \in file
                  /\ m.status[j] = "SKIPPED" => j \in MaySkip

\* What is saved as done is done in memory too.
Kept == Done(disk) \ Sync \subseteq Done(mem)

\* Statuses that are polled for are those of jobs in the queue, once each.
Polled ==
  /\ pc # "update" => checked = {}
  /\ \A r \in checked :
       /\ mem.status[r.job] \in InQueueStatus \cup {"FAILED"}
       /\ r.new \in {"QUEUING", "RUNNING", "COMPLETED", "FAILED", "UNKNOWN"}
  /\ \A r1, r2 \in checked : r1.job = r2.job => r1 = r2

\* A package is saved as READY before it is submitted.
Packed ==
  pc \in {"sbatch", "assign", "qsub", "saveone"} =>
    \A j \in Range(pending) : /\ mem.status[j] \in {"READY", "SUBMITTED"}
                              /\ disk.status[j] \in {"READY", "SUBMITTED"}

\* So is a line of the submit script, which may outlive the process.
Scripted == \A j \in Range(script) : Hard[j] \subseteq Done(disk)

FilesHanded == \A j \in file : Handed(j)

SafeInv ==
  /\ TypeOK /\ OwnerKnown
  /\ Released(mem) /\ Released(disk)
  /\ Justified(mem) /\ Justified(disk)
  /\ Kept
  /\ Polled
  /\ Packed
  /\ Scripted
  /\ FilesHanded
  /\ LaunchedAfterParents

-----------------------------------------------------------------------------
(* update_list and load.                                                   *)

\* n is a job list that m may become: what is done stays so, except for
\* synchronised jobs, and nothing is released or done without a reason.
Advances(m, n) ==
  /\ Done(m) \ Sync \subseteq Done(n)
  /\ Released(m) => Released(n)
  /\ Justified(m) => Justified(n)

LEMMA AdvancesTransitive ==
  ASSUME NEW l, NEW m, NEW n, Advances(l, m), Advances(m, n)
  PROVE  Advances(l, n)
BY DEF Advances

LEMMA HardIsNotSync ==
  ASSUME NEW j \in Jobs
  PROVE  Hard[j] \subseteq Parents[j] \ Sync /\ Hard[j] \subseteq Jobs
BY JobsAssumption DEF Hard

\* Enough for that, job by job.
LEMMA StageAdvances ==
  ASSUME NEW m, NEW n,
         \A j \in Jobs \ Sync : m.status[j] \in DoneStatus => n.status[j] \in DoneStatus,
         \A j \in Jobs : m.status[j] = "WAITING" /\ n.status[j] # "WAITING"
                           => Hard[j] \subseteq Done(m),
         \A j \in Jobs : n.status[j] = "COMPLETED" => m.status[j] = "COMPLETED",
         \A j \in Jobs : n.status[j] = "SKIPPED" => m.status[j] = "SKIPPED" \/ j \in MaySkip
  PROVE  Advances(m, n)
<1>1. Done(m) \ Sync \subseteq Done(n)
  BY DEF Done
<1>2. ASSUME Released(m), NEW j \in Jobs, n.status[j] # "WAITING"
      PROVE  Hard[j] \subseteq Done(n)
  <2>1. Hard[j] \subseteq Done(m)
    BY <1>2 DEF Released
  <2> QED
    BY <1>1, <2>1, HardIsNotSync
<1>3. Justified(m) => Justified(n)
  BY DEF Justified
<1> QED
  BY <1>1, <1>2, <1>3 DEF Advances, Released

LEMMA RetryFailedAdvances ==
  ASSUME NEW m \in JobRecords
  PROVE  Advances(m, RetryFailed(m))
<1> DEFINE n == RetryFailed(m)
<1>1. \A j \in Jobs : \/ n.status[j] = m.status[j]
                      \/ /\ m.status[j] = "FAILED"
                         /\ n.status[j] \in {"DELAYED", "READY", "WAITING"}
  BY DEF RetryFailed, Retried
<1> QED
  BY <1>1, StageAdvances, Statuses

LEMMA ForgetFailsAdvances ==
  ASSUME NEW m \in JobRecords
  PROVE  Advances(m, ForgetFails(m))
<1>1. ForgetFails(m).status = m.status
  BY DEF ForgetFails, JobRecords
<1> QED
  BY <1>1, StageAdvances

\* A start condition says nothing of the parents without an edge_info: they
\* must be COMPLETED.
LEMMA StartSpecialAdvances ==
  ASSUME NEW m \in JobRecords
  PROVE  Advances(m, StartSpecial(m))
<1> DEFINE n == StartSpecial(m)
<1>1. \A j \in Jobs : \/ n.status[j] = m.status[j]
                      \/ j \in Special(m) /\ m.status[j] = "WAITING" /\ n.status[j] = "READY"
  BY DEF StartSpecial, Special
<1>2. ASSUME NEW j \in Special(m)
      PROVE  Hard[j] \subseteq Done(m)
  <2>1. PICK target \in Status : SpecialFulfilled(m, j, target)
    BY DEF Special
  <2>2. j \in Jobs
    BY DEF Special
  <2>3. ASSUME NEW p \in Hard[j]
        PROVE  m.status[p] = "COMPLETED"
    BY <2>1, <2>2, <2>3 DEF SpecialFulfilled, Hard
  <2> QED
    BY <2>2, <2>3, HardIsNotSync, Statuses DEF Done
<1> QED
  BY <1>1, <1>2, StageAdvances, Statuses

LEMMA ResyncAdvances ==
  ASSUME NEW m \in JobRecords
  PROVE  Advances(m, Resync(m))
<1> DEFINE n == Resync(m)
<1>1. \A j \in Jobs : \/ n.status[j] = m.status[j]
                      \/ j \in Sync /\ n.status[j] = "WAITING"
  BY DEF Resync, JobRecords
<1> QED
  BY <1>1, StageAdvances, Statuses

LEMMA ReleaseAdvances ==
  ASSUME NEW m \in JobRecords, NEW expired
  PROVE  Advances(m, Release(m, expired))
<1> DEFINE n == Release(m, expired)
<1>1. \A j \in Jobs :
        \/ n.status[j] = m.status[j]
        \/ m.status[j] = "DELAYED" /\ n.status[j] = "READY"
        \/ /\ m.status[j] = "WAITING" /\ n.status[j] = "READY"
           /\ \A p \in Parents[j] : m.status[p] \in DoneStatus
  BY DEF Release, JobRecords
<1>2. \A j \in Jobs : (\A p \in Parents[j] : m.status[p] \in DoneStatus)
                        => Hard[j] \subseteq Done(m)
  BY HardIsNotSync DEF Done
<1> QED
  BY <1>1, <1>2, StageAdvances, Statuses

LEMMA SkipOlderAdvances ==
  ASSUME NEW m \in JobRecords
  PROVE  Advances(m, SkipOlder(m))
<1> DEFINE n == SkipOlder(m)
<1>1. \A j \in Jobs :
        \/ n.status[j] = m.status[j]
        \/ /\ j \in MaySkip /\ n.status[j] = "SKIPPED"
           /\ m.status[j] \in {"READY", "QUEUING"}
  BY DEF SkipOlder, JobRecords, Skipped, MaySkip
<1> QED
  BY <1>1, StageAdvances, Statuses

LEMMA UpdateListAdvances ==
  ASSUME NEW m \in JobRecords, NEW first \in BOOLEAN, NEW expired
  PROVE  Advances(m, UpdateList(m, first, expired))
<1> DEFINE m1 == IF first THEN ForgetFails(m) ELSE RetryFailed(m)
           m2 == StartSpecial(m1)
           m3 == Resync(m2)
           m4 == Release(m3, expired)
           m5 == SkipOlder(m4)
<1>1. m1 \in JobRecords /\ Advances(m, m1)
  BY ForgetFailsType, RetryFailedType, ForgetFailsAdvances, RetryFailedAdvances
<1>2. m2 \in JobRecords /\ Advances(m1, m2)
  BY <1>1, StartSpecialType, StartSpecialAdvances
<1>3. m3 \in JobRecords /\ Advances(m2, m3)
  BY <1>2, ResyncType, ResyncAdvances
<1>4. m4 \in JobRecords /\ Advances(m3, m4)
  BY <1>3, ReleaseType, ReleaseAdvances
<1>5. Advances(m4, m5)
  BY <1>4, SkipOlderAdvances
<1>6. Advances(m, m5)
  BY <1>1, <1>2, <1>3, <1>4, <1>5, AdvancesTransitive
<1> QED
  BY <1>6 DEF UpdateList, BeforeSkip

LEMMA LoadAdvances ==
  ASSUME NEW m \in JobRecords
  PROVE  Advances(m, Load(m))
<1> DEFINE n == Load(m)
<1>1. \A j \in Jobs : \/ n.status[j] = m.status[j]
                      \/ m.status[j] \in VolatileStatus /\ n.status[j] = "WAITING"
  BY DEF Load, JobRecords
<1> QED
  BY <1>1, StageAdvances, Statuses

-----------------------------------------------------------------------------
(* Every step keeps the invariant, and what is saved as done.              *)

SafeStep == SafeInv' /\ SavedDone \subseteq SavedDone'

\* The jobs of the saved list that are done stay done when it is replaced by
\* the one in memory, and what relied on them still can.
LEMMA RelyOnDone ==
  ASSUME SafeInv, SavedDone \subseteq SavedDone'
  PROVE  /\ \A j \in Jobs : Hard[j] \subseteq Done(disk) => Hard[j] \subseteq Done(disk)'
         /\ owner' = owner => LaunchedAfterParents'
         /\ script' = script => Scripted'
<1>1. ASSUME NEW j \in Jobs, Hard[j] \subseteq Done(disk)
      PROVE  Hard[j] \subseteq Done(disk)'
  BY <1>1, HardIsNotSync DEF SavedDone
<1>2. ASSUME owner' = owner
      PROVE  LaunchedAfterParents'
  BY <1>1, <1>2 DEF LaunchedAfterParents, SafeInv, TypeOK
<1>3. ASSUME script' = script
      PROVE  Scripted'
  <2>1. Range(script) \subseteq Jobs
    BY LenProperties DEF SafeInv, TypeOK, Range
  <2> QED
    BY <1>1, <1>3, <2>1 DEF Scripted, SafeInv
<1> QED
  BY <1>1, <1>2, <1>3

LEMMA FilesKept ==
  ASSUME SafeInv, UNCHANGED <<owner, file>>
  PROVE  FilesHanded' /\ \A m : Justified(m) => Justified(m)'
BY DEF SafeInv, FilesHanded, Handed, Justified, MaySkip

\* Steps that leave the job lists alone.
LEMMA QuietSafe ==
  ASSUME SafeInv, TypeOK', OwnerKnown', Polled', Packed',
         UNCHANGED <<mem, disk, owner, file>>,
         Range(script)' \subseteq Range(script)
  PROVE  SafeStep
<1>1. SavedDone \subseteq SavedDone'
  BY DEF SavedDone, Done
<1>2. Scripted' /\ LaunchedAfterParents'
  BY <1>1, RelyOnDone DEF SafeInv, Scripted, Done
<1>3. Released(mem)' /\ Released(disk)' /\ Justified(mem)' /\ Justified(disk)'
      /\ FilesHanded' /\ Kept'
  BY FilesKept DEF SafeInv, Released, Done, Kept, Justified, MaySkip
<1> QED
  BY <1>1, <1>2, <1>3 DEF SafeStep, SafeInv

\* Steps that save the job list.
LEMMA SaveSafe ==
  ASSUME SafeInv, TypeOK', OwnerKnown', Polled', Packed',
         disk' = mem, UNCHANGED <<mem, owner, file, script>>
  PROVE  SafeStep
<1>1. SavedDone \subseteq SavedDone'
  BY DEF SavedDone, Done, SafeInv, Kept
<1>2. Scripted' /\ LaunchedAfterParents'
  BY <1>1, RelyOnDone
<1>3. Released(mem)' /\ Released(disk)' /\ Justified(mem)' /\ Justified(disk)'
      /\ FilesHanded' /\ Kept'
  BY FilesKept DEF SafeInv, Released, Done, Kept, Justified, MaySkip
<1> QED
  BY <1>1, <1>2, <1>3 DEF SafeStep, SafeInv

\* Steps that lose the memory of the process.
LEMMA LeaveSafe ==
  ASSUME SafeInv, TypeOK', OwnerKnown', NEW next \in {"off", "recover"}, Leave(next),
         UNCHANGED <<disk, owner, file, script>>
  PROVE  SafeStep
<1>1. SavedDone \subseteq SavedDone'
  BY DEF SavedDone, Done
<1>2. Scripted' /\ LaunchedAfterParents'
  BY <1>1, RelyOnDone
<1>3. Released(mem)' /\ Released(disk)' /\ Justified(mem)' /\ Justified(disk)'
      /\ FilesHanded' /\ Kept'
  BY FilesKept DEF Leave, SafeInv, Released, Done, Kept, Justified, MaySkip
<1>4. Polled' /\ Packed'
  BY DEF Leave, Polled, Packed
<1> QED
  BY <1>1, <1>2, <1>3, <1>4 DEF SafeStep, SafeInv

\* Steps that update a job list, the saved one or the one in memory, and save it.
LEMMA UpdateSafe ==
  ASSUME SafeInv, TypeOK', OwnerKnown', NEW m \in {mem, disk}, Advances(m, mem'),
         disk' = mem', UNCHANGED <<owner, file, script>>, checked' = {},
         pc' \notin {"sbatch", "assign", "qsub", "saveone"}
  PROVE  SafeStep
<1>1. SavedDone \subseteq SavedDone'
  BY DEF Advances, SavedDone, Done, SafeInv, Kept
<1>2. Scripted' /\ LaunchedAfterParents'
  BY <1>1, RelyOnDone
<1>3. Released(mem') /\ Justified(mem')
  BY DEF Advances, SafeInv
<1>4. Released(mem)' /\ Released(disk)' /\ Justified(mem)' /\ Justified(disk)'
      /\ FilesHanded' /\ Kept'
  BY <1>3, FilesKept DEF Released, Done, Kept, Justified, MaySkip
<1>5. Polled' /\ Packed'
  BY DEF Polled, Packed
<1> QED
  BY <1>1, <1>2, <1>4, <1>5 DEF SafeStep, SafeInv

LEMMA LoadUpdateSaveSafe ==
  ASSUME SafeInv, TypeOK', OwnerKnown', LoadUpdateSave, pc # "update"
  PROVE  SafeStep
<1>1. disk \in JobRecords /\ checked = {}
  BY DEF SafeInv, TypeOK, Polled
<1>2. Advances(disk, mem')
  BY <1>1, LoadType, LoadAdvances, UpdateListAdvances, AdvancesTransitive
     DEF LoadUpdateSave
<1> QED
  BY <1>1, <1>2, UpdateSafe DEF LoadUpdateSave, iterVars

LEMMA UpdateAndSaveSafe ==
  ASSUME SafeInv, TypeOK', OwnerKnown', UpdateAndSave, checked = {},
         pc' \in {"submit", "head"}
  PROVE  SafeStep
<1>1. Advances(mem, mem')
  BY UpdateListAdvances DEF UpdateAndSave, SafeInv, TypeOK
<1> QED
  BY <1>1, UpdateSafe DEF UpdateAndSave, iterVars

\* What is polled for is in the queue.
LEMMA PollSafe ==
  ASSUME SafeInv, TypeOK', OwnerKnown', Poll
  PROVE  SafeStep
<1> DEFINE asked == IF exit THEN {} ELSE InQueue(mem)
<1>1. PICK hidden, stuck, late : checked' = Answers(asked, hidden, stuck, late)
  BY Zenon DEF Poll
<1>2. pc' = "update" /\ UNCHANGED <<exit, mem, disk, due, pending, dropped, jobsId,
                                    script, owner, file>>
  BY DEF Poll
<1>3. \A s : NewStatus(s, late) \in {"QUEUING", "RUNNING", "COMPLETED", "FAILED", "UNKNOWN"}
  BY DEF NewStatus
<1>4. \A r \in checked' :
        /\ r.job \in asked
        /\ r.new \in {"QUEUING", "RUNNING", "COMPLETED", "FAILED", "UNKNOWN"}
  BY <1>1, <1>3 DEF Answers
<1>5. \A r1, r2 \in checked' : r1.job = r2.job => r1 = r2
  BY <1>1 DEF Answers
<1>6. \A j \in asked : mem.status[j] \in InQueueStatus
  BY DEF InQueue
<1>7. Polled' /\ Packed'
  BY <1>2, <1>4, <1>5, <1>6 DEF Polled, Packed
<1> QED
  BY <1>2, <1>7, QuietSafe

\* What is found out about a job in the queue cannot undo a job that is done.
LEMMA UpdateStatusSafe ==
  ASSUME SafeInv, TypeOK', OwnerKnown', NEW r \in checked, UpdateStatus(r)
  PROVE  SafeStep
<1> DEFINE s == Confirmed(r.job, r.new)
           m == [mem EXCEPT !.status[r.job] = s]
           failed == FailedWith(m, r.job)
<1>1. /\ r.job \in Jobs /\ mem \in JobRecords
      /\ mem.status[r.job] \in InQueueStatus \cup {"FAILED"}
      /\ s \in {"QUEUING", "RUNNING", "COMPLETED", "FAILED", "UNKNOWN"}
      /\ s = "COMPLETED" => r.job \in file
  BY DEF SafeInv, TypeOK, CheckRecords, Polled, Confirmed
<1>2. /\ pc = "update" /\ checked' = checked \ {r}
      /\ UNCHANGED <<pc, exit, disk, due, pending, dropped, jobsId, script, owner, state,
                     file, faults>>
  BY DEF UpdateStatus, remoteVars
<1>3. \A j \in Jobs : m.status[j] = IF j = r.job THEN s ELSE mem.status[j]
  BY <1>1 DEF JobRecords
<1>4. \A j \in Jobs : \/ mem'.status[j] = m.status[j]
                      \/ mem'.status[j] = "FAILED" /\ j \in failed
  BY DEF UpdateStatus
<1>5. \A j \in failed :
        m.status[j] \in {"SUBMITTED", "RUNNING", "QUEUING", "UNKNOWN"}
  BY <1>1, FailedWithInQueue
<1>6. \A j \in Jobs :
        \/ mem'.status[j] = mem.status[j]
        \/ /\ mem.status[j] \in InQueueStatus \cup {"FAILED"}
           /\ \/ mem'.status[j] \in {"QUEUING", "RUNNING", "FAILED", "UNKNOWN"}
              \/ mem'.status[j] = "COMPLETED" /\ j \in file
  BY <1>1, <1>3, <1>4, <1>5, Statuses
<1>7. Done(mem) \subseteq Done(mem')
  BY <1>6, Statuses DEF Done
<1>8. Released(mem')
  BY <1>6, <1>7, Statuses DEF Released, SafeInv
<1>9. Justified(mem')
  BY <1>6 DEF Justified, SafeInv
<1>10. Polled'
  <2>1. \A q \in checked' :
          /\ q \in checked /\ q.job # r.job /\ q.job \in Jobs
          /\ mem.status[q.job] \in InQueueStatus \cup {"FAILED"}
          /\ q.new \in {"QUEUING", "RUNNING", "COMPLETED", "FAILED", "UNKNOWN"}
    BY <1>2 DEF SafeInv, Polled, TypeOK, CheckRecords
  <2>2. ASSUME NEW q \in checked'
        PROVE  mem'.status[q.job] \in InQueueStatus \cup {"FAILED"}
    BY <2>1, <1>3, <1>4, Statuses
  <2> QED
    BY <1>2, <2>1, <2>2 DEF Polled, SafeInv
<1>11. Packed'
  BY <1>2 DEF Packed
<1>12. SavedDone \subseteq SavedDone' /\ Kept'
  BY <1>2, <1>7 DEF SavedDone, Done, Kept, SafeInv
<1>13. Scripted' /\ LaunchedAfterParents'
  BY <1>2, <1>12, RelyOnDone
<1>14. Released(mem)' /\ Released(disk)' /\ Justified(mem)' /\ Justified(disk)'
       /\ FilesHanded'
  BY <1>2, <1>8, <1>9, FilesKept DEF SafeInv, Released, Done, Justified, MaySkip
<1> QED
  BY <1>10, <1>11, <1>12, <1>13, <1>14 DEF SafeStep, SafeInv

\* A job that is submitted was READY, so it was not done.
LEMMA BuildScriptSafe ==
  ASSUME SafeInv, TypeOK', OwnerKnown', BuildScript
  PROVE  SafeStep
<1>1. PICK pack \in Packages(mem) : \E valid \in SUBSET pack : Built(pack, valid)
  BY DEF BuildScript
<1>2. PICK valid \in SUBSET pack : Built(pack, valid)
  BY <1>1
<1>3. pack \subseteq Ready(mem)
  BY DEF Packages
<1>4. valid \in SUBSET Jobs /\ \A j \in valid : mem.status[j] = "READY"
  BY <1>3 DEF Ready
<1>5. mem'.status = mem.status /\ file' = file \ valid
  BY <1>2 DEF Built, SafeInv, TypeOK, JobRecords
<1>6. Range(pending)' = valid /\ Range(script)' = valid
  BY <1>2, <1>4, OrdersType DEF Built
<1>7. pc = "submit" /\ pc' \in {"list", "sbatch"} /\ disk' = mem
      /\ UNCHANGED <<checked, owner>>
  BY <1>2 DEF BuildScript, Built
<1>8. SavedDone \subseteq SavedDone' /\ Kept'
  BY <1>5, <1>7 DEF SavedDone, Done, SafeInv, Kept
<1>9. LaunchedAfterParents'
  BY <1>7, <1>8, RelyOnDone
<1>10. Scripted'
  BY <1>4, <1>6, <1>7, Statuses DEF Scripted, SafeInv, Released, Done
<1>11. Polled' /\ Packed'
  BY <1>4, <1>5, <1>6, <1>7 DEF Polled, Packed, SafeInv
<1>12. Released(mem)' /\ Released(disk)'
  BY <1>5, <1>7 DEF Released, Done, SafeInv
<1>13. Justified(mem)' /\ Justified(disk)'
  BY <1>4, <1>5, <1>7 DEF Justified, SafeInv, MaySkip
<1>14. FilesHanded'
  BY <1>5, <1>7 DEF FilesHanded, Handed, SafeInv
<1> QED
  BY <1>8, <1>9, <1>10, <1>11, <1>12, <1>13, <1>14 DEF SafeStep, SafeInv

\* A job the scheduler gets has its ordinary dependencies done.
LEMMA HandOutSafe ==
  ASSUME SafeInv, NEW i \in Ids, Fresh(i), NEW j \in Jobs,
         Hard[j] \subseteq Done(disk), disk' = disk,
         owner' = [owner EXCEPT ![i] = j], file' \in SUBSET file
  PROVE  LaunchedAfterParents' /\ FilesHanded'
<1>1. owner \in [Ids -> Jobs \cup {NoJob}] /\ owner[i] = NoJob /\ NoJob \notin Jobs
  BY SchedulerAssumption DEF SafeInv, TypeOK, Fresh, FreeIds
<1>2. LaunchedAfterParents'
  BY <1>1 DEF LaunchedAfterParents, SafeInv
<1>3. \A k \in Jobs : Handed(k) => Handed(k)'
  BY <1>1 DEF Handed
<1>4. FilesHanded'
  BY <1>3 DEF FilesHanded, SafeInv, TypeOK
<1> QED
  BY <1>2, <1>4

LEMMA RemoteLineSafe ==
  ASSUME SafeInv, TypeOK', OwnerKnown', RemoteLine
  PROVE  SafeStep
<1>1. /\ Head(script) \in Jobs /\ Head(script) \in Range(script)
      /\ Range(script)' \subseteq Range(script)
  BY HeadAndTail DEF RemoteLine, SafeInv, TypeOK
<1>2. UNCHANGED <<pc, mem, disk, checked, pending, file>>
  BY DEF RemoteLine
<1>3. Polled' /\ Packed'
  BY <1>2 DEF Polled, Packed, SafeInv
<1>4. CASE UNCHANGED owner
  BY <1>1, <1>2, <1>3, <1>4, QuietSafe
<1>5. CASE \E i \in Ids : Fresh(i) /\ owner' = [owner EXCEPT ![i] = Head(script)]
  <2>1. LaunchedAfterParents' /\ FilesHanded'
    BY <1>1, <1>2, <1>5, HandOutSafe DEF SafeInv, Scripted
  <2>2. SavedDone \subseteq SavedDone' /\ Scripted' /\ Kept'
    BY <1>1, <1>2 DEF SavedDone, Done, Scripted, SafeInv, Kept
  <2>3. Released(mem)' /\ Released(disk)' /\ Justified(mem)' /\ Justified(disk)'
    BY <1>2 DEF SafeInv, Released, Done, Justified, MaySkip
  <2> QED
    BY <1>3, <2>1, <2>2, <2>3 DEF SafeStep, SafeInv
<1> QED
  BY <1>4, <1>5 DEF RemoteLine

\* A job becomes SUBMITTED.
LEMMA SubmittedSafe ==
  ASSUME SafeInv, NEW j \in Range(pending), j \in Jobs, NEW i,
         pc \in {"assign", "qsub"}, pc' \in {"assign", "qsub", "saveone"},
         mem' = Submitted(mem, j, i),
         Range(pending)' \subseteq Range(pending), UNCHANGED <<disk, checked>>
  PROVE  /\ Polled' /\ Packed' /\ Kept' /\ Released(mem)'
         /\ \A k \in Jobs : mem'.status[k] = IF k = j THEN "SUBMITTED" ELSE mem.status[k]
<1>1. \A k \in Jobs : mem'.status[k] = IF k = j THEN "SUBMITTED" ELSE mem.status[k]
  BY DEF SafeInv, TypeOK, JobRecords, Submitted
<1>2. mem.status[j] \in {"READY", "SUBMITTED"}
  BY DEF SafeInv, Packed
<1>3. Done(mem) = Done(mem')
  BY <1>1, <1>2, Statuses DEF Done
<1>4. Kept' /\ Released(mem')
  BY <1>1, <1>2, <1>3 DEF SafeInv, Kept, Done, Released
<1>5. Range(pending) \subseteq Jobs
  BY LenProperties DEF SafeInv, TypeOK, Range
<1>6. Polled' /\ Packed'
  BY <1>1, <1>5 DEF SafeInv, Polled, Packed
<1> QED
  BY <1>1, <1>4, <1>6 DEF Released, Done

LEMMA AssignIdSafe ==
  ASSUME SafeInv, TypeOK', OwnerKnown', AssignId
  PROVE  SafeStep
<1>1. /\ Head(pending) \in Jobs /\ Head(pending) \in Range(pending)
      /\ Range(pending)' \subseteq Range(pending)
  BY HeadAndTail DEF AssignId, SafeInv, TypeOK
<1>2. mem' = Submitted(mem, Head(pending), Head(jobsId))
  BY DEF AssignId
<1>3. pc = "assign" /\ UNCHANGED <<pc, disk, checked, script, owner, file>>
  BY DEF AssignId
<1>4. /\ Polled' /\ Packed' /\ Kept' /\ Released(mem)'
      /\ \A k \in Jobs : mem'.status[k] = IF k = Head(pending) THEN "SUBMITTED"
                                          ELSE mem.status[k]
  BY <1>1, <1>2, <1>3, SubmittedSafe
<1>5. SavedDone \subseteq SavedDone'
  BY <1>3 DEF SavedDone, Done
<1>6. Scripted' /\ LaunchedAfterParents' /\ FilesHanded'
  BY <1>3, <1>5, RelyOnDone, FilesKept
<1>7. Released(disk)' /\ Justified(mem)' /\ Justified(disk)'
  BY <1>3, <1>4 DEF SafeInv, Released, Done, Justified, MaySkip
<1> QED
  BY <1>4, <1>5, <1>6, <1>7 DEF SafeStep, SafeInv

\* The job's old _COMPLETED file is removed, but then it was not COMPLETED.
LEMMA SubmitOneSafe ==
  ASSUME SafeInv, TypeOK', OwnerKnown', SubmitOne
  PROVE  SafeStep
<1> DEFINE j == Head(pending)
<1>1. j \in Jobs /\ j \in Range(pending) /\ Range(pending)' \subseteq Range(pending)
  BY HeadAndTail DEF SubmitOne, SafeInv, TypeOK
<1>2. PICK i \in Ids :
        /\ Fresh(i)
        /\ owner' = [owner EXCEPT ![i] = j]
        /\ file' = file \ {j}
        /\ \/ mem' = Submitted(mem, j, i) /\ pc' = "saveone"
           \/ UNCHANGED <<mem, pc>>
  BY DEF SubmitOne
<1>3. pc = "qsub" /\ UNCHANGED <<disk, checked, script>>
  BY DEF SubmitOne
<1>4. mem.status[j] \in {"READY", "SUBMITTED"} /\ disk.status[j] \in {"READY", "SUBMITTED"}
  BY <1>1, <1>3 DEF SafeInv, Packed
<1>5. Hard[j] \subseteq Done(disk)
  BY <1>1, <1>4 DEF SafeInv, Released
<1>6. LaunchedAfterParents' /\ FilesHanded'
  BY <1>1, <1>2, <1>3, <1>5, HandOutSafe
<1>7. /\ Polled' /\ Packed' /\ Kept' /\ Released(mem)'
      /\ \A k \in Jobs : mem'.status[k] \in {mem.status[k], "SUBMITTED"}
  <2>1. CASE mem' = Submitted(mem, j, i) /\ pc' = "saveone"
    BY <1>1, <1>3, <2>1, SubmittedSafe
  <2>2. CASE UNCHANGED <<mem, pc>>
    BY <1>1, <1>3, <2>2 DEF SafeInv, Polled, Packed, Kept, Done, Released
  <2> QED
    BY <1>2, <2>1, <2>2
<1>8. SavedDone \subseteq SavedDone' /\ Scripted' /\ Released(disk)'
  BY <1>3 DEF SavedDone, Done, Scripted, SafeInv, Released
<1>9. Justified(mem)' /\ Justified(disk)'
  <2>1. mem'.status[j] \in {"READY", "SUBMITTED"}
    BY <1>1, <1>4, <1>7
  <2> QED
    BY <1>1, <1>2, <1>3, <1>4, <1>7, <2>1 DEF Justified, SafeInv, MaySkip
<1> QED
  BY <1>6, <1>7, <1>8, <1>9 DEF SafeStep, SafeInv

\* A file is refused or cannot be sent: as if the job was not in the package.
LEMMA SubmitOneFailsSafe ==
  ASSUME SafeInv, TypeOK', OwnerKnown', SubmitOneFails
  PROVE  SafeStep
<1> DEFINE j == Head(pending)
<1>1. j \in Jobs /\ j \in Range(pending) /\ Range(pending)' \subseteq Range(pending)
  BY HeadAndTail DEF SubmitOneFails, SafeInv, TypeOK
<1>2. /\ pc = "qsub" /\ file' \in {file, file \ {j}}
      /\ UNCHANGED <<pc, mem, disk, checked, script, owner>>
  BY DEF SubmitOneFails
<1>3. mem.status[j] \in {"READY", "SUBMITTED"} /\ disk.status[j] \in {"READY", "SUBMITTED"}
  BY <1>1, <1>2 DEF SafeInv, Packed
<1>4. Justified(mem)' /\ Justified(disk)' /\ FilesHanded'
  BY <1>2, <1>3 DEF Justified, FilesHanded, Handed, SafeInv, MaySkip
<1>5. Polled' /\ Packed'
  BY <1>1, <1>2 DEF Polled, Packed, SafeInv
<1>6. /\ SavedDone \subseteq SavedDone' /\ Kept' /\ Scripted' /\ Released(mem)' /\ Released(disk)'
      /\ LaunchedAfterParents'
  BY <1>2 DEF SavedDone, Done, Kept, Scripted, Released, LaunchedAfterParents, SafeInv
<1> QED
  BY <1>4, <1>5, <1>6 DEF SafeStep, SafeInv

LEMMA JobSucceedsSafe ==
  ASSUME SafeInv, TypeOK', OwnerKnown', NEW i \in Ids, JobSucceeds(i)
  PROVE  SafeStep
<1>1. state[i] = "R" /\ file' = file \cup {owner[i]}
      /\ UNCHANGED <<processVars, disk, script, owner>>
  BY DEF JobSucceeds, Move
<1>2. UNCHANGED <<pc, mem, checked, pending>>
  BY <1>1 DEF processVars, iterVars
<1>3. FilesHanded' /\ Justified(mem)' /\ Justified(disk)'
  BY <1>1, <1>2 DEF SafeInv, FilesHanded, Handed, Justified, MaySkip
<1>4. Polled' /\ Packed'
  BY <1>1, <1>2 DEF Polled, Packed, SafeInv
<1>5. /\ SavedDone \subseteq SavedDone' /\ Kept' /\ Scripted' /\ Released(mem)' /\ Released(disk)'
      /\ LaunchedAfterParents'
  BY <1>1, <1>2 DEF SavedDone, Done, Kept, Scripted, Released, LaunchedAfterParents, SafeInv
<1> QED
  BY <1>3, <1>4, <1>5 DEF SafeStep, SafeInv

LEMMA StutterSafe ==
  ASSUME SafeInv, TypeOK', OwnerKnown',
         UNCHANGED <<mem, disk, checked, pending, owner, file, script>>,
         \/ pc' = pc
         \/ /\ pc # "update" /\ pc' # "update"
            /\ pc' \in {"sbatch", "assign", "qsub", "saveone"}
                 => pc \in {"sbatch", "assign", "qsub", "saveone"}
  PROVE  SafeStep
<1>1. Polled' /\ Packed'
  BY DEF Polled, Packed, SafeInv
<1> QED
  BY <1>1, QuietSafe

LEMMA LoopSafe ==
  ASSUME SafeInv, TypeOK', OwnerKnown', Loop
  PROVE  SafeStep
<1>1. CASE ReturnOnExit
  BY <1>1, LeaveSafe DEF ReturnOnExit, remoteVars
<1>2. CASE StartIteration
  BY <1>2, StutterSafe DEF StartIteration, iterVars, remoteVars
<1>3. CASE EndRun
  <2>1. Polled' /\ Packed'
    BY <1>3 DEF EndRun, iterVars, Polled, Packed, SafeInv
  <2> QED
    BY <1>3, <2>1, SaveSafe DEF EndRun, remoteVars
<1>4. CASE Poll
  BY <1>4, PollSafe
<1>5. CASE PollError
  BY <1>5, LeaveSafe DEF PollError, remoteVars
<1>6. CASE \E r \in checked : UpdateStatus(r)
  BY <1>6, UpdateStatusSafe
<1>7. CASE AfterCheck
  BY <1>7, UpdateAndSaveSafe DEF AfterCheck
<1>8. CASE AfterSubmit
  BY <1>8, UpdateAndSaveSafe DEF AfterSubmit, SafeInv, Polled
<1> QED
  BY <1>1, <1>2, <1>3, <1>4, <1>5, <1>6, <1>7, <1>8 DEF Loop

LEMMA SubmissionSafe ==
  ASSUME SafeInv, TypeOK', OwnerKnown', Submission
  PROVE  SafeStep
<1>1. CASE BuildScript
  BY <1>1, BuildScriptSafe
<1>2. CASE ReadIds
  BY <1>2, StutterSafe DEF ReadIds, iterVars, remoteVars
<1>3. CASE CancelAndRaise
  BY <1>3, LeaveSafe DEF CancelAndRaise
<1>4. CASE AssignId
  BY <1>4, AssignIdSafe
<1>5. CASE AssignError \/ DroppedError
  BY <1>5, LeaveSafe DEF AssignError, DroppedError, remoteVars
<1>6. CASE SaveBatch
  <2>1. Polled' /\ Packed'
    BY <1>6 DEF SaveBatch, Polled, Packed, SafeInv
  <2> QED
    BY <1>6, <2>1, SaveSafe DEF SaveBatch, remoteVars
<1>7. CASE StartOneByOne
  <2>1. PICK pack \in Packages(mem) : pending' \in Orders(pack)
    BY <1>7 DEF StartOneByOne
  <2>2. pack \in SUBSET Jobs /\ \A j \in pack : mem.status[j] = "READY"
    BY DEF Packages, Ready
  <2>3. Range(pending)' = pack
    BY <2>1, <2>2, OrdersType
  <2>4. Polled' /\ Packed'
    BY <1>7, <2>2, <2>3 DEF StartOneByOne, Polled, Packed, SafeInv
  <2> QED
    BY <1>7, <2>4, SaveSafe DEF StartOneByOne, remoteVars
<1>8. CASE SubmitOne
  BY <1>8, SubmitOneSafe
<1>9. CASE SubmitOneFails
  BY <1>9, SubmitOneFailsSafe
<1>10. CASE SaveOne
  <2>1. Polled' /\ Packed'
    BY <1>10 DEF SaveOne, iterVars, Polled, Packed, SafeInv
  <2> QED
    BY <1>10, <2>1, SaveSafe DEF SaveOne, remoteVars
<1>11. CASE EndOneByOne
  <2>1. Polled' /\ Packed'
    BY <1>11 DEF EndOneByOne, iterVars, Polled, Packed, SafeInv
  <2> QED
    BY <1>11, <2>1, SaveSafe DEF EndOneByOne, remoteVars
<1> QED
  BY <1>1, <1>2, <1>3, <1>4, <1>5, <1>6, <1>7, <1>8, <1>9, <1>10, <1>11
     DEF Submission, NothingSubmitted, ScriptError

LEMMA RemoteSafe ==
  ASSUME SafeInv, TypeOK', OwnerKnown', Remote
  PROVE  SafeStep
<1>1. CASE RemoteLine
  BY <1>1, RemoteLineSafe
<1>2. CASE RemoteDies
  <2>1. UNCHANGED <<pc, mem, disk, checked, pending, owner, file>> /\ script' = <<>>
    BY <1>2 DEF RemoteDies, processVars, iterVars
  <2>2. Range(script)' \subseteq Range(script)
    BY <2>1 DEF Range
  <2>3. Polled' /\ Packed'
    BY <2>1 DEF Polled, Packed, SafeInv
  <2> QED
    BY <2>1, <2>2, <2>3, QuietSafe
<1>3. ASSUME NEW i \in Ids,
             JobStarts(i) \/ JobFails(i) \/ JobEndsWithoutFile(i) \/ JobEnds(i)
      PROVE  SafeStep
  BY <1>3, StutterSafe
     DEF JobStarts, JobFails, JobEndsWithoutFile, JobEnds, Move, processVars, iterVars
<1> QED
  BY <1>1, <1>2, <1>3, JobSucceedsSafe DEF Remote

LEMMA NextSafe ==
  ASSUME SafeInv, Next
  PROVE  SafeStep
<1>0. TypeOK' /\ OwnerKnown'
  BY NextTypes DEF SafeInv
<1>1. CASE PrepareRun \/ Recover
  BY <1>0, <1>1, LoadUpdateSaveSafe DEF PrepareRun, Recover
<1>2. CASE GiveUp \/ Kill
  BY <1>0, <1>2, LeaveSafe DEF GiveUp, Kill, remoteVars
<1>3. CASE Signal
  BY <1>0, <1>3, StutterSafe DEF Signal, iterVars, remoteVars
<1>4. CASE Loop
  BY <1>0, <1>4, LoopSafe
<1>5. CASE Submission
  BY <1>0, <1>5, SubmissionSafe
<1>6. CASE Remote
  BY <1>0, <1>6, RemoteSafe
<1>7. CASE \E j \in Jobs : DelayPasses(j)
  BY <1>0, <1>7, StutterSafe DEF DelayPasses, iterVars, remoteVars
<1>8. CASE Terminated
  BY <1>0, <1>8, StutterSafe DEF Terminated, vars
<1> QED
  BY <1>1, <1>2, <1>3, <1>4, <1>5, <1>6, <1>7, <1>8 DEF Next

-----------------------------------------------------------------------------
(* The theorems.                                                           *)

LEMMA InitSafe == Init => SafeInv
<1> SUFFICES ASSUME Init PROVE SafeInv
  OBVIOUS
<1>1. TypeOK /\ OwnerKnown
  BY InitTypes
<1>2. \A j \in Jobs : mem.status[j] = "WAITING"
  BY DEF Init
<1>3. Range(script) = {}
  BY DEF Init, Range
<1> QED
  BY <1>1, <1>2, <1>3
     DEF Init, SafeInv, Released, Justified, Kept, Polled, Packed, Scripted, FilesHanded,
         LaunchedAfterParents

LEMMA SafeInvariant == Spec => []SafeInv
<1>1. Init => SafeInv
  BY InitSafe
<1>2. SafeInv /\ [Next]_vars => SafeInv'
  <2> SUFFICES ASSUME SafeInv, [Next]_vars PROVE SafeInv'
    OBVIOUS
  <2>1. CASE Next
    BY <2>1, NextSafe DEF SafeStep
  <2>2. CASE UNCHANGED vars
    <3>1. TypeOK' /\ OwnerKnown'
      BY <2>2 DEF vars, SafeInv, TypeOK, OwnerKnown
    <3> QED
      BY <2>2, <3>1, StutterSafe DEF vars, SafeStep
  <2> QED
    BY <2>1, <2>2
<1> QED
  BY <1>1, <1>2, PTL DEF Spec

\* A job is never handed to the scheduler before its ordinary dependencies are
\* done in the saved list, whichever of the modelled faults happen.
THEOREM DependenciesRespected == Spec => []LaunchedAfterParents
<1>1. SafeInv => LaunchedAfterParents
  BY DEF SafeInv
<1> QED
  BY <1>1, SafeInvariant, PTL

\* Neither what the scheduler answers nor an old list makes a job COMPLETED that
\* has no _COMPLETED file.
THEOREM CompletionConfirmed == Spec => []CompletedHasFile
<1>1. SafeInv => CompletedHasFile
  BY DEF SafeInv, Justified, CompletedHasFile
<1> QED
  BY <1>1, SafeInvariant, PTL

\* Ids are handed out one at a time, for jobs whose dependencies are saved.
LEMMA OwnerStep ==
  ASSUME SafeInv, Next
  PROVE  \/ owner' = owner
         \/ /\ disk' = disk
            /\ \E i \in Ids, j \in Jobs :
                 /\ owner[i] = NoJob /\ Hard[j] \subseteq Done(disk)
                 /\ owner' = [owner EXCEPT ![i] = j]
<1>1. CASE RemoteLine
  <2>1. Head(script) \in Jobs /\ Hard[Head(script)] \subseteq Done(disk)
    BY <1>1, HeadAndTail DEF RemoteLine, SafeInv, TypeOK, Scripted
  <2> QED
    BY <1>1, <2>1 DEF RemoteLine, Fresh, FreeIds
<1>2. CASE SubmitOne
  <2>1. Head(pending) \in Jobs /\ Head(pending) \in Range(pending)
    BY <1>2, HeadAndTail DEF SubmitOne, SafeInv, TypeOK
  <2>2. Hard[Head(pending)] \subseteq Done(disk)
    BY <1>2, <2>1 DEF SubmitOne, SafeInv, Packed, Released
  <2> QED
    BY <1>2, <2>1, <2>2 DEF SubmitOne, Fresh, FreeIds
<1>3. CASE PrepareRun \/ Recover \/ GiveUp \/ Kill \/ Signal
  BY <1>3 DEF PrepareRun, Recover, LoadUpdateSave, GiveUp, Kill, Signal, remoteVars
<1>4. CASE Loop
  BY <1>4 DEF Loop, ReturnOnExit, StartIteration, EndRun, Poll, PollError, UpdateStatus,
              AfterCheck, AfterSubmit, UpdateAndSave, remoteVars
<1>5. CASE Submission /\ ~SubmitOne
  BY <1>5 DEF Submission, BuildScript, ReadIds, NothingSubmitted, ScriptError,
              CancelAndRaise, AssignId, AssignError, DroppedError, SaveBatch,
              StartOneByOne, SubmitOneFails, SaveOne, EndOneByOne, remoteVars
<1>6. CASE Remote /\ ~RemoteLine
  BY <1>6 DEF Remote, RemoteDies, JobStarts, JobSucceeds, JobFails, JobEndsWithoutFile,
              JobEnds, Move
<1>7. CASE (\E j \in Jobs : DelayPasses(j)) \/ Terminated
  BY <1>7 DEF DelayPasses, Terminated, vars, remoteVars
<1> QED
  BY <1>1, <1>2, <1>3, <1>4, <1>5, <1>6, <1>7 DEF Next

LEMMA StepImplements ==
  ASSUME SafeInv, Next
  PROVE  [Promise!Next]_<<SavedDone, owner>>
<1>1. SafeInv' /\ SavedDone \subseteq SavedDone'
  BY NextSafe DEF SafeStep
<1>2. CASE owner' = owner
  <2> DEFINE S == SavedDone' \ SavedDone
  <2>1. S \in SUBSET Jobs /\ SavedDone' = SavedDone \cup S
    BY <1>1 DEF SavedDone, Done
  <2>2. ASSUME NEW j \in S
        PROVE  Hard[j] \subseteq SavedDone'
    BY <1>1, <2>2, HardIsNotSync, Statuses DEF SavedDone, Done, SafeInv, Released
  <2>3. ASSUME NEW j \in S
        PROVE  Promise!Launched(j) \/ j \in MaySkip
    BY <1>1, <1>2, <2>3, Statuses
       DEF SavedDone, Done, SafeInv, Justified, FilesHanded, Handed, Promise!Launched, MaySkip
  <2>4. Promise!Settle(S)
    BY <1>2, <2>1, <2>2, <2>3 DEF Promise!Settle
  <2> QED
    BY <2>1, <2>4 DEF Promise!Next
<1>3. CASE /\ disk' = disk
           /\ \E i \in Ids, j \in Jobs :
                /\ owner[i] = NoJob /\ Hard[j] \subseteq Done(disk)
                /\ owner' = [owner EXCEPT ![i] = j]
  <2>1. PICK i \in Ids, j \in Jobs :
                /\ owner[i] = NoJob /\ Hard[j] \subseteq Done(disk)
                /\ owner' = [owner EXCEPT ![i] = j]
    BY <1>3
  <2>2. SavedDone' = SavedDone
    BY <1>3 DEF SavedDone, Done
  <2>3. Hard[j] \subseteq SavedDone
    BY <2>1, HardIsNotSync DEF SavedDone
  <2>4. Promise!Launch(i, j)
    BY <2>1, <2>2, <2>3 DEF Promise!Launch
  <2> QED
    BY <2>4 DEF Promise!Next
<1> QED
  BY <1>2, <1>3, OwnerStep

\* The run loop, the scheduler and the saved list together implement the
\* abstract workflow, through every kill, lost connection and recovery.
THEOREM Implements == Spec => ImplementsWorkflow
<1>1. Init => Promise!Init
  BY Statuses DEF Init, Promise!Init, SavedDone, Done
<1>2. SafeInv /\ [Next]_vars => [Promise!Next]_<<SavedDone, owner>>
  <2>1. UNCHANGED vars => UNCHANGED <<SavedDone, owner>>
    BY DEF vars, SavedDone, Done
  <2> QED
    BY <2>1, StepImplements
<1> QED
  BY <1>1, <1>2, SafeInvariant, PTL DEF Spec, ImplementsWorkflow, Promise!Spec

\* A run that stops between two iterations, at its end or because it was asked
\* to, has saved everything it had decided.
THEOREM StopsClean == Spec => []CleanStop
<1>1. Init => CleanStop
  BY DEF Init, CleanStop
<1>2. CleanStop /\ Next => CleanStop'
  <2> SUFFICES ASSUME CleanStop, Next PROVE CleanStop'
    OBVIOUS
  <2> USE DEF CleanStop, iterVars, processVars, remoteVars
  <2>1. CASE PrepareRun \/ Recover \/ GiveUp \/ Kill \/ Signal
    BY <2>1 DEF PrepareRun, Recover, LoadUpdateSave, GiveUp, Kill, Signal, Leave
  <2>2. CASE Loop
    BY <2>2 DEF Loop, ReturnOnExit, StartIteration, EndRun, Poll, PollError, UpdateStatus,
                AfterCheck, AfterSubmit, UpdateAndSave, Leave
  <2>3. CASE Submission
    BY <2>3 DEF Submission, BuildScript, Built, ReadIds, NothingSubmitted, ScriptError,
                CancelAndRaise, AssignId, AssignError, DroppedError, SaveBatch,
                StartOneByOne, SubmitOne, SubmitOneFails, SaveOne, EndOneByOne, Leave
  <2>4. CASE Remote
    BY <2>4 DEF Remote, RemoteLine, RemoteDies, JobStarts, JobSucceeds, JobFails,
                JobEndsWithoutFile, JobEnds, Move
  <2>5. CASE (\E j \in Jobs : DelayPasses(j)) \/ Terminated
    BY <2>5 DEF DelayPasses, Terminated, vars
  <2> QED
    BY <2>1, <2>2, <2>3, <2>4, <2>5 DEF Next
<1>3. CleanStop /\ UNCHANGED vars => CleanStop'
  BY DEF CleanStop, vars
<1> QED
  BY <1>1, <1>2, <1>3, PTL DEF Spec

-----------------------------------------------------------------------------
(* What is left when the run ends.                                         *)

\* No job has a status the run never gives.
Ordinary(m) == \A j \in Jobs : m.status[j] \notin {"PREPARED", "SUSPENDED"}

NoneToRetry(m) == Retried(m) = {}

SyncSettled(m) ==
  \A j \in Sync : m.status[j] = "COMPLETED" =>
    \A p \in Parents[j] : m.status[p] \in DoneStatus \cup {"FAILED"}

\* A job that waits has something to wait for.  A job that is skipped last of
\* all leaves its children waiting for nothing.
WaitsForParents(m) ==
  MaySkip = {} =>
    \A j \in Jobs : m.status[j] = "WAITING" => Parents[j] \ Done(m) # {}

LeftInv ==
  /\ Ordinary(mem) /\ Ordinary(disk)
  /\ NoneToRetry(disk)
  /\ pc # "update" => NoneToRetry(mem)
  /\ pc \in {"head", "done"} => SyncSettled(mem) /\ WaitsForParents(mem)
  /\ pc = "done" => Active(mem) = {}

\* What update_list leaves behind.
LEMMA UpdateListSettles ==
  ASSUME NEW m \in JobRecords, NEW first \in BOOLEAN, NEW expired,
         Ordinary(m), first => NoneToRetry(m)
  PROVE  LET n == UpdateList(m, first, expired)
         IN Ordinary(n) /\ NoneToRetry(n) /\ SyncSettled(n) /\ WaitsForParents(n)
<1> DEFINE m1 == IF first THEN ForgetFails(m) ELSE RetryFailed(m)
           m2 == StartSpecial(m1)
           m3 == Resync(m2)
           m4 == Release(m3, expired)
           m5 == SkipOlder(m4)
<1>1. /\ m1 \in JobRecords /\ m2 \in JobRecords /\ m3 \in JobRecords /\ m4 \in JobRecords
      /\ m5 \in JobRecords
  BY ForgetFailsType, RetryFailedType, StartSpecialType, ResyncType, ReleaseType, SkipOlderType
<1>2. Ordinary(m1) /\ NoneToRetry(m1)
  <2>1. first => Ordinary(ForgetFails(m)) /\ NoneToRetry(ForgetFails(m))
    BY DEF ForgetFails, JobRecords, Ordinary, NoneToRetry, Retried, VolatileStatus
  <2>2. Ordinary(RetryFailed(m)) /\ NoneToRetry(RetryFailed(m))
    BY DEF RetryFailed, Retried, JobRecords, Ordinary, NoneToRetry
  <2> QED
    BY <2>1, <2>2
<1> HIDE DEF m1
<1>3. Ordinary(m2) /\ NoneToRetry(m2)
  BY <1>1, <1>2 DEF StartSpecial, JobRecords, Ordinary, NoneToRetry, Retried
<1> HIDE DEF m2
<1>4. Ordinary(m3) /\ NoneToRetry(m3) /\ SyncSettled(m3)
  <2>1. \A j \in Jobs :
          m3.status[j] = IF /\ j \in Sync /\ m2.status[j] = "COMPLETED"
                            /\ \E p \in Parents[j] : m2.status[p] \notin DoneStatus \cup {"FAILED"}
                         THEN "WAITING" ELSE m2.status[j]
    BY <1>1 DEF Resync, JobRecords
  <2>2. m3.fails = m2.fails
    BY <1>1 DEF Resync, JobRecords
  <2>3. \A j \in Sync : j \in Jobs /\ Parents[j] \subseteq Jobs \ Sync
    BY JobsAssumption
  <2>4. SyncSettled(m3)
    BY <2>1, <2>3 DEF SyncSettled
  <2> QED
    BY <1>3, <2>1, <2>2, <2>4 DEF Ordinary, NoneToRetry, Retried
<1> HIDE DEF m3
<1>5. Ordinary(m4) /\ NoneToRetry(m4) /\ SyncSettled(m4) /\ WaitsForParents(m4)
  <2>1. \A j \in Jobs :
          m4.status[j] = IF \/ m3.status[j] = "DELAYED" /\ j \in expired
                            \/ /\ m3.status[j] = "WAITING"
                               /\ \A p \in Parents[j] : m3.status[p] \in DoneStatus
                         THEN "READY" ELSE m3.status[j]
    BY <1>1 DEF Release, JobRecords
  <2>2. m4.fails = m3.fails
    BY <1>1 DEF Release, JobRecords
  <2>3. Ordinary(m4) /\ NoneToRetry(m4)
    BY <1>4, <2>1, <2>2 DEF Ordinary, NoneToRetry, Retried
  <2>4. SyncSettled(m4)
    BY <1>4, <2>1, JobsAssumption DEF SyncSettled, DoneStatus
  <2>5. WaitsForParents(m4)
    BY <2>1, JobsAssumption DEF WaitsForParents, Done, DoneStatus
  <2> QED
    BY <2>3, <2>4, <2>5
<1> HIDE DEF m4
<1>6. Ordinary(m5) /\ NoneToRetry(m5) /\ SyncSettled(m5) /\ WaitsForParents(m5)
  <2>1. \A j \in Jobs : m5.status[j] = IF j \in Skipped(m4) THEN "SKIPPED" ELSE m4.status[j]
    BY <1>1 DEF SkipOlder, JobRecords
  <2>2. m5.fails = m4.fails
    BY <1>1 DEF SkipOlder, JobRecords
  <2>3. \A j \in Skipped(m4) : m4.status[j] \in {"READY", "QUEUING"} /\ j \in MaySkip
    BY DEF Skipped, MaySkip
  <2>4. Ordinary(m5) /\ NoneToRetry(m5)
    BY <1>5, <2>1, <2>2 DEF Ordinary, NoneToRetry, Retried
  <2>5. SyncSettled(m5)
    BY <1>5, <2>1, <2>3, JobsAssumption DEF SyncSettled, DoneStatus
  <2>6. WaitsForParents(m5)
    BY <1>5, <2>1, <2>3, JobsAssumption DEF WaitsForParents, Done
  <2> QED
    BY <2>4, <2>5, <2>6
<1> QED
  BY <1>6 DEF UpdateList, BeforeSkip, m1, m2, m3, m4

LEMMA LoadSettles ==
  ASSUME NEW m \in JobRecords, Ordinary(m), NoneToRetry(m)
  PROVE  Ordinary(Load(m)) /\ NoneToRetry(Load(m))
BY DEF Load, JobRecords, Ordinary, NoneToRetry, Retried, VolatileStatus

LEMMA LoadUpdateSaveLeft ==
  ASSUME SafeInv, LeftInv, LoadUpdateSave
  PROVE  LeftInv'
<1>1. Load(disk) \in JobRecords /\ Ordinary(Load(disk)) /\ NoneToRetry(Load(disk))
  BY LoadType, LoadSettles DEF SafeInv, TypeOK, LeftInv
<1>2. Ordinary(mem') /\ NoneToRetry(mem') /\ SyncSettled(mem') /\ WaitsForParents(mem')
  BY <1>1, UpdateListSettles DEF LoadUpdateSave
<1>3. disk' = mem' /\ pc' = "head"
  BY DEF LoadUpdateSave
<1> QED
  BY <1>2, <1>3 DEF LeftInv, Ordinary, NoneToRetry, Retried, SyncSettled, WaitsForParents, Done,
                    MaySkip

LEMMA UpdateAndSaveLeft ==
  ASSUME SafeInv, LeftInv, UpdateAndSave, pc' \in {"head", "submit"}
  PROVE  LeftInv'
<1>1. Ordinary(mem') /\ NoneToRetry(mem') /\ SyncSettled(mem') /\ WaitsForParents(mem')
  BY UpdateListSettles DEF UpdateAndSave, SafeInv, TypeOK, LeftInv
<1>2. disk' = mem'
  BY DEF UpdateAndSave
<1> QED
  BY <1>1, <1>2 DEF LeftInv, Ordinary, NoneToRetry, Retried, SyncSettled, WaitsForParents, Done,
                    MaySkip

LEMMA UpdateStatusLeft ==
  ASSUME SafeInv, LeftInv, NEW r \in checked, UpdateStatus(r)
  PROVE  LeftInv'
<1> DEFINE s == Confirmed(r.job, r.new)
           m == [mem EXCEPT !.status[r.job] = s]
<1>1. /\ r.job \in Jobs /\ mem \in JobRecords
      /\ s \in {"QUEUING", "RUNNING", "COMPLETED", "FAILED", "UNKNOWN"}
  BY DEF SafeInv, TypeOK, CheckRecords, Polled, Confirmed
<1>2. pc = "update" /\ pc' = "update" /\ disk' = disk
  BY DEF UpdateStatus
<1>3. \A j \in Jobs : m.status[j] = IF j = r.job THEN s ELSE mem.status[j]
  BY <1>1 DEF JobRecords
<1>4. \A j \in Jobs : mem'.status[j] \in {m.status[j], "FAILED"}
  BY DEF UpdateStatus
<1>5. Ordinary(mem')
  BY <1>1, <1>3, <1>4 DEF LeftInv, Ordinary
<1> QED
  BY <1>2, <1>5 DEF LeftInv, Ordinary, NoneToRetry, Retried

\* Steps between two updates: statuses change to SUBMITTED only, and what is
\* saved is what is in memory.
LEMMA BetweenLeft ==
  ASSUME SafeInv, LeftInv, pc # "update", pc' \notin {"update", "head", "done"},
         \/ mem' = disk
         \/ /\ mem'.fails = mem.fails
            /\ \A j \in Jobs : mem'.status[j] \in {mem.status[j], "SUBMITTED"},
         disk' \in {disk, mem}
  PROVE  LeftInv'
<1>1. Ordinary(mem') /\ NoneToRetry(mem')
  BY DEF LeftInv, Ordinary, NoneToRetry, Retried
<1>2. Ordinary(disk') /\ NoneToRetry(disk')
  BY DEF LeftInv
<1> QED
  BY <1>1, <1>2 DEF LeftInv, Ordinary, NoneToRetry, Retried

\* Steps that leave the lists alone.
LEMMA QuietLeft ==
  ASSUME LeftInv, UNCHANGED <<mem, disk>>,
         \/ pc' = pc
         \/ pc' \notin {"head", "done"} /\ pc # "update"
  PROVE  LeftInv'
BY DEF LeftInv, Ordinary, NoneToRetry, Retried, SyncSettled, WaitsForParents, Done, MaySkip, Active

LEMMA SubmittedLeft ==
  ASSUME TypeOK, NEW j \in Jobs, NEW i
  PROVE  LET n == Submitted(mem, j, i)
         IN /\ n.fails = mem.fails
            /\ \A k \in Jobs : n.status[k] \in {mem.status[k], "SUBMITTED"}
BY DEF Submitted, TypeOK, JobRecords

LEMMA SubmissionLeft ==
  ASSUME SafeInv, LeftInv, Submission
  PROVE  LeftInv'
<1>1. CASE BuildScript
  <2>1. /\ pc = "submit" /\ pc' \in {"list", "sbatch"} /\ disk' = mem
        /\ mem'.status = mem.status /\ mem'.fails = mem.fails
    BY <1>1 DEF BuildScript, Built, SafeInv, TypeOK, JobRecords
  <2> QED
    BY <2>1, BetweenLeft
<1>2. CASE ReadIds
  BY <1>2, QuietLeft DEF ReadIds
<1>3. CASE NothingSubmitted \/ ScriptError
  <2>1. mem' = disk /\ disk' = disk /\ pc = "sbatch" /\ pc' \in {"off", "recover"}
    BY <1>3 DEF NothingSubmitted, ScriptError, CancelAndRaise, Leave
  <2> QED
    BY <2>1, BetweenLeft
<1>4. CASE AssignId
  <2>1. Head(pending) \in Jobs
    BY <1>4, HeadAndTail DEF AssignId, SafeInv, TypeOK
  <2> QED
    BY <1>4, <2>1, SubmittedLeft, BetweenLeft DEF AssignId, SafeInv
<1>5. CASE AssignError \/ DroppedError
  <2>1. mem' = disk /\ disk' = disk /\ pc = "assign" /\ pc' = "recover"
    BY <1>5 DEF AssignError, DroppedError, Leave
  <2> QED
    BY <2>1, BetweenLeft
<1>6. CASE SaveBatch \/ StartOneByOne \/ SaveOne \/ EndOneByOne
  BY <1>6, BetweenLeft DEF SaveBatch, StartOneByOne, SaveOne, EndOneByOne
<1>7. CASE SubmitOne
  <2>1. Head(pending) \in Jobs
    BY <1>7, HeadAndTail DEF SubmitOne, SafeInv, TypeOK
  <2>2. pc = "qsub" /\ pc' \in {"qsub", "saveone"} /\ disk' = disk
        /\ (mem' = mem \/ \E i \in Ids : mem' = Submitted(mem, Head(pending), i))
    BY <1>7 DEF SubmitOne
  <2> QED
    BY <2>1, <2>2, SubmittedLeft, BetweenLeft DEF SafeInv
<1>8. CASE SubmitOneFails
  BY <1>8, QuietLeft DEF SubmitOneFails
<1> QED
  BY <1>1, <1>2, <1>3, <1>4, <1>5, <1>6, <1>7, <1>8 DEF Submission

LEMMA NextLeft ==
  ASSUME SafeInv, LeftInv, [Next]_vars
  PROVE  LeftInv'
<1>1. CASE PrepareRun \/ Recover
  BY <1>1, LoadUpdateSaveLeft DEF PrepareRun, Recover
<1>2. CASE GiveUp \/ Kill \/ ReturnOnExit \/ PollError
  <2>1. mem' = disk /\ disk' = disk /\ pc' \in {"off", "recover"}
    BY <1>2 DEF GiveUp, Kill, ReturnOnExit, PollError, Leave
  <2> QED
    BY <2>1 DEF LeftInv, Ordinary, NoneToRetry, Retried
<1>3. CASE Signal \/ \E j \in Jobs : DelayPasses(j)
  BY <1>3, QuietLeft DEF Signal, DelayPasses
<1>4. CASE StartIteration \/ Poll
  BY <1>4, QuietLeft DEF StartIteration, Poll
<1>5. CASE EndRun
  BY <1>5 DEF EndRun, LeftInv, Ordinary, NoneToRetry, Retried, SyncSettled, WaitsForParents, Done,
              MaySkip, Active
<1>6. CASE \E r \in checked : UpdateStatus(r)
  BY <1>6, UpdateStatusLeft
<1>7. CASE AfterCheck \/ AfterSubmit
  BY <1>7, UpdateAndSaveLeft DEF AfterCheck, AfterSubmit
<1>8. CASE Submission
  BY <1>8, SubmissionLeft
<1>9. CASE Remote
  <2>1. UNCHANGED <<pc, mem, disk>>
    BY <1>9 DEF Remote, RemoteLine, RemoteDies, JobStarts, JobSucceeds, JobFails,
                JobEndsWithoutFile, JobEnds, Move, processVars
  <2> QED
    BY <2>1, QuietLeft
<1>10. CASE UNCHANGED vars
  BY <1>10, QuietLeft DEF vars
<1> QED
  BY <1>1, <1>2, <1>3, <1>4, <1>5, <1>6, <1>7, <1>8, <1>9, <1>10 DEF Next, Loop, Terminated

LEMMA LeftInvariant == Spec => []LeftInv
<1>1. Init => LeftInv
  BY DEF Init, LeftInv, Ordinary, NoneToRetry, Retried
<1>2. SafeInv /\ LeftInv /\ [Next]_vars => LeftInv'
  BY NextLeft
<1> QED
  BY <1>1, <1>2, SafeInvariant, PTL DEF Spec

\* When an iteration is over no synchronised job is COMPLETED ahead of a parent
\* that still has to run or to be retried.
THEOREM SyncWaits == Spec => []SyncAfterParents
<1>1. SafeInv /\ LeftInv => SyncAfterParents
  <2> SUFFICES ASSUME SafeInv, LeftInv, pc \in {"head", "done"}, NEW j \in Sync,
                      mem.status[j] = "COMPLETED", NEW p \in Parents[j]
               PROVE  p \in Done(mem) \cup ({k \in Jobs : mem.status[k] = "FAILED"} \ Retried(mem))
    BY DEF SyncAfterParents
  <2>1. p \in Jobs /\ mem.status[p] \in DoneStatus \cup {"FAILED"} /\ Retried(mem) = {}
    BY JobsAssumption DEF LeftInv, SyncSettled, NoneToRetry
  <2> QED
    BY <2>1 DEF Done
<1> QED
  BY <1>1, SafeInvariant, LeftInvariant, PTL

\* Where no section is SKIPPABLE, a run that ends has run everything it could.
THEOREM RunsToTheEnd == Spec => [](MaySkip = {} => NothingLeftToRun)
<1>1. SafeInv /\ LeftInv => (MaySkip = {} => NothingLeftToRun)
  <2> SUFFICES ASSUME SafeInv, LeftInv, MaySkip = {}, pc = "done", NEW j \in Jobs
               PROVE  \/ j \in Done(mem)
                      \/ mem.status[j] = "FAILED" /\ mem.fails[j] >= Retrials
                      \/ mem.status[j] = "WAITING" /\ Parents[j] \ Done(mem) # {}
    BY DEF NothingLeftToRun
  <2>1. mem.status[j] \in Status /\ mem.status[j] \notin ActiveStatus \cup {"PREPARED", "SUSPENDED"}
    BY DEF LeftInv, Ordinary, Active, SafeInv, TypeOK, JobRecords
  <2>2. mem.status[j] \in {"WAITING", "FAILED"} \cup DoneStatus
    BY <2>1, Statuses DEF ActiveStatus, InQueueStatus, DoneStatus
  <2>3. mem.status[j] = "FAILED" => mem.fails[j] >= Retrials
    BY NumbersAssumption DEF LeftInv, NoneToRetry, Retried, SafeInv, TypeOK, JobRecords
  <2>4. mem.status[j] = "WAITING" => Parents[j] \ Done(mem) # {}
    BY DEF LeftInv, WaitsForParents
  <2> QED
    BY <2>2, <2>3, <2>4 DEF Done
<1> QED
  BY <1>1, SafeInvariant, LeftInvariant, PTL

-----------------------------------------------------------------------------
(* The ids: the inductive invariant.                                       *)

\* In the list m, with the owners o and the states s of the ids: the id of the
\* job is one of its own and, where one script submits all jobs, its only one
\* in the queue.
KnownJob(m, o, s, j) ==
  /\ m.id[j] \in Ids /\ o[m.id[j]] = j
  /\ Batch /\ s[m.id[j]] \in LiveStates =>
       \A i \in Ids : o[i] = j /\ s[i] \in LiveStates => i = m.id[j]

Known(m, o, s) ==
  \A j \in Jobs : m.status[j] \in InQueueStatus => KnownJob(m, o, s, j)

\* The ids read so far are those of the first packages, one by one.
Matched == \A k \in 1..Len(jobsId) : owner[jobsId[k]] = pending[k]

\* While the script runs, what is left of it is the end of the list of packages;
\* a line that was refused makes the ids too few for the packages.
Lined ==
  pc = "sbatch" =>
    /\ Len(jobsId) + Len(script) <= Len(pending)
    /\ \A k \in 1..Len(script) : script[k] = pending[Len(pending) - Len(script) + k]
    /\ Len(jobsId) + Len(script) = Len(pending) => Matched

\* Too few ids: the jobs in memory may get those of others, but are never saved.
Assigned ==
  pc = "assign" =>
    /\ Len(jobsId) <= Len(pending)
    /\ Len(jobsId) = Len(pending) => Matched /\ Known(mem, owner, state)

\* A script may outlive its process; its jobs are READY until it has ended.
ScriptReady ==
  script # <<>> =>
    /\ pc \in {"sbatch", "recover", "off"}
    /\ \A j \in Range(script) : disk.status[j] = "READY" /\ mem.status[j] = "READY"

\* Where the process can be, by the kind of platform.
Where ==
  /\ pc \in {"sbatch", "assign"} => Batch
  /\ pc \in {"qsub", "saveone"} => ~Batch
  /\ pc \notin {"sbatch", "assign"} => jobsId = <<>>

UsedIds == {i \in Ids : owner[i] # NoJob}

IdInv ==
  /\ Known(disk, owner, state)
  /\ pc # "assign" => Known(mem, owner, state)
  /\ \A r \in checked : KnownJob(mem, owner, state, r.job)
  /\ Lined /\ Assigned /\ ScriptReady /\ Where
  /\ IsFiniteSet(UsedIds)

-----------------------------------------------------------------------------
(* What keeps the ids of a list right.                                     *)

\* Nothing of the queue is put in it again.
Settles(s, t) == \A i \in Ids : t[i] \in LiveStates => s[i] \in LiveStates

LEMMA SettlesKnown ==
  ASSUME NEW m, NEW o, NEW s, NEW t, Settles(s, t)
  PROVE  /\ Known(m, o, s) => Known(m, o, t)
         /\ \A j : KnownJob(m, o, s, j) => KnownJob(m, o, t, j)
BY DEF Settles, Known, KnownJob

LEMMA CancelledSettles ==
  ASSUME TypeOK, NEW S
  PROVE  Settles(state, Cancelled(S))
BY DEF Settles, Cancelled, LiveStates

\* n has no job in the queue that m has not, under the same id.
Leaves(m, n) ==
  \A j \in Jobs : n.status[j] \in InQueueStatus =>
    m.status[j] \in InQueueStatus /\ n.id[j] = m.id[j]

LEMMA LeavesKnown ==
  ASSUME NEW m, NEW n, NEW o, NEW s, Leaves(m, n), Known(m, o, s)
  PROVE  Known(n, o, s)
BY DEF Leaves, Known, KnownJob

LEMMA UpdateListLeaves ==
  ASSUME NEW m \in JobRecords, NEW first \in BOOLEAN, NEW expired
  PROVE  Leaves(m, UpdateList(m, first, expired))
<1> DEFINE m1 == IF first THEN ForgetFails(m) ELSE RetryFailed(m)
           m2 == StartSpecial(m1)
           m3 == Resync(m2)
           m4 == Release(m3, expired)
           m5 == SkipOlder(m4)
<1>1. m1 \in JobRecords /\ m2 \in JobRecords /\ m3 \in JobRecords /\ m4 \in JobRecords
  BY ForgetFailsType, RetryFailedType, StartSpecialType, ResyncType, ReleaseType
<1>2. Leaves(m, m1)
  <2>1. Leaves(m, ForgetFails(m))
    BY DEF ForgetFails, JobRecords, Leaves
  <2>2. Leaves(m, RetryFailed(m))
    BY DEF RetryFailed, Retried, JobRecords, Leaves, InQueueStatus
  <2> QED
    BY <2>1, <2>2
<1>3. Leaves(m1, m2)
  <2> HIDE DEF m1
  <2> QED
    BY <1>1 DEF StartSpecial, JobRecords, Leaves, InQueueStatus
<1>4. Leaves(m2, m3)
  <2> HIDE DEF m2
  <2> QED
    BY <1>1 DEF Resync, JobRecords, Leaves, InQueueStatus
<1>5. Leaves(m3, m4)
  <2> HIDE DEF m3
  <2> QED
    BY <1>1 DEF Release, JobRecords, Leaves, InQueueStatus
<1>6. Leaves(m4, m5)
  <2> HIDE DEF m4
  <2> QED
    BY <1>1 DEF SkipOlder, JobRecords, Leaves, InQueueStatus
<1>7. Leaves(m, m5)
  <2> HIDE DEF m1, m2, m3, m4, m5
  <2> QED
    BY <1>2, <1>3, <1>4, <1>5, <1>6 DEF Leaves
<1> QED
  BY <1>7 DEF UpdateList, BeforeSkip

LEMMA LoadLeaves ==
  ASSUME NEW m \in JobRecords
  PROVE  Leaves(m, Load(m))
BY DEF Load, JobRecords, Leaves, InQueueStatus, VolatileStatus

-----------------------------------------------------------------------------
(* Every step keeps the invariant.                                         *)

\* Steps of the process that leave the lists and the packages alone.
LEMMA QuietIds ==
  ASSUME SafeInv, IdInv, UNCHANGED <<mem, disk, checked, pending, jobsId, script, owner>>,
         Settles(state, state'),
         \/ pc' = pc
         \/ /\ pc \notin {"sbatch", "assign"} /\ pc' \notin {"sbatch", "assign"}
            /\ pc' \in {"qsub", "saveone"} => ~Batch
            /\ script = <<>> \/ pc' \in {"recover", "off"}
  PROVE  IdInv'
<1>1. /\ Known(disk, owner, state')
      /\ pc # "assign" => Known(mem, owner, state')
      /\ \A r \in checked : KnownJob(mem, owner, state', r.job)
      /\ Known(mem, owner, state) => Known(mem, owner, state')
  BY SettlesKnown DEF IdInv
<1>2. Lined' /\ Assigned'
  BY <1>1 DEF IdInv, Lined, Assigned, Matched
<1>3. ScriptReady' /\ Where'
  BY DEF IdInv, ScriptReady, Where
<1>4. UsedIds' = UsedIds
  BY DEF UsedIds
<1>5. IsFiniteSet(UsedIds)'
  BY <1>4 DEF IdInv
<1>6. Known(disk, owner, state)' /\ (pc # "assign" => Known(mem, owner, state))'
  BY <1>1
<1> QED
  BY <1>1, <1>2, <1>3, <1>5, <1>6 DEF IdInv

\* Steps that lose the memory of the process.
LEMMA LeaveIds ==
  ASSUME SafeInv, IdInv, NEW next \in {"off", "recover"}, Leave(next),
         UNCHANGED <<disk, owner, script>>, Settles(state, state')
  PROVE  IdInv'
<1>1. Known(disk, owner, state')
  BY SettlesKnown DEF IdInv
<1>2. Known(disk, owner, state)' /\ Known(mem, owner, state)'
  BY <1>1 DEF Leave
<1>3. Lined' /\ Assigned' /\ Where' /\ checked' = {}
  BY DEF Leave, Lined, Assigned, Where
<1>4. ScriptReady'
  BY DEF Leave, IdInv, ScriptReady
<1>5. UsedIds' = UsedIds
  BY DEF UsedIds
<1>6. IsFiniteSet(UsedIds)'
  BY <1>5 DEF IdInv
<1> QED
  BY <1>2, <1>3, <1>4, <1>6 DEF IdInv

\* Steps that update a list, the saved one or the one in memory, and save it.
LEMMA UpdateIds ==
  ASSUME SafeInv, IdInv, NEW m \in {mem, disk}, pc # "assign", Leaves(m, mem'), disk' = mem',
         UNCHANGED <<owner, script, jobsId>>, Settles(state, state'), checked' = {},
         pc \notin {"sbatch", "assign"}, pc' \in {"head", "submit"}, script = <<>>
  PROVE  IdInv'
<1>1. Known(m, owner, state)
  BY DEF IdInv
<1>2. Known(mem', owner, state')
  BY <1>1, LeavesKnown, SettlesKnown
<1>3. Known(disk, owner, state)' /\ Known(mem, owner, state)'
  BY <1>2
<1>4. Lined' /\ Assigned' /\ Where' /\ ScriptReady'
  BY DEF Lined, Assigned, Where, ScriptReady, IdInv
<1>5. UsedIds' = UsedIds
  BY DEF UsedIds
<1>6. IsFiniteSet(UsedIds)'
  BY <1>5 DEF IdInv
<1> QED
  BY <1>3, <1>4, <1>6 DEF IdInv

LEMMA LoadUpdateSaveIds ==
  ASSUME SafeInv, IdInv, LoadUpdateSave, script = <<>>, pc \in {"off", "recover"}
  PROVE  IdInv'
<1>1. disk \in JobRecords /\ Load(disk) \in JobRecords
  BY LoadType DEF SafeInv, TypeOK
<1>2. Leaves(disk, Load(disk)) /\ Leaves(Load(disk), mem')
  BY <1>1, LoadLeaves, UpdateListLeaves DEF LoadUpdateSave
<1>3. Leaves(disk, mem')
  BY <1>2 DEF Leaves
<1>4. Settles(state, state')
  BY CancelledSettles DEF LoadUpdateSave, SafeInv
<1> QED
  BY <1>3, <1>4, UpdateIds DEF LoadUpdateSave, iterVars, SafeInv, Polled

LEMMA UpdateAndSaveIds ==
  ASSUME SafeInv, IdInv, UpdateAndSave, pc \in {"update", "list"}, checked = {},
         pc' \in {"head", "submit"}
  PROVE  IdInv'
<1>1. Leaves(mem, mem')
  BY UpdateListLeaves DEF UpdateAndSave, SafeInv, TypeOK
<1>2. Settles(state, state')
  BY CancelledSettles DEF UpdateAndSave, SafeInv
<1> QED
  BY <1>1, <1>2, UpdateIds DEF UpdateAndSave, iterVars, IdInv, ScriptReady

LEMMA PollIds ==
  ASSUME SafeInv, IdInv, Poll
  PROVE  IdInv'
<1> DEFINE asked == IF exit THEN {} ELSE InQueue(mem)
<1>1. PICK hidden, stuck, late : checked' = Answers(asked, hidden, stuck, late)
  BY Zenon DEF Poll
<1>2. /\ pc = "check" /\ pc' = "update"
      /\ UNCHANGED <<mem, disk, pending, jobsId, script, owner>>
  BY DEF Poll
<1>3. Settles(state, state')
  BY CancelledSettles DEF Poll, SafeInv
<1>4. Known(disk, owner, state') /\ Known(mem, owner, state')
  BY <1>2, <1>3, SettlesKnown DEF IdInv
<1>5. \A r \in checked' : r.job \in InQueue(mem)
  BY <1>1 DEF Answers
<1>6. \A r \in checked' : KnownJob(mem, owner, state', r.job)
  BY <1>4, <1>5 DEF Known, InQueue
<1>7. Lined' /\ Assigned' /\ Where' /\ ScriptReady'
  BY <1>2 DEF Lined, Assigned, Where, ScriptReady, IdInv
<1>8. UsedIds' = UsedIds
  BY <1>2 DEF UsedIds
<1>9. IsFiniteSet(UsedIds)'
  BY <1>8 DEF IdInv
<1>10. /\ Known(disk, owner, state)' /\ Known(mem, owner, state)'
       /\ (\A r \in checked : KnownJob(mem, owner, state, r.job))'
  BY <1>2, <1>4, <1>6
<1> QED
  BY <1>7, <1>9, <1>10 DEF IdInv

\* A job that failed with another one may be in the queue again when its own
\* answer is looked at.
LEMMA UpdateStatusIds ==
  ASSUME SafeInv, IdInv, NEW r \in checked, UpdateStatus(r)
  PROVE  IdInv'
<1> DEFINE s == Confirmed(r.job, r.new)
           m == [mem EXCEPT !.status[r.job] = s]
           failed == FailedWith(m, r.job)
<1>1. r.job \in Jobs /\ mem \in JobRecords
  BY DEF SafeInv, TypeOK, CheckRecords
<1>2. /\ pc = "update" /\ checked' \subseteq checked
      /\ UNCHANGED <<pc, disk, pending, jobsId, script, owner, state>>
  BY DEF UpdateStatus, remoteVars
<1>3. \A j \in Jobs : m.status[j] = IF j = r.job THEN s ELSE mem.status[j]
  BY <1>1 DEF JobRecords
<1>4. \A j \in Jobs : \/ mem'.status[j] = m.status[j]
                      \/ mem'.status[j] = "FAILED"
  BY DEF UpdateStatus
<1>5. mem'.id = mem.id
  BY <1>1 DEF UpdateStatus, JobRecords
<1>6. Known(mem', owner, state)
  BY <1>2, <1>3, <1>4, <1>5 DEF IdInv, Known, KnownJob, InQueueStatus
<1>7. \A q \in checked' : KnownJob(mem', owner, state, q.job)
  BY <1>2, <1>5 DEF IdInv, KnownJob
<1>8. Lined' /\ Assigned' /\ Where' /\ ScriptReady'
  BY <1>2 DEF Lined, Assigned, Where, ScriptReady, IdInv
<1>9. UsedIds' = UsedIds
  BY <1>2 DEF UsedIds
<1>10. IsFiniteSet(UsedIds)'
  BY <1>9 DEF IdInv
<1>11. /\ Known(disk, owner, state)' /\ Known(mem, owner, state)'
       /\ (\A q \in checked : KnownJob(mem, owner, state, q.job))'
  BY <1>2, <1>6, <1>7 DEF IdInv
<1> QED
  BY <1>8, <1>10, <1>11 DEF IdInv

\* The packages of a submission were READY, and lose their ids before the list
\* is saved.
LEMMA BuildScriptIds ==
  ASSUME SafeInv, IdInv, BuildScript
  PROVE  IdInv'
<1>1. PICK pack \in Packages(mem) : \E valid \in SUBSET pack : Built(pack, valid)
  BY DEF BuildScript
<1>2. PICK valid \in SUBSET pack : Built(pack, valid)
  BY <1>1
<1>3. pack \subseteq Ready(mem)
  BY DEF Packages
<1>4. valid \in SUBSET Jobs /\ \A j \in valid : mem.status[j] = "READY"
  BY <1>3 DEF Ready
<1>5. /\ mem'.status = mem.status
      /\ \A j \in Jobs : mem'.id[j] = IF j \in valid THEN NoId ELSE mem.id[j]
  BY <1>2 DEF Built, SafeInv, TypeOK, JobRecords
<1>6. Range(script)' = valid /\ script' = pending'
  BY <1>2, <1>4, OrdersType DEF Built
<1>7. pc = "submit" /\ pc' \in {"list", "sbatch"} /\ disk' = mem /\ Batch
      /\ UNCHANGED <<checked, jobsId, owner, state>>
  BY <1>2 DEF BuildScript, Built
<1>8. jobsId = <<>> /\ checked = {}
  BY <1>7 DEF IdInv, Where, SafeInv, Polled
<1>9. Known(mem, owner, state)
  BY <1>7 DEF IdInv
<1>10. Known(mem', owner, state)
  BY <1>4, <1>5, <1>9 DEF Known, KnownJob, InQueueStatus
<1>11. pending' \in Seq(Jobs)
  BY <1>2, <1>4, OrdersType DEF Built
<1>12. Lined' /\ Assigned' /\ Where'
  BY <1>6, <1>7, <1>8, <1>11 DEF Lined, Assigned, Where, Matched
<1>13. ScriptReady'
  <2>1. valid = {} => script' = <<>>
    BY <1>6, <1>11, HeadAndTail
  <2>2. valid # {} => pc' = "sbatch"
    BY <1>2 DEF Built
  <2> QED
    BY <1>4, <1>5, <1>6, <1>7, <2>1, <2>2 DEF ScriptReady
<1>14. UsedIds' = UsedIds
  BY <1>7 DEF UsedIds
<1>15. IsFiniteSet(UsedIds)'
  BY <1>14 DEF IdInv
<1>16. /\ Known(disk, owner, state)' /\ Known(mem, owner, state)'
       /\ (\A q \in checked : KnownJob(mem, owner, state, q.job))'
  BY <1>7, <1>8, <1>9, <1>10
<1> QED
  BY <1>12, <1>13, <1>15, <1>16 DEF IdInv

\* A fresh id makes no other job's id wrong, and its job is not in the queue.
LEMMA FreshKnown ==
  ASSUME SafeInv, NEW i \in Ids, Fresh(i), NEW j \in Jobs,
         owner' = [owner EXCEPT ![i] = j], state' = [state EXCEPT ![i] = "Q"],
         NEW m, NEW k \in Jobs, k # j, KnownJob(m, owner, state, k)
  PROVE  KnownJob(m, owner', state', k)
<1>1. owner \in [Ids -> Jobs \cup {NoJob}] /\ owner[i] = NoJob /\ NoJob \notin Jobs
      /\ state \in [Ids -> States]
  BY SchedulerAssumption DEF SafeInv, TypeOK, Fresh, FreeIds
<1> QED
  BY <1>1 DEF KnownJob

LEMMA FreshUsed ==
  ASSUME SafeInv, IdInv, NEW i \in Ids, NEW j \in Jobs, owner' = [owner EXCEPT ![i] = j]
  PROVE  IsFiniteSet(UsedIds)'
<1>1. owner \in [Ids -> Jobs \cup {NoJob}] /\ NoJob \notin Jobs
  BY SchedulerAssumption DEF SafeInv, TypeOK
<1>2. UsedIds' = UsedIds \cup {i}
  BY <1>1 DEF UsedIds
<1> QED
  BY <1>2, FS_AddElement DEF IdInv

LEMMA RemoteLineIds ==
  ASSUME SafeInv, IdInv, RemoteLine
  PROVE  IdInv'
<1> DEFINE h == Head(script)
<1>1. h \in Jobs /\ h \in Range(script) /\ Range(script)' \subseteq Range(script)
  BY HeadAndTail DEF RemoteLine, SafeInv, TypeOK
<1>2. /\ script # <<>> /\ script' = Tail(script) /\ script \in Seq(Jobs)
      /\ UNCHANGED <<pc, mem, disk, checked, pending>>
      /\ jobsId \in Seq(Ids) /\ pending \in Seq(Jobs)
      /\ owner \in [Ids -> Jobs \cup {NoJob}]
  BY DEF RemoteLine, SafeInv, TypeOK
<1>3. /\ pc \in {"sbatch", "recover", "off"}
      /\ disk.status[h] = "READY" /\ mem.status[h] = "READY" /\ checked = {}
  BY <1>1, <1>2 DEF IdInv, ScriptReady, SafeInv, Polled
<1>4. ScriptReady'
  BY <1>1, <1>2 DEF IdInv, ScriptReady
<1>5. Len(script') = Len(script) - 1 /\ \A k \in 1..Len(script') : script'[k] = script[k + 1]
  BY <1>2
<1>6. CASE UNCHANGED <<owner, state, jobsId>>
  <2>1. Lined' /\ Assigned' /\ Where'
    BY <1>2, <1>3, <1>5, <1>6 DEF IdInv, Lined, Assigned, Where, Matched
  <2>2. UsedIds' = UsedIds
    BY <1>6 DEF UsedIds
  <2>3. IsFiniteSet(UsedIds)'
    BY <2>2 DEF IdInv
  <2>4. /\ Known(disk, owner, state)' /\ Known(mem, owner, state)'
        /\ (\A q \in checked : KnownJob(mem, owner, state, q.job))'
    BY <1>2, <1>3, <1>6 DEF IdInv
  <2> QED
    BY <1>4, <2>1, <2>3, <2>4 DEF IdInv
<1>7. ASSUME NEW i \in Ids, Fresh(i), owner' = [owner EXCEPT ![i] = h],
             state' = [state EXCEPT ![i] = "Q"],
             jobsId' = IF pc = "sbatch" THEN Append(jobsId, i) ELSE jobsId
      PROVE  IdInv'
  <2>1. owner[i] = NoJob /\ NoJob \notin Jobs
    BY <1>7, SchedulerAssumption DEF Fresh, FreeIds
  <2>2. Known(disk, owner', state') /\ Known(mem, owner', state')
    BY <1>1, <1>3, <1>7, FreshKnown DEF IdInv, Known, InQueueStatus
  <2>3. Assigned' /\ Where'
    BY <1>2, <1>3, <1>7 DEF IdInv, Assigned, Where
  <2>4. Lined'
    <3> SUFFICES ASSUME pc = "sbatch" PROVE Lined'
      BY <1>2 DEF Lined
    <3>1. /\ Len(jobsId') = Len(jobsId) + 1 /\ jobsId'[Len(jobsId) + 1] = i
          /\ \A k \in 1..Len(jobsId) : jobsId'[k] = jobsId[k] /\ jobsId[k] \in Ids
      BY <1>2, <1>7
    <3>2. ASSUME Len(jobsId) + Len(script) = Len(pending)
          PROVE  Matched'
      <4>1. /\ \A k \in 1..Len(jobsId) : owner[jobsId[k]] = pending[k] /\ pending[k] \in Jobs
            /\ h = pending[Len(jobsId) + 1]
        <5>1. /\ \A k \in 1..Len(script) : script[k] = pending[Len(pending) - Len(script) + k]
              /\ Matched
          BY <3>2 DEF IdInv, Lined
        <5>2. Len(script) \in Nat \ {0} /\ h = script[1] /\ Len(jobsId) \in Nat /\ Len(pending) \in Nat
          BY <1>2
        <5>3. h = pending[Len(jobsId) + 1]
          BY <3>2, <5>1, <5>2
        <5>4. \A k \in 1..Len(jobsId) : pending[k] \in Jobs
          BY <1>2, <3>2, <5>2
        <5> QED
          BY <5>1, <5>3, <5>4 DEF Matched
      <4>2. \A k \in 1..Len(jobsId) : owner'[jobsId'[k]] = pending[k]
        BY <1>2, <1>7, <2>1, <3>1, <4>1
      <4>3. owner'[jobsId'[Len(jobsId) + 1]] = pending[Len(jobsId) + 1]
        BY <1>2, <1>7, <3>1, <4>1
      <4> QED
        BY <1>2, <3>1, <4>2, <4>3 DEF Matched
    <3>3. /\ Len(jobsId') + Len(script') = Len(jobsId) + Len(script)
          /\ \A k \in 1..Len(script') :
               script'[k] = pending[Len(pending) - Len(script') + k]
      BY <1>2, <1>5, <3>1 DEF IdInv, Lined
    <3> QED
      BY <1>2, <3>2, <3>3 DEF IdInv, Lined
  <2>5. IsFiniteSet(UsedIds)'
    BY <1>1, <1>7, FreshUsed
  <2>6. /\ Known(disk, owner, state)' /\ Known(mem, owner, state)'
        /\ (\A q \in checked : KnownJob(mem, owner, state, q.job))'
    BY <1>2, <1>3, <2>2
  <2> QED
    BY <1>4, <2>3, <2>4, <2>5, <2>6 DEF IdInv
<1> QED
  BY <1>6, <1>7 DEF RemoteLine

\* What is found under the name of the job besides its new id is cancelled.
LEMMA AssignIdIds ==
  ASSUME SafeInv, IdInv, AssignId
  PROVE  IdInv'
<1> DEFINE j == Head(pending)
           i == Head(jobsId)
<1>1. /\ j \in Jobs /\ i \in Ids
      /\ pending \in Seq(Jobs) /\ jobsId \in Seq(Ids) /\ pending # <<>> /\ jobsId # <<>>
      /\ pending' = Tail(pending) /\ jobsId' = Tail(jobsId)
  BY HeadAndTail DEF AssignId, SafeInv, TypeOK
<1>2. /\ pc = "assign" /\ UNCHANGED <<pc, disk, checked, script, owner>>
      /\ mem' = Submitted(mem, j, i) /\ state' = CancelTwins(j, i)
  BY DEF AssignId
<1>3. /\ Len(pending') = Len(pending) - 1 /\ Len(jobsId') = Len(jobsId) - 1
      /\ \A k \in 1..Len(pending') : pending'[k] = pending[k + 1]
      /\ \A k \in 1..Len(jobsId') : jobsId'[k] = jobsId[k + 1]
      /\ j = pending[1] /\ i = jobsId[1]
      /\ Len(pending) \in Nat \ {0} /\ Len(jobsId) \in Nat \ {0}
  BY <1>1
<1>4. Settles(state, state')
  BY <1>2, CancelledSettles DEF CancelTwins, Settles, SafeInv
<1>5. script = <<>> /\ checked = {}
  BY <1>2 DEF IdInv, ScriptReady, SafeInv, Polled
<1>6. ASSUME Len(jobsId') = Len(pending')
      PROVE  Matched' /\ Known(mem', owner, state')
  <2>1. Matched /\ Known(mem, owner, state)
    BY <1>2, <1>3, <1>6 DEF IdInv, Assigned
  <2>2. owner[i] = j
    BY <1>3, <2>1 DEF Matched
  <2>3. \A k \in 1..Len(jobsId') : owner[jobsId'[k]] = pending'[k]
    BY <1>3, <1>6, <2>1 DEF Matched
  <2>4. Known(mem, owner, state')
    BY <1>4, <2>1, SettlesKnown
  <2>5. \A k \in Live(j) : state'[i] \in LiveStates /\ state'[k] \in LiveStates => k = i
    <3>1. CASE Cardinality(Live(j)) > 1
      BY <1>1, <1>2, <3>1 DEF CancelTwins, Cancelled, Live, LiveStates
    <3>2. CASE ~(Cardinality(Live(j)) > 1)
      <4>1. state' = state
        BY <1>2, <3>2 DEF CancelTwins
      <4>2. IsFiniteSet(Live(j))
        <5>1. Live(j) \subseteq UsedIds
          BY <1>1, SchedulerAssumption DEF Live, UsedIds
        <5> QED
          BY <5>1, FS_Subset DEF IdInv
      <4>3. SUFFICES ASSUME state[i] \in LiveStates, NEW k \in Live(j), k # i
                     PROVE  FALSE
        BY <4>1
      <4>4. {i, k} \subseteq Live(j)
        BY <1>1, <2>2, <4>3 DEF Live
      <4>5. IsFiniteSet({i}) /\ Cardinality({i}) = 1
        BY FS_Singleton
      <4>6. Cardinality({i} \cup {k}) = 2
        <5>1. k \notin {i}
          BY <4>3
        <5> HIDE DEF i
        <5>2. Cardinality({i} \cup {k}) = Cardinality({i}) + 1
          BY <4>5, <5>1, FS_AddElement
        <5> QED
          BY <4>5, <5>2
      <4>7. {i, k} = {i} \cup {k}
        OBVIOUS
      <4>8. Cardinality({i, k}) <= Cardinality(Live(j)) /\ Cardinality(Live(j)) \in Nat
        BY <4>2, <4>4, FS_Subset, FS_CardinalityType
      <4> QED
        BY <3>2, <4>6, <4>7, <4>8
    <3> QED
      BY <3>1, <3>2
  <2>6. \A k \in Ids : owner[k] = j /\ state'[k] \in LiveStates => k \in Live(j)
    BY <1>4 DEF Live, Settles
  <2>7. /\ \A k \in Jobs : mem'.id[k] = IF k = j THEN i ELSE mem.id[k]
        /\ \A k \in Jobs : mem'.status[k] = IF k = j THEN "SUBMITTED" ELSE mem.status[k]
    BY <1>1, <1>2 DEF SafeInv, TypeOK, JobRecords, Submitted
  <2>8. KnownJob(mem', owner, state', j)
    BY <1>1, <2>2, <2>5, <2>6, <2>7 DEF KnownJob
  <2>9. Known(mem', owner, state')
    BY <2>4, <2>7, <2>8 DEF Known, KnownJob
  <2> QED
    BY <1>2, <2>3, <2>9 DEF Matched
<1>7. Assigned'
  BY <1>2, <1>3, <1>6 DEF IdInv, Assigned
<1>8. Lined' /\ Where' /\ ScriptReady'
  BY <1>2, <1>5 DEF IdInv, Lined, Where, ScriptReady
<1>9. Known(disk, owner, state)'
  BY <1>2, <1>4, SettlesKnown DEF IdInv
<1>10. UsedIds' = UsedIds
  BY <1>2 DEF UsedIds
<1>11. IsFiniteSet(UsedIds)'
  BY <1>10 DEF IdInv
<1> QED
  BY <1>2, <1>5, <1>7, <1>8, <1>9, <1>11 DEF IdInv

\* Steps that save the list: the ids in memory are right then.
LEMMA SaveIds ==
  ASSUME SafeInv, IdInv, disk' = mem, Known(mem, owner, state), script = <<>>,
         UNCHANGED <<mem, checked, script, owner, state>>, jobsId' = <<>>,
         pc \notin {"update"}, pc' \notin {"sbatch", "assign"},
         pc' \in {"qsub", "saveone"} => ~Batch
  PROVE  IdInv'
<1>1. Lined' /\ Assigned' /\ Where' /\ ScriptReady' /\ checked = {}
  BY DEF IdInv, Lined, Assigned, Where, ScriptReady, SafeInv, Polled
<1>2. UsedIds' = UsedIds
  BY DEF UsedIds
<1>3. IsFiniteSet(UsedIds)'
  BY <1>2 DEF IdInv
<1>4. Known(disk, owner, state)' /\ Known(mem, owner, state)'
  OBVIOUS
<1> QED
  BY <1>1, <1>3, <1>4 DEF IdInv

LEMMA SubmitOneIds ==
  ASSUME SafeInv, IdInv, SubmitOne
  PROVE  IdInv'
<1> DEFINE j == Head(pending)
<1>1. j \in Jobs /\ j \in Range(pending)
  BY HeadAndTail DEF SubmitOne, SafeInv, TypeOK
<1>2. PICK i \in Ids :
        /\ Fresh(i)
        /\ owner' = [owner EXCEPT ![i] = j]
        /\ state' = [state EXCEPT ![i] = "Q"]
        /\ \/ mem' = Submitted(mem, j, i) /\ pc' = "saveone"
           \/ UNCHANGED <<mem, pc>>
  BY DEF SubmitOne
<1>3. pc = "qsub" /\ UNCHANGED <<disk, checked, script, jobsId>>
  BY DEF SubmitOne
<1>4. ~Batch /\ jobsId = <<>> /\ script = <<>> /\ checked = {}
  BY <1>3 DEF IdInv, Where, ScriptReady, SafeInv, Polled
<1>5. owner \in [Ids -> Jobs \cup {NoJob}] /\ owner[i] = NoJob /\ NoJob \notin Jobs
  BY <1>2, SchedulerAssumption DEF SafeInv, TypeOK, Fresh, FreeIds
<1>6. Known(mem, owner', state') /\ Known(disk, owner', state')
  BY <1>2, <1>3, <1>4, <1>5 DEF IdInv, Known, KnownJob
<1>7. Known(mem', owner', state')
  <2>1. CASE mem' = Submitted(mem, j, i)
    <3>1. /\ \A k \in Jobs : mem'.id[k] = IF k = j THEN i ELSE mem.id[k]
          /\ \A k \in Jobs : mem'.status[k] = IF k = j THEN "SUBMITTED" ELSE mem.status[k]
      BY <1>1, <2>1 DEF SafeInv, TypeOK, JobRecords, Submitted
    <3>2. KnownJob(mem', owner', state', j)
      BY <1>1, <1>2, <1>4, <1>5, <3>1 DEF KnownJob
    <3> QED
      BY <1>6, <3>1, <3>2 DEF Known, KnownJob
  <2> QED
    BY <1>2, <1>6, <2>1
<1>8. Lined' /\ Assigned' /\ Where' /\ ScriptReady'
  BY <1>2, <1>3, <1>4 DEF Lined, Assigned, Where, ScriptReady
<1>9. IsFiniteSet(UsedIds)'
  BY <1>1, <1>2, FreshUsed
<1> QED
  BY <1>3, <1>4, <1>6, <1>7, <1>8, <1>9 DEF IdInv

LEMMA LoopIds ==
  ASSUME SafeInv, IdInv, Loop
  PROVE  IdInv'
<1>0. Settles(state, state)
  BY DEF Settles
<1>1. CASE ReturnOnExit \/ PollError
  BY <1>0, <1>1, LeaveIds DEF ReturnOnExit, PollError, remoteVars
<1>2. CASE StartIteration
  BY <1>0, <1>2, QuietIds DEF StartIteration, iterVars, remoteVars, IdInv, ScriptReady
<1>3. CASE EndRun
  BY <1>3, SaveIds DEF EndRun, iterVars, remoteVars, IdInv, ScriptReady, Where
<1>4. CASE Poll
  BY <1>4, PollIds
<1>5. CASE \E r \in checked : UpdateStatus(r)
  BY <1>5, UpdateStatusIds
<1>6. CASE AfterCheck
  BY <1>6, UpdateAndSaveIds DEF AfterCheck
<1>7. CASE AfterSubmit
  BY <1>7, UpdateAndSaveIds DEF AfterSubmit, SafeInv, Polled
<1> QED
  BY <1>1, <1>2, <1>3, <1>4, <1>5, <1>6, <1>7 DEF Loop

LEMMA SubmissionIds ==
  ASSUME SafeInv, IdInv, Submission
  PROVE  IdInv'
<1>0. Settles(state, state)
  BY DEF Settles
<1>1. CASE BuildScript
  BY <1>1, BuildScriptIds
<1>2. CASE ReadIds
  <2>1. Lined' /\ Assigned' /\ Where' /\ ScriptReady'
    BY <1>2 DEF ReadIds, iterVars, remoteVars, IdInv, Lined, Assigned, Where, ScriptReady,
                SafeInv, TypeOK, Matched
  <2>2. /\ Known(disk, owner, state)' /\ Known(mem, owner, state)'
        /\ (\A q \in checked : KnownJob(mem, owner, state, q.job))' /\ UsedIds' = UsedIds
    BY <1>2 DEF ReadIds, iterVars, remoteVars, IdInv, UsedIds
  <2>3. IsFiniteSet(UsedIds)'
    BY <2>2 DEF IdInv
  <2> QED
    BY <2>1, <2>2, <2>3 DEF IdInv
<1>3. CASE CancelAndRaise
  <2>1. Settles(state, state')
    BY <1>3, CancelledSettles DEF CancelAndRaise, SafeInv
  <2> QED
    BY <1>3, <2>1, LeaveIds DEF CancelAndRaise
<1>4. CASE AssignId
  BY <1>4, AssignIdIds
<1>5. CASE AssignError
  BY <1>0, <1>5, LeaveIds DEF AssignError, remoteVars
<1>6. CASE DroppedError
  <2>1. Settles(state, state')
    BY <1>6, CancelledSettles DEF DroppedError, SafeInv
  <2> QED
    BY <1>6, <2>1, LeaveIds DEF DroppedError
<1>7. CASE SaveBatch
  \* No package is left, so no id was missing.
  <2>1. Len(jobsId) = Len(pending)
    BY <1>7 DEF SaveBatch, IdInv, Assigned, SafeInv, TypeOK
  <2>2. Known(mem, owner, state)
    BY <1>7, <2>1 DEF SaveBatch, IdInv, Assigned
  <2> QED
    BY <1>7, <2>2, SaveIds DEF SaveBatch, remoteVars, IdInv, ScriptReady
<1>8. CASE StartOneByOne \/ SaveOne \/ EndOneByOne
  BY <1>8, SaveIds
     DEF StartOneByOne, SaveOne, EndOneByOne, iterVars, remoteVars, IdInv, ScriptReady, Where
<1>9. CASE SubmitOne
  BY <1>9, SubmitOneIds
<1>10. CASE SubmitOneFails
  <2>1. /\ pc = "qsub" /\ UNCHANGED <<pc, mem, disk, checked, jobsId, script, owner, state>>
    BY <1>10 DEF SubmitOneFails
  <2>2. Lined' /\ Assigned' /\ Where' /\ ScriptReady'
    BY <2>1 DEF IdInv, Lined, Assigned, Where, ScriptReady
  <2>3. /\ Known(disk, owner, state)' /\ Known(mem, owner, state)'
        /\ (\A q \in checked : KnownJob(mem, owner, state, q.job))' /\ UsedIds' = UsedIds
    BY <2>1 DEF IdInv, UsedIds
  <2>4. IsFiniteSet(UsedIds)'
    BY <2>3 DEF IdInv
  <2> QED
    BY <2>2, <2>3, <2>4 DEF IdInv
<1> QED
  BY <1>1, <1>2, <1>3, <1>4, <1>5, <1>6, <1>7, <1>8, <1>9, <1>10
     DEF Submission, NothingSubmitted, ScriptError

LEMMA RemoteIds ==
  ASSUME SafeInv, IdInv, Remote
  PROVE  IdInv'
<1>1. CASE RemoteLine
  BY <1>1, RemoteLineIds
<1>2. CASE RemoteDies
  <2>1. UNCHANGED <<pc, mem, disk, checked, pending, jobsId, owner, state>> /\ script' = <<>>
        /\ pc # "sbatch"
    BY <1>2 DEF RemoteDies, processVars, iterVars
  <2>2. Lined' /\ Assigned' /\ Where' /\ ScriptReady'
    BY <2>1 DEF IdInv, Lined, Assigned, Where, ScriptReady, Matched
  <2>3. /\ Known(disk, owner, state)' /\ (pc' # "assign" => Known(mem', owner', state'))
        /\ (\A q \in checked : KnownJob(mem, owner, state, q.job))' /\ UsedIds' = UsedIds
    BY <2>1 DEF IdInv, UsedIds
  <2>4. IsFiniteSet(UsedIds)'
    BY <2>3 DEF IdInv
  <2> QED
    BY <2>2, <2>3, <2>4 DEF IdInv
<1>3. ASSUME NEW i \in Ids,
             \/ JobStarts(i) \/ JobSucceeds(i) \/ JobFails(i) \/ JobEndsWithoutFile(i)
             \/ JobEnds(i)
      PROVE  IdInv'
  <2>1. \E from \in LiveStates, to \in States : Move(i, from, to)
    BY <1>3 DEF JobStarts, JobSucceeds, JobFails, JobEndsWithoutFile, JobEnds, LiveStates, States
  <2>2. Settles(state, state')
    BY <2>1 DEF Move, Settles, SafeInv, TypeOK
  <2> QED
    BY <2>1, <2>2, QuietIds DEF Move, processVars, iterVars
<1> QED
  BY <1>1, <1>2, <1>3 DEF Remote

LEMMA NextIds ==
  ASSUME SafeInv, IdInv, [Next]_vars
  PROVE  IdInv'
<1>0. Settles(state, state)
  BY DEF Settles
<1>1. CASE PrepareRun \/ Recover
  BY <1>1, LoadUpdateSaveIds DEF PrepareRun, Recover
<1>2. CASE GiveUp \/ Kill
  BY <1>0, <1>2, LeaveIds DEF GiveUp, Kill, remoteVars
<1>3. CASE Signal \/ \E j \in Jobs : DelayPasses(j)
  BY <1>0, <1>3, QuietIds DEF Signal, DelayPasses, iterVars, remoteVars
<1>4. CASE Loop
  BY <1>4, LoopIds
<1>5. CASE Submission
  BY <1>5, SubmissionIds
<1>6. CASE Remote
  BY <1>6, RemoteIds
<1>7. CASE UNCHANGED vars
  BY <1>0, <1>7, QuietIds DEF vars
<1> QED
  BY <1>1, <1>2, <1>3, <1>4, <1>5, <1>6, <1>7 DEF Next, Terminated

LEMMA InitIds == Init => IdInv
<1> SUFFICES ASSUME Init PROVE IdInv
  OBVIOUS
<1>1. \A j \in Jobs : mem.status[j] = "WAITING" /\ disk.status[j] = "WAITING"
  BY DEF Init
<1>2. Known(mem, owner, state) /\ Known(disk, owner, state)
  BY <1>1 DEF Known, InQueueStatus
<1>3. UsedIds = {}
  BY DEF Init, UsedIds
<1>4. IsFiniteSet(UsedIds)
  BY <1>3, FS_EmptySet
<1> QED
  BY <1>2, <1>4 DEF Init, IdInv, Lined, Assigned, ScriptReady, Where

LEMMA IdInvariant == Spec => []IdInv
<1>1. SafeInv /\ IdInv /\ [Next]_vars => IdInv'
  BY NextIds
<1> QED
  BY <1>1, InitIds, SafeInvariant, PTL DEF Spec

-----------------------------------------------------------------------------
(* Saved ids and twins.                                                    *)

\* The saved list never holds, for a job in the queue, an id that is not one of
\* its own: also when the scheduler refused lines of a script, so that the ids
\* read from its output went to other packages than those they were printed for.
THEOREM SavedIdsAreOwn == Spec => []SavedIdIsOwn
<1>1. IdInv => SavedIdIsOwn
  BY DEF IdInv, Known, KnownJob, SavedIdIsOwn
<1> QED
  BY <1>1, IdInvariant, PTL

\* Where one script submits all jobs, no submission that a killed or failed
\* process left behind stays in the queue beside the one an iteration knows.
THEOREM TwinsCancelled == Spec => [](Batch => NoTwins)
<1>1. IdInv => (Batch => NoTwins)
  <2> SUFFICES ASSUME IdInv, Batch, pc = "head", NEW j \in InQueue(mem),
                      state[mem.id[j]] \in LiveStates
               PROVE  Live(j) = {mem.id[j]}
    BY DEF NoTwins
  <2>1. KnownJob(mem, owner, state, j)
    BY DEF IdInv, Known, InQueue
  <2> QED
    BY <2>1 DEF KnownJob, Live
<1> QED
  BY <1>1, IdInvariant, PTL
-----------------------------------------------------------------------------
(* Submissions one by one: what the saved list does not know of.           *)

\* Jobs that are past WAITING have all their parents done: nothing starts on the
\* status of a parent.
Whole(m) == \A j \in Jobs : m.status[j] # "WAITING" => Parents[j] \subseteq Done(m)

\* The list m knows submission i, as one of a job that is in the queue or done.
Holds(m, o, i) ==
  m.id[o[i]] = i /\ m.status[o[i]] \in InQueueStatus \cup DoneStatus

Lost(m, o, s) == {i \in Ids : s[i] \in {"Q", "R"} /\ ~Holds(m, o, i)}

Few(m, o, s, n) == IsFiniteSet(Lost(m, o, s)) /\ Cardinality(Lost(m, o, s)) <= n

Unsent == IF pc = "saveone" THEN 1 ELSE 0

\* What is found to have ended neither waits nor runs.
Ended ==
  \A r \in checked : r.new \in {"COMPLETED", "FAILED"} => state[mem.id[r.job]] \notin {"Q", "R"}

\* The packages still to be submitted are different jobs, all READY.
InTurn ==
  pc \in {"qsub", "saveone"} =>
    /\ \A k \in 1..Len(pending) : mem.status[pending[k]] = "READY"
    /\ \A k, l \in 1..Len(pending) : pending[k] = pending[l] => k = l

LostInv ==
  /\ script = <<>>
  /\ Whole(mem) /\ Whole(disk)
  /\ Ended /\ InTurn
  /\ Few(mem, owner, state, faults)
  /\ Few(disk, owner, state, faults + Unsent)

\* n knows every submission that m knows.
Follows(m, n) ==
  \A j \in Jobs : m.status[j] \in InQueueStatus \cup DoneStatus =>
    n.status[j] \in InQueueStatus \cup DoneStatus /\ n.id[j] = m.id[j]

\* Nothing that neither waits nor runs does so again.
Dwindles(s, t) == \A i \in Ids : t[i] \in {"Q", "R"} => s[i] \in {"Q", "R"}

LEMMA FewShrinks ==
  ASSUME NEW m, NEW n, NEW o, NEW s, NEW t, NEW k \in Nat, NEW l \in Nat, Few(m, o, s, k),
         k <= l, Follows(m, n), Dwindles(s, t),
         \A i \in Ids : s[i] \in {"Q", "R"} => o[i] \in Jobs
  PROVE  Few(n, o, t, l)
<1>1. Lost(n, o, t) \subseteq Lost(m, o, s)
  BY DEF Lost, Holds, Follows, Dwindles
<1>2. /\ IsFiniteSet(Lost(n, o, t)) /\ Cardinality(Lost(n, o, t)) <= Cardinality(Lost(m, o, s))
      /\ Cardinality(Lost(n, o, t)) \in Nat /\ Cardinality(Lost(m, o, s)) \in Nat
  BY <1>1, FS_Subset, FS_CardinalityType DEF Few
<1> QED
  BY <1>2 DEF Few

LEMMA FewLess ==
  ASSUME NEW m, NEW n, NEW o, NEW p, NEW s, NEW t, NEW k \in Nat, Few(m, o, s, k),
         Lost(n, p, t) \subseteq Lost(m, o, s)
  PROVE  Few(n, p, t, k)
<1>1. /\ IsFiniteSet(Lost(n, p, t)) /\ Cardinality(Lost(n, p, t)) <= Cardinality(Lost(m, o, s))
      /\ Cardinality(Lost(n, p, t)) \in Nat /\ Cardinality(Lost(m, o, s)) \in Nat
  BY FS_Subset, FS_CardinalityType DEF Few
<1> QED
  BY <1>1 DEF Few

LEMMA FewMore ==
  ASSUME NEW m, NEW o, NEW p, NEW s, NEW t, NEW k \in Nat, Few(m, o, s, k), NEW i,
         Lost(m, p, t) \subseteq Lost(m, o, s) \cup {i}
  PROVE  Few(m, p, t, k + 1)
<1> DEFINE more == Lost(m, o, s) \cup {i}
<1>1. IsFiniteSet(Lost(m, o, s)) /\ Cardinality(Lost(m, o, s)) \in Nat
  BY FS_CardinalityType DEF Few
<1>2. IsFiniteSet(more) /\ Cardinality(more) <= Cardinality(Lost(m, o, s)) + 1
  BY <1>1, FS_AddElement
<1>3. /\ IsFiniteSet(Lost(m, p, t)) /\ Cardinality(Lost(m, p, t)) <= Cardinality(more)
      /\ Cardinality(Lost(m, p, t)) \in Nat /\ Cardinality(more) \in Nat
  BY <1>2, FS_Subset, FS_CardinalityType
<1> QED
  BY <1>1, <1>2, <1>3 DEF Few

LEMMA OwnersAreJobs ==
  ASSUME SafeInv
  PROVE  \A i \in Ids : state[i] \in {"Q", "R"} => owner[i] \in Jobs
BY DEF SafeInv, OwnerKnown

LEMMA FollowsItself ==
  /\ \A m : Follows(m, m)
  /\ \A l, m, n : Follows(l, m) /\ Follows(m, n) => Follows(l, n)
BY DEF Follows

LEMMA CancelledDwindles ==
  ASSUME TypeOK, NEW S
  PROVE  Dwindles(state, Cancelled(S))
BY DEF Dwindles, Cancelled

-----------------------------------------------------------------------------
(* update_list and load lose no submission.                                *)

LEMMA StageWhole ==
  ASSUME NEW m, NEW n, Whole(m),
         \A j \in Jobs : m.status[j] \in DoneStatus => n.status[j] \in DoneStatus,
         \A j \in Jobs : m.status[j] = "WAITING" /\ n.status[j] # "WAITING"
                           => Parents[j] \subseteq Done(m)
  PROVE  Whole(n)
<1>1. Done(m) \subseteq Done(n)
  BY DEF Done
<1> QED
  BY <1>1 DEF Whole

LEMMA UpdateListFollows ==
  ASSUME EdgeInfo = {}, NEW m \in JobRecords, Whole(m), NEW first \in BOOLEAN, NEW expired
  PROVE  Follows(m, UpdateList(m, first, expired)) /\ Whole(UpdateList(m, first, expired))
<1> DEFINE m1 == IF first THEN ForgetFails(m) ELSE RetryFailed(m)
           m2 == StartSpecial(m1)
           m3 == Resync(m2)
           m4 == Release(m3, expired)
           m5 == SkipOlder(m4)
<1>0. m1 \in JobRecords /\ m2 \in JobRecords /\ m3 \in JobRecords /\ m4 \in JobRecords
  BY ForgetFailsType, RetryFailedType, StartSpecialType, ResyncType, ReleaseType
<1>1. Follows(m, m1) /\ Whole(m1)
  <2>1. /\ ForgetFails(m).status = m.status /\ ForgetFails(m).id = m.id
    BY DEF ForgetFails, JobRecords
  <2>2. /\ \A j \in Jobs : \/ /\ RetryFailed(m).status[j] = m.status[j]
                              /\ RetryFailed(m).id[j] = m.id[j]
                           \/ m.status[j] = "FAILED"
    BY DEF RetryFailed, Retried
  <2>3. Follows(m, RetryFailed(m)) /\ Whole(RetryFailed(m))
    BY <2>2, StageWhole, Statuses DEF Follows
  <2>4. Follows(m, ForgetFails(m)) /\ Whole(ForgetFails(m))
    BY <2>1, StageWhole, Statuses DEF Follows
  <2> QED
    BY <2>3, <2>4
<1>2. Follows(m1, m2) /\ Whole(m2)
  <2> HIDE DEF m1
  <2>1. Special(m1) = {}
    BY DEF Special, SpecialFulfilled
  <2>2. \A j \in Jobs : m2.status[j] = m1.status[j] /\ m2.id[j] = m1.id[j]
    BY <2>1 DEF StartSpecial
  <2> QED
    BY <1>1, <2>2, StageWhole DEF Follows
\* The parents of a synchronised job that is COMPLETED are done: it stays so.
<1>3. Follows(m2, m3) /\ Whole(m3)
  <2> HIDE DEF m2
  <2>1. \A j \in Jobs : m2.status[j] = "COMPLETED" => \A p \in Parents[j] : m2.status[p] \in DoneStatus
    BY <1>2 DEF Whole, Done
  <2>2. \A j \in Jobs : m3.status[j] = m2.status[j]
    BY <1>0, <2>1 DEF Resync, JobRecords
  <2>3. m3.id = m2.id
    BY <1>0 DEF Resync, JobRecords
  <2> QED
    BY <1>2, <2>2, <2>3, StageWhole DEF Follows
<1>4. Follows(m3, m4) /\ Whole(m4)
  <2> HIDE DEF m3
  <2>1. \A j \in Jobs : \/ m4.status[j] = m3.status[j]
                        \/ m3.status[j] = "DELAYED" /\ m4.status[j] = "READY"
                        \/ /\ m3.status[j] = "WAITING" /\ m4.status[j] = "READY"
                           /\ \A p \in Parents[j] : m3.status[p] \in DoneStatus
    BY <1>0 DEF Release, JobRecords
  <2>2. m4.id = m3.id
    BY <1>0 DEF Release, JobRecords
  <2>3. \A j \in Jobs : (\A p \in Parents[j] : m3.status[p] \in DoneStatus)
                          => Parents[j] \subseteq Done(m3)
    BY JobsAssumption DEF Done
  <2> QED
    BY <1>3, <2>1, <2>2, <2>3, StageWhole, Statuses DEF Follows
<1>5. Follows(m4, m5) /\ Whole(m5)
  <2> HIDE DEF m4
  <2>1. \A j \in Jobs : \/ m5.status[j] = m4.status[j]
                        \/ m4.status[j] \in {"READY", "QUEUING"} /\ m5.status[j] = "SKIPPED"
    BY <1>0 DEF SkipOlder, Skipped, JobRecords
  <2>2. m5.id = m4.id
    BY <1>0 DEF SkipOlder, JobRecords
  <2> QED
    BY <1>4, <2>1, <2>2, StageWhole, Statuses DEF Follows
<1>6. Follows(m, m5)
  <2> HIDE DEF m1, m2, m3, m4, m5
  <2> QED
    BY <1>1, <1>2, <1>3, <1>4, <1>5, FollowsItself
<1> QED
  BY <1>5, <1>6 DEF UpdateList, BeforeSkip

LEMMA LoadFollows ==
  ASSUME NEW m \in JobRecords, Whole(m)
  PROVE  Follows(m, Load(m)) /\ Whole(Load(m))
<1>1. \A j \in Jobs : \/ Load(m).status[j] = m.status[j]
                      \/ m.status[j] \in VolatileStatus /\ Load(m).status[j] = "WAITING"
  BY DEF Load, JobRecords
<1>2. Load(m).id = m.id
  BY DEF Load, JobRecords
<1> QED
  BY <1>1, <1>2, StageWhole, Statuses DEF Follows

-----------------------------------------------------------------------------
(* Every step keeps it.                                                    *)

LEMMA SumsGrow ==
  ASSUME NEW k \in Nat, NEW l \in Nat, NEW m \in Nat, NEW n \in Nat, k <= l, m <= n
  PROVE  k + m \in Nat /\ l + n \in Nat /\ k + m <= l + n
OBVIOUS

\* Steps that leave the job lists alone.
LEMMA QuietLost ==
  ASSUME SafeInv, LostInv, SafeInv', UNCHANGED <<mem, disk, owner, script>>,
         Dwindles(state, state'), faults <= faults', pc # "saveone" \/ pc' = pc,
         Ended', InTurn'
  PROVE  LostInv'
<1>0. Unsent \in Nat /\ Unsent' \in Nat /\ Unsent <= Unsent'
  BY DEF Unsent
<1>1. /\ faults \in Nat /\ faults' \in Nat /\ faults + Unsent <= faults' + Unsent'
      /\ faults + Unsent \in Nat /\ faults' + Unsent' \in Nat
  <2>1. faults \in Nat /\ faults' \in Nat
    BY DEF SafeInv, TypeOK
  <2> QED
    BY <1>0, <2>1, SumsGrow
<1>2. Few(mem, owner, state, faults) /\ Few(disk, owner, state, faults + Unsent)
  BY DEF LostInv
<1>3. Few(mem, owner, state', faults')
  BY <1>1, <1>2, FewShrinks, FollowsItself, OwnersAreJobs
<1>4. Few(disk, owner, state', faults' + Unsent')
  BY <1>1, <1>2, FewShrinks, FollowsItself, OwnersAreJobs
<1>5. Few(mem, owner, state, faults)' /\ Few(disk, owner, state, faults + Unsent)'
  BY <1>3, <1>4
<1>6. Whole(mem)' /\ Whole(disk)' /\ script' = <<>>
  BY DEF LostInv, Whole, Done
<1> QED
  BY <1>5, <1>6 DEF LostInv

\* Steps that lose the memory of the process: when it had not saved the submission
\* it had just made, it was killed.
LEMMA LeaveLost ==
  ASSUME SafeInv, LostInv, SafeInv', NEW next \in {"off", "recover"}, Leave(next),
         UNCHANGED <<disk, owner, script>>, Dwindles(state, state'),
         faults + Unsent <= faults'
  PROVE  LostInv'
<1>1. /\ faults \in Nat /\ faults' \in Nat /\ Unsent \in {0, 1} /\ Unsent' = 0
      /\ mem' = disk /\ checked' = {} /\ pc' = next
  BY DEF SafeInv, TypeOK, Unsent, Leave
<1>2. Few(disk, owner, state', faults')
  <2>1. Few(disk, owner, state, faults + Unsent) /\ faults + Unsent \in Nat
    BY <1>1 DEF LostInv
  <2> QED
    BY <1>1, <2>1, FewShrinks, FollowsItself, OwnersAreJobs
<1>3. Few(mem, owner, state, faults)' /\ Few(disk, owner, state, faults + Unsent)'
  BY <1>1, <1>2
<1>4. Whole(mem)' /\ Whole(disk)' /\ script' = <<>> /\ Ended' /\ InTurn'
  BY <1>1 DEF LostInv, Whole, Done, Ended, InTurn
<1> QED
  BY <1>3, <1>4 DEF LostInv

\* Steps that save the list m becomes.
LEMMA SaveLost ==
  ASSUME SafeInv, LostInv, SafeInv', NEW m, Few(m, owner, state, faults),
         Follows(m, mem'), Whole(mem'), disk' = mem', UNCHANGED <<owner, script, faults>>,
         Dwindles(state, state'), pc' # "saveone", checked' = {}, InTurn'
  PROVE  LostInv'
<1>1. faults \in Nat /\ Unsent' = 0
  BY DEF SafeInv, TypeOK, Unsent
<1>2. Few(mem', owner, state', faults)
  BY <1>1, FewShrinks, OwnersAreJobs
<1>3. Few(mem, owner, state, faults)' /\ Few(disk, owner, state, faults + Unsent)'
  BY <1>1, <1>2
<1>4. Whole(mem)' /\ Whole(disk)' /\ script' = <<>> /\ Ended'
  BY DEF LostInv, Whole, Done, Ended
<1> QED
  BY <1>3, <1>4 DEF LostInv

LEMMA LoadUpdateSaveLost ==
  ASSUME EdgeInfo = {}, SafeInv, LostInv, SafeInv', LoadUpdateSave, pc \in {"off", "recover"}
  PROVE  LostInv'
<1>1. disk \in JobRecords /\ Load(disk) \in JobRecords
  BY LoadType DEF SafeInv, TypeOK
<1>2. Follows(disk, Load(disk)) /\ Whole(Load(disk))
  BY <1>1, LoadFollows DEF LostInv
<1>3. Follows(disk, mem') /\ Whole(mem')
  BY <1>1, <1>2, UpdateListFollows, FollowsItself DEF LoadUpdateSave
<1>4. Dwindles(state, state')
  BY CancelledDwindles DEF LoadUpdateSave, SafeInv
<1>5. /\ checked' = {} /\ pc' = "head" /\ disk' = mem' /\ Unsent = 0
      /\ UNCHANGED <<owner, script, faults>>
  BY DEF LoadUpdateSave, iterVars, SafeInv, Polled, Unsent
<1>6. Few(disk, owner, state, faults)
  <2>1. faults + Unsent = faults
    BY <1>5 DEF SafeInv, TypeOK
  <2> QED
    BY <2>1 DEF LostInv
<1> QED
  BY <1>3, <1>4, <1>5, <1>6, SaveLost DEF InTurn

LEMMA UpdateAndSaveLost ==
  ASSUME EdgeInfo = {}, SafeInv, LostInv, SafeInv', UpdateAndSave, pc \in {"update", "list"},
         checked = {}, pc' \in {"head", "submit"}
  PROVE  LostInv'
<1>1. Follows(mem, mem') /\ Whole(mem')
  BY UpdateListFollows DEF UpdateAndSave, SafeInv, TypeOK, LostInv
<1>2. Dwindles(state, state')
  BY CancelledDwindles DEF UpdateAndSave, SafeInv
<1>3. /\ checked' = {} /\ disk' = mem'
      /\ UNCHANGED <<owner, script, faults>>
  BY DEF UpdateAndSave, iterVars
<1> QED
  BY <1>1, <1>2, <1>3, SaveLost DEF InTurn, LostInv

\* What is told to have ended has, and what can never leave the queue is cancelled.
LEMMA PollLost ==
  ASSUME SafeInv, IdInv, LostInv, SafeInv', Poll
  PROVE  LostInv'
<1> DEFINE asked == IF exit THEN {} ELSE InQueue(mem)
           queued == {j \in asked : state[mem.id[j]] = "Q"}
<1>1. PICK hidden \in SUBSET asked :
      \E stuck \in SUBSET (IF hidden = {} THEN queued ELSE {}) :
          /\ faults' = IF hidden = stuck THEN faults ELSE faults + 1
          /\ state' = Cancelled({mem.id[j] : j \in stuck})
          /\ \E late \in IF hidden = {} THEN {FALSE} ELSE BOOLEAN :
               checked' = Answers(asked, hidden, stuck, late)
  BY Zenon DEF Poll
<1>2. PICK stuck \in SUBSET (IF hidden = {} THEN queued ELSE {}) :
          /\ faults' = IF hidden = stuck THEN faults ELSE faults + 1
          /\ state' = Cancelled({mem.id[j] : j \in stuck})
          /\ \E late \in IF hidden = {} THEN {FALSE} ELSE BOOLEAN :
               checked' = Answers(asked, hidden, stuck, late)
  BY <1>1
<1>3. PICK late : checked' = Answers(asked, hidden, stuck, late)
  BY <1>2
<1>4. pc = "check" /\ pc' = "update" /\ UNCHANGED <<mem, disk, owner, script>>
  BY DEF Poll
<1>5. Dwindles(state, state') /\ faults <= faults'
  BY <1>2, CancelledDwindles DEF SafeInv, TypeOK
<1>6. \A r \in checked' : r.new \in {"COMPLETED", "FAILED"} => state'[mem.id[r.job]] \notin {"Q", "R"}
  <2> SUFFICES ASSUME NEW j \in asked, NEW new \in {"COMPLETED", "FAILED"},
                      new = IF j \in hidden THEN "UNKNOWN"
                            ELSE IF j \in stuck THEN "FAILED"
                            ELSE NewStatus(state[mem.id[j]], late),
                      state'[mem.id[j]] \in {"Q", "R"}
               PROVE  FALSE
    <3>1. \A r \in checked' : \E j \in asked :
            r.job = j /\ r.new = IF j \in hidden THEN "UNKNOWN"
                                 ELSE IF j \in stuck THEN "FAILED"
                                 ELSE NewStatus(state[mem.id[j]], late)
      BY <1>3 DEF Answers
    <3> QED
      BY <3>1
  <2>0. mem.id[j] \in Ids
    BY <1>4 DEF IdInv, Known, KnownJob, InQueue
  <2>1. state[mem.id[j]] \in {"Q", "R"}
    BY <1>5, <2>0 DEF Dwindles
  <2>2. CASE j \in stuck
    BY <1>2, <2>0, <2>1, <2>2 DEF Cancelled, LiveStates
  <2>3. CASE j \notin stuck
    BY <2>1, <2>3 DEF NewStatus
  <2> QED
    BY <2>2, <2>3
<1>7. Ended' /\ InTurn'
  BY <1>4, <1>6 DEF Ended, InTurn
<1> QED
  BY <1>4, <1>5, <1>7, QuietLost

LEMMA UpdateStatusLost ==
  ASSUME SafeInv, IdInv, LostInv, SafeInv', NEW r \in checked, UpdateStatus(r)
  PROVE  LostInv'
<1> DEFINE s == Confirmed(r.job, r.new)
           m == [mem EXCEPT !.status[r.job] = s]
           failed == FailedWith(m, r.job)
<1>1. /\ r.job \in Jobs /\ mem \in JobRecords
      /\ mem.status[r.job] \in InQueueStatus \cup {"FAILED"}
      /\ s \in {"QUEUING", "RUNNING", "COMPLETED", "FAILED", "UNKNOWN"}
      /\ s = "FAILED" => r.new \in {"COMPLETED", "FAILED"}
  BY DEF SafeInv, TypeOK, CheckRecords, Polled, Confirmed
<1>2. /\ pc = "update" /\ checked' \subseteq checked
      /\ UNCHANGED <<pc, disk, pending, script, owner, state, faults>>
  BY DEF UpdateStatus, remoteVars
<1>3. \A j \in Jobs : m.status[j] = IF j = r.job THEN s ELSE mem.status[j]
  BY <1>1 DEF JobRecords
\* Its children are not in the queue: they wait for it.
<1>4. s = "FAILED" => failed = {}
  <2> DEFINE inQueue == {k \in Jobs :
                          m.status[k] \in {"SUBMITTED", "RUNNING", "QUEUING", "UNKNOWN"}}
  <2>1. ASSUME s = "FAILED", NEW k \in inQueue
        PROVE  r.job \notin Parents[k]
    <3>1. mem.status[k] \in InQueueStatus
      BY <1>3, <2>1, Statuses
    <3>2. Parents[k] \subseteq Done(mem)
      BY <3>1, Statuses DEF LostInv, Whole
    <3> QED
      BY <1>1, <3>2, Statuses DEF Done
  <2>2. ASSUME s = "FAILED", NEW k \in failed
        PROVE  FALSE
    <3>1. \A C \in SUBSET Jobs :
            (\A q \in inQueue : Parents[q] \cap (C \cup {r.job}) # {} => q \in C) => k \in C
      BY <2>2 DEF FailedWith
    <3> HIDE DEF inQueue
    <3>2. \A q \in inQueue : Parents[q] \cap ({} \cup {r.job}) # {} => q \in {}
      BY <2>1, <2>2
    <3> QED
      BY <3>1, <3>2
  <2> HIDE DEF failed, s
  <2> QED
    BY <2>2
<1>5. /\ \A j \in Jobs : mem'.status[j] = IF j = r.job THEN s ELSE mem.status[j]
      /\ mem'.id = mem.id
  BY <1>1, <1>3, <1>4 DEF UpdateStatus, JobRecords
<1>6. Whole(mem')
  BY <1>1, <1>5, StageWhole, Statuses DEF LostInv, Whole
<1>7. Lost(mem', owner, state) \subseteq Lost(mem, owner, state)
  <2> SUFFICES ASSUME NEW i \in Ids, state[i] \in {"Q", "R"}, Holds(mem, owner, i)
               PROVE  Holds(mem', owner, i)
    BY DEF Lost
  <2>1. owner[i] \in Jobs
    BY OwnersAreJobs
  <2>2. owner[i] = r.job => s # "FAILED"
    BY <1>1 DEF Holds, LostInv, Ended
  <2> QED
    BY <1>1, <1>5, <2>1, <2>2, Statuses DEF Holds
<1>8. Few(mem', owner, state, faults)
  BY <1>7, FewLess DEF LostInv, SafeInv, TypeOK
<1>9. Few(mem, owner, state, faults)' /\ Few(disk, owner, state, faults + Unsent)'
  BY <1>2, <1>8 DEF LostInv, Unsent
<1>10. Whole(mem)' /\ Whole(disk)' /\ script' = <<>> /\ Ended' /\ InTurn'
  BY <1>2, <1>5, <1>6 DEF LostInv, Whole, Done, Ended, InTurn
<1> QED
  BY <1>9, <1>10 DEF LostInv

\* The packages are those picked, one after the other.
LEMMA StartOneByOneLost ==
  ASSUME SafeInv, LostInv, SafeInv', StartOneByOne
  PROVE  LostInv'
<1>1. PICK pack \in Packages(mem) : pending' \in Orders(pack)
  BY DEF StartOneByOne
<1>2. /\ pc = "submit" /\ pc' = "qsub" /\ disk' = mem
      /\ UNCHANGED <<mem, checked, owner, state, script, faults>>
  BY DEF StartOneByOne, remoteVars
<1>3. pack \in SUBSET Jobs /\ \A j \in pack : mem.status[j] = "READY"
  BY DEF Packages, Ready
<1>4. /\ IsFiniteSet(pack) /\ Cardinality(pack) \in Nat
  BY <1>3, JobsAssumption, FS_Subset, FS_CardinalityType
<1>5. pending' \in Surjection(1..Cardinality(pack), pack)
  BY <1>1 DEF Orders, Range, Surjection
<1>6. IsFiniteSet(1..Cardinality(pack)) /\ Cardinality(1..Cardinality(pack)) = Cardinality(pack)
  BY <1>4, FS_Interval
<1>7. pending' \in Injection(1..Cardinality(pack), pack)
  BY <1>5, <1>6, FS_SurjSameCardinalityImpliesInj
<1>8. Len(pending') = Cardinality(pack)
  BY <1>4, <1>5 DEF Surjection, SafeInv, TypeOK
<1>9. InTurn'
  BY <1>2, <1>3, <1>5, <1>7, <1>8 DEF InTurn, Surjection, Injection, IsInjective
<1>10. checked' = {} /\ Dwindles(state, state') /\ Whole(mem') /\ Follows(mem, mem')
  BY <1>2 DEF SafeInv, Polled, Dwindles, LostInv, Follows
<1>11. disk' = mem' /\ pc' # "saveone" /\ Few(mem, owner, state, faults)
  BY <1>2 DEF LostInv
<1> QED
  BY <1>2, <1>9, <1>10, <1>11, SaveLost

\* An id that was not used yet is given to a job that was READY.
LEMMA SubmitOneLost ==
  ASSUME SafeInv, LostInv, SafeInv', SubmitOne
  PROVE  LostInv'
<1> DEFINE j == Head(pending)
<1>1. PICK i \in Ids :
        /\ Fresh(i)
        /\ owner' = [owner EXCEPT ![i] = j]
        /\ state' = [state EXCEPT ![i] = "Q"]
        /\ \/ mem' = Submitted(mem, j, i) /\ pc' = "saveone" /\ faults' = faults
           \/ UNCHANGED <<mem, pc>> /\ faults' = faults + 1
  BY DEF SubmitOne
<1>2. /\ pc = "qsub" /\ pending # <<>> /\ pending' = Tail(pending)
      /\ UNCHANGED <<disk, checked, script>>
  BY DEF SubmitOne
<1>3. /\ faults \in Nat /\ mem \in JobRecords /\ pending \in Seq(Jobs)
      /\ owner \in [Ids -> Jobs \cup {NoJob}] /\ state \in [Ids -> States]
      /\ owner[i] = NoJob /\ NoJob \notin Jobs
  BY <1>1, SchedulerAssumption DEF SafeInv, TypeOK, Fresh, FreeIds
<1>4. /\ j \in Jobs /\ mem.status[j] = "READY" /\ Len(pending) \in Nat \ {0} /\ j = pending[1]
      /\ Len(pending') = Len(pending) - 1
      /\ \A k \in 1..Len(pending') : pending'[k] = pending[k + 1]
  BY <1>2, <1>3 DEF LostInv, InTurn
<1>5. \A k \in 1..Len(pending') :
        pending'[k] \in Jobs \ {j} /\ mem.status[pending'[k]] = "READY"
  BY <1>2, <1>3, <1>4 DEF LostInv, InTurn
<1>6. \A k, l \in 1..Len(pending') : pending'[k] = pending'[l] => k = l
  BY <1>2, <1>4 DEF LostInv, InTurn
<1>7. checked = {} /\ Unsent = 0
  BY <1>2 DEF SafeInv, Polled, Unsent
<1>8. ASSUME NEW m, NEW k \in Ids, k # i, state'[k] \in {"Q", "R"}
      PROVE  state[k] \in {"Q", "R"} /\ owner'[k] = owner[k] /\ owner[k] \in Jobs
  BY <1>1, <1>3, <1>8, OwnersAreJobs
<1>9. \A m : Lost(m, owner', state') \subseteq Lost(m, owner, state) \cup {i}
  BY <1>8 DEF Lost, Holds
<1>10. /\ Few(mem, owner, state, faults) /\ Few(disk, owner, state, faults)
       /\ faults + 1 \in Nat
  BY <1>3, <1>7 DEF LostInv
<1>11. Few(disk, owner', state', faults + 1)
  BY <1>3, <1>9, <1>10, FewMore
<1>12. Whole(disk)' /\ script' = <<>> /\ Ended'
  BY <1>2, <1>7 DEF LostInv, Whole, Done, Ended
<1>13. CASE mem' = Submitted(mem, j, i) /\ pc' = "saveone" /\ faults' = faults
  <2>1. /\ \A k \in Jobs : mem'.id[k] = IF k = j THEN i ELSE mem.id[k]
        /\ \A k \in Jobs : mem'.status[k] = IF k = j THEN "SUBMITTED" ELSE mem.status[k]
    BY <1>3, <1>4, <1>13 DEF JobRecords, Submitted
  <2>2. Lost(mem', owner', state') \subseteq Lost(mem, owner, state)
    <3> SUFFICES ASSUME NEW k \in Ids, state'[k] \in {"Q", "R"}, ~Holds(mem', owner', k)
                 PROVE  state[k] \in {"Q", "R"} /\ ~Holds(mem, owner, k)
      BY DEF Lost
    <3>1. k # i
      BY <1>1, <1>3, <1>4, <2>1, Statuses DEF Holds
    <3>2. state[k] \in {"Q", "R"} /\ owner'[k] = owner[k] /\ owner[k] \in Jobs
      BY <1>8, <3>1
    <3> QED
      BY <1>4, <2>1, <3>2, Statuses DEF Holds
  <2>3. Few(mem', owner', state', faults)
    BY <1>3, <1>10, <2>2, FewLess
  <2>4. Whole(mem')
    <3>1. \A k \in Jobs : mem.status[k] \in DoneStatus => mem'.status[k] \in DoneStatus
      BY <1>4, <2>1, Statuses
    <3>2. \A k \in Jobs : mem.status[k] = "WAITING" => mem'.status[k] = "WAITING"
      BY <1>4, <2>1, Statuses
    <3> QED
      BY <3>1, <3>2, StageWhole DEF LostInv
  <2>5. InTurn'
    BY <1>5, <1>6, <2>1 DEF InTurn
  <2>6. Unsent' = 1
    BY <1>13 DEF Unsent
  <2>7. Few(mem, owner, state, faults)' /\ Few(disk, owner, state, faults + Unsent)'
    BY <1>2, <1>11, <1>13, <2>3, <2>6
  <2>8. Whole(mem)'
    BY <2>4 DEF Whole, Done
  <2> QED
    BY <1>12, <2>5, <2>7, <2>8 DEF LostInv
<1>14. CASE UNCHANGED <<mem, pc>> /\ faults' = faults + 1
  <2>1. Few(mem, owner', state', faults + 1)
    BY <1>3, <1>9, <1>10, FewMore
  <2>2. Unsent' = 0 /\ faults' + 0 = faults + 1
    BY <1>2, <1>3, <1>14 DEF Unsent
  <2>3. Few(mem, owner, state, faults)' /\ Few(disk, owner, state, faults + Unsent)'
    BY <1>2, <1>11, <1>14, <2>1, <2>2
  <2>4. InTurn'
    BY <1>5, <1>6, <1>14 DEF InTurn
  <2>5. Whole(mem)'
    BY <1>14 DEF LostInv, Whole, Done
  <2> QED
    BY <1>12, <2>3, <2>4, <2>5 DEF LostInv
<1> QED
  BY <1>1, <1>13, <1>14

LEMMA SubmissionLost ==
  ASSUME ~Batch, SafeInv, IdInv, LostInv, SafeInv', Submission
  PROVE  LostInv'
<1>1. pc \notin {"sbatch", "assign"}
  BY DEF IdInv, Where
<1>2. CASE StartOneByOne
  BY <1>2, StartOneByOneLost
<1>3. CASE SubmitOne
  BY <1>3, SubmitOneLost
<1>4. CASE SubmitOneFails
  <2>1. /\ pc = "qsub" /\ UNCHANGED <<pc, mem, disk, checked, script, owner, state>>
        /\ pending # <<>> /\ pending' = Tail(pending) /\ faults' = faults + 1
    BY <1>4 DEF SubmitOneFails
  <2>2. /\ Len(pending') = Len(pending) - 1 /\ Len(pending) \in Nat \ {0}
        /\ \A k \in 1..Len(pending') : pending'[k] = pending[k + 1]
    BY <2>1 DEF SafeInv, TypeOK
  <2>3. InTurn' /\ Ended'
    BY <2>1, <2>2 DEF LostInv, InTurn, Ended
  <2>4. Dwindles(state, state') /\ faults <= faults'
    BY <2>1 DEF Dwindles, SafeInv, TypeOK
  <2> QED
    BY <2>1, <2>3, <2>4, QuietLost
<1>5. CASE SaveOne \/ EndOneByOne
  <2>1. /\ disk' = mem /\ UNCHANGED <<mem, checked, pending, script, owner, state, faults>>
        /\ pc \in {"saveone", "qsub"} /\ pc' \in {"qsub", "list"}
    BY <1>5 DEF SaveOne, EndOneByOne, iterVars, remoteVars
  <2>2. checked' = {} /\ InTurn' /\ Dwindles(state, state') /\ Follows(mem, mem') /\ Whole(mem')
    BY <2>1 DEF SafeInv, Polled, LostInv, InTurn, Dwindles, Follows
  <2>3. disk' = mem' /\ pc' # "saveone" /\ Few(mem, owner, state, faults)
    BY <2>1 DEF LostInv
  <2> QED
    BY <2>1, <2>2, <2>3, SaveLost
<1> QED
  BY <1>1, <1>2, <1>3, <1>4, <1>5
     DEF Submission, BuildScript, ReadIds, NothingSubmitted, ScriptError, AssignId, AssignError,
         DroppedError, SaveBatch

LEMMA LoopLost ==
  ASSUME EdgeInfo = {}, SafeInv, IdInv, LostInv, SafeInv', Loop
  PROVE  LostInv'
<1>0. Dwindles(state, state) /\ faults \in Nat
  BY DEF Dwindles, SafeInv, TypeOK
<1>1. CASE ReturnOnExit \/ PollError
  <2>1. /\ \E next \in {"off", "recover"} : Leave(next)
        /\ UNCHANGED <<disk, owner, script, state>> /\ faults + Unsent <= faults'
    BY <1>0, <1>1 DEF ReturnOnExit, PollError, remoteVars, Unsent
  <2> QED
    BY <1>0, <2>1, LeaveLost
<1>2. CASE StartIteration
  <2>1. /\ pc = "head" /\ pc' = "check"
        /\ UNCHANGED <<mem, disk, checked, script, owner, state, faults>>
    BY <1>2 DEF StartIteration, iterVars, remoteVars
  <2>2. Ended' /\ InTurn'
    BY <2>1 DEF LostInv, Ended, InTurn
  <2> QED
    BY <1>0, <2>1, <2>2, QuietLost
<1>3. CASE EndRun
  <2>1. /\ disk' = mem /\ UNCHANGED <<mem, checked, script, owner, state, faults>>
        /\ pc = "head" /\ pc' = "done"
    BY <1>3 DEF EndRun, iterVars, remoteVars
  <2>2. checked' = {} /\ InTurn' /\ Dwindles(state, state') /\ Follows(mem, mem') /\ Whole(mem')
    BY <2>1 DEF SafeInv, Polled, LostInv, InTurn, Dwindles, Follows
  <2>3. disk' = mem' /\ pc' # "saveone" /\ Few(mem, owner, state, faults)
    BY <2>1 DEF LostInv
  <2> QED
    BY <2>1, <2>2, <2>3, SaveLost
<1>4. CASE Poll
  BY <1>4, PollLost
<1>5. CASE \E r \in checked : UpdateStatus(r)
  BY <1>5, UpdateStatusLost
<1>6. CASE AfterCheck
  BY <1>6, UpdateAndSaveLost DEF AfterCheck
<1>7. CASE AfterSubmit
  BY <1>7, UpdateAndSaveLost DEF AfterSubmit, SafeInv, Polled
<1> QED
  BY <1>1, <1>2, <1>3, <1>4, <1>5, <1>6, <1>7 DEF Loop

LEMMA NextLost ==
  ASSUME ~Batch, EdgeInfo = {}, SafeInv, IdInv, LostInv, SafeInv', [Next]_vars
  PROVE  LostInv'
<1>0. Dwindles(state, state) /\ faults \in Nat
  BY DEF Dwindles, SafeInv, TypeOK
<1>1. CASE PrepareRun \/ Recover
  BY <1>1, LoadUpdateSaveLost DEF PrepareRun, Recover
<1>2. CASE GiveUp \/ Kill
  <2>1. /\ \E next \in {"off", "recover"} : Leave(next)
        /\ UNCHANGED <<disk, owner, script, state>> /\ faults + Unsent <= faults'
    BY <1>0, <1>2 DEF GiveUp, Kill, remoteVars, Unsent
  <2> QED
    BY <1>0, <2>1, LeaveLost
<1>3. CASE Signal \/ (\E j \in Jobs : DelayPasses(j)) \/ UNCHANGED vars
  <2>1. /\ faults <= faults'
        /\ UNCHANGED <<pc, mem, disk, checked, pending, script, owner, state>>
    BY <1>0, <1>3 DEF Signal, DelayPasses, vars, iterVars, remoteVars
  <2>2. Ended' /\ InTurn'
    BY <2>1 DEF LostInv, Ended, InTurn
  <2> QED
    BY <1>0, <2>1, <2>2, QuietLost
<1>4. CASE Loop
  BY <1>4, LoopLost
<1>5. CASE Submission
  BY <1>5, SubmissionLost
<1>6. CASE Remote
  <2>0. PICK i \in Ids : \/ JobStarts(i) \/ JobSucceeds(i) \/ JobFails(i)
                          \/ JobEndsWithoutFile(i) \/ JobEnds(i)
    BY <1>6 DEF Remote, RemoteLine, RemoteDies, LostInv
  <2>1. /\ \E from \in LiveStates, to \in States \ {"Q"} :
             Move(i, from, to) /\ (to = "R" => from = "Q")
        /\ faults <= faults'
    BY <1>0, <2>0 DEF JobStarts, JobSucceeds, JobFails, JobEndsWithoutFile, JobEnds,
                      LiveStates, States
  <2>2. UNCHANGED <<pc, mem, disk, checked, pending, script, owner>>
    BY <2>1 DEF Move, processVars, iterVars
  <2>3. Dwindles(state, state')
    BY <2>1 DEF Move, Dwindles, SafeInv, TypeOK
  <2>4. InTurn'
    BY <2>2 DEF LostInv, InTurn
  <2>5. Ended'
    <3> SUFFICES ASSUME NEW r \in checked, r.new \in {"COMPLETED", "FAILED"},
                        state'[mem.id[r.job]] \in {"Q", "R"}
                 PROVE  FALSE
      BY <2>2 DEF Ended
    <3>1. mem.id[r.job] \in Ids
      BY DEF IdInv, KnownJob
    <3> QED
      BY <2>3, <3>1 DEF Dwindles, LostInv, Ended
  <2> QED
    BY <2>1, <2>2, <2>3, <2>4, <2>5, QuietLost
<1> QED
  BY <1>1, <1>2, <1>3, <1>4, <1>5, <1>6 DEF Next, Terminated

LEMMA InitLost == Init => LostInv
<1> SUFFICES ASSUME Init PROVE LostInv
  OBVIOUS
<1>1. Lost(mem, owner, state) = {} /\ Lost(disk, owner, state) = {}
  BY DEF Init, Lost
<1>2. Few(mem, owner, state, faults) /\ Few(disk, owner, state, faults + Unsent)
  <2>1. faults = 0 /\ Unsent = 0 /\ faults + Unsent = 0
    BY DEF Init, Unsent
  <2>2. IsFiniteSet({}) /\ Cardinality({}) = 0
    BY FS_EmptySet
  <2>3. Few(mem, owner, state, 0) /\ Few(disk, owner, state, 0)
    BY <1>1, <2>2 DEF Few
  <2> QED
    BY <2>1, <2>3
<1>3. Whole(mem) /\ Whole(disk) /\ Ended /\ InTurn /\ script = <<>>
  BY DEF Init, Whole, Ended, InTurn
<1> QED
  BY <1>2, <1>3 DEF LostInv

\* Where jobs are submitted one by one and none starts on the status of a parent, the
\* saved list misses at most one submission for each thing that went wrong, and the one
\* that is about to be saved: any number of kills, lost answers and refusals.
THEOREM FewAreLost == ASSUME ~Batch, EdgeInfo = {} PROVE Spec => []OneLostPerFault
<1>1. SafeInv /\ SafeInv' /\ IdInv /\ LostInv /\ [Next]_vars => LostInv'
  BY NextLost
<1>2. SafeInv /\ LostInv => OneLostPerFault
  <2> SUFFICES ASSUME SafeInv, LostInv PROVE OneLostPerFault
    OBVIOUS
  <2>1. Unsaved \subseteq Lost(disk, owner, state)
    BY DEF Unsaved, Lost, Holds
  <2>2. /\ Cardinality(Unsaved) <= Cardinality(Lost(disk, owner, state))
        /\ Cardinality(Unsaved) \in Nat /\ Cardinality(Lost(disk, owner, state)) \in Nat
        /\ Cardinality(Lost(disk, owner, state)) <= faults + Unsent
    BY <2>1, FS_Subset, FS_CardinalityType DEF LostInv, Few
  <2>3. faults + Unsent \in Nat
    <3>1. faults \in Nat /\ Unsent \in Nat
      BY DEF SafeInv, TypeOK, Unsent
    <3> QED
      BY <3>1
  <2>4. Cardinality(Unsaved) <= faults + Unsent
    BY <2>2, <2>3
  <2> QED
    BY <2>4 DEF OneLostPerFault, Unsent
<1> QED
  BY <1>1, <1>2, InitLost, SafeInvariant, IdInvariant, PTL DEF Spec
=============================================================================
