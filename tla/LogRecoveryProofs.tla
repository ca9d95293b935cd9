------------------------- MODULE LogRecoveryProofs -------------------------
(***************************************************************************)
(* Proofs about LogRecovery for every set of jobs, every choice of the     *)
(* constants and any number of faults.                                     *)
(***************************************************************************)
EXTENDS LogRecovery, FiniteSetTheorems, SequenceTheorems, TLAPS

-----------------------------------------------------------------------------
(* The data.                                                               *)

\* What update_list makes of a job list is a job list.
LEMMA ListTypes ==
  ASSUME NEW m \in JobRecords, clock \in Nat
  PROVE  /\ Retried(m) \in JobRecords
         /\ Forgotten(m) \in JobRecords
         /\ Dated(m) \in JobRecords
         /\ ClockAfter(m) \in Nat
<1>1. Retried(m) \in JobRecords
  <2> DEFINE again == {j \in InState(m, {"FAILED"}) : m.fails[j] < Retrials}
             f == [j \in Jobs |-> IF j \in again THEN "READY" ELSE m.status[j]]
             g == [j \in Jobs |-> IF j \in again THEN m.fails[j] + 1 ELSE m.fails[j]]
  <2>1. f \in [Jobs -> Statuses] /\ g \in [Jobs -> 0..Retrials]
    BY LogsAssumption DEF JobRecords, Statuses
  <2>2. Retried(m) = [m EXCEPT !.status = f, !.fails = g]
    BY DEF Retried, JobRecords
  <2> HIDE DEF f, g
  <2> QED
    BY <2>1, <2>2 DEF JobRecords
<1>2. Forgotten(m) \in JobRecords
  BY LogsAssumption DEF Forgotten, JobRecords, Statuses
<1>3. Dated(m) \in JobRecords
  <2> DEFINE f == [j \in Jobs |-> IF j \in Ready(m) THEN clock + 1 ELSE m.ready[j]]
             g == [j \in Jobs |-> IF j \in Ready(m) THEN FALSE ELSE m.flag[j]]
  <2>1. f \in [Jobs -> Nat] /\ g \in [Jobs -> BOOLEAN]
    <3>1. m.ready \in [Jobs -> Nat] /\ m.flag \in [Jobs -> BOOLEAN]
      BY DEF JobRecords
    <3>2. clock + 1 \in Nat
      OBVIOUS
    <3> QED
      BY <3>1, <3>2
  <2>2. Dated(m) = [m EXCEPT !.ready = f, !.flag = g]
    BY DEF Dated, JobRecords
  <2> HIDE DEF f, g
  <2> QED
    BY <2>1, <2>2 DEF JobRecords
<1> QED
  BY <1>1, <1>2, <1>3 DEF ClockAfter

\* So is what submitting its ready jobs makes of it.
LEMMA SubmitTypes ==
  ASSUME NEW m \in JobRecords
  PROVE  Submitted(m) \in JobRecords
<1> DEFINE f == [j \in Jobs |-> IF j \in Ready(m) THEN "RUNNING" ELSE m.status[j]]
           g == [j \in Jobs |-> IF j \in Ready(m) THEN m.sub[j] + 1 ELSE m.sub[j]]
<1>1. f \in [Jobs -> Statuses] /\ g \in [Jobs -> Nat]
  BY DEF JobRecords, Statuses
<1>2. Submitted(m) = [m EXCEPT !.status = f, !.sub = g]
  BY DEF Submitted, JobRecords
<1> HIDE DEF f, g
<1> QED
  BY <1>1, <1>2 DEF JobRecords

\* So is a job list whose logs were looked for.
LEMMA FlagTypes ==
  ASSUME NEW m \in JobRecords
  PROVE  LogsChecked(m) \in JobRecords /\ HandedOver(m) \in JobRecords
<1>1. \A n \in JobRecords : \A g \in [Jobs -> BOOLEAN] :
        [n EXCEPT !.flag = g] \in JobRecords
  BY DEF JobRecords
<1>2. LogsChecked(m) \in JobRecords
  BY <1>1, Zenon DEF LogsChecked, JobRecords
<1>3. HandedOver(m) \in JobRecords
  BY <1>1, <1>2, Zenon DEF HandedOver, JobRecords
<1> QED
  BY <1>2, <1>3

\* The item of a job.
LEMMA ItemType ==
  ASSUME NEW m \in JobRecords, NEW j \in Jobs
  PROVE  Item(m, j) \in Items
BY DEF Item, Items, JobRecords

\* What the next run puts in the queue are items.
LEMMA QueueTypes ==
  ASSUME NEW m \in JobRecords, NEW q \in QueuesOf(m)
  PROVE  q \in Seq(Items)
<1>1. IsFiniteSet(ToHandOver(m))
  BY LogsAssumption, FS_Subset DEF ToHandOver, Unlogged, InState
<1>2. Cardinality(ToHandOver(m)) \in Nat
  BY <1>1, FS_CardinalityType
<1>3. PICK order \in SetToSeqs(ToHandOver(m)) :
        q = [n \in DOMAIN order |-> Item(m, order[n])]
  BY DEF QueuesOf
<1>4. order \in [1..Cardinality(ToHandOver(m)) -> Jobs]
  BY <1>3 DEF SetToSeqs, ToHandOver, Unlogged, InState
<1>5. q \in [1..Cardinality(ToHandOver(m)) -> Items]
  BY <1>3, <1>4, ItemType
<1> QED
  BY <1>2, <1>5

\* What was in a queue are items.
LEMMA RangeTypes ==
  ASSUME NEW q \in Seq(Items)
  PROVE  Range(q) \subseteq Items
BY DEF Range

-----------------------------------------------------------------------------
(* Type correctness.                                                       *)

LEMMA InitTypes == Init => TypeOK
<1> SUFFICES ASSUME Init PROVE TypeOK
  OBVIOUS
<1>1. mem \in JobRecords /\ disk \in JobRecords
  BY LogsAssumption DEF Init, JobRecords, Statuses
<1>2. queue \in Seq(Items) /\ runs \in 0..MaxRuns /\ faults \in 0..MaxFaults
  BY LogsAssumption DEF Init
<1>3. DOMAIN stats = {}
  BY DEF Init
<1> QED
  BY <1>1, <1>2, <1>3 DEF Init, TypeOK

LEMMA StartTypes == TypeOK /\ Start => TypeOK'
<1> SUFFICES ASSUME TypeOK, Start PROVE TypeOK'
  OBVIOUS
<1>1. disk' \in JobRecords /\ clock' \in Nat
  BY ListTypes DEF TypeOK, Start, LoadUpdateSave
<1>2. mem' \in JobRecords
  BY <1>1, FlagTypes DEF Start
<1>3. queue' \in Seq(Items)
  BY <1>1, QueueTypes DEF Start
<1>4. child' \in Alive \cup {"off"} /\ last' = FALSE /\ cleanup' = FALSE
  BY DEF Start, Spawn, Alive
<1>5. /\ pc' = "head" /\ exit' = FALSE /\ didRun' = FALSE /\ runs' \in 0..MaxRuns
      /\ work' = FALSE /\ pend' = {} /\ done' = {} /\ gone' = {}
      /\ UNCHANGED <<toCheck, orphan, fileVars, faults>>
  BY LogsAssumption DEF TypeOK, Start
<1> QED
  BY <1>1, <1>2, <1>3, <1>4, <1>5 DEF TypeOK, fileVars

LEMMA IterationTypes ==
  ASSUME TypeOK, StartIteration \/ UpdateAndSave \/ Submit \/ Sleep
  PROVE  TypeOK'
<1>1. CASE StartIteration
  <2>1. queue' \in Seq(Items) /\ gone' \subseteq Items
    <3>1. \/ queue' = queue /\ gone' = gone
          \/ queue' = <<>> /\ gone' = gone \cup Range(queue)
      BY <1>1 DEF StartIteration
    <3>2. queue \in Seq(Items) /\ gone \subseteq Items
      BY DEF TypeOK
    <3>3. Range(queue) \subseteq Items
      BY <3>2, RangeTypes
    <3>4. <<>> \in Seq(Items)
      OBVIOUS
    <3>5. queue' \in Seq(Items)
      BY <3>1, <3>2, <3>4
    <3> QED
      BY <3>1, <3>2, <3>3, <3>5
  <2>2. /\ child' \in Alive \cup {"off", "left", "ended"}
        /\ last' \in BOOLEAN /\ cleanup' \in BOOLEAN
    BY <1>1 DEF TypeOK, StartIteration, Spawn, Alive
  <2>3. toCheck' \subseteq Jobs
    BY <1>1 DEF StartIteration, InState
  <2>4. /\ pc' = "check" /\ didRun' = TRUE /\ work' = TRUE
        /\ UNCHANGED <<exit, runs, mem, disk, pend, orphan, fileVars, clock, done, faults>>
    BY <1>1 DEF StartIteration
  <2> QED
    BY <2>1, <2>2, <2>3, <2>4 DEF TypeOK, fileVars
<1>2. CASE UpdateAndSave
  <2>1. Retried(mem) \in JobRecords
    BY ListTypes DEF TypeOK
  <2>2. Dated(Retried(mem)) \in JobRecords /\ ClockAfter(Retried(mem)) \in Nat
    BY <2>1, ListTypes DEF TypeOK
  <2> QED
    BY <1>2, <2>2 DEF TypeOK, UpdateAndSave, childVars, fileVars
<1>3. CASE Submit
  <2>1. mem' = Submitted(mem)
    BY <1>3, Zenon DEF Submit
  <2>2. mem' \in JobRecords
    BY <2>1, SubmitTypes DEF TypeOK
  <2>3. PICK S \in SUBSET Ready(mem) :
          /\ IF S = Ready(mem) THEN UNCHANGED faults ELSE Fault("nolog")
          /\ remote' = remote \cup {<<j, mem.fails[j]>> : j \in S}
    BY <1>3, Zenon DEF Submit
  <2>4. \A j \in S : j \in Jobs /\ mem.fails[j] \in 0..Retrials
    BY DEF TypeOK, Ready, InState, JobRecords
  <2>5. remote' \subseteq Jobs \X (0..Retrials)
    BY <2>3, <2>4 DEF TypeOK
  <2>6. faults' \in 0..MaxFaults
    BY <2>3, LogsAssumption DEF TypeOK, Fault, CanFault
  <2>7. /\ pc' = "sleep" /\ disk' = mem'
        /\ UNCHANGED <<exit, didRun, runs, toCheck, queue, work, cleanup, childVars,
                       orphan, local, stats, clock>>
    BY <1>3, Zenon DEF Submit
  <2> QED
    BY <2>2, <2>5, <2>6, <2>7 DEF TypeOK, childVars
<1>4. CASE Sleep
  BY <1>4, FlagTypes DEF TypeOK, Sleep, childVars, fileVars
<1> QED
  BY <1>1, <1>2, <1>3, <1>4

LEMMA UpdateStatusTypes ==
  ASSUME TypeOK, NEW j \in Jobs, UpdateStatus(j)
  PROVE  TypeOK'
<1>1. PICK s \in {"RUNNING", "COMPLETED", "FAILED", "UNKNOWN"} :
        /\ IF s = "UNKNOWN" THEN Fault("unknown") ELSE UNCHANGED faults
        /\ mem' = [mem EXCEPT !.status[j] = s]
        /\ queue' = IF s = "RUNNING" THEN queue ELSE Append(queue, Item(mem, j))
  BY DEF UpdateStatus
<1>2. mem' \in JobRecords
  BY <1>1 DEF TypeOK, JobRecords, Statuses
<1>3. queue' \in Seq(Items)
  BY <1>1, ItemType DEF TypeOK
<1>4. faults' \in 0..MaxFaults
  BY <1>1, LogsAssumption DEF TypeOK, Fault, CanFault
<1> QED
  BY <1>2, <1>3, <1>4 DEF TypeOK, UpdateStatus, childVars, fileVars

LEMMA EndTypes ==
  ASSUME TypeOK,
         ReturnOnExit \/ Recover \/ Critical \/ EndRun \/ Join \/ Report
           \/ Leave \/ Signal \/ Kill
  PROVE  TypeOK'
<1>1. CASE ReturnOnExit \/ Join
  BY <1>1, FlagTypes DEF TypeOK, ReturnOnExit, Join, Leaving, childVars, fileVars
<1>2. CASE Recover
  <2>1. Forgotten(disk) \in JobRecords
    BY ListTypes DEF TypeOK
  <2>2. disk' \in JobRecords /\ clock' \in Nat
    BY <1>2, <2>1, ListTypes DEF TypeOK, Recover, LoadUpdateSave
  <2> QED
    BY <1>2, <2>2, LogsAssumption
    DEF TypeOK, Recover, Fault, CanFault, childVars, fileVars
<1>3. CASE Critical \/ Signal
  <2>1. faults' \in 0..MaxFaults
    BY <1>3, LogsAssumption DEF TypeOK, Critical, Signal, Fault, CanFault
  <2> QED
    BY <1>3, <2>1 DEF TypeOK, Critical, Signal, Leaving, childVars, fileVars
<1>4. CASE EndRun \/ Report
  BY <1>4 DEF TypeOK, EndRun, Report, Leaving, Awaited, childVars, fileVars
<1>5. CASE Leave
  BY <1>5 DEF TypeOK, Leave, fileVars
<1>6. CASE Kill
  <2>1. PendingItems \subseteq Items
    BY DEF TypeOK, PendingItems
  <2> QED
    BY <1>6, <2>1, RangeTypes, LogsAssumption DEF TypeOK, Kill, Fault, CanFault, fileVars
<1> QED
  BY <1>1, <1>2, <1>3, <1>4, <1>5, <1>6

\* Retrieving an item, or not, keeps the types of the files.
FilesTyped ==
  /\ remote \subseteq Jobs \X (0..Retrials)
  /\ local \subseteq LogFiles
  /\ DOMAIN stats \subseteq Items
  /\ \A i \in DOMAIN stats : stats[i] \in Nat
  /\ faults \in 0..MaxFaults

LEMMA RetrieveTypes ==
  ASSUME TypeOK, NEW i \in Items, Retrieved(i) \/ NotRetrieved(i)
  PROVE  FilesTyped'
<1>1. Downloaded(i) \subseteq LogFiles
  BY DEF TypeOK, Downloaded, LogFiles, Items
<1>2. DOMAIN Counted(i) \subseteq Items /\ \A k \in DOMAIN Counted(i) : Counted(i)[k] \in Nat
  BY DEF TypeOK, Counted
<1> QED
  BY <1>1, <1>2, LogsAssumption
  DEF TypeOK, FilesTyped, Retrieved, NotRetrieved, Fault, CanFault, fileVars

LEMMA ChildTypes ==
  ASSUME TypeOK,
         Child \/ ChildTimesOut \/ ChildDies \/ OrphanRetrieves \/ OrphanEnds
  PROVE  TypeOK'
<1> USE DEF Alive
<1>1. CASE ChildWakes \/ ChildDrained \/ ChildTimesOut \/ ChildEndsPass
  BY <1>1 DEF TypeOK, ChildWakes, ChildDrained, ChildTimesOut, ChildEndsPass,
              AfterPass, childUnchanged, runVars, fileVars
<1>2. CASE ChildTakes
  <2>1. Head(queue) \in Items /\ Tail(queue) \in Seq(Items)
    BY <1>2, HeadTailProperties DEF TypeOK, ChildTakes
  <2>2. Retrieved(Head(queue)) \/ NotRetrieved(Head(queue))
    BY <1>2 DEF ChildTakes
  <2>3. FilesTyped'
    BY <2>1, <2>2, RetrieveTypes
  <2> QED
    BY <1>2, <2>1, <2>3, LogsAssumption
    DEF TypeOK, FilesTyped, ChildTakes, childUnchanged, runVars
<1>3. CASE ChildRetries
  <2>1. PICK p \in pend :
          \/ /\ Retrieved(p.item)
             /\ pend' = pend \ {p}
             /\ done' = done \cup {p.item}
          \/ /\ NotRetrieved(p.item)
             /\ pend' = (pend \ {p}) \cup Kept(p)
             /\ done' = IF Kept(p) = {} THEN done \cup {p.item} ELSE done
    BY <1>3 DEF ChildRetries
  <2>2. p.item \in Items
    BY DEF TypeOK
  <2>3. FilesTyped'
    BY <2>1, <2>2, RetrieveTypes
  <2>4. Kept(p) \subseteq [item : Items, tries : 1..(Tries - 1)]
    BY LogsAssumption DEF TypeOK, Kept
  <2> QED
    BY <1>3, <2>1, <2>2, <2>3, <2>4
    DEF TypeOK, FilesTyped, ChildRetries, childUnchanged, runVars
<1>4. CASE ChildDies
  <2>1. PendingItems \subseteq Items
    BY DEF TypeOK, PendingItems
  <2> QED
    BY <1>4, <2>1, LogsAssumption
    DEF TypeOK, ChildDies, Fault, CanFault, childUnchanged, runVars, fileVars
<1>5. CASE OrphanRetrieves
  <2>1. PICK i \in orphan : Retrieved(i) /\ orphan' = orphan \ {i}
    BY <1>5 DEF OrphanRetrieves
  <2>2. FilesTyped'
    BY <2>1, RetrieveTypes DEF TypeOK
  <2> QED
    BY <1>5, <2>1, <2>2
    DEF TypeOK, FilesTyped, OrphanRetrieves, childVars, runVars
<1>6. CASE OrphanEnds
  BY <1>6 DEF TypeOK, OrphanEnds, childVars, runVars, fileVars
<1> QED
  BY <1>1, <1>2, <1>3, <1>4, <1>5, <1>6 DEF Child

LEMMA NextTypes == TypeOK /\ [Next]_vars => TypeOK'
<1>1. TypeOK /\ UNCHANGED vars => TypeOK'
  BY DEF TypeOK, vars
<1>2. TypeOK /\ Next => TypeOK'
  BY StartTypes, IterationTypes, UpdateStatusTypes, EndTypes, ChildTypes
  DEF Next, RunLoop, Outside
<1> QED
  BY <1>1, <1>2

\* Every variable keeps its type under every fault.
THEOREM LogTypesCorrect == Spec => []TypeOK
BY InitTypes, NextTypes, PTL DEF Spec

-----------------------------------------------------------------------------
(* The child that was waited for.                                          *)

\* The child makes its last pass after cleanup_event, which nothing but the end
\* of the run sets and after which nothing is put in the queue.
LastPass ==
  /\ cleanup => pc \in {"join", "report", "leaving", "down"}
  /\ last => cleanup
  /\ child = "retry" /\ last => queue = <<>>
  /\ child = "ended" => last /\ queue = <<>> /\ pend = {}

\* LastPass is inductive: a last pass begins with the queue being drained when
\* the run loop does not put anything in it any more.
LEMMA LastPassNext == TypeOK /\ LastPass /\ [Next]_vars => LastPass'
<1> SUFFICES ASSUME TypeOK, LastPass, [Next]_vars PROVE LastPass'
  OBVIOUS
<1> USE DEF LastPass, Alive
<1>1. CASE UNCHANGED vars
  BY <1>1 DEF vars
<1>2. CASE Start
  BY <1>2 DEF Start, Spawn
<1>3. CASE StartIteration
  BY <1>3 DEF StartIteration, Spawn
<1>4. CASE \E j \in Jobs : UpdateStatus(j)
  BY <1>4 DEF UpdateStatus, childVars
<1>5. CASE UpdateAndSave \/ Submit \/ Sleep \/ Recover
  BY <1>5 DEF UpdateAndSave, Submit, Sleep, Recover, childVars
<1>6. CASE ReturnOnExit \/ Critical \/ Report
  BY <1>6 DEF ReturnOnExit, Critical, Report, Leaving, childVars
<1>7. CASE EndRun \/ Join \/ Signal
  BY <1>7 DEF EndRun, Join, Signal, childVars
<1>8. CASE Leave \/ Kill
  BY <1>8 DEF Leave, Kill
<1>9. CASE ChildWakes \/ ChildDrained \/ ChildTimesOut \/ ChildEndsPass
  BY <1>9 DEF ChildWakes, ChildDrained, ChildTimesOut, ChildEndsPass, AfterPass,
              childUnchanged, runVars
<1>10. CASE ChildTakes \/ ChildRetries
  BY <1>10 DEF ChildTakes, ChildRetries, childUnchanged, runVars
<1>11. CASE ChildDies
  BY <1>11 DEF ChildDies, childUnchanged, runVars
<1>12. CASE OrphanRetrieves \/ OrphanEnds
  BY <1>12 DEF OrphanRetrieves, OrphanEnds, childVars, runVars
<1> QED
  BY <1>1, <1>2, <1>3, <1>4, <1>5, <1>6, <1>7, <1>8, <1>9, <1>10, <1>11, <1>12
  DEF Next, RunLoop, Child, Outside

\* A child that ended by cleanup_event left nothing in the queue and nothing to
\* be tried again.
THEOREM NothingLeft == Spec => []ChildEndsWithNothingLeft
<1>1. Init => LastPass
  BY DEF Init, LastPass
<1>2. LastPass => ChildEndsWithNothingLeft
  BY DEF LastPass, ChildEndsWithNothingLeft
<1> QED
  BY <1>1, <1>2, LogTypesCorrect, LastPassNext, PTL DEF Spec

-----------------------------------------------------------------------------
(* updated_log.                                                            *)

Logged(m, L) ==
  \A j \in Jobs : m.flag[j] /\ m.sub[j] > 0 =>
    \E f \in L : f.job = j /\ f.stamp >= m.ready[j]

\* A job that waits to be submitted has no updated_log, which its submission
\* would make one of a job with an id.
Unflagged(m) == \A j \in Ready(m) : ~m.flag[j]

Flagged(m, L) == Logged(m, L) /\ Unflagged(m)

FlagsKept == Flagged(mem, local) /\ Flagged(disk, local)

\* What update_list does to the flags.
LEMMA UpdateFlags ==
  ASSUME NEW m \in JobRecords, Logged(m, local)
  PROVE  /\ Logged(Retried(m), local)
         /\ Logged(Forgotten(m), local)
         /\ Flagged(Dated(m), local)
<1>1. /\ Retried(m).flag = m.flag /\ Retried(m).sub = m.sub
      /\ Retried(m).ready = m.ready
  BY DEF Retried, JobRecords
<1>2. /\ Forgotten(m).flag = m.flag /\ Forgotten(m).sub = m.sub
      /\ Forgotten(m).ready = m.ready
  BY DEF Forgotten, JobRecords
<1>3. /\ Dated(m).status = m.status /\ Dated(m).sub = m.sub
      /\ \A j \in Jobs :
           IF j \in Ready(m) THEN Dated(m).flag[j] = FALSE
           ELSE Dated(m).flag[j] = m.flag[j] /\ Dated(m).ready[j] = m.ready[j]
  BY DEF Dated, JobRecords
<1>4. Ready(Dated(m)) = Ready(m) /\ Ready(m) \subseteq Jobs
  BY <1>3 DEF Ready, InState
<1> QED
  BY <1>1, <1>2, <1>3, <1>4 DEF Logged, Unflagged, Flagged

\* What the search for logs does to them.
LEMMA CheckFlags ==
  ASSUME NEW m \in JobRecords, Flagged(m, local)
  PROVE  Flagged(LogsChecked(m), local) /\ Flagged(HandedOver(m), local)
<1> DEFINE n == LogsChecked(m)
<1>1. /\ n.status = m.status /\ n.sub = m.sub /\ n.ready = m.ready
      /\ \A j \in Jobs :
           n.flag[j] = (m.flag[j] \/ (j \in Unlogged(m) /\ LogIsRecovered(m, j)))
  BY DEF LogsChecked, JobRecords
<1>2. Ready(n) = Ready(m) /\ Ready(m) \subseteq Jobs /\ Ready(m) \cap Unlogged(m) = {}
  BY <1>1 DEF Ready, Unlogged, InState
<1>3. Flagged(n, local)
  BY <1>1, <1>2 DEF Flagged, Logged, Unflagged, LogIsRecovered
<1>4. n \in JobRecords
  BY FlagTypes
<1>5. /\ HandedOver(m).status = n.status /\ HandedOver(m).sub = n.sub
      /\ HandedOver(m).ready = n.ready
      /\ \A j \in Jobs :
           HandedOver(m).flag[j] = (n.flag[j] \/ (j \in Unlogged(n) /\ n.sub[j] = 0))
  BY <1>4 DEF HandedOver, JobRecords
<1>6. Ready(HandedOver(m)) = Ready(n) /\ Ready(n) \cap Unlogged(n) = {}
  BY <1>5 DEF Ready, Unlogged, InState
<1> HIDE DEF n
<1>7. \A j \in Jobs : n.sub[j] \in Nat
  BY <1>4 DEF JobRecords
<1>8. Logged(HandedOver(m), local)
  <2> SUFFICES ASSUME NEW j \in Jobs, HandedOver(m).flag[j], HandedOver(m).sub[j] > 0
               PROVE  \E f \in local : f.job = j /\ f.stamp >= HandedOver(m).ready[j]
    BY DEF Logged
  <2>1. n.sub[j] > 0 /\ n.sub[j] # 0
    BY <1>5, <1>7
  <2>2. n.flag[j]
    BY <1>5, <2>1
  <2> QED
    BY <1>3, <1>5, <2>1, <2>2 DEF Flagged, Logged
<1>9. Unflagged(HandedOver(m))
  <2> SUFFICES ASSUME NEW j \in Ready(HandedOver(m)) PROVE ~HandedOver(m).flag[j]
    BY DEF Unflagged
  <2>1. j \in Ready(n) /\ j \in Jobs /\ j \notin Unlogged(n)
    BY <1>2, <1>6
  <2> QED
    BY <1>3, <1>5, <2>1 DEF Flagged, Unflagged
<1> QED
  BY <1>3, <1>8, <1>9 DEF Flagged, n

\* What their submission does to them.
LEMMA SubmitFlags ==
  ASSUME NEW m \in JobRecords, Flagged(m, local)
  PROVE  Flagged(Submitted(m), local)
<1>1. /\ Submitted(m).flag = m.flag /\ Submitted(m).ready = m.ready
      /\ \A j \in Jobs : j \notin Ready(m) => /\ Submitted(m).sub[j] = m.sub[j]
                                              /\ Submitted(m).status[j] = m.status[j]
      /\ \A j \in Ready(m) : Submitted(m).status[j] = "RUNNING"
  BY DEF Submitted, JobRecords, Ready, InState
<1>2. Ready(Submitted(m)) = {}
  BY <1>1 DEF Ready, InState
<1> QED
  BY <1>1, <1>2 DEF Flagged, Logged, Unflagged

\* A new status that is not READY does nothing to them.
LEMMA StatusFlags ==
  ASSUME NEW m \in JobRecords, Flagged(m, local), NEW j \in Jobs, NEW s, s # "READY"
  PROVE  Flagged([m EXCEPT !.status[j] = s], local)
<1> DEFINE n == [m EXCEPT !.status[j] = s]
<1>1. /\ n.flag = m.flag /\ n.ready = m.ready /\ n.sub = m.sub
      /\ \A k \in Jobs : n.status[k] = IF k = j THEN s ELSE m.status[k]
  BY DEF JobRecords
<1> HIDE DEF n
<1>2. Ready(n) \subseteq Ready(m)
  BY <1>1 DEF Ready, InState
<1>3. Flagged(n, local)
  BY <1>1, <1>2 DEF Flagged, Logged, Unflagged
<1> QED
  BY <1>3 DEF n

\* Log files are never removed.
LEMMA FilesGrow ==
  ASSUME NEW i, Retrieved(i) \/ NotRetrieved(i)
  PROVE  local \subseteq local'
BY DEF Retrieved, NotRetrieved, Downloaded, fileVars

LEMMA FlagsOfMore ==
  ASSUME NEW m, NEW L, NEW M, L \subseteq M, Flagged(m, L)
  PROVE  Flagged(m, M)
BY DEF Flagged, Logged

\* FlagsKept is inductive.
LEMMA FlagsNext == TypeOK /\ FlagsKept /\ [Next]_vars => FlagsKept'
<1> SUFFICES ASSUME TypeOK, FlagsKept, [Next]_vars PROVE FlagsKept'
  OBVIOUS
<1>a. mem \in JobRecords /\ disk \in JobRecords
  BY DEF TypeOK
<1>b. /\ Flagged(mem, local) /\ Logged(mem, local)
      /\ Flagged(disk, local) /\ Logged(disk, local)
  BY DEF FlagsKept, Flagged
<1>c. SUFFICES Flagged(mem', local') /\ Flagged(disk', local')
  BY DEF FlagsKept
<1>1. CASE UNCHANGED <<mem, disk, local>>
  BY <1>1, <1>b
<1>2. CASE Start
  <2>1. Forgotten(disk) \in JobRecords /\ Logged(Forgotten(disk), local)
    BY <1>a, <1>b, ListTypes, UpdateFlags DEF TypeOK
  <2>2. disk' = Dated(Forgotten(disk)) /\ mem' = HandedOver(disk') /\ local' = local
    BY <1>2, Zenon DEF Start, LoadUpdateSave, fileVars
  <2>3. disk' \in JobRecords /\ Flagged(disk', local)
    BY <2>1, <2>2, ListTypes, UpdateFlags DEF TypeOK
  <2> QED
    BY <2>2, <2>3, CheckFlags
<1>3. CASE \E j \in Jobs : UpdateStatus(j)
  <2>1. PICK j \in Jobs : UpdateStatus(j)
    BY <1>3
  <2>2. PICK s \in {"RUNNING", "COMPLETED", "FAILED", "UNKNOWN"} :
          mem' = [mem EXCEPT !.status[j] = s]
    BY <2>1 DEF UpdateStatus
  <2>3. disk' = disk /\ local' = local
    BY <2>1 DEF UpdateStatus, fileVars
  <2>4. Flagged([mem EXCEPT !.status[j] = s], local)
    BY <1>a, <1>b, StatusFlags
  <2> QED
    BY <1>b, <2>2, <2>3, <2>4
<1>4. CASE UpdateAndSave
  <2>1. Retried(mem) \in JobRecords /\ Logged(Retried(mem), local)
    BY <1>a, <1>b, ListTypes, UpdateFlags DEF TypeOK
  <2>2. mem' = Dated(Retried(mem)) /\ disk' = mem' /\ local' = local
    BY <1>4, Zenon DEF UpdateAndSave, fileVars
  <2> QED
    BY <2>1, <2>2, UpdateFlags
<1>5. CASE Submit
  <2>1. mem' = Submitted(mem) /\ disk' = mem' /\ local' = local
    BY <1>5, Zenon DEF Submit
  <2> QED
    BY <1>a, <1>b, <2>1, SubmitFlags
<1>6. CASE Recover
  <2>1. Forgotten(disk) \in JobRecords /\ Logged(Forgotten(disk), local)
    BY <1>a, <1>b, ListTypes, UpdateFlags DEF TypeOK
  <2>2. disk' = Dated(Forgotten(disk)) /\ mem' = disk' /\ local' = local
    BY <1>6, Zenon DEF Recover, LoadUpdateSave, fileVars
  <2> QED
    BY <2>1, <2>2, UpdateFlags
<1>7. CASE Sleep \/ ReturnOnExit \/ EndRun \/ Join \/ Leave \/ Kill
  <2>1. /\ mem' \in {mem, disk, LogsChecked(mem)} /\ disk' \in {mem, disk, mem'}
        /\ local' = local
    BY <1>7 DEF Sleep, ReturnOnExit, EndRun, Join, Leave, Kill, fileVars
  <2>2. Flagged(LogsChecked(mem), local)
    BY <1>a, <1>b, CheckFlags
  <2> QED
    BY <1>b, <2>1, <2>2
<1>8. CASE ChildTakes \/ ChildRetries \/ OrphanRetrieves
  <2>1. \E i : Retrieved(i) \/ NotRetrieved(i)
    BY <1>8 DEF ChildTakes, ChildRetries, OrphanRetrieves
  <2>2. mem' = mem /\ disk' = disk
    BY <1>8 DEF ChildTakes, ChildRetries, OrphanRetrieves, childUnchanged
  <2>3. local \subseteq local'
    BY <2>1, FilesGrow
  <2> QED
    BY <1>b, <2>2, <2>3, FlagsOfMore
<1>9. CASE \/ StartIteration \/ Report \/ Critical \/ Signal \/ ChildWakes
           \/ ChildTimesOut \/ ChildDrained \/ ChildEndsPass \/ ChildDies \/ OrphanEnds
  <2>1. UNCHANGED <<mem, disk, local>>
    BY <1>9 DEF StartIteration, Report, Critical, Signal, ChildWakes, ChildTimesOut,
                ChildDrained, ChildEndsPass, ChildDies, OrphanEnds, childUnchanged,
                fileVars
  <2> QED
    BY <1>1, <2>1
<1>10. CASE UNCHANGED vars
  BY <1>1, <1>10 DEF vars
<1> QED
  BY <1>2, <1>3, <1>4, <1>5, <1>6, <1>7, <1>8, <1>9, <1>10
  DEF Next, RunLoop, Child, Outside

\* A job whose log is recorded has one that is not older than its ready date, in
\* memory and in the saved list, after every restart and reload.
THEOREM FlagsAreTrue == Spec => []FlagHasLog
<1>1. Init => FlagsKept
  BY DEF Init, FlagsKept, Flagged, Logged, Unflagged, Ready, InState
<1>2. FlagsKept => FlagHasLog
  BY DEF FlagsKept, Flagged, Logged, FlagHasLog
<1> QED
  BY <1>1, <1>2, LogTypesCorrect, FlagsNext, PTL DEF Spec

-----------------------------------------------------------------------------
(* No finished job is forgotten.                                           *)

\* Where an item that was handed over can be.
Held == Range(queue) \cup PendingItems \cup done \cup gone

Logless(m, L, j) ==
  /\ m.status[j] \in {"COMPLETED", "FAILED"}
  /\ ~m.flag[j]
  /\ m.sub[j] > 0
  /\ ~(m.ready[j] > 0 /\ \E f \in L : f.job = j /\ f.stamp >= m.ready[j])

\* Every finished job of m without a log among L is one of the items of H.
AccountedIn(m, L, H) == \A j \in Jobs : Logless(m, L, j) => Item(m, j) \in H

Running == pc \in {"head", "check", "submit", "sleep", "join", "report"}

\* The saved list is accounted for as well, which a reload and the load of a
\* list after a job that ended again have to find.
AccountInv == Running => AccountedIn(mem, local, Held) /\ AccountedIn(disk, local, Held)

\* More log files and more items account for no fewer jobs.
LEMMA AccountGrows ==
  ASSUME NEW m, NEW L, NEW M, NEW H, NEW K, L \subseteq M, H \subseteq K,
         AccountedIn(m, L, H)
  PROVE  AccountedIn(m, M, K)
BY DEF AccountedIn, Logless

\* What update_list, the submission and the search for logs do to a list that is
\* accounted for.
LEMMA AccountOfList ==
  ASSUME NEW m \in JobRecords, NEW H, AccountedIn(m, local, H)
  PROVE  /\ AccountedIn(Retried(m), local, H)
         /\ AccountedIn(Forgotten(m), local, H)
         /\ AccountedIn(Dated(m), local, H)
         /\ AccountedIn(Submitted(m), local, H)
         /\ AccountedIn(LogsChecked(m), local, H)
<1>1. AccountedIn(Retried(m), local, H)
  <2>1. /\ Retried(m).flag = m.flag /\ Retried(m).sub = m.sub
        /\ Retried(m).ready = m.ready
        /\ \A j \in Jobs : Retried(m).status[j] \in {"COMPLETED", "FAILED"} =>
             /\ Retried(m).status[j] = m.status[j]
             /\ Retried(m).fails[j] = m.fails[j]
    BY DEF Retried, JobRecords, InState
  <2> QED
    BY <2>1 DEF AccountedIn, Logless, Item
<1>2. AccountedIn(Forgotten(m), local, H)
  <2>1. /\ Forgotten(m).flag = m.flag /\ Forgotten(m).sub = m.sub
        /\ Forgotten(m).ready = m.ready /\ Forgotten(m).status = m.status
        /\ \A j \in Jobs : Forgotten(m).status[j] \in {"COMPLETED", "FAILED"} =>
             Forgotten(m).fails[j] = m.fails[j]
    BY DEF Forgotten, JobRecords, InState, Ready
  <2> QED
    BY <2>1 DEF AccountedIn, Logless, Item
<1>3. AccountedIn(Dated(m), local, H)
  <2>1. /\ Dated(m).status = m.status /\ Dated(m).sub = m.sub
        /\ Dated(m).fails = m.fails
        /\ \A j \in Jobs : Dated(m).status[j] \in {"COMPLETED", "FAILED"} =>
             /\ Dated(m).flag[j] = m.flag[j]
             /\ Dated(m).ready[j] = m.ready[j]
    BY DEF Dated, JobRecords, InState, Ready
  <2> QED
    BY <2>1 DEF AccountedIn, Logless, Item
<1>4. AccountedIn(Submitted(m), local, H)
  <2>1. /\ Submitted(m).flag = m.flag /\ Submitted(m).ready = m.ready
        /\ Submitted(m).fails = m.fails
        /\ \A j \in Jobs : Submitted(m).status[j] \in {"COMPLETED", "FAILED"} =>
             /\ Submitted(m).status[j] = m.status[j]
             /\ Submitted(m).sub[j] = m.sub[j]
    BY DEF Submitted, JobRecords, InState, Ready
  <2> QED
    BY <2>1 DEF AccountedIn, Logless, Item
<1>5. AccountedIn(LogsChecked(m), local, H)
  <2> DEFINE n == LogsChecked(m)
  <2>1. /\ n.status = m.status /\ n.sub = m.sub /\ n.ready = m.ready /\ n.fails = m.fails
        /\ \A j \in Jobs : m.flag[j] => n.flag[j]
    BY DEF LogsChecked, JobRecords
  <2> HIDE DEF n
  <2>2. AccountedIn(n, local, H)
    BY <2>1 DEF AccountedIn, Logless, Item
  <2> QED
    BY <2>2 DEF n
<1> QED
  BY <1>1, <1>2, <1>3, <1>4, <1>5

\* A list that was handed over: what it lacks is in the queue.
LEMMA AccountOfHandOver ==
  ASSUME NEW m \in JobRecords, NEW q \in QueuesOf(m)
  PROVE  /\ AccountedIn(m, local, Range(q))
         /\ AccountedIn(HandedOver(m), local, Range(q))
<1> DEFINE n == LogsChecked(m)
<1>1. /\ n.status = m.status /\ n.sub = m.sub /\ n.ready = m.ready /\ n.fails = m.fails
      /\ \A j \in Jobs :
           n.flag[j] = (m.flag[j] \/ (j \in Unlogged(m) /\ LogIsRecovered(m, j)))
      /\ n \in JobRecords
  BY FlagTypes DEF LogsChecked, JobRecords
<1> HIDE DEF n
<1>2. ToHandOver(m) = {j \in Unlogged(n) : m.sub[j] > 0}
  BY DEF ToHandOver, n
<1>3. \A j \in Jobs : Logless(m, local, j) => j \in ToHandOver(m)
  BY <1>1, <1>2 DEF Logless, Unlogged, InState, LogIsRecovered
<1>4. PICK order \in SetToSeqs(ToHandOver(m)) :
        q = [k \in DOMAIN order |-> Item(m, order[k])]
  BY DEF QueuesOf
<1>5. \A j \in ToHandOver(m) : \E k \in DOMAIN order : order[k] = j
  <2>1. IsFiniteSet(ToHandOver(m))
    BY LogsAssumption, FS_Subset DEF ToHandOver, Unlogged, InState
  <2>2. Cardinality(ToHandOver(m)) \in Nat
    BY <2>1, FS_CardinalityType
  <2>3. /\ order \in [1..Cardinality(ToHandOver(m)) -> ToHandOver(m)]
        /\ \A x, y \in 1..Cardinality(ToHandOver(m)) : order[x] = order[y] => x = y
    BY <1>4 DEF SetToSeqs
  <2>4. order \in Injection(1..Cardinality(ToHandOver(m)), ToHandOver(m))
    BY <2>3 DEF Injection, IsInjective
  <2>5. IsFiniteSet(1..Cardinality(ToHandOver(m)))
        /\ Cardinality(1..Cardinality(ToHandOver(m))) = Cardinality(ToHandOver(m))
    BY <2>2, FS_Interval
  <2>6. order \in Surjection(1..Cardinality(ToHandOver(m)), ToHandOver(m))
    BY <2>1, <2>4, <2>5, FS_Injection
  <2>7. DOMAIN order = 1..Cardinality(ToHandOver(m))
    BY <2>3
  <2> QED
    BY <2>6, <2>7 DEF Surjection
<1>6. AccountedIn(m, local, Range(q))
  <2> SUFFICES ASSUME NEW j \in Jobs, Logless(m, local, j) PROVE Item(m, j) \in Range(q)
    BY DEF AccountedIn
  <2>1. PICK k \in DOMAIN order : order[k] = j
    BY <1>3, <1>5
  <2> QED
    BY <1>4, <2>1 DEF Range
<1>7. /\ HandedOver(m).status = m.status /\ HandedOver(m).sub = m.sub
      /\ HandedOver(m).ready = m.ready /\ HandedOver(m).fails = m.fails
      /\ \A j \in Jobs : m.flag[j] => HandedOver(m).flag[j]
  <2>1. /\ HandedOver(m).status = n.status /\ HandedOver(m).sub = n.sub
        /\ HandedOver(m).ready = n.ready /\ HandedOver(m).fails = n.fails
        /\ \A j \in Jobs : n.flag[j] => HandedOver(m).flag[j]
    BY <1>1 DEF HandedOver, JobRecords, n
  <2> QED
    BY <1>1, <2>1
<1>8. AccountedIn(HandedOver(m), local, Range(q))
  BY <1>6, <1>7 DEF AccountedIn, Logless, Item
<1> QED
  BY <1>6, <1>8

\* What the child does with an item, or its end, takes none away.
LEMMA HeldByChild ==
  ASSUME TypeOK, ChildTakes \/ ChildRetries \/ ChildDies
  PROVE  Held \subseteq Held' /\ local \subseteq local'
<1>1. CASE ChildTakes
  <2>1. PICK i \in {Head(queue)} :
          /\ Retrieved(i) \/ NotRetrieved(i)
          /\ \/ done' = done \cup {i} /\ pend' = pend
             \/ pend' = pend \cup {[item |-> i, tries |-> 1]} /\ done' = done
    BY <1>1 DEF ChildTakes
  <2>2. queue \in Seq(Items) /\ queue # <<>> /\ queue' = Tail(queue) /\ gone' = gone
    BY <1>1 DEF ChildTakes, TypeOK
  <2>3. Range(queue) \subseteq Range(Tail(queue)) \cup {Head(queue)}
    <3> SUFFICES ASSUME NEW k \in DOMAIN queue, k # 1
                 PROVE  queue[k] \in Range(Tail(queue))
      BY <2>2 DEF Range
    <3>1. k - 1 \in DOMAIN Tail(queue) /\ Tail(queue)[k - 1] = queue[k]
      BY <2>2
    <3> QED
      BY <3>1 DEF Range
  <2>4. /\ PendingItems \subseteq PendingItems'
        /\ i \in PendingItems' \/ i \in done'
        /\ done \subseteq done'
    <3>1. CASE done' = done \cup {i} /\ pend' = pend
      BY <3>1 DEF PendingItems
    <3>2. CASE pend' = pend \cup {[item |-> i, tries |-> 1]} /\ done' = done
      <4>1. [item |-> i, tries |-> 1].item = i
        OBVIOUS
      <4> QED
        BY <3>2, <4>1 DEF PendingItems
    <3> QED
      BY <2>1, <3>1, <3>2
  <2>5. local \subseteq local'
    BY <2>1, FilesGrow
  <2> QED
    BY <2>1, <2>2, <2>3, <2>4, <2>5 DEF Held
<1>2. CASE ChildRetries
  <2>1. PICK p \in pend :
          /\ Retrieved(p.item) \/ NotRetrieved(p.item)
          /\ \/ pend' = pend \ {p} /\ done' = done \cup {p.item}
             \/ /\ pend' = (pend \ {p}) \cup Kept(p)
                /\ done' = IF Kept(p) = {} THEN done \cup {p.item} ELSE done
    BY <1>2 DEF ChildRetries
  <2>2. queue' = queue /\ gone' = gone
    BY <1>2 DEF ChildRetries
  <2>3. done \subseteq done' /\ (p.item \in done' \/ p.item \in PendingItems')
    BY <2>1 DEF Kept, PendingItems
  <2>4. PendingItems \subseteq PendingItems' \cup {p.item}
    BY <2>1 DEF PendingItems
  <2>5. local \subseteq local'
    BY <2>1, FilesGrow
  <2> QED
    BY <2>2, <2>3, <2>4, <2>5 DEF Held
<1>3. CASE ChildDies
  BY <1>3 DEF ChildDies, Held, PendingItems, childUnchanged, fileVars
<1> QED
  BY <1>1, <1>2, <1>3

\* AccountInv is inductive.
LEMMA AccountNext == TypeOK /\ AccountInv /\ [Next]_vars => AccountInv'
<1> SUFFICES ASSUME TypeOK, AccountInv, [Next]_vars, Running'
             PROVE  AccountedIn(mem', local', Held') /\ AccountedIn(disk', local', Held')
  BY DEF AccountInv
<1>a. mem \in JobRecords /\ disk \in JobRecords
  BY DEF TypeOK
<1>b. ASSUME Running
      PROVE  AccountedIn(mem, local, Held) /\ AccountedIn(disk, local, Held)
  BY <1>b DEF AccountInv
<1>1. CASE Start
  <2>1. Forgotten(disk) \in JobRecords
    BY <1>a, ListTypes DEF TypeOK
  <2>2. /\ disk' = Dated(Forgotten(disk)) /\ mem' = HandedOver(disk')
        /\ local' = local /\ queue' \in QueuesOf(disk')
    BY <1>1, Zenon DEF Start, LoadUpdateSave, fileVars
  <2>3. disk' \in JobRecords
    BY <2>1, <2>2, ListTypes DEF TypeOK
  <2>4. /\ AccountedIn(disk', local, Range(queue'))
        /\ AccountedIn(HandedOver(disk'), local, Range(queue'))
    BY <2>2, <2>3, AccountOfHandOver
  <2>5. Range(queue') \subseteq Held'
    BY DEF Held
  <2> QED
    BY <2>2, <2>4, <2>5, AccountGrows
<1>2. CASE StartIteration
  <2>1. Running /\ UNCHANGED <<mem, disk, local>>
    BY <1>2 DEF StartIteration, Running, fileVars
  <2>2. Held \subseteq Held'
    BY <1>2 DEF StartIteration, Held, PendingItems
  <2> QED
    BY <1>b, <2>1, <2>2, AccountGrows
<1>3. CASE \E j \in Jobs : UpdateStatus(j)
  <2>1. PICK j \in Jobs : UpdateStatus(j)
    BY <1>3
  <2>2. PICK s \in {"RUNNING", "COMPLETED", "FAILED", "UNKNOWN"} :
          /\ mem' = [mem EXCEPT !.status[j] = s]
          /\ queue' = IF s = "RUNNING" THEN queue ELSE Append(queue, Item(mem, j))
    BY <2>1 DEF UpdateStatus
  <2>3. Running /\ UNCHANGED <<disk, local, pend, done, gone>>
    BY <2>1 DEF UpdateStatus, Running, fileVars, childVars
  <2>4. Range(queue) \subseteq Range(queue') /\ (s # "RUNNING" => Item(mem, j) \in Range(queue'))
    <3>1. queue \in Seq(Items) /\ Item(mem, j) \in Items
      BY <1>a, ItemType DEF TypeOK
    <3> QED
      BY <2>2, <3>1 DEF Range
  <2>5. Held \subseteq Held' /\ (s # "RUNNING" => Item(mem, j) \in Held')
    BY <2>3, <2>4 DEF Held, PendingItems
  <2>6. /\ mem'.flag = mem.flag /\ mem'.ready = mem.ready /\ mem'.sub = mem.sub
        /\ mem'.fails = mem.fails
        /\ \A k \in Jobs : mem'.status[k] = IF k = j THEN s ELSE mem.status[k]
    BY <1>a, <2>2 DEF JobRecords
  <2>7. AccountedIn(mem', local, Held')
    BY <1>b, <2>3, <2>5, <2>6 DEF AccountedIn, Logless, Item
  <2>8. AccountedIn(disk, local, Held')
    BY <1>b, <2>3, <2>5, AccountGrows
  <2> QED
    BY <2>3, <2>7, <2>8
<1>4. CASE UpdateAndSave \/ Submit \/ Sleep \/ Recover \/ EndRun \/ Join
  <2>1. Running /\ UNCHANGED <<local, queue, pend, done, gone>>
    BY <1>4 DEF UpdateAndSave, Submit, Sleep, Recover, EndRun, Join, Running, fileVars,
                childVars
  <2>2. Held' = Held
    BY <2>1 DEF Held, PendingItems
  <2>3. /\ mem' \in {Dated(Retried(mem)), Submitted(mem), LogsChecked(mem), mem,
                     Dated(Forgotten(disk))}
        /\ disk' \in {mem', disk}
    BY <1>4, Zenon DEF UpdateAndSave, Submit, Sleep, Recover, EndRun, Join, LoadUpdateSave
  <2>4. /\ Retried(mem) \in JobRecords /\ Forgotten(disk) \in JobRecords
        /\ AccountedIn(Retried(mem), local, Held)
        /\ AccountedIn(Forgotten(disk), local, Held)
    BY <1>a, <1>b, <2>1, ListTypes, AccountOfList DEF TypeOK
  <2>5. AccountedIn(mem', local, Held)
    BY <1>a, <1>b, <2>1, <2>3, <2>4, AccountOfList
  <2> QED
    BY <1>b, <2>1, <2>2, <2>3, <2>5
<1>5. CASE ChildTakes \/ ChildRetries \/ ChildDies
  <2>1. Running /\ UNCHANGED <<mem, disk>>
    BY <1>5 DEF ChildTakes, ChildRetries, ChildDies, childUnchanged, runVars, Running
  <2>2. Held \subseteq Held' /\ local \subseteq local'
    BY <1>5, HeldByChild
  <2> QED
    BY <1>b, <2>1, <2>2, AccountGrows
<1>6. CASE OrphanRetrieves
  <2>1. \E i : Retrieved(i) \/ NotRetrieved(i)
    BY <1>6 DEF OrphanRetrieves
  <2>2. Running /\ UNCHANGED <<mem, disk, queue, pend, done, gone>>
    BY <1>6 DEF OrphanRetrieves, runVars, childVars, Running
  <2>3. local \subseteq local' /\ Held \subseteq Held'
    BY <2>1, <2>2, FilesGrow DEF Held, PendingItems
  <2> QED
    BY <1>b, <2>2, <2>3, AccountGrows
<1>7. CASE \/ Signal \/ ChildWakes \/ ChildTimesOut \/ ChildDrained \/ ChildEndsPass
           \/ OrphanEnds \/ UNCHANGED vars
  <2>1. Running /\ UNCHANGED <<mem, disk, local, queue, pend, done, gone>>
    BY <1>7 DEF Signal, ChildWakes, ChildTimesOut, ChildDrained, ChildEndsPass,
                OrphanEnds, childUnchanged, fileVars, runVars, childVars, vars, Running
  <2>2. Held' = Held
    BY <2>1 DEF Held, PendingItems
  <2> QED
    BY <1>b, <2>1, <2>2
<1>8. CASE ReturnOnExit \/ Critical \/ Report \/ Leave \/ Kill
  <2>1. ~Running'
    BY <1>8 DEF ReturnOnExit, Critical, Report, Leave, Kill, Leaving, Running
  <2> QED
    BY <2>1
<1> QED
  BY <1>1, <1>2, <1>3, <1>4, <1>5, <1>6, <1>7, <1>8
  DEF Next, RunLoop, Child, Outside

\* While a run is on, a finished job whose log is not recorded and not found was
\* handed over in this run, whatever stopped, failed or was loaded again.
THEOREM NoJobForgotten == Spec => []Accounted
<1>1. Init => AccountInv
  BY DEF Init, AccountInv, Running
<1>2. TypeOK /\ AccountInv => Accounted
  <2> SUFFICES ASSUME TypeOK, AccountInv, Running, NEW j \in Unlogged(LogsChecked(mem)),
                      mem.sub[j] > 0
               PROVE  Item(mem, j) \in Held
    BY DEF Accounted, Running, Held
  <2>1. mem \in JobRecords
    BY DEF TypeOK
  <2>2. /\ LogsChecked(mem).status = mem.status
        /\ \A k \in Jobs : LogsChecked(mem).flag[k] =
             (mem.flag[k] \/ (k \in Unlogged(mem) /\ LogIsRecovered(mem, k)))
    BY <2>1 DEF LogsChecked, JobRecords
  <2>3. j \in Jobs /\ Logless(mem, local, j)
    BY <2>2 DEF Unlogged, InState, Logless, LogIsRecovered
  <2> QED
    BY <2>3 DEF AccountInv, AccountedIn
<1> QED
  BY <1>1, <1>2, LogTypesCorrect, AccountNext, PTL DEF Spec
==============================================================================
