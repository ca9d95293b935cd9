---------------------------- MODULE JobPackager ----------------------------
(***************************************************************************)
(* Which jobs an iteration of the main loop submits, and in which packages:*)
(* the limits of the platform, the wrappers (packages of several jobs with *)
(* one id) and the policy for jobs that do not fill a wrapper.             *)
(*                                                                         *)
(* Code: JobPackager, JobPackagerVertical(Mixed) and JobPackagerHorizontal *)
(* (autosubmit/job/job_packager.py); Autosubmit.submit_ready_jobs and      *)
(* check_deadlock (autosubmit/autosubmit.py); the part of                  *)
(* JobList.update_list that releases and retries jobs.                     *)
(*                                                                         *)
(* Every submission succeeds and its jobs run in the order of the package: *)
(* what can go wrong there is the subject of JobList.  Vertical and        *)
(* horizontal wrappers, one platform that allows them, no jobs to run      *)
(* first (TWO_STEP_START), no held jobs, no delayed retrials.              *)
(***************************************************************************)
EXTENDS JobStatus, Integers, SequencesExt

CONSTANTS
  JobSeq,       \* JobList._job_list: the jobs in the order of the list
  Parents,      \* Job._parents: [Jobs -> SUBSET Jobs]
  Section,      \* Job.section
  Priority,     \* Job.priority: position of the section in jobs.yml, from 1
  SameMember,   \* get_ordered_jobs_by_date_member, for a job: the jobs of its
                \* wrapper with its date and member, by chunk
  Wrappers,     \* the names in WRAPPERS, in the order of the configuration
  InWrapper,    \* JOBS_IN_WRAPPER: [wrapper -> set of sections]
  WrapperType,  \* TYPE: [wrapper -> {"vertical", "horizontal"}]
  MinWrapped, MaxWrapped,   \* MIN_WRAPPED, MAX_WRAPPED: [wrapper -> Nat]
  MaxOfSection, \* MAX_WRAPPED of a section: [section -> Nat]
  Wallclock,    \* WALLCLOCK of a job, in the unit of the platform's limit
  MaxWallclock, \* max_wallclock of the platform
  Processors,   \* processors of a job
  MaxProcessors,\* max_processors of the platform
  TotalJobs, MaxWaiting,    \* TOTAL_JOBS, MAX_WAITING_JOBS of the platform
  SectionTotal, SectionWaiting,  \* the same for the jobs of a section
  Retrials,     \* RETRIALS
  Policies,     \* the policies an instance looks at
  MaxFailures   \* how many jobs fail (bound)

Jobs == Range(JobSeq)

\* create refuses a workflow without jobs.
ASSUME WorkflowAssumption ==
  /\ JobSeq \in Seq(Jobs) /\ JobSeq # <<>> /\ IsInjective(JobSeq)
  /\ Parents \in [Jobs -> SUBSET Jobs]
  /\ SameMember \in [Jobs -> Seq(Jobs)]
  /\ Priority \in [Jobs -> Nat \ {0}]
  /\ Wallclock \in [Jobs -> Nat] /\ Processors \in [Jobs -> Nat]

ASSUME WrapperAssumption ==
  /\ Wrappers \in Seq(Range(Wrappers)) /\ IsInjective(Wrappers)
  /\ "SIMPLE" \notin Range(Wrappers)
  /\ WrapperType \in [Range(Wrappers) -> {"vertical", "horizontal"}]
  /\ MinWrapped \in [Range(Wrappers) -> Nat]
  /\ MaxWrapped \in [Range(Wrappers) -> Nat \ {0}]
  /\ Policies \subseteq {"flexible", "strict", "mixed"}

ASSUME LimitAssumption ==
  /\ TotalJobs \in Nat /\ MaxWaiting \in Nat
  /\ \A j \in Jobs : SectionTotal[Section[j]] \in Nat /\ SectionWaiting[Section[j]] \in Nat
  /\ Retrials \in Nat /\ MaxFailures \in Nat

VARIABLES
  policy,    \* POLICY of the wrappers, fixed by the configuration
  status,    \* Job.status
  fails,     \* Job.fail_count
  wtype,     \* Job.wrapper_type
  subs,      \* the packages on the platform, oldest first, with their
             \* unfinished jobs in the order of the package
  stopped,   \* AutosubmitCritical was raised
  failures   \* how many jobs failed so far

vars == <<policy, status, fails, wtype, subs, stopped, failures>>

\* FoldLeft of SequencesExt, with every intermediate value computed once: the
\* rounds below use theirs many times.
Through(op(_, _), base, seq) ==
  LET f[n \in 0..Len(seq)] ==
        IF n = 0 THEN base
        ELSE CHOOSE v \in {op(acc, seq[n]) : acc \in {f[n - 1]}} : TRUE
  IN f[Len(seq)]

\* The elements of seq that are in S, in their order.
Keep(S, acc, x) == IF x \in S THEN Append(acc, x) ELSE acc
Among(seq, S) == Through(LAMBDA acc, x : Keep(S, acc, x), <<>>, seq)

Min2(x, y) == IF x < y THEN x ELSE y
Max2(x, y) == IF x < y THEN y ELSE x

-----------------------------------------------------------------------------
(* JobList.update_list.                                                    *)

ParentsCompleted(s, j) == \A p \in Parents[j] : s[p] = "COMPLETED"

\* A job that was in a vertical wrapper has spent its retrials there.
Spent(j) ==
  IF status[j] = "FAILED" /\ wtype[j] = "vertical" THEN Retrials ELSE fails[j]

Retried == {j \in Jobs : status[j] = "FAILED" /\ Spent(j) < Retrials}

UpdatedFails ==
  [j \in Jobs |-> IF j \in Retried THEN fails[j] + 1 ELSE Spent(j)]

\* A retried job whose parents are not COMPLETED is WAITING first, and so is
\* every job that waits: they are released by the same rule.
UpdatedStatus ==
  [j \in Jobs |->
     IF j \notin Retried /\ status[j] # "WAITING" THEN status[j]
     ELSE IF ParentsCompleted(status, j) THEN "READY" ELSE "WAITING"]

-----------------------------------------------------------------------------
(* The limits.                                                             *)

OnPlatform(j) == {i \in DOMAIN subs : j \in Range(subs[i].jobs)}

\* Ids of the jobs with a status; the jobs of a package share one.
IdsWith(st) == UNION {OnPlatform(j) : j \in {k \in Jobs : status[k] = st}}
Queuing == Cardinality(IdsWith("QUEUING"))
Running == Cardinality(IdsWith("RUNNING"))
WaitingIds == Cardinality(IdsWith("SUBMITTED")) + Queuing

RoomToWait == MaxWaiting - WaitingIds
RoomToRun == Max2(0, TotalJobs - Queuing - Running)

\* What a section may still submit, by its own limits where it has some.
SectionRoom(s) ==
  Max2(0, Min2(IF SectionWaiting[s] # MaxWaiting
               THEN SectionWaiting[s] - WaitingIds ELSE RoomToWait,
               IF SectionTotal[s] # TotalJobs
               THEN SectionTotal[s] - Queuing - Running ELSE RoomToRun))

-----------------------------------------------------------------------------
(* The candidates of an iteration, of statuses st.                         *)

TopPriority == Max({Priority[j] : j \in Jobs})
WithPriority(n) == Among(JobSeq, {j \in Jobs : Priority[j] = n})

\* From the highest priority, and in the order of the list within one.
AndThen(acc, n) == acc \o WithPriority(n)
Priorities == [i \in 1..TopPriority |-> TopPriority + 1 - i]
ByPriority == Through(LAMBDA acc, n : AndThen(acc, n), <<>>, Priorities)

ReadyJobs(st) == {j \in Jobs : st[j] = "READY"}
Ready(st) == Among(JobSeq, ReadyJobs(st))

\* The first wrapper that lists the section of the job, else "SIMPLE".
WrapperOf(j) ==
  LET its == {i \in DOMAIN Wrappers : Section[j] \in InWrapper[Wrappers[i]]}
  IN IF its = {} THEN "SIMPLE" ELSE Wrappers[Min(its)]

InVertical(j) ==
  WrapperOf(j) \in Range(Wrappers) /\ WrapperType[WrapperOf(j)] = "vertical"

\* What vertical wrappers are for: the jobs of a member in one of them follow
\* each other.
Chained ==
  \A j \in Jobs : InVertical(j) =>
    LET c == SameMember[j]
    IN /\ j \in Range(c) /\ IsInjective(c)
       /\ \A k \in Range(c) : SameMember[k] = c /\ WrapperOf(k) = WrapperOf(j)
       /\ \A n \in 2..Len(c) : c[n - 1] \in Parents[c[n]]

ReadyOf(st, w) ==
  Among(ByPriority, {j \in ReadyJobs(st) : WrapperOf(j) = w})

\* The section whose limits build_packages still holds when it submits:
\* section_jobs_to_submit is replaced for each section it meets.
LastSection(st) == Section[Last(Ready(st))]

-----------------------------------------------------------------------------
(* Building the packages of a wrapper.                                     *)

\* Mutant: the parents are not looked at.
WrappableBeforeParents(st, j, pack, packing) ==
  j \notin packing /\ st[j] \in {"WAITING", "READY", "PREPARED", "DELAYED"}

\* JobPackagerVerticalMixed._is_wrappable, for the package built so far.
Wrappable(st, j, pack, packing) ==
  /\ j \notin packing
  /\ st[j] \in {"WAITING", "READY", "PREPARED", "DELAYED"}
  /\ \A p \in Parents[j] : p \in Range(pack) \/ st[p] = "COMPLETED"

\* JobPackagerVertical.build_vertical_package: one pass over the jobs of the
\* member, from job j.  Only what is added to a package is marked as packed.
Fits(w, pack) ==
  /\ Len(pack) < MaxWrapped[w]
  /\ Len(pack) < MaxOfSection[Section[Last(pack)]]

VerticalStep(st, w, acc, child) ==
  IF ~acc.open \/ ~Fits(w, acc.pack) \/ child = Last(acc.pack)
     \/ ~Wrappable(st, child, acc.pack, acc.packing) THEN acc
  ELSE IF acc.wall + Wallclock[child] > MaxWallclock
       THEN [acc EXCEPT !.open = FALSE]
       ELSE [acc EXCEPT !.pack = Append(@, child),
                        !.packing = @ \cup {child},
                        !.wall = @ + Wallclock[child]]

VerticalPackage(st, w, j, packing) ==
  Through(LAMBDA acc, child : VerticalStep(st, w, acc, child),
          [pack |-> <<j>>, packing |-> packing, wall |-> Wallclock[j], open |-> TRUE],
          SameMember[j])

\* JobPackager._build_vertical_packages
VerticalPackagesStep(st, w, acc, j) ==
  IF j \in acc.packing THEN acc
  ELSE LET v == VerticalPackage(st, w, j, acc.packing)
       IN [built |-> Append(acc.built, v.pack), packing |-> v.packing]

VerticalPackages(st, w, ready) ==
  Through(LAMBDA acc, j : VerticalPackagesStep(st, w, acc, j),
          [built |-> <<>>, packing |-> {}], ready).built

\* JobPackagerHorizontal.build_horizontal_package.  It goes section by section,
\* which is the order of the candidates: a priority is that of one section.
HorizontalStep(w, acc, j) ==
  IF \/ Len(acc.pack) >= MaxWrapped[w]
     \/ Cardinality({i \in DOMAIN acc.pack : Section[acc.pack[i]] = Section[j]})
           >= MaxOfSection[Section[j]]
     \/ acc.procs + Processors[j] > MaxProcessors
  THEN acc
  ELSE [pack |-> Append(acc.pack, j), procs |-> acc.procs + Processors[j]]

HorizontalPackage(w, ready) ==
  Through(LAMBDA acc, j : HorizontalStep(w, acc, j), [pack |-> <<>>, procs |-> 0], ready).pack

HorizontalPackages(w, ready) ==
  LET pack == HorizontalPackage(w, ready) IN IF pack = <<>> THEN <<>> ELSE <<pack>>

BuiltPackages(st, w) ==
  LET ready == ReadyOf(st, w)
      packs == IF WrapperType[w] = "vertical"
               THEN VerticalPackages(st, w, ready)
               ELSE HorizontalPackages(w, ready)
  IN [i \in DOMAIN packs |-> [jobs |-> packs[i], type |-> WrapperType[w]]]

-----------------------------------------------------------------------------
(* What the policy makes of them.  A round of build_packages is a record:  *)
(* the packages to submit, the room that is left, the jobs in              *)
(* wrappers_with_error, and the wrapper_type of every job.                 *)

Alone(j) == [jobs |-> <<j>>, type |-> "simple"]

\* The round goes on after a package is submitted.
Submit(r, p, types) ==
  [packs |-> Append(r.packs, p), room |-> r.room - 1, errors |-> r.errors, wtype |-> types]

AddAlone(r, j) == Submit(r, Alone(j), r.wtype)

WithType(types, S, t) == [j \in Jobs |-> IF j \in S THEN t ELSE types[j]]

\* real_min: a wrapper of one job is none.
Enough(w, p) == Len(p.jobs) >= Max2(2, MinWrapped[w])

HasFailed(fs, p) == \E j \in Range(p.jobs) : fs[j] > 0

\* check_packages_respect_wrapper_policy, for one package.  Only the packages
\* of vertical wrappers carry their type (JobPackageThread.wrapper_type).
Accepted(r, p) ==
  Submit(r, p, WithType(r.wtype, Range(p.jobs),
                        IF p.type = "vertical" THEN "vertical" ELSE "none"))

\* acc = [r |-> the round, left |-> the packages that cannot be wrapped]
SieveStep(fs, w, acc, p) ==
  IF acc.r.room = 0 THEN acc
  ELSE IF Enough(w, p) /\ ~HasFailed(fs, p)
       THEN [acc EXCEPT !.r = Accepted(@, p)]
       ELSE [acc EXCEPT !.left = Append(@, p)]

Sieve(r, fs, w, built) ==
  Through(LAMBDA acc, p : SieveStep(fs, w, acc, p), [r |-> r, left |-> <<>>], built)

\* is_deadlock
Deadlock(st, anySimple, left, built) ==
  /\ ~anySimple
  /\ \A j \in Jobs : st[j] \notin InQueueStatus
  /\ Len(left) = Len(built)

\* get_jobs_by_section: jobs of the wrapper's sections, outside the package,
\* that are not COMPLETED.
MoreToWrap(st, w, p) ==
  \E j \in Jobs \ Range(p.jobs) :
     Section[j] \in InWrapper[w] /\ st[j] # "COMPLETED"

\* submit_remaining_jobs
SubmitRemaining(r, p) ==
  IF Len(p.jobs) = 1
  THEN Submit(r, Alone(p.jobs[1]), WithType(r.wtype, Range(p.jobs), "Simple"))
  ELSE Submit(r, p, r.wtype)

\* READY jobs of the package, one by one, while there is room.
OneByOneStep(acc, j) == IF acc.room = 0 THEN acc ELSE AddAlone(acc, j)

OneByOne(r, jobs) == Through(LAMBDA acc, j : OneByOneStep(acc, j), r, jobs)

InError(r, p) == [r EXCEPT !.errors = @ \cup Range(p.jobs)]

\* Mutant: what cannot be sent is left for later, with no error.
HandleMixedSilently(r, st, fs, p) ==
  IF r.room = 0 THEN r
  ELSE OneByOne(r, Among(p.jobs, {j \in ReadyJobs(st) : fs[j] > 0}))

\* handle_mixed_policy: only what has failed before is sent alone.
HandleMixed(r, st, fs, p) ==
  LET failed == Among(p.jobs, {j \in ReadyJobs(st) : fs[j] > 0})
  IN IF failed = <<>> \/ r.room = 0 THEN InError(r, p) ELSE OneByOne(r, failed)

\* process_not_wrappeable_packages
ProcessStep(st, fs, w, acc, p) ==
  CASE ~MoreToWrap(st, w, p) -> SubmitRemaining(acc, p)
    [] MoreToWrap(st, w, p) /\ policy = "strict" -> InError(acc, p)
    [] MoreToWrap(st, w, p) /\ policy = "mixed" -> HandleMixed(acc, st, fs, p)
    [] OTHER -> OneByOne(acc, Among(p.jobs, ReadyJobs(st)))

ProcessLeft(r, st, fs, w, left) ==
  Through(LAMBDA acc, p : ProcessStep(st, fs, w, acc, p), r, left)

WrapperRound(r, st, fs, anySimple, w) ==
  LET built == BuiltPackages(st, w)
      sieved == Sieve(r, fs, w, built)
  IN IF r.room = 0 \/ ReadyOf(st, w) = <<>> THEN r
     ELSE IF Deadlock(st, anySimple, sieved.left, built)
          THEN ProcessLeft(sieved.r, st, fs, w, sieved.left)
          ELSE sieved.r

\* The jobs outside wrappers: those of the last section count against the
\* limits of that section, the others against the room that is left.
SimpleStep(last, acc, j) ==
  LET seen == [acc.r EXCEPT !.wtype = WithType(@, {j}, "Simple")]
  IN IF acc.closed THEN acc
     ELSE IF Section[j] = last
     THEN IF acc.own <= 0 THEN [acc EXCEPT !.r = seen]
          ELSE [r |-> AddAlone(seen, j), own |-> acc.own - 1, closed |-> FALSE]
     ELSE IF acc.r.room <= 0 THEN [r |-> seen, own |-> acc.own, closed |-> TRUE]
          ELSE [acc EXCEPT !.r = AddAlone(seen, j)]

SimpleRound(r, st) ==
  LET last == LastSection(st)
  IN Through(LAMBDA acc, j : SimpleStep(last, acc, j),
             [r |-> r, own |-> SectionRoom(last), closed |-> FALSE],
             ReadyOf(st, "SIMPLE")).r

WrapperRounds(start, st, fs, anySimple) ==
  Through(LAMBDA r, w : WrapperRound(r, st, fs, anySimple, w), start, Wrappers)

\* build_packages
BuildPackages(st, fs) ==
  LET anySimple == ReadyOf(st, "SIMPLE") # <<>>
      start == [packs |-> <<>>, room |-> Min2(RoomToWait, RoomToRun),
                errors |-> {}, wtype |-> wtype]
  IN IF Ready(st) = <<>> \/ RoomToWait <= 0 \/ RoomToRun = 0 THEN start
     ELSE SimpleRound(WrapperRounds(start, st, fs, anySimple), st)

-----------------------------------------------------------------------------
(* The main loop.                                                          *)

Init ==
  /\ policy \in Policies
  /\ status = [j \in Jobs |-> "WAITING"]
  /\ fails = [j \in Jobs |-> 0]
  /\ wtype = [j \in Jobs |-> "none"]
  /\ subs = <<>>
  /\ stopped = FALSE
  /\ failures = 0

\* JobList.get_active: the loop goes on while there are such jobs.
Active == \E j \in Jobs : UpdatedStatus[j] \in ActiveStatus

\* Mutant: the queue as it was before the submission.
StuckBefore(errors, st, sent) ==
  errors # {} /\ \A j \in Jobs : st[j] \notin InQueueStatus

\* check_deadlock: no wrapper could be formed, and nothing is in the queue.
Stuck(errors, st, sent) ==
  errors # {} /\ sent = {} /\ \A j \in Jobs : st[j] \notin InQueueStatus

\* update_list, then submit_ready_jobs with check_deadlock at its end.
Iterate ==
  /\ ~stopped /\ Active
  /\ \E st \in {UpdatedStatus} : \E r \in {BuildPackages(st, UpdatedFails)} :
       LET sent == UNION {Range(r.packs[i].jobs) : i \in DOMAIN r.packs}
       IN /\ status' = [j \in Jobs |-> IF j \in sent THEN "SUBMITTED" ELSE st[j]]
          /\ fails' = UpdatedFails
          /\ wtype' = r.wtype
          /\ subs' = subs \o r.packs
          /\ stopped' = Stuck(r.errors, st, sent)
          /\ UNCHANGED <<policy, failures>>

-----------------------------------------------------------------------------
(* The packages on the platform, as the checks of the loop see them.       *)

Without(S) ==
  LET left == [i \in DOMAIN subs |-> [subs[i] EXCEPT !.jobs = Among(@, Jobs \ S)]]
  IN Among(left, {p \in Range(left) : p.jobs # <<>>})

\* The whole package changes from one of the statuses.
Package(i, from, to) ==
  /\ ~stopped
  /\ \A j \in Range(subs[i].jobs) : status[j] \in from
  /\ status' = [j \in Jobs |-> IF j \in Range(subs[i].jobs) THEN to ELSE status[j]]
  /\ UNCHANGED <<policy, fails, wtype, subs, stopped, failures>>

Queues(i) == Package(i, {"SUBMITTED"}, "QUEUING")

SimpleStarts(i) ==
  subs[i].type = "simple" /\ Package(i, {"SUBMITTED", "QUEUING"}, "RUNNING")

\* WrapperJob.check_status finds the wrapper RUNNING: its jobs are QUEUING
\* until each is seen to run; a vertical wrapper runs them one after the other.
InnerStarts(i) ==
  LET p == subs[i]
      inner == Range(p.jobs)
      begun == \E j \in inner : status[j] = "RUNNING"
  IN /\ ~stopped /\ p.type # "simple"
     /\ p.type = "vertical" => ~begun
     /\ \E j \in IF p.type = "vertical" THEN {p.jobs[1]} ELSE inner :
          /\ status[j] \in {"SUBMITTED", "QUEUING"}
          /\ status' = [k \in Jobs |-> IF k = j THEN "RUNNING"
                                       ELSE IF k \in inner /\ status[k] = "SUBMITTED"
                                            THEN "QUEUING" ELSE status[k]]
     /\ UNCHANGED <<policy, fails, wtype, subs, stopped, failures>>

Completes(j) ==
  /\ ~stopped /\ status[j] = "RUNNING"
  /\ status' = [status EXCEPT ![j] = "COMPLETED"]
  /\ subs' = Without({j})
  /\ UNCHANGED <<policy, fails, wtype, stopped, failures>>

\* Mutant: what a vertical wrapper had still to run stays as it is.
FailsAlone(i) ==
  /\ ~stopped /\ failures < MaxFailures
  /\ failures' = failures + 1
  /\ \E j \in Range(subs[i].jobs) :
       /\ status[j] = "RUNNING"
       /\ status' = [status EXCEPT ![j] = "FAILED"]
       /\ subs' = Without(IF subs[i].type = "vertical" THEN Range(subs[i].jobs) ELSE {j})
  /\ UNCHANGED <<policy, fails, wtype, stopped>>

\* A job alone, or in a horizontal wrapper, fails by itself.  A vertical one
\* ends with the job: cancel_failed_wrapper_job makes the rest WAITING again
\* (nothing reads the fail_count it sets in the COMPLETED ones).
Fails(i) ==
  /\ ~stopped /\ failures < MaxFailures
  /\ failures' = failures + 1
  /\ \E j \in Range(subs[i].jobs) :
       LET gone == IF subs[i].type = "vertical" THEN Range(subs[i].jobs) ELSE {j}
       IN /\ status[j] = "RUNNING"
          /\ status' = [k \in Jobs |-> IF k = j THEN "FAILED"
                                       ELSE IF k \in gone /\ status[k] # "COMPLETED"
                                            THEN "WAITING" ELSE status[k]]
          /\ fails' = [fails EXCEPT ![j] = IF subs[i].type = "vertical"
                                              /\ wtype[j] = "vertical"
                                           THEN Retrials ELSE @]
          /\ subs' = Without(gone)
  /\ UNCHANGED <<policy, wtype, stopped>>

Platform ==
  \/ \E i \in DOMAIN subs : Queues(i) \/ SimpleStarts(i) \/ InnerStarts(i) \/ Fails(i)
  \/ \E j \in Jobs : Completes(j)

Terminated == (stopped \/ ~Active) /\ UNCHANGED vars

Next == Iterate \/ Platform \/ Terminated

Spec == Init /\ [][Next]_vars

-----------------------------------------------------------------------------
(* Properties.                                                             *)

\* Every field keeps the values the code can give it: fail_count never passes
\* RETRIALS, whatever mixes of packages a job went through.
TypeOK ==
  /\ policy \in Policies
  /\ status \in [Jobs -> Status]
  /\ fails \in [Jobs -> 0..Retrials]
  /\ wtype \in [Jobs -> {"none", "Simple", "vertical"}]
  /\ \A i \in DOMAIN subs : /\ subs[i].jobs \in Seq(Jobs) \ {<<>>}
                            /\ subs[i].type \in {"simple", "vertical", "horizontal"}
  /\ stopped \in BOOLEAN
  /\ failures \in 0..MaxFailures

\* The packages an iteration submits.
Sent == SubSeq(subs', Len(subs) + 1, Len(subs'))

\* A job is submitted only when each of its parents is COMPLETED or comes
\* before it in the same vertical wrapper, whatever the order of the jobs in
\* the list, their sections and their chunks; and never when it is COMPLETED or
\* in the queue already.
InOrder ==
  [][\A i \in DOMAIN Sent : \A k \in DOMAIN Sent[i].jobs :
       LET j == Sent[i].jobs[k]
       IN /\ status[j] \notin InQueueStatus \cup {"COMPLETED"}
          /\ \A p \in Parents[j] :
               \/ status[p] = "COMPLETED"
               \/ /\ Sent[i].type = "vertical"
                  /\ \E l \in 1..(k - 1) : Sent[i].jobs[l] = p]_vars

\* "the job shouldn't have been packed already" (job_packager.py:878 and 955): a
\* job that is in the queue is in one package and once in it, and any other job
\* in none, however packages are built, fail and are cancelled.
OncePerJob ==
  /\ \A j \in Jobs : Cardinality(OnPlatform(j))
                        = IF status[j] \in InQueueStatus THEN 1 ELSE 0
  /\ \A i \in DOMAIN subs : IsInjective(subs[i].jobs)

\* An iteration that finds the platform empty and jobs READY has packages to
\* submit, or an error that stops it: the loop never turns for nothing.  (Said of
\* the state before it, since an iteration for nothing is a stuttering step.)
NeverIdle ==
  ~stopped /\ subs = <<>> /\ Ready(UpdatedStatus) # <<>> =>
    LET r == BuildPackages(UpdatedStatus, UpdatedFails)
    IN r.packs # <<>> \/ r.errors # {}

\* The deadlock is raised only when no READY job may be submitted alone: they
\* all belong to wrappers, whose policy is not flexible.
DeadlockIsReal ==
  stopped => /\ policy # "flexible"
             /\ subs = <<>>
             /\ ReadyOf(status, "SIMPLE") = <<>>
=============================================================================
