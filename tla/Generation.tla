----------------------------- MODULE Generation -----------------------------
(***************************************************************************)
(* From the JOBS of the configuration to the graph of the jobs: one job    *)
(* for every date, member and chunk of its section, and an edge for every  *)
(* dependency that is not redundant.                                       *)
(*                                                                         *)
(* Code: JobList.generate and what it calls (autosubmit/job/job_list.py),  *)
(* DicJobs (autosubmit/job/job_dict.py), transitive_reduction              *)
(* (autosubmit/job/job_utils.py), Job.add_parent and add_children          *)
(* (autosubmit/job/job.py).                                                *)
(*                                                                         *)
(* Dates and members are their positions in DATELIST and MEMBERS (their    *)
(* names sort as they are listed); a dimension a job lacks (None) is 0.    *)
(* A dependency is "natural", as the code calls it, or has filters         *)
(* (DATES_FROM, ..., CHUNKS_TO).  Left out: splits, the status a           *)
(* dependency may wait for, and filters on keys of the section itself.     *)
(* FREQUENCY makes no edges: handle_frequency_interval_dependencies looks  *)
(* at Job.frequency, which nothing sets.                                   *)
(***************************************************************************)
EXTENDS Integers, SequencesExt

CONSTANT Configurations  \* the experiments an instance looks at

VARIABLES
  config,       \* the configuration, read once
  phase,        \* the next step of generate
  dic,          \* DicJobs._dic: [section -> [cell -> set of jobs]]
  todo,         \* the jobs whose dependencies are still to be added
  onPrevious,   \* actual_job_depends_on_previous_chunk
  selected,     \* depends_on_previous_special_section: [jobs -> sets of parents]
  edges,        \* graph.edges: pairs <<parent, child>>
  problematic,  \* problematic_jobs: [jobs -> sets of parents]
  parents,      \* Job._parents, and so Job._children
  list,         \* JobList._job_list
  status        \* Job.status: [jobs -> "READY", "WAITING", "COMPLETED"]

vars == <<config, phase, dic, todo, onPrevious, selected, edges, problematic, parents, list, status>>

-----------------------------------------------------------------------------
(* The jobs of a section: DicJobs.                                         *)

ChunkList(w) == w.chunkIni .. w.numChunks

\* FREQUENCY: every n-th position of the level and the last one.
Chosen(position, total, frequency) == position % frequency = 0 \/ position = total

Job(section, date, member, chunk) ==
  [section |-> section, date |-> date, member |-> member, chunk |-> chunk]

At(j) == [date |-> j.date, member |-> j.member, chunk |-> j.chunk]
Nowhere == [date |-> 0, member |-> 0, chunk |-> 0]

CreateJobsOnce(s) == {Job(s, 0, 0, 0)}

CreateJobsStartdate(w, s) ==
  {Job(s, x, 0, 0) : x \in {y \in 1..w.dates : Chosen(y, w.dates, w.frequency[s])}}

CreateJobsMember(w, s) ==
  {Job(s, x, y, 0) : x \in 1..w.dates,
                     y \in {z \in 1..w.members : Chosen(z, w.members, w.frequency[s])}}

\* DELAY leaves the first chunks out; SYNCHRONIZE makes one job of those of
\* all members, or of all dates and members.
CreateJobsChunk(w, s) ==
  LET chunks == {x \in ChunkList(w) :
                   /\ w.delay[s] = -1 \/ w.delay[s] < x
                   /\ Chosen(x - w.chunkIni + 1, Cardinality(ChunkList(w)), w.frequency[s])}
      dates == IF w.synchronize[s] = "date" THEN {0} ELSE 1..w.dates
      members == IF w.synchronize[s] = "" THEN 1..w.members ELSE {0}
  IN {Job(s, x, y, z) : x \in dates, y \in members, z \in chunks}

ReadSection(w, s) ==
  CASE w.running[s] = "once" -> CreateJobsOnce(s)
    [] w.running[s] = "date" -> CreateJobsStartdate(w, s)
    [] w.running[s] = "member" -> CreateJobsMember(w, s)
    [] w.running[s] = "chunk" -> CreateJobsChunk(w, s)

JobsOf(w) == UNION {ReadSection(w, w.sections[i]) : i \in DOMAIN w.sections}

\* The cells of a section in the dictionary: by date, by member below it, by
\* chunk below that; a synchronised job is in the cells of all its members.
Cells(w, s) ==
  LET level == w.running[s]
      jobs == ReadSection(w, s)
  IN [date : IF level = "once" THEN {0}
             ELSE IF level = "date" THEN {j.date : j \in jobs} ELSE 1..w.dates,
      member : IF level = "member" THEN {j.member : j \in jobs}
               ELSE IF level = "chunk" THEN 1..w.members ELSE {0},
      chunk : {j.chunk : j \in jobs}]

Matches(x, y) ==
  /\ x.date = 0 \/ y.date \in {0, x.date}
  /\ x.member = 0 \/ y.member \in {0, x.member}
  /\ x.chunk = 0 \/ y.chunk \in {0, x.chunk}

FirstDic(w) ==
  [s \in Range(w.sections) |->
     [c \in Cells(w, s) |-> {j \in ReadSection(w, s) : Matches(c, At(j))}]]

\* What is not given, and what the jobs of the section lack, is not compared.
GetJobs(d, s, at) == UNION {d[s][c] : c \in {x \in DOMAIN d[s] : Matches(at, x)}}

\* sort_string: by chunk first.
Before(j, k) ==
  \/ j.chunk < k.chunk
  \/ j.chunk = k.chunk /\ j.date < k.date
  \/ j.chunk = k.chunk /\ j.date = k.date /\ j.member < k.member

SortedSection(w, s) ==
  LET jobs == ReadSection(w, s)
  IN [i \in 1..Cardinality(jobs) |->
        CHOOSE j \in jobs : Cardinality({k \in jobs : Before(k, j)}) = i - 1]

-----------------------------------------------------------------------------
(* What one dependency key points to.                                      *)

\* The level a key with a distance shifts: the chunk when both jobs have
\* one, or else the member, or else the date
\* ("startdate" is no value of RUNNING).
Shifted(w, j, k) ==
  LET running == w.running[k.section]
  IN CASE j.chunk # 0 /\ running = "chunk" -> "chunk"
       [] ~ (j.chunk # 0 /\ running = "chunk") /\ j.member # 0 /\ running \in {"chunk", "member"} -> "member"
       [] j.member = 0 /\ ~ (j.chunk # 0 /\ running = "chunk")
          /\ j.date # 0 /\ running \in {"chunk", "member", "startdate"} -> "date"
       [] OTHER -> "none"

\* A mutant: positions counted from 1.
NthChunkFromOne(w, i) == w.chunkIni + i - 1

\* The chunk at position i of chunk_list, from 0; past its end there is none
\* (IndexError).
NthChunk(w, i) == w.chunkIni + i

\* The nearest chunk not past the last one, for a distance forward.
Forward(w, chunk, distance) ==
  IF chunk + distance <= w.numChunks THEN chunk + distance ELSE w.numChunks

\* _calculate_dependency_metadata: the date, member and chunk a key refers
\* to as a singleton, {} when there is none (skip).
DependencyMetadata(w, j, k) ==
  LET at == At(j) shifted == Shifted(w, j, k) n == k.distance
  IN CASE k.sign = "" \/ shifted = "none" -> {at}
       [] k.sign = "-" /\ shifted = "chunk" ->
            IF j.chunk - 1 >= n THEN {[at EXCEPT !.chunk = NthChunk(w, j.chunk - 1 - n)]} ELSE {}
       [] k.sign = "-" /\ shifted = "member" ->
            IF j.member > n THEN {[at EXCEPT !.member = @ - n]} ELSE {}
       [] k.sign = "-" /\ shifted = "date" ->
            IF j.date > n THEN {[at EXCEPT !.date = @ - n]} ELSE {}
       [] k.sign = "+" /\ shifted = "chunk" ->
            {[at EXCEPT !.chunk = Forward(w, @, n)]}
       [] k.sign = "+" /\ shifted = "member" ->
            IF j.member + n <= w.members THEN {[at EXCEPT !.member = @ + n]} ELSE {}
       [] k.sign = "+" /\ shifted = "date" ->
            IF j.date + n <= w.dates
            THEN {[at EXCEPT !.date = ((@ - 1 - n) % w.dates) + 1]} ELSE {}

-----------------------------------------------------------------------------
(* The maps of dependencies between sections.                              *)

\* A dependency without filters.
Absent == [words |-> {}, values |-> {}]
NoTo == [date |-> Absent, member |-> Absent, chunk |-> Absent]
NoFilter == [from |-> "", to |-> NoTo, ranges |-> <<>>]

Keys(w, s) == Range(w.deps[s])
SelfDependent(w, s) == \E k \in Keys(w, s) : k.section = s

\* The section s names t without a distance.
Names(w, s, t) == \E k \in Keys(w, s) : k.section = t /\ k.sign = ""

\* _deep_map_dependencies: the sections a section depends on, directly or not.
Reached(w, s) ==
  LET step[n \in 0..Len(w.sections)] ==
        IF n = 0 THEN {s}
        ELSE LET before == step[n - 1]
             IN before \cup {k.section : k \in UNION {Keys(w, t) : t \in before}}
  IN step[Len(w.sections)]

\* dependency_map, without the keys of the section itself that have no
\* distance, and dependency_map_with_distances, as its keys.
DependencyMap(w, s) ==
  {t \in Reached(w, s) : (t = s => SelfDependent(w, s)) /\ ~ Names(w, s, t)}
DistanceMap(w, s) == UNION {Keys(w, t) : t \in Reached(w, s)}

MaxDistance(w, s) == Max({0} \cup {k.distance : k \in DistanceMap(w, s)})

\* distances_of_current_section, for the sections that run by chunk: the
\* last key of the section that names it, raised by those of the others.
Distance(w, s, t) ==
  LET own == SelectSeq(w.deps[s], LAMBDA k : k.section = t)
  IN IF w.running[t] # "chunk" \/ own = <<>> THEN 0
     ELSE Max({own[Len(own)].distance} \cup
              {k.distance : k \in {x \in DistanceMap(w, s) : x.section = t}})

\* dependencies_to_del: what another dependency depends on as well.
ToDelete(w, j) ==
  {k \in Keys(w, j.section) :
     \E a \in {x.section : x \in Keys(w, j.section)} \ {j.section} :
        /\ k.sign = "" /\ k.section # j.section
        /\ \E x \in Keys(w, a) : x.section = k.section /\ x.sign = "" /\ x.filter = NoFilter
        /\ ~ (/\ w.running[j.section] = "chunk" /\ w.delay[a] # -1
              /\ j.chunk <= w.delay[a])}

-----------------------------------------------------------------------------
(* The filters of a dependency.  What one of DATES_TO, MEMBERS_TO and      *)
(* CHUNKS_TO says is [words |-> {} or {"all"}, ..., values |-> positions]; *)
(* a filter is [from |-> the level of its ..._FROM or "", to |-> what it   *)
(* says itself, ranges |-> its parts [of, to, inner]].                     *)

Word(x) == [words |-> {x}, values |-> {}]
Levels == {"date", "member", "chunk"}

\* _unify_to_filter: what is not said is "none"; "none" and "natural" count
\* only when nothing was said before them; nothing is added to "all".
UnifiedWith(said, to) ==
  LET more == IF to = Absent THEN Word("none") ELSE to
  IN IF "all" \in said.words \/ (said # Absent /\ more.words \in {{"none"}, {"natural"}})
     THEN said
     ELSE [words |-> said.words \cup more.words, values |-> said.values \cup more.values]

\* _unify_to_filters and _normalize_to_filters: a lone "none" stays only if
\* there is nothing else.
Unified(tos) ==
  LET after[n \in 0..Len(tos)] ==
        IF n = 0 THEN NoTo
        ELSE [x \in Levels |-> UnifiedWith(after[n - 1][x], tos[n][x])]
      short(c) == IF "all" \in c.words THEN Word("all") ELSE c
      unified == [x \in Levels |-> short(after[Len(tos)][x])]
  IN IF \A x \in Levels : unified[x] = Word("none") THEN unified
     ELSE [x \in Levels |-> IF unified[x] = Word("none") THEN Absent ELSE unified[x]]

\* _check_relationship: the parts that hold for the job; all do on a level
\* that it lacks.
PartsFor(j, f) ==
  SelectSeq(f.ranges, LAMBDA r : "all" \in r.of.words \/ j[f.from] = 0 \/ j[f.from] \in r.of.values)

Updated(to, inner) == [x \in Levels |-> IF inner[x] = Absent THEN to[x] ELSE inner[x]]

\* _check_chunks, _check_members, _check_dates.
CheckChunks(j, f) ==
  IF f.from # "chunk" THEN NoTo
  ELSE LET parts == PartsFor(j, f) IN Unified([i \in DOMAIN parts |-> parts[i].to])
CheckMembers(j, f) ==
  IF f.from # "member" THEN CheckChunks(j, f)
  ELSE LET parts == PartsFor(j, f)
       IN Unified([i \in DOMAIN parts |-> Updated(parts[i].to, CheckChunks(j, parts[i].inner))])
CheckDates(j, f) ==
  IF f.from # "date" THEN CheckMembers(j, f)
  ELSE LET parts == PartsFor(j, f)
       IN Unified([i \in DOMAIN parts |-> Updated(parts[i].to, CheckMembers(j, parts[i].inner))])

\* get_filters_to_apply: none if all that is said is "natural".
FiltersToApply(j, k) ==
  LET said == IF k.filter.from = "" THEN k.filter.to ELSE CheckDates(j, k.filter)
  IN IF \A x \in Levels : said[x] \in {Absent, Word("natural")} THEN NoTo ELSE said

\* What a level of the filter selects among the keys of the dictionary.
Picked(said, all, own) ==
  IF said = Absent THEN own
  ELSE IF "none" \in said.words THEN {}
  ELSE IF "all" \in said.words THEN all
  ELSE said.values \cap all

\* get_jobs_filtered: the cells, by level; without a filter those of the job
\* itself, or all if it runs once or lacks the level.
CellsFiltered(w, d, j, s, to, at) ==
  LET keys(x) == {c[x] : c \in DOMAIN d[s]}
      once == w.running[j.section] = "once"
      own(x) == IF once \/ (j[x] = 0 /\ x # "date") THEN keys(x)
                ELSE IF j[x] \in keys(x) THEN {at[x]} ELSE {}
      below == [once |-> {}, date |-> {"date"}, member |-> {"date", "member"}, chunk |-> Levels]
      picked == [x \in Levels |-> IF x \in below[w.running[s]]
                                  THEN Picked(to[x], keys(x), own(x)) ELSE {0}]
  IN {c \in DOMAIN d[s] : \A x \in Levels : c[x] \in picked[x]}

\* update_jobs_filtered merges what it is given into the dictionary itself:
\* the first date gets the jobs of the other dates selected, and its first
\* member those of the other members.
Merged(w, d, s, picked) ==
  LET first(x) == Min({c[x] : c \in picked})
      dates == {c.date : c \in picked}
      members == {c.member : c \in picked}
      all(c, m) == UNION {d[s][[c EXCEPT !.date = x, !.member = m]] : x \in dates}
  IN IF picked = {} \/ w.running[s] \in {"once", "date"} THEN d
     ELSE [d EXCEPT ![s] =
            [c \in DOMAIN d[s] |->
               IF c.date # first("date") THEN d[s][c]
               ELSE IF w.running[s] = "chunk" /\ c.member = first("member")
               THEN UNION {all(c, m) : m \in members}
               ELSE all(c, c.member)]]

-----------------------------------------------------------------------------
(* The edges of one job: _manage_job_dependencies.                         *)

\* A distance to a chunk that is not the first makes this and every later job
\* of the section one that depends on the previous chunk.
DependsOnPrevious(w, j) ==
  /\ w.running[j.section] = "chunk" /\ j.chunk > 1
  /\ \E k \in Keys(w, j.section) :
       k.distance # 0 /\ (k.section = j.section \/ w.running[k.section] = "chunk")

\* A job without date, member and chunk waits for the last chunk (or member)
\* of a section that depends on itself.
NaturalParents(w, d, j, k, at) ==
  LET last ==
        IF /\ at = Nowhere /\ k.section # j.section
           /\ k.sign = "" /\ SelfDependent(w, k.section)
        THEN CASE w.running[k.section] = "chunk" -> [at EXCEPT !.chunk = w.numChunks]
               [] w.running[k.section] = "member" -> [at EXCEPT !.member = w.members]
               [] OTHER -> at
        ELSE at
  IN GetJobs(d, k.section, last) \ {j}

\* Some section in between depends on this one with the largest distance.
SkippedByDistance(w, s) ==
  \E a \in DependencyMap(w, s) \ {s} :
    \E k \in DistanceMap(w, a) :
      k.section = s /\ k.sign # "" /\ k.distance >= MaxDistance(w, s)

\* The natural parents that get an edge, and those to look at again.
Linked(w, j, k, natural, previous) ==
  LET s == j.section
      own == k.section = s
      far == Distance(w, s, k.section) # 0
      same == w.running[k.section] = w.running[s]
      late(p) == p.chunk > Cardinality(ChunkList(w)) - MaxDistance(w, s)
  IN CASE ~ far /\ own -> [all |-> IF ~ previous /\ s \notin DependencyMap(w, s) THEN natural ELSE {},
                           again |-> {}]
       [] ~ far /\ ~ own ->
            [all |-> IF ~ previous \/ (same /\ w.running[s] \in {"chunk", "member"})
                        \/ (w.running[s] = "chunk" /\ j.chunk = 1) THEN natural ELSE {},
             again |-> {}]
       [] far /\ own ->
            LET linked == IF previous /\ ~ SkippedByDistance(w, s) THEN natural ELSE {}
            IN [all |-> linked, again |-> linked]
       [] far /\ ~ own ->
            [all |-> IF same THEN natural ELSE {p \in natural : w.running[k.section] = "chunk" /\ late(p)},
             again |-> IF same THEN natural ELSE {}]

\* _calculate_natural_dependencies for one key, after the keys before it: a
\* job that still has no edge gets them all.
NaturalDependencies(w, j, k, previous, found) ==
  IF DependencyMetadata(w, j, k) = {} THEN found
  ELSE LET at == CHOOSE x \in DependencyMetadata(w, j, k) : TRUE
           natural == {p \in NaturalParents(w, found.dic, j, k, at) :
                         k.filter = NoFilter \/ ~ Names(w, p.section, j.section)}
           linked == Linked(w, j, k, natural, previous)
           all == found.all \cup linked.all
       IN IF all = {} THEN [found EXCEPT !.all = natural, !.again = @ \cup natural]
          ELSE [found EXCEPT !.all = all, !.again = @ \cup linked.again]

\* _calculate_filter_dependencies for one key: what an earlier job of a
\* section that depends on itself has selected is not selected again.
FilterDependencies(w, j, k, previous, found) ==
  IF DependencyMetadata(w, j, k) = {} THEN found
  ELSE LET at == CHOOSE x \in DependencyMetadata(w, j, k) : TRUE
           to == FiltersToApply(j, k)
           anyAll == \E x \in Levels : to[x] = Word("all")
           cells == CellsFiltered(w, found.dic, j, k.section, to, at)
           chained == anyAll /\ (previous \/ (w.running[k.section] = "chunk" /\ SelfDependent(w, k.section)))
           linked == {p \in UNION {found.dic[k.section][c] : c \in cells} \ {j} :
                        /\ chained => ~ previous /\ p.chunk = w.numChunks
                        /\ p \notin found.selected}
       IN IF \A x \in Levels : to[x] \in {Absent, Word("none")} THEN found
          ELSE [dic |-> Merged(w, found.dic, k.section, cells),
                all |-> found.all \cup linked,
                again |-> IF SelfDependent(w, j.section) THEN found.again \cup linked ELSE found.again,
                selected |-> IF SelfDependent(w, j.section) THEN found.selected \cup linked
                             ELSE found.selected]

\* First the keys with filters for this job, then the natural ones.
ManageJobDependencies(w, d, j, previous, taken) ==
  LET keys == SelectSeq(w.deps[j.section], LAMBDA k : k \notin ToDelete(w, j))
      filtered == SelectSeq(keys, LAMBDA k : FiltersToApply(j, k) # NoTo)
      natural == SelectSeq(keys, LAMBDA k : FiltersToApply(j, k) = NoTo)
      one[n \in 0..Len(filtered)] ==
        IF n = 0 THEN [dic |-> d, all |-> {}, again |-> {}, selected |-> taken]
        ELSE FilterDependencies(w, j, filtered[n], previous, one[n - 1])
      two[n \in 0..Len(natural)] ==
        IF n = 0 THEN one[Len(filtered)]
        ELSE NaturalDependencies(w, j, natural[n], previous, two[n - 1])
  IN two[Len(natural)]

\* chunk_list has no such position: IndexError, and nothing is saved.
PastTheEnd(w, j) ==
  \E k \in Keys(w, j.section) \ ToDelete(w, j) :
    \E at \in DependencyMetadata(w, j, k) : at.chunk > w.numChunks

-----------------------------------------------------------------------------
(* generate, step by step.                                                 *)

Jobs == JobsOf(config)

Init ==
  /\ config \in Configurations
  /\ phase = "jobs"
  /\ dic = <<>> /\ todo = <<>>
  /\ onPrevious = FALSE /\ selected = {}
  /\ edges = {} /\ problematic = <<>>
  /\ parents = <<>> /\ list = {} /\ status = <<>>

\* _create_jobs.
CreateJobs ==
  /\ phase = "jobs"
  /\ phase' = "dependencies"
  /\ dic' = FirstDic(config)
  /\ todo' = FlattenSeq([i \in DOMAIN config.sections |-> SortedSection(config, config.sections[i])])
  /\ parents' = [j \in Jobs |-> {}]
  /\ problematic' = [j \in Jobs |-> {}]
  /\ status' = [j \in Jobs |-> "WAITING"]
  /\ UNCHANGED <<config, onPrevious, selected, edges, list>>

\* What the jobs of a section before this one leave for it.
FirstOfSection(j) == j = SortedSection(config, j.section)[1]
Previous(j) == (onPrevious /\ ~ FirstOfSection(j)) \/ DependsOnPrevious(config, j)
Taken(j) == IF FirstOfSection(j) THEN {} ELSE selected

\* _add_dependencies, one job.
AddDependencies ==
  /\ phase = "dependencies" /\ todo # <<>>
  /\ ~ PastTheEnd(config, Head(todo))
  /\ LET j == Head(todo) IN
     \E found \in {ManageJobDependencies(config, dic, j, Previous(j), Taken(j))} :
       /\ onPrevious' = Previous(j)
       /\ dic' = found.dic
       /\ selected' = found.selected
       /\ edges' = edges \cup {<<p, j>> : p \in found.all}
       /\ problematic' = [problematic EXCEPT
                            ![j] = IF Cardinality(found.again) > 1 THEN found.again ELSE {}]
       /\ todo' = Tail(todo)
  /\ UNCHANGED <<config, phase, parents, list, status>>

GenerateFails ==
  /\ phase = "dependencies" /\ todo # <<>>
  /\ PastTheEnd(config, Head(todo))
  /\ phase' = "failed"
  /\ UNCHANGED <<config, dic, todo, onPrevious, selected, edges, problematic, parents, list, status>>

\* Of two problematic parents, one before the other, the first is redundant.
Redundant ==
  {<<p, j>> \in edges : p \in problematic[j] /\ \E q \in problematic[j] : <<p, q>> \in edges}

FindAndDeleteRedundantRelations ==
  /\ phase = "dependencies" /\ todo = <<>>
  /\ phase' = "genealogy"
  /\ edges' = edges \ Redundant
  /\ UNCHANGED <<config, dic, todo, onPrevious, selected, problematic, parents, list, status>>

\* update_genealogy: whatever the jobs had, their parents are those of the graph.
UpdateGenealogy ==
  /\ phase = "genealogy"
  /\ phase' = "members"
  /\ parents' = [j \in Jobs |-> {p \in Jobs : <<p, j>> \in edges}]
  /\ list' = Jobs
  /\ UNCHANGED <<config, dic, todo, onPrevious, selected, edges, problematic, status>>

\* RUN_ONLY_MEMBERS: only the list is filtered; the loops over the parents
\* and the children add what is there already.
OnlyMembers ==
  /\ phase = "members"
  /\ phase' = "edgeless"
  /\ list' = IF config.onlyMembers = {} THEN list
             ELSE {j \in list : j.member = 0 \/ j.member \in config.onlyMembers}
  /\ UNCHANGED <<config, dic, todo, onPrevious, selected, edges, problematic, parents, status>>

HasChildren(j) == \E k \in Jobs : j \in parents[k]

Edgeless ==
  {j \in list : /\ config.deps[j.section] # <<>> /\ j.section \in config.edgeless
                /\ parents[j] = {} /\ ~ HasChildren(j)}

DeleteEdgelessJobs ==
  /\ phase = "edgeless"
  /\ phase' = "statuses"
  /\ list' = IF edges = {} THEN list ELSE list \ Edgeless
  /\ UNCHANGED <<config, dic, todo, onPrevious, selected, edges, problematic, parents, status>>

SetStatuses ==
  /\ phase = "statuses"
  /\ phase' = "generated"
  /\ status' = [j \in list |-> IF parents[j] = {} THEN "READY" ELSE "WAITING"]
  /\ UNCHANGED <<config, dic, todo, onPrevious, selected, edges, problematic, parents, list>>

Next ==
  \/ CreateJobs \/ AddDependencies \/ GenerateFails \/ FindAndDeleteRedundantRelations
  \/ UpdateGenealogy \/ OnlyMembers \/ DeleteEdgelessJobs \/ SetStatuses

Spec == Init /\ [][Next]_vars

-----------------------------------------------------------------------------
(* What the configuration asks for, without the shortcuts of the code.     *)

\* The position a key asks for on the level it shifts, if there is one.
Asked(w, j, k) ==
  LET shift == IF k.sign = "-" THEN 0 - k.distance ELSE k.distance
      running == w.running[k.section]
  IN CASE k.sign = "" \/ At(j) = Nowhere \/ running = "once" -> {At(j)}
       [] OTHER ->
          LET level == IF j.chunk # 0 /\ running = "chunk" THEN "chunk"
                       ELSE IF j.member # 0 /\ running \in {"chunk", "member"} THEN "member"
                       ELSE "date"
          IN IF level = "chunk"
             THEN {[At(j) EXCEPT !.chunk = x] : x \in ChunkList(w) \cap {Min({j.chunk + shift, w.numChunks})}}
             ELSE IF level = "member" THEN {[At(j) EXCEPT !.member = x] : x \in 1..w.members \cap {j.member + shift}}
             ELSE {[At(j) EXCEPT !.date = x] : x \in 1..w.dates \cap {j.date + shift}}

\* What a filter says for a job: one choice for each of its parts that hold,
\* and {} if none does.
Said(j, f) ==
  LET to(r) == IF PartsFor(j, r.inner) = <<>> THEN {r.to}
               ELSE {Updated(r.to, i.to) : i \in Range(PartsFor(j, r.inner))}
  IN IF f.from = "" THEN {f.to} ELSE UNION {to(r) : r \in Range(PartsFor(j, f))}

\* A job of the section that a choice asks for, given where the key points.
Wanted(w, j, to, at, p) ==
  \A x \in Levels :
    \/ p[x] = 0
    \/ "all" \in to[x].words
    \/ p[x] \in to[x].values
    \/ to[x] \in {Absent, Word("natural")} /\ at[x] \in {0, p[x]}

\* What one key declares, and all of them.
DeclaredBy(w, j, k) ==
  LET said == IF Said(j, k.filter) = {} THEN {NoTo} ELSE Said(j, k.filter)
  IN {p \in ReadSection(w, k.section) \ {j} :
        \E to \in said : \E at \in Asked(w, j, k) : Wanted(w, j, to, at, p)}
Declared(w, j) == UNION {DeclaredBy(w, j, k) : k \in Keys(w, j.section)}

\* What generate is known to leave out, wrongly, of what a key declares:
\* a key that another section repeats, when the section names that one only with a
\* distance or a filter (dependencies_to_del in _manage_job_dependencies);
NamesPlainly(w, s, t) ==
  \E k \in Keys(w, s) : k.section = t /\ k.sign = "" /\ k.filter = NoFilter
Bypassed(w, j, k) ==
  /\ k \in ToDelete(w, j)
  /\ \A s \in Range(w.sections) : NamesPlainly(w, j.section, s) => ~ NamesPlainly(w, s, k.section)

\* the chunks before the last ones, for a job that has no chunk, when a key of its section
\* gives a distance and the chunks do not wait for each other;
EarlyChunk(w, j, k, p) ==
  /\ k.section # j.section /\ Distance(w, j.section, k.section) # 0
  /\ w.running[j.section] # "chunk"
  /\ ~ SelfDependent(w, k.section)
  /\ p.chunk <= Cardinality(ChunkList(w)) - MaxDistance(w, j.section)

\* the previous member or date of the section itself, when there is another dependency;
\* and the distance to a section of dates, taken for the date itself
\* (_calculate_dependency_metadata knows "startdate").
OwnPrevious(w, j, k) ==
  k.section = j.section /\ k.sign # "" /\ w.running[j.section] \in {"date", "member"}
DateAway(w, k) == k.sign # "" /\ w.running[k.section] = "date"

\* Positions taken for chunks, with CHUNKINI.
LaterChunks(w, k) == k.sign = "-" /\ w.chunkIni > 1

LeftOut(w, j, k, p) ==
  \/ Bypassed(w, j, k) \/ EarlyChunk(w, j, k, p)
  \/ OwnPrevious(w, j, k) \/ DateAway(w, k) \/ LaterChunks(w, k)

\* The jobs before j along the pairs <<parent, child>>.
Above(pairs, jobs, j) ==
  LET before(S) == {x[1] : x \in {y \in pairs : y[2] \in S}}
      up[S \in SUBSET jobs] ==
        LET more == S \cup before(S) IN IF more = S THEN S ELSE up[more]
  IN up[before({j})]

Generated == phase = "generated"

ParentsIn(pairs, j) == {x[1] : x \in {y \in pairs : y[2] = j}}
Parenthood == UNION {{<<p, j>> : p \in parents[j]} : j \in Jobs}
DeclaredParenthood == UNION {{<<p, j>> : p \in Declared(config, j)} : j \in Jobs}
LeftOutParenthood ==
  UNION {UNION {{<<p, j>> : p \in {x \in DeclaredBy(config, j, k) : LeftOut(config, j, k, x)}}
                : k \in Keys(config, j.section)} : j \in Jobs}

\* The DEPENDENCIES themselves ask for a cycle.
AsksForCycle == \E asked \in {DeclaredParenthood} : \E j \in Jobs : j \in Above(asked, Jobs, j)

DatesAway == \E s \in Range(config.sections) : \E k \in Keys(config, s) : DateAway(config, k)

\* Whatever edges generate leaves out, a job comes after every job its
\* DEPENDENCIES name for it: directly, after another that does, or after one it should
\* wait for but for the pairs of LeftOut.
NothingLost == Generated /\ ~ AsksForCycle =>
  \E asked \in {DeclaredParenthood}, made \in {Parenthood \cup LeftOutParenthood} :
    \A j \in list : ParentsIn(asked, j) \cap list \subseteq Above(made, Jobs, j)

\* No job waits for one that its DEPENDENCIES, followed through the other
\* jobs, do not name (a distance to a section of dates is the exception).
NothingInvented == Generated /\ ~ DatesAway =>
  \E asked \in {DeclaredParenthood} : \A j \in list : parents[j] \subseteq Above(asked, Jobs, j)

\* A job of no member waits for those of every member, also of the members that
\* RUN_ONLY_MEMBERS leaves out.
OfAllMembers(made, j, p) ==
  /\ config.onlyMembers # {} /\ p.member \notin {0} \cup config.onlyMembers
  /\ \E q \in Above(made, Jobs, j) \cup {j} : q.member = 0 /\ p \in Above(made, Jobs, q)

\* No job of the list waits for itself, or for a job that is not in the list and so will
\* never be COMPLETED: the run can come to an end (but with RUN_ONLY_MEMBERS, and where
\* the DEPENDENCIES ask for a cycle or give a distance to a section of dates).
CanFinish == Generated /\ ~ AsksForCycle /\ ~ DatesAway =>
  \E made \in {Parenthood} : \A j \in list : \A p \in Above(made, Jobs, j) :
    p # j /\ (p \in list \/ OfAllMembers(made, j, p))

\* The workflow that is made keeps the order its DEPENDENCIES ask for, but for LeftOut,
\* adds none, and can come to an end, with the exceptions its three parts name.
\* Code: JobList.generate, _manage_job_dependencies.
WorkflowAsAsked == NothingLost /\ NothingInvented /\ CanFinish
=============================================================================
