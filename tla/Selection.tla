------------------------------ MODULE Selection ------------------------------
(***************************************************************************)
(* The jobs a user names by date, member, chunk, section, split, status or *)
(* name: the filters of setstatus, the RERUN_JOBLIST that create keeps of  *)
(* a workflow, and the groups that are shown of the jobs.                  *)
(*                                                                         *)
(* Code: the filters of Autosubmit.set_status and their validation         *)
(* (autosubmit.py); JobList.rerun, parse_jobs_by_filter and                *)
(* get_job_related (job/job_list.py); JobGrouping.                         *)
(*                                                                         *)
(* What follows in set_status is in the module Commands.  A text is given  *)
(* as what it is parsed to; Every is 0: Any for a date, a member or a chunk.      *)
(***************************************************************************)
EXTENDS Grouping

CONSTANTS
  Workflows,  \* [name, jobs, parents, keys]: the list, its edges, the DEPENDENCIES
  Requests,   \* of each workflow's name: what users ask, below
  Statuses    \* of each workflow's name: the statuses of its jobs, functions

VARIABLES
  workflow, request,
  status,   \* of each job
  phase,
  list,     \* JobList._job_list
  parents,  \* Job._parents
  picked,   \* final_list, or rerun_job_list
  todo,     \* jobs that rerun has not come to
  shown     \* what group_jobs answers, or _create_sorted_dict_jobs

vars == <<workflow, request, status, phase, list, parents, picked, todo, shown>>

\* setstatus: sections of -ft, statuses of -fs, names of -fl, a formula of -fc.
\* rerun: names, sections and filters.  group: -group_by, -expand and so on.
Every == 0
NoFormula == <<>>

\* The word Any among the names of -fl.
AnyName == Job("Any", 0, 0, 0, 0, 0, FALSE)

Jobs == Range(list)

Init ==
  /\ workflow \in Workflows
  /\ request \in Requests[workflow.name]
  /\ status \in Statuses[workflow.name]
  /\ phase = request.what
  /\ list = workflow.jobs
  /\ parents = workflow.parents
  /\ picked = {} /\ todo = <<>>
  /\ shown = [jobs |-> <<>>, status |-> <<>>, fails |-> FALSE]

-----------------------------------------------------------------------------
(* The filters of setstatus.                                               *)

Sections == {j.section : j \in Jobs}

\* _validate_section, _validate_list, _validate_status and
\* _validate_chunk_section_split: "Any" passes the first two, and is no status that
\* a job has; a formula is refused for its form alone.
Valid ==
  /\ request.sections \subseteq Sections \cup {"Any"}
  /\ request.names \subseteq Jobs \cup {AnyName}
  /\ request.statuses \subseteq Range(status)
  /\ request.formula # NoFormula => request.formula.wellFormed
  /\ <<request.sections, request.names, request.statuses, request.formula>>
       # <<{}, {}, {}, NoFormula>>

Validate ==
  /\ phase = "select"
  /\ phase' = IF Valid THEN "sections" ELSE "refused"
  /\ UNCHANGED <<workflow, request, status, list, parents, picked, todo, shown>>

\* The text of the list, with its brackets, is compared with ANY: "Any" selects nothing,
\* and in FilterNames neither.
FilterSections ==
  /\ phase = "sections"
  /\ phase' = "formula"
  /\ picked' = {j \in Jobs : j.section \in request.sections}
  /\ UNCHANGED <<workflow, request, status, list, parents, todo, shown>>

\* _split_match.
SplitMatch(j, splits) == Every \in splits \/ j.splits < 2 \/ splits = {} \/ j.split \in splits

\* _filter_sections_splits: it stops when all jobs are there.
FilterSectionsSplits(sections, jobs) ==
  LET of(x) == {j \in jobs : x.section \in {"ANY", j.section} /\ SplitMatch(j, x.splits)}
      after[n \in 0..Len(sections)] ==
        IF n = 0 THEN {}
        ELSE IF n > 1 /\ after[n - 1] = jobs THEN after[n - 1]
        ELSE after[n - 1] \cup of(sections[n])
  IN after[Len(sections)]

Dates(x) == IF x.date = Every THEN DateList ELSE {x.date}
Members(y) == IF y.member = Every THEN MemberList ELSE {y.member}

\* Only the last of the chunks may say Any.
Chunks(y) == IF Last(y.chunks) = Every THEN ChunkList ELSE Range(y.chunks)

Meets(j, dates, members) ==
  (j.date = 0 \/ j.date \in dates) /\ (j.member = 0 \/ j.member \in members)

\* Mutant: the dates and members of the last entry only.
PruneLast(entries, jobs) ==
  {j \in jobs : Meets(j, Dates(Last(entries)), Members(Last(Last(entries).members)))}

\* _filter_chunks: first what is of no date or member of the formula goes.
Prune(entries, jobs) ==
  LET dates == UNION {Dates(x) : x \in Range(entries)}
      members == UNION {UNION {Members(y) : y \in Range(x.members)} : x \in Range(entries)}
  IN {j \in jobs : Meets(j, dates, members)}

FilterChunks(entries, jobs) ==
  UNION {UNION {{j \in Prune(entries, jobs) :
                   /\ Meets(j, Dates(x), Members(y))
                   /\ j.chunk = 0 \/ j.synchronize \/ j.chunk \in Chunks(y)}
                : y \in Range(x.members)} : x \in Range(entries)}

\* member_json[chunks][-1]
NoChunks(entries) == \E x \in Range(entries) : \E y \in Range(x.members) : y.chunks = <<>>

FilterFormula ==
  /\ phase = "formula"
  /\ IF request.formula = NoFormula THEN phase' = "statuses" /\ UNCHANGED picked
     ELSE IF NoChunks(request.formula.entries) THEN phase' = "failed" /\ UNCHANGED picked
     ELSE LET sections == request.formula.sections
              jobs == IF sections = <<>> THEN Jobs ELSE FilterSectionsSplits(sections, Jobs)
          IN phase' = "statuses" /\ picked' = picked \cup FilterChunks(request.formula.entries, jobs)
  /\ UNCHANGED <<workflow, request, status, list, parents, todo, shown>>

FilterStatuses ==
  /\ phase = "statuses"
  /\ phase' = "names"
  /\ picked' = picked \cup {j \in Jobs : status[j] \in request.statuses}
  /\ UNCHANGED <<workflow, request, status, list, parents, todo, shown>>

FilterNames ==
  /\ phase = "names"
  /\ phase' = "picked"
  /\ picked' = picked \cup (Jobs \cap request.names)
  /\ UNCHANGED <<workflow, request, status, list, parents, todo, shown>>

-----------------------------------------------------------------------------
(* create and load_job_list with RERUN: TRUE.                              *)

\* A part [C:...] or [M:...] of a filter: one of members whose text has a c is
\* taken for one of chunks, and no chunk is called so.
OfChunks(part) == part.letter = "C" \/ part.hasC
Found(part) == IF part.letter = "C" THEN part.values ELSE {}

\* The chunks and members of a filter; what it does not say is as in the one
\* before (None: nothing was said yet).
None == [said |-> FALSE, values |-> {}]
Said(values) == [said |-> TRUE, values |-> values]

ReadFilter(before, x) ==
  LET read[n \in 0..Len(x.parts)] ==
        IF n = 0 THEN before
        ELSE LET part == x.parts[n]
             IN IF OfChunks(part) THEN [read[n - 1] EXCEPT !.chunks = Said(Found(part))]
                ELSE [read[n - 1] EXCEPT !.members = Said(part.values)]
  IN read[Len(x.parts)]

Keeps(said, value) == ~said.said \/ value \in said.values

\* The third filter of get_job_related.
RelatedByFilter(filters) ==
  LET read[n \in 0..Len(filters)] ==
        IF n = 0 THEN [chunks |-> None, members |-> None, jobs |-> {}]
        ELSE LET x == filters[n]
                 now == ReadFilter(read[n - 1], x)
                 found == {j \in Jobs : /\ j.section = x.section
                                        /\ j.date \in x.dates \cup {0}
                                        /\ Keeps(now.chunks, j.chunk)
                                        /\ Keeps(now.members, j.member)}
             IN [now EXCEPT !.jobs = @ \cup found]
  IN read[Len(filters)].jobs

\* parse_jobs_by_filter and get_job_related.  A filter without a part fails.
ReadRerun ==
  /\ phase = "rerun"
  /\ IF \E x \in Range(request.filters) : x.parts = <<>>
     THEN phase' = "refused" /\ UNCHANGED <<picked, todo>>
     ELSE /\ phase' = "remove" /\ todo' = list
          /\ picked' = (Jobs \cap request.names) \cup {j \in Jobs : j.section \in request.sections}
                         \cup RelatedByFilter(request.filters)
  /\ UNCHANGED <<workflow, request, status, list, parents, shown>>

\* Mutant: the children of a removed job wait for nothing in its place.
RemoveJobAlone ==
  /\ phase = "remove" /\ todo # <<>>
  /\ todo' = Tail(todo)
  /\ LET j == Head(todo)
     IN IF j \in picked
        THEN status' = [status EXCEPT ![j] = "WAITING"] /\ UNCHANGED <<list, parents>>
        ELSE /\ status' = [status EXCEPT ![j] = "COMPLETED"]
             /\ list' = SelectSeq(list, LAMBDA k : k # j)
             /\ parents' = [k \in DOMAIN parents |-> parents[k] \ {j}]
  /\ UNCHANGED <<workflow, request, phase, picked, shown>>

\* rerun, one job of the list: it is kept to run, or removed (_remove_job).
RemoveJob ==
  /\ phase = "remove" /\ todo # <<>>
  /\ todo' = Tail(todo)
  /\ LET j == Head(todo)
     IN IF j \in picked
        THEN status' = [status EXCEPT ![j] = "WAITING"] /\ UNCHANGED <<list, parents>>
        ELSE /\ status' = [status EXCEPT ![j] = "COMPLETED"]
             /\ list' = SelectSeq(list, LAMBDA k : k # j)
             /\ parents' = [k \in DOMAIN parents |->
                              IF j \in parents[k] THEN (parents[k] \ {j}) \cup parents[j]
                              ELSE parents[k]]
  /\ UNCHANGED <<workflow, request, phase, picked, shown>>

\* chunk_list of the jobs kept, at the position of a key with a distance back;
\* what it points to is set to WAITING, which the jobs kept are already.
PastTheEnd(j) ==
  LET chunks == {k.chunk : k \in Jobs} \ {0}
  IN \E key \in workflow.keys[j.section] :
       /\ key.sign = "-" /\ key.running = "chunk" /\ j.chunk # 0
       /\ j.chunk - 1 >= key.distance
       /\ j.chunk - 1 - key.distance >= Cardinality(chunks)

AddDependencies ==
  /\ phase = "remove" /\ todo = <<>>
  /\ phase' = IF \E j \in Jobs : PastTheEnd(j) THEN "failed" ELSE "rerun made"
  /\ UNCHANGED <<workflow, request, status, list, parents, picked, todo, shown>>

-----------------------------------------------------------------------------
\* JobGrouping, as monitor and the other commands use it.
ShowGroups ==
  /\ phase = "group"
  /\ \E made \in {GroupJobs(list, status, request.by, request.expanded, request.expand)} :
       /\ shown' = made
       /\ phase' = IF made.fails THEN "failed" ELSE "shown"
  /\ UNCHANGED <<workflow, request, status, list, parents, picked, todo>>

-----------------------------------------------------------------------------
(* The jobs of a vertical wrapper, in the order its packages look for them.  *)

\* _create_fake_dates_members: what a job lacks counts as the last there is.
DateOf(j) == IF j.date = 0 THEN Cardinality(DateList) ELSE j.date
MemberOf(j) == IF j.member = 0 THEN Cardinality(MemberList) ELSE j.member

\* Stable, and the jobs without chunk last.
ByChunk(jobs) ==
  LET with(n) == SelectSeq(jobs, LAMBDA j : j.chunk = n)
  IN FlattenSeq([i \in 1..Cardinality(ChunkList) |-> with(i)]) \o with(0)

\* _create_sorted_dict_jobs, for one date and member.  The jobs are sorted until
\* RUNNING changes, and from then on one by one until two sections that follow
\* each other have the same.
WrapOrder(date, member) ==
  LET running == request.running
      jobs == SelectSeq(list, LAMBDA j : /\ j.section \in DOMAIN running
                                         /\ DateOf(j) = date /\ MemberOf(j) = member)
      read[n \in 1..Len(jobs)] ==
        IF n = 1 THEN [out |-> <<>>, batch |-> <<jobs[1]>>, changed |-> FALSE]
        ELSE LET before == read[n - 1]
                 changed == IF jobs[n].section = jobs[n - 1].section THEN before.changed
                            ELSE running[jobs[n].section] # running[jobs[n - 1].section]
             IN [changed |-> changed,
                 out |-> IF changed THEN before.out \o ByChunk(before.batch) ELSE before.out,
                 batch |-> IF changed THEN <<jobs[n]>> ELSE Append(before.batch, jobs[n])]
  IN IF jobs = <<>> THEN <<>> ELSE read[Len(jobs)].out \o ByChunk(read[Len(jobs)].batch)

SortWrapped ==
  /\ phase = "wrap"
  /\ phase' = "sorted"
  /\ \E lists \in {[x \in DateList \X MemberList |-> WrapOrder(x[1], x[2])]} :
       shown' = [shown EXCEPT !.jobs = lists]
  /\ UNCHANGED <<workflow, request, status, list, parents, picked, todo>>

Next ==
  \/ SortWrapped
  \/ Validate \/ FilterSections \/ FilterFormula \/ FilterStatuses \/ FilterNames
  \/ ReadRerun \/ RemoveJob \/ AddDependencies
  \/ ShowGroups

Spec == Init /\ [][Next]_vars

-----------------------------------------------------------------------------
(* Properties *)

\* What a formula names, entry by entry, without the first cut: a job is named
\* if all that it has of a date, a member and a chunk is.
NamedByFormula(j) ==
  /\ request.formula.sections = <<>>
       \/ \E x \in Range(request.formula.sections) :
            x.section \in {"ANY", j.section} /\ (j.splits < 2 \/ x.splits = {} \/ x.splits \cap {Every, j.split} # {})
  /\ \E x \in Range(request.formula.entries) : \E y \in Range(x.members) :
       /\ j.date = 0 \/ x.date \in {Every, j.date}
       /\ j.member = 0 \/ y.member \in {Every, j.member}
       /\ j.chunk = 0 \/ j.synchronize \/ j.chunk \in Range(y.chunks) \/ Last(y.chunks) = Every

NamedApart(j) ==
  \/ j.section \in request.sections
  \/ request.formula # NoFormula /\ NamedByFormula(j)
  \/ status[j] \in request.statuses
  \/ j \in request.names

\* The documentation: `If we supply the key word "Any", all jobs will be changed'.
NamedByAny == "Any" \in request.sections \/ AnyName \in request.names

\* set_status works on the jobs its filters name: no cut, early end or union of
\* _filter_sections_splits and _filter_chunks loses one or adds one.  The exception is
\* what only the Any of -ft or -fl names, which stays as it is.
SelectsWhatIsNamed ==
  phase = "picked" =>
    \A j \in Jobs :
      /\ NamedApart(j) => j \in picked
      /\ j \in picked => NamedApart(j) \/ NamedByAny

\* A job has what a part says.
MeetsPart(j, part) == (IF part.letter = "C" THEN j.chunk ELSE j.member) \in part.values

NamedByFilter(j, x) ==
  /\ j.section = x.section /\ (j.date = 0 \/ j.date \in x.dates)
  /\ \A part \in Range(x.parts) : MeetsPart(j, part)

\* Members whose text has a c are read as chunks.
Misread(x) == \E part \in Range(x.parts) : part.letter = "M" /\ part.hasC

\* What an earlier filter says of chunks or of members is left for one that says nothing
\* of them.
LeftFor(n, part) ==
  \E i \in 1 .. n - 1 :
    /\ part \in Range(request.filters[i].parts)
    /\ ~ \E own \in Range(request.filters[n].parts) : own.letter = part.letter

\* What a rerun leaves of a workflow is what RERUN_JOBLIST names: nothing else, and all
\* of it but what does not meet the chunks or members left by an earlier filter, and what
\* is named beside or after members that are read as chunks.
\* Code: get_job_related, whose filters are read one after the other.
RerunsWhatIsNamed ==
  phase = "rerun made" =>
    LET filters == request.filters
        named(j) == j.section \in request.sections \/ j \in request.names
    IN \A j \in Range(workflow.jobs) :
         /\ j \in Jobs =>
              \/ named(j)
              \/ \E x \in Range(filters) :
                   NamedByFilter(j, x) \/ (Misread(x) /\ j.section = x.section)
         /\ \/ named(j)
            \/ \E n \in DOMAIN filters :
                 /\ NamedByFilter(j, filters[n])
                 /\ \A i \in 1..n : ~ Misread(filters[i])
                 /\ \A part \in UNION {Range(x.parts) : x \in Range(filters)} :
                      LeftFor(n, part) => MeetsPart(j, part)
            => j \in Jobs

\* The jobs before j along the parents p.
Above(p, j) ==
  LET up[n \in 0..Cardinality(DOMAIN p)] ==
        IF n = 0 THEN p[j]
        ELSE LET before == up[n - 1] IN before \cup UNION {p[k] : k \in before}
  IN up[Cardinality(DOMAIN p)]

\* The jobs that are left keep their order through those that are not: each
\* still comes after every one it came after, and after no other.
\* Code: _remove_job, called in any order of the jobs.
RerunKeepsOrder ==
  phase = "rerun made" =>
    \A j \in Jobs : Above(parents, j) = Above(workflow.parents, j) \cap Jobs

\* With automatic grouping, a job that is shown as part of a group has the
\* status that is shown of the group.
\* Code: _automatic_grouping (monitor_and_check/index.rst: `groups are created
\* by collapsing the split->chunk->member->date that share the same status').
GroupsShareStatus ==
  phase = "shown" /\ request.by = "automatic" =>
    \A j \in DOMAIN shown.jobs : \A g \in shown.jobs[j] : shown.status[g] = status[j]

\* A job with a status of -expand_status, or of a date, member or chunk of
\* -expand, is shown itself, and so are those that would be in its group.
\* Code: _create_groups.
ExpandedIsAlone ==
  phase = "shown" /\ request.by # "automatic" =>
    \A j \in DOMAIN shown.jobs : \A g \in shown.jobs[j] :
      /\ g \notin ExpandedGroups(request.by, request.expand).groups
      /\ \A k \in Jobs : status[k] \in request.expanded =>
           GroupsOf(k, request.by) = <<>> \/ Head(GroupsOf(k, request.by)) # g

\* Each job of a wrapper is in one of the lists its packages are made from, once
\* and after its parents in it: a package reads the list once, from one end to
\* the other (get_wrappable_child), and a job that comes too early is left out.
\* Code: _create_sorted_dict_jobs.
PacksInOrder ==
  phase = "sorted" =>
    /\ \A j \in Jobs : j.section \in DOMAIN request.running =>
         Cardinality({<<x, i>> \in (DOMAIN shown.jobs) \X (1..Len(list)) :
                        i \in DOMAIN shown.jobs[x] /\ shown.jobs[x][i] = j}) = 1
    /\ \A x \in DOMAIN shown.jobs : \A i, k \in DOMAIN shown.jobs[x] :
         shown.jobs[x][i] \in parents[shown.jobs[x][k]] => i < k

\* A formula, a filter or a name selects the jobs it names, for set_status and for
\* a rerun alike, with the exceptions the two parts name.
SelectedAsNamed == SelectsWhatIsNamed /\ RerunsWhatIsNamed

\* What is made of the order of the workflow keeps it: the workflow of a rerun and
\* the lists that wrappers are made from.
OrderIsKept == RerunKeepsOrder /\ PacksInOrder

\* A group stands for the jobs it is shown instead of.
GroupsAreTrue == GroupsShareStatus /\ ExpandedIsAlone
=============================================================================
