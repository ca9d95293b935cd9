------------------------------- MODULE Grouping -------------------------------
(***************************************************************************)
(* The groups that monitor, create, setstatus and recovery show instead of *)
(* the jobs of a large workflow: by date, member, chunk or split, or        *)
(* automatic, which joins what has one status.                             *)
(*                                                                         *)
(* Code: JobGrouping (autosubmit/job/job_grouping.py).                     *)
(*                                                                         *)
(* The code tells whether a group holds another, or a job, by looking for  *)
(* its name in the other's.  Here no name of a member begins another's,    *)
(* chunks and splits have one digit and no section has an underscore, and  *)
(* then that is what Inside says.                                          *)
(***************************************************************************)
EXTENDS Integers, FiniteSets, SequencesExt, Functions

CONSTANTS
  DateList, MemberList, ChunkList  \* of the job list; positions from 1

\* A job: a dimension it lacks (None) is 0, splits is the number of its kin.
Job(section, date, member, chunk, split, splits, synchronize) ==
  [section |-> section, date |-> date, member |-> member, chunk |-> chunk,
   split |-> split, splits |-> splits, synchronize |-> synchronize]

\* A group, named date, date_member or date_member_chunk, or as the jobs of a
\* section that differ in their split.
Group(date, member, chunk, section) ==
  [date |-> date, member |-> member, chunk |-> chunk, section |-> section]

OnDate(x) == Group(x.date, 0, 0, "")
OnMember(x) == Group(x.date, x.member, 0, "")
OnChunk(x) == Group(x.date, x.member, x.chunk, "")
OnSplit(x) == Group(x.date, x.member, x.chunk, x.section)

\* The name of the group g is part of that of x, a group or a job.
Inside(g, x) ==
  /\ g.section \in {"", x.section} /\ g.date = x.date
  /\ g.member \in {0, x.member} /\ g.chunk \in {0, x.chunk}

-----------------------------------------------------------------------------
\* _set_group_status: HELD, PREPARED, DELAYED and SKIPPED are not in the order.
Hierarchy ==
  <<"FAILED", "RUNNING", "SUBMITTED", "QUEUING", "READY", "WAITING", "SUSPENDED", "UNKNOWN">>

GroupStatus(statuses) ==
  LET found == SelectSeq(Hierarchy, LAMBDA s : s \in statuses)
  IN IF Cardinality(statuses) = 1 THEN CHOOSE s \in statuses : TRUE
     ELSE IF found = <<>> THEN "None" ELSE Head(found)

\* _check_synchronized_job: a job of all members, or of all dates and members.
Synchronized(j) == j.chunk # 0 /\ j.member = 0

GroupsOfSynchronized(j, by) ==
  LET dates == IF j.date = 0 THEN SetToSeq(DateList) ELSE <<j.date>>
      on(d, m) == [j EXCEPT !.date = d, !.member = m]
      named(x) == IF by = "chunk" THEN OnChunk(x) ELSE OnMember(x)
      below(d) == [i \in DOMAIN SetToSeq(MemberList) |-> named(on(d, SetToSeq(MemberList)[i]))]
  IN IF by = "date" \/ (by = "split" /\ j.date = 0)
     THEN [i \in DOMAIN dates |-> OnDate(on(dates[i], 0))]
     ELSE FlattenSeq([i \in DOMAIN dates |-> below(dates[i])])

GroupsOf(j, by) ==
  CASE Synchronized(j) -> GroupsOfSynchronized(j, by)
    [] ~Synchronized(j) /\ by = "split" /\ j.split > 0 -> <<OnSplit(j)>>
    [] ~Synchronized(j) /\ by = "chunk" /\ j.chunk # 0 -> <<OnChunk(j)>>
    [] ~Synchronized(j) /\ by = "member" /\ j.member # 0 -> <<OnMember(j)>>
    [] ~Synchronized(j) /\ by = "date" /\ j.date # 0 -> <<OnDate(j)>>
    [] OTHER -> <<>>

With(f, x, value) == [y \in DOMAIN f \cup {x} |-> IF y = x THEN value ELSE f[y]]
At(f, x, default) == IF x \in DOMAIN f THEN f[x] ELSE default

\* One of the groups of a job.  A status to expand, or a second one when the
\* grouping is automatic, ends the group, and this job is put in no more of its
\* own; it stays in those before.
PutWith(made, j, status, g, expanded, statuses) ==
  IF g \in made.black \/ made.stop THEN made
  ELSE IF status[j] \in expanded \/ (made.automatic /\ Cardinality(statuses) > 1)
  THEN [made EXCEPT !.status = Restrict(@, DOMAIN @ \ {g}), !.black = @ \cup {g}, !.stop = TRUE]
  ELSE [made EXCEPT !.status = With(@, g, statuses),
                    !.of = With(@, j, Append(At(@, j, <<>>), g))]

Put(made, j, status, g, expanded) ==
  PutWith(made, j, status, g, expanded, At(made.status, g, {}) \cup {status[j]})

\* All the groups of one job.
PutAll(made, j, status, groups, expanded) ==
  LET put[n \in 0..Len(groups)] ==
        IF n = 0 THEN [made EXCEPT !.stop = FALSE]
        ELSE Put(put[n - 1], j, status, groups[n], expanded)
  IN put[Len(groups)]

\* _create_groups, from the last job of the list to the first.
CreateGroups(jobs, status, by, automatic, expanded, black) ==
  LET made[n \in 0..Len(jobs)] ==
        IF n = 0 THEN [status |-> <<>>, of |-> <<>>, black |-> black, stop |-> FALSE,
                       automatic |-> automatic]
        ELSE LET j == jobs[Len(jobs) + 1 - n]
             IN PutAll(made[n - 1], j, status, GroupsOf(j, by), expanded)
  IN made[Len(jobs)]

Closed(status) == [g \in DOMAIN status |-> GroupStatus(status[g])]

-----------------------------------------------------------------------------
(* Automatic grouping.                                                     *)

GroupsBelow(made, above) == {g \in DOMAIN made.status : g # above /\ Inside(above, g)}

Joined(made, above, below) ==
  [status |-> With(Restrict(made.status, DOMAIN made.status \ below), above,
                   made.status[CHOOSE g \in below : TRUE]),
   map |-> [g \in DOMAIN made.map \cup below |-> IF g \in below THEN above ELSE made.map[g]]]

\* Mutant: the statuses of the groups below are not compared.
MergeAnyBelow(made, above, number, below) ==
  IF Cardinality(below) # number THEN made ELSE Joined(made, above, below)

\* _check_valid_group: as many groups below as there are chunks, or members,
\* and all of one status, become one.
MergeBelow(made, above, number, below) ==
  IF Cardinality(below) # number \/ Cardinality({made.status[g] : g \in below}) # 1 THEN made
  ELSE Joined(made, above, below)

Merge(made, above, number) == MergeBelow(made, above, number, GroupsBelow(made, above))

\* _create_higher_level_group: the groups of members, and then those of the
\* dates one of whose members has become a group.
MergeAll(made, steps, number) ==
  LET after[n \in 0..Len(steps)] ==
        IF n = 0 THEN made ELSE Merge(after[n - 1], steps[n], number)
  IN after[Len(steps)]

MergeDates(made) ==
  LET merged == {g \in DOMAIN made.status : g.chunk = 0}
  IN MergeAll(made, SetToSeq({OnDate(g) : g \in merged}), Cardinality(MemberList))

HigherLevelGroups(status) ==
  MergeDates(MergeAll([status |-> status, map |-> <<>>],
                      SetToSeq({OnMember(g) : g \in DOMAIN status}), Cardinality(ChunkList)))

\* _fix_splits_automatic_grouping: a group of splits inside another joins it,
\* the others are added; the jobs with splits are only in these.
Around(made, s) == {g \in DOMAIN made : Inside(g, s)}

JoinSplits(splits, made, of, alone) ==
  LET name(s) == IF s \in DOMAIN splits.status \ alone
                 THEN CHOOSE g \in Around(made, s) : TRUE ELSE s
  IN [status |-> [g \in DOMAIN made \cup alone |->
                    IF g \in alone THEN GroupStatus(splits.status[g]) ELSE made[g]],
      of |-> [j \in DOMAIN of \cup DOMAIN splits.of |->
                IF j \in DOMAIN splits.of
                THEN [i \in DOMAIN splits.of[j] |-> name(splits.of[j][i])]
                ELSE of[j]]]

FixSplits(splits, made, of) ==
  IF splits.of = <<>> \/ splits.status = <<>> THEN [status |-> made, of |-> of]
  ELSE JoinSplits(splits, made, of, {s \in DOMAIN splits.status : Around(made, s) = {}})

\* A job without groups joins the last one its name is in, if that has its
\* status.  It is taken from the list once for each such group: when there are
\* two and no job is left behind it, that fails (IndexError).
OfStatus(status, made, j) ==
  {g \in DOMAIN made.status : Inside(g, j) /\ made.status[g] = status[j]}

TakenTwice(left, status, made) ==
  LET behind[n \in 0..Len(left)] ==
        IF n = 0 THEN 0
        ELSE IF behind[n - 1] < 0 THEN behind[n - 1]
        ELSE behind[n - 1] + 1 - Cardinality(OfStatus(status, made, left[Len(left) + 1 - n]))
  IN behind[Len(left)] < 0

JoinLast(left, status, made) ==
  LET late == {j \in Range(left) : OfStatus(status, made, j) # {}}
      last(groups) == CHOOSE g \in groups : \A h \in groups : Inside(g, h)
  IN [j \in DOMAIN made.of \cup late |->
        IF j \in late THEN <<last(OfStatus(status, made, j))>> ELSE made.of[j]]

Remaining(left, status, made, map) ==
  [status |-> made.status, of |-> JoinLast(left, status, made),
   fails |-> TakenTwice(left, status, made), map |-> map]

AutomaticGrouping(jobs, status, expanded) ==
  LET splits == CreateGroups(jobs, status, "split", TRUE, expanded, {})
      left == SelectSeq(jobs, LAMBDA j : GroupsOf(j, "chunk") = <<>>)
      fixed(chunks, higher) ==
        Remaining(left, status, FixSplits(splits, higher.status, chunks.of), higher.map)
      above(chunks) == fixed(chunks, HigherLevelGroups(Closed(chunks.status)))
  IN above(CreateGroups(jobs, status, "chunk", TRUE, expanded, {}))

-----------------------------------------------------------------------------
(* -expand: [depth, entries], where depth is that of its brackets and an      *)
(* entry is [date, members], a member [member, chunks] and a chunk <<first,  *)
(* last>>, one number when they are the same.                                *)

NoExpand == [depth |-> 0, entries |-> <<>>]

ExpandedChunks(entry) ==
  UNION {UNION {{Group(entry.date, m.member, x, "") : x \in r[1]..r[2]} : r \in Range(m.chunks)}
         : m \in Range(entry.members)}

\* The loop over a range of chunks takes its last number for the position in
\* the list that is being read: where that is next, if anywhere.
NextEntry(count, entry) ==
  LET ranges == SelectSeq(FlattenSeq([i \in DOMAIN entry.members |-> entry.members[i].chunks]),
                          LAMBDA r : r[1] < r[2])
  IN IF ranges = <<>> THEN count + 1 ELSE Last(ranges)[2] + 1

ReadChunks(entries) ==
  LET size == 2 * Len(entries)
      read[n \in 0..size] ==
        IF n = 0 THEN [count |-> 0, groups |-> {}, fails |-> FALSE]
        ELSE LET before == read[n - 1]
                 here == entries[(before.count \div 2) + 1]
             IN IF before.fails THEN before
                ELSE IF before.count % 2 = 1 THEN [before EXCEPT !.count = @ + 1]
                ELSE IF before.count >= size THEN [before EXCEPT !.fails = TRUE]
                ELSE [before EXCEPT !.count = NextEntry(@, here),
                                    !.groups = @ \cup ExpandedChunks(here)]
  IN read[size]

\* _set_expanded_jobs: the groups that are not made, if the brackets are right.
ExpandedGroups(by, expand) ==
  LET depth == [date |-> 2, member |-> 3, chunk |-> 4]
      dates == {OnDate(x) : x \in Range(expand.entries)}
      members == UNION {{Group(x.date, m.member, 0, "") : m \in Range(x.members)}
                        : x \in Range(expand.entries)}
      chunks == ReadChunks(expand.entries)
  IN IF expand = NoExpand \/ by \notin DOMAIN depth THEN [groups |-> {}, fails |-> FALSE]
     ELSE IF expand.depth # depth[by] THEN [groups |-> {}, fails |-> TRUE]
     ELSE IF by = "chunk" THEN [groups |-> chunks.groups, fails |-> chunks.fails]
     ELSE [groups |-> IF by = "date" THEN dates ELSE members, fails |-> FALSE]

-----------------------------------------------------------------------------
\* A group made by name, its jobs and their groups.
PlainGrouping(created) ==
  [status |-> Closed(created.status), of |-> created.of, fails |-> FALSE, map |-> <<>>]

\* The groups a job is shown in: those it was put in, or what these became.
Shown(made, fails) ==
  LET once(g) == At(made.map, g, g)
      shown(j) == {once(once(made.of[j][i])) : i \in DOMAIN made.of[j]} \cap DOMAIN made.status
  IN [jobs |-> [j \in DOMAIN made.of |-> shown(j)], status |-> made.status,
      fails |-> fails \/ made.fails]

\* group_jobs.
GroupJobsBut(black, jobs, status, by, expanded) ==
  Shown(IF by = "automatic" THEN AutomaticGrouping(jobs, status, expanded)
        ELSE PlainGrouping(CreateGroups(jobs, status, by, FALSE, expanded, black.groups)),
        black.fails)

GroupJobs(jobs, status, by, expanded, expand) ==
  GroupJobsBut(ExpandedGroups(by, expand), jobs, status, by, expanded)
=============================================================================
