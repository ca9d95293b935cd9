---- MODULE Configuration ----
(***************************************************************************)
(* The configuration of an experiment (config/configcommon.py): the YAML   *)
(* files of conf/ and those the CUSTOM_CONFIG directive names, merged into *)
(* one dictionary, and the reloads of a run while the user edits them.     *)
(*                                                                         *)
(* A dictionary is a function from the keys it has to values; a value is   *)
(* plain, or a placeholder for another key, resolved in place (%KEY%) or   *)
(* when everything is loaded (%^KEY%).  The merge updates dictionaries in  *)
(* place and hands the same object to several names, so the dictionaries   *)
(* of a load live in a heap and are named by their places in it.           *)
(***************************************************************************)
EXTENDS Integers, Sequences, FiniteSets, Functions, TLC

CONSTANTS Files,        \* the YAML files, and the folders of them
          Minimal,      \* conf/minimal.yml
          ConfFolder,   \* the files of conf/, in the order of their names
          Inside,       \* a folder of custom files: its files, in order
          Keys, Mandatory,
          Jobs,
          FirstFiles,   \* what the files may hold at first
          Edits,        \* the pairs <<file, content>> the user may save
          ReloadWhileRunning,
          Absent, Broken, Unwritten, NoJob,
          MaxEdits

ASSUME /\ Minimal \in Files /\ Mandatory \subseteq Keys
       /\ MaxEdits \in Nat /\ ReloadWhileRunning \in BOOLEAN

VARIABLES files,       \* what each file holds
          edition,     \* its modification time, as the number of times it was saved
          as_conf,     \* the loaded configuration
          load,        \* the load under way
          left,        \* ghost: what the last load read in conf/ the first time only
          pc, todo,    \* the run: where it is, the jobs it still has to treat there
          current,     \* the job under treatment, and whether it takes attributes
          ready,       \* the jobs not submitted yet
          attrs,       \* the attributes a job took from the configuration
          script,      \* what its script was written with
          quiet        \* no file was edited since the iteration began

vars == <<files, edition, as_conf, load, left, pc, todo, current, ready, attrs, script, quiet>>

Nothing == <<>>     \* the empty dictionary

Plain(v) == [kind |-> "plain", of |-> v]
Now(k)   == [kind |-> "now", of |-> k]
Late(k)  == [kind |-> "late", of |-> k]

Holding(vals, pre, post) == [vals |-> vals, pre |-> pre, post |-> post]

IsFolder(f) == f \in DOMAIN Inside

IsThere(f) == IsFolder(f) \/ files[f] # Absent

Elements(seq) == {seq[n] : n \in DOMAIN seq}

NotIn(loaded, seq) == SelectSeq(seq, LAMBDA f : f \notin loaded)

----------------------------------------------------------------------------
(* Merging two dictionaries, and resolving the placeholders of one.        *)

\* Wrong: what is there already wins.
deep_update_OldWins(old, new) == old @@ new

deep_update(old, new) == new @@ old

\* One pass over the placeholders of the given kinds: a placeholder takes what
\* the key it names holds in the same dictionary, if it holds anything.
substitute(data, kinds) ==
  [k \in DOMAIN data |->
     IF data[k].kind \in kinds /\ data[k].of \in DOMAIN data
     THEN data[data[k].of] ELSE data[k]] @@ Nothing

\* The passes go on while they change something, 25 at most.
RECURSIVE Passes(_, _, _)
Passes(data, kinds, times) ==
  LET next == substitute(data, kinds)
  IN  IF times = 0 \/ next = data THEN data ELSE Passes(next, kinds, times - 1)

substitute_dynamic_variables(data, kinds) == Passes(data, kinds, 25)

unify_conf(old, new) == substitute_dynamic_variables(deep_update(old, new), {"now"})

\* deep_read_loops notes every late placeholder under its key; the note stays when
\* another file gives the key a value, until a job takes its parameters.
LateOnes(data) == Restrict(data, {k \in DOMAIN data : data[k].kind = "late"})

----------------------------------------------------------------------------
(* The load of custom files.  A state of the load: the heap of its         *)
(* dictionaries, the files it has opened, with the time of each, and the   *)
(* keys noted as late.                                                     *)

\* Place 1 of the heap is starter_conf, which every custom file is looked up in.
Starter == 1

Unify(s, i, j) ==
  LET merged == deep_update(s.heap[i], s.heap[j])
  IN  [s EXCEPT !.heap[i] = substitute_dynamic_variables(merged, {"now"}),
                !.special = LateOnes(merged) @@ @]

Add(s, data) == [s EXCEPT !.heap = Append(s.heap, data)]

Last(s) == Len(s.heap)

Opened(s, f) == [s EXCEPT !.opened = (f :> edition[f]) @@ s.opened]

\* The files a directive names that are not opened yet.
parse_custom_conf_directive(s, f) ==
  [pre  |-> NotIn(DOMAIN s.opened, files[f].pre),
   post |-> NotIn(DOMAIN s.opened, files[f].post)]

RECURSIVE load_custom_config(_, _, _, _, _), load_custom_config_section(_, _, _)

\* What was loaded over the dictionary at cur, in the one place and the other.
Merged(r, cur) == [r EXCEPT !.s = Unify(Unify(r.s, r.pre, cur), r.pre, r.post)]

\* The files of a folder, over a copy of what is at cur.
LoadFolder(copy, cur, f) ==
  Merged(load_custom_config(copy, Last(copy) - 2, Last(copy) - 1, Last(copy), Inside[f]), cur)

\* What a file names to load before it, or after it.
LoadCopy(copy, names) == load_custom_config_section(copy, Last(copy), names)

Before(r, pre) == [s |-> Unify(r.s, pre, r.pre), at |-> pre]

After(r, at, post) == [s |-> Unify(Unify(r.s, at, r.pre), post, at), pre |-> at, post |-> post]

\* Without files to load first, "pre" becomes one more name of cur.
LoadBefore(whole, cur, pre, names) ==
  IF names = <<>> THEN [s |-> whole, at |-> cur]
  ELSE Before(LoadCopy(Add(whole, whole.heap[cur]), names), pre)

LoadAfter(own, at, post, names) ==
  IF names = <<>> THEN [s |-> own, pre |-> at, post |-> at]
  ELSE After(load_custom_config_section(own, at, names), at, post)

\* One file, whose values cur has now: what it names before it, its values again,
\* what it names after it.
LoadAround(before, cur, post, names) ==
  LoadAfter(Unify(before.s, before.at, cur), before.at, post, names)

LoadNamed(whole, cur, pre, post, next) ==
  LoadAround(LoadBefore(whole, cur, pre, next.pre), cur, post, next.post)

LoadWhole(whole, cur, pre, post, f) ==
  LoadNamed(whole, cur, pre, post, parse_custom_conf_directive(whole, f))

LoadFile(read, cur, pre, post, f) == LoadWhole(Unify(read, cur, Last(read)), cur, pre, post, f)

\* The rest of the names, after one that answered r.
LoadRest(r, names) == load_custom_config(r.s, r.pre, r.pre, r.post, names)

\* An absent file is passed over, one opened before is not loaded again.
LoadNext(s, cur, pre, post, f, names) ==
  IF ~IsThere(f) \/ f \in DOMAIN s.opened
  THEN load_custom_config(s, cur, pre, post, names)
  ELSE LoadRest(IF IsFolder(f)
                THEN LoadFolder(Add(Add(Add(Opened(s, f), s.heap[cur]), Nothing), Nothing), cur, f)
                ELSE LoadFile(Add(Opened(s, f), files[f].vals), cur, pre, post, f), names)

\* Loads names into the dictionary at cur; pre and post are the places of the two
\* dictionaries it answers with.
load_custom_config(s, cur, pre, post, names) ==
  IF names = <<>> THEN [s |-> s, pre |-> pre, post |-> post]
  ELSE LoadNext(Unify(s, Starter, cur), cur, pre, post, Head(names), Tail(names))

\* Its answer is at pre.
LoadInto(two, cur, names) ==
  Merged(load_custom_config(two, cur, Last(two) - 1, Last(two), names), cur)

load_custom_config_section(s, cur, names) == LoadInto(Add(Add(s, Nothing), Nothing), cur, names)

----------------------------------------------------------------------------
(* The parts of a reload.                                                  *)

Present(seq) == SelectSeq(seq, LAMBDA f : files[f] # Absent)

\* The files of conf/ one after the other, each over the earlier ones.
InOrder(seq) ==
  LET upTo[n \in 0..Len(seq)] ==
        IF n = 0 THEN Nothing ELSE unify_conf(upTo[n - 1], files[seq[n]].vals)
  IN  upTo[Len(seq)]

NonMinimal == SelectSeq(Present(ConfFolder), LAMBDA f : f # Minimal)

StarterConf == InOrder(Present(ConfFolder))

LateIn(seq) ==
  LET upTo[n \in 0..Len(seq)] ==
        IF n = 0 THEN Nothing
        ELSE LateOnes(deep_update(InOrder(SubSeq(seq, 1, n - 1)), files[seq[n]].vals))
               @@ upTo[n - 1]
  IN  upTo[Len(seq)]

NonMinimalConf == InOrder(NonMinimal)

NonMinimalFiles == [f \in Elements(NonMinimal) |-> edition[f]]

\* The custom files of one section, loaded over a dictionary.
Loaded(r) == [data |-> r.s.heap[r.pre], starter |-> r.s.heap[Starter], opened |-> r.s.opened,
              special |-> r.s.special]

Section(l, data, names) ==
  Loaded(LoadCopy(Add([heap |-> <<l.starter>>, opened |-> l.opened,
                       special |-> LateOnes(data) @@ l.special], data), names))

\* The last step: what only minimal.yml sets, and the placeholders that are left.  The
\* note of a late placeholder takes the place of an in-place one of the same key, and
\* does not match what it holds.
Marked(whole, special) ==
  [k \in DOMAIN whole |-> IF whole[k].kind = "now" /\ k \in DOMAIN special
                          THEN [whole[k] EXCEPT !.kind = "kept"] ELSE whole[k]] @@ Nothing

Unmarked(settled) ==
  [k \in DOMAIN settled |-> IF settled[k].kind = "kept" THEN [settled[k] EXCEPT !.kind = "now"]
                            ELSE settled[k]] @@ Nothing

Whole(r) == r.data @@ r.starter

Notes(r) == LateOnes(Whole(r)) @@ r.special

Finished(r) ==
  Unmarked(substitute_dynamic_variables(Marked(Whole(r), r.special), {"now", "late"}))

\* What an AutosubmitConfig that has loaded nothing would load now.
FreshLoad ==
  LET l == [starter |-> StarterConf, opened |-> Nothing,
            special |-> LateIn(NonMinimal) @@ LateIn(Present(ConfFolder))]
      post(pre) == Section(pre, unify_conf(pre.data, NonMinimalConf), files[Minimal].post)
  IN  Finished(post(Section(l, Nothing, files[Minimal].pre)))

\* Wrong: only the files of conf/ are looked at again.
NeedsReload_OnlyConf ==
  \/ DOMAIN as_conf.opened = {}
  \/ /\ ReloadWhileRunning
     /\ \E f \in DOMAIN as_conf.opened \cap Elements(ConfFolder) :
          edition[f] > as_conf.opened[f]

NeedsReload ==
  \/ DOMAIN as_conf.opened = {}
  \/ /\ ReloadWhileRunning
     /\ \E f \in DOMAIN as_conf.opened : IsThere(f) /\ edition[f] > as_conf.opened[f]

\* A file caught half saved cannot be parsed, and the load fails.
Readable(read) == \A f \in read : files[f] # Broken

\* The files a section may open: those it names, what they name, what folders hold.
RECURSIVE Reach(_)
Reach(names) ==
  LET direct == {f \in names : IsThere(f) /\ ~IsFolder(f) /\ files[f] # Broken}
      next   == names \cup UNION {Elements(Inside[f]) : f \in {g \in names : IsFolder(g)}}
                      \cup UNION {Elements(files[f].pre) \cup Elements(files[f].post) : f \in direct}
  IN  IF next = names THEN names ELSE Reach(next)

----------------------------------------------------------------------------
(* The user edits the files, the run reloads them.                         *)

Idle == [phase |-> "idle"]

Loading == load.phase # "idle"

Ended == {"stopped", "failed", "done"}

\* The data of a configuration that has read no file.
NewConf == [opened |-> Nothing, data |-> Nothing, special |-> Nothing]

Init ==
  /\ files \in FirstFiles
  /\ edition = [f \in Files |-> 1]
  /\ as_conf = NewConf
  /\ load = [phase |-> "starter"] /\ left = {}
  /\ pc = "check" /\ todo = {}
  /\ current = [job |-> NoJob, set |-> FALSE]
  /\ ready = Jobs
  /\ attrs = [j \in Jobs |-> Nothing]
  /\ script = [j \in Jobs |-> Unwritten]
  /\ quiet = FALSE

\* How often the user has saved a file, all files together.
Saves == FoldFunction(+, 0, edition) - Cardinality(Files)

\* The user saves one of the files there are.
Edit(f, content) ==
  /\ Saves < MaxEdits
  /\ pc \notin Ended
  /\ files[f] \notin {Absent, content}
  /\ files' = [files EXCEPT ![f] = content]
  /\ edition' = [edition EXCEPT ![f] = @ + 1]
  /\ quiet' = FALSE
  /\ UNCHANGED <<as_conf, load, left, pc, todo, current, ready, attrs, script>>

\* reload, first part: the files opened before are forgotten and all of conf/ is
\* read, whatever of it will be read again below.  The directive comes from here.
ReadStarter ==
  /\ load.phase = "starter"
  /\ Readable(Elements(ConfFolder))
  /\ load' = [phase |-> "conf", starter |-> StarterConf,
              special |-> LateIn(Present(ConfFolder)) @@ as_conf.special,
              pre |-> files[Minimal].pre, post |-> files[Minimal].post]
  /\ as_conf' = [as_conf EXCEPT !.opened = Nothing]
  /\ UNCHANGED <<files, edition, left, pc, todo, current, ready, attrs, script, quiet>>


\* Second part: the files of conf/ again, but minimal.yml, and their times.
ReadConf ==
  /\ load.phase = "conf"
  /\ Readable(Elements(ConfFolder) \ {Minimal})
  /\ load' = [phase |-> "pre", starter |-> load.starter, pre |-> load.pre,
              post |-> load.post, conf |-> NonMinimalConf, times |-> NonMinimalFiles,
              special |-> LateIn(NonMinimal) @@ load.special]
  /\ left' = DOMAIN load.starter \ DOMAIN StarterConf
  /\ UNCHANGED <<files, edition, as_conf, pc, todo, current, ready, attrs, script, quiet>>

ReadPre ==
  /\ load.phase = "pre"
  /\ Readable(Reach(Elements(load.pre)))
  /\ \E r \in {Section([starter |-> load.starter, opened |-> Nothing,
                        special |-> load.special], Nothing, load.pre)} :
       load' = [phase |-> "post", starter |-> r.starter, opened |-> r.opened,
                special |-> r.special, data |-> unify_conf(r.data, load.conf),
                post |-> load.post, times |-> load.times]
  /\ UNCHANGED <<files, edition, as_conf, left, pc, todo, current, ready, attrs, script, quiet>>

ReadPost ==
  /\ load.phase = "post"
  /\ Readable(Reach(Elements(load.post)))
  /\ \E r \in {Section(load, load.data, load.post)} :
       as_conf' = [opened |-> load.times @@ r.opened, special |-> Notes(r), data |-> Finished(r)]
  /\ load' = Idle
  /\ UNCHANGED <<files, edition, left, pc, todo, current, ready, attrs, script, quiet>>

\* A file caught half saved ends the run.
LoadFails ==
  /\ \/ load.phase = "starter" /\ ~Readable(Elements(ConfFolder))
     \/ load.phase = "conf" /\ ~Readable(Elements(ConfFolder) \ {Minimal})
     \/ load.phase = "pre" /\ ~Readable(Reach(Elements(load.pre)))
     \/ load.phase = "post" /\ ~Readable(Reach(Elements(load.post)))
  /\ pc' = "failed"
  /\ load' = Idle
  /\ UNCHANGED <<files, edition, as_conf, left, todo, current, ready, attrs, script, quiet>>

\* check_conf_files when the run starts: a mandatory parameter that is missing
\* stops it.  No later reload is checked.
Wrong == Mandatory \ DOMAIN as_conf.data

Iterate(rest) ==
  /\ pc' = IF rest = {} THEN "done" ELSE "update"
  /\ todo' = rest
  /\ quiet' = TRUE

CheckConf ==
  /\ pc = "check" /\ ~Loading
  /\ IF Wrong # {} THEN pc' = "stopped" /\ UNCHANGED <<todo, quiet>> ELSE Iterate(ready)
  /\ UNCHANGED <<files, edition, as_conf, load, left, current, ready, attrs, script>>

\* update_parameters of one job: with set_attributes at the start of an iteration
\* and when packages are built, without when its script is written, where the job
\* takes new attributes only if it is the one that notices an edit.
Turn(j) ==
  /\ pc \in {"update", "write"} /\ ~Loading
  /\ current.job = NoJob /\ j \in todo
  /\ current' = [job |-> j, set |-> pc = "update" \/ NeedsReload]
  /\ load' = IF NeedsReload THEN [phase |-> "starter"] ELSE load
  /\ UNCHANGED <<files, edition, as_conf, left, pc, todo, ready, attrs, script, quiet>>

\* update_dict_parameters and what else takes attributes from the dictionary.
Attributes(j) == IF current.set THEN as_conf.data ELSE attrs[j]

\* update_placeholders: each late placeholder that is noted takes the place of what
\* the dictionary has, and everything is resolved once more.
update_placeholders(data, special) ==
  substitute_dynamic_variables((LateOnes(data) @@ special) @@ data, {"now", "late"})

\* update_job_parameters: a script is made of attributes of the job and of the
\* dictionary as it is now.
Parameters(j) ==
  [attrs |-> Attributes(j), parameters |-> update_placeholders(as_conf.data, as_conf.special)]

TakeParameters ==
  /\ current.job # NoJob /\ ~Loading /\ pc \notin Ended
  /\ LET j == current.job IN
     /\ attrs' = [attrs EXCEPT ![j] = Attributes(j)]
     /\ script' = IF pc = "write" THEN [script EXCEPT ![j] = Parameters(j)] ELSE script
     /\ todo' = todo \ {j}
  /\ as_conf' = [as_conf EXCEPT !.special = Nothing]
  /\ current' = [job |-> NoJob, set |-> FALSE]
  /\ UNCHANGED <<files, edition, load, left, pc, ready, quiet>>

\* The packager takes some of the ready jobs: the queues may be full.
Build(chosen) ==
  /\ pc = "update" /\ todo = {} /\ current.job = NoJob
  /\ pc' = "write" /\ todo' = chosen
  /\ UNCHANGED <<files, edition, as_conf, load, left, current, ready, attrs, script, quiet>>

Submit ==
  /\ pc = "write" /\ todo = {} /\ current.job = NoJob
  /\ ready' = {j \in ready : script[j] = Unwritten}
  /\ Iterate(ready')
  /\ UNCHANGED <<files, edition, as_conf, load, left, current, attrs, script>>

Process ==
  \/ ReadStarter \/ ReadConf \/ ReadPre \/ ReadPost \/ LoadFails
  \/ CheckConf \/ TakeParameters \/ Submit
  \/ \E j \in Jobs : Turn(j)
  \/ \E chosen \in SUBSET ready : Build(chosen)

Next == Process \/ \E e \in Edits : Edit(e[1], e[2])

Spec == Init /\ [][Next]_vars

\* The run takes its steps as long as it runs; nothing is assumed of the user.  This
\* is WF_vars(Process), written out: Process is enabled until the run has ended.
FairSpec == Spec /\ ([]<>(pc \in Ended) \/ []<><<Process>>_vars)

----------------------------------------------------------------------------
(* What the configuration promises.                                        *)

\* The files in the order the documentation gives them, later over earlier.
Flat(names) ==
  LET upTo[n \in 0..Len(names)] ==
        IF n = 0 THEN <<>>
        ELSE upTo[n - 1] \o (IF IsFolder(names[n]) THEN Inside[names[n]] ELSE <<names[n]>>)
  IN  upTo[Len(names)]

Order == Present(<<Minimal>> \o Flat(files[Minimal].pre) \o NonMinimal
                 \o Flat(files[Minimal].post))

Setting(k, last) == {n \in 1..last : k \in DOMAIN files[Order[n]].vals}

Winner(k, last) == CHOOSE n \in Setting(k, last) : \A m \in Setting(k, last) : m <= n

\* The value of a key by that order: an in-place placeholder looks at the files up
\* to its own, a late one at all of them, and so does an in-place one that only
\* minimal.yml could answer, because the others are merged without it.
RECURSIVE Value(_, _)
Value(k, last) ==
  LET n == Winner(k, last)
      v == files[Order[n]].vals[k]
      upTo == IF v.kind = "now" /\ ~(Setting(v.of, n) \subseteq {1}) THEN n ELSE Len(Order)
  IN  IF v.kind = "plain" \/ Setting(v.of, upTo) = {} THEN v ELSE Value(v.of, upTo)

Set == {k \in Keys : Setting(k, Len(Order)) # {}}

\* None of the custom files names further ones, and none is named twice.
OneLevel ==
  /\ \A f \in Files \ {Minimal} :
        files[f] \notin {Absent, Broken} => files[f].pre = <<>> /\ files[f].post = <<>>
  /\ \A m, n \in DOMAIN Order : Order[m] = Order[n] => m = n

AllReadable == Readable(Elements(ConfFolder) \cup Reach(Elements(ConfFolder)))

\* The final configuration is the one the documentation describes: PRE, then conf/,
\* then POST, each over the ones before (load_custom_config and what it calls).
Precedence ==
  AllReadable /\ OneLevel
    => \A data \in {FreshLoad} :
         DOMAIN data = Set /\ \A k \in Set : data[k] = Value(k, Len(Order))

\* The loaded configuration is that of the files, but that a key left over from the
\* first reading of conf/ stays, when the user dropped it before the second and no
\* file has it any more; what is a placeholder for such a key may have its value.
UpToDate(data) ==
  \A fresh \in {FreshLoad} :
    \E over \in {left \ DOMAIN fresh} :
      /\ DOMAIN fresh \subseteq DOMAIN data /\ DOMAIN data \subseteq DOMAIN fresh \cup over
      /\ \A k \in DOMAIN fresh :
           data[k] = fresh[k] \/ (fresh[k].kind \in {"now", "late"} /\ fresh[k].of \in over)

\* While needs_reload answers no, the loaded configuration is the one the files
\* hold, whatever was edited during the load, but for the keys left over.
EditsNoticed ==
  ~Loading /\ pc # "failed" /\ ~NeedsReload /\ AllReadable => UpToDate(as_conf.data)

\* The scripts of an iteration carry every edit made before it began, in the job's
\* attributes and in its parameters alike, and no late placeholder in the place of
\* what a later file sets.
ScriptsUpToDate ==
  quiet /\ pc = "write"
    => \A j \in ready : script[j] # Unwritten =>
         /\ UpToDate(script[j].attrs)
         /\ script[j].parameters = update_placeholders(script[j].attrs, Nothing)

\* An edit of a file that was opened is loaded in the end, or the run ends.
EditsLoaded ==
  \A f \in Files :
    (f \in DOMAIN as_conf.opened /\ edition[f] # as_conf.opened[f])
      ~> (pc \in Ended
          \/ (~Loading /\ (f \in DOMAIN as_conf.opened => edition[f] = as_conf.opened[f])))

====
