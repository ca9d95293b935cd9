---------------------------- MODULE Experiments ----------------------------
(***************************************************************************)
(* The experiments of an installation: the rows of the main database, the   *)
(* folders and the archives, and the commands that create, copy, delete,    *)
(* archive and unarchive them, which take no lock.                          *)
(*                                                                         *)
(* Code: Autosubmit.expid, archive, unarchive (autosubmit/autosubmit.py);  *)
(* experiment/experiment_common.py; experiment/detail_updater.py;          *)
(* database/db_common.py, whose calls run in a child process with a        *)
(* timeout: a call that is lost may have been executed or not.             *)
(*                                                                         *)
(* A name is a number: next_experiment_id adds 1 to the base-36 number.    *)
(* Owners, years of the archives and what a folder holds are left out.     *)
(***************************************************************************)
EXTENDS Naturals, FiniteSets, FiniteSetsExt

CONSTANTS
  Procs,       \* commands that can be under way at a time
  MaxName,     \* names are 0..MaxName (bound)
  Letter,      \* the first letter of each name and of the one after
  FirstOf,     \* a000, t000, o000, e000: the first name of each kind
  Backends,    \* DATABASE_BACKEND
  MaxCommands, \* commands of the users (bound)
  MaxFaults    \* kills, timeouts and I/O errors (bound)

Kinds == {"normal", "test", "operational", "evaluation"}
Names == 0..MaxName
NoName == MaxName + 1
Formats == {"tar", "tar.gz"}

VARIABLES
  backend,   \* sqlite or postgres
  rows,      \* table experiment: [id, name]
  nextId,    \* AUTOINCREMENT
  details,   \* table details: ids of experiments
  dir,       \* the folder of each name
  tar,       \* its archives
  pc, cmd,   \* where each command is, and its arguments
  name,      \* the name it is working on
  tag,       \* the number of the command: tells two creations apart
  announced, \* experiments the users were told about: [name, tag]
  overwritten, \* those of them of which a command wrote over a whole copy with
             \* what is not one: see Over (ghost)
  asked, faults

dbVars == <<rows, nextId, details>>
diskVars == <<dir, tar>>
vars == <<backend, dbVars, diskVars, pc, cmd, name, tag, announced, overwritten, asked, faults>>

\* The states of a folder and of an archive, with the creation they are from.
Thing(is, creation) == [is |-> is, tag |-> creation]
Nothing == Thing("none", 0)
Things == [is : {"none", "made", "part", "whole", "cut"}, tag : 0..MaxCommands]

Command(whats, kinds, names, formats) ==
  [what : whats, kind : kinds, name : names, format : formats]

Commands ==
  Command({"expid"}, Kinds, 0..NoName, {"tar"})
  \cup Command({"delete"}, {"normal"}, Names, {"tar"})
  \cup Command({"archive", "unarchive"}, {"normal"}, Names, Formats)

Rows(n) == {r \in rows : r.name = n}

\* one_or_none raises an exception when it finds two.
Ambiguous(n) == backend = "postgres" /\ Cardinality(Rows(n)) > 1

Insert(n) == rows' = rows \cup {[id |-> nextId, name |-> n]} /\ nextId' = nextId + 1

\* WHERE of _last_name_used: names of a kind.
OfKind(n, kind) ==
  CASE kind = "test" -> Letter[n] = "t"
    [] kind = "operational" -> Letter[n] = "o"
    [] kind = "evaluation" -> Letter[n] = "e"
    [] kind = "normal" /\ backend = "sqlite" -> Letter[n] \notin {"t", "o", "e"}
    [] OTHER -> Letter[n] \notin {"t", "o"}

\* last_name_used, and new_experiment when it is `empty': ORDER BY id DESC LIMIT 1.
StartNames(kind) ==
  LET used == {r \in rows : OfKind(r.name, kind)}
      last == {r \in used : \A s \in used : s.id <= r.id}
  IN IF used = {} THEN {FirstOf[kind]}
     ELSE {IF Letter[r.name] = "1" THEN FirstOf[kind] ELSE r.name : r \in last}

-----------------------------------------------------------------------------
Idle == [what |-> "expid", kind |-> "normal", name |-> NoName, format |-> "tar"]

Init ==
  /\ backend \in Backends
  /\ rows = {} /\ nextId = 1 /\ details = {}
  /\ dir = [n \in Names |-> Nothing]
  /\ tar = [n \in Names |-> [f \in Formats |-> Nothing]]
  /\ pc = [p \in Procs |-> "idle"]
  /\ cmd = [p \in Procs |-> Idle]
  /\ name = [p \in Procs |-> NoName]
  /\ tag = [p \in Procs |-> 0]
  /\ announced = {} /\ overwritten = {}
  /\ asked = 0 /\ faults = 0

Go(p, point) == pc' = [pc EXCEPT ![p] = point]

End(p) ==
  /\ Go(p, "idle")
  /\ cmd' = [cmd EXCEPT ![p] = Idle]
  /\ name' = [name EXCEPT ![p] = NoName]
  /\ tag' = [tag EXCEPT ![p] = 0]

Stay == UNCHANGED <<cmd, name, tag>>

Fault == faults < MaxFaults /\ faults' = faults + 1

Whole(a) == Thing("whole", a.tag)

\* No command is given for a name another command is at work on.
Sensible(c) == c.what # "expid" => \A q \in Procs : name[q] # c.name

\* Users give commands for what `describe' or their folder shows them.
Start(p, c) ==
  /\ pc[p] = "idle"
  /\ asked < MaxCommands
  /\ c.name # NoName => Rows(c.name) # {} \/ dir[c.name].is # "none"
  /\ Sensible(c)
  /\ asked' = asked + 1
  /\ cmd' = [cmd EXCEPT ![p] = c]
  /\ name' = [name EXCEPT ![p] = c.name]
  /\ tag' = [tag EXCEPT ![p] = asked + 1]
  /\ Go(p, c.what)
  /\ UNCHANGED <<backend, dbVars, diskVars, announced, overwritten, faults>>

\* SIGKILL, or a failure of the machine.
Kill(p) ==
  /\ pc[p] # "idle"
  /\ Fault
  /\ End(p)
  /\ UNCHANGED <<backend, dbVars, diskVars, announced, overwritten, asked>>

-----------------------------------------------------------------------------
(* expid, testcase and copies.  c.name is the experiment that is copied.   *)

\* copy_experiment: both the folder and the row have to be there.
CannotCopy(p) ==
  LET src == cmd[p].name IN
  /\ pc[p] = "expid"
  /\ src # NoName
  /\ dir[src].is = "none" \/ Rows(src) = {} \/ Ambiguous(src)
  /\ End(p)
  /\ UNCHANGED <<backend, dbVars, diskVars, announced, overwritten, asked, faults>>

ReadLast(p) ==
  LET src == cmd[p].name IN
  /\ pc[p] = "expid"
  /\ src # NoName => dir[src].is # "none" /\ Rows(src) # {} /\ ~Ambiguous(src)
  /\ \E n \in StartNames(cmd[p].kind) : name' = [name EXCEPT ![p] = n]
  /\ Go(p, "check")
  /\ UNCHANGED <<backend, dbVars, diskVars, cmd, tag, announced, overwritten, asked, faults>>

\* check_experiment_exists(name, False) registers a folder without a row.
NameTaken(p) ==
  LET n == name[p] IN
  /\ pc[p] = "check"
  /\ ~Ambiguous(n)
  /\ \/ Rows(n) # {} /\ UNCHANGED <<rows, nextId>>
     \/ Rows(n) = {} /\ dir[n].is # "none" /\ Insert(n)
  /\ n + 1 \in Names
  /\ name' = [name EXCEPT ![p] = n + 1]
  /\ UNCHANGED <<backend, details, diskVars, pc, cmd, tag, announced, overwritten, asked, faults>>

NameFree(p) ==
  /\ pc[p] = "check"
  /\ Rows(name[p]) = {} /\ dir[name[p]].is = "none"
  /\ Go(p, "save")
  /\ Stay
  /\ UNCHANGED <<backend, dbVars, diskVars, announced, overwritten, asked, faults>>

RefusedByDatabase(p) ==
  /\ pc[p] = "check"
  /\ Ambiguous(name[p])
  /\ End(p)
  /\ UNCHANGED <<backend, dbVars, diskVars, announced, overwritten, asked, faults>>

\* Bound: no name is left.
NoNameLeft(p) ==
  /\ pc[p] = "check"
  /\ name[p] = MaxName /\ (Rows(MaxName) # {} \/ dir[MaxName].is # "none")
  /\ End(p)
  /\ UNCHANGED <<backend, dbVars, diskVars, announced, overwritten, asked, faults>>

Save(p) ==
  /\ pc[p] = "save"
  /\ Insert(name[p])
  /\ Go(p, "mkdir")
  /\ Stay
  /\ UNCHANGED <<backend, details, diskVars, announced, overwritten, asked, faults>>

\* The timeout of a database call of expid.
CallLost(p) ==
  /\ pc[p] \in {"expid", "check", "save"}
  /\ Fault
  /\ \/ pc[p] = "save" /\ Insert(name[p])
     \/ UNCHANGED <<rows, nextId>>
  /\ End(p)
  /\ UNCHANGED <<backend, details, diskVars, announced, overwritten, asked>>

CleanedForReal(d, n) == [d EXCEPT ![n] = Nothing]

\* Autosubmit has no _delete_expid: the AttributeError is ignored.
Cleaned(d, n) == d

CanMake(n) == dir[n].is = "none"

\* mkdir without exist_ok.
MakeFolder(p) ==
  LET n == name[p] IN
  /\ pc[p] = "mkdir"
  /\ CanMake(n)
  /\ dir' = [dir EXCEPT ![n] = Thing("made", tag[p])]
  /\ Go(p, "config")
  /\ Stay
  /\ UNCHANGED <<backend, dbVars, tar, announced, overwritten, asked, faults>>

FolderExists(p) ==
  LET n == name[p] IN
  /\ pc[p] = "mkdir"
  /\ ~CanMake(n)
  /\ dir' = Cleaned(dir, n)
  /\ End(p)
  /\ UNCHANGED <<backend, dbVars, tar, announced, overwritten, asked, faults>>

\* The configuration and, when they can be stored, the details.
Configure(p) ==
  LET n == name[p]
      src == cmd[p].name
  IN
  /\ pc[p] = "config"
  /\ src # NoName => dir[src].is = "whole"
  /\ dir' = [dir EXCEPT ![n] = Thing("whole", tag[p])]
  /\ \/ UNCHANGED details
     \/ ~Ambiguous(n) /\ \E r \in Rows(n) : details' = details \cup {r.id}
  /\ announced' = announced \cup {[name |-> n, tag |-> tag[p]]}
  /\ End(p)
  /\ UNCHANGED <<backend, rows, nextId, tar, overwritten, asked, faults>>

CannotConfigure(p) ==
  LET src == cmd[p].name IN
  /\ pc[p] = "config"
  /\ \/ Fault
     \/ src # NoName /\ dir[src].is # "whole" /\ UNCHANGED faults
  /\ dir' = Cleaned(dir, name[p])
  /\ End(p)
  /\ UNCHANGED <<backend, dbVars, tar, announced, overwritten, asked>>

-----------------------------------------------------------------------------
(* delete                                                                  *)

CanDelete(n) == dir[n].is # "none" /\ Rows(n) # {} /\ ~Ambiguous(n)

CannotDelete(p) ==
  /\ pc[p] = "delete"
  /\ ~CanDelete(name[p])
  /\ End(p)
  /\ UNCHANGED <<backend, dbVars, diskVars, announced, overwritten, asked, faults>>

\* ExperimentDetails.delete_details.
DeleteDetails(p) ==
  LET n == name[p] IN
  /\ pc[p] = "delete"
  /\ CanDelete(n)
  /\ \E r \in Rows(n) : details' = details \ {r.id}
  /\ announced' = {a \in announced : a.name # n}
  /\ Go(p, "row")
  /\ Stay
  /\ UNCHANGED <<backend, rows, nextId, diskVars, overwritten, asked, faults>>

\* _perform_deletion goes on when the row could not be deleted.
DeleteRow(p) ==
  LET n == name[p] IN
  /\ pc[p] = "row"
  /\ \/ rows' = rows \ Rows(n) /\ UNCHANGED faults
     \/ Fault /\ rows' \in {rows, rows \ Rows(n)}
  /\ Go(p, "rmtree")
  /\ Stay
  /\ UNCHANGED <<backend, nextId, details, diskVars, announced, overwritten, asked>>

RemoveFolder(p) ==
  LET n == name[p] IN
  /\ pc[p] = "rmtree"
  /\ \/ dir' = [dir EXCEPT ![n] = Nothing] /\ UNCHANGED faults
     \/ Fault /\ dir' = [dir EXCEPT ![n].is = "part"]
  /\ End(p)
  /\ UNCHANGED <<backend, dbVars, tar, announced, overwritten, asked>>

-----------------------------------------------------------------------------
(* archive and unarchive                                                   *)

NotThere(p) ==
  LET n == name[p] IN
  /\ \/ pc[p] = "archive" /\ dir[n].is = "none"
     \/ pc[p] = "unarchive" /\ tar[n][cmd[p].format].is = "none"
  /\ End(p)
  /\ UNCHANGED <<backend, dbVars, diskVars, announced, overwritten, asked, faults>>

SetTar(n, f, t) == tar' = [tar EXCEPT ![n][f] = t]

\* The experiments a command writes over, on the whole copy of one (in its folder
\* or in an archive), with something else or with what is only a part of it.
Over(copy, source) == {a \in announced : copy = Whole(a) /\ source # Whole(a)}

\* The archive is opened with mode w, whatever is in it and in the folder: when
\* the command that made it was killed in rmtree, the rest of the folder is
\* written over the experiment.
TarBegins(p) ==
  LET n == name[p]
      f == cmd[p].format
  IN
  /\ pc[p] = "archive"
  /\ dir[n].is # "none"
  /\ overwritten' = overwritten \cup {a \in Over(tar[n][f], dir[n]) : a.name = n}
  /\ SetTar(n, f, Thing("cut", 0))
  /\ Go(p, "tar")
  /\ Stay
  /\ UNCHANGED <<backend, dbVars, dir, announced, asked, faults>>

TarEnds(p) ==
  LET n == name[p] IN
  /\ pc[p] = "tar"
  /\ \/ /\ SetTar(n, cmd[p].format, dir[n])
        /\ Go(p, "remove")
        /\ Stay
        /\ UNCHANGED faults
     \/ /\ Fault
        /\ End(p)
        /\ UNCHANGED tar
  /\ UNCHANGED <<backend, dbVars, dir, announced, overwritten, asked>>

RemoveBegins(p) ==
  LET n == name[p] IN
  /\ pc[p] = "remove"
  /\ dir' = [dir EXCEPT ![n].is = "part"]
  /\ Go(p, "removing")
  /\ Stay
  /\ UNCHANGED <<backend, dbVars, tar, announced, overwritten, asked, faults>>

\* rmtree or, when it fails, a rename or, when that fails, unarchive, which looks
\* for a compressed archive.
RemoveEnds(p) ==
  LET n == name[p] IN
  /\ pc[p] = "removing"
  /\ \/ dir' = [dir EXCEPT ![n] = Nothing] /\ End(p) /\ UNCHANGED faults
     \/ /\ Fault
        /\ cmd' = [cmd EXCEPT ![p].format = "tar.gz", ![p].what = "unarchive"]
        /\ Go(p, "unarchive")
        /\ UNCHANGED <<dir, name, tag>>
  /\ UNCHANGED <<backend, dbVars, tar, announced, overwritten, asked>>

\* The folder is made, or there already, and the archive is being extracted; a
\* folder that holds the whole experiment the archive is of goes on holding it.
ExtractBegins(p) ==
  LET n == name[p]
      t == tar[n][cmd[p].format]
  IN
  /\ pc[p] = "unarchive"
  /\ t.is # "none"
  /\ overwritten' = overwritten \cup {a \in Over(dir[n], t) : a.name = n}
  /\ dir' = IF dir[n] = Whole(t) THEN dir ELSE [dir EXCEPT ![n] = Thing("part", t.tag)]
  /\ Go(p, "extract")
  /\ Stay
  /\ UNCHANGED <<backend, dbVars, tar, announced, asked, faults>>

\* An archive that cannot be extracted takes the folder with it.
ExtractEnds(p) ==
  LET n == name[p]
      t == tar[n][cmd[p].format]
  IN
  /\ pc[p] = "extract"
  /\ \/ /\ t.is # "cut"
        /\ dir' = IF dir[n] = Whole(t) THEN dir ELSE [dir EXCEPT ![n] = t]
        /\ Go(p, "unlink")
        /\ Stay
        /\ UNCHANGED faults
     \/ /\ (t.is = "cut" /\ UNCHANGED faults) \/ Fault
        /\ dir' = [dir EXCEPT ![n] = Nothing]
        /\ End(p)
  /\ UNCHANGED <<backend, dbVars, tar, announced, overwritten, asked>>

RemoveTar(p) ==
  /\ pc[p] = "unlink"
  /\ \/ SetTar(name[p], cmd[p].format, Nothing) /\ UNCHANGED faults
     \/ Fault /\ UNCHANGED tar
  /\ End(p)
  /\ UNCHANGED <<backend, dbVars, dir, announced, overwritten, asked>>

-----------------------------------------------------------------------------
Expid(p) ==
  \/ CannotCopy(p) \/ ReadLast(p) \/ NameTaken(p) \/ NameFree(p) \/ RefusedByDatabase(p)
  \/ NoNameLeft(p) \/ Save(p) \/ CallLost(p) \/ MakeFolder(p) \/ FolderExists(p)
  \/ Configure(p) \/ CannotConfigure(p)

Delete(p) == CannotDelete(p) \/ DeleteDetails(p) \/ DeleteRow(p) \/ RemoveFolder(p)

Archive(p) == NotThere(p) \/ TarBegins(p) \/ TarEnds(p) \/ RemoveBegins(p) \/ RemoveEnds(p)

Unarchive(p) == ExtractBegins(p) \/ ExtractEnds(p) \/ RemoveTar(p)

Next ==
  \E p \in Procs :
    \/ \E c \in Commands : Start(p, c)
    \/ Expid(p) \/ Delete(p) \/ Archive(p) \/ Unarchive(p) \/ Kill(p)

Spec == Init /\ [][Next]_vars

-----------------------------------------------------------------------------
(* Properties.                                                             *)

\* Every variable has its type.
TypeOK ==
  /\ backend \in {"sqlite", "postgres"}
  /\ nextId \in Nat \ {0}
  /\ rows \subseteq [id : 1..(nextId - 1), name : Names]
  /\ details \subseteq 1..(nextId - 1)
  /\ dir \in [Names -> Things]
  /\ tar \in [Names -> [Formats -> Things]]
  /\ pc \in [Procs -> {"idle", "expid", "check", "save", "mkdir", "config", "delete",
                      "row", "rmtree", "archive", "tar", "remove", "removing",
                      "unarchive", "extract", "unlink"}]
  /\ cmd \in [Procs -> Command({"expid", "delete", "archive", "unarchive"}, Kinds, 0..NoName, Formats)]
  /\ name \in [Procs -> 0..NoName]
  /\ tag \in [Procs -> 0..MaxCommands]
  /\ announced \subseteq [name : Names, tag : 0..MaxCommands]
  /\ overwritten \subseteq [name : Names, tag : 0..MaxCommands]
  /\ asked \in 0..MaxCommands
  /\ faults \in 0..MaxFaults

\* Two users who create experiments at the same time, or one of whom creates one
\* after an experiment was archived, are never given the same expid.
CreatedOnce ==
  \A a1, a2 \in announced : a1.name = a2.name => a1.tag = a2.tag

\* An experiment that was created, and that nobody deletes, has its row, and is
\* whole in its folder or in an archive, whatever another command that failed
\* cleans up.  Of commands that are interrupted, only two may lose it, and only
\* when they are given again for what is left of it: an archive of a folder that
\* is no longer whole, which is opened over the whole archive, and an unarchive
\* of what is not the whole experiment, onto the whole folder.
NothingLost ==
  \A a \in announced :
    /\ Rows(a.name) # {}
    /\ \/ Whole(a) \in {dir[a.name]} \cup {tar[a.name][f] : f \in Formats}
       \/ a \in overwritten

\* What a creation announced stays the only experiment of its name, and whole
\* unless one is archived or unarchived over it as NothingLost says.
ExperimentsKept == CreatedOnce /\ NothingLost
=============================================================================
