------------------------------- MODULE Projects -------------------------------
(***************************************************************************)
(* The project folder of an experiment: the copy of the code the jobs run, *)
(* which create makes, refresh replaces, clean removes and run checks,     *)
(* while users change, commit and push what it holds.                      *)
(*                                                                         *)
(* Code: AutosubmitGit.clone_repository, clean_git, check_unpushed_changes *)
(* (git/autosubmit_git.py); Autosubmit._copy_code, refresh, clean, create  *)
(* and _create_project_associated_conf (autosubmit.py).                    *)
(*                                                                         *)
(* Commands are given one at a time: refresh and clean take no lock.  The  *)
(* commands a shell runs (git, svn, cp, rsync) succeed or fail; a piece of *)
(* work is a number; hooks, depths and branches of clones are left out.    *)
(***************************************************************************)
EXTENDS Naturals, FiniteSets

CONSTANTS
  Kinds,       \* PROJECT.PROJECT_TYPE
  MaxWork,     \* pieces of work of the users are 1..MaxWork (bound)
  MaxCommands, \* commands of the users (bound)
  MaxFaults    \* kills and commands of the shell that fail (bound)

Works == 1..MaxWork

VARIABLES
  setup,    \* the configuration, and whether the experiment is operational
  proj,     \* the folder proj
  backup,   \* proj_<time>, made by the command at work
  kept,     \* the backups earlier commands left
  saved,    \* each piece of work: not made, edited, committed on a branch (committed) or
            \* on none (detached), pushed, or pushed without the submodule it is in (inside)
  conf,     \* the file of conf that a project brings, and its _backup
  cmd, pc,  \* the command at work, and where it is
  marred,   \* a kill, or a failure the code keeps the backup for, has happened
  asked, faults

projectsVars == <<setup, proj, backup, kept, saved, conf, cmd, pc, marred, asked, faults>>

\* What a folder is, whether its HEAD is on a branch, and the work it holds.
Folder(is, branch, holds) == [is |-> is, branch |-> branch, holds |-> holds]
NoFolder == Folder("none", TRUE, {})
Empty == Folder("empty", TRUE, {})
Folders == [is : {"none", "empty", "part", "whole"}, branch : BOOLEAN, holds : SUBSET Works]

\* The folder of the destination, inside proj.
HasDestination == proj.is \in {"part", "whole"}

\* PROJECT_COMMIT is not set, a commit of the origin, or unknown to it; remote:
\* PROJECT_ORIGIN is cloned under REMOTE_CLONE_ROOT.
Setups ==
  [kind : Kinds, commit : {"unset", "known", "unknown"}, submodules : BOOLEAN,
   remote : BOOLEAN, operational : BOOLEAN]

Git == setup.kind = "git" /\ ~setup.remote

Held == UNION {f.holds : f \in {proj, backup} \cup kept}

ProjectsTypeOK ==
  /\ setup \in Setups
  /\ proj \in Folders /\ backup \in Folders /\ kept \subseteq Folders
  /\ saved \in [Works -> {"not_made", "edited", "committed", "detached", "inside", "pushed"}]
  /\ conf \in [file : {"none", "user", "project"}, old : {"none", "user", "project"}]
  /\ cmd \in {"create", "refresh", "clean", "run"}
  /\ marred \in BOOLEAN
  /\ asked \in Nat /\ faults \in Nat

ProjectsInit ==
  /\ setup \in {s \in Setups :
                 s.kind # "git" => s.commit = "unset" /\ ~s.submodules /\ ~s.remote}
  /\ proj = NoFolder /\ backup = NoFolder /\ kept = {}
  /\ saved = [w \in Works |-> "not_made"]
  /\ conf = [file |-> "none", old |-> "none"]
  /\ cmd = "create" /\ pc = "idle"
  /\ marred = FALSE /\ asked = 0 /\ faults = 0

Forced == cmd = "refresh"

Go(point) == pc' = point
Same == UNCHANGED <<setup, saved, cmd, asked>>
SameDisk == UNCHANGED <<proj, backup, kept, conf>>
Fine == UNCHANGED <<marred, faults>>
Fault == faults < MaxFaults /\ faults' = faults + 1

-----------------------------------------------------------------------------
\* The users.  They begin no work while a command is under way.
Edit(w) ==
  /\ pc = "idle" /\ proj.is = "whole" /\ saved[w] = "not_made"
  /\ saved' = [saved EXCEPT ![w] = "edited"]
  /\ proj' = [proj EXCEPT !.holds = @ \cup {w}]
  /\ UNCHANGED <<setup, backup, kept, conf, cmd, pc, marred, asked, faults>>

Becomes(from, to) ==
  /\ \E w \in proj.holds : saved[w] = from
  /\ saved' = [w \in Works |-> IF w \in proj.holds /\ saved[w] = from THEN to ELSE saved[w]]
  /\ UNCHANGED <<setup, cmd, pc, asked>> /\ SameDisk /\ Fine

\* After `git checkout <commit>' a commit is on no branch.
Commit ==
  setup.kind = "git" /\ Becomes("edited", IF proj.branch THEN "committed" ELSE "detached")

Push == setup.kind = "git" /\ Becomes("committed", "pushed")

\* `git push' does not push the submodules.
PushAlone == setup.kind = "git" /\ setup.submodules /\ Becomes("committed", "inside")

PushSubmodules == setup.kind = "git" /\ Becomes("inside", "pushed")

First(c) ==
  CASE c = "run" -> "committed?"
    [] c = "clean" -> "folder?"
    [] OTHER -> setup.kind

Begin(c) ==
  /\ pc = "idle" /\ asked < MaxCommands
  /\ asked' = asked + 1 /\ cmd' = c /\ Go(First(c))
  /\ UNCHANGED <<setup, saved>> /\ SameDisk /\ Fine

\* What a backup was made of is left where it is.
End ==
  /\ pc' = "idle" /\ backup' = NoFolder
  /\ kept' = kept \cup ({backup} \ {NoFolder})

Quit == End /\ UNCHANGED <<proj, conf>> /\ Fine /\ Same

\* A kill may leave what was being written or removed half done.
Kill ==
  /\ pc # "idle" /\ Fault
  /\ End
  /\ marred' = TRUE
  /\ proj' \in {proj} \cup
       (IF pc \in {"clone", "checkout", "svn_checkout", "copy", "rsync", "remove", "discard"}
        THEN {Folder("part", TRUE, {})} ELSE {})
  /\ UNCHANGED conf /\ Same

-----------------------------------------------------------------------------
\* clone_repository.
MakeBackup ==
  /\ pc = "git"
  /\ IF Forced /\ proj.is # "none"
     THEN backup' = proj /\ proj' = NoFolder
     ELSE UNCHANGED <<backup, proj>>
  /\ Go("folder")
  /\ UNCHANGED <<kept, conf>> /\ Fine /\ Same

\* The folder exists: SKIPPING.
Skip ==
  /\ \/ pc = "folder" /\ HasDestination
     \/ pc = "svn" /\ ~Forced /\ proj.is # "none"
     \/ pc = "local" /\ ~Forced /\ HasDestination
  /\ Go("made") /\ SameDisk /\ Fine /\ Same

MakeFolder ==
  /\ pc = "folder" /\ ~HasDestination
  /\ proj' = Empty
  /\ Go(IF setup.remote THEN "remote" ELSE "clone")
  /\ UNCHANGED <<backup, kept, conf>> /\ Fine /\ Same

\* Mutant: the backup is removed as soon as the clone is there.
Clone_Drops ==
  /\ pc = "clone"
  /\ proj' = Folder("part", TRUE, {})
  /\ backup' = NoFolder
  /\ Go("checkout")
  /\ UNCHANGED <<kept, conf>> /\ Fine /\ Same

Clone ==
  /\ pc = "clone"
  /\ proj' = Folder("part", TRUE, {})
  /\ Go("checkout")
  /\ UNCHANGED <<backup, kept, conf>> /\ Fine /\ Same

CloneFails ==
  /\ pc = "clone" /\ Fault
  /\ Go("discard")
  /\ SameDisk /\ UNCHANGED marred /\ Same

\* Mutant: the old folder is not brought back.
Restore_Not == pc = "restore" /\ Quit

\* CalledProcessError: the new folder is removed, the old one brought back.
Discard ==
  /\ pc = "discard"
  /\ proj' = NoFolder
  /\ Go("restore")
  /\ UNCHANGED <<backup, kept, conf>> /\ Fine /\ Same

Restore ==
  /\ pc = "restore"
  /\ proj' = IF backup.is # "none" THEN backup ELSE proj
  /\ pc' = "idle" /\ backup' = NoFolder
  /\ UNCHANGED <<kept, conf>> /\ Fine /\ Same

\* One shell runs the checkout and then the submodules: its status is that of
\* the last, and an unknown commit is noticed only when there are none.
Noticed == setup.commit = "unknown" /\ ~setup.submodules

Checkout ==
  /\ pc = "checkout" /\ ~Noticed
  /\ proj' = Folder("whole", setup.commit # "known", {})
  /\ Go("drop")
  /\ UNCHANGED <<backup, kept, conf>> /\ Fine /\ Same

\* submodule_failure: the backup is not removed, and the answer is False.
CheckoutFails ==
  /\ pc = "checkout"
  /\ \/ Noticed /\ UNCHANGED faults
     \/ setup.submodules /\ Fault
  /\ marred' = TRUE
  /\ End
  /\ UNCHANGED <<proj, conf>> /\ Same

DropBackup ==
  /\ pc = "drop"
  /\ backup' = NoFolder
  /\ Go("made")
  /\ UNCHANGED <<proj, kept, conf>> /\ Fine /\ Same

\* With REMOTE_CLONE_ROOT the clone is elsewhere.  A local platform answers
\* False when it fails, which nobody reads; any other, which nobody connected,
\* and a name that is not a platform, raise an exception.
RemoteClone ==
  /\ pc = "remote"
  /\ \/ Go("drop") /\ UNCHANGED <<proj, backup, kept, marred, faults, conf>>
     \/ Fault /\ marred' = TRUE /\ Go("drop") /\ UNCHANGED <<proj, backup, kept, conf>>
     \/ Fault /\ marred' = TRUE /\ End /\ UNCHANGED <<proj, conf>>
  /\ Same

-----------------------------------------------------------------------------
\* The other kinds of project, in _copy_code.
SvnFolder ==
  /\ pc = "svn" /\ (Forced \/ proj.is = "none")
  /\ proj' = Empty
  /\ Go("svn_checkout")
  /\ UNCHANGED <<backup, kept, conf>> /\ Fine /\ Same

SvnCheckout ==
  /\ pc = "svn_checkout"
  /\ proj' = Folder("whole", TRUE, {})
  /\ Go("made")
  /\ UNCHANGED <<backup, kept, conf>> /\ Fine /\ Same

LocalFolder ==
  /\ pc = "local" /\ ~HasDestination
  /\ proj' = Folder("part", TRUE, {})
  /\ Go("copy")
  /\ UNCHANGED <<backup, kept, conf>> /\ Fine /\ Same

CopyContents ==
  /\ pc = "copy"
  /\ proj' = Folder("whole", TRUE, {})
  /\ Go("made")
  /\ UNCHANGED <<backup, kept, conf>> /\ Fine /\ Same

\* A checkout or a copy that fails takes the folder with it.
CopyFails ==
  /\ pc \in {"svn_checkout", "copy"} /\ Fault
  /\ proj' = NoFolder
  /\ Go("idle")
  /\ UNCHANGED <<backup, kept, conf, marred>> /\ Same

Resync ==
  /\ pc = "local" /\ Forced /\ HasDestination
  /\ Go("rsync") /\ SameDisk /\ Fine /\ Same

\* subprocess.call raises no exception when rsync fails.
Rsync ==
  /\ pc = "rsync"
  /\ \/ proj' = Folder("whole", TRUE, {}) /\ Fine
     \/ proj' = Folder("part", TRUE, {}) /\ Fault /\ marred' = TRUE
  /\ Go("made")
  /\ UNCHANGED <<backup, kept, conf>> /\ Same

\* _copy_code has answered True: create goes on, refresh turns to the files of
\* conf.
Made ==
  /\ pc = "made"
  /\ IF Forced THEN Go("conf") ELSE pc' = "idle"
  /\ SameDisk /\ Fine /\ Same

\* _create_project_associated_conf, for one file, with and without -mc or -jc.
KeepConf ==
  /\ pc = "conf"
  /\ \/ conf.file = "none" /\ Go("conf_copy") /\ UNCHANGED conf
     \/ conf.file # "none" /\ Go("conf_copy") /\ conf' = [file |-> "none", old |-> conf.file]
     \/ Go("idle") /\ UNCHANGED conf
  /\ UNCHANGED <<proj, backup, kept>> /\ Fine /\ Same

CopyConf ==
  /\ pc = "conf_copy"
  /\ conf' = [conf EXCEPT !.file = "project"]
  /\ Go("idle")
  /\ UNCHANGED <<proj, backup, kept>> /\ Fine /\ Same

-----------------------------------------------------------------------------
\* _get_uncommitted_code, and _get_code_not_pushed: what is on a branch of the project
\* itself and on no remote.
Uncommitted == {w \in proj.holds : saved[w] = "edited"}
NotPushed == {w \in proj.holds : saved[w] = "committed"}

\* clean: nothing to do for another kind; SKIPPING what is no repository.
CleanFolder ==
  /\ pc = "folder?"
  /\ \/ setup.kind = "git" /\ HasDestination /\ Go("committed?") /\ SameDisk
     \/ (setup.kind # "git" \/ proj.is # "whole") /\ End /\ UNCHANGED <<proj, conf>>
  /\ Fine /\ Same

\* The check of the run is for git and operational experiments.
NotChecked == cmd = "run" /\ (setup.kind # "git" \/ ~setup.operational)

CheckCommitted ==
  /\ pc = "committed?" /\ ~NotChecked /\ HasDestination
  /\ Uncommitted = {}
  /\ Go("pushed?") /\ SameDisk /\ Fine /\ Same

\* Mutant: only clean looks at what is not pushed.
CheckPushed_CleanOnly ==
  /\ pc = "pushed?"
  /\ cmd = "clean" => NotPushed = {}
  /\ Go(IF cmd = "run" THEN "run" ELSE "remove") /\ SameDisk /\ Fine /\ Same

CheckPushed ==
  /\ pc = "pushed?"
  /\ NotPushed = {}
  /\ Go(IF cmd = "run" THEN "run" ELSE "remove") /\ SameDisk /\ Fine /\ Same

NotClean ==
  /\ \/ pc = "committed?" /\ ~NotChecked /\ (proj.is # "whole" \/ Uncommitted # {})
     \/ pc = "pushed?" /\ NotPushed # {}
  /\ Quit

PassUnchecked ==
  pc = "committed?" /\ NotChecked /\ Go("run") /\ SameDisk /\ Fine /\ Same

RemoveClone ==
  /\ pc = "remove"
  /\ proj' = NoFolder
  /\ Go("idle")
  /\ UNCHANGED <<backup, kept, conf>> /\ Fine /\ Same

\* The run itself is in the module JobList.
RunEnds == pc = "run" /\ Quit

-----------------------------------------------------------------------------
Command ==
  \/ MakeBackup \/ Skip \/ MakeFolder \/ Clone \/ CloneFails \/ Discard \/ Restore
  \/ Checkout \/ CheckoutFails \/ DropBackup \/ RemoteClone
  \/ SvnFolder \/ SvnCheckout \/ LocalFolder \/ CopyContents \/ CopyFails
  \/ Resync \/ Rsync \/ Made \/ KeepConf \/ CopyConf
  \/ CleanFolder \/ CheckCommitted \/ CheckPushed \/ NotClean \/ PassUnchecked
  \/ RemoveClone \/ RunEnds

ProjectsNext ==
  \/ \E w \in Works : Edit(w)
  \/ Commit \/ Push \/ PushAlone \/ PushSubmodules
  \/ \E c \in {"create", "refresh", "clean", "run"} : Begin(c)
  \/ Kill
  \/ Command

ProjectsSpec == ProjectsInit /\ [][ProjectsNext]_projectsVars

-----------------------------------------------------------------------------
(* Properties *)

\* What git does not name when it is asked for what is not pushed: commits on no branch,
\* which who works on a PROJECT_COMMIT makes, and commits of a submodule.
Unnamed(w) ==
  \/ saved[w] = "detached" /\ setup.commit = "known"
  \/ saved[w] = "inside" /\ setup.submodules

\* What is not pushed leaves the disk only when a refresh has put a whole clone
\* in its place: neither a clean, nor a refresh that fails or is killed, takes
\* it.  (The exceptions: `git log --branches --not --remotes' names no commit that is
\* on no branch, and none of a submodule: a clean takes those of who works on a
\* PROJECT_COMMIT, or pushed without the submodules.)
\* Code: clone_repository's backup, its restoration and removal; clean_git.
WorkIsKept ==
  [][Git => \A w \in Held \ Held' :
       \/ saved[w] = "pushed"
       \/ Forced /\ proj'.is = "whole"
       \/ cmd = "clean" /\ Unnamed(w)]_projectsVars

\* When create goes on, its project is whole, unless something was killed or a
\* failure was answered with False before: a copy that failed is never taken for
\* one that is there.
\* Code: `if not force: return True' in clone_repository and _copy_code.
MadeIsWhole == pc = "made" /\ ~setup.remote => proj.is = "whole" \/ marred

\* An operational run starts with nothing that is edited, or committed on a branch and
\* not pushed, also when users commit between the two questions to git; on a branch of a
\* project without submodules, everything it starts with is pushed.  The docstring of
\* the check promises it for the rest too: what git does not name is the exception.
\* Code: check_unpushed_changes.
RunsWhatIsPushed ==
  [][pc = "pushed?" /\ pc' = "run" =>
       \A w \in proj.holds : saved[w] = "pushed" \/ Unnamed(w)]_projectsVars

\* A backup is left behind only by a kill, or by a failure the code says so of.
\* Code: clone_repository.
NoBackupLeft == kept # {} => marred

\* Neither half a project nor the backup of one is left where nothing was killed
\* and no failure was answered with False: each way a clone, a checkout or a copy
\* fails undoes what it did.
CodeIsWhole == MadeIsWhole /\ NoBackupLeft
=============================================================================
