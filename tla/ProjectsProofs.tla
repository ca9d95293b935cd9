--------------------------- MODULE ProjectsProofs ---------------------------
(***************************************************************************)
(* Proofs about Projects for any number of pieces of work, commands, kills *)
(* and failures.                                                           *)
(***************************************************************************)
EXTENDS Projects, TLAPS

KnownKinds == Kinds \subseteq {"git", "svn", "local"}

-----------------------------------------------------------------------------
(* The invariant.                                                          *)

\* Where each kind of project is made.
GitPoints == {"git", "folder", "remote", "clone", "discard", "restore", "checkout", "drop"}
OtherPoints == {"svn", "svn_checkout", "local", "copy", "rsync"}
AskPoints == {"folder?", "committed?", "pushed?", "run", "remove"}
DonePoints == {"idle", "made", "conf", "conf_copy"}

Points == GitPoints \cup OtherPoints \cup AskPoints \cup DonePoints

\* Which command, and which kind of project, brings one where.
PointsInv ==
  /\ pc \in Points
  /\ pc \in OtherPoints => setup.kind # "git"
  /\ pc \in {"clone", "checkout", "discard", "restore"} => ~setup.remote
  /\ pc = "remote" => setup.remote
  /\ pc \in AskPoints => cmd \in {"clean", "run"}
  /\ pc \in {"folder?", "remove"} => cmd = "clean"

\* Only a whole project holds work, only a refresh makes a backup, and there is
\* one only until the clone has replaced the folder it was made of.
BackupInv ==
  /\ proj.is # "whole" => proj.holds = {}
  /\ backup.is # "whole" => backup.holds = {}
  /\ pc \notin {"folder", "remote", "clone", "discard", "restore", "checkout", "drop"} =>
       backup = NoFolder
  /\ backup # NoFolder => cmd = "refresh"
  /\ pc = "folder" /\ backup # NoFolder => proj = NoFolder
  /\ pc \in {"remote", "clone", "discard", "restore", "checkout"} => proj.is # "whole"
  /\ pc = "drop" /\ ~setup.remote => proj.is = "whole"

\* Where nothing was marred, a folder is none or whole between two commands.
WholeInv ==
  ~marred =>
    /\ ~setup.remote /\ pc \in {"git", "folder", "svn", "local"} \cup AskPoints \cup DonePoints
         => proj.is \in {"none", "whole"}
    /\ ~setup.remote => backup.is \in {"none", "whole"}
    /\ ~setup.remote /\ pc \in {"made", "drop"} => proj.is = "whole"
    /\ pc = "restore" => proj.is = "none"
    /\ kept = {}

\* The HEAD of who works on a PROJECT_COMMIT is on no branch, and of nobody else: work is
\* of the commits git does not name only there, or in a submodule.
BranchInv ==
  /\ proj.is = "whole" => (proj.branch <=> setup.commit # "known")
  /\ backup.is = "whole" => (backup.branch <=> setup.commit # "known")
  /\ setup.kind # "git" => setup.commit = "unset"
  /\ \A w \in Works : saved[w] = "detached" => setup.commit = "known"
  /\ \A w \in Works : saved[w] = "inside" => setup.submodules

\* What was asked of git stays as it was answered: nobody begins new work.
AnswersInv ==
  /\ \A w \in proj.holds \cup backup.holds : saved[w] # "not_made"
  /\ pc = "pushed?" => \A w \in proj.holds : saved[w] # "edited"
  /\ pc = "remove" => \A w \in proj.holds : saved[w] \in {"pushed", "detached", "inside"}

ProjectInv == PointsInv /\ BackupInv /\ WholeInv /\ AnswersInv /\ BranchInv

-----------------------------------------------------------------------------
(* Type correctness.                                                       *)

\* A folder made of its three parts is one.
LEMMA FolderType ==
  ASSUME NEW is \in {"none", "empty", "part", "whole"}, NEW b \in BOOLEAN,
         NEW S \in SUBSET Works
  PROVE  Folder(is, b, S) \in Folders
BY DEF Folder, Folders

LEMMA FoldersMade ==
  /\ NoFolder \in Folders /\ Empty \in Folders
  /\ Folder("part", TRUE, {}) \in Folders
  /\ \A b \in BOOLEAN : Folder("whole", b, {}) \in Folders
BY FolderType DEF NoFolder, Empty

LEMMA InitTypes == ProjectsInit => ProjectsTypeOK
<1> SUFFICES ASSUME ProjectsInit PROVE ProjectsTypeOK
  OBVIOUS
<1>1. setup \in Setups
  BY DEF ProjectsInit
<1>2. saved \in [Works -> {"not_made", "edited", "committed", "detached", "inside", "pushed"}]
  BY DEF ProjectsInit
<1>3. conf \in [file : {"none", "user", "project"}, old : {"none", "user", "project"}]
  BY DEF ProjectsInit
<1>4. proj \in Folders /\ backup \in Folders /\ kept \subseteq Folders
  BY FoldersMade DEF ProjectsInit
<1> QED
  BY <1>1, <1>2, <1>3, <1>4 DEF ProjectsInit, ProjectsTypeOK

LEMMA NextTypes == ProjectsTypeOK /\ [ProjectsNext]_projectsVars => ProjectsTypeOK'
<1> SUFFICES ASSUME ProjectsTypeOK, [ProjectsNext]_projectsVars PROVE ProjectsTypeOK'
  OBVIOUS
<1> USE FoldersMade
<1>1. CASE UNCHANGED projectsVars
  BY <1>1 DEF ProjectsTypeOK, projectsVars
<1>2. CASE \E w \in Works : Edit(w)
  BY <1>2 DEF ProjectsTypeOK, Edit, Folders
<1>3. CASE Commit \/ Push \/ PushAlone \/ PushSubmodules
  BY <1>3 DEF ProjectsTypeOK, Commit, Push, PushAlone, PushSubmodules, Becomes, SameDisk, Fine
<1>4. CASE \E c \in {"create", "refresh", "clean", "run"} : Begin(c)
  BY <1>4 DEF ProjectsTypeOK, Begin, SameDisk, Fine
<1>5. CASE Kill
  <2>1. proj' \in Folders /\ backup' \in Folders /\ kept' \subseteq Folders
    BY <1>5 DEF ProjectsTypeOK, Kill, End
  <2>2. marred' \in BOOLEAN /\ faults' \in Nat /\ UNCHANGED <<setup, saved, conf, cmd, asked>>
    BY <1>5 DEF ProjectsTypeOK, Kill, Same, Fault
  <2> QED
    BY <2>1, <2>2 DEF ProjectsTypeOK
<1>6. CASE MakeBackup \/ Skip \/ MakeFolder \/ Clone \/ CloneFails \/ Discard \/ Restore
  <2>1. proj' \in Folders /\ backup' \in Folders /\ kept' = kept
    BY <1>6 DEF ProjectsTypeOK, MakeBackup, Skip, MakeFolder, Clone, CloneFails, Discard, Restore,
                SameDisk
  <2>2. UNCHANGED <<setup, saved, conf, cmd, marred, asked>>
    BY <1>6 DEF MakeBackup, Skip, MakeFolder, Clone, CloneFails, Discard, Restore,
                SameDisk, Same, Fine
  <2>3. faults' \in {faults, faults + 1}
    BY <1>6 DEF MakeBackup, Skip, MakeFolder, Clone, CloneFails, Discard, Restore, Fine,
                Fault
  <2> QED
    BY <2>1, <2>2, <2>3 DEF ProjectsTypeOK
<1>7. CASE Checkout \/ CheckoutFails \/ DropBackup \/ RemoteClone
  <2>1. proj' \in Folders /\ backup' \in Folders /\ kept' \subseteq Folders
    <3>1. (setup.commit # "known") \in BOOLEAN
      OBVIOUS
    <3> QED
      BY <1>7, <3>1 DEF ProjectsTypeOK, Checkout, CheckoutFails, DropBackup, RemoteClone, End
  <2>2. marred' \in {marred, TRUE} /\ UNCHANGED <<setup, saved, conf, cmd, asked>>
    BY <1>7 DEF Checkout, CheckoutFails, DropBackup, RemoteClone, Same, Fine
  <2>3. faults' \in {faults, faults + 1}
    BY <1>7 DEF Checkout, CheckoutFails, DropBackup, RemoteClone, Fine, Fault
  <2>4. marred' \in BOOLEAN
    BY <2>2, Zenon DEF ProjectsTypeOK
  <2> QED
    BY <2>1, <2>2, <2>3, <2>4 DEF ProjectsTypeOK
<1>8. CASE \/ SvnFolder \/ SvnCheckout \/ LocalFolder \/ CopyContents \/ CopyFails
           \/ Resync \/ Rsync
  <2>1. proj' \in Folders /\ backup' = backup /\ kept' = kept
    BY <1>8 DEF ProjectsTypeOK, SvnFolder, SvnCheckout, LocalFolder, CopyContents, CopyFails,
                Resync, Rsync, SameDisk
  <2>2. marred' \in {marred, TRUE} /\ UNCHANGED <<setup, saved, conf, cmd, asked>>
    BY <1>8 DEF SvnFolder, SvnCheckout, LocalFolder, CopyContents, CopyFails,
                Resync, Rsync, Same, SameDisk, Fine
  <2>3. faults' \in {faults, faults + 1}
    BY <1>8 DEF SvnFolder, SvnCheckout, LocalFolder, CopyContents, CopyFails,
                Resync, Rsync, Fine, Fault
  <2>4. marred' \in BOOLEAN
    BY <2>2, Zenon DEF ProjectsTypeOK
  <2> QED
    BY <2>1, <2>2, <2>3, <2>4 DEF ProjectsTypeOK
<1>9. CASE Made \/ KeepConf \/ CopyConf
  BY <1>9 DEF ProjectsTypeOK, Made, KeepConf, CopyConf, Same, SameDisk, Fine
<1>10. CASE \/ CleanFolder \/ CheckCommitted \/ CheckPushed \/ NotClean
            \/ PassUnchecked \/ RemoveClone \/ RunEnds
  BY <1>10 DEF ProjectsTypeOK, CleanFolder, CheckCommitted, CheckPushed, NotClean, PassUnchecked,
               RemoveClone, RunEnds, Quit, End, Same, SameDisk, Fine
<1> QED
  BY <1>1, <1>2, <1>3, <1>4, <1>5, <1>6, <1>7, <1>8, <1>9, <1>10 DEF ProjectsNext, Command

\* Every variable keeps its type.
THEOREM ProjectTypesCorrect == ProjectsSpec => []ProjectsTypeOK
BY InitTypes, NextTypes, PTL DEF ProjectsSpec

-----------------------------------------------------------------------------
(* ProjectInv is inductive.                                                *)

LEMMA InitInv == ProjectsInit => ProjectInv
BY DEF ProjectsInit, ProjectInv, PointsInv, BackupInv, WholeInv, AnswersInv, Points, DonePoints,
       GitPoints, OtherPoints, AskPoints, NoFolder, Folder, Git, BranchInv

LEMMA UsersInv ==
  ASSUME ProjectsTypeOK, ProjectInv,
         (\E w \in Works : Edit(w)) \/ Commit \/ Push \/ PushAlone \/ PushSubmodules
  PROVE  ProjectInv'
<1> USE DEF PointsInv, BackupInv, WholeInv, AnswersInv, Git
<1>1. CASE \E w \in Works : Edit(w)
  <2>1. PICK w \in Works : Edit(w)
    BY <1>1
  <2>2. /\ proj.is = "whole" /\ proj'.is = "whole" /\ proj'.holds = proj.holds \cup {w}
        /\ pc = "idle" /\ saved'[w] = "edited"
        /\ \A v \in Works : saved'[v] = "edited" \/ saved'[v] = saved[v]
        /\ proj'.branch = proj.branch
    BY <2>1 DEF Edit, ProjectsTypeOK, Folders
  <2>3. UNCHANGED <<setup, backup, kept, cmd, pc, marred>>
    BY <2>1 DEF Edit
  <2>4. proj.holds \subseteq Works /\ backup.holds \subseteq Works
    BY DEF ProjectsTypeOK, Folders
  <2>5. BranchInv'
    BY <2>2, <2>3 DEF ProjectInv, BranchInv
  <2> QED
    BY <2>2, <2>3, <2>4, <2>5 DEF ProjectInv
<1>2. CASE Commit \/ Push \/ PushAlone \/ PushSubmodules
  <2>1. UNCHANGED <<setup, proj, backup, kept, cmd, pc, marred>>
    BY <1>2 DEF Commit, Push, PushAlone, PushSubmodules, Becomes, SameDisk, Fine
  <2>2. PICK from \in {"edited", "committed", "inside"},
             to \in {"committed", "detached", "inside", "pushed"} :
          /\ from = "edited" => to \in {"committed", "detached"}
          /\ from # "edited" => to \in {"inside", "pushed"}
          /\ to = "detached" => setup.kind = "git" /\ ~proj.branch
          /\ to = "inside" => setup.submodules
          /\ saved' = [w \in Works |->
               IF w \in proj.holds /\ saved[w] = from THEN to ELSE saved[w]]
    BY <1>2 DEF Commit, Push, PushAlone, PushSubmodules, Becomes
  <2>3. proj.holds \subseteq Works /\ backup.holds \subseteq Works
    BY DEF ProjectsTypeOK, Folders
  <2>4. PointsInv' /\ BackupInv' /\ WholeInv'
    BY <2>1 DEF ProjectInv
  <2>5. AnswersInv'
    BY <2>1, <2>2, <2>3 DEF ProjectInv
  <2>6. ASSUME NEW w \in Works, saved'[w] # saved[w], saved'[w] = "detached"
        PROVE  setup.commit = "known"
    <3>1. w \in proj.holds /\ ~proj.branch
      BY <2>2, <2>6
    <3>2. proj.is = "whole"
      BY <3>1 DEF ProjectInv
    <3> QED
      BY <3>1, <3>2 DEF ProjectInv, BranchInv
  <2>7. ASSUME NEW w \in Works, saved'[w] # saved[w], saved'[w] = "inside"
        PROVE  setup.submodules
    BY <2>2, <2>7
  <2>8. BranchInv'
    BY <2>1, <2>6, <2>7 DEF ProjectInv, BranchInv
  <2> QED
    BY <2>4, <2>5, <2>8 DEF ProjectInv
<1> QED
  BY <1>1, <1>2

\* Only Checkout makes a whole git project, and it alone says where its HEAD is.
LEMMA CommandBranch ==
  ASSUME ProjectsTypeOK, ProjectInv,
         \/ \E c \in {"create", "refresh", "clean", "run"} : Begin(c)
         \/ Kill \/ Command
  PROVE  BranchInv'
<1> USE DEF Folder, NoFolder, Empty, Same, SameDisk
<1>1. UNCHANGED <<setup, saved>>
  BY DEF Begin, Kill, Command, MakeBackup, Skip, MakeFolder, Clone, CloneFails, Discard, Restore,
         Checkout, CheckoutFails, DropBackup, RemoteClone, SvnFolder, SvnCheckout, LocalFolder,
         CopyContents, CopyFails, Resync, Rsync, Made, KeepConf, CopyConf, CleanFolder,
         CheckCommitted, CheckPushed, NotClean, Quit, PassUnchecked, RemoveClone, RunEnds
<1>2. backup' \in {backup, proj, NoFolder}
  BY DEF Begin, Kill, Command, MakeBackup, Skip, MakeFolder, Clone, CloneFails, Discard, Restore,
         Checkout, CheckoutFails, DropBackup, RemoteClone, SvnFolder, SvnCheckout, LocalFolder,
         CopyContents, CopyFails, Resync, Rsync, Made, KeepConf, CopyConf, CleanFolder, End,
         CheckCommitted, CheckPushed, NotClean, Quit, PassUnchecked, RemoveClone, RunEnds
<1>3. \/ proj' \in {proj, backup} \/ proj'.is # "whole"
      \/ proj' = Folder("whole", setup.commit # "known", {})
      \/ proj' = Folder("whole", TRUE, {}) /\ pc \in OtherPoints
  BY DEF Begin, Kill, Command, MakeBackup, Skip, MakeFolder, Clone, CloneFails, Discard, Restore,
         Checkout, CheckoutFails, DropBackup, RemoteClone, SvnFolder, SvnCheckout, LocalFolder,
         CopyContents, CopyFails, Resync, Rsync, Made, KeepConf, CopyConf, CleanFolder, End,
         CheckCommitted, CheckPushed, NotClean, Quit, PassUnchecked, RemoveClone, RunEnds,
         OtherPoints
<1>4. proj'.is = "whole" => (proj'.branch <=> setup.commit # "known")
  <2>1. CASE proj' \in {proj, backup}
    BY <2>1 DEF ProjectInv, BranchInv
  <2>2. CASE proj' = Folder("whole", setup.commit # "known", {})
    <3>1. proj'.branch = (setup.commit # "known")
      BY <2>2
    <3> QED
      BY <3>1, Zenon
  <2>3. CASE proj' = Folder("whole", TRUE, {}) /\ pc \in OtherPoints
    <3>1. setup.commit = "unset"
      BY <2>3 DEF ProjectInv, BranchInv, PointsInv
    <3> QED
      BY <2>3, <3>1
  <2> QED
    BY <1>3, <2>1, <2>2, <2>3
<1>5. backup'.is = "whole" => (backup'.branch <=> setup.commit # "known")
  BY <1>2 DEF ProjectInv, BranchInv
<1> QED
  BY <1>1, <1>4, <1>5 DEF ProjectInv, BranchInv

LEMMA CommandInv ==
  ASSUME KnownKinds, ProjectsTypeOK, ProjectInv,
         \/ \E c \in {"create", "refresh", "clean", "run"} : Begin(c)
         \/ Kill \/ Command
  PROVE  ProjectInv'
<1>0. SUFFICES PointsInv' /\ BackupInv' /\ WholeInv' /\ AnswersInv'
  BY CommandBranch DEF ProjectInv
<1> USE DEF ProjectInv, PointsInv, BackupInv, WholeInv, AnswersInv, Points, GitPoints,
            OtherPoints, AskPoints, DonePoints, Git, NoFolder, Empty, Folder, Go, Forced,
            HasDestination, Same, SameDisk, Fine
<1>1. CASE \E c \in {"create", "refresh", "clean", "run"} : Begin(c)
  <2>1. PICK c \in {"create", "refresh", "clean", "run"} : Begin(c)
    BY <1>1
  <2>2. /\ pc = "idle" /\ cmd' = c
        /\ pc' = First(c) /\ UNCHANGED <<setup, proj, backup, kept, saved, marred>>
    BY <2>1 DEF Begin
  <2>3. /\ First("run") = "committed?" /\ First("clean") = "folder?"
        /\ c \in {"create", "refresh"} => First(c) = setup.kind
    BY DEF First
  <2>4. setup.kind \in {"git", "svn", "local"}
    BY DEF KnownKinds, ProjectsTypeOK, Setups
  <2> QED
    BY <2>2, <2>3, <2>4
<1>2. CASE Kill
  BY <1>2 DEF Kill, End
<1>3. CASE MakeBackup \/ Skip \/ MakeFolder \/ Clone
  <2>1. CASE MakeBackup
    BY <2>1 DEF MakeBackup
  <2>2. CASE Skip
    BY <2>2 DEF Skip
  <2>3. CASE MakeFolder \/ Clone
    BY <2>3 DEF MakeFolder, Clone
  <2> QED
    BY <1>3, <2>1, <2>2, <2>3
<1>4. CASE CloneFails \/ Discard \/ Restore
  <2>1. CASE CloneFails
    BY <2>1 DEF CloneFails
  <2>2. CASE Discard
    BY <2>2 DEF Discard
  <2>3. CASE Restore
    BY <2>3 DEF Restore
  <2> QED
    BY <1>4, <2>1, <2>2, <2>3
<1>5. CASE Checkout \/ CheckoutFails \/ DropBackup \/ RemoteClone
  BY <1>5 DEF Checkout, CheckoutFails, DropBackup, RemoteClone, End
<1>6. CASE SvnFolder \/ SvnCheckout \/ LocalFolder \/ CopyContents \/ CopyFails
  BY <1>6 DEF SvnFolder, SvnCheckout, LocalFolder, CopyContents, CopyFails
<1>7. CASE Resync \/ Rsync \/ Made \/ KeepConf \/ CopyConf
  BY <1>7 DEF Resync, Rsync, Made, KeepConf, CopyConf
<1>8. CASE CleanFolder \/ CheckCommitted \/ CheckPushed
  <2>1. CASE CleanFolder
    BY <2>1 DEF CleanFolder, End
  <2>2. CASE CheckCommitted
    <3>1. \A w \in proj.holds : saved[w] # "edited"
      BY <2>2 DEF CheckCommitted, Uncommitted
    <3> QED
      BY <2>2, <3>1 DEF CheckCommitted
  <2>3. CASE CheckPushed
    <3>1. \A w \in proj.holds : saved[w] \in {"pushed", "detached", "inside"}
      BY <2>3 DEF CheckPushed, NotPushed, ProjectsTypeOK, Folders
    <3> QED
      BY <2>3, <3>1 DEF CheckPushed
  <2> QED
    BY <1>8, <2>1, <2>2, <2>3
<1>9. CASE NotClean \/ PassUnchecked \/ RemoveClone \/ RunEnds
  BY <1>9 DEF NotClean, PassUnchecked, RemoveClone, RunEnds, Quit, End
<1> QED
  BY <1>1, <1>2, <1>3, <1>4, <1>5, <1>6, <1>7, <1>8, <1>9 DEF Command

LEMMA NextInv ==
  KnownKinds /\ ProjectsTypeOK /\ ProjectInv /\ [ProjectsNext]_projectsVars => ProjectInv'
<1>1. ProjectInv /\ UNCHANGED projectsVars => ProjectInv'
  BY DEF ProjectInv, PointsInv, BackupInv, WholeInv, AnswersInv, BranchInv, Git, projectsVars
<1> QED
  BY <1>1, UsersInv, CommandInv DEF ProjectsNext

\* Neither half a project nor the backup of one is left where nothing was killed
\* and no failure was answered with False.
THEOREM NoHalfProject ==
  ASSUME KnownKinds
  PROVE  ProjectsSpec => []CodeIsWhole
<1>1. ProjectInv => CodeIsWhole
  BY DEF ProjectInv, WholeInv, CodeIsWhole, MadeIsWhole, NoBackupLeft, DonePoints
<1> QED
  BY <1>1, InitInv, NextInv, ProjectTypesCorrect, PTL DEF ProjectsSpec

-----------------------------------------------------------------------------
(* What a step does to the work.                                           *)

\* Git names what is on no branch only where there is a PROJECT_COMMIT, and what is in
\* a submodule only where there are submodules.
LEMMA OnlyThereUnnamed ==
  ASSUME ProjectsTypeOK, ProjectInv, NEW w \in proj.holds,
         saved[w] \in {"pushed", "detached", "inside"}
  PROVE  saved[w] = "pushed" \/ Unnamed(w)
<1>1. w \in Works
  BY DEF ProjectsTypeOK, Folders
<1> QED
  BY <1>1 DEF ProjectInv, BranchInv, Unnamed

\* Nothing that is edited, or committed on a branch and not pushed, is in the code an
\* operational run starts with; what else is not pushed is a commit of who works on a
\* PROJECT_COMMIT, or is in a submodule: on a branch of a project without submodules
\* everything is pushed.
THEOREM OnlyPushedRuns ==
  ASSUME KnownKinds
  PROVE  ProjectsSpec => RunsWhatIsPushed
<1>1. ProjectsTypeOK /\ ProjectInv /\ [ProjectsNext]_projectsVars =>
        [pc = "pushed?" /\ pc' = "run" =>
           \A w \in proj.holds : saved[w] = "pushed" \/ Unnamed(w)]_projectsVars
  <2> SUFFICES ASSUME ProjectsTypeOK, ProjectInv, ProjectsNext, pc = "pushed?", pc' = "run",
                      NEW w \in proj.holds
               PROVE  saved[w] = "pushed" \/ Unnamed(w)
    OBVIOUS
  <2>1. \/ NotPushed = {}
        \/ pc' = "pushed?" \/ pc' = "idle"
    BY DEF ProjectsNext, Command, Edit, Commit, Push, PushAlone, PushSubmodules, Becomes,
           Begin, Kill, End, MakeBackup, Skip, MakeFolder, Clone, CloneFails, Discard, Restore, Checkout, CheckoutFails,
           DropBackup, RemoteClone, SvnFolder, SvnCheckout, LocalFolder, CopyContents,
           CopyFails, Resync, Rsync, Made, KeepConf, CopyConf, CleanFolder,
           CheckCommitted, CheckPushed, NotClean, Quit, PassUnchecked, RemoveClone, RunEnds
  <2>2. saved[w] # "not_made" /\ saved[w] # "edited"
    BY DEF ProjectInv, AnswersInv
  <2>3. saved[w] \in {"not_made", "edited", "committed", "detached", "inside", "pushed"}
    BY DEF ProjectsTypeOK, Folders
  <2>4. saved[w] # "committed"
    BY <2>1 DEF NotPushed
  <2> QED
    BY <2>2, <2>3, <2>4, OnlyThereUnnamed
<1> QED
  BY <1>1, InitInv, NextInv, ProjectTypesCorrect, PTL DEF ProjectsSpec, RunsWhatIsPushed

\* What a folder, its backup and the kept ones hold, at most, after a step that
\* keeps them where they are.
LEMMA HeldStays ==
  ASSUME proj.holds \subseteq proj'.holds \cup backup'.holds,
         backup.holds \subseteq proj'.holds \cup backup'.holds
           \cup UNION {f.holds : f \in kept'},
         kept \subseteq kept'
  PROVE  Held \subseteq Held'
BY DEF Held

\* Leaving the backup behind takes nothing away.
LEMMA HeldAtEnd ==
  ASSUME End, proj' = proj \/ proj.holds = {}
  PROVE  Held \subseteq Held'
<1>1. kept' = kept \cup ({backup} \ {NoFolder})
  BY DEF End
<1>2. NoFolder.holds = {}
  BY DEF NoFolder, Folder
<1>3. backup.holds \subseteq UNION {f.holds : f \in kept'}
  BY <1>1, <1>2
<1> QED
  BY <1>1, <1>3 DEF Held

\* Work that is not pushed leaves the disk only when a refresh has put a whole
\* clone in its place, or in a clean that git did not name it to: on no branch, of who
\* works on a PROJECT_COMMIT, or in a submodule.
THEOREM WorkSurvives ==
  ASSUME KnownKinds
  PROVE  ProjectsSpec => WorkIsKept
<1> DEFINE Fate(w) == \/ saved[w] = "pushed"
                      \/ Forced /\ proj'.is = "whole"
                      \/ cmd = "clean" /\ Unnamed(w)
<1>1. ASSUME ProjectsTypeOK, ProjectInv, ProjectsNext, Git, NEW w \in Held \ Held'
      PROVE  Fate(w)
  <2>1. CASE \E v \in Works : Edit(v)
    <3>1. UNCHANGED <<backup, kept>>
      BY <2>1 DEF Edit
    <3>2. proj.holds \subseteq proj'.holds
      BY <2>1 DEF Edit, ProjectsTypeOK, Folders
    <3> QED
      BY <1>1, <3>1, <3>2, HeldStays
  <2>2. CASE \/ Commit \/ Push \/ PushAlone \/ PushSubmodules
             \/ Skip \/ CloneFails \/ Made \/ KeepConf \/ CopyConf
             \/ CheckCommitted \/ CheckPushed \/ PassUnchecked
             \/ \E c \in {"create", "refresh", "clean", "run"} : Begin(c)
    <3>1. UNCHANGED <<proj, backup, kept>>
      BY <2>2 DEF Commit, Push, PushAlone, PushSubmodules, Becomes, Skip, CloneFails, Made,
                  KeepConf, CopyConf, CheckCommitted, CheckPushed, PassUnchecked, Begin, SameDisk
    <3> QED
      BY <1>1, <3>1, HeldStays
  <2>3. CASE NotClean \/ RunEnds \/ CleanFolder \/ CheckoutFails
    <3>1. (End /\ proj' = proj) \/ UNCHANGED <<proj, backup, kept>>
      BY <2>3 DEF NotClean, RunEnds, Quit, CleanFolder, CheckoutFails, SameDisk
    <3> QED
      BY <1>1, <3>1, HeldAtEnd, HeldStays
  <2>4. CASE Kill
    <3>1. proj' = proj \/ pc \in {"clone", "checkout", "svn_checkout", "copy", "rsync",
                                  "remove", "discard"}
      BY <2>4 DEF Kill
    <3>2. CASE proj' = proj
      BY <1>1, <2>4, <3>2, HeldAtEnd DEF Kill
    <3>3. CASE pc \in {"clone", "checkout", "discard"}
      <4>1. proj.holds = {}
        BY <1>1, <3>3 DEF ProjectInv, BackupInv
      <4> QED
        BY <1>1, <2>4, <4>1, HeldAtEnd DEF Kill
    <3>4. CASE pc = "remove"
      <4>1. /\ backup = NoFolder /\ cmd = "clean"
            /\ \A v \in proj.holds : saved[v] \in {"pushed", "detached", "inside"}
        BY <1>1, <3>4 DEF ProjectInv, PointsInv, BackupInv, AnswersInv
      <4>2. kept \subseteq kept'
        BY <2>4 DEF Kill, End
      <4>3. w \in proj.holds
        BY <1>1, <4>1, <4>2 DEF Held, NoFolder, Folder
      <4> QED
        BY <1>1, <4>1, <4>3, OnlyThereUnnamed
    <3>5. CASE pc \in {"svn_checkout", "copy", "rsync"}
      BY <1>1, <3>5 DEF ProjectInv, PointsInv, OtherPoints, Git
    <3> QED
      BY <3>1, <3>2, <3>3, <3>4, <3>5
  <2>5. CASE MakeBackup
    <3>1. backup = NoFolder
      BY <1>1, <2>5 DEF MakeBackup, ProjectInv, BackupInv
    <3>2. kept' = kept /\ (backup' = proj \/ UNCHANGED <<proj, backup>>)
      BY <2>5 DEF MakeBackup
    <3> QED
      BY <1>1, <3>1, <3>2, HeldStays DEF NoFolder, Folder
  <2>6. CASE MakeFolder \/ Clone \/ Discard \/ Checkout
    <3>1. proj.holds = {}
      BY <1>1, <2>6 DEF MakeFolder, Clone, Discard, Checkout, HasDestination, ProjectInv,
                        BackupInv
    <3>2. UNCHANGED <<backup, kept>>
      BY <2>6 DEF MakeFolder, Clone, Discard, Checkout
    <3> QED
      BY <1>1, <3>1, <3>2, HeldStays
  <2>7. CASE Restore
    <3>1. proj.holds = {} /\ (backup.is = "none" => backup.holds = {})
      BY <1>1, <2>7 DEF Restore, ProjectInv, BackupInv
    <3>2. kept' = kept /\ (backup.is # "none" => proj' = backup)
      BY <2>7 DEF Restore
    <3> QED
      BY <1>1, <3>1, <3>2, HeldStays
  <2>8. CASE DropBackup
    <3>1. kept' = kept /\ proj' = proj /\ pc = "drop"
      BY <2>8 DEF DropBackup
    <3>2. backup = NoFolder \/ (Forced /\ proj'.is = "whole")
      BY <1>1, <3>1 DEF ProjectInv, BackupInv, Git, Forced
    <3> QED
      BY <1>1, <3>1, <3>2, HeldStays DEF NoFolder, Folder
  <2>9. CASE RemoveClone
    <3>1. kept' = kept /\ backup' = backup /\ pc = "remove"
      BY <2>9 DEF RemoveClone
    <3>2. /\ cmd = "clean"
          /\ \A v \in proj.holds : saved[v] \in {"pushed", "detached", "inside"}
      BY <1>1, <3>1 DEF ProjectInv, PointsInv, AnswersInv
    <3>3. w \in proj.holds
      BY <1>1, <3>1 DEF Held
    <3> QED
      BY <1>1, <3>2, <3>3, OnlyThereUnnamed
  <2>10. CASE \/ SvnFolder \/ SvnCheckout \/ LocalFolder \/ CopyContents \/ CopyFails
              \/ Resync \/ Rsync \/ RemoteClone
    <3>1. pc \in OtherPoints \cup {"remote"}
      BY <2>10 DEF SvnFolder, SvnCheckout, LocalFolder, CopyContents, CopyFails, Resync,
                   Rsync, RemoteClone, OtherPoints
    <3> QED
      BY <1>1, <3>1 DEF ProjectInv, PointsInv, Git
  <2> QED
    BY <1>1, <2>1, <2>2, <2>3, <2>4, <2>5, <2>6, <2>7, <2>8, <2>9, <2>10
    DEF ProjectsNext, Command
<1>2. ProjectsTypeOK /\ ProjectInv /\ [ProjectsNext]_projectsVars =>
        [Git => \A w \in Held \ Held' :
           \/ saved[w] = "pushed"
           \/ Forced /\ proj'.is = "whole"
           \/ cmd = "clean" /\ Unnamed(w)]_projectsVars
  BY <1>1
<1> QED
  BY <1>2, InitInv, NextInv, ProjectTypesCorrect, PTL DEF ProjectsSpec, WorkIsKept
==============================================================================
