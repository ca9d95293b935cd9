--------------------------- MODULE DatabasesProofs ---------------------------
(****************************************************************************)
(* Proofs about the two databases.  Experiments: no expid is given twice    *)
(* and no experiment is lost, for any number of users, names, commands and  *)
(* faults, but for those a later command writes over with a part of them.   *)
(* The commands take no lock: what keeps them apart is what each of them    *)
(* has seen of its name, and the invariant says it for every point of       *)
(* each.                                                                    *)
(*                                                                          *)
(* History: no attempt at a job is lost or hidden in the historical         *)
(* database, but for the exceptions that NoAttemptLost and OneLastRow name, *)
(* and the experiments that wait for this one do not start early, for any   *)
(* jobs, platforms, attempts, commands and recovery processes.  Rows are    *)
(* read in one statement and written back whole in another.  What makes     *)
(* that harmless is that a row that is pending has the id and the counter   *)
(* of the row it will overwrite, and that it is pending as the last row of  *)
(* its job as long as no newer one was inserted (AttemptsInv).  Where one   *)
(* process writes, no thread of another job holds an older row or one       *)
(* without its end (SoleInv, which rests on AttemptsInv).                   *)
(****************************************************************************)
EXTENDS Experiments, History, FiniteSetTheorems, WellFoundedInduction, TLAPS

-----------------------------------------------------------------------------
(* Experiments: the invariant.                                              *)

\* What the installation is: the first name of each kind is a name.
Installation ==
  /\ MaxName \in Nat /\ MaxCommands \in Nat /\ MaxFaults \in Nat
  /\ FirstOf \in [Kinds -> Names]
  /\ Backends \subseteq {"sqlite", "postgres"}

\* Commands at work on an experiment that is there, and creations that have
\* found their name free.
AtWork == {"delete", "row", "rmtree", "archive", "tar", "remove", "removing",
         "unarchive", "extract", "unlink"}
Making == {"save", "mkdir", "config"}

IsThere(n) == dir[n].is # "none"
Announced(n) == {a \in announced : a.name = n}
Kept(n) == Announced(n) \ overwritten

NamesInv == \A p \in Procs : pc[p] \notin {"idle", "expid"} => name[p] \in Names

\* Only one is busy with a name, and none makes it at the same time.
AloneAtName ==
  \A p, q \in Procs :
    p # q /\ pc[p] \in AtWork /\ pc[q] \in AtWork \cup Making => name[p] # name[q]

\* Each command has a number of its own.
NumbersInv ==
  /\ \A p \in Procs : tag[p] <= asked
  /\ \A p, q \in Procs : p # q /\ pc[p] # "idle" /\ pc[q] # "idle" => tag[p] # tag[q]

\* What a busy command knows of its name.
BusyAt(p) ==
  LET n == name[p] IN
  /\ pc[p] \in AtWork => Rows(n) # {} \/ IsThere(n)
  /\ pc[p] \in {"row", "rmtree", "tar", "remove", "removing", "extract", "unlink"}
       => IsThere(n)
  /\ pc[p] \in {"row", "rmtree"} => Announced(n) = {}
  /\ pc[p] = "tar" => tar[n][cmd[p].format].is = "cut"
  /\ pc[p] \in {"remove", "removing", "extract"} =>
       \A a \in Kept(n) : \E f \in Formats : tar[n][f] = Whole(a)
  /\ pc[p] = "extract" => tar[n][cmd[p].format].is # "none"
  /\ pc[p] = "unlink" =>
       LET t == tar[n][cmd[p].format] IN t.is = "whole" => dir[n] = Whole(t)

BusyInv == \A p \in Procs : BusyAt(p)

\* What a creation knows of the name it found free.
MakingAt(p) ==
  LET n == name[p] IN
  /\ pc[p] \in {"mkdir", "config"} => Rows(n) # {}
  /\ pc[p] \in {"save", "mkdir"} => Announced(n) = {} \/ IsThere(n)
  /\ pc[p] = "config" => dir[n] = Thing("made", tag[p]) /\ Announced(n) = {}

MakingInv == \A p \in Procs : MakingAt(p)

ExperimentInv ==
  NamesInv /\ AloneAtName /\ NumbersInv /\ BusyInv /\ MakingInv /\ ExperimentsKept

-----------------------------------------------------------------------------
(* Types.                                                                  *)

LEMMA NamesAreNumbers ==
  ASSUME Installation
  PROVE  /\ Names \subseteq 0..NoName /\ NoName \in 0..NoName /\ NoName \notin Names
         /\ Nothing \in Things
         /\ \A t \in 0..MaxCommands, is \in {"none", "made", "part", "whole", "cut"} :
              Thing(is, t) \in Things
BY DEF Installation, Names, NoName, Nothing, Things, Thing

LEMMA InitTypes == Installation /\ Init => TypeOK
<1> SUFFICES ASSUME Installation, Init PROVE TypeOK
  OBVIOUS
<1>1. dir \in [Names -> Things] /\ tar \in [Names -> [Formats -> Things]]
  BY NamesAreNumbers DEF Init
<1>2. cmd \in [Procs -> Command({"expid", "delete", "archive", "unarchive"}, Kinds, 0..NoName, Formats)]
  BY NamesAreNumbers DEF Init, Idle, Command, Kinds, Formats
<1>3. name \in [Procs -> 0..NoName] /\ tag \in [Procs -> 0..MaxCommands]
  BY NamesAreNumbers DEF Init, Installation
<1>4. asked \in 0..MaxCommands /\ faults \in 0..MaxFaults
  BY DEF Init, Installation
<1> QED
  BY <1>1, <1>2, <1>3, <1>4 DEF Init, Installation, TypeOK

ProcPoints == {"idle", "expid", "check", "save", "mkdir", "config", "delete", "row", "rmtree",
           "archive", "tar", "remove", "removing", "unarchive", "extract", "unlink"}

LEMMA EndTypes ==
  ASSUME Installation, TypeOK, NEW p \in Procs, End(p)
  PROVE  /\ pc' \in [Procs -> ProcPoints]
         /\ cmd' \in [Procs -> Command({"expid", "delete", "archive", "unarchive"}, Kinds,
                                         0..NoName, Formats)]
         /\ name' \in [Procs -> 0..NoName] /\ tag' \in [Procs -> 0..MaxCommands]
<1>1. Idle \in Command({"expid", "delete", "archive", "unarchive"}, Kinds, 0..NoName, Formats)
  BY NamesAreNumbers DEF Idle, Command, Kinds, Formats
<1> QED
  BY <1>1, NamesAreNumbers DEF End, Go, TypeOK, ProcPoints, Installation

LEMMA StartTypes ==
  ASSUME Installation, TypeOK, NEW p \in Procs, NEW c \in Commands, Start(p, c)
  PROVE  TypeOK'
<1>1. c \in Command({"expid", "delete", "archive", "unarchive"}, Kinds, 0..NoName, Formats)
  BY NamesAreNumbers DEF Commands, Command, Kinds, Formats
<1>2. c.name \in 0..NoName /\ c.what \in {"expid", "delete", "archive", "unarchive"}
  BY <1>1 DEF Command
<1>3. cmd' \in [Procs -> Command({"expid", "delete", "archive", "unarchive"}, Kinds,
                                  0..NoName, Formats)]
  BY <1>1 DEF Start, TypeOK
<1>4. name' \in [Procs -> 0..NoName] /\ tag' \in [Procs -> 0..MaxCommands]
      /\ asked' \in 0..MaxCommands
  BY <1>2 DEF Start, TypeOK, Installation
<1>5. pc' \in [Procs -> ProcPoints]
  BY <1>2 DEF Start, Go, TypeOK, ProcPoints
<1> QED
  BY <1>3, <1>4, <1>5 DEF Start, TypeOK, ProcPoints, dbVars, diskVars

LEMMA InsertTypes ==
  ASSUME TypeOK, NEW n \in Names, Insert(n)
  PROVE  /\ nextId' \in Nat \ {0} /\ rows' \subseteq [id : 1..(nextId' - 1), name : Names]
         /\ details \subseteq 1..(nextId' - 1)
BY DEF TypeOK, Insert

LEMMA ExpidTypes ==
  ASSUME Installation, TypeOK, NamesInv, NEW p \in Procs, Expid(p)
  PROVE  TypeOK'
<1>1. CASE CannotCopy(p) \/ RefusedByDatabase(p) \/ NoNameLeft(p)
  <2>1. End(p) /\ UNCHANGED <<backend, dbVars, diskVars, announced, overwritten, asked, faults>>
    BY <1>1, Zenon DEF CannotCopy, RefusedByDatabase, NoNameLeft
  <2> QED
    BY <2>1, EndTypes DEF TypeOK, ProcPoints, dbVars, diskVars
<1>2. CASE ReadLast(p)
  <2>1. PICK n \in StartNames(cmd[p].kind) : name' = [name EXCEPT ![p] = n]
    BY <1>2, Zenon DEF ReadLast
  <2>2. cmd[p].kind \in Kinds
    BY DEF TypeOK, Command
  <2>3. n \in Names
    BY <2>1, <2>2 DEF StartNames, TypeOK, Installation
  <2>4. name' \in [Procs -> 0..NoName]
    BY <2>1, <2>3, NamesAreNumbers DEF TypeOK
  <2> QED
    BY <1>2, <2>4 DEF ReadLast, Go, TypeOK, dbVars, diskVars
<1>3. CASE NameTaken(p)
  <2>1. name[p] \in Names
    BY <1>3 DEF NameTaken, NamesInv
  <2>2. name' \in [Procs -> 0..NoName]
    BY <1>3, NamesAreNumbers DEF NameTaken, TypeOK
  <2>3. Insert(name[p]) \/ UNCHANGED <<rows, nextId>>
    BY <1>3, Zenon DEF NameTaken
  <2> QED
    BY <1>3, <2>1, <2>2, <2>3, InsertTypes DEF NameTaken, TypeOK, diskVars
<1>4. CASE NameFree(p)
  BY <1>4 DEF NameFree, Go, Stay, TypeOK, dbVars, diskVars
<1>5. CASE Save(p)
  <2>1. name[p] \in Names
    BY <1>5 DEF Save, NamesInv
  <2> QED
    BY <1>5, <2>1, InsertTypes DEF Save, Go, Stay, TypeOK, diskVars
<1>6. CASE CallLost(p)
  <2>1. End(p) /\ ((Insert(name[p]) /\ pc[p] = "save") \/ UNCHANGED <<rows, nextId>>)
    BY <1>6, Zenon DEF CallLost
  <2>2. pc[p] = "save" => name[p] \in Names
    BY DEF NamesInv
  <2>3. faults' \in 0..MaxFaults
    BY <1>6 DEF CallLost, Fault, TypeOK, Installation
  <2>4. /\ nextId' \in Nat \ {0} /\ rows' \subseteq [id : 1..(nextId' - 1), name : Names]
        /\ details \subseteq 1..(nextId' - 1)
    BY <2>1, <2>2, InsertTypes DEF TypeOK
  <2> QED
    BY <1>6, <2>1, <2>3, <2>4, EndTypes DEF CallLost, TypeOK, ProcPoints, diskVars
<1>7. CASE MakeFolder(p)
  <2>1. tag[p] \in 0..MaxCommands
    BY DEF TypeOK
  <2>2. dir' \in [Names -> Things]
    BY <1>7, <2>1, NamesAreNumbers DEF MakeFolder, TypeOK
  <2> QED
    BY <1>7, <2>2 DEF MakeFolder, Go, Stay, TypeOK, dbVars
<1>8. CASE FolderExists(p)
  BY <1>8, EndTypes DEF FolderExists, Cleaned, TypeOK, ProcPoints, dbVars
<1>9. CASE Configure(p)
  <2>1. tag[p] \in 0..MaxCommands /\ name[p] \in Names
    BY <1>9 DEF TypeOK, Configure, NamesInv
  <2>2. dir' \in [Names -> Things]
    BY <1>9, <2>1, NamesAreNumbers DEF Configure, TypeOK
  <2>3. announced' \subseteq [name : Names, tag : 0..MaxCommands]
    BY <1>9, <2>1 DEF Configure, TypeOK
  <2>4. details' \subseteq 1..(nextId - 1)
    BY <1>9 DEF Configure, TypeOK, Rows
  <2> QED
    BY <1>9, <2>2, <2>3, <2>4, EndTypes DEF Configure, TypeOK, ProcPoints
<1>10. CASE CannotConfigure(p)
  <2>1. faults' \in 0..MaxFaults
    BY <1>10 DEF CannotConfigure, Fault, TypeOK, Installation
  <2> QED
    BY <1>10, <2>1, EndTypes DEF CannotConfigure, Cleaned, TypeOK, ProcPoints, dbVars
<1> QED
  BY <1>1, <1>2, <1>3, <1>4, <1>5, <1>6, <1>7, <1>8, <1>9, <1>10, Zenon DEF Expid

LEMMA DeleteTypes ==
  ASSUME Installation, TypeOK, NamesInv, NEW p \in Procs, Delete(p)
  PROVE  TypeOK'
<1>1. CASE CannotDelete(p)
  BY <1>1, EndTypes DEF CannotDelete, TypeOK, ProcPoints, dbVars, diskVars
<1>2. CASE DeleteDetails(p)
  BY <1>2 DEF DeleteDetails, Go, Stay, TypeOK, diskVars
<1>3. CASE DeleteRow(p)
  <2>1. rows' \subseteq rows
    BY <1>3, Zenon DEF DeleteRow
  <2>2. pc' \in [Procs -> ProcPoints]
    BY <1>3 DEF DeleteRow, Go, TypeOK, ProcPoints
  <2>3. faults' \in 0..MaxFaults
    BY <1>3 DEF DeleteRow, TypeOK, Fault, Installation
  <2> QED
    BY <1>3, <2>1, <2>2, <2>3 DEF DeleteRow, Stay, TypeOK, ProcPoints, diskVars
<1>4. CASE RemoveFolder(p)
  <2>1. name[p] \in Names
    BY <1>4 DEF RemoveFolder, NamesInv
  <2>2. dir[name[p]] \in Things
    BY <2>1 DEF TypeOK
  <2>3. dir' = [dir EXCEPT ![name[p]] = Nothing] \/ dir' = [dir EXCEPT ![name[p]].is = "part"]
    BY <1>4, Zenon DEF RemoveFolder
  <2>5. ASSUME dir' = [dir EXCEPT ![name[p]] = Nothing] PROVE dir' \in [Names -> Things]
    BY <2>5, NamesAreNumbers DEF TypeOK
  <2>6. ASSUME dir' = [dir EXCEPT ![name[p]].is = "part"] PROVE dir' \in [Names -> Things]
    BY <2>1, <2>2, <2>6 DEF TypeOK, Things
  <2>7. dir' \in [Names -> Things]
    BY <2>3, <2>5, <2>6
  <2>4. faults' \in 0..MaxFaults
    BY <1>4 DEF RemoveFolder, Fault, TypeOK, Installation
  <2> QED
    BY <1>4, <2>7, <2>4, EndTypes DEF RemoveFolder, TypeOK, ProcPoints, dbVars
<1> QED
  BY <1>1, <1>2, <1>3, <1>4, Zenon DEF Delete

LEMMA ArchiveTypes ==
  ASSUME Installation, TypeOK, NamesInv, NEW p \in Procs, Archive(p) \/ Unarchive(p)
  PROVE  TypeOK'
<1> DEFINE f == cmd[p].format
<1>1. f \in Formats /\ Formats = {"tar", "tar.gz"}
  BY DEF TypeOK, Command, Formats
<1>2. pc[p] \notin {"idle", "expid"} => name[p] \in Names
  BY DEF NamesInv
<1>3. ASSUME NEW n \in Names, NEW t \in Things, SetTar(n, f, t)
      PROVE  tar' \in [Names -> [Formats -> Things]]
  BY <1>1, <1>3 DEF SetTar, TypeOK
<1>4. ASSUME NEW n \in Names
      PROVE  dir[n] \in Things /\ tar[n][f] \in Things
  BY <1>1 DEF TypeOK
<1>5. Thing("cut", 0) \in Things /\ Nothing \in Things
  BY NamesAreNumbers DEF Installation
<1>6. CASE NotThere(p)
  BY <1>6, EndTypes DEF NotThere, TypeOK, ProcPoints, dbVars, diskVars
<1>7. CASE TarBegins(p)
  <2>1. tar' \in [Names -> [Formats -> Things]]
    BY <1>2, <1>3, <1>5, <1>7 DEF TarBegins
  <2>2. overwritten' \subseteq [name : Names, tag : 0..MaxCommands]
    BY <1>7 DEF TarBegins, Over, TypeOK
  <2> QED
    BY <1>7, <2>1, <2>2 DEF TarBegins, Go, Stay, TypeOK, dbVars
<1>8. CASE TarEnds(p)
  <2>1. CASE SetTar(name[p], f, dir[name[p]]) /\ Go(p, "remove") /\ Stay /\ UNCHANGED faults
    <3>1. tar' \in [Names -> [Formats -> Things]]
      BY <1>2, <1>3, <1>4, <1>8, <2>1 DEF TarEnds
    <3> QED
      BY <1>8, <2>1, <3>1 DEF TarEnds, Go, Stay, TypeOK, dbVars
  <2>2. CASE Fault /\ End(p) /\ UNCHANGED tar
    <3>1. faults' \in 0..MaxFaults
      BY <2>2 DEF Fault, TypeOK, Installation
    <3> QED
      BY <1>8, <2>2, <3>1, EndTypes DEF TarEnds, TypeOK, ProcPoints, dbVars
  <2> QED
    BY <1>8, <2>1, <2>2, Zenon DEF TarEnds
<1>9. CASE RemoveBegins(p)
  <2>1. dir' \in [Names -> Things]
    BY <1>2, <1>4, <1>9 DEF RemoveBegins, TypeOK, Things
  <2> QED
    BY <1>9, <2>1 DEF RemoveBegins, Go, Stay, TypeOK, dbVars
<1>10. CASE RemoveEnds(p)
  <2>1. CASE dir' = [dir EXCEPT ![name[p]] = Nothing] /\ End(p) /\ UNCHANGED faults
    <3>1. dir' \in [Names -> Things]
      BY <1>5, <2>1 DEF TypeOK
    <3> QED
      BY <1>10, <2>1, <3>1, EndTypes DEF RemoveEnds, TypeOK, ProcPoints, dbVars
  <2>2. CASE /\ Fault /\ Go(p, "unarchive") /\ UNCHANGED <<dir, name, tag>>
             /\ cmd' = [cmd EXCEPT ![p].format = "tar.gz", ![p].what = "unarchive"]
    <3>1. faults' \in 0..MaxFaults
      BY <2>2 DEF Fault, TypeOK, Installation
    <3>2. cmd' \in [Procs -> Command({"expid", "delete", "archive", "unarchive"}, Kinds,
                                      0..NoName, Formats)]
      <4>1. [cmd[p] EXCEPT !.format = "tar.gz", !.what = "unarchive"] \in
               Command({"expid", "delete", "archive", "unarchive"}, Kinds, 0..NoName, Formats)
        <5>1. cmd[p] \in Command({"expid", "delete", "archive", "unarchive"}, Kinds, 0..NoName, Formats)
          BY <1>1 DEF TypeOK
        <5>2. {"tar.gz"} \subseteq Formats
          BY DEF Formats
        <5> QED
          BY <5>1, <5>2 DEF Command
      <4>2. cmd' = [cmd EXCEPT ![p] = [cmd[p] EXCEPT !.format = "tar.gz", !.what = "unarchive"]]
        BY <2>2 DEF TypeOK
      <4> QED
        BY <4>1, <4>2 DEF TypeOK
    <3> QED
      BY <1>10, <2>2, <3>1, <3>2 DEF RemoveEnds, Go, TypeOK, dbVars
  <2> QED
    BY <1>10, <2>1, <2>2, Zenon DEF RemoveEnds
<1>11. CASE ExtractBegins(p)
  <2>1. tar[name[p]][f].tag \in 0..MaxCommands
    BY <1>2, <1>4, <1>11 DEF ExtractBegins, Things
  <2>2. dir' \in [Names -> Things]
    BY <1>11, <2>1, NamesAreNumbers DEF ExtractBegins, TypeOK
  <2>3. overwritten' \subseteq [name : Names, tag : 0..MaxCommands]
    BY <1>11 DEF ExtractBegins, Over, TypeOK
  <2> QED
    BY <1>11, <2>2, <2>3 DEF ExtractBegins, Go, Stay, TypeOK, dbVars
<1>12. CASE ExtractEnds(p)
  <2>1. dir' \in [Names -> Things]
    BY <1>2, <1>4, <1>5, <1>12 DEF ExtractEnds, TypeOK
  <2>2. faults' \in 0..MaxFaults
    BY <1>12 DEF ExtractEnds, Fault, TypeOK, Installation
  <2>3. (Go(p, "unlink") /\ Stay) \/ End(p)
    BY <1>12, Zenon DEF ExtractEnds
  <2> QED
    BY <1>12, <2>1, <2>2, <2>3, EndTypes DEF ExtractEnds, Go, Stay, TypeOK, ProcPoints, dbVars
<1>13. CASE RemoveTar(p)
  <2>1. tar' \in [Names -> [Formats -> Things]]
    BY <1>2, <1>3, <1>5, <1>13 DEF RemoveTar, TypeOK
  <2>2. faults' \in 0..MaxFaults
    BY <1>13 DEF RemoveTar, Fault, TypeOK, Installation
  <2> QED
    BY <1>13, <2>1, <2>2, EndTypes DEF RemoveTar, TypeOK, ProcPoints, dbVars
<1> QED
  BY <1>6, <1>7, <1>8, <1>9, <1>10, <1>11, <1>12, <1>13, Zenon DEF Archive, Unarchive

LEMMA NextTypes == ASSUME Installation, TypeOK, NamesInv, [Next]_vars PROVE TypeOK'
<1>1. CASE UNCHANGED vars
  BY <1>1 DEF TypeOK, vars, dbVars, diskVars
<1>2. ASSUME NEW p \in Procs, Kill(p) PROVE TypeOK'
  <2>1. faults' \in 0..MaxFaults
    BY <1>2 DEF Kill, Fault, TypeOK, Installation
  <2> QED
    BY <1>2, <2>1, EndTypes DEF Kill, TypeOK, ProcPoints, dbVars, diskVars
<1> QED
  BY <1>1, <1>2, StartTypes, ExpidTypes, DeleteTypes, ArchiveTypes DEF Next

-----------------------------------------------------------------------------
(* The invariant, action by action.                                        *)

LEMMA InitInv == Installation /\ Init => ExperimentInv
BY DEF Init, ExperimentInv, NamesInv, AloneAtName, NumbersInv, BusyInv, BusyAt, MakingInv, MakingAt,
       ExperimentsKept, CreatedOnce, NothingLost, AtWork, Making, Installation

\* Rows that are there stay there when one is inserted.
LEMMA RowsGrow ==
  ASSUME NEW n, Insert(n) \/ UNCHANGED <<rows, nextId>>
  PROVE  /\ \A m : Rows(m) \subseteq Rows(m)'
         /\ Insert(n) => Rows(n)' # {}
<1>1. rows \subseteq rows'
  BY Zenon DEF Insert
<1>2. Insert(n) => [id |-> nextId, name |-> n] \in Rows(n)'
  BY DEF Insert, Rows
<1> QED
  BY <1>1, <1>2, Zenon DEF Rows

KeepsBut == UNCHANGED <<dir, tar, announced, overwritten, asked>> /\ \A m : Rows(m) \subseteq Rows(m)'

LEMMA EndKeepsInv ==
  ASSUME TypeOK, ExperimentInv, NEW p \in Procs, End(p), KeepsBut
  PROVE  ExperimentInv'
<1>1. \A q \in Procs : q # p => /\ pc'[q] = pc[q] /\ name'[q] = name[q]
                                /\ tag'[q] = tag[q] /\ cmd'[q] = cmd[q]
  BY DEF End, Go, TypeOK
<1>2. pc'[p] = "idle" /\ tag'[p] = 0
  BY DEF End, Go, TypeOK
<1>3. NamesInv' /\ AloneAtName'
  BY <1>1, <1>2 DEF ExperimentInv, NamesInv, AloneAtName, AtWork, Making
<1>7. NumbersInv'
  <2>1. asked' = asked /\ 0 <= asked
    BY DEF KeepsBut, TypeOK
  <2> QED
    BY <1>1, <1>2, <2>1 DEF ExperimentInv, NumbersInv
<1>4. BusyInv'
  BY <1>1, <1>2 DEF ExperimentInv, BusyInv, BusyAt, AtWork, KeepsBut, IsThere, Announced, Kept
<1>5. MakingInv'
  BY <1>1, <1>2 DEF ExperimentInv, MakingInv, MakingAt, Making, KeepsBut, IsThere, Announced, Kept
<1>6. ExperimentsKept'
  BY DEF ExperimentInv, ExperimentsKept, CreatedOnce, NothingLost, KeepsBut
<1> QED
  BY <1>3, <1>4, <1>5, <1>6, <1>7 DEF ExperimentInv

LEMMA StartInv ==
  ASSUME Installation, TypeOK, ExperimentInv, NEW p \in Procs, NEW c \in Commands,
         Start(p, c)
  PROVE  ExperimentInv'
<1>1. \A q \in Procs : q # p => /\ pc'[q] = pc[q] /\ name'[q] = name[q]
                                /\ tag'[q] = tag[q] /\ cmd'[q] = cmd[q]
  BY DEF Start, Go, TypeOK
<1>2. pc'[p] = c.what /\ name'[p] = c.name /\ tag'[p] = asked + 1 /\ cmd'[p] = c
  BY DEF Start, Go, TypeOK
<1>3. /\ c.what \in {"expid", "delete", "archive", "unarchive"}
      /\ c.what # "expid" => c.name \in Names
  BY DEF Commands, Command
<1>4. NamesInv'
  BY <1>1, <1>2, <1>3 DEF ExperimentInv, NamesInv
<1>5. AloneAtName'
  BY <1>1, <1>2, <1>3 DEF ExperimentInv, AloneAtName, AtWork, Making, Start, Sensible
<1>6. NumbersInv'
  BY <1>1, <1>2 DEF ExperimentInv, NumbersInv, Start, TypeOK, Installation
<1>7. UNCHANGED <<rows, dir, tar, announced, overwritten>>
  BY DEF Start, dbVars, diskVars
<1>8. BusyInv'
  <2> SUFFICES ASSUME NEW q \in Procs PROVE BusyAt(q)'
    BY DEF BusyInv
  <2>1. CASE q # p
    BY <1>1, <1>7, <2>1 DEF ExperimentInv, BusyInv, BusyAt, AtWork, IsThere, Announced, Kept, Rows
  <2>2. CASE q = p
    BY <1>2, <1>3, <1>7, <2>2, NamesAreNumbers DEF BusyAt, AtWork, IsThere, Announced, Kept, Rows, Start, Sensible
  <2> QED
    BY <2>1, <2>2
<1>9. MakingInv'
  BY <1>1, <1>2, <1>3, <1>7 DEF ExperimentInv, MakingInv, MakingAt, Making, IsThere, Announced, Kept, Rows
<1>10. ExperimentsKept'
  BY <1>7 DEF ExperimentInv, ExperimentsKept, CreatedOnce, NothingLost, Rows
<1> QED
  BY <1>4, <1>5, <1>6, <1>8, <1>9, <1>10 DEF ExperimentInv

\* p stays at work on its name, and the others are where they were.
GoesTo(p, point) ==
  pc' = [pc EXCEPT ![p] = point] /\ UNCHANGED <<cmd, tag>> /\ UNCHANGED asked

LEMMA LookInv ==
  ASSUME TypeOK, ExperimentInv, NEW p \in Procs, pc[p] # "idle",
         NEW n \in Names, name' = [name EXCEPT ![p] = n], GoesTo(p, "check"), KeepsBut
  PROVE  ExperimentInv'
<1>1. \A q \in Procs : q # p => pc'[q] = pc[q] /\ name'[q] = name[q]
  BY DEF GoesTo, TypeOK
<1>2. pc'[p] = "check" /\ name'[p] = n
  BY DEF GoesTo, TypeOK
<1>3. NamesInv' /\ AloneAtName'
  BY <1>1, <1>2 DEF ExperimentInv, NamesInv, AloneAtName, AtWork, Making
<1>4. NumbersInv'
  BY <1>1 DEF ExperimentInv, NumbersInv, GoesTo
<1>5. BusyInv'
  BY <1>1, <1>2 DEF ExperimentInv, BusyInv, BusyAt, AtWork, KeepsBut, GoesTo, IsThere, Announced, Kept
<1>6. MakingInv'
  BY <1>1, <1>2 DEF ExperimentInv, MakingInv, MakingAt, Making, KeepsBut, GoesTo, IsThere, Announced, Kept
<1>7. ExperimentsKept'
  BY DEF ExperimentInv, ExperimentsKept, CreatedOnce, NothingLost, KeepsBut
<1> QED
  BY <1>3, <1>4, <1>5, <1>6, <1>7 DEF ExperimentInv

\* A step of p at the name it works on: it goes on or ends, and what is of the other
\* names, and where the other commands are, stays.
GoesOn(p, kind) ==
  \/ pc'[p] = "idle" /\ tag'[p] = 0
  \/ pc'[p] \in kind /\ name'[p] = name[p] /\ tag'[p] = tag[p]

OnlyAt(p) ==
  /\ asked' = asked
  /\ \A q \in Procs \ {p} : /\ pc'[q] = pc[q] /\ name'[q] = name[q]
                           /\ tag'[q] = tag[q] /\ cmd'[q] = cmd[q]
  /\ overwritten \subseteq overwritten'
  /\ \A m \in Names \ {name[p]} :
       /\ dir'[m] = dir[m] /\ tar'[m] = tar[m]
       /\ Rows(m) \subseteq Rows(m)' /\ Announced(m)' = Announced(m)

KeptAt(n) ==
  /\ \A a1, a2 \in Announced(n) : a1.tag = a2.tag
  /\ Announced(n) # {} => Rows(n) # {}
  /\ \A a \in Kept(n) : Whole(a) \in {dir[n]} \cup {tar[n][f] : f \in Formats}

LEMMA KeptNameByName == TypeOK => (ExperimentsKept <=> \A n \in Names : KeptAt(n))
<1> SUFFICES ASSUME TypeOK PROVE ExperimentsKept <=> \A n \in Names : KeptAt(n)
  OBVIOUS
<1>1. \A a \in announced : a.name \in Names /\ a \in Announced(a.name)
  BY DEF TypeOK, Announced
<1>2. CreatedOnce <=> \A n \in Names : \A a1, a2 \in Announced(n) : a1.tag = a2.tag
  BY <1>1 DEF CreatedOnce, Announced
<1>3. NothingLost <=> \A n \in Names :
         /\ Announced(n) # {} => Rows(n) # {}
         /\ \A a \in Kept(n) : Whole(a) \in {dir[n]} \cup {tar[n][f] : f \in Formats}
  BY <1>1 DEF NothingLost, Announced, Kept
<1> QED
  BY <1>2, <1>3 DEF ExperimentsKept, KeptAt

LEMMA StepInv ==
  ASSUME TypeOK, TypeOK', ExperimentInv, NEW p \in Procs, NEW kind \in {AtWork, Making},
         pc[p] \in kind, GoesOn(p, kind), OnlyAt(p), BusyAt(p)', MakingAt(p)',
         \A q \in Procs \ {p} :
           pc[p] \in Making /\ pc[q] \in Making /\ name[q] = name[p] => MakingAt(q)',
         NEW n \in Names, n = name[p], KeptAt(n)'
  PROVE  ExperimentInv'
<1>1. pc[p] # "idle"
  BY DEF ExperimentInv, NamesInv, AtWork, Making
<1>2. NamesInv' /\ AloneAtName'
  BY <1>1 DEF ExperimentInv, NamesInv, AloneAtName, GoesOn, OnlyAt, AtWork, Making
<1>3. NumbersInv'
  <2>1. asked' = asked /\ 0 <= asked
    BY DEF OnlyAt, TypeOK
  <2> QED
    BY <1>1, <2>1 DEF ExperimentInv, NumbersInv, GoesOn, OnlyAt
<1>4. ASSUME NEW q \in Procs \ {p}, name[q] # n PROVE BusyAt(q)' /\ MakingAt(q)'
  <2>1. pc[q] \in AtWork \cup Making => name[q] \in Names \ {n}
    BY <1>4 DEF ExperimentInv, NamesInv, AtWork, Making
  <2>2. BusyAt(q) /\ MakingAt(q)
    BY DEF ExperimentInv, BusyInv, MakingInv
  <2>3. BusyAt(q)'
    BY <2>1, <2>2 DEF BusyAt, OnlyAt, AtWork, IsThere, Kept
  <2>4. MakingAt(q)'
    BY <2>1, <2>2 DEF MakingAt, OnlyAt, Making, IsThere, Kept
  <2> QED
    BY <2>3, <2>4
<1>5. ASSUME NEW q \in Procs \ {p}, name[q] = n PROVE BusyAt(q)' /\ MakingAt(q)'
  <2>1. pc[q] \notin AtWork /\ (pc[q] \in Making => pc[p] \in Making)
    BY <1>5 DEF ExperimentInv, AloneAtName
  <2>2. pc'[q] = pc[q]
    BY DEF OnlyAt
  <2>3. BusyAt(q)'
    BY <2>1, <2>2 DEF BusyAt, AtWork
  <2>4. pc[q] \notin Making => MakingAt(q)'
    BY <2>2 DEF MakingAt, Making
  <2> QED
    BY <1>5, <2>1, <2>3, <2>4
<1>6. BusyInv' /\ MakingInv'
  BY <1>4, <1>5 DEF BusyInv, MakingInv
<1>7. ASSUME NEW m \in Names \ {n} PROVE KeptAt(m)'
  <2>1. KeptAt(m)
    BY KeptNameByName DEF ExperimentInv
  <2> QED
    BY <2>1 DEF KeptAt, OnlyAt, Kept
<1>8. ExperimentsKept'
  <2>1. \A m \in Names : KeptAt(m)'
    BY <1>7
  <2>2. \A a \in announced' : a.name \in Names
    BY DEF TypeOK
  <2>3. CreatedOnce'
    BY <2>1, <2>2 DEF CreatedOnce, KeptAt, Announced, Kept
  <2>4. NothingLost'
    BY <2>1, <2>2 DEF NothingLost, KeptAt, Announced, Kept
  <2> QED
    BY <2>3, <2>4 DEF ExperimentsKept
<1> QED
  BY <1>2, <1>3, <1>6, <1>8 DEF ExperimentInv


LEMMA MakingSteps ==
  ASSUME Installation, TypeOK, TypeOK', ExperimentInv, NEW p \in Procs,
         Save(p) \/ MakeFolder(p) \/ Configure(p)
  PROVE  ExperimentInv'
<1>0. pc[p] \in Making
  BY DEF Save, MakeFolder, Configure, Making
<1>1. PICK n \in Names : n = name[p] /\ pc[p] \in Making
  BY <1>0 DEF ExperimentInv, NamesInv, Making
<1>2. MakingAt(p) /\ \A q \in Procs : MakingAt(q)
  BY DEF ExperimentInv, MakingInv
<1>3. KeptAt(n)
  BY <1>1, KeptNameByName DEF ExperimentInv
<1>4. UNCHANGED <<asked, tar, overwritten>> /\ \A m : Rows(m) \subseteq Rows(m)'
  BY RowsGrow DEF Save, MakeFolder, Configure, dbVars, diskVars, Rows
<1>5. \A q \in Procs \ {p} : /\ pc'[q] = pc[q] /\ name'[q] = name[q]
                           /\ tag'[q] = tag[q] /\ cmd'[q] = cmd[q]
  BY DEF Save, MakeFolder, Configure, Go, Stay, End, TypeOK
<1>6. \A m \in Names \ {n} : dir'[m] = dir[m] /\ Announced(m)' = Announced(m)
  BY <1>1 DEF Save, MakeFolder, Configure, Announced, TypeOK, diskVars
<1>7. OnlyAt(p)
  BY <1>1, <1>4, <1>5, <1>6 DEF OnlyAt
<1>8. GoesOn(p, Making)
  BY DEF GoesOn, Save, MakeFolder, Configure, Go, Stay, End, TypeOK, Making
<1>9. BusyAt(p)'
  BY <1>8 DEF GoesOn, BusyAt, AtWork, Making
<1>10. CASE Save(p)
  <2>1. name' = name /\ dir' = dir /\ announced' = announced /\ pc[p] = "save" /\ pc'[p] = "mkdir"
    BY <1>10 DEF Save, Go, Stay, diskVars, TypeOK
  <2>2. Rows(n)' # {}
    BY <1>1, <1>10, RowsGrow DEF Save
  <2>3. MakingAt(p)'
    BY <1>1, <1>2, <2>1, <2>2 DEF MakingAt, IsThere, Announced, Kept
  <2>4. \A q \in Procs \ {p} : MakingAt(q)'
    BY <1>2, <1>4, <1>5, <2>1 DEF MakingAt, IsThere, Announced, Kept
  <2>5. KeptAt(n)'
    BY <1>3, <1>4, <2>1 DEF KeptAt, Announced, Kept
  <2> QED
    BY <1>1, <1>7, <1>8, <1>9, <2>3, <2>4, <2>5, StepInv
<1>11. CASE MakeFolder(p)
  <2>1. /\ pc[p] = "mkdir" /\ pc'[p] = "config" /\ name' = name /\ tag' = tag
        /\ announced' = announced /\ dir[n].is = "none" /\ dir'[n] = Thing("made", tag[p])
    BY <1>1, <1>11 DEF MakeFolder, CanMake, Go, Stay, TypeOK
  <2>2. Announced(n) = {}
    BY <1>1, <1>2, <2>1 DEF MakingAt, IsThere
  <2>3. MakingAt(p)'
    BY <1>1, <1>2, <1>4, <2>1, <2>2 DEF MakingAt, Announced
  <2>4. ASSUME NEW q \in Procs \ {p}, name[q] = n PROVE MakingAt(q)'
    <3>1. pc[q] = "config" => dir[n] = Thing("made", tag[q])
      BY <1>2, <2>4 DEF MakingAt
    <3>2. pc[q] # "config"
      BY <2>1, <3>1 DEF Thing
    <3>3. Announced(n)' = {}
      BY <2>1, <2>2 DEF Announced
    <3> QED
      BY <1>2, <1>4, <1>5, <2>4, <3>2, <3>3 DEF MakingAt
  <2>5. KeptAt(n)'
    BY <2>1, <2>2 DEF KeptAt, Announced, Kept
  <2> QED
    BY <1>1, <1>7, <1>8, <1>9, <2>3, <2>4, <2>5, StepInv
<1>12. CASE Configure(p)
  <2>1. /\ pc[p] = "config" /\ pc'[p] = "idle" /\ dir'[n] = Thing("whole", tag[p])
        /\ announced' = announced \cup {[name |-> n, tag |-> tag[p]]}
    BY <1>1, <1>12 DEF Configure, End, Go, TypeOK
  <2>2. Announced(n) = {} /\ Rows(n) # {} /\ dir[n] = Thing("made", tag[p])
    BY <1>1, <1>2, <2>1 DEF MakingAt
  <2>3. Announced(n)' = {[name |-> n, tag |-> tag[p]]}
    BY <2>1, <2>2 DEF Announced
  <2>4. MakingAt(p)'
    BY <2>1 DEF MakingAt
  <2>5. ASSUME NEW q \in Procs \ {p}, name[q] = n PROVE MakingAt(q)'
    <3>3. pc[q] = "config" => dir[n] = Thing("made", tag[q])
      BY <1>2, <2>5 DEF MakingAt
    <3>4. pc[q] = "config" => tag[q] = tag[p]
      BY <2>2, <3>3 DEF Thing
    <3>1. pc[q] # "config"
      BY <2>1, <3>4 DEF ExperimentInv, NumbersInv
    <3>2. IsThere(n)'
      BY <2>1 DEF IsThere, Thing
    <3> QED
      BY <1>2, <1>4, <1>5, <2>5, <3>1, <3>2 DEF MakingAt
  <2>6. KeptAt(n)'
    BY <1>4, <2>1, <2>2, <2>3 DEF KeptAt, Kept, Whole
  <2> QED
    BY <1>1, <1>7, <1>8, <1>9, <2>4, <2>5, <2>6, StepInv
<1> QED
  BY <1>10, <1>11, <1>12

\* What a busy command does is seen by no other that is busy with the name or makes it.
LEMMA BusyStepInv ==
  ASSUME TypeOK, TypeOK', ExperimentInv, NEW p \in Procs, pc[p] \in AtWork, GoesOn(p, AtWork),
         OnlyAt(p), BusyAt(p)', NEW n \in Names, n = name[p], KeptAt(n)'
  PROVE  ExperimentInv'
<1>1. MakingAt(p)'
  BY DEF GoesOn, MakingAt, AtWork
<1>2. pc[p] \notin Making
  BY DEF AtWork, Making
<1> QED
  BY <1>1, <1>2, StepInv

LEMMA DeleteSteps ==
  ASSUME Installation, TypeOK, TypeOK', ExperimentInv, NEW p \in Procs,
         DeleteDetails(p) \/ DeleteRow(p) \/ RemoveFolder(p)
  PROVE  ExperimentInv'
<1>0. pc[p] \in AtWork
  BY DEF DeleteDetails, DeleteRow, RemoveFolder, AtWork
<1>1. PICK n \in Names : n = name[p]
  BY <1>0 DEF ExperimentInv, NamesInv, AtWork
<1>2. BusyAt(p)
  BY DEF ExperimentInv, BusyInv
<1>3. KeptAt(n)
  BY <1>1, KeptNameByName DEF ExperimentInv
<1>4. UNCHANGED <<asked, tar, overwritten>> /\ \A m \in Names \ {n} : Rows(m) \subseteq Rows(m)'
  BY <1>1 DEF DeleteDetails, DeleteRow, RemoveFolder, dbVars, diskVars, Rows
<1>5. \A q \in Procs \ {p} : /\ pc'[q] = pc[q] /\ name'[q] = name[q]
                           /\ tag'[q] = tag[q] /\ cmd'[q] = cmd[q]
  BY DEF DeleteDetails, DeleteRow, RemoveFolder, Go, Stay, End, TypeOK
<1>6. \A m \in Names \ {n} : dir'[m] = dir[m] /\ Announced(m)' = Announced(m)
  BY <1>1 DEF DeleteDetails, DeleteRow, RemoveFolder, Announced, TypeOK, diskVars
<1>7. OnlyAt(p)
  BY <1>1, <1>4, <1>5, <1>6 DEF OnlyAt
<1>8. GoesOn(p, AtWork)
  BY DEF GoesOn, DeleteDetails, DeleteRow, RemoveFolder, Go, Stay, End, TypeOK, AtWork
<1>9. Announced(n)' = {}
  BY <1>1, <1>2 DEF BusyAt, Announced, DeleteDetails, DeleteRow, RemoveFolder
<1>10. KeptAt(n)'
  BY <1>9 DEF KeptAt, Kept
<1>11. BusyAt(p)'
  <2>1. CASE DeleteDetails(p)
    <3>1. pc'[p] = "row" /\ name'[p] = n /\ dir' = dir /\ IsThere(n)
      BY <1>1, <2>1 DEF DeleteDetails, CanDelete, IsThere, Go, Stay, diskVars, TypeOK
    <3> QED
      BY <1>9, <3>1 DEF BusyAt, IsThere, Kept
  <2>2. CASE DeleteRow(p)
    <3>0. pc' = [pc EXCEPT ![p] = "rmtree"] \/ pc' = [pc EXCEPT ![p] = "error"]
      BY <2>2, Zenon DEF DeleteRow, Go
    <3>1. pc'[p] \in {"rmtree", "error"}
      BY <3>0 DEF TypeOK
    <3>2. name'[p] = n /\ dir' = dir /\ IsThere(n)
      BY <1>1, <1>2, <2>2 DEF BusyAt, DeleteRow, Stay, diskVars
    <3> QED
      BY <1>9, <3>1, <3>2 DEF BusyAt, IsThere, Kept
  <2>3. CASE RemoveFolder(p)
    <3>1. pc'[p] = "idle"
      BY <2>3 DEF RemoveFolder, End, Go, TypeOK
    <3> QED
      BY <3>1 DEF BusyAt, AtWork
  <2> QED
    BY <2>1, <2>2, <2>3
<1> QED
  BY <1>0, <1>1, <1>7, <1>8, <1>10, <1>11, BusyStepInv

ArchiveStep(p) ==
  \/ TarBegins(p) \/ TarEnds(p) \/ RemoveBegins(p) \/ RemoveEnds(p)
  \/ ExtractBegins(p) \/ ExtractEnds(p) \/ RemoveTar(p)

LEMMA ArchiveSteps ==
  ASSUME Installation, TypeOK, TypeOK', ExperimentInv, NEW p \in Procs, ArchiveStep(p)
  PROVE  ExperimentInv'
<1>0. pc[p] \in AtWork
  BY DEF ArchiveStep, TarBegins, TarEnds, RemoveBegins, RemoveEnds, ExtractBegins, ExtractEnds,
         RemoveTar, AtWork
<1>1. PICK n \in Names : n = name[p]
  BY <1>0 DEF ExperimentInv, NamesInv, AtWork
<1>2. PICK f \in Formats : f = cmd[p].format
  BY DEF TypeOK, Command
<1>3. BusyAt(p) /\ KeptAt(n)
  BY <1>1, KeptNameByName DEF ExperimentInv, BusyInv
<1>4. UNCHANGED <<asked, rows, announced>> /\ overwritten \subseteq overwritten'
  BY DEF ArchiveStep, TarBegins, TarEnds, RemoveBegins, RemoveEnds, ExtractBegins, ExtractEnds,
         RemoveTar, dbVars
<1>5. \A q \in Procs \ {p} : /\ pc'[q] = pc[q] /\ name'[q] = name[q]
                           /\ tag'[q] = tag[q] /\ cmd'[q] = cmd[q]
  BY DEF ArchiveStep, TarBegins, TarEnds, RemoveBegins, RemoveEnds, ExtractBegins, ExtractEnds,
         RemoveTar, Go, Stay, End, TypeOK
<1>6. \A m \in Names \ {n} : dir'[m] = dir[m] /\ tar'[m] = tar[m]
  BY <1>1 DEF ArchiveStep, TarBegins, TarEnds, RemoveBegins, RemoveEnds, ExtractBegins,
              ExtractEnds, RemoveTar, SetTar, TypeOK
<1>7. OnlyAt(p)
  BY <1>1, <1>4, <1>5, <1>6 DEF OnlyAt, Rows, Announced
<1>8. Announced(n)' = Announced(n) /\ Rows(n)' = Rows(n) /\ Kept(n)' \subseteq Kept(n)
  BY <1>4 DEF Announced, Rows, Kept
<1>9. ASSUME GoesOn(p, AtWork), BusyAt(p)',
             \A a \in Kept(n)' : Whole(a) \in {dir'[n]} \cup {tar'[n][g] : g \in Formats}
      PROVE  ExperimentInv'
  <2>1. KeptAt(n)'
    BY <1>3, <1>8, <1>9 DEF KeptAt
  <2> QED
    BY <1>0, <1>1, <1>7, <1>9, <2>1, BusyStepInv
<1>10. \A a \in Kept(n) : dir[n] = Whole(a) \/ \E g \in Formats : tar[n][g] = Whole(a)
  BY <1>3 DEF KeptAt
<1>11. /\ \A a : Whole(a).is = "whole"
       /\ \A t \in Things : t.is = "whole" => Whole(t) = t
       /\ dir[n] \in Things /\ tar[n][f] \in Things
  BY DEF Thing, Whole, Things, TypeOK
<1>12. CASE TarBegins(p)
  <2>1. /\ pc[p] = "archive" /\ pc'[p] = "tar" /\ name'[p] = n /\ tag'[p] = tag[p]
        /\ cmd' = cmd /\ dir' = dir /\ IsThere(n)
    BY <1>1, <1>12 DEF TarBegins, Go, Stay, IsThere, TypeOK
  <2>2. /\ tar'[n][f] = Thing("cut", 0)
        /\ \A g \in Formats \ {f} : tar'[n][g] = tar[n][g]
    BY <1>1, <1>2, <1>12 DEF TarBegins, SetTar, TypeOK
  <2>3. \A a \in Kept(n)' : tar[n][f] = Whole(a) => dir[n] = Whole(a)
    BY <1>1, <1>2, <1>12 DEF TarBegins, Over, Kept, Announced
  <2>4. BusyAt(p)'
    BY <1>2, <2>1, <2>2 DEF BusyAt, IsThere, Thing
  <2>5. GoesOn(p, AtWork)
    BY <1>1, <2>1 DEF GoesOn, AtWork
  <2>6. \A a \in Kept(n)' : dir[n] = Whole(a) \/ \E g \in Formats \ {f} : tar[n][g] = Whole(a)
    BY <1>8, <1>10, <2>3
  <2> QED
    BY <1>9, <2>1, <2>2, <2>4, <2>5, <2>6
<1>13. CASE TarEnds(p)
  <2>1. pc[p] = "tar" /\ dir' = dir /\ IsThere(n) /\ tar[n][f].is = "cut"
    BY <1>1, <1>2, <1>3, <1>13 DEF TarEnds, BusyAt
  <2>2. CASE Go(p, "remove") /\ Stay /\ SetTar(n, f, dir[n])
    <3>1. /\ pc'[p] = "remove" /\ name'[p] = n /\ tag'[p] = tag[p] /\ cmd'[p].format = f
          /\ tar'[n][f] = dir[n] /\ \A g \in Formats \ {f} : tar'[n][g] = tar[n][g]
      BY <1>1, <1>2, <2>2 DEF Go, Stay, SetTar, TypeOK
    <3>2. \A a \in Kept(n)' : \E g \in Formats : tar'[n][g] = Whole(a)
      BY <1>8, <1>10, <1>11, <2>1, <3>1
    <3>3. BusyAt(p)'
      BY <1>8, <2>1, <3>1, <3>2 DEF BusyAt, IsThere
    <3>4. GoesOn(p, AtWork)
      BY <1>1, <3>1 DEF GoesOn, AtWork
    <3> QED
      BY <1>9, <3>2, <3>3, <3>4
  <2>3. CASE End(p) /\ UNCHANGED tar
    <3>1. pc'[p] = "idle" /\ tag'[p] = 0
      BY <2>3 DEF End, Go, TypeOK
    <3> QED
      BY <1>8, <1>9, <1>10, <2>1, <2>3, <3>1 DEF GoesOn, BusyAt, AtWork
  <2> QED
    BY <1>1, <1>2, <1>13, <2>2, <2>3, Zenon DEF TarEnds
<1>14. CASE RemoveBegins(p)
  <2>1. /\ pc[p] = "remove" /\ pc'[p] = "removing" /\ name'[p] = n /\ tag'[p] = tag[p]
        /\ cmd' = cmd /\ tar' = tar /\ dir'[n].is = "part"
    BY <1>1, <1>14 DEF RemoveBegins, Go, Stay, TypeOK, Things
  <2>2. \A a \in Kept(n)' : \E g \in Formats : tar'[n][g] = Whole(a)
    BY <1>1, <1>3, <1>8, <2>1 DEF BusyAt
  <2>3. BusyAt(p)'
    BY <1>8, <2>1, <2>2 DEF BusyAt, IsThere
  <2>4. GoesOn(p, AtWork)
    BY <1>1, <2>1 DEF GoesOn, AtWork
  <2> QED
    BY <1>9, <2>2, <2>3, <2>4
<1>15. CASE RemoveEnds(p)
  <2>1. pc[p] = "removing" /\ tar' = tar
    BY <1>15 DEF RemoveEnds
  <2>2. \A a \in Kept(n)' : \E g \in Formats : tar'[n][g] = Whole(a)
    BY <1>1, <1>3, <1>8, <2>1 DEF BusyAt
  <2>5. IsThere(n)
    BY <1>1, <1>3, <2>1 DEF BusyAt
  <2>3. CASE End(p)
    <3>1. pc'[p] = "idle" /\ tag'[p] = 0
      BY <2>3 DEF End, Go, TypeOK
    <3> QED
      BY <1>9, <2>2, <3>1 DEF GoesOn, BusyAt, AtWork
  <2>4. CASE Go(p, "unarchive") /\ UNCHANGED <<dir, name, tag>>
    <3>1. pc'[p] = "unarchive" /\ name'[p] = n /\ tag'[p] = tag[p] /\ dir' = dir
      BY <1>1, <2>4 DEF Go, TypeOK
    <3>2. BusyAt(p)'
      BY <2>5, <3>1 DEF BusyAt, IsThere
    <3>3. GoesOn(p, AtWork)
      BY <1>1, <3>1 DEF GoesOn, AtWork
    <3> QED
      BY <1>9, <2>2, <3>2, <3>3
  <2> QED
    BY <1>15, <2>3, <2>4, Zenon DEF RemoveEnds
<1>16. CASE ExtractBegins(p)
  <2>1. /\ pc[p] = "unarchive" /\ pc'[p] = "extract" /\ name'[p] = n /\ tag'[p] = tag[p]
        /\ cmd' = cmd /\ tar' = tar /\ tar[n][f].is # "none"
    BY <1>1, <1>2, <1>16 DEF ExtractBegins, Go, Stay, TypeOK
  <2>2. dir'[n].is \in {"part", "whole"}
    <3>1. dir[n] = Whole(tar[n][f]) => dir' = dir
      BY <1>1, <1>2, <1>16 DEF ExtractBegins
    <3>2. dir[n] # Whole(tar[n][f]) => dir'[n] = Thing("part", tar[n][f].tag)
      BY <1>1, <1>2, <1>16 DEF ExtractBegins, TypeOK
    <3> QED
      BY <3>1, <3>2 DEF Thing, Whole
  <2>3. \A a \in Kept(n)' : dir[n] = Whole(a) => tar[n][f] = Whole(a)
    BY <1>1, <1>2, <1>16 DEF ExtractBegins, Over, Kept, Announced
  <2>4. \A a \in Kept(n)' : \E g \in Formats : tar'[n][g] = Whole(a)
    BY <1>2, <1>8, <1>10, <2>1, <2>3
  <2>5. BusyAt(p)'
    BY <1>2, <2>1, <2>2, <2>4 DEF BusyAt, IsThere
  <2>6. GoesOn(p, AtWork)
    BY <1>1, <2>1 DEF GoesOn, AtWork
  <2> QED
    BY <1>9, <2>4, <2>5, <2>6
<1>17. CASE ExtractEnds(p)
  <2>1. pc[p] = "extract" /\ tar' = tar
    BY <1>17 DEF ExtractEnds
  <2>2. tar[n][f].is # "none"
    BY <1>1, <1>2, <1>3, <2>1 DEF BusyAt
  <2>5. \A a \in Kept(n)' : \E g \in Formats : tar'[n][g] = Whole(a)
    BY <1>1, <1>3, <1>8, <2>1 DEF BusyAt
  <2>3. CASE Go(p, "unlink") /\ Stay /\ dir' = IF dir[n] = Whole(tar[n][f]) THEN dir
                                                ELSE [dir EXCEPT ![n] = tar[n][f]]
    <3>1. pc'[p] = "unlink" /\ name'[p] = n /\ tag'[p] = tag[p] /\ cmd' = cmd
      BY <1>1, <2>3 DEF Go, Stay, TypeOK
    <3>2. dir'[n] = Whole(tar[n][f]) \/ dir'[n] = tar[n][f]
      BY <2>3 DEF TypeOK
    <3>3. IsThere(n)' /\ (tar[n][f].is = "whole" => dir'[n] = Whole(tar[n][f]))
      BY <1>11, <2>2, <3>2 DEF IsThere
    <3>4. BusyAt(p)'
      BY <1>2, <2>1, <3>1, <3>3 DEF BusyAt, IsThere
    <3>5. GoesOn(p, AtWork)
      BY <1>1, <3>1 DEF GoesOn, AtWork
    <3> QED
      BY <1>9, <2>5, <3>4, <3>5
  <2>4. CASE End(p)
    <3>1. pc'[p] = "idle" /\ tag'[p] = 0
      BY <2>4 DEF End, Go, TypeOK
    <3> QED
      BY <1>9, <2>5, <3>1 DEF GoesOn, BusyAt, AtWork
  <2> QED
    BY <1>1, <1>2, <1>17, <2>3, <2>4, Zenon DEF ExtractEnds
<1>18. CASE RemoveTar(p)
  <2>1. pc[p] = "unlink" /\ dir' = dir /\ pc'[p] = "idle" /\ tag'[p] = 0
    BY <1>18 DEF RemoveTar, End, Go, TypeOK
  <2>2. tar[n][f].is = "whole" => dir[n] = Whole(tar[n][f])
    BY <1>1, <1>2, <1>3, <2>1 DEF BusyAt
  <2>3. \A g \in Formats \ {f} : tar'[n][g] = tar[n][g]
    BY <1>1, <1>2, <1>18 DEF RemoveTar, SetTar, TypeOK
  <2>4. GoesOn(p, AtWork) /\ BusyAt(p)'
    BY <2>1 DEF GoesOn, BusyAt, AtWork
  <2>5. \A a \in Kept(n)' : tar[n][f] = Whole(a) => dir[n] = Whole(a)
    BY <1>11, <2>2
  <2>6. \A a \in Kept(n)' : dir[n] = Whole(a) \/ \E g \in Formats \ {f} : tar[n][g] = Whole(a)
    BY <1>8, <1>10, <2>5
  <2> QED
    BY <1>9, <2>1, <2>3, <2>4, <2>6
<1> QED
  BY <1>12, <1>13, <1>14, <1>15, <1>16, <1>17, <1>18 DEF ArchiveStep

LEMMA NameFreeInv ==
  ASSUME TypeOK, ExperimentInv, NEW p \in Procs, NameFree(p)
  PROVE  ExperimentInv'
<1>1. PICK n \in Names : n = name[p]
  BY DEF NameFree, ExperimentInv, NamesInv
<1>2. /\ pc[p] = "check" /\ pc' = [pc EXCEPT ![p] = "save"] /\ Rows(n) = {} /\ ~IsThere(n)
      /\ UNCHANGED <<rows, dir, tar, cmd, name, tag, announced, overwritten, asked>>
  BY <1>1 DEF NameFree, Go, Stay, IsThere, dbVars, diskVars
<1>3. pc'[p] = "save" /\ \A q \in Procs \ {p} : pc'[q] = pc[q]
  BY <1>2 DEF TypeOK
<1>4. NamesInv' /\ NumbersInv'
  BY <1>1, <1>2, <1>3 DEF ExperimentInv, NamesInv, NumbersInv
<1>5. AloneAtName'
  <2>1. \A q \in Procs : pc[q] \in AtWork => name[q] # n
    BY <1>2 DEF ExperimentInv, BusyInv, BusyAt
  <2> QED
    BY <1>1, <1>2, <1>3, <2>1 DEF ExperimentInv, AloneAtName, AtWork, Making
<1>6. BusyInv'
  BY <1>2, <1>3 DEF ExperimentInv, BusyInv, BusyAt, AtWork, IsThere, Rows, Announced, Kept
<1>7. Announced(n) = {}
  BY <1>2, KeptNameByName DEF ExperimentInv, KeptAt
<1>8. MakingInv'
  BY <1>1, <1>2, <1>3, <1>7 DEF ExperimentInv, MakingInv, MakingAt, IsThere, Rows, Announced, Kept
<1>9. ExperimentsKept'
  BY <1>2 DEF ExperimentInv, ExperimentsKept, CreatedOnce, NothingLost, Rows
<1> QED
  BY <1>4, <1>5, <1>6, <1>8, <1>9 DEF ExperimentInv

LEMMA LookSteps ==
  ASSUME Installation, TypeOK, ExperimentInv, NEW p \in Procs, ReadLast(p) \/ NameTaken(p)
  PROVE  ExperimentInv'
<1>1. CASE ReadLast(p)
  <2>1. PICK n \in StartNames(cmd[p].kind) : name' = [name EXCEPT ![p] = n]
    BY <1>1, Zenon DEF ReadLast
  <2>2. cmd[p].kind \in Kinds
    BY DEF TypeOK, Command
  <2>3. n \in Names
    BY <2>1, <2>2 DEF StartNames, TypeOK, Installation
  <2>4. pc[p] # "idle" /\ GoesTo(p, "check") /\ KeepsBut
    BY <1>1 DEF ReadLast, Go, GoesTo, KeepsBut, dbVars, diskVars, Rows
  <2> QED
    BY <2>1, <2>3, <2>4, LookInv
<1>2. CASE NameTaken(p)
  <2>1. name[p] + 1 \in Names /\ name' = [name EXCEPT ![p] = name[p] + 1]
    BY <1>2 DEF NameTaken
  <2>2. Insert(name[p]) \/ UNCHANGED <<rows, nextId>>
    BY <1>2, Zenon DEF NameTaken
  <2>3. pc[p] # "idle" /\ GoesTo(p, "check")
    BY <1>2 DEF NameTaken, GoesTo, TypeOK
  <2>4. KeepsBut
    BY <1>2, <2>2, RowsGrow DEF NameTaken, KeepsBut, diskVars
  <2> QED
    BY <2>1, <2>3, <2>4, LookInv
<1> QED
  BY <1>1, <1>2

\* The ways a command ends with nothing done, or is killed.
LEMMA EndSteps ==
  ASSUME TypeOK, ExperimentInv, NEW p \in Procs,
         \/ CannotCopy(p) \/ RefusedByDatabase(p) \/ NoNameLeft(p) \/ CallLost(p)
         \/ FolderExists(p) \/ CannotConfigure(p) \/ CannotDelete(p) \/ NotThere(p) \/ Kill(p)
  PROVE  ExperimentInv'
<1>1. End(p) /\ UNCHANGED <<dir, tar, announced, overwritten, asked>>
  BY DEF CannotCopy, RefusedByDatabase, NoNameLeft, CallLost, FolderExists, CannotConfigure,
         CannotDelete, NotThere, Kill, Cleaned, diskVars
<1>2. Insert(name[p]) \/ UNCHANGED <<rows, nextId>>
  BY DEF CannotCopy, RefusedByDatabase, NoNameLeft, CallLost, FolderExists, CannotConfigure,
         CannotDelete, NotThere, Kill, dbVars
<1> QED
  BY <1>1, <1>2, RowsGrow, EndKeepsInv DEF KeepsBut

LEMMA NextInv ==
  Installation /\ TypeOK /\ ExperimentInv /\ [Next]_vars => TypeOK' /\ ExperimentInv'
<1> SUFFICES ASSUME Installation, TypeOK, ExperimentInv, [Next]_vars
             PROVE  TypeOK' /\ ExperimentInv'
  OBVIOUS
<1>1. TypeOK'
  BY NextTypes DEF ExperimentInv
<1>2. ASSUME UNCHANGED vars PROVE ExperimentInv'
  BY <1>2 DEF vars, dbVars, diskVars, ExperimentInv, NamesInv, AloneAtName, NumbersInv, BusyInv, BusyAt,
              MakingInv, MakingAt, ExperimentsKept, CreatedOnce, NothingLost, Rows, IsThere, Announced,
              Kept
<1>3. ASSUME NEW p \in Procs, Expid(p) PROVE ExperimentInv'
  BY <1>1, <1>3, LookSteps, NameFreeInv, MakingSteps, EndSteps DEF Expid
<1>4. ASSUME NEW p \in Procs, Delete(p) PROVE ExperimentInv'
  BY <1>1, <1>4, DeleteSteps, EndSteps DEF Delete
<1>5. ASSUME NEW p \in Procs, Archive(p) \/ Unarchive(p) PROVE ExperimentInv'
  BY <1>1, <1>5, ArchiveSteps, EndSteps DEF Archive, Unarchive, ArchiveStep
<1>6. ASSUME NEW p \in Procs, Kill(p) PROVE ExperimentInv'
  BY <1>6, EndSteps
<1>7. ExperimentInv'
  BY <1>2, <1>3, <1>4, <1>5, <1>6, StartInv DEF Next
<1> QED
  BY <1>1, <1>7

\* Every variable keeps its type: a name is one of the names there are wherever a command
\* looks for a folder or a row by it.
THEOREM ExperimentTypesCorrect == ASSUME Installation PROVE Spec => []TypeOK
BY InitTypes, InitInv, NextInv, PTL DEF Spec

\* Whatever users create, copy, delete, archive and unarchive at the same time, and
\* wherever they are killed or a call of the database is lost: no expid is given
\* twice, and what was created has its row and is whole in its folder or an archive
\* until it is deleted, or until a later archive of a folder that is not whole, or
\* unarchive of an archive that is not, is written over its whole copy.
THEOREM NoneGivenTwiceNoneLost ==
  ASSUME Installation
  PROVE  Spec => []ExperimentsKept
<1>1. ExperimentInv => ExperimentsKept
  BY DEF ExperimentInv
<1> QED
  BY <1>1, InitTypes, InitInv, NextInv, PTL DEF Spec

-----------------------------------------------------------------------------
(* History: the invariant.                                                 *)

Points == {"idle", "submit", "clear", "insert", "start", "started", "finish", "finished"}
CommandNames == {"none", "create", "setstatus", "run", "loop", "end"}
Steps == {"", "read", "change", "finish", "insert", "count", "finished"}
Keys == Jobs \X Nat
Items == [job : Jobs, id : 0..ids, status : Statuses, tries : Nat]
Pending == UNION {[S -> JobDataRows] : S \in SUBSET Keys}
WriterStates == [pc : Points, item : Items, counter : Nat, seen : Pending]
ThreadStates ==
  [of : 1..Writers, key : Keys, row : JobDataRows, asked : BOOLEAN, todo : Pending]

ListTypes ==
  /\ setting \in Settings
  /\ list \in [Jobs -> Statuses]
  /\ ids \in MadeUpId..(MaxAttempts + MadeUpId)
  /\ id \in [Jobs -> 0..ids]
  /\ commands \in 0..MaxOrders
  /\ behind \in BOOLEAN /\ stopped \subseteq Jobs
  /\ logged \subseteq Jobs \X (0..ids) /\ missed \subseteq Jobs \X (0..ids)
  /\ command \in [name : CommandNames, step : Steps, changes : SUBSET Keys]
  /\ Does("none") => command = NoCommand

TableTypes == jobData \in [Jobs -> Seq(JobDataRows)] /\ runs \in Seq(RunRows)

WriterTypes ==
  /\ current \in 1..Writers
  /\ queue \in [1..Writers -> Seq(Items)]
  /\ writer \in [1..Writers -> WriterStates]
  /\ threads \subseteq ThreadStates
  /\ \A w \in 1..Writers : writer[w].pc = "idle" => writer[w] = Resting

Types == ListTypes /\ TableTypes /\ WriterTypes

RowIds == \A j \in Jobs : \A k \in DOMAIN jobData[j] : jobData[j][k].id <= ids

\* The counters of a job are those of its rows, in the order of insertion.
CounterInv ==
  \A j \in Jobs : \A k \in DOMAIN jobData[j] : jobData[j][k].counter = k - 1

\* The attempt a process is at, and whether it may be left without a row.
AttemptOf(w) == <<writer[w].item.job, writer[w].item.id>>
Spared(w) == AttemptOf(w) \in missed

\* ... and the one a process holds is the next; or else it is one that is taken.
NumberAt(w) ==
  LET n == Len(jobData[writer[w].item.job]) IN
  writer[w].pc \in {"clear", "insert"} =>
    /\ writer[w].counter <= n
    /\ Spared(w) \/ writer[w].counter = n
    /\ writer[w].pc = "clear" =>
         \A key \in DOMAIN writer[w].seen : key[2] <= writer[w].counter

\* A row that was read and is to be written back has the id and the counter that
\* the row has now,
Fits(key, row) ==
  /\ key \in Keys
  /\ key[2] \in DOMAIN jobData[key[1]]
  /\ row \in JobDataRows
  /\ row.id = jobData[key[1]][key[2]].id
  /\ row.counter = jobData[key[1]][key[2]].counter

\* ... and the newest row of a job is written back as the last, but while a process
\* replaces it.
Replacing(j) ==
  \E w \in 1..Writers : /\ writer[w].pc = "insert" /\ writer[w].item.job = j
                        /\ writer[w].counter = Len(jobData[j])
Keeps(key, row) ==
  key[2] = Len(jobData[key[1]]) =>
    row.last \/ key[1] \in stopped \/ Replacing(key[1])

SeenAt(w) ==
  \A key \in DOMAIN writer[w].seen :
    /\ Fits(key, writer[w].seen[key])
    /\ key[1] = writer[w].item.job
    /\ writer[w].pc # "clear" => Keeps(key, writer[w].seen[key])

ThreadAt(t) ==
  /\ Fits(t.key, t.row) /\ Keeps(t.key, t.row)
  /\ \A key \in DOMAIN t.todo : Fits(key, t.todo[key]) /\ Keeps(key, t.todo[key])

\* The newest row of a job is the last, but while a process replaces it.
LastAt(j) ==
  jobData[j] # <<>> =>
    jobData[j][Len(jobData[j])].last \/ j \in stopped \/ Replacing(j)

\* Processes that register rows of a job at the same time are both spared, and so
\* are those that do it after another was killed.
Registers(w) == writer[w].pc \in {"clear", "insert"}
ApartInv ==
  \A w \in 1..Writers : Registers(w) =>
    /\ \A v \in 1..Writers :
         Registers(v) /\ writer[v].item.job = writer[w].item.job => v = w \/ Spared(w)
    /\ writer[w].item.job \in stopped => Spared(w)

\* A submission has its row by the time its start is written, and the row is what
\* its end is written in.
RowAt(w) ==
  /\ writer[w].pc \in {"start", "started", "finish", "finished"} =>
       Spared(w) \/ WithId(writer[w].item.job, writer[w].item.id) # {}
  /\ writer[w].pc = "finished" =>
       Spared(w) \/ \E key \in DOMAIN writer[w].seen : writer[w].seen[key].id = writer[w].item.id

WritersInv == \A w \in 1..Writers : NumberAt(w) /\ SeenAt(w) /\ RowAt(w)
ThreadInv == \A t \in threads : ThreadAt(t)
LastInv == \A j \in Jobs : LastAt(j)
LoggedInv == \A attempt \in logged \ missed : WithId(attempt[1], attempt[2]) # {}

AttemptsInv ==
  /\ Types
  /\ RowIds /\ CounterInv
  /\ WritersInv /\ ThreadInv
  /\ LastInv /\ ApartInv /\ LoggedInv

\* Where one process and its threads write, at most: no thread but on Slurm, and it
\* writes rows of other jobs in a wrapper only,
ThreadsInv ==
  /\ threads # {} => Slurm
  /\ \A t \in threads : \A key \in DOMAIN t.todo : key[1] \in Wrapped

\* ... what is pending takes no end away,
Ended(key) == jobData[key[1]][key[2]].finish
EndsAt(w) ==
  \A key \in DOMAIN writer[w].seen : EndsKept(key[1]) =>
    /\ Ended(key) => writer[w].seen[key].finish
    /\ writer[w].pc = "finished" => writer[w].seen[key].finish
EndsInv ==
  /\ \A w \in 1..Writers : EndsAt(w)
  /\ \A t \in threads : EndsKept(t.key[1]) => t.row.finish /\ Ended(t.key)
  /\ \A attempt \in logged \ missed : EndsKept(attempt[1]) =>
       \E k \in WithId(attempt[1], attempt[2]) : Ended(<<attempt[1], k>>)

\* ... and what is pending makes no other row the last.
OneLastAt(w) ==
  LET j == writer[w].item.job
      seen == writer[w].seen
  IN /\ writer[w].pc = "clear" =>
          \A k \in LastRows(j) : <<j, k>> \in DOMAIN seen
     /\ writer[w].pc = "clear" => \A key \in DOMAIN seen : ~seen[key].last
     /\ writer[w].pc = "insert" => LastRows(j) = {}
     /\ writer[w].pc \in {"started", "finished"} =>
          \A key \in DOMAIN seen : seen[key].last => key[2] \in LastRows(j)
OneLastInv ==
  OneWriter => /\ \A j \in Jobs : \A k, l \in LastRows(j) : k = l
               /\ \A w \in 1..Writers : OneLastAt(w)

SoleInv == ThreadsInv /\ EndsInv /\ OneLastInv

-----------------------------------------------------------------------------
(* Finding the last row.                                                   *)

LEMMA OneMore == ASSUME NEW m \in Nat PROVE m + 1 # m /\ m <= m + 1
  OBVIOUS

LEMMA LeastOf ==
  ASSUME NEW T, T \subseteq Nat, T # {}
  PROVE  \E n \in T : \A k \in T : n <= k
<1>1. PICK n \in T : \A k \in T : ~ (<<k, n>> \in OpToRel(<, Nat))
  BY NatLessThanWellFounded, WFMin
<1>2. \A k \in T : ~ (k < n)
  BY <1>1 DEF OpToRel
<1> QED
  BY <1>2

LEMMA MaxIs ==
  ASSUME NEW S, S \subseteq Nat, NEW m \in S, \A n \in S : n <= m
  PROVE  Max(S) = m
<1>1. \A x \in S : (\A y \in S : x >= y) => x = m
  OBVIOUS
<1>2. \A y \in S : m >= y
  OBVIOUS
<1> QED
  BY <1>1, <1>2 DEF Max

LEMMA MaxOfTwo ==
  ASSUME NEW x \in Nat, NEW y \in Nat
  PROVE  Max({x, y}) = IF x >= y THEN x ELSE y
<1> DEFINE S == {x, y}
           m == IF x >= y THEN x ELSE y
<1>1. S \subseteq Nat /\ m \in S /\ \A n \in S : n <= m
  OBVIOUS
<1> HIDE DEF S, m
<1>2. Max(S) = m
  BY <1>1, MaxIs
<1> QED
  BY <1>2 DEF S, m

\* A set of numbers under a bound has a greatest one.
LEMMA Greatest ==
  ASSUME NEW S, S \subseteq Nat, S # {}, NEW b \in Nat, \A n \in S : n <= b
  PROVE  \E m \in S : \A n \in S : n <= m
<1> DEFINE Bounds == {c \in Nat : \A n \in S : n <= c}
<1>1. PICK m \in Bounds : \A c \in Bounds : m <= c
  <2>1. Bounds \subseteq Nat /\ b \in Bounds
    OBVIOUS
  <2> HIDE DEF Bounds
  <2> QED
    BY <2>1, LeastOf
<1>2. CASE m \in S
  BY <1>2
<1>3. CASE m \notin S
  <2>1. \A n \in S : n <= m - 1
    BY <1>3
  <2>2. PICK n \in S : TRUE
    OBVIOUS
  <2>3. m - 1 \in Bounds
    BY <2>1, <2>2
  <2> QED
    BY <1>1, <2>3
<1> QED
  BY <1>2, <1>3

\* What the rows of a job are.
LEMMA RowsAre ==
  ASSUME TableTypes, NEW j \in Jobs
  PROVE  /\ jobData[j] \in Seq(JobDataRows)
         /\ Len(jobData[j]) \in Nat
         /\ DOMAIN jobData[j] = 1..Len(jobData[j])
         /\ \A k \in DOMAIN jobData[j] :
              /\ k \in Nat /\ 1 <= k /\ k <= Len(jobData[j])
              /\ jobData[j][k] \in JobDataRows
              /\ jobData[j][k].counter \in Nat /\ jobData[j][k].id \in Nat
              /\ jobData[j][k].last \in BOOLEAN
<1>1. jobData[j] \in Seq(JobDataRows)
  BY DEF TableTypes
<1>2. \A k \in 1..Len(jobData[j]) : jobData[j][k] \in JobDataRows
  BY <1>1
<1>3. \A row \in JobDataRows : row.counter \in Nat /\ row.id \in Nat /\ row.last \in BOOLEAN
  BY DEF JobDataRows
<1>4. Len(jobData[j]) \in Nat /\ DOMAIN jobData[j] = 1..Len(jobData[j])
  BY <1>1
<1> QED
  BY <1>1, <1>2, <1>3, <1>4

LEMMA NewestIsThere ==
  ASSUME TableTypes, CounterInv, NEW j \in Jobs,
         NEW S, S \subseteq DOMAIN jobData[j], S # {}
  PROVE  Newest(j, S) \in S
<1> DEFINE C == {jobData[j][k].counter : k \in S}
<1>1. C \subseteq Nat /\ C # {} /\ Len(jobData[j]) \in Nat
  BY RowsAre
<1>2. \A n \in C : n <= Len(jobData[j])
  BY RowsAre DEF CounterInv
<1>3. \E m \in C : \A n \in C : n <= m
  <2> HIDE DEF C
  <2> QED
    BY <1>1, <1>2, Greatest
<1>4. \E k \in S : \A l \in S : jobData[j][l].counter <= jobData[j][k].counter
  BY <1>3
<1> QED
  BY <1>4 DEF Newest

\* The newest row of a job is the one that was inserted last.
LEMMA NewestIsInsertedLast ==
  ASSUME TableTypes, CounterInv, NEW j \in Jobs,
         NEW S, S \subseteq DOMAIN jobData[j], Len(jobData[j]) \in S
  PROVE  Newest(j, S) = Len(jobData[j])
<1>1. \A k \in S : jobData[j][k].counter = k - 1 /\ k <= Len(jobData[j]) /\ k \in Nat
  BY RowsAre DEF CounterInv
<1>2. \A l \in S : jobData[j][l].counter <= jobData[j][Len(jobData[j])].counter
  BY <1>1
<1>3. \A k \in S : (\A l \in S : jobData[j][l].counter <= jobData[j][k].counter)
                      => k = Len(jobData[j])
  BY <1>1
<1> QED
  BY <1>2, <1>3 DEF Newest

-----------------------------------------------------------------------------
(* The runs, and what is counted.                                          *)

LEMMA CountsAreNumbers ==
  ASSUME HistoryAssumption
  PROVE  Cardinality(Jobs) \in Nat /\ \A status : Count(status) \in Nat
<1>1. Cardinality(Jobs) \in Nat
  BY FS_CardinalityType DEF HistoryAssumption
<1>2. ASSUME NEW status PROVE Count(status) \in Nat
  <2> DEFINE S == {j \in Jobs : list[j] = status}
  <2>1. IsFiniteSet(S)
    BY FS_Subset DEF HistoryAssumption
  <2> QED
    BY <2>1, FS_CardinalityType DEF Count
<1> QED
  BY <1>1, <1>2

LEMMA RunRowsAre ==
  ASSUME HistoryAssumption, TableTypes
  PROVE  /\ \A run \in RunRows : Counted(run) \in RunRows /\ Finished(run) \in RunRows
         /\ NewRun \in RunRows
         /\ runs # <<>> => runs[Len(runs)] \in RunRows
         /\ \A run \in RunRows : WithCounts(run) \in Seq(RunRows)
         /\ \A run \in RunRows : Append(runs, run) \in Seq(RunRows)
<1>1. \A run \in RunRows : Counted(run) \in RunRows /\ Finished(run) \in RunRows
  BY CountsAreNumbers DEF Counted, Finished, RunRows
<1>2. NewRun \in RunRows
  <2>1. [total |-> 0, completed |-> 0, suspended |-> 0, finish |-> FALSE] \in RunRows
    BY DEF RunRows
  <2> QED
    BY <1>1, <2>1 DEF NewRun
<1>3. runs \in Seq(RunRows)
  BY DEF TableTypes
<1>4. runs # <<>> => runs[Len(runs)] \in RunRows
  BY <1>3
<1>5. \A run \in RunRows : WithCounts(run) \in Seq(RunRows)
  <2>1. CASE runs = <<>>
    <3>1. \A run : WithCounts(run) = runs
      BY <2>1 DEF WithCounts
    <3> QED
      BY <1>3, <3>1
  <2>2. CASE runs # <<>>
    <3>1. Len(runs) \in 1..Len(runs)
      BY <1>3, <2>2
    <3> QED
      BY <1>3, <3>1 DEF WithCounts
  <2> QED
    BY <2>1, <2>2
<1> QED
  BY <1>1, <1>2, <1>3, <1>4, <1>5

\* What the counts of the newest run tell, finished or not.
CountsInv ==
  runs # <<>> =>
    LET run == runs[Len(runs)] IN
    run.total > 0 /\ run.total = run.completed + run.suspended =>
      behind \/ \A j \in Jobs : list[j] \in {"COMPLETED", "SUSPENDED"}

\* When the counts are made, they add up only if all jobs are over.
LEMMA CountsAddUp ==
  ASSUME HistoryAssumption, Cardinality(Jobs) = Count("COMPLETED") + Count("SUSPENDED")
  PROVE  \A j \in Jobs : list[j] \in {"COMPLETED", "SUSPENDED"}
<1> DEFINE C == {j \in Jobs : list[j] = "COMPLETED"}
           S == {j \in Jobs : list[j] = "SUSPENDED"}
<1>1. IsFiniteSet(C) /\ IsFiniteSet(S) /\ IsFiniteSet(Jobs) /\ C \cap S = {}
  BY FS_Subset DEF HistoryAssumption
<1>2. C \cup S \in SUBSET Jobs
  OBVIOUS
<1>3. Count("COMPLETED") = Cardinality(C) /\ Count("SUSPENDED") = Cardinality(S)
  BY DEF Count
<1> HIDE DEF C, S
<1>4. Cardinality(C \cup S) = Cardinality(C) + Cardinality(S)
  <2>1. Cardinality(C \cap S) = 0
    BY <1>1, FS_EmptySet
  <2>2. Cardinality(C) \in Nat /\ Cardinality(S) \in Nat
    BY <1>1, FS_CardinalityType
  <2>3. Cardinality(C \cup S) = Cardinality(C) + Cardinality(S) - Cardinality(C \cap S)
    BY <1>1, FS_Union
  <2> QED
    BY <2>1, <2>2, <2>3
<1>5. Cardinality(C \cup S) = Cardinality(Jobs)
  BY <1>3, <1>4
<1>6. C \cup S = Jobs
  BY <1>1, <1>2, <1>5, FS_Subset
<1> QED
  BY <1>6 DEF C, S

LEMMA CountedRunIsTrue ==
  ASSUME HistoryAssumption, TableTypes, runs' = WithCounts(Counted(runs[Len(runs)])),
         list' = list
  PROVE  CountsInv'
<1>1. CASE runs = <<>>
  BY <1>1 DEF WithCounts, CountsInv
<1>2. CASE runs # <<>>
  <2>1. runs \in Seq(RunRows) /\ Len(runs) \in 1..Len(runs)
    BY <1>2 DEF TableTypes
  <2>2. Len(runs') = Len(runs) /\ runs'[Len(runs)] = Counted(runs[Len(runs)])
    BY <2>1 DEF WithCounts
  <2>3. runs[Len(runs)] \in RunRows
    BY <2>1
  <2>4. LET run == Counted(runs[Len(runs)]) IN
        /\ run.total = Cardinality(Jobs)
        /\ run.completed = Count("COMPLETED") /\ run.suspended = Count("SUSPENDED")
    BY <2>3 DEF Counted, RunRows
  <2> QED
    BY <2>2, <2>4, CountsAddUp DEF CountsInv
<1> QED
  BY <1>1, <1>2

LEMMA FinishedRunIsTrue ==
  ASSUME TableTypes, CountsInv, runs # <<>>,
         runs' = WithCounts(Finished(runs[Len(runs)])), list' = list, behind' = behind
  PROVE  CountsInv'
<1>1. runs \in Seq(RunRows) /\ Len(runs) \in 1..Len(runs)
  BY DEF TableTypes
<1>2. Len(runs') = Len(runs) /\ runs'[Len(runs)] = Finished(runs[Len(runs)])
  BY <1>1 DEF WithCounts
<1>3. runs[Len(runs)] \in RunRows
  BY <1>1
<1>4. LET run == runs[Len(runs)] IN
      /\ Finished(run).total = run.total
      /\ Finished(run).completed = run.completed /\ Finished(run).suspended = run.suspended
  BY <1>3 DEF Finished, RunRows
<1> QED
  BY <1>2, <1>4 DEF CountsInv

LEMMA InsertedRunIsTrue ==
  ASSUME HistoryAssumption, TableTypes, runs' = Append(runs, NewRun), list' = list
  PROVE  CountsInv'
<1>1. Len(runs') = Len(runs) + 1 /\ runs'[Len(runs) + 1] = NewRun
  BY RunRowsAre DEF TableTypes
<1>2. /\ NewRun.total = Cardinality(Jobs)
      /\ NewRun.completed = Count("COMPLETED") /\ NewRun.suspended = Count("SUSPENDED")
  BY DEF NewRun, Counted
<1> QED
  BY <1>1, <1>2, CountsAddUp DEF CountsInv

\* The loop has nothing to do to jobs that are all over.
LEMMA NextCounts ==
  ASSUME HistoryAssumption, Types, CountsInv, [HistoryNext]_historyVars
  PROVE  CountsInv'
<1> USE DEF Types
<1>1. CASE UNCHANGED <<runs, list, behind>>
  BY <1>1 DEF CountsInv
<1>2. CASE behind' = TRUE
  BY <1>2 DEF CountsInv
<1>3. CASE UNCHANGED historyVars
  BY <1>1, <1>3 DEF historyVars
<1>4. CASE CommandSteps
  BY <1>1, <1>2, <1>4 DEF CommandSteps, Create, SetStatus, Recovery, Run, KillCommand, tables, listVars
<1>5. CASE StatusChanges
  <2>1. CASE ReadChanges \/ ChangeStatuses
    BY <1>1, <2>1 DEF ReadChanges, ChangeStatuses, tables, listVars
  <2>2. CASE CountRun
    BY <2>2, CountedRunIsTrue DEF CountRun
  <2>3. CASE FinishRun
    <3>1. CASE runs = <<>>
      BY <1>1, <2>3, <3>1 DEF FinishRun, listVars
    <3>2. CASE runs # <<>>
      BY <2>3, <3>2, FinishedRunIsTrue DEF FinishRun, listVars
    <3> QED
      BY <3>1, <3>2
  <2>4. CASE InsertRun
    BY <2>4, InsertedRunIsTrue DEF InsertRun
  <2> QED
    BY <1>5, <2>1, <2>2, <2>3, <2>4 DEF StatusChanges
<1>6. CASE Loop
  <2>1. ASSUME NEW j \in Jobs, list[j] \notin {"COMPLETED", "SUSPENDED"},
               UNCHANGED <<runs, behind>>
        PROVE  CountsInv'
    BY <2>1 DEF CountsInv
  <2>2. CASE \E j \in Jobs : Submit(j)
    BY <2>1, <2>2 DEF Submit, tables
  <2>3. CASE \E j \in Jobs, status \in Final : \E tries \in Tries(j) : Ends(j, status, tries)
    BY <2>1, <2>3 DEF Ends, tables
  <2>4. CASE \E j \in Jobs : Retry(j)
    BY <2>1, <2>4 DEF Retry, tables
  <2>5. CASE Totals
    BY <2>5, CountedRunIsTrue DEF Totals
  <2>6. CASE EndRun
    BY <1>1, <2>6 DEF EndRun, tables, listVars
  <2>7. CASE EndFinished
    <3>1. CASE runs' = runs
      BY <1>1, <2>7, <3>1 DEF EndFinished, listVars
    <3>2. CASE runs = <<>>
      <4>1. \A run : WithCounts(run) = runs
        BY <3>2 DEF WithCounts
      <4> QED
        BY <3>1, <2>7, <4>1 DEF EndFinished
    <3>3. CASE runs # <<>> /\ runs' = WithCounts(Finished(runs[Len(runs)]))
      BY <2>7, <3>3, FinishedRunIsTrue DEF EndFinished, listVars
    <3> QED
      BY <2>7, <3>1, <3>2, <3>3 DEF EndFinished
  <2> QED
    BY <1>6, <2>2, <2>3, <2>4, <2>5, <2>6, <2>7 DEF Loop
<1>7. CASE \E w \in 1..Writers : WriteStats(w)
  BY <1>1, <1>7 DEF WriteStats, TakeJob, ReadLastRows, ClearLast, InsertRow, WriteStart,
     UpdateStart, WriteFinish, UpdateFinish, tables, listVars, Others
<1>8. CASE (\E t \in threads : AskEnergy(t)) \/ (\E t \in threads : UpdateRow(t))
  BY <1>1, <1>8 DEF AskEnergy, UpdateRow, tables, listVars, Others
<1> QED
  BY <1>3, <1>4, <1>5, <1>6, <1>7, <1>8 DEF HistoryNext

-----------------------------------------------------------------------------
(* Types.                                                                  *)

\* What is pending is a function to rows, and may be none.
LEMMA NothingPending == <<>> \in Pending
<1>1. <<>> = [key \in {} |-> 0]
  OBVIOUS
<1> QED
  BY <1>1 DEF Pending

LEMMA PendingIs ==
  ASSUME NEW f
  PROVE  f \in Pending <=>
           /\ f = [key \in DOMAIN f |-> f[key]]
           /\ DOMAIN f \subseteq Keys /\ \A key \in DOMAIN f : f[key] \in JobDataRows
BY DEF Pending

LEMMA WritersAre ==
  ASSUME HistoryAssumption, ListTypes
  PROVE  Writers \in Nat \ {0}
<1>1. setting \in [slurm : BOOLEAN, writers : Nat \ {0}, tries : Nat \ {0}, test : BOOLEAN,
                    edits : BOOLEAN]
  BY DEF ListTypes, MadeUpId, HistoryAssumption
<1> QED
  BY <1>1 DEF Writers

LEMMA RestingIs ==
  ASSUME HistoryAssumption, ListTypes
  PROVE  Resting \in WriterStates /\ Resting.pc = "idle" /\ Resting.seen = <<>>
<1>1. NoItem \in Items
  BY DEF NoItem, Items, HistoryAssumption, ListTypes, Statuses
<1> QED
  BY <1>1, NothingPending DEF Resting, WriterStates, Points

\* The processes keep their types when they rest, and ids go on.
LEMMA WriterTypesKept ==
  ASSUME ListTypes, WriterTypes, UNCHANGED <<setting, queue, writer, threads>>,
         current' \in 1..Writers, ids' \in Nat, ids <= ids'
  PROVE  WriterTypes'
<1>1. Writers' = Writers
  BY DEF Writers
<1>2. Items \subseteq Items'
  BY DEF Items, ListTypes
<1>3. ThreadStates' = ThreadStates
  BY <1>1 DEF ThreadStates
<1>4. queue' \in [1..Writers -> Seq(Items')]
  BY <1>2 DEF WriterTypes
<1>5. writer' \in [1..Writers -> WriterStates']
  BY <1>2 DEF WriterTypes, WriterStates
<1>6. \A w \in 1..Writers : writer'[w].pc = "idle" => writer'[w] = Resting
  BY DEF WriterTypes
<1> QED
  BY <1>1, <1>3, <1>4, <1>5, <1>6 DEF WriterTypes, Resting, NoItem

\* The ids recover_last_data gives are those of rows, or made up.
LEMMA LastIdsAre ==
  ASSUME HistoryAssumption, Types, RowIds, CounterInv, NEW S
  PROVE  /\ WithLastIds(S) \in [Jobs -> 0..ids]
         /\ \A j \in Jobs : j \in S /\ LastRows(j) # {} =>
              /\ Newest(j, LastRows(j)) \in DOMAIN jobData[j]
              /\ WithLastIds(S)[j] = jobData[j][Newest(j, LastRows(j))].id
         /\ \A T \in SUBSET Jobs : Flagged(S, T) \subseteq Jobs \X (0..ids)
         /\ S \subseteq Jobs => FlaggedTooSoon(S) \subseteq Jobs \X (0..ids)
<1>1. MadeUpId \in 0..ids /\ ids \in Nat
  BY DEF MadeUpId, Types, ListTypes, HistoryAssumption
<1>2. ASSUME NEW j \in Jobs
      PROVE  /\ WithLastIds(S)[j] \in 0..ids
             /\ j \in S /\ LastRows(j) # {} =>
                  /\ Newest(j, LastRows(j)) \in DOMAIN jobData[j]
                  /\ WithLastIds(S)[j] = jobData[j][Newest(j, LastRows(j))].id
  <2>1. CASE j \in S /\ LastRows(j) # {}
    <3>1. PICK k \in DOMAIN jobData[j] : k = Newest(j, LastRows(j))
      BY <2>1, NewestIsThere DEF LastRows, Types
    <3>2. WithLastIds(S)[j] = jobData[j][k].id
      BY <2>1, <3>1 DEF WithLastIds, LastRow
    <3>3. jobData[j][k].id \in Nat /\ jobData[j][k].id <= ids
      BY RowsAre DEF RowIds, Types
    <3> QED
      BY <1>1, <3>1, <3>2, <3>3
  <2>2. CASE ~ (j \in S /\ LastRows(j) # {})
    BY <1>1, <2>2 DEF WithLastIds, Types, ListTypes
  <2> QED
    BY <2>1, <2>2
<1>3. WithLastIds(S) \in [Jobs -> 0..ids]
  <2>1. WithLastIds(S) = [j \in Jobs |-> WithLastIds(S)[j]]
    BY DEF WithLastIds
  <2> QED
    BY <1>2, <2>1
<1>4. ASSUME NEW T \in SUBSET Jobs PROVE Flagged(S, T) \subseteq Jobs \X (0..ids)
  BY <1>2 DEF Flagged, Types, ListTypes
<1>5. ASSUME S \subseteq Jobs PROVE FlaggedTooSoon(S) \subseteq Jobs \X (0..ids)
  BY <1>2, <1>5 DEF FlaggedTooSoon
<1> QED
  BY <1>2, <1>3, <1>4, <1>5

LEMMA CommandTypes ==
  ASSUME HistoryAssumption, Types, RowIds, CounterInv, UNCHANGED setting, CommandSteps
  PROVE  Types'
<1> USE DEF Types
<1>1. ids \in Nat /\ commands \in Nat
  BY DEF ListTypes, MadeUpId, HistoryAssumption
<1>2. \A f \in {"create", "setstatus", "run"} : command' = Begin(f) =>
        /\ command' \in [name : CommandNames, step : Steps, changes : SUBSET Keys]
        /\ Does("none")' => command' = NoCommand
  BY DEF Begin, Steps, CommandNames, Does
<1>3. CASE Create
  <2>1. ListTypes'
    <3>1. list' \in [Jobs -> Statuses] /\ id' \in [Jobs -> 0..ids]
      BY <1>1, <1>3 DEF Create, Statuses
    <3>2. commands' \in 0..MaxOrders
      BY <1>1, <1>3 DEF Create, Free, HistoryAssumption
    <3>3. logged' \subseteq Jobs \X (0..ids) /\ UNCHANGED <<ids, stopped, missed>>
      BY <1>3 DEF Create, ListTypes, ghosts
    <3> QED
      BY <1>2, <1>3, <3>1, <3>2, <3>3 DEF Create, ListTypes
  <2>2. WriterTypes'
    BY <1>1, <1>3, WriterTypesKept DEF Create, WriterTypes
  <2> QED
    BY <1>3, <2>1, <2>2 DEF Create, tables, TableTypes
<1>4. CASE \E j \in Jobs, status \in UserStatuses : SetStatus(j, status)
  <2> PICK j \in Jobs, status \in UserStatuses : SetStatus(j, status)
    BY <1>4
  <2>1. /\ id' \in [Jobs -> 0..ids]
        /\ logged' \subseteq Jobs \X (0..ids) /\ missed' \subseteq Jobs \X (0..ids)
    <3>1. {j} \in SUBSET Jobs
      OBVIOUS
    <3> QED
      BY <3>1, LastIdsAre DEF SetStatus, ListTypes
  <2>2. status \in Statuses
    BY DEF HistoryAssumption
  <2>3. list' \in [Jobs -> Statuses]
    BY <2>2 DEF SetStatus, ListTypes
  <2>4. ListTypes'
    <3>1. commands' \in 0..MaxOrders
      BY <1>1 DEF SetStatus, Free, HistoryAssumption
    <3>2. stopped' \subseteq Jobs
      BY DEF SetStatus, ListTypes
    <3>3. ids' = ids /\ behind' = TRUE /\ command' = Begin("setstatus")
      BY DEF SetStatus
    <3> QED
      BY <1>2, <2>1, <2>3, <3>1, <3>2, <3>3 DEF ListTypes
  <2>5. WriterTypes'
    BY <1>1, WriterTypesKept DEF SetStatus, WriterTypes
  <2> QED
    BY <2>4, <2>5 DEF SetStatus, tables, TableTypes
<1>5. CASE Recovery
  <2>1. /\ id' \in [Jobs -> 0..ids]
        /\ logged' \subseteq Jobs \X (0..ids) /\ missed' \subseteq Jobs \X (0..ids)
    <3> DEFINE found == {j \in Jobs : list'[j] \in Final}
               withRow == {j \in found : LastRows(j) # {}}
    <3>1. /\ id' = WithLastIds(found) /\ logged' = Flagged(found, withRow)
          /\ missed' = missed \cup FlaggedTooSoon(withRow)
          /\ withRow \in SUBSET Jobs
      BY <1>5 DEF Recovery
    <3> HIDE DEF found, withRow
    <3> QED
      BY <3>1, LastIdsAre DEF ListTypes
  <2>2. list' \in [Jobs -> Statuses]
    BY <1>5 DEF Recovery, ListTypes, Statuses
  <2>3. ListTypes'
    <3>1. commands' \in 0..MaxOrders
      BY <1>1, <1>5 DEF Recovery, Free, HistoryAssumption
    <3>2. behind' = TRUE /\ UNCHANGED <<ids, command, stopped>>
      BY <1>5 DEF Recovery
    <3> QED
      BY <2>1, <2>2, <3>1, <3>2 DEF ListTypes, Does
  <2>4. WriterTypes'
    BY <1>1, <1>5, WriterTypesKept DEF Recovery, WriterTypes
  <2> QED
    BY <1>5, <2>3, <2>4 DEF Recovery, tables, TableTypes
<1>6. CASE \E w \in 1..Writers : Run(w)
  <2> PICK w \in 1..Writers : Run(w)
    BY <1>6
  <2>1. ListTypes'
    BY <1>1, <1>2 DEF Run, ListTypes, Free, listVars, ghosts, HistoryAssumption
  <2>2. PICK order \in SetToSeqs(Unlogged) :
          queue' = [queue EXCEPT ![w] = [n \in DOMAIN order |-> Item(order[n], 1)]]
    BY DEF Run
  <2>3. Cardinality(Unlogged) \in Nat /\ Unlogged \subseteq Jobs
    BY FS_Subset, FS_CardinalityType DEF Unlogged, HistoryAssumption
  <2>4. order \in [1..Cardinality(Unlogged) -> Jobs]
    BY <2>2, <2>3 DEF SetToSeqs
  <2>5. \A j \in Jobs : Item(j, 1) \in Items
    BY DEF Item, Items, ListTypes
  <2>6. [n \in DOMAIN order |-> Item(order[n], 1)] \in Seq(Items)
    BY <2>3, <2>4, <2>5
  <2>7. queue' \in [1..Writers -> Seq(Items)]
    BY <2>2, <2>6 DEF WriterTypes
  <2>8. Items' = Items
    BY DEF Items, Run, listVars
  <2>9. WriterTypes'
    BY <2>7, <2>8 DEF Run, WriterTypes, Writers, ThreadStates, WriterStates, Resting, NoItem, listVars
  <2> QED
    BY <2>1, <2>9 DEF Run, tables, TableTypes
<1>7. CASE KillCommand
  <2>1. ListTypes'
    <3>1. stopped' \subseteq Jobs /\ logged' = logged /\ missed' = missed
      <4>1. writer[current].item.job \in Jobs
        BY DEF WriterTypes, WriterStates, Items
      <4> QED
        BY <1>7, <4>1 DEF KillCommand, processes, ghosts, ListTypes
    <3>2. NoCommand \in [name : CommandNames, step : Steps, changes : SUBSET Keys]
      BY DEF NoCommand, CommandNames, Steps
    <3> QED
      BY <1>1, <1>7, <3>1, <3>2 DEF KillCommand, ListTypes, listVars, HistoryAssumption
  <2>2. ASSUME UNCHANGED processes
        PROVE  WriterTypes'
    BY <1>1, <1>7, <2>2, WriterTypesKept DEF KillCommand, processes, WriterTypes, listVars
  <2>3. ASSUME writer' = [writer EXCEPT ![current] = Resting],
               queue' = [queue EXCEPT ![current] = <<>>],
               threads' = {t \in threads : t.of # current}
        PROVE  WriterTypes'
    <3>1. Resting \in WriterStates
      BY RestingIs
    <3>2. Writers' = Writers /\ Items' = Items
      BY <1>7 DEF Writers, Items, KillCommand, listVars
    <3>3. ThreadStates' = ThreadStates /\ WriterStates' = WriterStates /\ Resting' = Resting
      BY <3>2 DEF ThreadStates, WriterStates, Resting, NoItem
    <3>4. queue' \in [1..Writers -> Seq(Items)]
      BY <2>3 DEF WriterTypes
    <3>5. /\ writer' \in [1..Writers -> WriterStates]
          /\ \A w \in 1..Writers : writer'[w].pc = "idle" => writer'[w] = Resting
      BY <2>3, <3>1 DEF WriterTypes
    <3> QED
      BY <1>7, <2>3, <3>2, <3>3, <3>4, <3>5 DEF WriterTypes, KillCommand
  <2>4. WriterTypes'
    BY <1>7, <2>2, <2>3 DEF KillCommand
  <2> QED
    BY <1>7, <2>1, <2>4 DEF KillCommand, tables, TableTypes
<1> QED
  BY <1>3, <1>4, <1>5, <1>6, <1>7 DEF CommandSteps

\* Writing rows back changes neither how many there are nor their ids and counters.
SameRows ==
  \A j \in Jobs :
    /\ Len(jobData'[j]) = Len(jobData[j])
    /\ DOMAIN jobData'[j] = DOMAIN jobData[j]
    /\ \A k \in DOMAIN jobData[j] :
         /\ jobData'[j][k].id = jobData[j][k].id
         /\ jobData'[j][k].counter = jobData[j][k].counter

LEMMA UpdatedRows ==
  ASSUME TableTypes, NEW f, jobData' = Updated(f), \A key \in DOMAIN f : Fits(key, f[key])
  PROVE  /\ jobData' \in [Jobs -> Seq(JobDataRows)]
         /\ SameRows
         /\ \A j \in Jobs : \A k \in DOMAIN jobData[j] :
              jobData'[j][k] = IF <<j, k>> \in DOMAIN f THEN f[<<j, k>>] ELSE jobData[j][k]
<1>1. ASSUME NEW j \in Jobs
      PROVE  /\ jobData'[j] \in Seq(JobDataRows)
             /\ Len(jobData'[j]) = Len(jobData[j])
             /\ DOMAIN jobData'[j] = DOMAIN jobData[j]
             /\ \A k \in DOMAIN jobData[j] :
                  /\ jobData'[j][k] =
                       IF <<j, k>> \in DOMAIN f THEN f[<<j, k>>] ELSE jobData[j][k]
                  /\ jobData'[j][k].id = jobData[j][k].id
                  /\ jobData'[j][k].counter = jobData[j][k].counter
  <2> DEFINE n == Len(jobData[j])
  <2>1. n \in Nat /\ DOMAIN jobData[j] = 1..n
    BY RowsAre
  <2>2. jobData'[j] = [k \in 1..n |->
                         IF <<j, k>> \in DOMAIN f THEN f[<<j, k>>] ELSE jobData[j][k]]
    BY <2>1 DEF Updated
  <2>3. ASSUME NEW k \in 1..n
        PROVE  /\ jobData'[j][k] \in JobDataRows
               /\ jobData'[j][k].id = jobData[j][k].id
               /\ jobData'[j][k].counter = jobData[j][k].counter
    <3>1. CASE <<j, k>> \in DOMAIN f
      BY <2>2, <3>1 DEF Fits
    <3>2. CASE <<j, k>> \notin DOMAIN f
      BY <2>1, <2>2, <3>2, RowsAre
    <3> QED
      BY <3>1, <3>2
  <2> HIDE DEF n
  <2>4. jobData'[j] \in [1..n -> JobDataRows]
    BY <2>2, <2>3
  <2>5. jobData'[j] \in Seq(JobDataRows) /\ Len(jobData'[j]) = n /\ DOMAIN jobData'[j] = 1..n
    BY <2>1, <2>4
  <2> QED
    BY <2>1, <2>2, <2>3, <2>5 DEF n
<1>2. jobData' = [j \in Jobs |-> jobData'[j]]
  BY DEF Updated
<1> QED
  BY <1>1, <1>2 DEF SameRows

LEMMA ChangedRows ==
  ASSUME Types, ChangeStatuses
  PROVE  /\ jobData' \in [Jobs -> Seq(JobDataRows)]
         /\ SameRows
         /\ \A j \in Jobs : \A k \in DOMAIN jobData[j] :
              /\ jobData'[j][k].last = jobData[j][k].last
              /\ jobData'[j][k].finish = jobData[j][k].finish
<1> DEFINE Change(key) == [jobData[key[1]][key[2]] EXCEPT !.status = list[key[1]]]
           There == {key \in command.changes : key[2] \in DOMAIN jobData[key[1]]}
           f == [key \in There |-> Change(key)]
<1>1. command.changes \subseteq Keys
  BY DEF Types, ListTypes
<1>2. ASSUME NEW key \in There
      PROVE  /\ Fits(key, Change(key))
             /\ Change(key).last = jobData[key[1]][key[2]].last
             /\ Change(key).finish = jobData[key[1]][key[2]].finish
  <2>1. key \in Keys /\ key[1] \in Jobs /\ key[2] \in DOMAIN jobData[key[1]]
    BY <1>1 DEF Keys
  <2>2. jobData[key[1]][key[2]] \in JobDataRows /\ list[key[1]] \in Statuses
    BY <2>1, RowsAre DEF Types, ListTypes
  <2>3. Change(key) \in JobDataRows
    BY <2>2 DEF JobDataRows
  <2>4. /\ Change(key).id = jobData[key[1]][key[2]].id
        /\ Change(key).counter = jobData[key[1]][key[2]].counter
        /\ Change(key).last = jobData[key[1]][key[2]].last
        /\ Change(key).finish = jobData[key[1]][key[2]].finish
    BY <2>2 DEF JobDataRows
  <2> HIDE DEF Change, There
  <2> QED
    BY <2>1, <2>3, <2>4 DEF Fits
<1>3. jobData' = Updated(f)
  <2>1. jobData' = Updated([key \in command.changes |-> Change(key)])
    BY DEF ChangeStatuses
  <2>2. \A j \in Jobs : \A k \in DOMAIN jobData[j] :
          (IF <<j, k>> \in command.changes THEN Change(<<j, k>>) ELSE jobData[j][k])
            = (IF <<j, k>> \in There THEN Change(<<j, k>>) ELSE jobData[j][k])
    OBVIOUS
  <2> HIDE DEF Change, There
  <2>3. DOMAIN f = There
    OBVIOUS
  <2> QED
    BY <2>1, <2>2, <2>3 DEF Updated
<1>4. \A key \in DOMAIN f : Fits(key, f[key])
  <2> HIDE DEF Change, There
  <2> QED
    BY <1>2
<1>5. /\ jobData' \in [Jobs -> Seq(JobDataRows)]
      /\ SameRows
      /\ \A j \in Jobs : \A k \in DOMAIN jobData[j] :
           jobData'[j][k] = IF <<j, k>> \in DOMAIN f THEN f[<<j, k>>] ELSE jobData[j][k]
  <2> HIDE DEF f
  <2> QED
    BY <1>3, <1>4, UpdatedRows DEF Types
<1>6. ASSUME NEW j \in Jobs, NEW k \in DOMAIN jobData[j]
      PROVE  /\ jobData'[j][k].last = jobData[j][k].last
             /\ jobData'[j][k].finish = jobData[j][k].finish
  <2>1. CASE <<j, k>> \in There
    <3>1. /\ Change(<<j, k>>).last = jobData[j][k].last
          /\ Change(<<j, k>>).finish = jobData[j][k].finish
      BY <1>2, <2>1
    <3> HIDE DEF Change, There
    <3> QED
      BY <1>5, <2>1, <3>1
  <2>2. CASE <<j, k>> \notin There
    <3> HIDE DEF Change, There
    <3> QED
      BY <1>5, <2>2
  <2> QED
    BY <2>1, <2>2
<1> QED
  BY <1>5, <1>6

LEMMA ChangesAreKeys == ASSUME Types PROVE Changes \subseteq Keys
BY RowsAre DEF Changes, LastRows, Keys, Types

LEMMA StatusChangeTypes ==
  ASSUME HistoryAssumption, Types, UNCHANGED setting, StatusChanges
  PROVE  Types'
<1> USE DEF Types
<1>1. ids \in Nat /\ command \in [name : CommandNames, step : Steps, changes : SUBSET Keys]
  BY DEF ListTypes, MadeUpId, HistoryAssumption
<1>2. UNCHANGED <<listVars, current, processes, commands>>
      \/ (UNCHANGED <<list, id, ids, current, processes, commands>> /\ behind' = FALSE)
  BY DEF StatusChanges, ReadChanges, ChangeStatuses, CountRun, FinishRun, InsertRun
<1>3. /\ command' \in [name : CommandNames, step : Steps, changes : SUBSET Keys]
      /\ Does("none")' => command' = NoCommand
  <2>1. \A f \in Steps, c \in SUBSET Keys :
          [command EXCEPT !.step = f, !.changes = c]
            \in [name : CommandNames, step : Steps, changes : SUBSET Keys]
    BY <1>1
  <2>2. \A f \in Steps : [command EXCEPT !.step = f]
            \in [name : CommandNames, step : Steps, changes : SUBSET Keys]
    BY <1>1
  <2>3. {"finish", "change", "count", "finished", "insert"} \subseteq Steps
    BY DEF Steps
  <2>4. Done \in [name : CommandNames, step : Steps, changes : SUBSET Keys]
        /\ (Done.name = "none" => Done = NoCommand)
    BY DEF Done, NoCommand, CommandNames, Steps
  <2>5. ~Does("none")
    <3>1. ~At("")
      <4>1. \E f \in {"read", "change", "count", "finish", "insert"} : At(f)
        BY DEF StatusChanges, ReadChanges, ChangeStatuses, CountRun, FinishRun, InsertRun
      <4> QED
        BY <4>1 DEF At
    <3>2. Does("none") => At("")
      <4>1. NoCommand.step = ""
        BY DEF NoCommand
      <4> QED
        BY <4>1 DEF ListTypes, At
    <3> QED
      BY <3>1, <3>2
  <2>6. \/ command' = Done
        \/ \E f \in Steps : command' = [command EXCEPT !.step = f]
        \/ \E f \in Steps, c \in SUBSET Keys :
             command' = [command EXCEPT !.step = f, !.changes = c]
    <3>1. CASE ReadChanges
      BY <2>3, <3>1, ChangesAreKeys DEF ReadChanges
    <3>2. CASE ChangeStatuses
      BY <2>3, <3>2 DEF ChangeStatuses
    <3>3. CASE CountRun \/ FinishRun \/ InsertRun
      BY <2>3, <3>3 DEF CountRun, FinishRun, InsertRun
    <3> QED
      BY <3>1, <3>2, <3>3 DEF StatusChanges
  <2>7. CASE command' = Done
    BY <2>4, <2>7 DEF Does
  <2>8. CASE \E f \in Steps : command' = [command EXCEPT !.step = f]
    BY <1>1, <2>2, <2>5, <2>8 DEF Does
  <2>9. CASE \E f \in Steps, c \in SUBSET Keys :
               command' = [command EXCEPT !.step = f, !.changes = c]
    BY <1>1, <2>1, <2>5, <2>9 DEF Does
  <2> QED
    BY <2>6, <2>7, <2>8, <2>9
<1>4. ListTypes'
  BY <1>2, <1>3 DEF ListTypes, listVars, processes, ghosts
<1>5. WriterTypes'
  BY <1>1, <1>2, WriterTypesKept DEF listVars, processes, WriterTypes
<1>6. jobData' \in [Jobs -> Seq(JobDataRows)]
  <2>1. CASE ChangeStatuses
    BY <2>1, ChangedRows
  <2>2. CASE UNCHANGED jobData
    BY <2>2 DEF TableTypes
  <2> QED
    BY <2>1, <2>2 DEF StatusChanges, ReadChanges, CountRun, FinishRun, InsertRun, tables
<1>7. runs' \in Seq(RunRows)
  <2>1. CASE UNCHANGED runs
    BY <2>1 DEF TableTypes
  <2>2. CASE InsertRun
    BY <2>2, RunRowsAre DEF InsertRun
  <2>3. ASSUME runs = <<>> PROVE \A run : WithCounts(run) = runs
    BY <2>3 DEF WithCounts
  <2>4. CASE runs # <<>>
    BY <2>1, <2>2, <2>4, RunRowsAre DEF StatusChanges, ReadChanges, ChangeStatuses, CountRun,
       FinishRun, tables
  <2>5. CASE runs = <<>>
    BY <2>1, <2>2, <2>3, <2>5 DEF StatusChanges, ReadChanges, ChangeStatuses, CountRun,
       FinishRun, tables
  <2> QED
    BY <2>4, <2>5
<1> QED
  BY <1>4, <1>5, <1>6, <1>7 DEF TableTypes

LEMMA LoopTypes ==
  ASSUME HistoryAssumption, Types, UNCHANGED setting, Loop
  PROVE  Types'
<1> USE DEF Types
<1>1. ids \in Nat /\ command \in [name : CommandNames, step : Steps, changes : SUBSET Keys]
  BY DEF ListTypes, MadeUpId, HistoryAssumption
<1>2. CASE \E j \in Jobs : Submit(j)
  <2> PICK j \in Jobs : Submit(j)
    BY <1>2
  <2>1. /\ ids' = ids + 1 /\ ids' \in Nat /\ ids <= ids'
        /\ ids' \in MadeUpId..(MaxAttempts + MadeUpId)
    BY <1>1 DEF Submit, ListTypes, MadeUpId, HistoryAssumption
  <2>2. id' \in [Jobs -> 0..ids']
    BY <1>1, <2>1 DEF Submit, ListTypes
  <2>3. list' \in [Jobs -> Statuses]
    BY DEF Submit, ListTypes, Statuses
  <2>4. Jobs \X (0..ids) \subseteq Jobs \X (0..ids')
    BY <1>1, <2>1
  <2>5. ListTypes'
    BY <2>1, <2>2, <2>3, <2>4 DEF Submit, ListTypes, processes, ghosts, Does
  <2>6. WriterTypes'
    BY <2>1, WriterTypesKept DEF Submit, processes, WriterTypes
  <2> QED
    BY <2>5, <2>6 DEF Submit, tables, TableTypes
<1>3. CASE \E j \in Jobs, status \in Final : \E tries \in Tries(j) : Ends(j, status, tries)
  <2> PICK j \in Jobs, status \in Final : \E tries \in Tries(j) : Ends(j, status, tries)
    BY <1>3
  <2> PICK tries \in Tries(j) : Ends(j, status, tries)
    OBVIOUS
  <2>1. status \in Statuses /\ tries \in Nat
    <3>1. setting.tries \in Nat
      BY DEF ListTypes, MadeUpId, HistoryAssumption
    <3> QED
      BY <3>1 DEF Final, Statuses, Tries, MaxTries
  <2>2. [job |-> j, id |-> id[j], status |-> status, tries |-> tries] \in Items
    BY <2>1 DEF Items, ListTypes
  <2>3. queue' \in [1..Writers -> Seq(Items)]
    BY <2>2 DEF Ends, WriterTypes
  <2>4. ListTypes'
    BY <2>1 DEF Ends, ListTypes, ghosts, Does
  <2>5. Writers' = Writers /\ Items' = Items
    BY DEF Writers, Items, Ends
  <2>6. ThreadStates' = ThreadStates /\ WriterStates' = WriterStates /\ Resting' = Resting
    BY <2>5 DEF ThreadStates, WriterStates, Resting, NoItem
  <2>7. WriterTypes'
    BY <2>3, <2>5, <2>6 DEF Ends, WriterTypes
  <2> QED
    BY <2>4, <2>7 DEF Ends, tables, TableTypes
<1>4. CASE \E j \in Jobs : Retry(j)
  <2>1. list' \in [Jobs -> Statuses] /\ UNCHANGED <<tables, id, ids, behind, command, current,
                                                     processes, commands>>
    BY <1>4 DEF Retry, ListTypes, Statuses
  <2>2. ListTypes'
    BY <2>1 DEF ListTypes, processes, ghosts, Does
  <2>3. WriterTypes'
    BY <1>1, <2>1, WriterTypesKept DEF processes, WriterTypes
  <2> QED
    BY <2>1, <2>2, <2>3 DEF tables, TableTypes
<1>5. CASE Totals \/ EndRun \/ EndFinished
  <2>1. UNCHANGED <<jobData, list, id, ids, current, processes, commands>> /\ behind' \in {behind, FALSE}
    BY <1>5 DEF Totals, EndRun, EndFinished, tables, listVars
  <2>2. command' \in {command, NoCommand, [name |-> "end", step |-> "count", changes |-> {}]}
    BY <1>5 DEF Totals, EndRun, EndFinished
  <2>3. /\ command' \in [name : CommandNames, step : Steps, changes : SUBSET Keys]
        /\ Does("none")' => command' = NoCommand
    <3>1. CASE command' = command
      BY <1>1, <3>1 DEF ListTypes, Does
    <3>2. CASE command' = NoCommand
      <4>1. NoCommand \in [name : CommandNames, step : Steps, changes : SUBSET Keys]
        BY DEF NoCommand, CommandNames, Steps
      <4> QED
        BY <3>2, <4>1
    <3>3. CASE command' = [name |-> "end", step |-> "count", changes |-> {}]
      BY <3>3 DEF CommandNames, Steps, Does
    <3> QED
      BY <2>2, <3>1, <3>2, <3>3
  <2>4. ListTypes'
    BY <2>1, <2>3 DEF ListTypes, processes, ghosts
  <2>5. WriterTypes'
    BY <1>1, <2>1, WriterTypesKept DEF processes, WriterTypes
  <2>6. runs' \in Seq(RunRows)
    <3>1. CASE UNCHANGED runs
      BY <3>1 DEF TableTypes
    <3>2. CASE runs = <<>>
      <4>1. \A run : WithCounts(run) = runs
        BY <3>2 DEF WithCounts
      <4> QED
        BY <1>5, <3>1, <4>1 DEF Totals, EndRun, EndFinished, tables
    <3>3. CASE runs # <<>>
      BY <1>5, <3>1, <3>3, RunRowsAre DEF Totals, EndRun, EndFinished, tables
    <3> QED
      BY <3>2, <3>3
  <2> QED
    BY <2>1, <2>4, <2>5, <2>6 DEF TableTypes
<1> QED
  BY <1>2, <1>3, <1>4, <1>5 DEF Loop

-----------------------------------------------------------------------------
(* What a process reads.                                                   *)

\* The next counter is at most the number of rows, and is that number when the
\* newest row is the last; no row that is found is after it.
LEMMA NextCounterIs ==
  ASSUME TableTypes, CounterInv, NEW j \in Jobs
  PROVE  /\ NextCounter(j) \in Nat /\ NextCounter(j) <= Len(jobData[j])
         /\ (jobData[j] # <<>> => jobData[j][Len(jobData[j])].last)
              => NextCounter(j) = Len(jobData[j])
         /\ \A k \in FoundLast(j) : k <= NextCounter(j)
<1> DEFINE n == Len(jobData[j])
           C == {jobData[j][k].counter : k \in DOMAIN jobData[j]}
           new == Newest(j, FoundLast(j))
<1>1. /\ n \in Nat /\ DOMAIN jobData[j] = 1..n /\ jobData[j] \in Seq(JobDataRows)
      /\ \A k \in 1..n : jobData[j][k].counter \in Nat /\ jobData[j][k].counter = k - 1
  BY RowsAre DEF CounterInv
<1>2. CASE jobData[j] = <<>>
  <2>1. n = 0 /\ C = {}
    BY <1>1, <1>2
  <2>2. MaxCounter(j) = Max({0})
    <3>1. {0} \cup C = {0}
      BY <2>1
    <3> QED
      BY <3>1 DEF MaxCounter
  <2>3. Max({0}) = 0
    BY MaxIs
  <2> QED
    BY <1>1, <1>2, <2>1, <2>2, <2>3 DEF NextCounter, FoundLast, LastRows
<1>3. CASE jobData[j] # <<>>
  <2>1. n \in 1..n
    BY <1>1, <1>3
  <2>2. {0} \cup C \subseteq Nat /\ \A c \in {0} \cup C : c <= n - 1
    BY <1>1, <2>1
  <2>3. PICK m \in {0} \cup C : \A c \in {0} \cup C : c <= m
    <3> HIDE DEF C, n
    <3>1. n - 1 \in Nat /\ {0} \cup C # {}
      BY <2>1, <1>1
    <3> QED
      BY <2>2, <3>1, Greatest
  <2>4. MaxCounter(j) = m
    <3>1. Max({0} \cup C) = m
      <4> HIDE DEF C
      <4> QED
        BY <2>2, <2>3, MaxIs
    <3> QED
      BY <3>1 DEF MaxCounter
  <2>5. m \in Nat /\ m <= n - 1
    BY <2>2, <2>3
  <2>6. m = n - 1
    <3>1. n - 1 \in C
      BY <1>1, <2>1
    <3> QED
      BY <2>3, <2>5, <3>1, <1>1
  <2>7. new \in DOMAIN jobData[j]
    <3>1. FoundLast(j) \subseteq DOMAIN jobData[j] /\ FoundLast(j) # {}
      BY <1>1, <2>1 DEF FoundLast, LastRows
    <3> QED
      BY <3>1, NewestIsThere
  <2>8. jobData[j][new].counter \in Nat /\ jobData[j][new].counter + 1 <= n
    BY <1>1, <2>7
  <2>9. NextCounter(j) = Max({m, jobData[j][new].counter + 1})
    BY <1>3, <2>4 DEF NextCounter
  <2>10. NextCounter(j) \in Nat /\ NextCounter(j) <= n
    <3>1. jobData[j][new].counter + 1 \in Nat
      BY <2>8
    <3>2. NextCounter(j) \in {m, jobData[j][new].counter + 1}
      BY <2>5, <2>9, <3>1, MaxOfTwo
    <3> QED
      BY <1>1, <2>5, <2>8, <3>2
  <2>11. ASSUME jobData[j][n].last
         PROVE  NextCounter(j) = n
    <3>1. n \in LastRows(j)
      BY <1>1, <2>1, <2>11 DEF LastRows
    <3>2. FoundLast(j) \subseteq DOMAIN jobData[j] /\ n \in FoundLast(j)
      BY <3>1 DEF FoundLast, LastRows
    <3>3. new = n
      BY <2>11, <3>2, NewestIsInsertedLast
    <3>4. jobData[j][new].counter + 1 = n
      <4>1. jobData[j][n].counter = n - 1 /\ n \in Nat
        BY <1>1, <2>1
      <4> HIDE DEF n, new
      <4> QED
        BY <3>3, <4>1
    <3>5. m = n - 1
      BY <2>6, <2>11
    <3>6. {m, jobData[j][new].counter + 1} = {n - 1, n}
      BY <3>4, <3>5
    <3>7. Max({n - 1, n}) = n
      <4>1. n \in Nat /\ n - 1 \in Nat /\ ~ (n - 1 >= n)
        BY <1>1, <2>1
      <4> HIDE DEF n
      <4> QED
        BY <4>1, MaxOfTwo
    <3> QED
      BY <2>9, <3>6, <3>7
  <2>12. ASSUME NEW k \in FoundLast(j) PROVE k <= NextCounter(j)
    <3>1. k \in 1..n
      BY <1>1 DEF FoundLast, LastRows
    <3>2. m = n - 1
      BY <2>6
    <3>3. NextCounter(j) = IF m >= jobData[j][new].counter + 1 THEN m
                           ELSE jobData[j][new].counter + 1
      <4>1. jobData[j][new].counter + 1 \in Nat
        BY <2>8
      <4> QED
        BY <2>5, <2>9, <4>1, MaxOfTwo
    <3>4. CASE k < n
      BY <1>1, <2>8, <3>1, <3>2, <3>3, <3>4
    <3>5. CASE k = n
      <4>1. \A l \in FoundLast(j) : jobData[j][l].counter <= jobData[j][k].counter
        BY <1>1, <3>5 DEF FoundLast, LastRows
      <4>2. FoundLast(j) \subseteq DOMAIN jobData[j] /\ n \in FoundLast(j)
        BY <3>5 DEF FoundLast, LastRows
      <4>3. new = n
        BY <4>2, NewestIsInsertedLast
      <4> QED
        BY <1>1, <2>1, <3>2, <3>3, <3>5, <4>3
    <3> QED
      BY <1>1, <3>1, <3>4, <3>5
  <2> QED
    BY <1>3, <2>10, <2>11, <2>12
<1> QED
  BY <1>2, <1>3

\* The row of a submission, with something written in it.
LEMMA RowIsRead ==
  ASSUME TableTypes, CounterInv, NEW j \in Jobs, NEW n, WithId(j, n) # {},
         NEW row \in JobDataRows,
         row.id = jobData[j][Newest(j, WithId(j, n))].id,
         row.counter = jobData[j][Newest(j, WithId(j, n))].counter,
         row.last = jobData[j][Newest(j, WithId(j, n))].last
  PROVE  LET f == One(j, Newest(j, WithId(j, n)), row) IN
         /\ f \in Pending
         /\ \A key \in DOMAIN f :
              /\ Fits(key, f[key])
              /\ key[1] = j
              /\ f[key].last = jobData[key[1]][key[2]].last
<1> DEFINE k == Newest(j, WithId(j, n))
<1>1. k \in DOMAIN jobData[j]
  <2>1. WithId(j, n) \subseteq DOMAIN jobData[j]
    BY DEF WithId
  <2> QED
    BY <2>1, NewestIsThere
<1>2. <<j, k>> \in Keys
  BY <1>1, RowsAre DEF Keys
<1> HIDE DEF k
<1>3. One(j, k, row) = [key \in {<<j, k>>} |-> row]
  BY DEF One
<1>4. One(j, k, row) \in Pending
  BY <1>2, <1>3 DEF Pending
<1>5. Fits(<<j, k>>, row)
  BY <1>1, <1>2 DEF Fits, k
<1> QED
  BY <1>3, <1>4, <1>5 DEF k

-----------------------------------------------------------------------------
(* What every step leaves of the invariant.                                *)

Excused(j) == j \in stopped \/ Replacing(j)

\* Rows are never taken away, and keep their ids and counters; the last row of a
\* job that need not be the last may go on as it is until there is a newer one.
Grow ==
  /\ jobData' \in [Jobs -> Seq(JobDataRows)]
  /\ \A j \in Jobs :
       /\ Len(jobData[j]) <= Len(jobData'[j])
       /\ Len(jobData'[j]) = Len(jobData[j]) /\ Excused(j) => Excused(j)'
       /\ \A k \in DOMAIN jobData[j] :
            /\ k \in DOMAIN jobData'[j]
            /\ jobData'[j][k].id = jobData[j][k].id
            /\ jobData'[j][k].counter = jobData[j][k].counter
  /\ missed \subseteq missed'

LEMMA PendingLater ==
  ASSUME TableTypes, Grow, NEW key, NEW row, Fits(key, row)
  PROVE  Fits(key, row)' /\ (Keeps(key, row) => Keeps(key, row)')
<1>1. key[1] \in Jobs
  BY DEF Fits, Keys
<1>2. Fits(key, row)'
  BY <1>1 DEF Fits, Grow
<1>3. ASSUME Keeps(key, row), key[2] = Len(jobData'[key[1]])
      PROVE  row.last \/ Excused(key[1])'
  <2>1. key[2] <= Len(jobData[key[1]]) /\ Len(jobData[key[1]]) \in Nat
    BY <1>1, RowsAre DEF Fits
  <2>2. Len(jobData'[key[1]]) \in Nat /\ Len(jobData[key[1]]) <= Len(jobData'[key[1]])
    BY <1>1 DEF Grow
  <2>3. key[2] = Len(jobData[key[1]])
    BY <1>3, <2>1, <2>2
  <2>4. row.last \/ Excused(key[1])
    BY <1>3, <2>3 DEF Keeps, Excused
  <2> QED
    BY <1>1, <1>3, <2>3, <2>4 DEF Grow
<1> QED
  BY <1>2, <1>3 DEF Keeps, Excused

LEMMA ThreadLater ==
  ASSUME TableTypes, Grow, NEW t, ThreadAt(t)
  PROVE  ThreadAt(t)'
BY PendingLater DEF ThreadAt

LEMMA RowsAreKept ==
  ASSUME Grow, NEW j \in Jobs, NEW n, WithId(j, n) # {}
  PROVE  WithId(j, n)' # {}
<1>1. ASSUME NEW k \in WithId(j, n) PROVE k \in WithId(j, n)'
  BY DEF WithId, Grow
<1> QED
  BY <1>1

\* What a process at w knows stays true while it does nothing.
LEMMA WriterLater ==
  ASSUME Types, Grow, NEW w \in 1..Writers, writer'[w] = writer[w],
         NumberAt(w), SeenAt(w), RowAt(w),
         LET j == writer[w].item.job IN
         Registers(w) => Len(jobData'[j]) = Len(jobData[j]) \/ Spared(w)
  PROVE  NumberAt(w)' /\ SeenAt(w)' /\ RowAt(w)'
<1> PICK s : s = writer[w]
  OBVIOUS
<1>1. s \in WriterStates /\ s.item.job \in Jobs /\ s.counter \in Nat
  BY DEF Types, WriterTypes, WriterStates, Items
<1>2. Spared(w) => Spared(w)'
  BY DEF Spared, AttemptOf, Grow
<1>3. NumberAt(w)'
  <2>1. /\ Len(jobData[s.item.job]) \in Nat /\ Len(jobData'[s.item.job]) \in Nat
        /\ Len(jobData[s.item.job]) <= Len(jobData'[s.item.job])
    BY <1>1, RowsAre DEF Grow, Types
  <2> SUFFICES ASSUME s.pc \in {"clear", "insert"}
               PROVE  NumberAt(w)'
    BY DEF NumberAt
  <2>2. /\ s.counter <= Len(jobData[s.item.job])
        /\ Spared(w) \/ s.counter = Len(jobData[s.item.job])
        /\ s.pc = "clear" => \A key \in DOMAIN s.seen : key[2] <= s.counter
    BY DEF NumberAt
  <2>3. Len(jobData'[s.item.job]) = Len(jobData[s.item.job]) \/ Spared(w)
    BY DEF Registers
  <2>4. s.counter <= Len(jobData'[s.item.job])
    <3> PICK m \in Nat, n \in Nat : m = Len(jobData[s.item.job]) /\ n = Len(jobData'[s.item.job])
      BY <2>1
    <3>1. s.counter <= m /\ m <= n
      BY <2>1, <2>2
    <3> QED
      BY <1>1, <3>1
  <2>5. Spared(w)' \/ s.counter = Len(jobData'[s.item.job])
    BY <1>2, <2>2, <2>3
  <2> QED
    BY <2>2, <2>4, <2>5 DEF NumberAt
<1>4. SeenAt(w)'
  <2>1. \A key \in DOMAIN s.seen : /\ Fits(key, s.seen[key]) /\ key[1] = s.item.job
                                   /\ s.pc # "clear" => Keeps(key, s.seen[key])
    BY DEF SeenAt
  <2>2. \A key \in DOMAIN s.seen : /\ Fits(key, s.seen[key])' /\ key[1] = s.item.job
                                   /\ s.pc # "clear" => Keeps(key, s.seen[key])'
    BY <2>1, PendingLater DEF Types
  <2> QED
    BY <2>2 DEF SeenAt
<1>5. RowAt(w)'
  <2>1. WithId(s.item.job, s.item.id) # {} => WithId(s.item.job, s.item.id)' # {}
    BY <1>1, RowsAreKept
  <2> QED
    BY <1>2, <2>1 DEF RowAt
<1> QED
  BY <1>3, <1>4, <1>5

LEMMA RowsStay ==
  ASSUME TableTypes, jobData' \in [Jobs -> Seq(JobDataRows)], SameRows, missed \subseteq missed',
         \A j \in Jobs : Excused(j) => Excused(j)'
  PROVE  Grow /\ (CounterInv => CounterInv') /\ (ids' = ids /\ RowIds => RowIds')
         /\ \A j \in Jobs : \A n : WithId(j, n)' = WithId(j, n)
<1>1. Grow
  BY RowsAre DEF Grow, SameRows
<1>2. CounterInv => CounterInv'
  BY DEF CounterInv, SameRows
<1>3. ids' = ids /\ RowIds => RowIds'
  BY DEF RowIds, SameRows
<1>4. \A j \in Jobs : \A n : WithId(j, n)' = WithId(j, n)
  BY DEF WithId, SameRows
<1> QED
  BY <1>1, <1>2, <1>3, <1>4

LEMMA RowsAsTheyWere ==
  ASSUME TableTypes, jobData' = jobData
  PROVE  SameRows /\ jobData' \in [Jobs -> Seq(JobDataRows)]
BY DEF SameRows, TableTypes

LEMMA LastKept ==
  ASSUME TableTypes, SameRows, LastInv,
         \A j \in Jobs : Excused(j) => Excused(j)',
         \A j \in Jobs :
           jobData[j] # <<>> /\ jobData[j][Len(jobData[j])].last
             => jobData'[j][Len(jobData[j])].last \/ Excused(j)'
  PROVE  LastInv'
<1> SUFFICES ASSUME NEW j \in Jobs, jobData'[j] # <<>>, ~Excused(j)'
             PROVE  jobData'[j][Len(jobData'[j])].last
  BY DEF LastInv, LastAt, Excused
<1>1. Len(jobData'[j]) = Len(jobData[j]) /\ DOMAIN jobData'[j] = DOMAIN jobData[j]
  BY DEF SameRows
<1>2. jobData[j] # <<>>
  <2>1. jobData[j] = <<>> => jobData'[j] = <<>>
    BY <1>1
  <2> QED
    BY <2>1
<1>3. ~Excused(j)
  OBVIOUS
<1>4. jobData[j][Len(jobData[j])].last
  BY <1>2, <1>3 DEF LastInv, LastAt, Excused
<1> QED
  BY <1>1, <1>2, <1>4

\* While no process begins to register a row, and none is killed.
LEMMA ApartLater ==
  ASSUME ApartInv, Writers' = Writers, missed \subseteq missed', stopped' \subseteq stopped,
         \A v \in 1..Writers : Registers(v)' => Registers(v) /\ writer'[v].item = writer[v].item
  PROVE  ApartInv'
<1>1. \A v \in 1..Writers : Registers(v)' /\ Spared(v) => Spared(v)'
  BY DEF Spared, AttemptOf
<1>2. ASSUME NEW v \in 1..Writers, NEW w \in 1..Writers, v # w, Registers(v)', Registers(w)',
             writer'[v].item.job = writer'[w].item.job
      PROVE  Spared(w)'
  BY <1>1, <1>2 DEF ApartInv
<1>3. ASSUME NEW w \in 1..Writers, Registers(w)', writer'[w].item.job \in stopped'
      PROVE  Spared(w)'
  BY <1>1, <1>3 DEF ApartInv
<1> QED
  BY <1>2, <1>3 DEF ApartInv

\* An attempt more that is taken for recovered has a row, or is spared.
LEMMA LoggedLater ==
  ASSUME AttemptsInv, Grow,
         \A attempt \in logged' \ missed' :
           \/ attempt \in logged
           \/ WithId(attempt[1], attempt[2])' # {}
  PROVE  LoggedInv'
<1> SUFFICES ASSUME NEW attempt \in logged' \ missed', attempt \in logged
             PROVE  WithId(attempt[1], attempt[2])' # {}
  BY DEF LoggedInv
<1>1. attempt \notin missed
  BY DEF Grow
<1>2. attempt[1] \in Jobs
  BY DEF AttemptsInv, Types, ListTypes
<1> QED
  BY <1>1, <1>2, RowsAreKept DEF AttemptsInv, LoggedInv

\* A step of one process, or of a thread.
LEMMA ProcessStep ==
  ASSUME HistoryAssumption, AttemptsInv,
         UNCHANGED <<setting, runs, listVars, command, current, commands>>,
         NEW w \in 1..Writers, NEW s \in WriterStates, writer' = [writer EXCEPT ![w] = s],
         s.pc = "idle" => s = Resting,
         queue' \in [1..Writers -> Seq(Items)],
         Grow, CounterInv', RowIds', stopped' \subseteq Jobs, missed' \subseteq Jobs \X (0..ids),
         logged' \subseteq Jobs \X (0..ids),
         \A v \in 1..Writers \ {w} : Registers(v) =>
           LET j == writer[v].item.job IN Len(jobData'[j]) = Len(jobData[j]) \/ Spared(v),
         NumberAt(w)', SeenAt(w)', RowAt(w)',
         threads' \subseteq ThreadStates, ThreadInv',
         LastInv', ApartInv', LoggedInv'
  PROVE  AttemptsInv'
<1> USE DEF AttemptsInv
<1>1. Writers' = Writers /\ Items' = Items
  BY DEF Writers, Items, listVars
<1>2. ThreadStates' = ThreadStates /\ WriterStates' = WriterStates /\ Resting' = Resting
  BY <1>1 DEF ThreadStates, WriterStates, Resting, NoItem
<1>3. Types'
  <2>1. ListTypes'
    BY DEF Types, ListTypes, listVars, Does
  <2>2. TableTypes'
    BY DEF Types, TableTypes, Grow
  <2>3. writer' \in [1..Writers -> WriterStates]
        /\ \A v \in 1..Writers : writer'[v].pc = "idle" => writer'[v] = Resting
    BY DEF Types, WriterTypes
  <2>4. WriterTypes'
    BY <1>1, <1>2, <2>3 DEF Types, WriterTypes
  <2> QED
    BY <2>1, <2>2, <2>4 DEF Types
<1>4. WritersInv'
  <2>1. ASSUME NEW v \in 1..Writers, v # w PROVE NumberAt(v)' /\ SeenAt(v)' /\ RowAt(v)'
    <3>1. writer'[v] = writer[v]
      BY <2>1 DEF Types, WriterTypes
    <3>2. NumberAt(v) /\ SeenAt(v) /\ RowAt(v)
      BY DEF WritersInv
    <3>3. LET j == writer[v].item.job IN
          Registers(v) => Len(jobData'[j]) = Len(jobData[j]) \/ Spared(v)
      BY <2>1
    <3> QED
      BY <3>1, <3>2, <3>3, WriterLater
  <2> QED
    BY <1>1, <2>1 DEF WritersInv
<1> QED
  BY <1>3, <1>4

-----------------------------------------------------------------------------
(* The steps of the recovery process.                                      *)

\* What is known of a process.
LEMMA WriterIs ==
  ASSUME HistoryAssumption, AttemptsInv, NEW w \in 1..Writers
  PROVE  /\ writer[w] \in WriterStates
         /\ writer[w].item \in Items
         /\ writer[w].item.job \in Jobs /\ writer[w].item.id \in 0..ids
         /\ writer[w].item.status \in Statuses
         /\ writer[w].counter \in Nat
         /\ ids \in Nat /\ stopped \subseteq Jobs
         /\ logged \subseteq Jobs \X (0..ids) /\ missed \subseteq Jobs \X (0..ids)
         /\ AttemptOf(w) \in Jobs \X (0..ids)
         /\ NumberAt(w) /\ SeenAt(w) /\ RowAt(w)
<1>1. /\ writer[w] \in WriterStates
      /\ writer[w].item \in Items
      /\ writer[w].item.job \in Jobs /\ writer[w].item.id \in 0..ids
      /\ writer[w].item.status \in Statuses
      /\ writer[w].counter \in Nat
  BY DEF AttemptsInv, Types, WriterTypes, WriterStates, Items
<1>2. NumberAt(w) /\ SeenAt(w) /\ RowAt(w)
  BY DEF AttemptsInv, WritersInv
<1>3. /\ ids \in Nat /\ stopped \subseteq Jobs
      /\ logged \subseteq Jobs \X (0..ids) /\ missed \subseteq Jobs \X (0..ids)
  BY DEF AttemptsInv, Types, ListTypes, MadeUpId, HistoryAssumption
<1> QED
  BY <1>1, <1>2, <1>3 DEF AttemptOf

LEMMA QueuesAre ==
  ASSUME AttemptsInv
  PROVE  queue \in [1..Writers -> Seq(Items)]
BY DEF AttemptsInv, Types, WriterTypes

LEMMA ThreadsStay ==
  ASSUME AttemptsInv, Grow, threads' \subseteq threads
  PROVE  threads' \subseteq ThreadStates /\ ThreadInv'
<1>1. threads' \subseteq ThreadStates
  BY DEF AttemptsInv, Types, WriterTypes
<1>2. ASSUME NEW t \in threads' PROVE ThreadAt(t)'
  BY ThreadLater DEF AttemptsInv, ThreadInv, Types
<1> QED
  BY <1>1, <1>2 DEF ThreadInv

\* A job whose last row is being replaced goes on so while the process does nothing,
\* and when it is killed.
LEMMA ExcusedStays ==
  ASSUME Types, SameRows, Writers' = Writers, stopped \subseteq stopped',
         \A v \in 1..Writers : writer[v].pc = "insert" =>
           writer'[v] = writer[v] \/ writer[v].item.job \in stopped',
         NEW j \in Jobs, Excused(j)
  PROVE  Excused(j)'
<1>1. Len(jobData'[j]) = Len(jobData[j])
  BY DEF SameRows
<1>2. CASE j \in stopped
  BY <1>2 DEF Excused
<1>3. CASE Replacing(j)
  BY <1>1, <1>3 DEF Excused, Replacing
<1> QED
  BY <1>2, <1>3 DEF Excused

\* A step of a process that changes no row.
LEMMA QuietProcessStep ==
  ASSUME HistoryAssumption, AttemptsInv,
         UNCHANGED <<setting, tables, listVars, command, current, commands, threads, logged,
                     stopped>>,
         queue' \in [1..Writers -> Seq(Items)],
         NEW w \in 1..Writers, NEW s \in WriterStates, writer' = [writer EXCEPT ![w] = s],
         writer[w].pc # "insert", s.pc # "idle",
         missed \subseteq missed', missed' \subseteq Jobs \X (0..ids),
         NumberAt(w)', SeenAt(w)', RowAt(w)', ApartInv'
  PROVE  AttemptsInv'
<1>1. jobData' \in [Jobs -> Seq(JobDataRows)] /\ SameRows /\ UNCHANGED <<ids, runs, jobData>>
  BY RowsAsTheyWere DEF tables, listVars, AttemptsInv, Types
<1>2. Writers' = Writers
  BY DEF Writers
<1>3. \A v \in 1..Writers : writer'[v] = IF v = w THEN s ELSE writer[v]
  BY DEF AttemptsInv, Types, WriterTypes
<1>4. \A j \in Jobs : Excused(j) => Excused(j)'
  BY <1>1, <1>2, <1>3, ExcusedStays DEF AttemptsInv
<1>5. Grow /\ CounterInv' /\ RowIds'
  BY <1>1, <1>4, RowsStay DEF AttemptsInv, Types
<1>6. LastInv'
  BY <1>1, <1>4, LastKept DEF AttemptsInv, Types
<1>7. LoggedInv'
  BY <1>5, LoggedLater
<1>8. threads' \subseteq ThreadStates /\ ThreadInv'
  BY <1>5, ThreadsStay
<1>9. stopped' \subseteq Jobs /\ logged' \subseteq Jobs \X (0..ids)
  BY WriterIs
<1>10. \A v \in 1..Writers : Len(jobData'[writer[v].item.job]) = Len(jobData[writer[v].item.job])
  BY <1>1
<1> QED
  BY <1>1, <1>5, <1>6, <1>7, <1>8, <1>9, <1>10, ProcessStep

LEMMA TakeJobStep ==
  ASSUME HistoryAssumption, AttemptsInv, UNCHANGED setting, NEW w \in 1..Writers, TakeJob(w)
  PROVE  AttemptsInv'
<1> DEFINE item == Head(queue[w])
           s == [writer[w] EXCEPT !.pc = "submit", !.item = item]
<1>1. writer[w] \in WriterStates /\ writer[w].pc = "idle" /\ writer[w] = Resting
  BY WriterIs DEF TakeJob, Writes, AttemptsInv, Types, WriterTypes
<1>2. queue[w] \in Seq(Items) /\ queue[w] # <<>>
  BY QueuesAre DEF TakeJob
<1>3. item \in Items /\ Tail(queue[w]) \in Seq(Items)
  BY <1>2
<1>4. s \in WriterStates /\ s.pc = "submit" /\ s.item = item /\ s.seen = <<>>
  BY <1>1, <1>3, RestingIs DEF WriterStates, Points, AttemptsInv, Types
<1>5. writer' = [writer EXCEPT ![w] = s]
      /\ \A v \in 1..Writers : writer'[v] = IF v = w THEN s ELSE writer[v]
  BY DEF TakeJob, AttemptsInv, Types, WriterTypes
<1>6. queue' \in [1..Writers -> Seq(Items)]
  BY <1>3, QueuesAre DEF TakeJob
<1> HIDE DEF s, item
<1>7. /\ UNCHANGED <<setting, tables, listVars, command, current, commands, threads, logged,
                     stopped>>
      /\ missed' = missed
  BY DEF TakeJob, Others, ghosts
<1>8. ApartInv'
  <2>1. \A v \in 1..Writers : Registers(v)' => Registers(v) /\ writer'[v].item = writer[v].item
    BY <1>4, <1>5 DEF Registers
  <2> QED
    BY <1>7, <2>1, ApartLater DEF AttemptsInv, Writers
<1>9. NumberAt(w)' /\ SeenAt(w)' /\ RowAt(w)'
  BY <1>4, <1>5 DEF NumberAt, SeenAt, RowAt
<1>10. missed' \subseteq Jobs \X (0..ids)
  BY <1>7, WriterIs
<1> QED
  BY <1>1, <1>4, <1>5, <1>6, <1>7, <1>8, <1>9, <1>10, QuietProcessStep

\* Who begins to register a row with others is spared, and so are they.
LEMMA ApartWhenRead ==
  ASSUME HistoryAssumption, AttemptsInv, UNCHANGED <<setting, stopped>>, NEW w \in 1..Writers,
         NEW s \in WriterStates, writer' = [writer EXCEPT ![w] = s],
         writer[w].pc = "submit", s.item = writer[w].item,
         runs = <<>> => s.pc \notin {"clear", "insert"},
         missed' = missed \cup Unregistered(w)
  PROVE  ApartInv'
<1> PICK j \in Jobs : j = writer[w].item.job
  BY WriterIs
<1>1. Writers' = Writers /\ \A v \in 1..Writers : writer'[v] = IF v = w THEN s ELSE writer[v]
  BY DEF Writers, AttemptsInv, Types, WriterTypes
<1>2. /\ \A v \in 1..Writers : AttemptOf(v)' = AttemptOf(v)
      /\ \A v \in 1..Writers : Spared(v) => Spared(v)'
      /\ \A v \in 1..Writers : Registers(v)' <=> IF v = w THEN s.pc \in {"clear", "insert"}
                                                 ELSE Registers(v)
      /\ \A v \in 1..Writers : writer'[v].item = writer[v].item
  BY <1>1 DEF AttemptOf, Spared, Registers
<1>3. \A v \in 1..Writers : v \in Registering(j) <=> Registers(v) /\ writer[v].item.job = j
  BY DEF Registering, Registers
<1>4. ASSUME Registers(w)', NEW v \in 1..Writers, v # w, Registers(v), writer[v].item.job = j
      PROVE  Spared(v)' /\ Spared(w)'
  <2>1. runs # <<>> /\ v \in Registering(j)
    BY <1>2, <1>3, <1>4
  <2>2. CASE j \in stopped
    <3>1. Unregistered(w) = {AttemptOf(w)}
      BY <2>2 DEF Unregistered, AttemptOf
    <3>2. Spared(v)
      BY <1>4, <2>2 DEF AttemptsInv, ApartInv
    <3> QED
      BY <1>2, <3>1, <3>2 DEF Spared
  <2>3. CASE j \notin stopped
    <3>1. Unregistered(w) = {<<j, writer[u].item.id>> : u \in Registering(j) \cup {w}}
      BY <2>1, <2>3 DEF Unregistered
    <3>2. AttemptOf(v) = <<j, writer[v].item.id>> /\ AttemptOf(w) = <<j, writer[w].item.id>>
      BY <1>4 DEF AttemptOf
    <3>3. AttemptOf(v) \in Unregistered(w) /\ AttemptOf(w) \in Unregistered(w)
      BY <2>1, <3>1, <3>2
    <3> QED
      BY <1>2, <3>3 DEF Spared
  <2> QED
    BY <2>2, <2>3
<1>5. ASSUME Registers(w)', j \in stopped PROVE Spared(w)'
  <2>1. Unregistered(w) = {AttemptOf(w)}
    BY <1>5 DEF Unregistered, AttemptOf
  <2> QED
    BY <1>2, <2>1 DEF Spared
<1>6. ASSUME NEW u \in 1..Writers, Registers(u)'
      PROVE  /\ \A v \in 1..Writers :
                  Registers(v)' /\ writer'[v].item.job = writer'[u].item.job
                    => v = u \/ Spared(u)'
             /\ writer'[u].item.job \in stopped' => Spared(u)'
  <2>1. CASE u = w
    BY <1>2, <1>4, <1>5, <1>6, <2>1
  <2>2. CASE u # w
    <3>1. Registers(u)
      BY <1>2, <1>6, <2>2
    <3>2. ASSUME NEW v \in 1..Writers, Registers(v)', v # u,
                 writer'[v].item.job = writer'[u].item.job
          PROVE  Spared(u)'
      <4>1. CASE v = w
        BY <1>2, <1>4, <2>2, <3>1, <3>2, <4>1
      <4>2. CASE v # w
        <5>1. Registers(v) /\ writer[v].item.job = writer[u].item.job
          BY <1>2, <3>2, <4>2
        <5> QED
          BY <1>2, <3>1, <3>2, <5>1 DEF AttemptsInv, ApartInv
      <4> QED
        BY <4>1, <4>2
    <3>3. writer'[u].item.job \in stopped' => Spared(u)'
      BY <1>2, <3>1 DEF AttemptsInv, ApartInv
    <3> QED
      BY <3>2, <3>3
  <2> QED
    BY <2>1, <2>2
<1> QED
  BY <1>1, <1>6 DEF ApartInv

LEMMA ReadLastRowsStep ==
  ASSUME HistoryAssumption, AttemptsInv, UNCHANGED setting, NEW w \in 1..Writers, ReadLastRows(w)
  PROVE  AttemptsInv'
<1> DEFINE j == writer[w].item.job
           zeroed == [key \in {<<j, k>> : k \in FoundLast(j)} |->
                        [jobData[j][key[2]] EXCEPT !.last = FALSE]]
<1>1. /\ UNCHANGED <<setting, tables, listVars, command, current, commands, threads, logged,
                     stopped>>
      /\ queue' = queue /\ missed' = missed \cup Unregistered(w)
  BY DEF ReadLastRows, Others
<1>2. writer[w] \in WriterStates /\ writer[w].pc = "submit" /\ j \in Jobs
      /\ writer[w].item \in Items
  BY WriterIs DEF ReadLastRows, Writes
<1>3. writer \in [1..Writers -> WriterStates] /\ TableTypes /\ CounterInv
  BY DEF AttemptsInv, Types, WriterTypes
<1>4. queue' \in [1..Writers -> Seq(Items)]
  BY <1>1, QueuesAre
<1>5. missed \subseteq missed' /\ missed' \subseteq Jobs \X (0..ids)
  <2>1. \A v \in 1..Writers : writer[v].item.id \in 0..ids
    BY WriterIs
  <2>2. Registering(j) \subseteq 1..Writers
    BY DEF Registering
  <2>3. Unregistered(w) \subseteq Jobs \X (0..ids)
    BY <1>2, <2>1, <2>2 DEF Unregistered
  <2> QED
    BY <1>1, <2>3, WriterIs
<1>6. CASE runs = <<>>
  <2> DEFINE s == [writer[w] EXCEPT !.pc = "start"]
  <2>1. s \in WriterStates /\ s.pc = "start" /\ s.item = writer[w].item /\ s.seen = writer[w].seen
    BY <1>2 DEF WriterStates, Points
  <2>2. writer' = [writer EXCEPT ![w] = s] /\ writer'[w] = s
    BY <1>3, <1>6 DEF ReadLastRows, Moves
  <2>3. Spared(w)'
    <3>1. Unregistered(w) = {AttemptOf(w)}
      BY <1>6 DEF Unregistered, AttemptOf
    <3>2. AttemptOf(w)' = AttemptOf(w)
      BY <2>1, <2>2 DEF AttemptOf
    <3> QED
      BY <1>1, <3>1, <3>2 DEF Spared
  <2> HIDE DEF s
  <2>4. SeenAt(w)'
    <3>1. \A v \in 1..Writers : writer[v].pc = "insert" => writer'[v] = writer[v]
      BY <1>2, <2>2
    <3>2. SameRows /\ jobData' \in [Jobs -> Seq(JobDataRows)]
      BY <1>1, <1>3, RowsAsTheyWere DEF tables
    <3>3. \A i \in Jobs : Excused(i) => Excused(i)'
      BY <1>1, <3>1, <3>2, ExcusedStays DEF AttemptsInv, Writers
    <3>4. Grow
      BY <1>3, <1>5, <3>2, <3>3, RowsStay
    <3>5. SeenAt(w) /\ writer[w].pc # "clear"
      BY <1>2, WriterIs
    <3> PICK seen : seen = writer[w].seen
      OBVIOUS
    <3>6. \A key \in DOMAIN seen :
            Fits(key, seen[key])' /\ Keeps(key, seen[key])' /\ key[1] = writer[w].item.job
      BY <1>3, <3>4, <3>5, PendingLater DEF SeenAt
    <3> QED
      BY <2>1, <2>2, <3>6 DEF SeenAt
  <2>5. NumberAt(w)' /\ RowAt(w)'
    BY <2>1, <2>2, <2>3 DEF NumberAt, RowAt
  <2>6. ApartInv'
    BY <1>1, <1>2, <2>1, <2>2, ApartWhenRead
  <2> QED
    BY <1>1, <1>2, <1>4, <1>5, <2>1, <2>2, <2>4, <2>5, <2>6, QuietProcessStep
<1>7. CASE runs # <<>>
  <2> DEFINE s == [writer[w] EXCEPT !.pc = "clear", !.seen = zeroed, !.counter = NextCounter(j)]
  <2>1. /\ DOMAIN zeroed \subseteq Keys
        /\ \A key \in DOMAIN zeroed :
             /\ zeroed[key] \in JobDataRows /\ Fits(key, zeroed[key])
             /\ key[1] = j /\ key[2] \in FoundLast(j)
    <3>1. FoundLast(j) \subseteq DOMAIN jobData[j]
      BY DEF FoundLast, LastRows
    <3>2. ASSUME NEW k \in FoundLast(j)
          PROVE  /\ <<j, k>> \in Keys
                 /\ [jobData[j][k] EXCEPT !.last = FALSE] \in JobDataRows
                 /\ Fits(<<j, k>>, [jobData[j][k] EXCEPT !.last = FALSE])
      <4>1. k \in DOMAIN jobData[j] /\ k \in Nat /\ jobData[j][k] \in JobDataRows
        BY <1>2, <1>3, <3>1, RowsAre
      <4>2. /\ [jobData[j][k] EXCEPT !.last = FALSE] \in JobDataRows
            /\ [jobData[j][k] EXCEPT !.last = FALSE].id = jobData[j][k].id
            /\ [jobData[j][k] EXCEPT !.last = FALSE].counter = jobData[j][k].counter
        BY <4>1 DEF JobDataRows
      <4> QED
        BY <1>2, <4>1, <4>2 DEF Fits, Keys
    <3>3. ASSUME NEW key \in DOMAIN zeroed
          PROVE  /\ key \in Keys /\ key[1] = j /\ key[2] \in FoundLast(j)
                 /\ zeroed[key] \in JobDataRows /\ Fits(key, zeroed[key])
      <4>1. PICK k \in FoundLast(j) : key = <<j, k>>
        OBVIOUS
      <4>2. zeroed[key] = [jobData[j][k] EXCEPT !.last = FALSE]
        BY <4>1
      <4> HIDE DEF zeroed
      <4> QED
        BY <3>2, <4>1, <4>2
    <3> HIDE DEF zeroed
    <3> QED
      BY <3>3
  <2>2. zeroed \in Pending
    <3>1. zeroed = [key \in DOMAIN zeroed |-> zeroed[key]]
      OBVIOUS
    <3> HIDE DEF zeroed
    <3> QED
      BY <2>1, <3>1, PendingIs
  <2>3. NextCounter(j) \in Nat
    BY <1>2, <1>3, NextCounterIs
  <2>4. /\ s \in WriterStates /\ s.pc = "clear" /\ s.item = writer[w].item /\ s.seen = zeroed
        /\ s.counter = NextCounter(j)
    <3> HIDE DEF zeroed
    <3> QED
      BY <1>2, <2>2, <2>3 DEF WriterStates, Points
  <2>5. writer' = [writer EXCEPT ![w] = s] /\ writer'[w] = s
    BY <1>3, <1>7 DEF ReadLastRows
  <2>6. SeenAt(w)'
    <3>1. \A key \in DOMAIN zeroed : Fits(key, zeroed[key]) /\ key[1] = j
      BY <2>1
    <3> PICK seen : seen = zeroed
      OBVIOUS
    <3>2. \A key \in DOMAIN seen : Fits(key, seen[key])' /\ key[1] = j
      BY <1>1, <3>1 DEF Fits, tables
    <3>3. writer'[w].seen = seen /\ writer'[w].pc = "clear" /\ writer'[w].item.job = j
      BY <2>4, <2>5
    <3> QED
      BY <3>2, <3>3 DEF SeenAt
  <2>7. NumberAt(w)'
    <3>1. Spared(w)' \/ (jobData[j] # <<>> => jobData[j][Len(jobData[j])].last)
      <4>1. CASE j \in stopped \/ Registering(j) # {}
        <5>1. AttemptOf(w) \in Unregistered(w)
          BY <1>7, <4>1 DEF Unregistered, AttemptOf
        <5>2. AttemptOf(w)' = AttemptOf(w)
          BY <2>4, <2>5 DEF AttemptOf
        <5> QED
          BY <1>1, <5>1, <5>2 DEF Spared
      <4>2. CASE j \notin stopped /\ Registering(j) = {}
        <5>1. ~Replacing(j)
          BY <4>2 DEF Registering, Replacing
        <5> QED
          BY <1>2, <4>2, <5>1 DEF AttemptsInv, LastInv, LastAt
      <4> QED
        BY <4>1, <4>2
    <3>2. /\ NextCounter(j) <= Len(jobData[j])
          /\ Spared(w)' \/ NextCounter(j) = Len(jobData[j])
          /\ \A k \in FoundLast(j) : k <= NextCounter(j)
      BY <1>2, <1>3, <3>1, NextCounterIs
    <3> PICK seen : seen = zeroed
      OBVIOUS
    <3>3. \A key \in DOMAIN seen : key[2] <= NextCounter(j)
      <4> HIDE DEF zeroed
      <4> QED
        BY <2>1, <3>2
    <3> HIDE DEF s
    <3>4. writer'[w].item.job = j /\ writer'[w].counter = NextCounter(j) /\ writer'[w].seen = seen
      BY <2>4, <2>5
    <3>5. jobData' = jobData
      BY <1>1 DEF tables
    <3> QED
      BY <3>2, <3>3, <3>4, <3>5 DEF NumberAt
  <2>8. RowAt(w)'
    BY <2>4, <2>5 DEF RowAt
  <2> HIDE DEF s, zeroed
  <2>9. ApartInv'
    BY <1>1, <1>2, <1>7, <2>4, <2>5, ApartWhenRead
  <2> QED
    BY <1>1, <1>2, <1>4, <1>5, <2>4, <2>5, <2>6, <2>7, <2>8, <2>9, QuietProcessStep
<1> QED
  BY <1>6, <1>7

\* What is to be written in the row of a submission, if there is one.
IsRowOf(j, n, f) ==
  IF WithId(j, n) = {} THEN f = <<>>
  ELSE \E row \in JobDataRows :
         /\ f = One(j, Newest(j, WithId(j, n)), row)
         /\ row.id = jobData[j][Newest(j, WithId(j, n))].id
         /\ row.counter = jobData[j][Newest(j, WithId(j, n))].counter
         /\ row.last = jobData[j][Newest(j, WithId(j, n))].last

\* write_start_time and write_finish_time, up to their statement: the row is read
\* and changed, or there is none.
LEMMA ReadRowStep ==
  ASSUME HistoryAssumption, AttemptsInv,
         UNCHANGED <<setting, tables, listVars, command, current, commands, queue, threads,
                     logged, ghosts>>,
         NEW w \in 1..Writers, NEW point \in {"started", "finished"}, NEW f,
         writer[w].pc \in {"start", "finish"}, Sees(w, point, f),
         IsRowOf(writer[w].item.job, writer[w].item.id, f)
  PROVE  AttemptsInv'
<1> DEFINE s == [writer[w] EXCEPT !.pc = point, !.seen = f]
<1> PICK j \in Jobs, n \in 0..ids : j = writer[w].item.job /\ n = writer[w].item.id
  BY WriterIs
<1>1. /\ f \in Pending
      /\ \A key \in DOMAIN f :
           Fits(key, f[key]) /\ key[1] = j /\ f[key].last = jobData[key[1]][key[2]].last
  <2>1. CASE WithId(j, n) = {}
    BY <2>1, NothingPending DEF IsRowOf
  <2>2. CASE WithId(j, n) # {}
    BY <2>2, RowIsRead DEF IsRowOf, AttemptsInv, Types
  <2> QED
    BY <2>1, <2>2
<1>2. WithId(j, n) # {} => \E key \in DOMAIN f : f[key].id = n
  <2> SUFFICES ASSUME WithId(j, n) # {}
               PROVE  \E key \in DOMAIN f : f[key].id = n
    OBVIOUS
  <2> DEFINE k == Newest(j, WithId(j, n))
  <2>1. k \in WithId(j, n) /\ jobData[j][k].id = n
    <3>1. WithId(j, n) \subseteq DOMAIN jobData[j]
      BY DEF WithId
    <3>2. k \in WithId(j, n)
      BY <3>1, NewestIsThere DEF AttemptsInv, Types
    <3> HIDE DEF k
    <3> QED
      BY <3>2 DEF WithId
  <2>2. PICK row : f = One(j, k, row) /\ row.id = n
    BY <2>1 DEF IsRowOf
  <2> HIDE DEF k
  <2>3. <<j, k>> \in DOMAIN f /\ f[<<j, k>>].id = n
    BY <2>2 DEF One
  <2> QED
    BY <2>3
<1>3. \A key \in DOMAIN f : Keeps(key, f[key])
  <2> SUFFICES ASSUME NEW key \in DOMAIN f, key[2] = Len(jobData[j]), ~Excused(j)
               PROVE  f[key].last
    BY <1>1 DEF Keeps, Excused
  <2>1. jobData[j] # <<>>
    BY <1>1, RowsAre DEF Fits, AttemptsInv, Types
  <2>2. jobData[j][Len(jobData[j])].last
    BY <2>1 DEF AttemptsInv, LastInv, LastAt, Excused
  <2> QED
    BY <1>1, <2>2
<1>4. s \in WriterStates /\ s.pc = point /\ s.item = writer[w].item /\ s.seen = f
  BY <1>1, WriterIs DEF WriterStates, Points
<1>5. writer' = [writer EXCEPT ![w] = s] /\ writer'[w] = s
  BY DEF AttemptsInv, Types, WriterTypes, Sees
<1> HIDE DEF s
<1>6. /\ jobData' = jobData /\ missed' = missed /\ stopped' = stopped
      /\ UNCHANGED <<setting, tables, listVars, command, current, commands, threads, logged,
                     stopped>>
      /\ Writers' = Writers
  BY DEF tables, ghosts, Writers
<1>7. SeenAt(w)'
  <2>1. \A v \in 1..Writers : writer[v].pc = "insert" => writer'[v] = writer[v]
    BY <1>5 DEF AttemptsInv, Types, WriterTypes
  <2>2. SameRows /\ jobData' \in [Jobs -> Seq(JobDataRows)]
    BY <1>6, RowsAsTheyWere DEF AttemptsInv, Types
  <2>3. \A i \in Jobs : Excused(i) => Excused(i)'
    BY <1>6, <2>1, <2>2, ExcusedStays DEF AttemptsInv
  <2>4. Grow
    BY <1>6, <2>2, <2>3, RowsStay DEF AttemptsInv, Types
  <2>5. \A key \in DOMAIN f : Fits(key, f[key])' /\ Keeps(key, f[key])' /\ key[1] = j
    BY <1>1, <1>3, <2>4, PendingLater DEF AttemptsInv, Types
  <2> QED
    BY <1>4, <1>5, <2>5 DEF SeenAt
<1>8. NumberAt(w)'
  BY <1>4, <1>5 DEF NumberAt
<1>9. RowAt(w)'
  <2>1. Spared(w) \/ WithId(j, n) # {}
    BY WriterIs DEF RowAt
  <2>2. Spared(w)' <=> Spared(w)
    BY <1>4, <1>5, <1>6 DEF Spared, AttemptOf
  <2>3. WithId(j, n)' = WithId(j, n)
    BY <1>6 DEF WithId
  <2>4. writer'[w].item.job = j /\ writer'[w].item.id = n /\ writer'[w].seen = f
    BY <1>4, <1>5
  <2> QED
    BY <1>2, <2>1, <2>2, <2>3, <2>4 DEF RowAt
<1>10. ApartInv'
  <2>1. \A v \in 1..Writers : Registers(v)' => Registers(v) /\ writer'[v].item = writer[v].item
    BY <1>4, <1>5 DEF Registers, AttemptsInv, Types, WriterTypes
  <2> QED
    BY <1>6, <2>1, ApartLater DEF AttemptsInv
<1>11. queue' \in [1..Writers -> Seq(Items)] /\ missed' \subseteq Jobs \X (0..ids)
  BY <1>6, QueuesAre, WriterIs
<1>12. writer[w].pc # "insert" /\ s.pc # "idle" /\ missed \subseteq missed'
  BY <1>4, <1>6
<1> QED
  BY <1>4, <1>5, <1>6, <1>7, <1>8, <1>9, <1>10, <1>11, <1>12, QuietProcessStep

LEMMA WriteStartStep ==
  ASSUME HistoryAssumption, AttemptsInv, UNCHANGED setting, NEW w \in 1..Writers,
         WriteStart(w) \/ WriteFinish(w)
  PROVE  AttemptsInv'
<1> DEFINE item == writer[w].item
           k == Newest(item.job, WithId(item.job, item.id))
           old == [jobData[item.job][k] EXCEPT !.status = item.status]
           started == [old EXCEPT !.start = TRUE]
           finished == [old EXCEPT !.finish = TRUE]
           Read(row) == IF WithId(item.job, item.id) = {} THEN <<>> ELSE One(item.job, k, row)
<1>1. \E point \in {"started", "finished"}, row \in {started, finished} :
        /\ writer[w].pc \in {"start", "finish"}
        /\ Sees(w, point, Read(row))
  BY DEF WriteStart, WriteFinish, Writes, RowOf
<1> PICK point \in {"started", "finished"}, row \in {started, finished} :
        /\ writer[w].pc \in {"start", "finish"}
        /\ Sees(w, point, Read(row))
  BY <1>1
<1>2. UNCHANGED <<tables, listVars, command, current, commands, queue, threads, logged,
                ghosts>>
  BY DEF WriteStart, WriteFinish, Others
<1>3. ASSUME WithId(item.job, item.id) # {}
      PROVE  /\ row \in JobDataRows
             /\ row.id = jobData[item.job][k].id
             /\ row.counter = jobData[item.job][k].counter
             /\ row.last = jobData[item.job][k].last
  <2>1. k \in DOMAIN jobData[item.job]
    <3>1. WithId(item.job, item.id) \subseteq DOMAIN jobData[item.job]
      BY DEF WithId
    <3> QED
      BY <1>3, <3>1, NewestIsThere, WriterIs DEF AttemptsInv, Types
  <2>2. jobData[item.job][k] \in JobDataRows /\ item.status \in Statuses
    BY <2>1, WriterIs, RowsAre DEF AttemptsInv, Types
  <2> PICK was : was = jobData[item.job][k]
    OBVIOUS
  <2> HIDE DEF k
  <2>3. row \in {[[was EXCEPT !.status = item.status] EXCEPT !.start = TRUE],
                 [[was EXCEPT !.status = item.status] EXCEPT !.finish = TRUE]}
    OBVIOUS
  <2> HIDE DEF item, old, started, finished
  <2> QED
    BY <2>2, <2>3 DEF JobDataRows
<1> HIDE DEF item, k, old, started, finished
<1>4. IF WithId(item.job, item.id) = {} THEN Read(row) = <<>>
      ELSE \E r \in JobDataRows :
             /\ Read(row) = One(item.job, k, r)
             /\ r.id = jobData[item.job][k].id
             /\ r.counter = jobData[item.job][k].counter
             /\ r.last = jobData[item.job][k].last
  BY <1>3
<1> HIDE DEF Read
<1> PICK f : f = Read(row)
  OBVIOUS
<1>5. IsRowOf(writer[w].item.job, writer[w].item.id, f)
  BY <1>4 DEF item, k, IsRowOf
<1>6. Sees(w, point, f)
  OBVIOUS
<1>7. UNCHANGED <<setting, tables, listVars, command, current, commands, queue, threads,
                  logged, ghosts>>
  BY <1>2
<1>8. writer[w].pc \in {"start", "finish"} /\ point \in {"started", "finished"}
  OBVIOUS
<1> QED
  BY ONLY HistoryAssumption, AttemptsInv, w \in 1..Writers, <1>5, <1>6, <1>7, <1>8, ReadRowStep

\* Rows that were read are written back.
LEMMA WrittenBack ==
  ASSUME TableTypes, NEW f, \A key \in DOMAIN f : Fits(key, f[key]), jobData' = Updated(f)
  PROVE  /\ jobData' \in [Jobs -> Seq(JobDataRows)] /\ SameRows
         /\ \A j \in Jobs :
              jobData[j] # <<>> /\ jobData[j][Len(jobData[j])].last
                => \/ jobData'[j][Len(jobData[j])].last
                   \/ \E key \in DOMAIN f :
                        key[1] = j /\ key[2] = Len(jobData[j]) /\ ~f[key].last
<1>1. /\ jobData' \in [Jobs -> Seq(JobDataRows)]
      /\ SameRows
      /\ \A j \in Jobs : \A k \in DOMAIN jobData[j] :
           jobData'[j][k] = IF <<j, k>> \in DOMAIN f THEN f[<<j, k>>] ELSE jobData[j][k]
  BY UpdatedRows
<1>2. ASSUME NEW j \in Jobs, jobData[j] # <<>>, jobData[j][Len(jobData[j])].last,
             ~jobData'[j][Len(jobData[j])].last
      PROVE  \E key \in DOMAIN f : key[1] = j /\ key[2] = Len(jobData[j]) /\ ~f[key].last
  <2>1. Len(jobData[j]) \in DOMAIN jobData[j]
    BY <1>2 DEF TableTypes
  <2> PICK key : key = <<j, Len(jobData[j])>>
    OBVIOUS
  <2>2. key \in DOMAIN f /\ ~f[key].last /\ key[1] = j /\ key[2] = Len(jobData[j])
    BY <1>1, <1>2, <2>1
  <2> QED
    BY <2>2
<1> QED
  BY <1>1, <1>2

LEMMA WriteBackStep ==
  ASSUME HistoryAssumption, AttemptsInv,
         UNCHANGED <<setting, runs, listVars, command, current, commands, queue, ghosts>>,
         NEW w \in 1..Writers, writer[w].pc \in {"clear", "started", "finished"},
         jobData' = Updated(writer[w].seen),
         NEW s \in WriterStates, writer' = [writer EXCEPT ![w] = s],
         s.seen = <<>>,
         s.pc = "idle" => s = Resting,
         s.pc # "idle" => s.item.job = writer[w].item.job /\ s.item.id = writer[w].item.id,
         writer[w].pc = "clear" => /\ s.pc = "insert" /\ s.counter = writer[w].counter
                                   /\ s.item = writer[w].item,
         writer[w].pc = "started" => s.pc = "finish",
         writer[w].pc = "finished" => s.pc \in {"idle", "submit"},
         threads' \subseteq ThreadStates, \A t \in threads' : ThreadAt(t),
         logged' = logged
           \/ (writer[w].pc = "finished" /\ logged' = logged \cup {AttemptOf(w)})
  PROVE  AttemptsInv'
<1> PICK j \in Jobs, n \in 0..ids : j = writer[w].item.job /\ n = writer[w].item.id
  BY WriterIs
<1> PICK f : f = writer[w].seen
  OBVIOUS
<1>1. \A key \in DOMAIN f :
        Fits(key, f[key]) /\ key[1] = j /\ (writer[w].pc # "clear" => Keeps(key, f[key]))
  BY WriterIs DEF SeenAt
<1>2. /\ jobData' \in [Jobs -> Seq(JobDataRows)] /\ SameRows
      /\ \A i \in Jobs :
           jobData[i] # <<>> /\ jobData[i][Len(jobData[i])].last
             => \/ jobData'[i][Len(jobData[i])].last
                \/ \E key \in DOMAIN f :
                     key[1] = i /\ key[2] = Len(jobData[i]) /\ ~f[key].last
  BY <1>1, WrittenBack DEF AttemptsInv, Types
<1>3. /\ Writers' = Writers /\ writer'[w] = s
      /\ \A v \in 1..Writers : writer'[v] = IF v = w THEN s ELSE writer[v]
      /\ missed' = missed /\ stopped' = stopped /\ ids' = ids
  BY DEF Writers, AttemptsInv, Types, WriterTypes, ghosts, listVars
<1>4. \A i \in Jobs : Excused(i) => Excused(i)'
  BY <1>2, <1>3, ExcusedStays DEF AttemptsInv
<1>5. Grow /\ CounterInv' /\ RowIds' /\ \A i \in Jobs : \A m : WithId(i, m)' = WithId(i, m)
  BY <1>2, <1>3, <1>4, RowsStay DEF AttemptsInv, Types
<1>6. ApartInv'
  <2>1. \A v \in 1..Writers : Registers(v)' => Registers(v) /\ writer'[v].item = writer[v].item
    BY <1>3 DEF Registers
  <2> QED
    BY <1>3, <2>1, ApartLater DEF AttemptsInv
<1>7. writer[w].pc = "clear" =>
        /\ \A key \in DOMAIN f : key[2] <= writer[w].counter
        /\ writer[w].counter <= Len(jobData[j]) /\ writer[w].counter \in Nat
        /\ Spared(w) \/ writer[w].counter = Len(jobData[j])
  BY WriterIs DEF NumberAt
<1>8. LastInv'
  <2>1. ASSUME NEW i \in Jobs, jobData[i] # <<>>, jobData[i][Len(jobData[i])].last
        PROVE  jobData'[i][Len(jobData[i])].last \/ Excused(i)'
    <3> SUFFICES ASSUME NEW key \in DOMAIN f,
                        key[1] = i, key[2] = Len(jobData[i]), ~f[key].last
                 PROVE  Excused(i)'
      BY <1>2, <2>1
    <3>1. CASE writer[w].pc # "clear"
      <4>1. Excused(i)
        BY <1>1, <3>1 DEF Keeps, Excused
      <4> QED
        BY <1>4, <4>1
    <3>2. CASE writer[w].pc = "clear"
      <4>1. i = j /\ Len(jobData[j]) \in Nat
        BY <1>1, RowsAre DEF AttemptsInv, Types
      <4>2. writer[w].counter = Len(jobData[j])
        BY <1>7, <3>2, <4>1
      <4>3. Len(jobData'[j]) = Len(jobData[j])
        BY <1>2 DEF SameRows
      <4>4. Replacing(j)'
        BY <1>3, <3>2, <4>2, <4>3 DEF Replacing
      <4> QED
        BY <4>1, <4>4 DEF Excused
    <3> QED
      BY <3>1, <3>2
  <2>2. TableTypes /\ LastInv
    BY DEF AttemptsInv, Types
  <2> QED
    BY <1>2, <1>4, <2>1, <2>2, LastKept
<1>9. LoggedInv' /\ logged' \subseteq Jobs \X (0..ids)
  <2>1. logged \subseteq Jobs \X (0..ids) /\ AttemptOf(w) \in Jobs \X (0..ids)
    BY WriterIs
  <2>2. writer[w].pc = "finished" => AttemptOf(w) \in missed \/ WithId(j, n) # {}
    BY WriterIs DEF RowAt, Spared
  <2>3. AttemptOf(w)[1] = j /\ AttemptOf(w)[2] = n
    BY DEF AttemptOf
  <2>4. WithId(j, n)' = WithId(j, n)
    BY <1>5
  <2>5. ASSUME NEW attempt \in logged' \ missed'
        PROVE  attempt \in logged \/ WithId(attempt[1], attempt[2])' # {}
    BY <1>3, <2>2, <2>3, <2>4
  <2> QED
    BY <1>5, <2>1, <2>5, LoggedLater
<1>10. ThreadInv'
  <2>1. \A t \in threads' : ThreadAt(t)'
    BY <1>5, ThreadLater DEF AttemptsInv, Types
  <2> QED
    BY <2>1 DEF ThreadInv
<1>11. (s.pc # "idle") => (Spared(w)' <=> Spared(w))
  BY <1>3 DEF Spared, AttemptOf
<1>12. NumberAt(w)'
  <2>1. CASE writer[w].pc = "clear"
    <3>1. Len(jobData'[j]) = Len(jobData[j])
      BY <1>2 DEF SameRows
    <3> QED
      BY <1>3, <1>7, <1>11, <2>1, <3>1 DEF NumberAt
  <2>2. CASE writer[w].pc # "clear"
    BY <1>3, <2>2 DEF NumberAt
  <2> QED
    BY <2>1, <2>2
<1>13. SeenAt(w)'
  BY <1>3 DEF SeenAt
<1>14. RowAt(w)'
  <2>1. CASE writer[w].pc = "started"
    <3>1. Spared(w) \/ WithId(j, n) # {}
      BY <2>1, WriterIs DEF RowAt
    <3>2. WithId(j, n)' = WithId(j, n)
      BY <1>5
    <3>3. writer'[w].item.job = j /\ writer'[w].item.id = n /\ writer'[w].pc = "finish"
      BY <1>3, <2>1
    <3> QED
      BY <1>11, <2>1, <3>1, <3>2, <3>3 DEF RowAt
  <2>2. CASE writer[w].pc # "started"
    BY <1>3, <2>2 DEF RowAt
  <2> QED
    BY <2>1, <2>2
<1>15. queue' \in [1..Writers -> Seq(Items)]
       /\ stopped' \subseteq Jobs /\ missed' \subseteq Jobs \X (0..ids)
  BY <1>3, QueuesAre, WriterIs
<1>16. \A v \in 1..Writers \ {w} : Registers(v) =>
         LET i == writer[v].item.job IN Len(jobData'[i]) = Len(jobData[i]) \/ Spared(v)
  BY <1>2, WriterIs DEF SameRows
<1> QED
  BY <1>5, <1>6, <1>8, <1>9, <1>10, <1>12, <1>13, <1>14, <1>15, <1>16, ProcessStep

LEMMA ClearLastStep ==
  ASSUME HistoryAssumption, AttemptsInv, UNCHANGED setting, NEW w \in 1..Writers,
         ClearLast(w) \/ UpdateStart(w)
  PROVE  AttemptsInv'
<1>1. PICK point \in {"insert", "finish"} :
        /\ writer[w].pc = IF point = "insert" THEN "clear" ELSE "started"
        /\ Sees(w, point, <<>>)
  BY DEF ClearLast, UpdateStart, Writes
<1> DEFINE s == [writer[w] EXCEPT !.pc = point, !.seen = <<>>]
<1>2. /\ s \in WriterStates /\ s.pc = point /\ s.item = writer[w].item
      /\ s.seen = <<>> /\ s.counter = writer[w].counter
  BY WriterIs, NothingPending DEF WriterStates, Points
<1>3. writer' = [writer EXCEPT ![w] = s]
  BY <1>1 DEF Sees, AttemptsInv, Types, WriterTypes
<1> HIDE DEF s
<1>4. /\ UNCHANGED <<setting, runs, listVars, command, current, commands, queue, ghosts>>
      /\ UNCHANGED <<logged, threads>> /\ jobData' = Updated(writer[w].seen)
  BY DEF ClearLast, UpdateStart, Others
<1>5. threads' \subseteq ThreadStates /\ \A t \in threads' : ThreadAt(t)
  BY <1>4 DEF AttemptsInv, Types, WriterTypes, ThreadInv
<1> QED
  BY <1>1, <1>2, <1>3, <1>4, <1>5, WriteBackStep

LEMMA UpdateFinishStep ==
  ASSUME HistoryAssumption, AttemptsInv, UNCHANGED setting, NEW w \in 1..Writers,
         UpdateFinish(w)
  PROVE  AttemptsInv'
<1>1. /\ UNCHANGED <<setting, runs, listVars, command, current, commands, queue, ghosts>>
      /\ jobData' = Updated(writer[w].seen) /\ writer[w].pc = "finished"
  BY DEF UpdateFinish, Writes, Others
<1>2. logged' = logged \/ logged' = logged \cup {AttemptOf(w)}
  BY DEF UpdateFinish, AttemptOf
<1>3. \E s \in WriterStates :
        /\ writer' = [writer EXCEPT ![w] = s] /\ s.seen = <<>>
        /\ s.pc = "idle" => s = Resting
        /\ s.pc # "idle" => s.item.job = writer[w].item.job /\ s.item.id = writer[w].item.id
        /\ s.pc \in {"idle", "submit"}
  <2>1. CASE writer[w].item.tries > 1
    <3> DEFINE item == [writer[w].item EXCEPT !.tries = @ - 1]
               s == [writer[w] EXCEPT !.pc = "submit", !.item = item, !.seen = <<>>]
    <3>1. item \in Items /\ item.job = writer[w].item.job /\ item.id = writer[w].item.id
      BY <2>1, WriterIs DEF Items
    <3>2. writer' = [writer EXCEPT ![w] = s]
      <4>1. writer' = [writer EXCEPT ![w].pc = "submit", ![w].item.tries = @ - 1,
                                     ![w].seen = <<>>]
        BY <2>1 DEF UpdateFinish
      <4>2. writer = [v \in 1..Writers |-> writer[v]]
        BY DEF AttemptsInv, Types, WriterTypes
      <4> QED
        BY <4>1, <4>2
    <3> HIDE DEF item
    <3>3. s \in WriterStates /\ s.pc = "submit" /\ s.item = item /\ s.seen = <<>>
      BY <3>1, WriterIs, NothingPending DEF WriterStates, Points
    <3> HIDE DEF s
    <3> QED
      BY <3>1, <3>2, <3>3
  <2>2. CASE ~ (writer[w].item.tries > 1)
    <3>1. writer' = [writer EXCEPT ![w] = Resting]
      BY <2>2 DEF UpdateFinish
    <3> QED
      BY <3>1, RestingIs DEF AttemptsInv, Types
  <2> QED
    BY <2>1, <2>2
<1>4. threads' \subseteq ThreadStates /\ \A t \in threads' : ThreadAt(t)
  <2>1. ASSUME NEW key \in DOMAIN writer[w].seen
        PROVE  LET t == [of |-> w, key |-> key, row |-> Reread(w, key), asked |-> FALSE,
                         todo |-> <<>>]
               IN  t \in ThreadStates /\ ThreadAt(t)
    <3> PICK row : row = Reread(w, key)
      OBVIOUS
    <3>1. Fits(key, row) /\ Keeps(key, row)
      BY <1>1, WriterIs DEF SeenAt, Reread
    <3>2. key \in Keys /\ row \in JobDataRows
      BY <3>1 DEF Fits
    <3> DEFINE t == [of |-> w, key |-> key, row |-> row, asked |-> FALSE, todo |-> <<>>]
    <3>3. t \in ThreadStates
      BY <3>2, NothingPending DEF ThreadStates
    <3>4. t.key = key /\ t.row = row /\ DOMAIN t.todo = {}
      OBVIOUS
    <3> HIDE DEF t
    <3>5. ThreadAt(t)
      BY <3>1, <3>4 DEF ThreadAt
    <3> QED
      BY <3>3, <3>5 DEF t
  <2>2. threads \subseteq ThreadStates /\ \A t \in threads : ThreadAt(t)
    BY DEF AttemptsInv, Types, WriterTypes, ThreadInv
  <2>3. \A t \in threads' : t \in threads \/ \E key \in DOMAIN writer[w].seen :
          t = [of |-> w, key |-> key, row |-> Reread(w, key), asked |-> FALSE, todo |-> <<>>]
    BY DEF UpdateFinish
  <2> QED
    BY <2>1, <2>2, <2>3
<1> QED
  BY <1>1, <1>2, <1>3, <1>4, WriteBackStep

\* A new row has the number of its position.
LEMMA InsertedRow ==
  ASSUME TableTypes, CounterInv, RowIds, NEW i \in Jobs, NEW row \in JobDataRows,
         row.id <= ids, row.counter <= Len(jobData[i]),
         jobData' = IF Accepts(i, row.counter)
                    THEN [jobData EXCEPT ![i] = Append(@, row)] ELSE jobData,
         ids' = ids
  PROVE  /\ jobData' \in [Jobs -> Seq(JobDataRows)] /\ CounterInv' /\ RowIds'
         /\ \A j \in Jobs \ {i} : jobData'[j] = jobData[j]
         /\ IF row.counter = Len(jobData[i])
            THEN /\ Len(jobData'[i]) = Len(jobData[i]) + 1
                 /\ jobData'[i][Len(jobData'[i])] = row
                 /\ \A k \in DOMAIN jobData[i] :
                      k \in DOMAIN jobData'[i] /\ jobData'[i][k] = jobData[i][k]
                 /\ \A k \in DOMAIN jobData'[i] : k \in DOMAIN jobData[i] \/ jobData'[i][k] = row
                 /\ Len(jobData'[i]) \in WithId(i, row.id)'
            ELSE jobData' = jobData
<1>1. /\ jobData[i] \in Seq(JobDataRows) /\ Len(jobData[i]) \in Nat
      /\ DOMAIN jobData[i] = 1..Len(jobData[i])
      /\ row.counter \in Nat /\ row.id \in Nat
  BY RowsAre DEF JobDataRows
<1>2. Accepts(i, row.counter) <=> row.counter = Len(jobData[i])
  <2> PICK n \in Nat, c \in Nat : n = Len(jobData[i]) /\ c = row.counter /\ c <= n
    BY <1>1
  <2>1. \A k \in 1..n : jobData[i][k].counter = k - 1
    BY <1>1 DEF CounterInv
  <2>2. ASSUME c < n PROVE ~Accepts(i, c)
    <3>1. c + 1 \in 1..n /\ (c + 1) - 1 = c
      BY <2>2
    <3>2. jobData[i][c + 1].counter = c
      BY <2>1, <3>1
    <3> QED
      BY <1>1, <3>1, <3>2 DEF Accepts
  <2>3. ASSUME c = n PROVE Accepts(i, c)
    <3>1. \A k \in 1..n : k - 1 # n
      OBVIOUS
    <3> QED
      BY <1>1, <2>1, <2>3, <3>1 DEF Accepts
  <2> QED
    BY <2>2, <2>3
<1>3. CASE row.counter # Len(jobData[i])
  <2>1. jobData' = jobData
    BY <1>2, <1>3
  <2> QED
    BY <1>3, <2>1 DEF CounterInv, RowIds, TableTypes
<1>4. CASE row.counter = Len(jobData[i])
  <2> DEFINE n == Len(jobData[i]) + 1
  <2>1. /\ jobData'[i] = Append(jobData[i], row)
        /\ jobData' \in [Jobs -> Seq(JobDataRows)]
        /\ \A j \in Jobs \ {i} : jobData'[j] = jobData[j]
    BY <1>1, <1>2, <1>4 DEF TableTypes
  <2>2. /\ Len(jobData'[i]) = n /\ DOMAIN jobData'[i] = 1..n
        /\ jobData'[i][n] = row
        /\ \A k \in 1..Len(jobData[i]) : jobData'[i][k] = jobData[i][k]
    BY <1>1, <2>1
  <2>3. CounterInv' /\ RowIds'
    <3>1. ASSUME NEW j \in Jobs, NEW k \in DOMAIN jobData'[j]
          PROVE  jobData'[j][k].counter = k - 1 /\ jobData'[j][k].id <= ids
      <4>1. CASE j # i
        BY <2>1, <4>1 DEF CounterInv, RowIds
      <4>2. CASE j = i /\ k = n
        BY <1>1, <1>4, <2>2, <4>2
      <4>3. CASE j = i /\ k # n
        BY <1>1, <2>2, <4>3 DEF CounterInv, RowIds
      <4> QED
        BY <4>1, <4>2, <4>3
    <3> QED
      BY <3>1 DEF CounterInv, RowIds
  <2>4. /\ \A k \in DOMAIN jobData[i] : k \in DOMAIN jobData'[i] /\ jobData'[i][k] = jobData[i][k]
        /\ \A k \in DOMAIN jobData'[i] : k \in DOMAIN jobData[i] \/ jobData'[i][k] = row
    BY <1>1, <2>2
  <2>5. n \in WithId(i, row.id)'
    BY <1>1, <2>2 DEF WithId
  <2> QED
    BY <1>4, <2>1, <2>2, <2>3, <2>4, <2>5
<1> QED
  BY <1>3, <1>4

LEMMA InsertRowStep ==
  ASSUME HistoryAssumption, AttemptsInv, UNCHANGED setting, NEW w \in 1..Writers, InsertRow(w)
  PROVE  AttemptsInv'
<1> PICK j \in Jobs, n \in 0..ids : j = writer[w].item.job /\ n = writer[w].item.id
  BY WriterIs
<1> DEFINE s == [writer[w] EXCEPT !.pc = "start"]
<1> PICK row : row = NewRow(w)
  OBVIOUS
<1>1. /\ UNCHANGED <<setting, runs, listVars, command, current, commands, queue, threads,
                     logged>>
      /\ missed' = missed /\ ids' = ids
      /\ writer[w].pc = "insert" /\ writer[w].pc # "idle"
      /\ jobData' = IF Accepts(j, writer[w].counter)
                    THEN [jobData EXCEPT ![j] = Append(@, row)] ELSE jobData
      /\ stopped' = IF Accepts(j, writer[w].counter) THEN stopped \ {j} ELSE stopped
  BY DEF InsertRow, Writes, Others, listVars
<1>2. /\ s \in WriterStates /\ s.pc = "start" /\ s.item = writer[w].item
      /\ s.seen = writer[w].seen
  BY WriterIs DEF WriterStates, Points
<1>3. /\ writer' = [writer EXCEPT ![w] = s] /\ Writers' = Writers
      /\ \A v \in 1..Writers : writer'[v] = IF v = w THEN s ELSE writer[v]
  BY DEF InsertRow, Moves, AttemptsInv, Types, WriterTypes, Writers
<1> HIDE DEF s
<1>4. /\ row \in JobDataRows /\ row.id = n /\ row.last /\ row.counter = writer[w].counter
      /\ n <= ids /\ ids \in Nat
  <2>1. writer[w].counter \in Nat /\ writer[w].item.status \in Statuses /\ ids \in Nat
    BY WriterIs DEF WriterStates
  <2> QED
    BY <2>1 DEF NewRow, JobDataRows
<1>5. row.counter <= Len(jobData[j]) /\ (Spared(w) \/ row.counter = Len(jobData[j]))
  BY <1>1, <1>4, WriterIs DEF NumberAt
<1>6. /\ jobData' \in [Jobs -> Seq(JobDataRows)] /\ CounterInv' /\ RowIds'
      /\ \A i \in Jobs \ {j} : jobData'[i] = jobData[i]
      /\ IF row.counter = Len(jobData[j])
         THEN /\ Len(jobData'[j]) = Len(jobData[j]) + 1
              /\ jobData'[j][Len(jobData'[j])] = row
              /\ \A k \in DOMAIN jobData[j] :
                   k \in DOMAIN jobData'[j] /\ jobData'[j][k] = jobData[j][k]
              /\ Len(jobData'[j]) \in WithId(j, n)'
         ELSE jobData' = jobData
  <2>1. TableTypes /\ CounterInv /\ RowIds
    BY DEF AttemptsInv, Types
  <2>2. jobData' = IF Accepts(j, row.counter) THEN [jobData EXCEPT ![j] = Append(@, row)] ELSE jobData
    BY <1>1, <1>4
  <2> QED
    BY <1>1, <1>4, <1>5, <2>1, <2>2, InsertedRow, ZenonT(60)
<1>7. row.counter = Len(jobData[j]) <=> jobData'[j] # jobData[j]
  <2>1. Len(jobData[j]) \in Nat
    BY RowsAre DEF AttemptsInv, Types
  <2>2. Len(jobData[j]) + 1 # Len(jobData[j])
    BY <2>1, OneMore
  <2> QED
    BY <1>6, <2>2
<1>8. /\ stopped \ {j} \subseteq stopped' /\ stopped' \subseteq stopped
      /\ jobData' = jobData => stopped' = stopped
  <2>1. ASSUME jobData' = jobData, Accepts(j, writer[w].counter) PROVE FALSE
    <3>1. jobData'[j] = Append(jobData[j], row)
      BY <1>1, <2>1 DEF AttemptsInv, Types, TableTypes
    <3>2. Len(jobData'[j]) = Len(jobData[j]) + 1 /\ Len(jobData[j]) \in Nat
      BY <3>1, <1>4, RowsAre DEF AttemptsInv, Types
    <3> QED
      BY <2>1, <3>2
  <2> QED
    BY <1>1, <2>1
\* Who is excused goes on so, unless the new row is the one that was missing.
<1>9. ASSUME NEW i \in Jobs, Excused(i), i # j \/ jobData' = jobData
      PROVE  Excused(i)'
  <2>1. jobData'[i] = jobData[i]
    BY <1>6, <1>9
  <2>2. CASE i \in stopped
    BY <1>8, <1>9, <2>2 DEF Excused
  <2>3. CASE Replacing(i)
    <3> PICK v \in 1..Writers :
          writer[v].pc = "insert" /\ writer[v].item.job = i /\ writer[v].counter = Len(jobData[i])
      BY <2>3 DEF Replacing
    <3>1. v # w
      BY <1>4, <1>7, <1>9
    <3> QED
      BY <1>3, <2>1, <3>1 DEF Excused, Replacing
  <2> QED
    BY <1>9, <2>2, <2>3 DEF Excused
<1>10. Grow
  <2>1. ASSUME NEW i \in Jobs, i = j, row.counter = Len(jobData[j])
        PROVE  /\ Len(jobData[i]) <= Len(jobData'[i])
               /\ Len(jobData'[i]) = Len(jobData[i]) /\ Excused(i) => Excused(i)'
               /\ \A k \in DOMAIN jobData[i] :
                    /\ k \in DOMAIN jobData'[i]
                    /\ jobData'[i][k].id = jobData[i][k].id
                    /\ jobData'[i][k].counter = jobData[i][k].counter
    <3>1. Len(jobData[i]) \in Nat
      BY RowsAre DEF AttemptsInv, Types
    <3> PICK m \in Nat : m = Len(jobData[i])
      BY <3>1
    <3>2. m <= m + 1 /\ m + 1 # m
      BY OneMore
    <3>3. Len(jobData'[i]) = m + 1
      BY <1>6, <2>1
    <3> QED
      BY <1>6, <2>1, <3>2, <3>3
  <2>2. ASSUME NEW i \in Jobs, i # j \/ row.counter # Len(jobData[j])
        PROVE  /\ Len(jobData[i]) <= Len(jobData'[i])
               /\ Len(jobData'[i]) = Len(jobData[i]) /\ Excused(i) => Excused(i)'
               /\ \A k \in DOMAIN jobData[i] :
                    /\ k \in DOMAIN jobData'[i]
                    /\ jobData'[i][k].id = jobData[i][k].id
                    /\ jobData'[i][k].counter = jobData[i][k].counter
    <3>1. jobData'[i] = jobData[i] /\ (i # j \/ jobData' = jobData)
      BY <1>6, <2>2
    <3>2. Excused(i) => Excused(i)'
      BY <1>9, <3>1
    <3>3. Len(jobData[i]) <= Len(jobData[i])
      BY RowsAre DEF AttemptsInv, Types
    <3> QED
      BY <3>1, <3>2, <3>3
  <2> QED
    BY <1>1, <1>6, <2>1, <2>2 DEF Grow
<1>11. \A v \in 1..Writers \ {w} : Registers(v) =>
         LET i == writer[v].item.job IN Len(jobData'[i]) = Len(jobData[i]) \/ Spared(v)
  <2>1. ASSUME NEW v \in 1..Writers \ {w}, Registers(v), writer[v].item.job = j
        PROVE  Spared(v)
    <3>1. Registers(w)
      BY <1>1 DEF Registers
    <3> QED
      BY <2>1, <3>1 DEF AttemptsInv, ApartInv
  <2>2. \A v \in 1..Writers : writer[v].item.job # j =>
          jobData'[writer[v].item.job] = jobData[writer[v].item.job]
    BY <1>6, WriterIs
  <2> QED
    BY <2>1, <2>2
<1>12. NumberAt(w)'
  BY <1>2, <1>3 DEF NumberAt
<1>13. SeenAt(w)'
  <2> PICK seen : seen = writer[w].seen
    OBVIOUS
  <2>1. \A key \in DOMAIN seen :
          Fits(key, seen[key]) /\ key[1] = j /\ Keeps(key, seen[key])
    BY <1>1, WriterIs DEF SeenAt
  <2>2. \A key \in DOMAIN seen :
          Fits(key, seen[key])' /\ key[1] = j /\ Keeps(key, seen[key])'
    BY <1>10, <2>1, PendingLater DEF AttemptsInv, Types
  <2>3. writer'[w].item.job = j /\ writer'[w].seen = seen
    BY <1>2, <1>3
  <2> QED
    BY <2>2, <2>3 DEF SeenAt
<1>14. RowAt(w)'
  <2>1. writer'[w].item.job = j /\ writer'[w].item.id = n /\ writer'[w].pc = "start"
    BY <1>2, <1>3
  <2>2. missed' = missed /\ writer'[w].item = writer[w].item
    BY <1>1, <1>2, <1>3
  <2>3. Spared(w)' <=> Spared(w)
    BY <2>2 DEF Spared, AttemptOf
  <2>4. Spared(w) \/ WithId(j, n)' # {}
    BY <1>5, <1>6
  <2> QED
    BY <2>1, <2>3, <2>4 DEF RowAt
<1>15. LastInv'
  <2> SUFFICES ASSUME NEW i \in Jobs, jobData'[i] # <<>>, ~Excused(i)'
               PROVE  jobData'[i][Len(jobData'[i])].last
    BY DEF LastInv, LastAt, Excused
  <2>1. CASE i = j /\ row.counter = Len(jobData[j])
    BY <1>4, <1>6, <2>1
  <2>2. CASE i # j \/ row.counter # Len(jobData[j])
    <3>1. jobData'[i] = jobData[i] /\ (i # j \/ jobData' = jobData)
      BY <1>6, <2>2
    <3>2. ~Excused(i)
      BY <1>9, <3>1
    <3> QED
      BY <3>1, <3>2 DEF AttemptsInv, LastInv, LastAt, Excused
  <2> QED
    BY <2>1, <2>2
<1>16. ApartInv'
  <2>1. \A v \in 1..Writers : Registers(v)' => Registers(v) /\ writer'[v].item = writer[v].item
    BY <1>2, <1>3 DEF Registers
  <2> QED
    BY <1>1, <1>3, <1>8, <2>1, ApartLater DEF AttemptsInv
<1>17. LoggedInv'
  BY <1>1, <1>10, LoggedLater
<1>18. threads' \subseteq ThreadStates /\ ThreadInv'
  BY <1>1, <1>10, ThreadsStay
<1>19. /\ queue' \in [1..Writers -> Seq(Items)]
       /\ stopped' \subseteq Jobs /\ missed' \subseteq Jobs \X (0..ids)
       /\ logged' \subseteq Jobs \X (0..ids)
  BY <1>1, <1>8, QueuesAre, WriterIs
<1> QED
  BY <1>1, <1>2, <1>3, <1>6, <1>10, <1>11, <1>12, <1>13, <1>14, <1>15, <1>16, <1>17, <1>18,
     <1>19, ProcessStep

-----------------------------------------------------------------------------
(* The other steps: no row is added, and a process goes on or is killed.   *)

GoesOnOrDies(v) ==
  \/ writer'[v] = writer[v]
  \/ /\ writer'[v] = Resting
     /\ writer[v].pc = "insert" => writer[v].item.job \in stopped'

LastsStay ==
  \A j \in Jobs :
    jobData[j] # <<>> /\ jobData[j][Len(jobData[j])].last
      => jobData'[j][Len(jobData[j])].last \/ Excused(j)

\* A job is one that a process was killed at when one was killed there.
KilledAtInsert(j) ==
  \E v \in 1..Writers : /\ writer[v].pc = "insert" /\ writer[v].item.job = j
                        /\ writer'[v] = Resting

LEMMA IdsAre ==
  ASSUME HistoryAssumption, AttemptsInv
  PROVE  ids \in Nat /\ ids <= ids
BY DEF AttemptsInv, Types, ListTypes, MadeUpId, HistoryAssumption

LEMMA OtherStep ==
  ASSUME HistoryAssumption, AttemptsInv, Types', UNCHANGED setting,
         SameRows, LastsStay, ids <= ids', missed \subseteq missed', stopped \subseteq stopped',
         \A j \in stopped' \ stopped : KilledAtInsert(j),
         \A v \in 1..Writers : GoesOnOrDies(v), \A t \in threads' : ThreadAt(t),
         \A attempt \in logged' \ missed' :
           attempt \in logged \/ WithId(attempt[1], attempt[2]) # {}
  PROVE  AttemptsInv'
<1>1. /\ jobData' \in [Jobs -> Seq(JobDataRows)] /\ Types
      /\ ids \in Nat /\ ids' \in Nat
  <2>1. jobData' \in [Jobs -> Seq(JobDataRows)] /\ Types
    BY DEF Types, TableTypes, AttemptsInv
  <2>2. ids' \in MadeUpId..(MaxAttempts + MadeUpId) /\ MadeUpId \in Nat /\ MaxAttempts \in Nat
    BY DEF Types, ListTypes, MadeUpId, HistoryAssumption
  <2>3. \A n \in MadeUpId..(MaxAttempts + MadeUpId) : n \in Nat
    BY <2>2
  <2> QED
    BY <2>1, <2>2, <2>3, IdsAre
<1>2. Writers' = Writers /\ Resting.pc = "idle" /\ Resting.seen = <<>>
  BY <1>1, RestingIs DEF Writers, Types
<1>3. \A j \in Jobs : Excused(j) => Excused(j)'
  <2>1. \A v \in 1..Writers : writer[v].pc = "insert" =>
          writer'[v] = writer[v] \/ writer[v].item.job \in stopped'
    BY DEF GoesOnOrDies
  <2> QED
    BY <1>1, <1>2, <2>1, ExcusedStays
<1>4. Grow /\ CounterInv' /\ \A j \in Jobs : \A n : WithId(j, n)' = WithId(j, n)
  BY <1>1, <1>3, RowsStay DEF AttemptsInv, Types
<1>5. RowIds'
  <2>1. \A j \in Jobs : \A k \in DOMAIN jobData[j] : jobData[j][k].id \in Nat
    BY RowsAre DEF AttemptsInv, Types
  <2>2. \A j \in Jobs : \A k \in DOMAIN jobData[j] : jobData[j][k].id <= ids'
    BY <1>1, <2>1 DEF AttemptsInv, RowIds
  <2> QED
    BY <2>2 DEF RowIds, SameRows
<1>6. WritersInv'
  <2>1. ASSUME NEW v \in 1..Writers PROVE NumberAt(v)' /\ SeenAt(v)' /\ RowAt(v)'
    <3>1. CASE writer'[v] = writer[v]
      <4>1. NumberAt(v) /\ SeenAt(v) /\ RowAt(v)
        BY WriterIs
      <4>2. LET j == writer[v].item.job IN
            Registers(v) => Len(jobData'[j]) = Len(jobData[j]) \/ Spared(v)
        BY WriterIs DEF SameRows
      <4> QED
        BY <1>1, <1>4, <3>1, <4>1, <4>2, WriterLater
    <3>2. CASE writer'[v] = Resting
      BY <1>2, <3>2 DEF NumberAt, SeenAt, RowAt
    <3> QED
      BY <3>1, <3>2 DEF GoesOnOrDies
  <2> QED
    BY <1>2, <2>1 DEF WritersInv
<1>7. ThreadInv'
  <2>1. \A t \in threads' : ThreadAt(t)'
    BY <1>1, <1>4, ThreadLater DEF Types
  <2> QED
    BY <2>1 DEF ThreadInv
<1>8. LastInv'
  <2>1. TableTypes /\ LastInv
    BY DEF AttemptsInv, Types
  <2> QED
    BY <1>3, <2>1, LastKept DEF LastsStay
<1>9. ApartInv'
  <2>1. \A v \in 1..Writers : Registers(v)' => Registers(v) /\ writer'[v] = writer[v]
    BY <1>2 DEF Registers, GoesOnOrDies
  <2>2. \A v \in 1..Writers : writer'[v] = writer[v] /\ Spared(v) => Spared(v)'
    BY DEF Spared, AttemptOf
  <2>3. ASSUME NEW v \in 1..Writers, NEW w \in 1..Writers, v # w, Registers(v)', Registers(w)',
               writer'[v].item.job = writer'[w].item.job
        PROVE  Spared(w)'
    BY <2>1, <2>2, <2>3 DEF AttemptsInv, ApartInv
  <2>4. ASSUME NEW w \in 1..Writers, Registers(w)', writer'[w].item.job \in stopped'
        PROVE  Spared(w)'
    <3> PICK j : j = writer[w].item.job
      OBVIOUS
    <3>1. Registers(w) /\ writer'[w] = writer[w] /\ j \in stopped'
      BY <2>1, <2>4
    <3>2. CASE j \in stopped
      BY <2>2, <3>1, <3>2 DEF AttemptsInv, ApartInv
    <3>3. CASE j \notin stopped
      <4>1. PICK v \in 1..Writers : /\ writer[v].pc = "insert" /\ writer[v].item.job = j
                                    /\ writer'[v] = Resting
        BY <3>1, <3>3 DEF KilledAtInsert
      <4>2. Registers(v) /\ v # w
        BY <1>2, <2>4, <4>1 DEF Registers
      <4>3. Spared(w)
        BY <3>1, <4>1, <4>2 DEF AttemptsInv, ApartInv
      <4> QED
        BY <2>2, <3>1, <4>3
    <3> QED
      BY <3>2, <3>3
  <2> QED
    BY <1>2, <2>3, <2>4 DEF ApartInv
<1>10. LoggedInv'
  <2>1. ASSUME NEW attempt \in logged' \ missed'
        PROVE  attempt \in logged \/ WithId(attempt[1], attempt[2])' # {}
    <3>1. attempt[1] \in Jobs
      BY DEF Types, ListTypes
    <3> QED
      BY <1>4, <3>1
  <2> QED
    BY <1>4, <2>1, LoggedLater
<1> QED
  BY <1>4, <1>5, <1>6, <1>7, <1>8, <1>9, <1>10 DEF AttemptsInv

\* A thread asks for the energy of an attempt, or writes a row.
LEMMA ThreadStep ==
  ASSUME HistoryAssumption, AttemptsInv,
         UNCHANGED <<setting, runs, listVars, command, current, commands, queue, writer, logged,
                     ghosts>>,
         jobData' \in [Jobs -> Seq(JobDataRows)], SameRows, LastsStay,
         threads' \subseteq ThreadStates, \A t \in threads' : ThreadAt(t)
  PROVE  AttemptsInv'
<1>1. ListTypes'
  BY DEF AttemptsInv, Types, ListTypes, listVars, ghosts, Does
<1>2. TableTypes'
  BY DEF AttemptsInv, Types, TableTypes
<1>3. WriterTypes'
  <2>1. Writers' = Writers /\ Items' = Items
    BY DEF Writers, Items, listVars
  <2>2. ThreadStates' = ThreadStates /\ WriterStates' = WriterStates /\ Resting' = Resting
    BY <2>1 DEF ThreadStates, WriterStates, Resting, NoItem
  <2> QED
    BY <2>1, <2>2 DEF AttemptsInv, Types, WriterTypes
<1>4. \A v \in 1..Writers : GoesOnOrDies(v)
  BY DEF GoesOnOrDies
<1>5. ids <= ids' /\ missed' = missed /\ stopped' = stopped
  BY DEF AttemptsInv, Types, ListTypes, MadeUpId, HistoryAssumption, listVars, ghosts
<1> QED
  BY <1>1, <1>2, <1>3, <1>4, <1>5, OtherStep DEF Types

LEMMA AskEnergyStep ==
  ASSUME HistoryAssumption, AttemptsInv, UNCHANGED setting, NEW t \in threads, AskEnergy(t)
  PROVE  AttemptsInv'
<1>1. UNCHANGED <<setting, tables, runs, jobData, listVars, command, current, commands, queue,
                  writer, logged, ghosts>>
  BY DEF AskEnergy, Others, tables
<1>2. threads \subseteq ThreadStates /\ \A u \in threads : ThreadAt(u)
  BY DEF AttemptsInv, Types, WriterTypes, ThreadInv
<1>3. ASSUME NEW S \in Distributions(t)
      PROVE  LET u == [t EXCEPT !.asked = TRUE,
                                !.todo = [key \in S |-> jobData[key[1]][key[2]]]]
             IN u \in ThreadStates /\ ThreadAt(u)
  <2> DEFINE todo == [key \in S |-> jobData[key[1]][key[2]]]
             u == [t EXCEPT !.asked = TRUE, !.todo = todo]
  <2>1. ASSUME NEW key \in S
        PROVE  key \in Keys /\ Fits(key, todo[key]) /\ Keeps(key, todo[key])
    <3>1. key \in WrapperRows
      BY DEF Distributions
    <3> PICK j \in Wrapped : \E k \in LastRows(j) : key = <<j, k>>
      BY <3>1 DEF WrapperRows
    <3>2. PICK k \in LastRows(j) : key = <<j, k>>
      OBVIOUS
    <3>3. j \in Jobs /\ k \in DOMAIN jobData[j] /\ jobData[j][k].last
      BY DEF LastRows, HistoryAssumption
    <3>4. k \in Nat /\ jobData[j][k] \in JobDataRows
      BY <3>3, RowsAre DEF AttemptsInv, Types
    <3>5. todo[key] = jobData[j][k]
      BY <3>2
    <3> HIDE DEF todo
    <3> QED
      BY <3>2, <3>3, <3>4, <3>5 DEF Keys, Fits, Keeps
  <2>2. todo \in Pending
    <3>1. todo = [key \in DOMAIN todo |-> todo[key]] /\ DOMAIN todo = S
      OBVIOUS
    <3>2. \A key \in DOMAIN todo : key \in Keys /\ todo[key] \in JobDataRows
      BY <2>1, <3>1 DEF Fits
    <3> HIDE DEF todo
    <3> QED
      BY <3>1, <3>2, PendingIs
  <2>3. DOMAIN todo = S
    OBVIOUS
  <2> HIDE DEF todo
  <2>4. t \in ThreadStates /\ ThreadAt(t)
    BY <1>2
  <2>5. u \in ThreadStates /\ u.key = t.key /\ u.row = t.row /\ u.todo = todo
    BY <2>2, <2>4 DEF ThreadStates
  <2> HIDE DEF u
  <2>6. ThreadAt(u)
    BY <2>1, <2>3, <2>4, <2>5 DEF ThreadAt
  <2> QED
    BY <2>5, <2>6 DEF u, todo
<1>4. threads' \subseteq ThreadStates /\ \A u \in threads' : ThreadAt(u)
  <2>1. \A u \in threads' : u \in threads \/ \E S \in Distributions(t) :
          u = [t EXCEPT !.asked = TRUE, !.todo = [key \in S |-> jobData[key[1]][key[2]]]]
    BY DEF AskEnergy
  <2> QED
    BY <1>2, <1>3, <2>1
<1>5. jobData' \in [Jobs -> Seq(JobDataRows)] /\ SameRows /\ LastsStay
  BY <1>1, RowsAsTheyWere DEF AttemptsInv, Types, LastsStay
<1> QED
  BY <1>1, <1>4, <1>5, ThreadStep

LEMMA UpdateRowStep ==
  ASSUME HistoryAssumption, AttemptsInv, UNCHANGED setting, NEW t \in threads, UpdateRow(t)
  PROVE  AttemptsInv'
<1>1. UNCHANGED <<setting, runs, listVars, command, current, commands, queue, writer, logged,
               ghosts>>
  BY DEF UpdateRow, Others
<1>2. /\ threads \subseteq ThreadStates /\ \A u \in threads : ThreadAt(u)
      /\ t \in ThreadStates /\ ThreadAt(t)
  BY DEF AttemptsInv, Types, WriterTypes, ThreadInv
<1>3. \E key \in Keys, row \in JobDataRows :
        Fits(key, row) /\ Keeps(key, row) /\ jobData' = Updated(One(key[1], key[2], row))
  <2>1. CASE \E key \in DOMAIN t.todo : jobData' = Updated(One(key[1], key[2], t.todo[key]))
    BY <1>2, <2>1 DEF ThreadAt, Fits
  <2>2. CASE jobData' = Updated(One(t.key[1], t.key[2], t.row))
    BY <1>2, <2>2 DEF ThreadAt, Fits
  <2> QED
    BY <2>1, <2>2 DEF UpdateRow
<1>4. jobData' \in [Jobs -> Seq(JobDataRows)] /\ SameRows /\ LastsStay
  <2> PICK key \in Keys, row \in JobDataRows :
        Fits(key, row) /\ Keeps(key, row) /\ jobData' = Updated(One(key[1], key[2], row))
    BY <1>3
  <2> PICK f : f = One(key[1], key[2], row)
    OBVIOUS
  <2>1. key = <<key[1], key[2]>>
    BY DEF Keys
  <2>2. DOMAIN f = {key} /\ f[key] = row
    BY <2>1 DEF One
  <2>3. \A other \in DOMAIN f : Fits(other, f[other]) /\ Keeps(other, f[other])
    BY <2>2
  <2>4. /\ jobData' \in [Jobs -> Seq(JobDataRows)] /\ SameRows
        /\ \A j \in Jobs :
             jobData[j] # <<>> /\ jobData[j][Len(jobData[j])].last
               => \/ jobData'[j][Len(jobData[j])].last
                  \/ \E other \in DOMAIN f :
                       other[1] = j /\ other[2] = Len(jobData[j]) /\ ~f[other].last
    BY <2>3, WrittenBack DEF AttemptsInv, Types
  <2>5. ASSUME NEW j \in Jobs, jobData[j] # <<>>, jobData[j][Len(jobData[j])].last
        PROVE  jobData'[j][Len(jobData[j])].last \/ Excused(j)
    <3>1. \A other \in DOMAIN f :
            other[1] = j /\ other[2] = Len(jobData[j]) /\ ~f[other].last => Excused(j)
      BY <2>3 DEF Keeps, Excused
    <3> QED
      BY <2>4, <2>5, <3>1
  <2> QED
    BY <2>4, <2>5 DEF LastsStay
<1>5. threads' \subseteq ThreadStates /\ \A u \in threads' : ThreadAt(u)
  <2> DEFINE Without(key) ==
               [t EXCEPT !.todo = [other \in DOMAIN t.todo \ {key} |-> t.todo[other]]]
  <2>1. ASSUME NEW key \in DOMAIN t.todo
        PROVE  Without(key) \in ThreadStates /\ ThreadAt(Without(key))
    <3> DEFINE todo == [other \in DOMAIN t.todo \ {key} |-> t.todo[other]]
               u == [t EXCEPT !.todo = todo]
    <3>1. t.todo \in Pending
      BY <1>2 DEF ThreadStates
    <3>2. /\ todo = [other \in DOMAIN todo |-> todo[other]]
          /\ DOMAIN todo \subseteq DOMAIN t.todo
          /\ \A other \in DOMAIN todo : todo[other] = t.todo[other]
      OBVIOUS
    <3> HIDE DEF todo
    <3>3. todo \in Pending
      BY <3>1, <3>2, PendingIs
    <3>4. u \in ThreadStates /\ u.key = t.key /\ u.row = t.row /\ u.todo = todo
      BY <1>2, <3>3 DEF ThreadStates
    <3> HIDE DEF u
    <3>5. ThreadAt(u)
      BY <1>2, <3>2, <3>4 DEF ThreadAt
    <3> QED
      BY <3>4, <3>5 DEF u, todo
  <2>2. \A u \in threads' : u \in threads \/ \E key \in DOMAIN t.todo : u = Without(key)
    BY DEF UpdateRow
  <2> HIDE DEF Without
  <2> QED
    BY <1>2, <2>1, <2>2
<1> QED
  BY <1>1, <1>4, <1>5, ThreadStep

-----------------------------------------------------------------------------
(* The commands, the loop, and the rows of the runs.                       *)

LEMMA StatusChangeStep ==
  ASSUME HistoryAssumption, AttemptsInv, UNCHANGED setting, StatusChanges
  PROVE  AttemptsInv'
<1>1. UNCHANGED <<list, id, ids, current, processes, commands>>
  BY DEF StatusChanges, ReadChanges, ChangeStatuses, CountRun, FinishRun, InsertRun, listVars
<1>2. Types'
  BY StatusChangeTypes DEF AttemptsInv
<1>3. SameRows /\ LastsStay
  <2>1. CASE ChangeStatuses
    <3>1. /\ SameRows
          /\ \A j \in Jobs : \A k \in DOMAIN jobData[j] :
               jobData'[j][k].last = jobData[j][k].last
      BY <2>1, ChangedRows DEF AttemptsInv
    <3>2. \A j \in Jobs : jobData[j] # <<>> => Len(jobData[j]) \in DOMAIN jobData[j]
      BY DEF AttemptsInv, Types, TableTypes
    <3> QED
      BY <3>1, <3>2 DEF LastsStay
  <2>2. CASE UNCHANGED jobData
    BY <2>2, RowsAsTheyWere DEF AttemptsInv, Types, LastsStay
  <2> QED
    BY <2>1, <2>2 DEF StatusChanges, ReadChanges, CountRun, FinishRun, InsertRun, tables
<1>4. /\ \A v \in 1..Writers : GoesOnOrDies(v)
      /\ \A t \in threads' : ThreadAt(t)
      /\ ids <= ids' /\ logged' = logged /\ missed' = missed /\ stopped' = stopped
  BY <1>1 DEF GoesOnOrDies, processes, ghosts, AttemptsInv, ThreadInv, Types, ListTypes, MadeUpId,
     HistoryAssumption
<1> QED
  BY <1>2, <1>3, <1>4, OtherStep

\* A step that writes nothing in the tables.
LEMMA SameTablesStep ==
  ASSUME HistoryAssumption, AttemptsInv, Types', UNCHANGED <<setting, jobData>>,
         ids <= ids', missed \subseteq missed', stopped \subseteq stopped',
         \A j \in stopped' \ stopped : KilledAtInsert(j),
         \A v \in 1..Writers : GoesOnOrDies(v), threads' \subseteq threads,
         \A attempt \in logged' \ missed' :
           attempt \in logged \/ WithId(attempt[1], attempt[2]) # {}
  PROVE  AttemptsInv'
<1>1. SameRows
  BY RowsAsTheyWere DEF AttemptsInv, Types
<1>2. LastsStay
  BY DEF LastsStay
<1>3. \A t \in threads' : ThreadAt(t)
  BY DEF AttemptsInv, ThreadInv
<1> QED
  BY <1>1, <1>2, <1>3, OtherStep

\* The list changes, and the processes go on.
LEMMA ListStep ==
  ASSUME HistoryAssumption, AttemptsInv, Types', ids <= ids', missed \subseteq missed',
         UNCHANGED <<setting, jobData, writer, threads, stopped>>,
         \A attempt \in logged' \ missed' :
           attempt \in logged \/ WithId(attempt[1], attempt[2]) # {}
  PROVE  AttemptsInv'
<1>1. \A v \in 1..Writers : GoesOnOrDies(v)
  BY DEF GoesOnOrDies
<1> QED
  BY <1>1, SameTablesStep

LEMMA LoopStep ==
  ASSUME HistoryAssumption, AttemptsInv, UNCHANGED setting, Loop
  PROVE  AttemptsInv'
<1>1. Types'
  BY LoopTypes DEF AttemptsInv
<1>2. /\ UNCHANGED <<jobData, writer, threads, logged, stopped, missed>>
      /\ ids' = ids \/ ids' = ids + 1
  BY DEF Loop, Submit, Ends, Retry, Totals, EndRun, EndFinished, tables, listVars, processes, ghosts
<1>3. ids <= ids'
  BY <1>2, IdsAre
<1> QED
  BY <1>1, <1>2, <1>3, ListStep

\* What is flagged has its row, with its end, or is missed.
LEMMA FlaggedIsThere ==
  ASSUME HistoryAssumption, AttemptsInv, NEW S \in SUBSET Jobs, NEW T \in SUBSET S,
         NEW attempt \in Flagged(S, T) \ FlaggedTooSoon(T)
  PROVE  attempt \in logged
           \/ \E k \in WithId(attempt[1], attempt[2]) : jobData[attempt[1]][k].finish
<1> SUFFICES ASSUME attempt \notin logged
             PROVE  \E k \in WithId(attempt[1], attempt[2]) : jobData[attempt[1]][k].finish
  OBVIOUS
<1>1. PICK j \in T : attempt = <<j, WithLastIds(S)[j]>>
  BY DEF Flagged
<1>2. j \in Jobs /\ WithLastIds(S)[j] = WithLastIds(T)[j]
  BY DEF WithLastIds
<1>3. LastRows(j) # {} /\ LastRow(j).finish
  BY <1>1, <1>2 DEF FlaggedTooSoon
<1>4. /\ Newest(j, LastRows(j)) \in DOMAIN jobData[j]
      /\ WithLastIds(S)[j] = jobData[j][Newest(j, LastRows(j))].id
  BY <1>2, <1>3, LastIdsAre DEF AttemptsInv
<1>5. Newest(j, LastRows(j)) \in WithId(j, WithLastIds(S)[j])
  BY <1>4 DEF WithId
<1> QED
  BY <1>1, <1>3, <1>5 DEF LastRow

LEMMA CommandStep ==
  ASSUME HistoryAssumption, AttemptsInv, UNCHANGED setting, CommandSteps
  PROVE  AttemptsInv'
<1>1. Types' /\ ids <= ids
  BY CommandTypes, IdsAre DEF AttemptsInv
<1>2. CASE Create
  <2>1. /\ UNCHANGED <<jobData, ids, writer, threads, stopped, missed>>
        /\ logged' \subseteq logged
    BY <1>2 DEF Create, tables, ghosts
  <2> QED
    BY <1>1, <2>1, ListStep
<1>3. CASE \E j \in Jobs, status \in UserStatuses : SetStatus(j, status)
  <2> PICK j \in Jobs : \E status \in UserStatuses : SetStatus(j, status)
    BY <1>3
  <2>1. /\ UNCHANGED <<jobData, ids, writer, threads, stopped>>
        /\ logged' = Flagged({j}, {j}) /\ missed' = missed \cup FlaggedTooSoon({j})
    BY DEF SetStatus, tables
  <2>2. {j} \in SUBSET Jobs
    OBVIOUS
  <2>3. ASSUME NEW attempt \in logged' \ missed'
        PROVE  attempt \in logged \/ WithId(attempt[1], attempt[2]) # {}
    BY <2>1, <2>2, FlaggedIsThere
  <2> QED
    BY <1>1, <2>1, <2>3, ListStep
<1>4. CASE Recovery
  <2> DEFINE found == {j \in Jobs : list'[j] \in Final}
             withRow == {j \in found : LastRows(j) # {}}
  <2>1. /\ UNCHANGED <<jobData, ids, writer, threads, stopped>>
        /\ logged' = Flagged(found, withRow) /\ missed' = missed \cup FlaggedTooSoon(withRow)
    BY <1>4 DEF Recovery, tables
  <2>2. found \in SUBSET Jobs /\ withRow \in SUBSET found
    OBVIOUS
  <2> HIDE DEF found, withRow
  <2>3. ASSUME NEW attempt \in logged' \ missed'
        PROVE  attempt \in logged \/ WithId(attempt[1], attempt[2]) # {}
    BY <2>1, <2>2, FlaggedIsThere
  <2> QED
    BY <1>1, <2>1, <2>3, ListStep
<1>5. CASE \E w \in 1..Writers : Run(w)
  <2>1. UNCHANGED <<jobData, ids, logged, writer, threads, stopped, missed>>
    BY <1>5 DEF Run, tables, listVars, ghosts
  <2> QED
    BY <1>1, <2>1, ListStep
<1>6. CASE KillCommand
  <2>1. UNCHANGED <<jobData, ids, logged, missed>>
    BY <1>6 DEF KillCommand, tables, listVars, processes, ghosts
  <2>2. CASE UNCHANGED processes
    <3>1. UNCHANGED <<writer, threads, stopped>>
      BY <2>2 DEF processes, ghosts
    <3> QED
      BY <1>1, <2>1, <3>1, ListStep
  <2>3. ASSUME stopped' = IF writer[current].pc = "insert"
                          THEN stopped \cup {writer[current].item.job} ELSE stopped,
               writer' = [writer EXCEPT ![current] = Resting],
               threads' = {t \in threads : t.of # current}
        PROVE  AttemptsInv'
    <3>1. stopped \subseteq stopped' /\ threads' \subseteq threads
      BY <2>3
    <3>2. \A v \in 1..Writers : GoesOnOrDies(v)
      BY <2>3 DEF GoesOnOrDies, AttemptsInv, Types, WriterTypes
    <3>3. \A j \in stopped' \ stopped : KilledAtInsert(j)
      BY <2>3 DEF KilledAtInsert, AttemptsInv, Types, WriterTypes
    <3> QED
      BY <1>1, <2>1, <3>1, <3>2, <3>3, SameTablesStep
  <2> QED
    BY <1>6, <2>2, <2>3 DEF KillCommand
<1> QED
  BY <1>2, <1>3, <1>4, <1>5, <1>6 DEF CommandSteps

-----------------------------------------------------------------------------
(* What holds in every state.                                              *)

LEMMA InitAttempts == ASSUME HistoryAssumption, HistoryInit PROVE AttemptsInv
<1>1. ListTypes
  BY DEF HistoryInit, ListTypes, HistoryAssumption, Begin, CommandNames, Steps, Statuses, Does,
     MadeUpId
<1>2. TableTypes
  BY DEF HistoryInit, TableTypes
<1>3. Writers \in Nat \ {0} /\ Resting \in WriterStates /\ Resting.pc = "idle" /\ Resting.seen = <<>>
  BY <1>1, WritersAre, RestingIs
<1>4. \A w \in 1..Writers : writer[w] = Resting /\ queue[w] = <<>>
  BY DEF HistoryInit
<1>5. WriterTypes
  BY <1>3 DEF HistoryInit, WriterTypes
<1>6. \A j \in Jobs : jobData[j] = <<>>
  BY DEF HistoryInit
<1>7. RowIds /\ CounterInv /\ LastInv
  BY <1>6 DEF RowIds, CounterInv, LastInv, LastAt
<1>8. WritersInv /\ ApartInv
  BY <1>3, <1>4 DEF WritersInv, NumberAt, SeenAt, RowAt, ApartInv, Registers
<1>9. ThreadInv /\ LoggedInv
  BY DEF HistoryInit, ThreadInv, LoggedInv
<1> QED
  BY <1>1, <1>2, <1>5, <1>7, <1>8, <1>9 DEF AttemptsInv, Types

LEMMA NextAttempts ==
  ASSUME HistoryAssumption, AttemptsInv, [HistoryNext]_historyVars
  PROVE  AttemptsInv'
<1>1. CASE UNCHANGED historyVars
  <2>1. UNCHANGED <<setting, jobData, ids, logged, missed, stopped, writer, threads>>
    BY <1>1 DEF historyVars, ghosts
  <2>2. Types'
    BY <1>1 DEF historyVars, ghosts, AttemptsInv, Types, ListTypes, TableTypes, WriterTypes, Does,
       Items, WriterStates, ThreadStates, Writers, Resting, NoItem
  <2> QED
    BY <2>1, <2>2, IdsAre, ListStep
<1>2. CASE HistoryNext
  <2>1. UNCHANGED setting
    BY <1>2 DEF HistoryNext
  <2>2. CASE CommandSteps
    BY <2>1, <2>2, CommandStep
  <2>3. CASE StatusChanges
    BY <2>1, <2>3, StatusChangeStep
  <2>4. CASE Loop
    BY <2>1, <2>4, LoopStep
  <2>5. ASSUME NEW w \in 1..Writers, WriteStats(w) PROVE AttemptsInv'
    <3>1. CASE TakeJob(w)
      BY <2>1, <3>1, TakeJobStep
    <3>2. CASE ReadLastRows(w)
      BY <2>1, <3>2, ReadLastRowsStep
    <3>3. CASE ClearLast(w) \/ UpdateStart(w)
      BY <2>1, <3>3, ClearLastStep
    <3>4. CASE InsertRow(w)
      BY <2>1, <3>4, InsertRowStep
    <3>5. CASE WriteStart(w) \/ WriteFinish(w)
      BY <2>1, <3>5, WriteStartStep
    <3>6. CASE UpdateFinish(w)
      BY <2>1, <3>6, UpdateFinishStep
    <3> QED
      BY <2>5, <3>1, <3>2, <3>3, <3>4, <3>5, <3>6 DEF WriteStats
  <2>6. ASSUME NEW t \in threads, AskEnergy(t) PROVE AttemptsInv'
    BY <2>1, <2>6, AskEnergyStep
  <2>7. ASSUME NEW t \in threads, UpdateRow(t) PROVE AttemptsInv'
    BY <2>1, <2>7, UpdateRowStep
  <2> QED
    BY <1>2, <2>2, <2>3, <2>4, <2>5, <2>6, <2>7 DEF HistoryNext
<1> QED
  BY <1>1, <1>2

LEMMA AttemptsAreTyped == ASSUME HistoryAssumption, AttemptsInv PROVE HistoryTypeOK
<1>1. /\ setting \in Settings
      /\ list \in [Jobs -> Statuses]
      /\ id \in [Jobs -> 0..ids] /\ ids \in MadeUpId..(MaxAttempts + MadeUpId)
      /\ \A j \in Jobs : jobData[j] \in Seq(JobDataRows)
      /\ runs \in Seq(RunRows)
      /\ Does("none") => command = NoCommand
      /\ current \in 1..Writers
      /\ logged \subseteq Jobs \X (0..ids) /\ commands \in 0..MaxOrders
      /\ behind \in BOOLEAN /\ stopped \subseteq Jobs /\ missed \subseteq Jobs \X (0..ids)
  BY DEF AttemptsInv, Types, ListTypes, TableTypes, WriterTypes
<1>2. command.name \in CommandNames /\ command.step \in Steps
  BY DEF AttemptsInv, Types, ListTypes
<1>3. ASSUME NEW w \in 1..Writers
      PROVE  /\ writer[w].item.job \in Jobs
             /\ writer[w].pc = "idle" => writer[w] = Resting
             /\ \A key \in DOMAIN writer[w].seen :
                  key[2] \in DOMAIN jobData[key[1]] /\ writer[w].seen[key] \in JobDataRows
  BY WriterIs DEF AttemptsInv, Types, WriterTypes, SeenAt, Fits
<1>4. ASSUME NEW t \in threads
      PROVE  /\ t.of \in 1..Writers /\ t.row \in JobDataRows
             /\ \A key \in DOMAIN t.todo \cup {t.key} : key[2] \in DOMAIN jobData[key[1]]
  BY DEF AttemptsInv, Types, WriterTypes, ThreadStates, ThreadInv, ThreadAt, Fits
<1> QED
  BY <1>1, <1>2, <1>3, <1>4 DEF HistoryTypeOK, CommandNames, Steps

LEMMA LastIsNewest == ASSUME HistoryAssumption, AttemptsInv PROVE NewestIsLast
<1> SUFFICES ASSUME NEW j \in Jobs \ stopped, jobData[j] # <<>>, ~Writing(j)
             PROVE  /\ LastRows(j) # {}
                    /\ Newest(j, LastRows(j)) = Newest(j, DOMAIN jobData[j])
  BY DEF NewestIsLast
<1>1. TableTypes /\ CounterInv
  BY DEF AttemptsInv, Types
<1>2. Len(jobData[j]) \in DOMAIN jobData[j] /\ jobData[j][Len(jobData[j])].last
  BY DEF AttemptsInv, LastInv, LastAt, Replacing, Writing, Types, TableTypes
<1>3. Len(jobData[j]) \in LastRows(j) /\ LastRows(j) \subseteq DOMAIN jobData[j]
  BY <1>2 DEF LastRows
<1>4. Newest(j, LastRows(j)) = Len(jobData[j])
  BY <1>1, <1>3, NewestIsInsertedLast
<1>5. Newest(j, DOMAIN jobData[j]) = Len(jobData[j])
  BY <1>1, <1>2, NewestIsInsertedLast
<1> QED
  BY <1>3, <1>4, <1>5

-----------------------------------------------------------------------------
(* Where one process writes: no end is lost, and one row is the last.      *)

LEMMA SettingStays ==
  ASSUME UNCHANGED setting
  PROVE  /\ Slurm' = Slurm /\ Writers' = Writers
         /\ OneWriter' <=> OneWriter
         /\ \A j : EndsKept(j)' <=> EndsKept(j)
BY DEF Slurm, Writers, OneWriter, EndsKept

\* There, whatever process it is, it is the only one.
LEMMA OnlyProcess ==
  ASSUME NEW v \in 1..Writers, NEW w \in 1..Writers
  PROVE  /\ OneWriter => v = w
         /\ \A j : EndsKept(j) => v = w
<1>1. Writers = 1 => v = 1 /\ w = 1
  OBVIOUS
<1> QED
  BY <1>1 DEF OneWriter, EndsKept

\* A step that writes no end, and makes no row the last or another.
LEMMA StillSole ==
  ASSUME HistoryAssumption, AttemptsInv, AttemptsInv', SoleInv, UNCHANGED setting,
         SameRows, missed \subseteq missed',
         \A j \in Jobs : \A k \in DOMAIN jobData[j] :
           /\ jobData'[j][k].last = jobData[j][k].last
           /\ jobData'[j][k].finish = jobData[j][k].finish,
         \A v \in 1..Writers : writer'[v] = writer[v] \/ (EndsAt(v)' /\ OneLastAt(v)'),
         \A t \in threads' : \E u \in threads :
           /\ t.key = u.key /\ t.row = u.row
           /\ \A key \in DOMAIN t.todo : key[1] \in Wrapped,
         \A attempt \in logged' \ missed' :
           \/ attempt \in logged
           \/ EndsKept(attempt[1]) =>
                \E k \in WithId(attempt[1], attempt[2]) : Ended(<<attempt[1], k>>)
  PROVE  SoleInv'
<1>1. \A j \in Jobs : LastRows(j)' = LastRows(j) /\ \A n : WithId(j, n)' = WithId(j, n)
  BY DEF SameRows, LastRows, WithId
<1>2. \A j \in Jobs : \A k \in DOMAIN jobData[j] : Ended(<<j, k>>)' <=> Ended(<<j, k>>)
  BY DEF Ended
<1>3. /\ Slurm' = Slurm /\ Writers' = Writers /\ (OneWriter' <=> OneWriter)
      /\ \A j : EndsKept(j)' <=> EndsKept(j)
  BY SettingStays
<1>4. ThreadsInv'
  BY <1>3 DEF SoleInv, ThreadsInv
<1>5. ASSUME NEW v \in 1..Writers, writer'[v] = writer[v]
      PROVE  EndsAt(v)' /\ (OneWriter => OneLastAt(v)')
  <2>1. \A key \in DOMAIN writer[v].seen :
          key \in Keys /\ key[2] \in DOMAIN jobData[key[1]] /\ key = <<key[1], key[2]>>
    BY WriterIs DEF SeenAt, Fits, Keys
  <2>2. \A key \in DOMAIN writer[v].seen : Ended(key)' <=> Ended(key)
    BY <1>2, <2>1 DEF Keys
  <2>3. EndsAt(v)'
    BY <1>3, <1>5, <2>2 DEF SoleInv, EndsInv, EndsAt
  <2>4. OneWriter => OneLastAt(v)'
    <3> PICK j \in Jobs : j = writer[v].item.job
      BY WriterIs
    <3>1. LastRows(j)' = LastRows(j) /\ writer'[v].item.job = j
      BY <1>1, <1>5
    <3> QED
      BY <1>5, <3>1 DEF SoleInv, OneLastInv, OneLastAt
  <2> QED
    BY <2>3, <2>4
<1>6. EndsInv'
  <2>1. \A v \in 1..Writers' : EndsAt(v)'
    BY <1>3, <1>5
  <2>2. ASSUME NEW t \in threads', EndsKept(t.key[1])
        PROVE  t.row.finish /\ Ended(t.key)'
    <3>1. PICK u \in threads : t.key = u.key /\ t.row = u.row
      OBVIOUS
    <3>2. Fits(u.key, u.row)
      BY DEF AttemptsInv, ThreadInv, ThreadAt
    <3>3. u.row.finish /\ Ended(u.key)
      BY <2>2, <3>1 DEF SoleInv, EndsInv
    <3>4. u.key[1] \in Jobs /\ u.key[2] \in DOMAIN jobData[u.key[1]] /\ u.key = <<u.key[1], u.key[2]>>
      BY <3>2 DEF Fits, Keys
    <3>5. Ended(u.key)' <=> Ended(u.key)
      BY <1>2, <3>4
    <3> QED
      BY <3>1, <3>3, <3>5
  <2>3. ASSUME NEW attempt \in logged' \ missed', EndsKept(attempt[1])
        PROVE  \E k \in WithId(attempt[1], attempt[2])' : Ended(<<attempt[1], k>>)'
    <3>1. PICK k \in WithId(attempt[1], attempt[2]) : Ended(<<attempt[1], k>>)
      BY <2>3 DEF SoleInv, EndsInv
    <3>2. attempt[1] \in Jobs
      BY DEF AttemptsInv, Types, ListTypes
    <3>3. k \in DOMAIN jobData[attempt[1]]
      BY DEF WithId
    <3> QED
      BY <1>1, <1>2, <3>1, <3>2, <3>3
  <2> QED
    BY <1>3, <2>1, <2>2, <2>3 DEF EndsInv
<1>7. OneLastInv'
  BY <1>1, <1>3, <1>5 DEF SoleInv, OneLastInv
<1> QED
  BY <1>4, <1>6, <1>7 DEF SoleInv

\* A step of a process that writes nothing in the tables.
LEMMA StillSoleProcess ==
  ASSUME HistoryAssumption, AttemptsInv, AttemptsInv', SoleInv, UNCHANGED <<setting, jobData>>,
         missed \subseteq missed', UNCHANGED <<threads, logged>>,
         NEW w \in 1..Writers, NEW s, writer' = [writer EXCEPT ![w] = s],
         EndsAt(w)', OneLastAt(w)'
  PROVE  SoleInv'
<1>1. SameRows
  BY RowsAsTheyWere DEF AttemptsInv, Types
<1>2. \A v \in 1..Writers : writer'[v] = writer[v] \/ (EndsAt(v)' /\ OneLastAt(v)')
  BY DEF AttemptsInv, Types, WriterTypes
<1>3. \A t \in threads : \A key \in DOMAIN t.todo : key[1] \in Wrapped
  BY DEF SoleInv, ThreadsInv
<1> QED
  BY <1>1, <1>2, <1>3, StillSole

LEMMA TakeJobSole ==
  ASSUME HistoryAssumption, AttemptsInv, AttemptsInv', SoleInv, UNCHANGED setting,
         NEW w \in 1..Writers, TakeJob(w)
  PROVE  SoleInv'
<1>1. writer[w] \in WriterStates /\ writer[w] = Resting /\ Resting.seen = <<>>
  BY WriterIs, RestingIs DEF TakeJob, Writes, AttemptsInv, Types, WriterTypes
<1> DEFINE s == [writer[w] EXCEPT !.pc = "submit", !.item = Head(queue[w])]
<1>2. s.seen = <<>> /\ s.pc = "submit"
  BY <1>1 DEF WriterStates
<1>3. writer' = [writer EXCEPT ![w] = s] /\ writer'[w] = s
  BY DEF TakeJob, AttemptsInv, Types, WriterTypes
<1> HIDE DEF s
<1>4. EndsAt(w)' /\ OneLastAt(w)'
  BY <1>2, <1>3 DEF EndsAt, OneLastAt
<1>5. UNCHANGED <<jobData, missed, threads, logged>>
  BY DEF TakeJob, tables, ghosts
<1> QED
  BY <1>3, <1>4, <1>5, StillSoleProcess

LEMMA ReadLastRowsSole ==
  ASSUME HistoryAssumption, AttemptsInv, AttemptsInv', SoleInv, UNCHANGED setting,
         NEW w \in 1..Writers, ReadLastRows(w)
  PROVE  SoleInv'
<1> DEFINE j == writer[w].item.job
           zeroed == [key \in {<<j, k>> : k \in FoundLast(j)} |->
                        [jobData[j][key[2]] EXCEPT !.last = FALSE]]
<1>1. UNCHANGED <<jobData, threads, logged>> /\ missed' = missed \cup Unregistered(w)
  BY DEF ReadLastRows, tables
<1>2. writer[w] \in WriterStates /\ writer[w].pc = "submit" /\ j \in Jobs
  BY WriterIs DEF ReadLastRows, Writes
<1>3. \A i : EndsKept(i)' <=> EndsKept(i)
  BY SettingStays
<1>4. CASE runs = <<>>
  <2> DEFINE s == [writer[w] EXCEPT !.pc = "start"]
  <2>1. s.pc = "start" /\ s.seen = writer[w].seen
    BY <1>2 DEF WriterStates
  <2>2. writer' = [writer EXCEPT ![w] = s] /\ writer'[w] = s
    BY <1>4 DEF ReadLastRows, Moves, AttemptsInv, Types, WriterTypes
  <2> HIDE DEF s
  <2>3. EndsAt(w)
    BY DEF SoleInv, EndsInv
  <2>4. EndsAt(w)' /\ OneLastAt(w)'
    BY <1>1, <1>3, <2>1, <2>2, <2>3 DEF EndsAt, Ended, OneLastAt
  <2> QED
    BY <1>1, <2>2, <2>4, StillSoleProcess
<1>5. CASE runs # <<>>
  <2> DEFINE s == [writer[w] EXCEPT !.pc = "clear", !.seen = zeroed, !.counter = NextCounter(j)]
  <2>1. /\ \A k \in FoundLast(j) :
             /\ <<j, k>> \in DOMAIN zeroed
             /\ zeroed[<<j, k>>] = [jobData[j][k] EXCEPT !.last = FALSE]
        /\ \A key \in DOMAIN zeroed : \E k \in FoundLast(j) : key = <<j, k>>
    OBVIOUS
  <2> HIDE DEF zeroed
  <2>2. s.pc = "clear" /\ s.seen = zeroed /\ s.item.job = j
    BY <1>2 DEF WriterStates
  <2>3. writer' = [writer EXCEPT ![w] = s] /\ writer'[w] = s
    BY <1>5 DEF ReadLastRows, zeroed, AttemptsInv, Types, WriterTypes
  <2> HIDE DEF s
  <2>4. ASSUME NEW key \in DOMAIN zeroed
        PROVE  ~zeroed[key].last /\ (Ended(key) => zeroed[key].finish)
    <3>1. PICK k \in FoundLast(j) : key = <<j, k>>
      BY <2>1
    <3>2. k \in DOMAIN jobData[j]
      BY DEF FoundLast, LastRows
    <3>3. jobData[j][k] \in JobDataRows
      BY <1>2, <3>2, RowsAre DEF AttemptsInv, Types
    <3>4. zeroed[key] = [jobData[j][k] EXCEPT !.last = FALSE]
      BY <2>1, <3>1
    <3> QED
      BY <3>1, <3>3, <3>4 DEF JobDataRows, Ended
  <2>5. EndsAt(w)'
    BY <1>1, <2>2, <2>3, <2>4 DEF EndsAt, Ended
  <2>6. OneLastAt(w)'
    <3> PICK i : i = j
      OBVIOUS
    <3>1. LastRows(i)' = LastRows(i) /\ LastRows(i) \subseteq FoundLast(i)
      BY <1>1 DEF LastRows, FoundLast
    <3>2. writer'[w].item.job = i /\ writer'[w].pc = "clear" /\ writer'[w].seen = zeroed
      BY <2>2, <2>3
    <3>3. \A k \in LastRows(i)' : <<i, k>> \in DOMAIN zeroed
      BY <2>1, <3>1
    <3> HIDE DEF j
    <3> QED
      BY <2>4, <3>2, <3>3 DEF OneLastAt
  <2> QED
    BY <1>1, <2>3, <2>5, <2>6, StillSoleProcess
<1> QED
  BY <1>4, <1>5

\* The row that is read has the end it had, and (write_finish_time) an end.
LEMMA WriteStartSole ==
  ASSUME HistoryAssumption, AttemptsInv, AttemptsInv', SoleInv, UNCHANGED setting,
         NEW w \in 1..Writers, WriteStart(w) \/ WriteFinish(w)
  PROVE  SoleInv'
<1> DEFINE item == writer[w].item
           S == WithId(item.job, item.id)
           k == Newest(item.job, S)
           old == [jobData[item.job][k] EXCEPT !.status = item.status]
           row == IF WriteFinish(w) THEN [old EXCEPT !.finish = TRUE] ELSE [old EXCEPT !.start = TRUE]
           f == IF S = {} THEN <<>> ELSE One(item.job, k, row)
           point == IF WriteFinish(w) THEN "finished" ELSE "started"
           s == [writer[w] EXCEPT !.pc = point, !.seen = f]
<1>1. /\ UNCHANGED <<jobData, threads, logged, missed>>
      /\ Sees(w, point, f)
  BY DEF WriteStart, WriteFinish, tables, ghosts, RowOf
<1>2. writer[w] \in WriterStates /\ item.job \in Jobs /\ item.status \in Statuses
  BY WriterIs
<1>3. ASSUME NEW key \in DOMAIN f
      PROVE  /\ key[1] = item.job /\ key[2] \in DOMAIN jobData[item.job]
             /\ f[key].last = jobData[item.job][key[2]].last
             /\ Ended(key) => f[key].finish
             /\ point = "finished" => f[key].finish
  <2>1. S # {}
    BY <1>3
  <2>2. k \in DOMAIN jobData[item.job]
    <3>1. S \subseteq DOMAIN jobData[item.job]
      BY DEF WithId
    <3> QED
      BY <1>2, <2>1, <3>1, NewestIsThere DEF AttemptsInv, Types
  <2>3. jobData[item.job][k] \in JobDataRows
    BY <1>2, <2>2, RowsAre DEF AttemptsInv, Types
  <2> HIDE DEF k, item
  <2>4. key = <<item.job, k>> /\ f[key] = row
    BY <1>3, <2>1 DEF One
  <2>5. /\ row.last = jobData[item.job][k].last
        /\ jobData[item.job][k].finish => row.finish
        /\ point = "finished" => row.finish
    <3> PICK was : was = jobData[item.job][k]
      OBVIOUS
    <3>1. CASE WriteFinish(w)
      <4>1. row = [[was EXCEPT !.status = item.status] EXCEPT !.finish = TRUE]
        BY <3>1
      <4> HIDE DEF row
      <4> QED
        BY <2>3, <4>1 DEF JobDataRows
    <3>2. CASE ~WriteFinish(w)
      <4>1. row = [[was EXCEPT !.status = item.status] EXCEPT !.start = TRUE]
            /\ point = "started"
        BY <3>2
      <4> HIDE DEF row
      <4> QED
        BY <2>3, <4>1 DEF JobDataRows
    <3> QED
      BY <3>1, <3>2
  <2> HIDE DEF row, f
  <2> QED
    BY <2>2, <2>4, <2>5 DEF Ended
<1> HIDE DEF f, item
<1>4. s.pc = point /\ s.seen = f /\ s.item = writer[w].item /\ point \in {"started", "finished"}
  BY <1>2 DEF WriterStates
<1>5. writer' = [writer EXCEPT ![w] = s] /\ writer'[w] = s
  BY <1>1 DEF Sees, AttemptsInv, Types, WriterTypes
<1> HIDE DEF s, point
<1>6. EndsAt(w)'
  BY <1>1, <1>3, <1>4, <1>5 DEF EndsAt, Ended
<1>7. OneLastAt(w)'
  BY <1>1, <1>3, <1>4, <1>5 DEF OneLastAt, LastRows, item
<1> QED
  BY <1>1, <1>5, <1>6, <1>7, StillSoleProcess

\* Rows that were read are written back, and the attempt is taken for logged.
LEMMA WriteBackSole ==
  ASSUME HistoryAssumption, AttemptsInv, AttemptsInv', SoleInv, UNCHANGED <<setting, ghosts>>,
         NEW w \in 1..Writers, writer[w].pc \in {"clear", "started", "finished"},
         jobData' = Updated(writer[w].seen),
         \A v \in 1..Writers \ {w} : writer'[v] = writer[v],
         writer'[w].seen = <<>>, writer'[w].pc \in {"insert", "finish", "idle", "submit"},
         writer'[w].pc = "insert" =>
           writer[w].pc = "clear" /\ writer'[w].item.job = writer[w].item.job,
         \A t \in threads' :
           \/ t \in threads
           \/ /\ writer[w].pc = "finished" /\ Slurm /\ DOMAIN t.todo = {}
              /\ t.key \in DOMAIN writer[w].seen /\ t.row = writer[w].seen[t.key],
         logged' = logged
           \/ (writer[w].pc = "finished" /\ logged' = logged \cup {AttemptOf(w)})
  PROVE  SoleInv'
<1> PICK i \in Jobs, n \in 0..ids : i = writer[w].item.job /\ n = writer[w].item.id
  BY WriterIs
<1> PICK f : f = writer[w].seen
  OBVIOUS
<1>1. \A key \in DOMAIN f :
        /\ Fits(key, f[key]) /\ key[1] = i /\ key[1] \in Jobs /\ key = <<key[1], key[2]>>
        /\ key[2] \in DOMAIN jobData[key[1]]
  BY WriterIs DEF SeenAt, Fits, Keys
<1>2. /\ SameRows
      /\ \A j \in Jobs : \A k \in DOMAIN jobData[j] :
           jobData'[j][k] = IF <<j, k>> \in DOMAIN f THEN f[<<j, k>>] ELSE jobData[j][k]
  BY <1>1, UpdatedRows DEF AttemptsInv, Types
<1>3. /\ Slurm' = Slurm /\ Writers' = Writers /\ (OneWriter' <=> OneWriter)
      /\ \A j : EndsKept(j)' <=> EndsKept(j)
  BY SettingStays
<1>4. EndsAt(w) /\ missed' = missed
  BY DEF SoleInv, EndsInv, ghosts
<1>5. \A j \in Jobs : \A k \in DOMAIN jobData[j] :
        EndsKept(j) /\ Ended(<<j, k>>) => Ended(<<j, k>>)'
  <2>1. ASSUME NEW j \in Jobs, NEW k \in DOMAIN jobData[j], EndsKept(j), Ended(<<j, k>>)
        PROVE  jobData'[j][k].finish
    <3> PICK key : key = <<j, k>>
      OBVIOUS
    <3>1. CASE key \in DOMAIN f
      BY <1>2, <1>4, <2>1, <3>1 DEF EndsAt
    <3>2. CASE key \notin DOMAIN f
      BY <1>2, <2>1, <3>2 DEF Ended
    <3> QED
      BY <3>1, <3>2
  <2> QED
    BY <2>1 DEF Ended
<1>6. \A j \in Jobs : \A m : WithId(j, m)' = WithId(j, m)
  BY <1>2 DEF SameRows, WithId
<1>7. ThreadsInv'
  BY <1>3 DEF SoleInv, ThreadsInv
<1>8. EndsInv'
  <2>1. ASSUME NEW v \in 1..Writers PROVE EndsAt(v)'
    <3>1. CASE v = w
      BY <3>1 DEF EndsAt
    <3>2. CASE v # w
      <4>1. \A j : ~EndsKept(j)
        BY <3>2, OnlyProcess
      <4> QED
        BY <1>3, <4>1 DEF EndsAt
    <3> QED
      BY <3>1, <3>2
  <2>2. ASSUME NEW t \in threads', EndsKept(t.key[1])
        PROVE  t.row.finish /\ Ended(t.key)'
    <3>1. CASE t \in threads
      <4>1. Fits(t.key, t.row) /\ t.row.finish /\ Ended(t.key)
        BY <2>2, <3>1 DEF AttemptsInv, ThreadInv, ThreadAt, SoleInv, EndsInv
      <4>2. t.key[1] \in Jobs /\ t.key[2] \in DOMAIN jobData[t.key[1]] /\ t.key = <<t.key[1], t.key[2]>>
        BY <4>1 DEF Fits, Keys
      <4> QED
        BY <1>5, <2>2, <4>1, <4>2
    <3>2. CASE writer[w].pc = "finished" /\ t.key \in DOMAIN f /\ t.row = f[t.key]
      <4> PICK key \in DOMAIN f : key = t.key
        BY <3>2
      <4>1. f[key].finish
        BY <1>4, <2>2, <3>2 DEF EndsAt
      <4>2. jobData'[key[1]][key[2]] = f[key]
        BY <1>1, <1>2
      <4> QED
        BY <3>2, <4>1, <4>2 DEF Ended
    <3> QED
      BY <3>1, <3>2
  <2>3. ASSUME NEW attempt \in logged' \ missed', EndsKept(attempt[1])
        PROVE  \E k \in WithId(attempt[1], attempt[2])' : Ended(<<attempt[1], k>>)'
    <3>1. CASE attempt \in logged
      <4>1. PICK k \in WithId(attempt[1], attempt[2]) : Ended(<<attempt[1], k>>)
        BY <1>4, <2>3, <3>1 DEF SoleInv, EndsInv
      <4>2. attempt[1] \in Jobs /\ k \in DOMAIN jobData[attempt[1]]
        BY <3>1 DEF AttemptsInv, Types, ListTypes, WithId
      <4> QED
        BY <1>5, <1>6, <2>3, <4>1, <4>2
    <3>2. CASE writer[w].pc = "finished" /\ attempt = AttemptOf(w)
      <4>1. attempt[1] = i /\ attempt[2] = n /\ ~Spared(w)
        BY <1>4, <3>2 DEF AttemptOf, Spared
      <4>2. PICK key \in DOMAIN f : f[key].id = n
        BY <3>2, <4>1, WriterIs DEF RowAt
      <4>3. key[1] = i /\ key[2] \in WithId(i, n)
        BY <1>1, <4>2 DEF Fits, WithId
      <4>4. f[key].finish
        BY <1>4, <2>3, <3>2, <4>1, <4>3 DEF EndsAt
      <4>5. jobData'[i][key[2]] = f[key]
        BY <1>1, <1>2, <4>3
      <4>6. Ended(<<i, key[2]>>)'
        BY <4>4, <4>5 DEF Ended
      <4> QED
        BY <1>6, <4>1, <4>3, <4>6
    <3> QED
      BY <3>1, <3>2
  <2> QED
    BY <1>3, <2>1, <2>2, <2>3 DEF EndsInv
<1>9. OneLastInv'
  <2> SUFFICES ASSUME OneWriter
               PROVE  /\ \A j \in Jobs : \A k, l \in LastRows(j)' : k = l
                      /\ OneLastAt(w)'
    BY <1>3, OnlyProcess DEF OneLastInv
  <2>1. /\ \A j \in Jobs : \A k, l \in LastRows(j) : k = l
        /\ OneLastAt(w)
    BY DEF SoleInv, OneLastInv
  <2>2. ASSUME NEW j \in Jobs PROVE LastRows(j)' \subseteq LastRows(j)
    <3> SUFFICES ASSUME NEW k \in LastRows(j)'
                 PROVE  k \in LastRows(j)
      OBVIOUS
    <3>1. k \in DOMAIN jobData[j] /\ jobData'[j][k].last
      BY <1>2 DEF SameRows, LastRows
    <3>2. CASE <<j, k>> \in DOMAIN f
      <4> PICK key \in DOMAIN f : key = <<j, k>>
        BY <3>2
      <4>1. f[key].last /\ j = i
        BY <1>1, <1>2, <3>1
      <4> QED
        BY <2>1, <4>1 DEF OneLastAt
    <3>3. CASE <<j, k>> \notin DOMAIN f
      BY <1>2, <3>1, <3>3 DEF LastRows
    <3> QED
      BY <3>2, <3>3
  <2>3. ASSUME writer'[w].pc = "insert"
        PROVE  LastRows(i)' = {}
    <3> SUFFICES ASSUME NEW k \in LastRows(i)'
                 PROVE  FALSE
      OBVIOUS
    <3>1. k \in LastRows(i) /\ jobData'[i][k].last /\ k \in DOMAIN jobData[i]
      BY <2>2 DEF LastRows
    <3> PICK key : key = <<i, k>>
      OBVIOUS
    <3>2. key \in DOMAIN f /\ ~f[key].last
      BY <2>1, <2>3, <3>1 DEF OneLastAt
    <3> QED
      BY <1>2, <3>1, <3>2
  <2>4. OneLastAt(w)'
    BY <2>3 DEF OneLastAt
  <2> QED
    BY <2>1, <2>2, <2>4
<1> QED
  BY <1>7, <1>8, <1>9 DEF SoleInv

LEMMA InsertRowSole ==
  ASSUME HistoryAssumption, AttemptsInv, AttemptsInv', SoleInv, UNCHANGED setting,
         NEW w \in 1..Writers, InsertRow(w)
  PROVE  SoleInv'
<1> PICK i \in Jobs, n \in 0..ids : i = writer[w].item.job /\ n = writer[w].item.id
  BY WriterIs
<1> PICK row : row = NewRow(w)
  OBVIOUS
<1>1. /\ UNCHANGED <<threads, logged, missed>> /\ ids' = ids /\ writer[w].pc = "insert"
      /\ jobData' = IF Accepts(i, writer[w].counter)
                    THEN [jobData EXCEPT ![i] = Append(@, row)] ELSE jobData
      /\ writer' = [writer EXCEPT ![w].pc = "start"]
  BY DEF InsertRow, Writes, Moves, Others, listVars
<1>2. /\ \A v \in 1..Writers \ {w} : writer'[v] = writer[v]
      /\ writer'[w].pc = "start" /\ writer'[w].item = writer[w].item
      /\ writer'[w].seen = writer[w].seen
  BY <1>1, WriterIs DEF AttemptsInv, Types, WriterTypes, WriterStates
<1>3. /\ row \in JobDataRows /\ row.id = n /\ row.counter = writer[w].counter /\ ids \in Nat
  <2>1. writer[w].counter \in Nat /\ writer[w].item.status \in Statuses /\ ids \in Nat
    BY WriterIs DEF WriterStates
  <2> QED
    BY <2>1 DEF NewRow, JobDataRows
<1>4. /\ \A j \in Jobs \ {i} : jobData'[j] = jobData[j]
      /\ IF row.counter = Len(jobData[i])
         THEN /\ \A k \in DOMAIN jobData[i] :
                   k \in DOMAIN jobData'[i] /\ jobData'[i][k] = jobData[i][k]
              /\ jobData'[i] = Append(jobData[i], row)
         ELSE jobData' = jobData
  <2>1. TableTypes /\ CounterInv /\ RowIds
    BY DEF AttemptsInv, Types
  <2>2. row.counter <= Len(jobData[i])
    BY <1>1, <1>3, WriterIs DEF NumberAt
  <2>3. jobData' = IF Accepts(i, row.counter) THEN [jobData EXCEPT ![i] = Append(@, row)] ELSE jobData
    BY <1>1, <1>3
  <2>4. row.id <= ids
    BY <1>3
  <2>5. /\ \A j \in Jobs \ {i} : jobData'[j] = jobData[j]
        /\ IF row.counter = Len(jobData[i])
           THEN /\ Len(jobData'[i]) = Len(jobData[i]) + 1
                /\ \A k \in DOMAIN jobData[i] :
                     k \in DOMAIN jobData'[i] /\ jobData'[i][k] = jobData[i][k]
           ELSE jobData' = jobData
    BY <1>1, <1>3, <2>1, <2>2, <2>3, <2>4, InsertedRow, ZenonT(60)
  <2>6. jobData' # jobData => jobData'[i] = Append(jobData[i], row)
    BY <2>3 DEF AttemptsInv, Types, TableTypes
  <2>7. Len(jobData[i]) + 1 # Len(jobData[i])
    BY RowsAre, OneMore DEF AttemptsInv, Types
  <2> QED
    BY <2>5, <2>6, <2>7
<1>5. \A j \in Jobs : \A k \in DOMAIN jobData[j] :
        k \in DOMAIN jobData'[j] /\ jobData'[j][k] = jobData[j][k]
  BY <1>4
<1>6. /\ Slurm' = Slurm /\ Writers' = Writers /\ (OneWriter' <=> OneWriter)
      /\ \A j : EndsKept(j)' <=> EndsKept(j)
  BY SettingStays
<1>7. \A j \in Jobs : \A k \in DOMAIN jobData[j] : Ended(<<j, k>>)' <=> Ended(<<j, k>>)
  BY <1>5 DEF Ended
<1>8. EndsInv'
  <2>1. ASSUME NEW v \in 1..Writers PROVE EndsAt(v)'
    <3>1. writer'[v].seen = writer[v].seen /\ (writer'[v].pc = "finished" => writer[v].pc = "finished")
      BY <1>2
    <3>2. \A key \in DOMAIN writer[v].seen :
            key[1] \in Jobs /\ key[2] \in DOMAIN jobData[key[1]] /\ key = <<key[1], key[2]>>
      BY WriterIs DEF SeenAt, Fits, Keys
    <3>3. \A key \in DOMAIN writer[v].seen : Ended(key)' <=> Ended(key)
      <4>1. ASSUME NEW j \in Jobs, NEW k \in DOMAIN jobData[j], NEW key, key = <<j, k>>
            PROVE  Ended(key)' <=> Ended(key)
        BY <1>5, <4>1 DEF Ended
      <4> QED
        BY <3>2, <4>1
    <3> QED
      BY <1>6, <3>1, <3>3 DEF SoleInv, EndsInv, EndsAt
  <2>2. ASSUME NEW t \in threads', EndsKept(t.key[1])
        PROVE  t.row.finish /\ Ended(t.key)'
    <3>1. t \in threads
      BY <1>1
    <3>2. Fits(t.key, t.row) /\ t.row.finish /\ Ended(t.key)
      BY <2>2, <3>1 DEF AttemptsInv, ThreadInv, ThreadAt, SoleInv, EndsInv
    <3>3. t.key[1] \in Jobs /\ t.key[2] \in DOMAIN jobData[t.key[1]] /\ t.key = <<t.key[1], t.key[2]>>
      BY <3>2 DEF Fits, Keys
    <3> QED
      BY <1>7, <3>2, <3>3
  <2>3. ASSUME NEW attempt \in logged' \ missed', EndsKept(attempt[1])
        PROVE  \E k \in WithId(attempt[1], attempt[2])' : Ended(<<attempt[1], k>>)'
    <3>1. attempt \in logged \ missed
      BY <1>1
    <3>2. PICK k \in WithId(attempt[1], attempt[2]) : Ended(<<attempt[1], k>>)
      BY <2>3, <3>1 DEF SoleInv, EndsInv
    <3>3. attempt[1] \in Jobs /\ k \in DOMAIN jobData[attempt[1]]
      BY <3>1 DEF AttemptsInv, Types, ListTypes, WithId
    <3>4. k \in WithId(attempt[1], attempt[2])'
      BY <1>5, <3>3 DEF WithId
    <3> QED
      BY <1>7, <3>2, <3>3, <3>4
  <2> QED
    BY <1>6, <2>1, <2>2, <2>3 DEF EndsInv
<1>9. OneLastInv'
  <2> SUFFICES ASSUME OneWriter
               PROVE  \A j \in Jobs : \A k, l \in LastRows(j)' : k = l
    <3>1. OneLastAt(w)'
      BY <1>2 DEF OneLastAt
    <3> QED
      BY <1>6, <3>1, OnlyProcess DEF OneLastInv
  <2>1. /\ \A j \in Jobs : \A k, l \in LastRows(j) : k = l
        /\ LastRows(i) = {}
    BY <1>1 DEF SoleInv, OneLastInv, OneLastAt
  <2>2. ASSUME NEW k \in LastRows(i)' PROVE k = Len(jobData[i]) + 1
    <3>1. CASE jobData' = jobData
      BY <2>1, <2>2, <3>1 DEF LastRows
    <3>2. CASE jobData'[i] = Append(jobData[i], row)
      <4>1. jobData[i] \in Seq(JobDataRows) /\ Len(jobData[i]) \in Nat
            /\ DOMAIN jobData[i] = 1..Len(jobData[i])
        BY RowsAre DEF AttemptsInv, Types
      <4>2. k \in 1..(Len(jobData[i]) + 1)
        BY <1>3, <2>2, <3>2, <4>1 DEF LastRows
      <4>3. k \notin DOMAIN jobData[i]
        <5>1. ASSUME k \in DOMAIN jobData[i] PROVE k \in LastRows(i)
          BY <1>5, <2>2, <5>1 DEF LastRows
        <5> QED
          BY <2>1, <5>1
      <4> QED
        BY <4>1, <4>2, <4>3
    <3> QED
      BY <1>4, <3>1, <3>2
  <2>3. \A j \in Jobs \ {i} : LastRows(j)' = LastRows(j)
    BY <1>4 DEF LastRows
  <2> QED
    BY <2>1, <2>2, <2>3
<1>10. ThreadsInv'
  BY <1>1, <1>6 DEF SoleInv, ThreadsInv
<1> QED
  BY <1>8, <1>9, <1>10 DEF SoleInv

\* A thread that asks takes rows of the wrapper, and keeps its own.
LEMMA AskEnergySole ==
  ASSUME HistoryAssumption, AttemptsInv, AttemptsInv', SoleInv, UNCHANGED setting,
         NEW t \in threads, AskEnergy(t)
  PROVE  SoleInv'
<1>1. UNCHANGED <<jobData, writer, logged, missed>>
  BY DEF AskEnergy, tables, ghosts
<1>2. ASSUME NEW u \in threads'
      PROVE  \E old \in threads : /\ u.key = old.key /\ u.row = old.row
                                  /\ \A key \in DOMAIN u.todo : key[1] \in Wrapped
  <2>1. CASE u \in threads
    BY <2>1 DEF SoleInv, ThreadsInv
  <2>2. ASSUME NEW S \in Distributions(t),
               u = [t EXCEPT !.asked = TRUE, !.todo = [key \in S |-> jobData[key[1]][key[2]]]]
        PROVE  u.key = t.key /\ u.row = t.row /\ \A key \in DOMAIN u.todo : key[1] \in Wrapped
    <3>1. t \in ThreadStates
      BY DEF AttemptsInv, Types, WriterTypes
    <3>2. u.key = t.key /\ u.row = t.row /\ DOMAIN u.todo = S
      BY <2>2, <3>1 DEF ThreadStates
    <3>3. \A key \in S : key[1] \in Wrapped
      BY DEF Distributions, WrapperRows
    <3> QED
      BY <3>2, <3>3
  <2> QED
    BY <2>1, <2>2 DEF AskEnergy
<1>3. SameRows
  BY <1>1, RowsAsTheyWere DEF AttemptsInv, Types
<1> QED
  BY <1>1, <1>2, <1>3, StillSole

\* A thread writes the row of its job, with its end, and those of its wrapper.
LEMMA UpdateRowSole ==
  ASSUME HistoryAssumption, AttemptsInv, AttemptsInv', SoleInv, UNCHANGED setting,
         NEW t \in threads, UpdateRow(t)
  PROVE  SoleInv'
<1>1. UNCHANGED <<writer, logged, missed>>
  BY DEF UpdateRow, ghosts
<1>2. ThreadAt(t) /\ t \in ThreadStates /\ Slurm /\ ~OneWriter
      /\ \A key \in DOMAIN t.todo : key[1] \in Wrapped
  BY DEF AttemptsInv, ThreadInv, Types, WriterTypes, SoleInv, ThreadsInv, OneWriter
<1>3. PICK key \in Keys, row \in JobDataRows :
        /\ jobData' = Updated(One(key[1], key[2], row)) /\ Fits(key, row)
        /\ EndsKept(key[1]) => row.finish /\ Ended(key)
  <2>1. ASSUME NEW key \in DOMAIN t.todo, jobData' = Updated(One(key[1], key[2], t.todo[key]))
        PROVE  Fits(key, t.todo[key]) /\ key \in Keys /\ t.todo[key] \in JobDataRows
               /\ ~EndsKept(key[1])
    BY <1>2 DEF ThreadAt, Fits, EndsKept
  <2>2. Fits(t.key, t.row) /\ t.key \in Keys /\ t.row \in JobDataRows
        /\ (EndsKept(t.key[1]) => t.row.finish /\ Ended(t.key))
    BY <1>2 DEF ThreadAt, Fits, SoleInv, EndsInv
  <2> QED
    BY <2>1, <2>2 DEF UpdateRow
<1>4. /\ SameRows
      /\ \A j \in Jobs : \A k \in DOMAIN jobData[j] :
           jobData'[j][k] = IF <<j, k>> = key THEN row ELSE jobData[j][k]
  <2> PICK f : f = One(key[1], key[2], row)
    OBVIOUS
  <2>1. key = <<key[1], key[2]>>
    BY DEF Keys
  <2>2. DOMAIN f = {key} /\ f[key] = row
    BY <2>1 DEF One
  <2>3. jobData' = Updated(f) /\ \A other \in DOMAIN f : Fits(other, f[other])
    BY <1>3, <2>2
  <2>4. /\ SameRows
        /\ \A j \in Jobs : \A k \in DOMAIN jobData[j] :
             jobData'[j][k] = IF <<j, k>> \in DOMAIN f THEN f[<<j, k>>] ELSE jobData[j][k]
    BY <2>3, UpdatedRows DEF AttemptsInv, Types
  <2> QED
    BY <2>2, <2>4
<1>5. /\ Slurm' = Slurm /\ Writers' = Writers /\ (OneWriter' <=> OneWriter)
      /\ \A j : EndsKept(j)' <=> EndsKept(j)
  BY SettingStays
<1>6. ASSUME NEW j \in Jobs, NEW k \in DOMAIN jobData[j], EndsKept(j)
      PROVE  Ended(<<j, k>>)' <=> Ended(<<j, k>>)
  <2> PICK other : other = <<j, k>>
    OBVIOUS
  <2>1. CASE other = key
    <3>1. row.finish /\ Ended(key)
      BY <1>3, <1>6, <2>1
    <3>2. jobData'[j][k] = row
      BY <1>4, <2>1
    <3> QED
      BY <2>1, <3>1, <3>2 DEF Ended
  <2>2. CASE other # key
    <3>1. jobData'[j][k] = jobData[j][k]
      BY <1>4, <2>2
    <3> QED
      BY <3>1 DEF Ended
  <2> QED
    BY <2>1, <2>2
<1>7. ASSUME NEW u \in threads'
      PROVE  \E old \in threads : /\ u.key = old.key /\ u.row = old.row
                                  /\ \A other \in DOMAIN u.todo : other[1] \in Wrapped
  <2>1. CASE u \in threads
    BY <2>1 DEF SoleInv, ThreadsInv
  <2>2. ASSUME NEW done \in DOMAIN t.todo,
               u = [t EXCEPT !.todo = [other \in DOMAIN t.todo \ {done} |-> t.todo[other]]]
        PROVE  u.key = t.key /\ u.row = t.row /\ \A other \in DOMAIN u.todo : other[1] \in Wrapped
    <3>1. u.key = t.key /\ u.row = t.row /\ DOMAIN u.todo = DOMAIN t.todo \ {done}
      BY <1>2, <2>2 DEF ThreadStates
    <3> QED
      BY <1>2, <3>1
  <2> QED
    BY <2>1, <2>2 DEF UpdateRow
<1>8. EndsInv'
  <2>1. ASSUME NEW v \in 1..Writers PROVE EndsAt(v)'
    <3>1. \A other \in DOMAIN writer[v].seen :
            /\ other[1] \in Jobs /\ other[2] \in DOMAIN jobData[other[1]]
            /\ other = <<other[1], other[2]>>
      BY WriterIs DEF SeenAt, Fits, Keys
    <3>2. \A other \in DOMAIN writer[v].seen :
            EndsKept(other[1]) => (Ended(other)' <=> Ended(other))
      BY <1>6, <3>1
    <3> QED
      BY <1>1, <1>5, <3>2 DEF SoleInv, EndsInv, EndsAt
  <2>2. ASSUME NEW u \in threads', EndsKept(u.key[1])
        PROVE  u.row.finish /\ Ended(u.key)'
    <3>1. PICK old \in threads : u.key = old.key /\ u.row = old.row
      BY <1>7
    <3>2. Fits(old.key, old.row) /\ old.row.finish /\ Ended(old.key)
      BY <2>2, <3>1 DEF AttemptsInv, ThreadInv, ThreadAt, SoleInv, EndsInv
    <3>3. /\ u.key[1] \in Jobs /\ u.key[2] \in DOMAIN jobData[u.key[1]]
          /\ u.key = <<u.key[1], u.key[2]>>
      BY <3>1, <3>2 DEF Fits, Keys
    <3> QED
      BY <1>6, <2>2, <3>1, <3>2, <3>3
  <2>3. ASSUME NEW attempt \in logged' \ missed', EndsKept(attempt[1])
        PROVE  \E k \in WithId(attempt[1], attempt[2])' : Ended(<<attempt[1], k>>)'
    <3>1. attempt \in logged \ missed
      BY <1>1
    <3>2. PICK k \in WithId(attempt[1], attempt[2]) : Ended(<<attempt[1], k>>)
      BY <2>3, <3>1 DEF SoleInv, EndsInv
    <3>3. attempt[1] \in Jobs /\ k \in DOMAIN jobData[attempt[1]]
      BY <3>1 DEF AttemptsInv, Types, ListTypes, WithId
    <3>4. k \in WithId(attempt[1], attempt[2])'
      BY <1>4, <3>2, <3>3 DEF WithId, SameRows
    <3> QED
      BY <1>6, <2>3, <3>2, <3>3, <3>4
  <2> QED
    BY <1>5, <2>1, <2>2, <2>3 DEF EndsInv
<1>9. ThreadsInv' /\ OneLastInv'
  BY <1>2, <1>5, <1>7 DEF SoleInv, ThreadsInv, OneLastInv
<1> QED
  BY <1>8, <1>9 DEF SoleInv

\* The commands, the loop and the changes of the status write no end.
LEMMA OthersSole ==
  ASSUME HistoryAssumption, AttemptsInv, AttemptsInv', SoleInv, UNCHANGED setting,
         CommandSteps \/ StatusChanges \/ Loop
  PROVE  SoleInv'
<1>1. /\ SameRows
      /\ \A j \in Jobs : \A k \in DOMAIN jobData[j] :
           /\ jobData'[j][k].last = jobData[j][k].last
           /\ jobData'[j][k].finish = jobData[j][k].finish
  <2>1. CASE ChangeStatuses
    BY <2>1, ChangedRows DEF AttemptsInv
  <2>2. CASE UNCHANGED jobData
    BY <2>2, RowsAsTheyWere DEF AttemptsInv, Types
  <2> QED
    BY <2>1, <2>2
       DEF CommandSteps, Create, SetStatus, Recovery, Run, KillCommand, StatusChanges,
           ReadChanges, CountRun, FinishRun, InsertRun, Loop, Submit, Ends, Retry, Totals,
           EndRun, EndFinished, tables
<1>2. /\ \A v \in 1..Writers : writer'[v] = writer[v] \/ writer'[v] = Resting
      /\ threads' \subseteq threads
  BY DEF CommandSteps, Create, SetStatus, Recovery, Run, KillCommand, StatusChanges,
         ReadChanges, ChangeStatuses, CountRun, FinishRun, InsertRun, Loop, Submit, Ends, Retry,
         Totals, EndRun, EndFinished, processes, AttemptsInv, Types, WriterTypes
<1>3. \A v \in 1..Writers : writer'[v] = writer[v] \/ (EndsAt(v)' /\ OneLastAt(v)')
  <2>1. Resting.pc = "idle" /\ Resting.seen = <<>>
    BY RestingIs DEF AttemptsInv, Types
  <2> QED
    BY <1>2, <2>1 DEF EndsAt, OneLastAt
<1>4. \A t \in threads' : \E u \in threads :
        /\ t.key = u.key /\ t.row = u.row
        /\ \A key \in DOMAIN t.todo : key[1] \in Wrapped
  BY <1>2 DEF SoleInv, ThreadsInv
<1>5. missed \subseteq missed' /\
      \A attempt \in logged' \ missed' :
        attempt \in logged \/ \E k \in WithId(attempt[1], attempt[2]) : Ended(<<attempt[1], k>>)
  <2>1. CASE \E S \in SUBSET Jobs : \E T \in SUBSET S :
               logged' = Flagged(S, T) /\ missed' = missed \cup FlaggedTooSoon(T)
    <3> PICK S \in SUBSET Jobs : \E T \in SUBSET S :
               logged' = Flagged(S, T) /\ missed' = missed \cup FlaggedTooSoon(T)
      BY <2>1
    <3> PICK T \in SUBSET S :
               logged' = Flagged(S, T) /\ missed' = missed \cup FlaggedTooSoon(T)
      OBVIOUS
    <3> QED
      BY FlaggedIsThere DEF Ended
  <2>2. CASE logged' \subseteq logged /\ missed' = missed
    BY <2>2
  <2>3. CASE Recovery
    <3> DEFINE found == {j \in Jobs : list'[j] \in Final}
               withRow == {j \in found : LastRows(j) # {}}
    <3>1. logged' = Flagged(found, withRow) /\ missed' = missed \cup FlaggedTooSoon(withRow)
      BY <2>3 DEF Recovery
    <3>2. found \in SUBSET Jobs /\ withRow \in SUBSET found
      OBVIOUS
    <3> HIDE DEF found, withRow
    <3> QED
      BY <2>1, <3>1, <3>2
  <2>4. ASSUME NEW j \in Jobs, NEW status \in UserStatuses, SetStatus(j, status)
        PROVE  \E S \in SUBSET Jobs : \E T \in SUBSET S :
                 logged' = Flagged(S, T) /\ missed' = missed \cup FlaggedTooSoon(T)
    <3>1. logged' = Flagged({j}, {j}) /\ missed' = missed \cup FlaggedTooSoon({j})
      BY <2>4 DEF SetStatus
    <3>2. {j} \in SUBSET Jobs /\ {j} \in SUBSET {j}
      OBVIOUS
    <3> QED
      BY <3>1, <3>2
  <2>5. CASE \E j \in Jobs, status \in UserStatuses : SetStatus(j, status)
    BY <2>1, <2>4, <2>5
  <2>6. CASE Create \/ (\E w \in 1..Writers : Run(w)) \/ KillCommand \/ StatusChanges \/ Loop
    <3>1. logged' \subseteq logged /\ missed' = missed
      BY <2>6 DEF Create, Run, KillCommand, StatusChanges, ReadChanges, ChangeStatuses, CountRun,
         FinishRun, InsertRun, Loop, Submit, Ends, Retry, Totals, EndRun, EndFinished, processes,
         ghosts
    <3> QED
      BY <2>2, <3>1
  <2> QED
    BY <2>3, <2>5, <2>6 DEF CommandSteps
<1> QED
  BY <1>1, <1>3, <1>4, <1>5, StillSole

LEMMA InitSole == ASSUME HistoryAssumption, HistoryInit PROVE SoleInv
<1>1. Resting.pc = "idle" /\ Resting.seen = <<>>
  BY InitAttempts, RestingIs DEF AttemptsInv, Types
<1>2. \A w \in 1..Writers : writer[w] = Resting
  BY DEF HistoryInit
<1>3. \A j \in Jobs : LastRows(j) = {}
  BY DEF HistoryInit, LastRows
<1>4. threads = {} /\ logged = {}
  BY DEF HistoryInit
<1> QED
  BY <1>1, <1>2, <1>3, <1>4
     DEF SoleInv, ThreadsInv, EndsInv, EndsAt, OneLastInv, OneLastAt

LEMMA NextSole ==
  ASSUME HistoryAssumption, AttemptsInv, SoleInv, [HistoryNext]_historyVars
  PROVE  SoleInv'
<1>1. AttemptsInv'
  BY NextAttempts
<1>2. CASE UNCHANGED historyVars
  <2>1. UNCHANGED <<setting, jobData, writer, threads, logged, missed>>
    BY <1>2 DEF historyVars, ghosts
  <2>2. SameRows
    BY <2>1, RowsAsTheyWere DEF AttemptsInv, Types
  <2>3. \A t \in threads : \A key \in DOMAIN t.todo : key[1] \in Wrapped
    BY DEF SoleInv, ThreadsInv
  <2> QED
    BY <1>1, <2>1, <2>2, <2>3, StillSole
<1>3. CASE HistoryNext
  <2>1. UNCHANGED setting
    BY <1>3 DEF HistoryNext
  <2>2. CASE CommandSteps \/ StatusChanges \/ Loop
    BY <1>1, <2>1, <2>2, OthersSole
  <2>3. ASSUME NEW w \in 1..Writers, WriteStats(w) PROVE SoleInv'
    <3>1. writer[w] \in WriterStates /\ writer \in [1..Writers -> WriterStates]
      BY WriterIs DEF AttemptsInv, Types, WriterTypes
    <3>2. CASE TakeJob(w)
      BY <1>1, <2>1, <3>2, TakeJobSole
    <3>3. CASE ReadLastRows(w)
      BY <1>1, <2>1, <3>3, ReadLastRowsSole
    <3>4. CASE WriteStart(w) \/ WriteFinish(w)
      BY <1>1, <2>1, <3>4, WriteStartSole
    <3>5. CASE InsertRow(w)
      BY <1>1, <2>1, <3>5, InsertRowSole
    <3>6. CASE ClearLast(w) \/ UpdateStart(w)
      <4>1. /\ UNCHANGED <<ghosts, threads, logged>> /\ jobData' = Updated(writer[w].seen)
            /\ \/ writer[w].pc = "clear" /\ Sees(w, "insert", <<>>)
               \/ writer[w].pc = "started" /\ Sees(w, "finish", <<>>)
        BY <3>6 DEF ClearLast, UpdateStart, Writes
      <4>2. /\ \A v \in 1..Writers \ {w} : writer'[v] = writer[v]
            /\ writer'[w].seen = <<>> /\ writer'[w].item = writer[w].item
            /\ \/ writer[w].pc = "clear" /\ writer'[w].pc = "insert"
               \/ writer[w].pc = "started" /\ writer'[w].pc = "finish"
        <5>1. PICK point \in {"insert", "finish"} :
                /\ writer[w].pc = IF point = "insert" THEN "clear" ELSE "started"
                /\ Sees(w, point, <<>>)
          BY <4>1
        <5> DEFINE s == [writer[w] EXCEPT !.pc = point, !.seen = <<>>]
        <5>2. s.pc = point /\ s.item = writer[w].item /\ s.seen = <<>>
          BY <3>1 DEF WriterStates
        <5>3. writer' = [writer EXCEPT ![w] = s]
          BY <3>1, <5>1 DEF Sees
        <5> HIDE DEF s
        <5>4. writer'[w] = s /\ \A v \in 1..Writers \ {w} : writer'[v] = writer[v]
          BY <3>1, <5>3
        <5> QED
          BY <5>1, <5>2, <5>4
      <4> QED
        BY <1>1, <2>1, <4>1, <4>2, WriteBackSole
    <3>7. CASE UpdateFinish(w)
      <4>1. Resting.pc = "idle" /\ Resting.seen = <<>>
        BY RestingIs DEF AttemptsInv, Types
      <4>2. /\ UNCHANGED ghosts /\ jobData' = Updated(writer[w].seen) /\ writer[w].pc = "finished"
            /\ logged' = logged \/ logged' = logged \cup {AttemptOf(w)}
        BY <3>7 DEF UpdateFinish, Writes, AttemptOf
      <4>3. /\ \A v \in 1..Writers \ {w} : writer'[v] = writer[v]
            /\ writer'[w].seen = <<>> /\ writer'[w].pc \in {"idle", "submit"}
        <5>1. CASE writer[w].item.tries > 1
          <6> DEFINE item == [writer[w].item EXCEPT !.tries = @ - 1]
                     s == [writer[w] EXCEPT !.pc = "submit", !.item = item, !.seen = <<>>]
          <6>1. writer' = [writer EXCEPT ![w] = s]
            <7>1. writer' = [writer EXCEPT ![w].pc = "submit", ![w].item.tries = @ - 1,
                                           ![w].seen = <<>>]
              BY <3>7, <5>1 DEF UpdateFinish
            <7>2. writer = [v \in 1..Writers |-> writer[v]]
              BY <3>1
            <7> QED
              BY <7>1, <7>2
          <6> HIDE DEF item
          <6>2. s.pc = "submit" /\ s.seen = <<>>
            BY <3>1 DEF WriterStates
          <6> HIDE DEF s
          <6> QED
            BY <3>1, <6>1, <6>2
        <5>2. CASE ~ (writer[w].item.tries > 1)
          <6>1. writer' = [writer EXCEPT ![w] = Resting]
            BY <3>7, <5>2 DEF UpdateFinish
          <6> QED
            BY <3>1, <4>1, <6>1
        <5> QED
          BY <5>1, <5>2
      <4>4. ASSUME NEW t \in threads', t \notin threads
            PROVE  /\ Slurm /\ DOMAIN t.todo = {}
                   /\ t.key \in DOMAIN writer[w].seen /\ t.row = writer[w].seen[t.key]
        BY <3>7, <4>4 DEF UpdateFinish, Reread
      <4> QED
        BY <1>1, <2>1, <4>2, <4>3, <4>4, WriteBackSole
    <3> QED
      BY <2>3, <3>2, <3>3, <3>4, <3>5, <3>6, <3>7 DEF WriteStats
  <2>4. ASSUME NEW t \in threads, AskEnergy(t) PROVE SoleInv'
    BY <1>1, <2>1, <2>4, AskEnergySole
  <2>5. ASSUME NEW t \in threads, UpdateRow(t) PROVE SoleInv'
    BY <1>1, <2>1, <2>5, UpdateRowSole
  <2> QED
    BY <1>3, <2>2, <2>3, <2>4, <2>5 DEF HistoryNext
<1> QED
  BY <1>2, <1>3

-----------------------------------------------------------------------------
(* The theorems.                                                           *)

LEMMA NothingIsLost ==
  ASSUME HistoryAssumption, AttemptsInv, SoleInv
  PROVE  AttemptsKept
<1>1. OneLastRow
  <2> SUFFICES ASSUME NEW j \in Jobs, OneWriter
               PROVE  Cardinality(LastRows(j)) <= 1
    BY DEF OneLastRow
  <2>1. \A k, l \in LastRows(j) : k = l
    BY DEF SoleInv, OneLastInv
  <2>2. CASE LastRows(j) = {}
    BY <2>2, FS_EmptySet
  <2>3. CASE LastRows(j) # {}
    <3> PICK k : LastRows(j) = {k}
      BY <2>1, <2>3
    <3>1. Cardinality({k}) = 1
      BY FS_Singleton
    <3> QED
      BY <3>1
  <2> QED
    BY <2>2, <2>3
<1>2. NoAttemptLost
  BY DEF NoAttemptLost, AttemptsInv, LoggedInv, SoleInv, EndsInv, Ended
<1> QED
  BY <1>1, <1>2, LastIsNewest DEF AttemptsKept

\* What the database, the list and the processes hold has its type: the rows that
\* were read and are still to be written back are there.
THEOREM HistoryTypesCorrect == HistorySpec => []HistoryTypeOK
<1>1. HistoryInit => AttemptsInv
  BY HistoryAssumption, InitAttempts
<1>2. AttemptsInv /\ [HistoryNext]_historyVars => AttemptsInv'
  BY HistoryAssumption, NextAttempts
<1>3. AttemptsInv => HistoryTypeOK
  BY HistoryAssumption, AttemptsAreTyped
<1> QED
  BY <1>1, <1>2, <1>3, PTL DEF HistorySpec

\* No attempt is lost or hidden by another (Job.write_stats, write_end_time,
\* recover_last_data): the row with last=1 of a job is that of its last attempt; every
\* attempt whose logs are taken for recovered has a row, but those begun without a run,
\* beside another process or after one that was killed between its two statements, and
\* those that a command flagged before they were recorded; where one process writes, one
\* row of a job is the last, and no thread of another job takes an end away.
THEOREM AttemptsAreKept == HistorySpec => []AttemptsKept
<1>1. HistoryInit => AttemptsInv /\ SoleInv
  BY HistoryAssumption, InitAttempts, InitSole
<1>2. AttemptsInv /\ SoleInv /\ [HistoryNext]_historyVars => (AttemptsInv /\ SoleInv)'
  BY HistoryAssumption, NextAttempts, NextSole
<1>3. AttemptsInv /\ SoleInv => AttemptsKept
  BY HistoryAssumption, NothingIsLost
<1> QED
  BY <1>1, <1>2, <1>3, PTL DEF HistorySpec

\* The experiments that wait for this one (handle_start_after) start when all its
\* jobs are over.
THEOREM OthersWait == HistorySpec => []OthersStartAfterEnd
<1>1. HistoryInit => AttemptsInv /\ CountsInv
  BY HistoryAssumption, InitAttempts DEF HistoryInit, CountsInv
<1>2. AttemptsInv /\ CountsInv /\ [HistoryNext]_historyVars => (AttemptsInv /\ CountsInv)'
  BY HistoryAssumption, NextAttempts, NextCounts DEF AttemptsInv
<1>3. CountsInv => OthersStartAfterEnd
  BY DEF CountsInv, OthersStartAfterEnd, Triggers
<1> QED
  BY <1>1, <1>2, <1>3, PTL DEF HistorySpec

==============================================================================
