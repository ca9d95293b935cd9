-------------------------- MODULE ConnectionProofs --------------------------
(***************************************************************************)
(* Proofs about Connection for any platforms, hosts and limits, and any    *)
(* number of failures.                                                     *)
(***************************************************************************)
EXTENDS Connection, TLAPS

\* A platform whose log recovery process lives is marked as one that has it, and
\* only a connection without that mark, or the look at the missing logs, starts one.
\* Where an earlier process lives on, that of the platform was left when it was made anew.
LogProcessInv ==
  /\ twice \subseteq left /\ orphans \subseteq left
  /\ active \in [Platforms -> BOOLEAN]
  /\ child \in [Platforms -> {"none", "alive", "dead"}]
  /\ \A p \in Platforms : child[p] = "alive" => active[p]
  /\ at \in Platforms /\ todo \subseteq Platforms /\ tested \subseteq Platforms
  /\ pc \in {"logs", "renew"} => ~ renewed
  /\ ~ renewed => twice = {} /\ orphans = {}

\* What an attempt to connect does to the process of its platform.
LEMMA ConnectKeepsOne ==
  ASSUME LogProcessInv, NEW h, Connect(at, h)
  PROVE  /\ twice' \subseteq left' /\ orphans' = orphans /\ UNCHANGED madeVars
         /\ ~ renewed => twice' = {}
         /\ active' \in [Platforms -> BOOLEAN]
         /\ child' \in [Platforms -> {"none", "alive", "dead"}]
         /\ \A p \in Platforms : child'[p] = "alive" => active'[p]
<1>1. CASE LoginFails(at, h) \/ SftpFails(at, h)
  BY <1>1 DEF LogProcessInv, LoginFails, SftpFails, Connect, logVars, madeVars
<1>2. CASE SpawnFails(at, h)
  BY <1>2 DEF LogProcessInv, SpawnFails, Connect, madeVars
<1>3. CASE Connects(at, h)
  <2>1. UNCHANGED madeVars
    BY DEF Connect
  <2>2. CASE Spawns(at)
    <3>1. /\ child' = [child EXCEPT ![at] = "alive"] /\ active' = [active EXCEPT ![at] = TRUE]
          /\ UNCHANGED orphans
          /\ twice' = IF child[at] = "alive" \/ at \in orphans THEN twice \cup {at} ELSE twice
      BY <1>3, <2>2 DEF Connects, Started
    <3>2. child[at] # "alive"
      BY <2>2 DEF LogProcessInv, Spawns
    <3> QED
      BY <2>1, <3>1, <3>2 DEF LogProcessInv, madeVars
  <2>3. CASE ~ Spawns(at)
    BY <1>3, <2>1, <2>3 DEF LogProcessInv, Connects, logVars, madeVars
  <2> QED
    BY <2>2, <2>3
<1> QED
  BY <1>1, <1>2, <1>3 DEF Connect

\* LogProcessInv is inductive.
LEMMA LogProcessNext == LogProcessInv /\ [Next]_vars => LogProcessInv'
<1> SUFFICES ASSUME LogProcessInv, [Next]_vars PROVE LogProcessInv'
  OBVIOUS
<1>1. CASE UNCHANGED vars
  BY <1>1 DEF LogProcessInv, vars, platformVars, logVars, madeVars
<1>2. CASE Attempt
  <2>1. (\E h : Connect(at, h)) /\ UNCHANGED <<at, todo>> /\ pc' \notin {"logs", "renew"}
    BY <1>2 DEF Attempt, Recovers
  <2> QED
    BY <2>1, ConnectKeepsOne DEF LogProcessInv, madeVars
<1>3. CASE ChildDies
  BY <1>3 DEF LogProcessInv, ChildDies, madeVars
<1>4. CASE Iterate
  BY <1>4 DEF LogProcessInv, Iterate, Refreshed, RefreshFails, madeVars
<1>5. CASE Finish
  BY <1>5 DEF LogProcessInv, Finish, madeVars
<1>6. CASE Test
  BY <1>6 DEF LogProcessInv, Test, platformVars, logVars, madeVars, BeginRestore
<1>7. CASE SendTo
  BY <1>7 DEF LogProcessInv, SendTo, platformVars, logVars, madeVars
<1>8. CASE HostChanges \/ LinkBreaks \/ Check \/ Restored \/ Turn
  <2>1. /\ UNCHANGED <<logVars, madeVars, at, todo>>
        /\ pc' \in {"logs", "renew"} => ~ renewed \/ pc' = pc
    BY <1>8 DEF HostChanges, LinkBreaks, Check, Restored, Turn, platformVars
  <2> QED
    BY <2>1 DEF LogProcessInv, logVars, madeVars
<1>9. CASE Execute
  <2>1. UNCHANGED <<logVars, madeVars, at>> /\ pc' \notin {"logs", "renew"}
    <3>1. \/ Answered \/ TryAgain
          \/ Recovers /\ UNCHANGED <<platformVars, at, tries, caller, attempt, tried>>
      BY <1>9, Zenon DEF Execute
    <3>2. pc = "send"
      BY <1>9 DEF Execute
    <3> QED
      BY <3>1, <3>2 DEF Answered, TryAgain, Recovers, BeginRestore, platformVars
  <2> QED
    BY <1>9, <2>1 DEF LogProcessInv, Execute, logVars, madeVars
<1>10. CASE RecoverList \/ Reconnect \/ GiveUp
  BY <1>10 DEF LogProcessInv, RecoverList, Reconnect, GiveUp, platformVars, logVars, madeVars
<1>11. CASE CheckLogs
  <2>1. UNCHANGED <<madeVars, at, todo>> /\ ~ renewed /\ pc = "logs"
    BY <1>11 DEF CheckLogs, LogProcessInv
  <2>2. CASE \E p \in Platforms : ~ active[p] /\ ServeLogs(p)
    BY <2>1, <2>2 DEF LogProcessInv, ServeLogs, Started, madeVars
  <2>3. CASE UNCHANGED logVars
    BY <2>1, <2>3 DEF LogProcessInv, logVars, madeVars
  <2> QED
    BY <1>11, <2>2, <2>3 DEF CheckLogs
<1>12. CASE Renew
  BY <1>12 DEF LogProcessInv, Renew
<1> QED
  BY <1>1, <1>2, <1>3, <1>4, <1>5, <1>6, <1>7, <1>8, <1>9, <1>10, <1>11, <1>12
  DEF Next, Process, Environment, Over

\* Whatever connecting, reconnecting, serving the missing logs and replacing dead
\* processes do, a platform has two log recovery processes at work only if the run made
\* its platforms anew, to recover missing logs, while the earlier process was alive.
THEOREM OnlyOneProcess == Spec => []OneLogProcess
<1>1. Init => LogProcessInv
  BY DEF Init, LogProcessInv
<1>2. LogProcessInv => OneLogProcess
  BY DEF LogProcessInv, OneLogProcess
<1> QED
  BY <1>1, <1>2, LogProcessNext, PTL DEF Spec
==============================================================================
