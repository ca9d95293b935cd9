---------------------------- MODULE Connection ----------------------------
(***************************************************************************)
(* The connections of a run: how it connects to its platforms, sends them  *)
(* commands, notices that a connection is lost, and recovers.              *)
(*                                                                         *)
(* Code: run_experiment, check_logs_status and restore_platforms           *)
(* (autosubmit.py); test_connection, restore_connection, connect,          *)
(* exec_command, send_command, check_remote_permissions                    *)
(* (platforms/paramiko_platform.py); the start of the log recovery process *)
(* (platforms/platform.py).                                                *)
(*                                                                         *)
(* The job list is left out: which platforms have unfinished jobs and      *)
(* which miss logs is any, and an iteration sends one command to each of   *)
(* the former.  The message of test_connection only chooses the wording of *)
(* an error, and the mail about a lost connection is left out.             *)
(***************************************************************************)
EXTENDS Naturals, FiniteSets, Sequences, SequencesExt

CONSTANTS
  Platforms,
  HostsOf,    \* the host names of each platform, in the order of HOST
  TwoFactor,  \* platforms with 2FA
  Accepts,    \* how one can log in to a host
  Limits,     \* values of RECOVERY_RETRIALS, 0 for no limit
  Faults,     \* what can go wrong besides hosts and connections
  MaxFaults   \* how many times (bound)

Hosts == UNION {ToSet(HostsOf[p]) : p \in Platforms}
LogIns == {"agent", "key", "keyWithoutRsa2", "prompt"}

FaultKinds ==
  {"sftp",      \* no SFTP session on a new connection
   "spawn",     \* the log recovery process cannot be started
   "child",     \* the log recovery process dies
   "scratch",   \* no directory can be made in the scratch
   "unheard",   \* a command is executed, but its channel fails
   "rejected",  \* the platform answers with an error
   "syntax",    \* the platform answers with a syntax error
   "list"}      \* prepare_run(recover=True) fails

ASSUME ConnectionAssumption ==
  /\ IsFiniteSet(Platforms)
  /\ \A p \in Platforms : HostsOf[p] # <<>> /\ IsInjective(HostsOf[p])
  /\ TwoFactor \subseteq Platforms
  /\ \A h \in Hosts : Accepts[h] \subseteq LogIns
  /\ Limits \subseteq Nat
  /\ Faults \subseteq FaultKinds
  /\ MaxFaults \in Nat

VARIABLES
  up,         \* hosts that accept connections
  connected,  \* Platform.connected
  link,       \* Platform.transport
  ftp,        \* Platform._ftpChannel
  active,     \* log_retrieval_process_active
  child,      \* log_recovery_process
  tested,     \* platforms_to_test
  renewed,    \* the platforms were made anew, to recover missing logs
  orphans,    \* those whose log process, of the earlier objects, is alive
  left,       \* ghost: those whose log process was left to live on then
  twice,      \* ghost: those that had two log processes alive at once
  pc,         \* where the run is
  at,         \* the platform it is busy with
  todo,       \* platforms the loop has still to visit
  caller,     \* who called restore_connection
  attempt,    \* retry of restore_connection
  tried,      \* hosts it has tried
  tries,      \* retry of exec_command
  recovering, \* the run is in the handler of AutosubmitError
  issues,     \* restore_platforms found issues
  limit,      \* max_recovery_retrials
  retrials,   \* recovery_retrials
  faults      \* what went wrong so far

logVars == <<active, child, orphans, twice>>
madeVars == <<tested, renewed, left>>
platformVars == <<connected, link, ftp, logVars, madeVars>>
callVars == <<caller, attempt, tried, tries>>
loopVars == <<recovering, issues, limit, retrials>>
vars == <<up, platformVars, pc, at, todo, callVars, loopVars, faults>>

Ended == {"ended", "failed"}

Fault(kind) == kind \in Faults /\ faults < MaxFaults /\ faults' = faults + 1
NoFault == UNCHANGED faults

Init ==
  /\ up \in SUBSET Hosts
  /\ connected = [p \in Platforms |-> FALSE]
  /\ link = [p \in Platforms |-> "none"]
  /\ ftp = [p \in Platforms |-> "none"]
  /\ active = [p \in Platforms |-> FALSE]
  /\ child = [p \in Platforms |-> "none"]
  /\ tested \in SUBSET Platforms
  /\ renewed = FALSE /\ orphans = {} /\ left = {} /\ twice = {}
  /\ pc = "restore" /\ todo = tested
  /\ at \in Platforms
  /\ caller = "test" /\ attempt = 1 /\ tried = {}
  /\ tries = 1
  /\ recovering = FALSE /\ issues = FALSE
  /\ limit \in Limits /\ retrials = 0
  /\ faults = 0

-----------------------------------------------------------------------------
(* The hosts and the network.                                              *)

HostChanges ==
  /\ pc \notin Ended
  /\ \E h \in Hosts : up' = IF h \in up THEN up \ {h} ELSE up \cup {h}
  /\ UNCHANGED <<platformVars, pc, at, todo, callVars, loopVars, faults>>

\* The connection to a platform breaks, with or without anybody noticing.
LinkBreaks ==
  /\ pc \notin Ended
  /\ \E p \in Platforms, q \in {"dead", "stale"} :
       /\ link[p] = "good"
       /\ link' = [link EXCEPT ![p] = q]
       /\ ftp' = [ftp EXCEPT ![p] = IF @ = "good" THEN q ELSE @]
  /\ UNCHANGED <<up, connected, logVars, madeVars, pc, at, todo, callVars, loopVars, faults>>

ChildDies ==
  /\ pc \notin Ended
  /\ \/ \E p \in Platforms :
          /\ child[p] = "alive"
          /\ child' = [child EXCEPT ![p] = "dead"]
          /\ UNCHANGED orphans
     \/ \E p \in orphans : orphans' = orphans \ {p} /\ UNCHANGED child
  /\ Fault("child")
  /\ UNCHANGED <<up, connected, link, ftp, active, twice, madeVars, pc, at, todo, callVars,
                 loopVars>>

-----------------------------------------------------------------------------
(* The log recovery process.                                               *)

\* start() of the process.
Started(p) ==
  /\ child' = [child EXCEPT ![p] = "alive"]
  /\ twice' = IF child[p] = "alive" \/ p \in orphans THEN twice \cup {p} ELSE twice
  /\ UNCHANGED orphans

\* Mutant: the process is started on every connection.
Spawns_Again(p) == caller = "test"

\* connect: the process is started once, and only if connect was given the
\* configuration of an `autosubmit run'; exec_command gives it none.
Spawns(p) == caller = "test" /\ ~ active[p]

-----------------------------------------------------------------------------
(* connect.                                                                *)

\* The first attempt goes to the first host, the second to any other.
NextHosts(p, n) ==
  IF n = 1 \/ Len(HostsOf[p]) = 1 THEN {Head(HostsOf[p])} ELSE ToSet(Tail(HostsOf[p]))

\* The agent, then the key, then the key without the RSA algorithms
\* sha-256 and sha-512; with 2FA the prompt only.
LogsIn(p, h) ==
  /\ h \in up
  /\ IF p \in TwoFactor
       THEN "prompt" \in Accepts[h]
       ELSE {"agent", "key", "keyWithoutRsa2"} \cap Accepts[h] # {}

\* No login: transport and channel stay what they were.
LoginFails(p, h) ==
  /\ ~ LogsIn(p, h)
  /\ connected' = [connected EXCEPT ![p] = FALSE]
  /\ UNCHANGED <<link, ftp, logVars>> /\ NoFault

SftpFails(p, h) ==
  /\ LogsIn(p, h)
  /\ Fault("sftp")
  /\ link' = [link EXCEPT ![p] = "good"]
  /\ connected' = [connected EXCEPT ![p] = FALSE]
  /\ UNCHANGED <<ftp, logVars>>

\* The session is there, but the exception makes it not connected, and the
\* flag keeps a second attempt from starting the process.
SpawnFails(p, h) ==
  /\ LogsIn(p, h) /\ Spawns(p)
  /\ Fault("spawn")
  /\ link' = [link EXCEPT ![p] = "good"]
  /\ ftp' = [ftp EXCEPT ![p] = "good"]
  /\ active' = [active EXCEPT ![p] = TRUE]
  /\ connected' = [connected EXCEPT ![p] = FALSE]
  /\ UNCHANGED <<child, orphans, twice>>

Connects(p, h) ==
  /\ LogsIn(p, h)
  /\ link' = [link EXCEPT ![p] = "good"]
  /\ ftp' = [ftp EXCEPT ![p] = "good"]
  /\ connected' = [connected EXCEPT ![p] = TRUE]
  /\ IF Spawns(p)
       THEN Started(p) /\ active' = [active EXCEPT ![p] = TRUE]
       ELSE UNCHANGED logVars
  /\ NoFault

Connect(p, h) ==
  /\ LoginFails(p, h) \/ SftpFails(p, h) \/ SpawnFails(p, h) \/ Connects(p, h)
  /\ UNCHANGED madeVars

-----------------------------------------------------------------------------
(* restore_connection.                                                     *)

\* reset, and the first of two attempts; w is who calls.
BeginRestore(p, w) ==
  /\ connected' = [connected EXCEPT ![p] = FALSE]
  /\ link' = [link EXCEPT ![p] = "none"]
  /\ ftp' = [ftp EXCEPT ![p] = "none"]
  /\ UNCHANGED <<logVars, madeVars>>
  /\ pc' = "connect" /\ at' = p
  /\ caller' = w /\ attempt' = 1 /\ tried' = {}

\* The handler of AutosubmitError.
Recovers ==
  /\ pc' = "recover" /\ recovering' = TRUE

\* test_connection makes a message of the error and goes on; the error leaves
\* exec_command and send_command.
Attempt ==
  /\ pc = "connect"
  /\ \E h \in NextHosts(at, attempt) :
       /\ Connect(at, h)
       /\ tried' = tried \cup {h}
  /\ IF connected'[at] \/ attempt = 2
       THEN /\ \/ /\ caller = "test"
                  /\ pc' = "check" /\ UNCHANGED <<tries, recovering>>
               \/ /\ caller = "exec" /\ connected'[at]
                  /\ pc' = "send" /\ tries' = tries + 1 /\ UNCHANGED recovering
               \/ /\ caller = "exec" /\ ~ connected'[at]
                  /\ Recovers /\ UNCHANGED tries
            /\ UNCHANGED attempt
       ELSE attempt' = attempt + 1 /\ UNCHANGED <<pc, tries, recovering>>
  /\ UNCHANGED <<up, at, todo, caller, issues, limit, retrials>>

-----------------------------------------------------------------------------
(* restore_platforms.                                                      *)

\* test_connection trusts a platform that is marked as connected.
Test ==
  /\ pc = "restore"
  /\ \E p \in todo :
       /\ todo' = todo \ {p}
       /\ \/ /\ connected[p]
             /\ pc' = "check" /\ at' = p
             /\ UNCHANGED <<platformVars, caller, attempt, tried>>
          \/ /\ ~ connected[p]
             /\ BeginRestore(p, "test")
  /\ UNCHANGED <<up, tries, loopVars, faults>>

\* check_remote_permissions makes a directory and removes it.
Permitted == ftp[at] = "good" /\ NoFault
NotPermitted == (ftp[at] # "good" /\ NoFault) \/ Fault("scratch")

\* Mutant: a platform without permissions stays marked as connected.
Check_Connected ==
  /\ pc = "check"
  /\ \/ Permitted /\ UNCHANGED issues
     \/ NotPermitted /\ issues' = TRUE
  /\ pc' = "restore"
  /\ UNCHANGED <<up, platformVars, at, todo, callVars, recovering, limit, retrials>>

Check ==
  /\ pc = "check"
  /\ \/ Permitted /\ UNCHANGED <<issues, connected>>
     \/ /\ NotPermitted
        /\ issues' = TRUE
        /\ connected' = [connected EXCEPT ![at] = FALSE]
  /\ pc' = "restore"
  /\ UNCHANGED <<up, link, ftp, logVars, madeVars, at, todo, callVars, recovering, limit,
                 retrials>>

\* Issues end a run that starts and make one that recovers try again; a run
\* that has used its last retrial ends even if this one was good.
Restored ==
  /\ pc = "restore" /\ todo = {}
  /\ \/ issues /\ ~ recovering /\ pc' = "failed" /\ UNCHANGED recovering
     \/ issues /\ recovering /\ pc' = "reconnect" /\ UNCHANGED recovering
     \/ /\ ~ issues /\ recovering /\ limit > 0 /\ retrials = limit
        /\ pc' = "failed" /\ UNCHANGED recovering
     \/ /\ ~ issues /\ recovering /\ (limit > 0 => retrials < limit)
        /\ pc' = "iterate" /\ recovering' = FALSE
     \/ /\ ~ issues /\ ~ recovering
        /\ pc' = IF renewed THEN "finish" ELSE "logs"
        /\ UNCHANGED recovering
  /\ issues' = FALSE
  /\ UNCHANGED <<up, platformVars, at, todo, callVars, limit, retrials, faults>>

\* check_logs_status when the run starts: the platform of each finished job without a
\* log has a log process, unfinished jobs or not; then the loop, if anything is active.
ServeLogs(p) ==
  /\ active' = [active EXCEPT ![p] = TRUE]
  /\ \/ Started(p) /\ UNCHANGED pc /\ NoFault
     \/ pc' = "failed" /\ UNCHANGED <<child, orphans, twice>> /\ Fault("spawn")

CheckLogs ==
  /\ pc = "logs"
  /\ \/ \E p \in Platforms : ~ active[p] /\ ServeLogs(p)
     \/ /\ pc' \in (IF tested = {} THEN {} ELSE {"iterate"}) \cup {"finish", "renew"}
        /\ UNCHANGED logVars /\ NoFault
  /\ UNCHANGED <<up, connected, link, ftp, madeVars, at, todo, callVars, loopVars>>

\* Nothing was active and logs are missing: all platforms are made anew and connected,
\* while the processes of the earlier objects go on.
Renew ==
  /\ pc = "renew"
  /\ connected' = [p \in Platforms |-> FALSE]
  /\ link' = [p \in Platforms |-> "none"]
  /\ ftp' = [p \in Platforms |-> "none"]
  /\ active' = [p \in Platforms |-> FALSE]
  /\ orphans' = {p \in Platforms : child[p] = "alive"}
  /\ left' = orphans'
  /\ child' = [p \in Platforms |-> "none"]
  /\ tested' = Platforms /\ renewed' = TRUE
  /\ pc' = "restore" /\ todo' = Platforms
  /\ UNCHANGED <<up, twice, at, callVars, loopVars, faults>>

-----------------------------------------------------------------------------
(* An iteration.                                                           *)

\* refresh_log_recovery_process: a process that is not alive is replaced; the
\* run ends if that fails.
Refreshed ==
  /\ active' = [p \in Platforms |-> p \in tested \/ active[p]]
  /\ child' = [p \in Platforms |-> IF p \in tested THEN "alive" ELSE child[p]]
  /\ NoFault
RefreshFails(p) ==
  /\ child[p] # "alive"
  /\ active' = [active EXCEPT ![p] = TRUE]
  /\ child' = [child EXCEPT ![p] = "none"]
  /\ Fault("spawn")

Iterate ==
  /\ pc = "iterate"
  /\ \/ Refreshed /\ pc' = "next" /\ todo' = tested
     \/ (\E p \in tested : RefreshFails(p)) /\ pc' = "failed" /\ UNCHANGED todo
  /\ UNCHANGED <<up, connected, link, ftp, orphans, twice, madeVars, at, callVars, loopVars>>

SendTo ==
  /\ pc = "next"
  /\ \E p \in todo : at' = p /\ todo' = todo \ {p}
  /\ pc' = "send" /\ tries' = 1
  /\ UNCHANGED <<up, platformVars, caller, attempt, tried, loopVars, faults>>

\* The sleep; what the jobs do decides whether there is another iteration.
Turn ==
  /\ pc = "next" /\ todo = {}
  /\ pc' \in {"iterate", "finish"}
  /\ UNCHANGED <<up, platformVars, at, todo, callVars, loopVars, faults>>

\* The log processes are waited for and the connections closed.
Finish ==
  /\ pc = "finish"
  /\ pc' = "ended"
  /\ child' = [p \in Platforms |-> IF p \in tested THEN "none" ELSE child[p]]
  /\ link' = [p \in Platforms |-> IF p \in tested THEN "none" ELSE link[p]]
  /\ ftp' = [p \in Platforms |-> IF p \in tested THEN "none" ELSE ftp[p]]
  /\ UNCHANGED <<up, connected, active, orphans, twice, madeVars, at, todo, callVars, loopVars,
                 faults>>

-----------------------------------------------------------------------------
(* send_command and exec_command.                                          *)

\* The command is executed and its channel read to the end.
Answered ==
  /\ link[at] = "good"
  /\ UNCHANGED <<platformVars, at, tries, caller, attempt, tried>>
  /\ \/ pc' = "next" /\ UNCHANGED recovering /\ NoFault
     \/ Recovers /\ Fault("rejected")
     \/ pc' = "failed" /\ UNCHANGED recovering /\ Fault("syntax")

\* No channel is opened, or the command is sent and the channel fails.
ChannelFails ==
  \/ link[at] # "good" /\ NoFault
  \/ link[at] = "good" /\ Fault("unheard")

\* Reconnects only if it knows that the connection is lost; another try.
TryAgain ==
  \/ /\ ~ connected[at] \/ link[at] = "dead"
     /\ BeginRestore(at, "exec") /\ UNCHANGED <<tries, recovering>>
  \/ /\ connected[at] /\ link[at] # "dead"
     /\ \/ tries < 3 /\ tries' = tries + 1 /\ UNCHANGED <<pc, recovering>>
        \/ tries = 3 /\ Recovers /\ UNCHANGED tries
     /\ UNCHANGED <<platformVars, at, caller, attempt, tried>>

\* A reconnection after the third try is not used: exec_command gives up.
Execute ==
  /\ pc = "send"
  /\ \/ tries <= 3 /\ (Answered \/ (ChannelFails /\ TryAgain))
     \/ /\ tries > 3
        /\ Recovers /\ NoFault
        /\ UNCHANGED <<platformVars, at, tries, caller, attempt, tried>>
  /\ UNCHANGED <<up, todo, issues, limit, retrials>>

-----------------------------------------------------------------------------
(* The handler of AutosubmitError.                                         *)

\* Retrials are counted for the whole run, of the list and of the platforms
\* together; without a limit the count does not matter.
Allowed == limit = 0 \/ retrials < limit

\* Mutant: the count starts again with every error.
Counted_FromZero ==
  retrials' = IF limit = 0 THEN 0 ELSE IF pc = "recover" THEN 1 ELSE retrials + 1

Counted == retrials' = IF limit = 0 THEN 0 ELSE retrials + 1

RecoverList ==
  /\ pc = "recover" /\ Allowed
  /\ Counted
  /\ \/ pc' = "reconnect" /\ NoFault
     \/ UNCHANGED pc /\ Fault("list")
  /\ UNCHANGED <<up, platformVars, at, todo, callVars, recovering, issues, limit>>

Reconnect ==
  /\ pc = "reconnect" /\ Allowed
  /\ Counted
  /\ pc' = "restore" /\ todo' = tested
  /\ UNCHANGED <<up, platformVars, at, callVars, recovering, issues, limit, faults>>

GiveUp ==
  /\ pc \in {"recover", "reconnect"} /\ ~ Allowed
  /\ pc' = "failed"
  /\ UNCHANGED <<up, platformVars, at, todo, callVars, loopVars, faults>>

-----------------------------------------------------------------------------
Process == Attempt \/ Test \/ Check \/ Restored \/ CheckLogs \/ Renew \/ Iterate \/ SendTo
             \/ Turn \/ Finish \/ Execute \/ RecoverList \/ Reconnect \/ GiveUp
Environment == HostChanges \/ LinkBreaks \/ ChildDies
Over == pc \in Ended /\ UNCHANGED vars

Next == Process \/ Environment \/ Over
Spec == Init /\ [][Next]_vars /\ WF_vars(Process)

-----------------------------------------------------------------------------
(* Properties.                                                             *)

Usable(p) == link[p] = "good" /\ ftp[p] = "good"

\* A platform whose connection is lost while the run goes on is connected
\* again or the run ends, once the hosts stay up: also if the connection still
\* looks active, or breaks over and over (test_connection, restore_platforms).
LostIsRepaired ==
  <>[](up = Hosts) =>
    \A p \in Platforms :
      (pc = "iterate" /\ p \in tested /\ ~ Usable(p)) ~> (Usable(p) \/ pc \in Ended)

\* With a limit the run cannot recover for ever, however often hosts and
\* connections come and go (run_experiment: RECOVERY_RETRIALS).
RecoveriesEnd == limit > 0 => <>[](~ recovering \/ pc \in Ended)

\* A platform has two log recovery processes at work only if the run found nothing to
\* do but missing logs, made the platforms anew and left a process of the earlier ones
\* alive: connecting, reconnecting, serving the logs that are missing and replacing dead
\* processes never start a second one.
OneLogProcess == twice \subseteq left
==============================================================================
