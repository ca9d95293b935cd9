----------------------------- MODULE MCDatabases -----------------------------
(* The database of the experiments and the database of the history of one,  *)
(* for TLC.  Neither reads the other: a behaviour is one of one of them.    *)
EXTENDS Experiments, History

CONSTANTS a, b

VARIABLE part

\* Six names: two that start with a, one with e, o and t, and the one after zzzz.
Letters == [n \in 0..6 |-> CASE n \in {0, 1} -> "a" [] n = 2 -> "e" [] n = 3 -> "o"
                             [] n = 4 -> "t" [] OTHER -> "1"]

Firsts == [normal |-> 0, evaluation |-> 2, operational |-> 3, test |-> 5]

\* Slurm with one recovery process; another platform where the process of a
\* killed run goes on beside that of the next one; attempts inside a wrapper, in an
\* experiment that is a test and whose chunks are changed.
SlurmOrphanInner ==
  LET plain == [slurm |-> FALSE, writers |-> 1, tries |-> 1, test |-> FALSE, edits |-> FALSE]
  IN {[plain EXCEPT !.slurm = TRUE],
      [plain EXCEPT !.writers = 2],
      [plain EXCEPT !.tries = 2, !.test = TRUE, !.edits = TRUE]}

\* Where the process of a killed run may go on beside that of the next one, one job
\* runs, again and again (bound): both processes write its rows, and only a thread,
\* of which there is none here, writes rows of another job.
OneJobBesideOrphan == setting.writers = 2 => id'[b] = 0

MCInit ==
  /\ part \in {"experiments", "history"}
  /\ Init /\ HistoryInit
  /\ part # "experiments" => backend = "sqlite"
  /\ part # "history" => setting = CHOOSE s \in SlurmOrphanInner : s.slurm

MCNext ==
  \/ part = "experiments" /\ Next /\ UNCHANGED <<part, historyVars>>
  \/ /\ part = "history" /\ HistoryNext /\ OneJobBesideOrphan /\ UNCHANGED <<part, vars>>

MCSpec == MCInit /\ [][MCNext]_<<part, vars, historyVars>>
==============================================================================
