--------------------------- MODULE WrappersProofs ---------------------------
(***************************************************************************)
(* Proofs about Wrappers for every workflow, every set of packages and     *)
(* every number of troubles: types, the files of what is COMPLETED, and of *)
(* a vertical wrapper that no job of it runs twice at a time or before the *)
(* one it depends on.                                                      *)
(*                                                                         *)
(* A check of a wrapper is a sequence of steps on the list and on the      *)
(* WrapperJob, and the order of the wrapper's faults is Slurm's. Put says  *)
(* what a check may make of the list whatever Slurm answered, and Moves    *)
(* what Slurm and the script may make of the submissions: the invariant    *)
(* of a vertical wrapper (VerticalInv) is shown to be kept by those two,   *)
(* by an iteration and by a restart.                                       *)
(***************************************************************************)
EXTENDS Wrappers, FiniteSetTheorems, WellFoundedInduction, TLAPS

-----------------------------------------------------------------------------
(* Recursive functions over a sequence.                                    *)

\* A set of natural numbers that is not empty has a least one.
LEMMA LeastNumber ==
  ASSUME NEW T, T \subseteq Nat, T # {}
  PROVE  \E n \in T : \A k \in T : n <= k
<1>1. PICK n \in T : \A k \in T : ~ (<<k, n>> \in OpToRel(<, Nat))
  BY NatLessThanWellFounded, WFMin
<1>2. \A k \in T : ~ (k < n)
  BY <1>1 DEF OpToRel
<1> QED
  BY <1>2

\* What holds of the first value and is kept from each to the next holds of all.
LEMMA Stays ==
  ASSUME NEW n \in Nat, NEW S, NEW f, f[0] \in S[0],
         \A k \in 1..n : f[k - 1] \in S[k - 1] => f[k] \in S[k]
  PROVE  \A k \in 0..n : f[k] \in S[k]
<1> DEFINE Bad == {k \in 0..n : f[k] \notin S[k]}
<1>1. SUFFICES ASSUME Bad # {}
               PROVE  FALSE
  OBVIOUS
<1>2. PICK b \in Bad : \A k \in Bad : b <= k
  <2> Bad \subseteq Nat
    OBVIOUS
  <2> HIDE DEF Bad
  <2> QED
    BY <1>1, LeastNumber
<1>3. b \in 1..n /\ b - 1 \in 0..n /\ b - 1 \notin Bad
  BY <1>2
<1> QED
  BY <1>2, <1>3

\* The values of a fold, from a function for each of its steps.
Values(n, base, step, g) ==
  /\ g = [k \in 0..n |-> g[k]]
  /\ g[0] = base
  /\ \A k \in 1..n : g[k] = step[k][g[k - 1]]

HasValues(n, base, step) == \E g : Values(n, base, step, g)

\* A fold has values: there is no first step at which they end.
LEMMA ValuesExist ==
  ASSUME NEW n \in Nat, NEW base, NEW step
  PROVE  HasValues(n, base, step)
<1> DEFINE Bad == {m \in 0..n : ~HasValues(m, base, step)}
<1>1. SUFFICES ASSUME Bad # {}
               PROVE  FALSE
  OBVIOUS
<1>2. PICK b \in Bad : \A k \in Bad : b <= k
  <2> Bad \subseteq Nat
    OBVIOUS
  <2> HIDE DEF Bad
  <2> QED
    BY <1>1, LeastNumber
<1>3. CASE b = 0
  <2>1. Values(0, base, step, [k \in 0..0 |-> base])
    BY DEF Values
  <2> QED
    BY <1>2, <1>3, <2>1 DEF HasValues
<1>4. CASE b # 0
  <2>1. b \in 1..n /\ b - 1 \in 0..n /\ b - 1 \notin Bad
    BY <1>2, <1>4
  <2>2. PICK g : Values(b - 1, base, step, g)
    BY <2>1 DEF HasValues
  <2> DEFINE h == [k \in 0..b |-> IF k = b THEN step[b][g[b - 1]] ELSE g[k]]
  <2>3. /\ h = [k \in 0..b |-> h[k]]
        /\ \A k \in 0..(b - 1) : h[k] = g[k]
        /\ h[b] = step[b][g[b - 1]]
    BY <2>1
  <2> HIDE DEF h
  <2>4. h[0] = base /\ h[b] = step[b][h[b - 1]]
    <3>1. 0 \in 0..(b - 1) /\ b - 1 \in 0..(b - 1)
      BY <2>1
    <3>2. g[0] = base
      BY <2>2 DEF Values
    <3> QED
      BY <2>3, <3>1, <3>2
  <2>5. \A k \in 1..(b - 1) : h[k] = step[k][h[k - 1]]
    <3> SUFFICES ASSUME NEW k \in 1..(b - 1)
                 PROVE  h[k] = step[k][h[k - 1]]
      OBVIOUS
    <3>1. k - 1 \in 0..(b - 1) /\ k \in 0..(b - 1)
      BY <2>1
    <3>2. g[k] = step[k][g[k - 1]]
      BY <2>2 DEF Values
    <3> QED
      BY <2>3, <3>1, <3>2
  <2>6. Values(b, base, step, h)
    <3>1. \A k \in 1..b : k \in 1..(b - 1) \/ k = b
      BY <2>1
    <3> QED
      BY <2>3, <2>4, <2>5, <3>1 DEF Values
  <2>7. HasValues(b, base, step)
    BY <2>6 DEF HasValues
  <2> QED
    BY <1>2, <2>7
<1> QED
  BY <1>3, <1>4

-----------------------------------------------------------------------------
(* Types.                                                                  *)

ListSet ==
  [status : [Jobs -> Statuses], fails : [Jobs -> 0..Retrials],
   id : [Jobs -> Ids \cup {NoSub}], wtype : [Jobs -> {"none", "vertical", "Simple"}]]

WrapperStatuses == {"none", "SUBMITTED", "QUEUING", "RUNNING", "HELD", "COMPLETED", "FAILED"}

WrapperSet ==
  {w \in [jobs : Seq(Jobs), status : WrapperStatuses, started : SUBSET Jobs,
          inner : SUBSET Jobs, failed : BOOLEAN] : w.inner \subseteq Range(w.jobs)}

SubSet ==
  [state : {"none", "pending", "running", "suspended", "completed", "failed"},
   reason : Reasons \cup {"none"}, kind : AllTypes \cup {"simple"}, lists : Seq(Seq(Jobs)),
   job : [Jobs -> {"no", "todo", "run", "ok", "bad"}], first : SUBSET Jobs,
   tries : [Jobs -> 0..Retrials]]

FileSet ==
  [completed : SUBSET Jobs, failed : SUBSET Jobs, stat : [Jobs -> 0..2],
   wrapperFailed : BOOLEAN, late : SUBSET Jobs]

TypeInv ==
  /\ type \in Types
  /\ list \in ListSet /\ saved \in ListSet
  /\ wrappers \in [Ids -> WrapperSet]
  /\ packages \in Seq(Seq(Jobs))
  /\ todo \subseteq Ids /\ lastId \in 0..MaxId
  /\ subs \in [Ids -> SubSet]
  /\ files \in FileSet

\* What is COMPLETED, here or in the saved list, has its file.
HasFiles(l) == \A j \in Jobs : l.status[j] = "COMPLETED" => j \in files.completed

FilesInv == HasFiles(list) /\ HasFiles(saved)

-----------------------------------------------------------------------------
(* A vertical wrapper.                                                     *)

chain == Chains["vertical"][1]

\* The jobs of a vertical wrapper: each depends on the one before it.
Vertical ==
  /\ "vertical" \in Types
  /\ Len(Chains["vertical"]) = 1 /\ Len(chain) > 1
  /\ Range(chain) = Jobs
  /\ \A m, n \in 1..Len(chain) : chain[m] = chain[n] => m = n
  /\ \A n \in 1..Len(chain) :
       Parents["vertical"][chain[n]] = IF n = 1 THEN {} ELSE {chain[n - 1]}

\* Before the first submission; all waiting again, as only a wrapper that was held by an
\* administrator and cancelled leaves them; under way or over; given up: nothing is in
\* the queue, and a job is FAILED above those that wait.
First(l) ==
  /\ \A j \in Jobs : l.status[j] = IF j = chain[1] THEN "READY" ELSE "WAITING"
  /\ \A j \in Jobs : l.fails[j] = 0 /\ l.wtype[j] = "none" /\ l.id[j] = NoSub
Held(l) == \A j \in Jobs : l.status[j] = "WAITING"
Going(l) == \A j \in Jobs : l.status[j] \in InQueue \cup {"COMPLETED", "FAILED"}
Over(l) ==
  /\ \A j \in Jobs : l.status[j] \in {"COMPLETED", "FAILED", "WAITING"}
  /\ l.status[chain[1]] # "WAITING"
  /\ \A n \in 2..Len(chain) : l.status[chain[n]] = "WAITING" => l.status[chain[n - 1]] # "COMPLETED"

Known(l) == \A j \in Jobs : l.id[j] = lastId /\ l.wtype[j] = "vertical"

ChainSub(s, done) ==
  /\ s.kind = "vertical" /\ s.lists = <<chain>>
  /\ s.state = "pending" => \A j \in Jobs : s.job[j] = "todo"
  /\ \A n \in 1..Len(chain) : \A k \in 1..(n - 1) : s.job[chain[n]] # "todo" => s.job[chain[k]] = "ok"
  /\ done = {j \in Jobs : s.job[j] = "ok"}

SubsInv ==
  /\ \A i \in Ids : i # lastId => ~Alive(i)
  /\ \A i \in Ids, j \in Jobs : subs[i].job[j] = "run" => subs[i].state \in {"running", "suspended"}
  /\ lastId # 0 => ChainSub(subs[lastId], files.completed)

ListInv ==
  /\ lastId = 0 => First(list) /\ First(saved) /\ packages = <<>>
  /\ lastId # 0 => /\ Known(list) /\ Known(saved) /\ packages # <<>>
                   /\ Going(saved) \/ Over(saved)
                   /\ Going(list) \/ Over(list) \/ (Held(list) /\ ~Alive(lastId))
                   /\ Going(list) => wrappers[lastId].jobs = chain
  /\ \A k \in DOMAIN packages : packages[k] = chain
  /\ todo \subseteq {lastId}
  /\ todo # {} => Going(list)

VerticalInv == type = "vertical" => SubsInv /\ ListInv
\* What Among gives, when each of its steps keeps what is said of its values.
LEMMA AmongKeeps ==
  ASSUME NEW P, NEW seq, Len(seq) \in Nat,
         NEW S, <<>> \in S[0],
         \A k \in 1..Len(seq) : \A a \in S[k - 1] : Keep(P, a, seq[k]) \in S[k]
  PROVE  Among(seq, P) \in S[Len(seq)]
<1> DEFINE n == Len(seq)
           step == [k \in 1..n |-> [a \in S[k - 1] |-> Keep(P, a, seq[k])]]
           Is(f) == f = [k \in 0..n |-> IF k = 0 THEN <<>> ELSE Keep(P, f[k - 1], seq[k])]
           f == CHOOSE x : Is(x)
<1>1. Among(seq, P) = f[n]
  BY DEF Among
<1>2. PICK g : Values(n, <<>>, step, g)
  BY ValuesExist DEF HasValues
<1>3. \A k \in 1..n : \A a \in S[k - 1] : step[k][a] = Keep(P, a, seq[k])
  OBVIOUS
<1> HIDE DEF step
<1>4. g[0] = <<>> /\ \A k \in 1..n : g[k] = step[k][g[k - 1]]
  BY <1>2 DEF Values
<1>5. \A k \in 1..n : g[k - 1] \in S[k - 1] => g[k] = Keep(P, g[k - 1], seq[k])
  BY <1>3, <1>4
<1>6. \A k \in 0..n : g[k] \in S[k]
  <2>1. g[0] \in S[0] /\ \A k \in 1..n : g[k - 1] \in S[k - 1] => g[k] \in S[k]
    BY <1>4, <1>5
  <2> QED
    BY <2>1, Stays
<1>7. Is(g)
  <2>1. \A k \in 1..n : k - 1 \in 0..n /\ g[k] = Keep(P, g[k - 1], seq[k])
    BY <1>5, <1>6
  <2>2. g = [k \in 0..n |-> g[k]]
    BY <1>2 DEF Values
  <2>3. \A k \in 0..n : g[k] = IF k = 0 THEN <<>> ELSE Keep(P, g[k - 1], seq[k])
    <3>1. \A k \in 0..n : k = 0 \/ k \in 1..n
      OBVIOUS
    <3> QED
      BY <1>4, <2>1, <3>1
  <2> QED
    BY <2>2, <2>3
<1>8. Is(f)
  BY <1>7
<1> HIDE DEF f
<1>9. f[0] = <<>> /\ \A k \in 1..n : f[k] = Keep(P, f[k - 1], seq[k])
  BY <1>8
<1>10. \A k \in 0..n : f[k] \in S[k]
  BY <1>9, Stays
<1> QED
  BY <1>1, <1>10

\* Its elements are those of the sequence and of the set.
LEMMA AmongType ==
  ASSUME NEW T, NEW P, NEW seq \in Seq(T)
  PROVE  Among(seq, P) \in Seq(T \cap P)
<1> DEFINE S == [k \in 0..Len(seq) |-> Seq(T \cap P)]
<1>1. \A k \in 1..Len(seq) : \A a \in S[k - 1] : Keep(P, a, seq[k]) \in S[k]
  <2> SUFFICES ASSUME NEW k \in 1..Len(seq), NEW a \in Seq(T \cap P)
               PROVE  Keep(P, a, seq[k]) \in Seq(T \cap P)
    <3>1. \A k \in 1..Len(seq) : S[k - 1] = Seq(T \cap P) /\ S[k] = Seq(T \cap P)
      OBVIOUS
    <3> QED
      BY <3>1
  <2>1. seq[k] \in T
    OBVIOUS
  <2>2. CASE seq[k] \in P
    BY <2>1, <2>2 DEF Keep
  <2>3. CASE seq[k] \notin P
    BY <2>3 DEF Keep
  <2> QED
    BY <2>2, <2>3
<1>2. <<>> \in S[0] /\ S[Len(seq)] = Seq(T \cap P) /\ Len(seq) \in Nat
  OBVIOUS
<1> HIDE DEF S
<1> QED
  BY <1>1, <1>2, AmongKeeps

\* A sequence all of whose elements are in the set is left as it is.
LEMMA AmongAll ==
  ASSUME NEW P, NEW seq \in Seq(P)
  PROVE  Among(seq, P) = seq
<1> DEFINE S == [k \in 0..Len(seq) |-> {SubSeq(seq, 1, k)}]
<1>1. \A k \in 1..Len(seq) : \A a \in S[k - 1] : Keep(P, a, seq[k]) \in S[k]
  <2> SUFFICES ASSUME NEW k \in 1..Len(seq)
               PROVE  Keep(P, SubSeq(seq, 1, k - 1), seq[k]) = SubSeq(seq, 1, k)
    <3>1. \A k \in 1..Len(seq) : /\ S[k - 1] = {SubSeq(seq, 1, k - 1)}
                                /\ S[k] = {SubSeq(seq, 1, k)}
      OBVIOUS
    <3> QED
      BY <3>1
  <2>1. Append(SubSeq(seq, 1, k - 1), seq[k]) = SubSeq(seq, 1, k)
    OBVIOUS
  <2>2. seq[k] \in P
    OBVIOUS
  <2> QED
    BY <2>1, <2>2 DEF Keep
<1>2. <<>> \in S[0] /\ S[Len(seq)] = {seq} /\ Len(seq) \in Nat
  OBVIOUS
<1> HIDE DEF S
<1> QED
  BY <1>1, <1>2, AmongKeeps

\* A list of lists, one after the other.
LEMMA FlattenType ==
  ASSUME NEW T, NEW seqs \in Seq(Seq(T))
  PROVE  FlattenSeq(seqs) \in Seq(T)
<1>1. CASE Len(seqs) = 0
  BY <1>1 DEF FlattenSeq
<1>2. CASE Len(seqs) # 0
  <2> DEFINE N == Len(seqs)
             Is(f) == f = [k \in 1..N |-> IF k = 1 THEN seqs[k] ELSE f[k - 1] \o seqs[k]]
             f == CHOOSE x : Is(x)
  <2>1. FlattenSeq(seqs) = f[N]
    BY <1>2 DEF FlattenSeq
  <2>2. N \in Nat /\ N # 0 /\ \A k \in 1..N : seqs[k] \in Seq(T)
    BY <1>2
  <2> HIDE DEF N
  <2> DEFINE n == N - 1
             step == [k \in 1..n |-> [a \in Seq(T) |-> a \o seqs[k + 1]]]
             S == [k \in 0..n |-> Seq(T)]
  <2>3. /\ n \in Nat
        /\ \A k \in 1..n : k - 1 \in 0..n /\ k + 1 \in 1..N
        /\ \A k \in 0..n : k + 1 \in 1..N
        /\ \A k \in 1..N : k - 1 \in 0..n /\ (k = 1 \/ k - 1 \in 1..n)
        /\ N = n + 1
    BY <2>2
  <2>4. \A k \in 0..n : S[k] = Seq(T)
    OBVIOUS
  <2>5. \A k \in 1..n : \A a \in Seq(T) : step[k][a] = a \o seqs[k + 1]
    OBVIOUS
  <2> HIDE DEF n, S, step
  <2>6. PICK g : Values(n, seqs[1], step, g)
    BY <2>3, ValuesExist DEF HasValues
  <2>7. g[0] = seqs[1] /\ \A k \in 1..n : g[k] = step[k][g[k - 1]]
    BY <2>6 DEF Values
  <2>8. \A k \in 1..n : g[k - 1] \in Seq(T) => g[k] = g[k - 1] \o seqs[k + 1]
    BY <2>5, <2>7
  <2>9. \A k \in 1..n : \A a \in Seq(T) : a \o seqs[k + 1] \in Seq(T)
    BY <2>2, <2>3
  <2>10. 0 \in 0..n /\ \A k \in 1..n : k \in 0..n /\ k - 1 \in 0..n
    BY <2>3
  <2>11. \A k \in 0..n : g[k] \in Seq(T)
    <3>1. g[0] \in S[0]
      <4>1. 1 \in 1..N
        BY <2>2
      <4> QED
        BY <2>2, <2>4, <2>7, <2>10, <4>1
    <3>2. \A k \in 1..n : g[k - 1] \in S[k - 1] => g[k] \in S[k]
      BY <2>4, <2>8, <2>9, <2>10
    <3>3. \A k \in 0..n : g[k] \in S[k]
      BY <2>3, <3>1, <3>2, Stays
    <3> QED
      BY <2>4, <3>3
  <2> DEFINE h == [k \in 1..N |-> g[k - 1]]
  <2>12. Is(h)
    <3>1. \A k \in 1..N : h[k] = g[k - 1]
      OBVIOUS
    <3>2. h = [k \in 1..N |-> h[k]]
      OBVIOUS
    <3> HIDE DEF h
    <3>3. \A k \in 1..N : h[k] = IF k = 1 THEN seqs[k] ELSE h[k - 1] \o seqs[k]
      <4> SUFFICES ASSUME NEW k \in 1..N
                   PROVE  h[k] = IF k = 1 THEN seqs[k] ELSE h[k - 1] \o seqs[k]
        OBVIOUS
      <4>1. CASE k = 1
        BY <2>7, <3>1, <4>1
      <4>2. CASE k # 1
        <5>1. k - 1 \in 1..n /\ k - 1 \in 1..N /\ (k - 1) + 1 = k
          BY <2>3, <4>2
        <5>2. g[k - 1] = g[(k - 1) - 1] \o seqs[(k - 1) + 1]
          BY <2>8, <2>11, <2>10, <5>1
        <5> QED
          BY <3>1, <4>2, <5>1, <5>2
      <4> QED
        BY <4>1, <4>2
    <3> QED
      BY <3>2, <3>3
  <2>13. Is(f)
    BY <2>12
  <2> HIDE DEF f
  <2>14. \A k \in 1..N : f[k] = IF k = 1 THEN seqs[k] ELSE f[k - 1] \o seqs[k]
    BY <2>13
  <2> DEFINE e == [k \in 0..n |-> f[k + 1]]
  <2>15. \A k \in 0..n : e[k] = f[k + 1]
    OBVIOUS
  <2> HIDE DEF e
  <2>16. \A k \in 0..n : e[k] \in S[k]
    <3>1. e[0] \in S[0]
      <4>1. 1 \in 1..N /\ 0 + 1 = 1
        BY <2>2
      <4>2. f[1] = seqs[1]
        BY <2>14, <4>1
      <4> QED
        BY <2>2, <2>4, <2>10, <2>15, <4>1, <4>2
    <3>2. \A k \in 1..n : e[k - 1] \in S[k - 1] => e[k] \in S[k]
      <4> SUFFICES ASSUME NEW k \in 1..n, e[k - 1] \in S[k - 1]
                   PROVE  e[k] \in S[k]
        OBVIOUS
      <4>1. k + 1 \in 1..N /\ k + 1 # 1 /\ (k + 1) - 1 = k /\ (k - 1) + 1 = k
        BY <2>3
      <4>2. f[k + 1] = f[k] \o seqs[k + 1]
        BY <2>14, <4>1
      <4>3. e[k - 1] = f[k] /\ e[k] = f[k + 1]
        BY <2>10, <2>15, <4>1
      <4> QED
        BY <2>4, <2>9, <2>10, <4>2, <4>3
    <3> QED
      BY <2>3, <3>1, <3>2, Stays
  <2>17. n \in 0..n /\ e[n] = f[N]
    BY <2>3, <2>15
  <2> QED
    BY <2>1, <2>4, <2>16, <2>17
<1> QED
  BY <1>1, <1>2

-----------------------------------------------------------------------------
(* The WrapperJob: what a check makes of the list and of the wrapper.      *)

XSet ==
  {x \in [l : ListSet,
          w : [jobs : Seq(Jobs), status : WrapperStatuses \cup {"WAITING"},
               started : SUBSET Jobs, inner : SUBSET Jobs, failed : BOOLEAN],
          cancel : BOOLEAN, forget : BOOLEAN] : x.w.inner \subseteq Range(x.w.jobs)}

\* What every part of a check leaves alone, and that it takes no job for COMPLETED
\* that has no file.
Follows(x, y) ==
  /\ y \in XSet /\ y.w.jobs = x.w.jobs
  /\ y.l.id = x.l.id /\ y.l.wtype = x.l.wtype
  /\ HasFiles(x.l) => HasFiles(y.l)

\* Parts that put no job back.
Quiet(x, y) ==
  /\ Follows(x, y)
  /\ y.w.status \in {x.w.status, "FAILED"}
  /\ y.cancel = x.cancel
  /\ Going(x.l) => Going(y.l)

\* With(v, F) is F(v).
LEMMA One == \A v : (CHOOSE r \in {v} : TRUE) = v
  OBVIOUS

\* Two quiet steps are a quiet step.
LEMMA QuietTwice ==
  ASSUME NEW x, NEW y, NEW z, Quiet(x, y), Quiet(y, z)
  PROVE  Quiet(x, z)
BY DEF Quiet, Follows

\* Jobs get a status: nothing else of the check changes.
LEMMA SetStatusIs ==
  ASSUME NEW x \in XSet, NEW js, NEW s \in Statuses
  PROVE  /\ SetStatus(x, js, s) \in XSet
         /\ SetStatus(x, js, s).w = x.w
         /\ SetStatus(x, js, s).cancel = x.cancel
         /\ SetStatus(x, js, s).forget = x.forget
         /\ SetStatus(x, js, s).l.id = x.l.id
         /\ SetStatus(x, js, s).l.wtype = x.l.wtype
         /\ SetStatus(x, js, s).l.fails = x.l.fails
         /\ \A j \in Jobs : SetStatus(x, js, s).l.status[j] = IF j \in js THEN s ELSE x.l.status[j]
<1>1. x.l \in ListSet /\ x.l.status \in [Jobs -> Statuses]
  BY DEF XSet, ListSet
<1> DEFINE f == [j \in Jobs |-> IF j \in js THEN s ELSE x.l.status[j]]
<1>2. f \in [Jobs -> Statuses]
  BY <1>1
<1>3. SetStatus(x, js, s) = [x EXCEPT !.l = [x.l EXCEPT !.status = f]]
  BY <1>1 DEF SetStatus, XSet, ListSet
<1>4. \A j \in Jobs : f[j] = IF j \in js THEN s ELSE x.l.status[j]
  OBVIOUS
<1> HIDE DEF f
<1>5. [x.l EXCEPT !.status = f] \in ListSet
  BY <1>1, <1>2 DEF ListSet
<1> DEFINE y == SetStatus(x, js, s)
<1>6. y \in XSet
  BY <1>3, <1>5 DEF XSet
<1>7. y.l = [x.l EXCEPT !.status = f] /\ y.w = x.w /\ y.cancel = x.cancel /\ y.forget = x.forget
  BY <1>3 DEF XSet
<1> HIDE DEF y
<1>8. y.l.status = f /\ y.l.id = x.l.id /\ y.l.wtype = x.l.wtype /\ y.l.fails = x.l.fails
  BY <1>1, <1>7 DEF ListSet
<1> QED
  BY <1>4, <1>6, <1>7, <1>8 DEF y

\* A status other than COMPLETED, WAITING and READY.
LEMMA SetStatusQuiet ==
  ASSUME NEW x \in XSet, NEW js, NEW s \in InQueue \cup {"FAILED"}
  PROVE  Quiet(x, SetStatus(x, js, s))
<1>1. s \in Statuses /\ s # "COMPLETED"
  BY DEF Statuses, InQueue
<1> QED
  BY <1>1, SetStatusIs DEF Quiet, Follows, HasFiles, Going

\* Jobs that have ended are COMPLETED, with their file, or FAILED; the others are left.
LEMMA FinishedIs ==
  ASSUME NEW x \in XSet, NEW js, files \in FileSet
  PROVE  /\ Quiet(x, Finished(x, js))
         /\ Finished(x, js).w.status = x.w.status
         /\ Finished(x, js).w.inner = x.w.inner
         /\ Finished(x, js).w.failed = x.w.failed
         /\ \A j \in Jobs \ js : Finished(x, js).l.status[j] = x.l.status[j]
         /\ \A j \in Jobs \cap js : Finished(x, js).l.status[j] \in {"COMPLETED", "FAILED"}
<1>1. x.l \in ListSet /\ x.l.status \in [Jobs -> Statuses]
  BY DEF XSet, ListSet
<1> DEFINE f == [j \in Jobs |-> IF j \notin js THEN x.l.status[j]
                                ELSE IF j \in files.completed THEN "COMPLETED" ELSE "FAILED"]
           y == Finished(x, js)
<1>2. f \in [Jobs -> Statuses]
  BY <1>1 DEF Statuses
<1>3. y = [x EXCEPT !.l = [x.l EXCEPT !.status = f],
                    !.w = [x.w EXCEPT !.started = @ \ js]]
  BY <1>1 DEF Finished, XSet, ListSet
<1>4. /\ \A j \in Jobs \ js : f[j] = x.l.status[j]
      /\ \A j \in Jobs \cap js : f[j] \in {"COMPLETED", "FAILED"}
      /\ \A j \in Jobs \cap js : f[j] = "COMPLETED" => j \in files.completed
  OBVIOUS
<1> HIDE DEF f, y
<1>5. [x.l EXCEPT !.status = f] \in ListSet
  BY <1>1, <1>2 DEF ListSet
<1>6. y \in XSet
  BY <1>3, <1>5 DEF XSet
<1>7. /\ y.l.status = f /\ y.l.id = x.l.id /\ y.l.wtype = x.l.wtype
      /\ y.w.jobs = x.w.jobs /\ y.w.status = x.w.status /\ y.w.inner = x.w.inner
      /\ y.w.failed = x.w.failed /\ y.cancel = x.cancel
  BY <1>1, <1>3 DEF XSet, ListSet
<1>8. HasFiles(x.l) => HasFiles(y.l)
  BY <1>4, <1>7 DEF HasFiles
<1>9. Going(x.l) => Going(y.l)
  BY <1>4, <1>7 DEF Going
<1> QED
  BY <1>4, <1>6, <1>7, <1>8, <1>9 DEF Quiet, Follows, y

\* A check of the jobs that may be running takes them for the inner jobs.
LEMMA CheckRunningIs ==
  ASSUME NEW x \in XSet, files \in FileSet
  PROVE  /\ Quiet(x, CheckRunning(x))
         /\ CheckRunning(x).w.inner = Open(x)
         /\ \A j \in Jobs \ Open(x) : CheckRunning(x).l.status[j] = x.l.status[j]
<1> DEFINE open == Open(x)
           seen == {j \in open : files.stat[j] > 0}
           a == [x EXCEPT !.w.inner = open, !.w.started = @ \cup seen]
           b == SetStatus(a, seen \ x.w.started, "RUNNING")
           js == {j \in seen : files.stat[j] = 2}
           y == Finished(b, js)
           running == Among(x.w.jobs, {j \in seen : files.stat[j] = 1})
           late == Range(running) \cap files.late
           ls == IF type = "vertical" THEN {} ELSE late
           z == SetStatus(y, ls, "FAILED")
           r == [z EXCEPT !.w.status = IF running # <<>> /\ Last(running) \in late
                                       THEN "FAILED" ELSE @]
<1>1. CheckRunning(x) = r
  BY DEF CheckRunning
<1>2. open \subseteq Jobs /\ open \subseteq Range(x.w.jobs)
  <2>1. x.w.jobs \in Seq(Jobs)
    BY DEF XSet
  <2> QED
    BY <2>1 DEF Open, Range
<1>3. seen \subseteq open /\ js \subseteq open
  OBVIOUS
<1> HIDE DEF open, seen, js
<1>4. a \in XSet /\ a.l = x.l /\ a.w.jobs = x.w.jobs /\ a.w.status = x.w.status /\ a.w.inner = open
      /\ a.cancel = x.cancel
  BY <1>2, <1>3 DEF XSet
<1> HIDE DEF a
<1>5. Quiet(x, a)
  BY <1>4 DEF Quiet, Follows
<1>6. Quiet(a, b) /\ b.w = a.w /\ b \in XSet
      /\ \A j \in Jobs \ open : b.l.status[j] = a.l.status[j]
  <2>1. "RUNNING" \in InQueue \cup {"FAILED"} /\ "RUNNING" \in Statuses
    BY DEF InQueue, Statuses
  <2> QED
    BY <1>3, <1>4, <2>1, SetStatusIs, SetStatusQuiet
<1> HIDE DEF b
<1>7. Quiet(b, y) /\ y.w.inner = b.w.inner /\ y.w.status = b.w.status /\ y \in XSet
      /\ \A j \in Jobs \ open : y.l.status[j] = b.l.status[j]
  BY <1>3, <1>6, FinishedIs DEF Quiet, Follows
<1> HIDE DEF y
<1>8. Quiet(y, z) /\ z.w = y.w /\ z \in XSet
  <2>1. "FAILED" \in Statuses
    BY DEF Statuses
  <2> HIDE DEF ls
  <2> QED
    BY <1>7, <2>1, SetStatusIs, SetStatusQuiet
<1>9. \A j \in Jobs \ open : z.l.status[j] = y.l.status[j]
  <2>1. x.w.jobs \in Seq(Jobs) /\ "FAILED" \in Statuses
    BY DEF XSet, Statuses
  <2>2. running \in Seq(Jobs \cap {j \in seen : files.stat[j] = 1})
    BY <2>1, AmongType
  <2> HIDE DEF running
  <2>3. Range(running) \subseteq open
    BY <1>3, <2>2 DEF Range
  <2>4. ls \subseteq open
    BY <2>3
  <2> HIDE DEF ls
  <2> QED
    BY <1>7, <2>1, <2>4, SetStatusIs
<1> DEFINE over == running # <<>> /\ Last(running) \in late
<1>10. r = [z EXCEPT !.w.status = IF over THEN "FAILED" ELSE @]
  OBVIOUS
<1> HIDE DEF z, r, over
<1>11. r \in XSet /\ r.l = z.l /\ r.w.jobs = z.w.jobs /\ r.w.inner = z.w.inner
       /\ r.w.status \in {z.w.status, "FAILED"} /\ r.cancel = z.cancel
  BY <1>8, <1>10 DEF XSet, WrapperStatuses
<1>12. Quiet(z, r)
  BY <1>11 DEF Quiet, Follows
<1>13. Quiet(x, r)
  BY <1>5, <1>6, <1>7, <1>8, <1>12, QuietTwice
<1> QED
  BY <1>1, <1>4, <1>6, <1>7, <1>8, <1>9, <1>11, <1>13 DEF open

\* check_wrapper_status of a wrapper that completed: its jobs are asked for their files.
LEMMA CheckCompletedIs ==
  ASSUME NEW x \in XSet, files \in FileSet
  PROVE  Quiet(x, CheckCompleted(x)) /\ CheckCompleted(x).w.status = x.w.status
BY FinishedIs DEF CheckCompleted

\* update_failed_jobs: some of the jobs are FAILED, the wrapper keeps its status.
LEMMA UpdateFailedIs ==
  ASSUME NEW x \in XSet, NEW ready
  PROVE  /\ Quiet(x, UpdateFailed(x, ready))
         /\ UpdateFailed(x, ready).w.status = x.w.status
         /\ \A j \in Jobs : UpdateFailed(x, ready).l.status[j] \in {x.l.status[j], "FAILED"}
<1> DEFINE js == x.w.inner \cup
                   (IF ready THEN {j \in Range(x.w.jobs) :
                                     x.l.status[j] \in {"READY", "SUBMITTED", "QUEUING"}}
                    ELSE {})
           a == SetStatus(x, js \cap files.failed, "FAILED")
           r == [a EXCEPT !.w.inner = {}, !.w.started = @ \ files.failed]
<1>1. UpdateFailed(x, ready) = r
  BY DEF UpdateFailed
<1> HIDE DEF js
<1>2. /\ Quiet(x, a) /\ a.w = x.w /\ a \in XSet
      /\ \A j \in Jobs : a.l.status[j] \in {x.l.status[j], "FAILED"}
  <2>1. "FAILED" \in Statuses
    BY DEF Statuses
  <2> QED
    BY <2>1, SetStatusIs, SetStatusQuiet
<1> HIDE DEF a
<1>3. r \in XSet /\ r.l = a.l /\ r.w.jobs = a.w.jobs /\ r.w.status = a.w.status /\ r.cancel = a.cancel
  BY <1>2 DEF XSet
<1>4. Quiet(a, r)
  BY <1>3 DEF Quiet, Follows
<1> QED
  BY <1>1, <1>2, <1>3, <1>4, QuietTwice

\* cancel_failed_wrapper_job: what was under way has failed, what was not waits.
LEMMA CancelWrapperIs ==
  ASSUME NEW x \in XSet, files \in FileSet
  PROVE  LET y == CancelWrapper(x) IN
         /\ Follows(x, y)
         /\ y.w.status \in {x.w.status, "FAILED"}
         /\ \A j \in Jobs \cap Open(x) : y.l.status[j] = "FAILED"
         /\ \A j \in (Jobs \cap Range(x.w.jobs)) \ Open(x) :
              y.l.status[j] = IF x.l.status[j] \in {"COMPLETED", "FAILED"} THEN x.l.status[j] ELSE "WAITING"
<1> DEFINE a == CheckRunning(x)
           b == SetStatus(a, a.w.inner, "FAILED")
           js == Range(x.w.jobs)
           C(z) == LET over == {j \in js : z.l.status[j] \in {"COMPLETED", "FAILED"}}
                   IN [SetStatus(z, js \ over, "WAITING")
                         EXCEPT !.cancel = TRUE,
                                !.l.fails = [j \in Jobs |->
                                   IF j \in over /\ x.l.wtype[j] = "vertical" THEN Retrials ELSE @[j]]]
           r == C(b)
<1>1. CancelWrapper(x) = r
  <2> DEFINE B(y) == With(SetStatus(y, y.w.inner, "FAILED"), C)
  <2>1. CancelWrapper(x) = With(a, B)
    BY DEF CancelWrapper
  <2>2. B(a) = With(b, C)
    OBVIOUS
  <2> HIDE DEF B, C
  <2>3. {B(w) : w \in {a}} = {B(a)} /\ {C(w) : w \in {b}} = {C(b)}
    OBVIOUS
  <2> QED
    BY <2>1, <2>2, <2>3, One DEF With
<1>2. Quiet(x, a) /\ a \in XSet /\ a.w.inner = Open(x)
      /\ \A j \in Jobs \ Open(x) : a.l.status[j] = x.l.status[j]
  BY CheckRunningIs DEF Quiet, Follows
<1> HIDE DEF a
<1>3. /\ Quiet(a, b) /\ b \in XSet /\ b.w = a.w
      /\ \A j \in Jobs : b.l.status[j] = IF j \in Open(x) THEN "FAILED" ELSE a.l.status[j]
  <2>1. "FAILED" \in Statuses
    BY DEF Statuses
  <2> QED
    BY <1>2, <2>1, SetStatusIs, SetStatusQuiet
<1> HIDE DEF b
<1> DEFINE over == {j \in js : b.l.status[j] \in {"COMPLETED", "FAILED"}}
           c == SetStatus(b, js \ over, "WAITING")
           f == [j \in Jobs |-> IF j \in over /\ x.l.wtype[j] = "vertical"
                                THEN Retrials ELSE c.l.fails[j]]
<1>4. r = [c EXCEPT !.cancel = TRUE, !.l.fails = f]
  <2>1. c \in XSet
    <3>1. "WAITING" \in Statuses
      BY DEF Statuses
    <3> QED
      BY <1>3, <3>1, SetStatusIs
  <2> HIDE DEF c, over
  <2> QED
    BY <2>1 DEF XSet, ListSet, c, over
<1>5. /\ c \in XSet /\ c.w = b.w /\ c.l.id = b.l.id /\ c.l.wtype = b.l.wtype
      /\ \A j \in Jobs : c.l.status[j] = IF j \in js \ over THEN "WAITING" ELSE b.l.status[j]
  <2>1. "WAITING" \in Statuses
    BY DEF Statuses
  <2> HIDE DEF over
  <2> QED
    BY <1>3, <2>1, SetStatusIs
<1>6. \A j \in Jobs : j \in js \ over <=> j \in js /\ b.l.status[j] \notin {"COMPLETED", "FAILED"}
  OBVIOUS
<1> HIDE DEF c, over
<1>7. f \in [Jobs -> 0..Retrials]
  BY <1>5, WrappersAssumption DEF XSet, ListSet
<1> HIDE DEF f
<1>8. /\ r \in XSet /\ r.w = c.w /\ r.l.status = c.l.status /\ r.l.id = c.l.id
      /\ r.l.wtype = c.l.wtype
  <2> HIDE DEF r
  <2>1. c.l \in ListSet
    BY <1>5 DEF XSet
  <2>2. [c.l EXCEPT !.fails = f] \in ListSet
    BY <1>7, <2>1 DEF ListSet
  <2>3. r = [c EXCEPT !.cancel = TRUE, !.l = [c.l EXCEPT !.fails = f]]
    BY <1>4, <1>5 DEF XSet, ListSet
  <2>4. r \in XSet
    BY <1>5, <2>2, <2>3 DEF XSet
  <2>5. r.w = c.w /\ r.l = [c.l EXCEPT !.fails = f]
    BY <1>5, <2>3 DEF XSet
  <2> QED
    BY <2>1, <2>4, <2>5 DEF ListSet
<1> HIDE DEF r
<1>9. HasFiles(b.l) => HasFiles(r.l)
  BY <1>5, <1>8 DEF HasFiles
<1>10. Follows(x, r)
  BY <1>2, <1>3, <1>5, <1>8, <1>9 DEF Quiet, Follows
<1>11. r.w.status \in {x.w.status, "FAILED"}
  BY <1>2, <1>3, <1>5, <1>8 DEF Quiet
<1>12. \A j \in Jobs : r.l.status[j] =
         IF j \in js /\ b.l.status[j] \notin {"COMPLETED", "FAILED"} THEN "WAITING" ELSE b.l.status[j]
  BY <1>5, <1>6, <1>8
<1>13. \A j \in Jobs \cap Open(x) : r.l.status[j] = "FAILED"
  BY <1>3, <1>12
<1>14. \A j \in (Jobs \cap js) \ Open(x) :
          r.l.status[j] = IF x.l.status[j] \in {"COMPLETED", "FAILED"} THEN x.l.status[j] ELSE "WAITING"
  BY <1>2, <1>3, <1>12
<1> QED
  BY <1>1, <1>10, <1>11, <1>13, <1>14

\* How a check may leave the jobs of a vertical wrapper that were under way: still so,
\* or given up, or put back with a wrapper that is cancelled.
Left(y) ==
  \/ (Going(y.l) \/ Over(y.l)) /\ y.w.status # "WAITING"
  \/ Held(y.l) /\ y.cancel /\ y.w.status = "WAITING"

Put(x, y) ==
  /\ Follows(x, y)
  /\ /\ type = "vertical" /\ Vertical /\ x.w.jobs = chain
     /\ Going(x.l) /\ x.w.status # "WAITING"
     => Left(y)

\* What is quiet puts the list in one of the ways of Put.
LEMMA QuietPuts ==
  ASSUME NEW x, NEW y, Quiet(x, y)
  PROVE  Put(x, y)
BY DEF Quiet, Put, Left, Follows

\* A quiet step before one of those ways changes nothing of it.
LEMMA QuietThenPut ==
  ASSUME NEW x, NEW y, NEW z, Quiet(x, y), Put(y, z)
  PROVE  Put(x, z)
BY DEF Quiet, Put, Follows

\* The first job of the chain that is not COMPLETED has failed when the wrapper is
\* given up: it was the one that may have been running.
LEMMA CancelPuts ==
  ASSUME NEW x \in XSet, files \in FileSet
  PROVE  Put(x, CancelWrapper(x))
<1> DEFINE y == CancelWrapper(x)
<1>1. /\ Follows(x, y)
      /\ y.w.status \in {x.w.status, "FAILED"}
      /\ \A j \in Jobs \cap Open(x) : y.l.status[j] = "FAILED"
      /\ \A j \in (Jobs \cap Range(x.w.jobs)) \ Open(x) :
           y.l.status[j] = IF x.l.status[j] \in {"COMPLETED", "FAILED"} THEN x.l.status[j] ELSE "WAITING"
  BY CancelWrapperIs
<1> HIDE DEF y
<1>2. ASSUME type = "vertical", Vertical, x.w.jobs = chain, x.w.status # "WAITING"
      PROVE  Left(y)
  <2>1. Range(x.w.jobs) = Jobs /\ Len(chain) \in Nat /\ Len(chain) > 1
        /\ \A n \in 1..Len(chain) : chain[n] \in Jobs
    BY <1>2, WrappersAssumption DEF Vertical, Range, chain, XSet
  <2>2. \A j \in Jobs : j \in Open(x) <=> /\ x.l.status[j] \notin {"COMPLETED", "FAILED"}
                                        /\ \A p \in Parents["vertical"][j] :
                                             x.l.status[p] = "COMPLETED" \/ x.w.status = "COMPLETED"
    BY <1>2, <2>1 DEF Open
  <2>3. \A j \in Jobs : y.l.status[j] \in {"COMPLETED", "FAILED", "WAITING"}
    BY <1>1, <2>1
  <2>6. \A n \in 1..Len(chain) :
          Parents["vertical"][chain[n]] = IF n = 1 THEN {} ELSE {chain[n - 1]}
    BY <1>2, Zenon DEF Vertical
  <2>7. 1 \in 1..Len(chain)
    BY <2>1
  <2>4. y.l.status[chain[1]] # "WAITING"
    <3>1. Parents["vertical"][chain[1]] = {}
      BY <2>6, <2>7, Zenon
    <3> QED
      BY <1>1, <2>1, <2>2, <2>7, <3>1
  <2>5. ASSUME NEW n \in 2..Len(chain), y.l.status[chain[n]] = "WAITING"
        PROVE  y.l.status[chain[n - 1]] # "COMPLETED"
    <3>1. n \in 1..Len(chain) /\ n - 1 \in 1..Len(chain) /\ n # 1
      BY <2>1
    <3>2. Parents["vertical"][chain[n]] = {chain[n - 1]}
      BY <2>6, <3>1, Zenon
    <3>3. chain[n] \in Jobs /\ chain[n - 1] \in Jobs
      BY <2>1, <3>1
    <3>4. chain[n] \notin Open(x) /\ x.l.status[chain[n]] \notin {"COMPLETED", "FAILED"}
      BY <1>1, <2>1, <2>5, <3>3
    <3>5. x.l.status[chain[n - 1]] # "COMPLETED"
      BY <2>2, <3>2, <3>3, <3>4
    <3> QED
      BY <1>1, <2>1, <3>3, <3>5
  <2> QED
    BY <1>1, <1>2, <2>3, <2>4, <2>5 DEF Left, Over
<1> QED
  BY <1>1, <1>2 DEF Put, y

\* A wrapper that waits in the queue of Slurm: it may be cancelled, or held, for its reason.
LEMMA CheckQueueIs ==
  ASSUME NEW x \in XSet, NEW before \in WrapperStatuses, NEW reason, files \in FileSet, x.w.status = "QUEUING"
  PROVE  Put(x, CheckQueue(x, before, reason))
<1> DEFINE s == CASE reason = "JobHeldUser" -> "HELD"
                  [] reason = "JobHeldAdmin" -> "WAITING"
                  [] OTHER -> x.w.status
           a == [x EXCEPT !.w.status = s, !.cancel = @ \/ reason = "JobHeldAdmin"]
           U(z) == With(UpdateFailed(z, TRUE), CancelWrapper)
           B(y) == CASE QueuingReasonCancel(reason) -> With(CheckRunning(x), U)
                     [] ~QueuingReasonCancel(reason) /\ y.w.status = before -> y
                     [] OTHER -> SetStatus(y, Range(y.w.jobs), y.w.status)
<1>1. CheckQueue(x, before, reason) = B(a)
  <2>1. CheckQueue(x, before, reason) = With(a, B)
    BY DEF CheckQueue
  <2> HIDE DEF B
  <2>2. {B(w) : w \in {a}} = {B(a)}
    OBVIOUS
  <2> QED
    BY <2>1, <2>2, One DEF With
<1>2. s \in {"HELD", "WAITING", "QUEUING"} /\ (s = "WAITING" => reason = "JobHeldAdmin")
  BY Zenon
<1>3. a \in XSet /\ a.l = x.l /\ a.w.jobs = x.w.jobs /\ a.w.status = s
      /\ a.cancel = (x.cancel \/ reason = "JobHeldAdmin")
  BY <1>2 DEF XSet, WrapperStatuses
<1> HIDE DEF a, s
<1>4. CASE QueuingReasonCancel(reason)
  <2> DEFINE r == CheckRunning(x)
             u == UpdateFailed(r, TRUE)
  <2>1. B(a) = CancelWrapper(u)
    <3>1. B(a) = With(r, U)
      BY <1>4
    <3>2. U(r) = With(u, CancelWrapper)
      OBVIOUS
    <3> HIDE DEF U, B, r, u
    <3>3. {U(w) : w \in {r}} = {U(r)} /\ {CancelWrapper(w) : w \in {u}} = {CancelWrapper(u)}
      OBVIOUS
    <3> QED
      BY <3>1, <3>2, <3>3, One DEF With
  <2> HIDE DEF B, U
  <2>2. Quiet(x, r) /\ r \in XSet
    BY CheckRunningIs DEF Quiet, Follows
  <2> HIDE DEF r
  <2>3. Quiet(r, u) /\ u \in XSet
    BY <2>2, UpdateFailedIs DEF Quiet, Follows
  <2> HIDE DEF u
  <2> QED
    BY <1>1, <2>1, <2>2, <2>3, CancelPuts, QuietThenPut
<1>5. CASE ~QueuingReasonCancel(reason) /\ a.w.status = before
  <2>1. B(a) = a
    BY <1>5
  <2> HIDE DEF B
  <2> QED
    BY <1>1, <1>3, <1>5, <2>1 DEF Put, Follows, Left, WrapperStatuses
<1>6. CASE ~QueuingReasonCancel(reason) /\ a.w.status # before
  <2> DEFINE js == Range(a.w.jobs)
             z == SetStatus(a, js, a.w.status)
  <2>1. B(a) = z
    BY <1>6
  <2> HIDE DEF B
  <2>2. /\ z \in XSet /\ z.w = a.w /\ z.cancel = a.cancel
        /\ z.l.id = a.l.id /\ z.l.wtype = a.l.wtype
        /\ \A j \in Jobs : z.l.status[j] = IF j \in js THEN a.w.status ELSE a.l.status[j]
    <3>1. a.w.status \in Statuses
      BY <1>2, <1>3 DEF Statuses, InQueue
    <3> HIDE DEF js
    <3> QED
      BY <1>3, <3>1, SetStatusIs
  <2> HIDE DEF z
  <2>3. a.w.status # "COMPLETED"
    BY <1>2, <1>3
  <2>4. Follows(x, z)
    BY <1>3, <2>2, <2>3 DEF Follows, HasFiles
  <2>5. ASSUME Vertical, x.w.jobs = chain
        PROVE  Left(z)
    <3>1. \A j \in Jobs : z.l.status[j] = a.w.status
      BY <1>3, <2>2, <2>5 DEF Vertical
    <3>2. CASE a.w.status = "WAITING"
      BY <1>2, <1>3, <2>2, <3>1, <3>2 DEF Left, Held
    <3>3. CASE a.w.status # "WAITING"
      BY <1>2, <1>3, <2>2, <3>1, <3>3 DEF Left, Going, InQueue
    <3> QED
      BY <3>2, <3>3
  <2> QED
    BY <1>1, <2>1, <2>4, <2>5 DEF Put
<1> QED
  BY <1>4, <1>5, <1>6

\* The same of a wrapper that is FAILED and whose jobs were given up before.
Kept(x, y) ==
  /\ y.w.jobs = x.w.jobs
  /\ x.w.status = "FAILED" => y.w.status = "FAILED"
  /\ type = "vertical" /\ Vertical /\ x.w.jobs = chain /\ x.w.status = "FAILED" /\ Over(x.l)
     => Over(y.l)

\* What two steps keep, both together keep.
LEMMA KeptTwice ==
  ASSUME NEW x, NEW y, NEW z, Kept(x, y), Kept(y, z)
  PROVE  Kept(x, z)
BY DEF Kept

\* The jobs of the chain.
LEMMA ChainIs ==
  ASSUME Vertical
  PROVE  /\ Len(chain) \in Nat /\ Len(chain) > 1 /\ chain \in Seq(Jobs)
         /\ \A n \in 1..Len(chain) : chain[n] \in Jobs
         /\ \A j \in Jobs : \E n \in 1..Len(chain) : chain[n] = j
         /\ Parents["vertical"][chain[1]] = {}
         /\ \A n \in 2..Len(chain) : Parents["vertical"][chain[n]] = {chain[n - 1]}
         /\ \A j \in Jobs : Parents["vertical"][j] \subseteq Jobs
<1>1. Chains["vertical"] \in Seq(Seq(Jobs)) /\ Len(Chains["vertical"]) = 1
  BY WrappersAssumption DEF Vertical
<1>2. chain \in Seq(Jobs) /\ Len(chain) > 1
  BY <1>1 DEF Vertical, chain
<1>3. Range(chain) = Jobs
  BY DEF Vertical
<1>4. Len(chain) \in Nat /\ \A n \in 1..Len(chain) : chain[n] \in Jobs
  BY <1>2
<1>5. \A j \in Jobs : \E n \in 1..Len(chain) : chain[n] = j
  BY <1>2, <1>3 DEF Range
<1>6. \A n \in 1..Len(chain) :
        Parents["vertical"][chain[n]] = IF n = 1 THEN {} ELSE {chain[n - 1]}
  BY Zenon DEF Vertical
<1>7. 1 \in 1..Len(chain) /\ \A n \in 2..Len(chain) : n \in 1..Len(chain) /\ n # 1
  BY <1>2, <1>4
<1>8. Parents["vertical"] \in [Jobs -> SUBSET Jobs]
  BY WrappersAssumption DEF Vertical
<1>9. Parents["vertical"][chain[1]] = {}
  BY <1>6, <1>7, Zenon
<1>10. \A n \in 2..Len(chain) : Parents["vertical"][chain[n]] = {chain[n - 1]}
  BY <1>6, <1>7, Zenon
<1> QED
  BY <1>2, <1>4, <1>5, <1>8, <1>9, <1>10

\* The places in the chain: after the first, each has one before it.
LEMMA ChainPlaces ==
  ASSUME Vertical
  PROVE  /\ 1 \in 1..Len(chain)
         /\ \A n \in 2..Len(chain) : n \in 1..Len(chain) /\ n - 1 \in 1..Len(chain)
         /\ \A n \in 2..Len(chain) : n # 1 /\ n - 1 \in 1..(n - 1)
         /\ \A n \in 1..Len(chain) : n = 1 \/ n \in 2..Len(chain)
         /\ \A n \in 1..Len(chain) : \A k \in 1..(n - 1) : k \in 1..Len(chain)
<1> DEFINE N == Len(chain)
<1>1. N \in Nat /\ N > 1
  BY ChainIs
<1> HIDE DEF N
<1>2. /\ 1 \in 1..N
      /\ \A n \in 2..N : n \in 1..N /\ n - 1 \in 1..N
      /\ \A n \in 2..N : n # 1 /\ n - 1 \in 1..(n - 1)
      /\ \A n \in 1..N : n = 1 \/ n \in 2..N
      /\ \A n \in 1..N : \A k \in 1..(n - 1) : k \in 1..N
  BY <1>1
<1> QED
  BY <1>2 DEF N

\* Jobs that fail leave a wrapper over.
LEMMA OverFails ==
  ASSUME NEW l, NEW m, Vertical, Over(l),
         \A j \in Jobs : m.status[j] \in {l.status[j], "FAILED"}
  PROVE  Over(m)
<1>1. \A n \in 1..Len(chain) : chain[n] \in Jobs
  BY ChainIs
<1>2. 1 \in 1..Len(chain) /\ \A n \in 2..Len(chain) : n \in 1..Len(chain) /\ n - 1 \in 1..Len(chain)
  BY ChainPlaces
<1>3. m.status[chain[1]] # "WAITING"
  BY <1>1, <1>2 DEF Over
<1>4. \A n \in 2..Len(chain) : m.status[chain[n]] = "WAITING" => m.status[chain[n - 1]] # "COMPLETED"
  BY <1>1, <1>2 DEF Over
<1> QED
  BY <1>3, <1>4 DEF Over

\* None of its jobs may be running.
LEMMA OpenOver ==
  ASSUME NEW x, type = "vertical", Vertical, x.w.jobs = chain, x.w.status = "FAILED", Over(x.l)
  PROVE  Open(x) = {}
<1>1. SUFFICES ASSUME NEW j \in Jobs, x.l.status[j] \notin {"COMPLETED", "FAILED"},
                      \A p \in Parents["vertical"][j] : x.l.status[p] = "COMPLETED"
               PROVE  FALSE
  BY DEF Open, Vertical
<1>2. x.l.status[j] = "WAITING"
  BY <1>1 DEF Over
<1>3. PICK n \in 1..Len(chain) : chain[n] = j
  BY ChainIs
<1>4. n \in 2..Len(chain)
  BY <1>2, <1>3, ChainIs DEF Over
<1>5. Parents["vertical"][chain[n]] = {chain[n - 1]}
  BY <1>4, ChainIs
<1> QED
  BY <1>1, <1>2, <1>3, <1>4, <1>5 DEF Over

\* The check of a running wrapper keeps it well formed.
LEMMA CheckRunningKeeps ==
  ASSUME NEW x \in XSet, files \in FileSet
  PROVE  Kept(x, CheckRunning(x))
<1> DEFINE y == CheckRunning(x)
<1>1. Quiet(x, y) /\ \A j \in Jobs \ Open(x) : y.l.status[j] = x.l.status[j]
  BY CheckRunningIs
<1> HIDE DEF y
<1>2. ASSUME type = "vertical", Vertical, x.w.jobs = chain, x.w.status = "FAILED", Over(x.l)
      PROVE  Over(y.l)
  BY <1>1, <1>2, OpenOver, OverFails
<1> QED
  BY <1>1, <1>2 DEF Kept, Quiet, Follows, y

\* update_failed_jobs keeps it well formed.
LEMMA UpdateFailedKept ==
  ASSUME NEW x \in XSet, NEW ready
  PROVE  Kept(x, UpdateFailed(x, ready))
BY UpdateFailedIs, OverFails DEF Kept, Quiet, Follows

\* cancel_failed_wrapper_job keeps it well formed.
LEMMA CancelWrapperKeeps ==
  ASSUME NEW x \in XSet, files \in FileSet
  PROVE  Kept(x, CancelWrapper(x))
<1> DEFINE y == CancelWrapper(x)
<1>1. /\ Follows(x, y)
      /\ y.w.status \in {x.w.status, "FAILED"}
      /\ \A j \in (Jobs \cap Range(x.w.jobs)) \ Open(x) :
           y.l.status[j] = IF x.l.status[j] \in {"COMPLETED", "FAILED"} THEN x.l.status[j] ELSE "WAITING"
  BY CancelWrapperIs
<1> HIDE DEF y
<1>2. ASSUME type = "vertical", Vertical, x.w.jobs = chain, x.w.status = "FAILED", Over(x.l)
      PROVE  Over(y.l)
  <2>1. Open(x) = {}
    BY <1>2, OpenOver
  <2>2. \A j \in Jobs : y.l.status[j] = x.l.status[j]
    BY <1>1, <1>2, <2>1 DEF Vertical, Over
  <2> QED
    BY <1>2, <2>2, OverFails
<1> QED
  BY <1>1, <1>2 DEF Kept, Follows, y

\* The last part of a check: the wrapper is FAILED.
LEMMA CheckFailedIs ==
  ASSUME NEW x \in XSet, NEW before, files \in FileSet, x.w.status = "FAILED"
  PROVE  Put(x, CheckFailed(x, before)) /\ Kept(x, CheckFailed(x, before))
<1> DEFINE a == CASE before \in {"SUBMITTED", "QUEUING"} -> UpdateFailed(x, TRUE)
                  [] before = "FAILED" -> CheckRunning([x EXCEPT !.w.failed = TRUE])
                  [] OTHER -> x
           noticed(y) == /\ ~y.w.failed
                         /\ files.wrapperFailed
                         /\ y.w.inner \cap files.failed # {}
           z(y) == [y EXCEPT !.w.failed = @ \/ noticed(y), !.forget = noticed(y)]
           E(u) == IF u.w.inner = {} THEN CancelWrapper(u) ELSE u
           B(y) == CASE y.w.inner = {} -> CancelWrapper(y)
                     [] y.w.inner # {} /\ z(y).w.failed -> With(UpdateFailed(z(y), FALSE), E)
                     [] OTHER -> z(y)
<1>1. CheckFailed(x, before) = B(a)
  <2>1. CheckFailed(x, before) = With(a, B)
    BY DEF CheckFailed
  <2> HIDE DEF B, a
  <2>2. {B(w) : w \in {a}} = {B(a)}
    OBVIOUS
  <2> QED
    BY <2>1, <2>2, One DEF With
<1>2. Quiet(x, a) /\ Kept(x, a) /\ a \in XSet
  <2>1. CASE before \in {"SUBMITTED", "QUEUING"}
    <3>1. a = UpdateFailed(x, TRUE)
      BY <2>1
    <3> HIDE DEF a
    <3> QED
      BY <3>1, UpdateFailedIs, UpdateFailedKept DEF Quiet, Follows
  <2>2. CASE before = "FAILED"
    <3> DEFINE f == [x EXCEPT !.w.failed = TRUE]
    <3>1. a = CheckRunning(f)
      BY <2>2
    <3>2. f \in XSet /\ f.l = x.l /\ f.w.jobs = x.w.jobs /\ f.w.status = x.w.status
          /\ f.cancel = x.cancel
      BY DEF XSet
    <3> HIDE DEF a, f
    <3>3. Quiet(x, f) /\ Kept(x, f)
      BY <3>2 DEF Quiet, Follows, Kept
    <3>4. Quiet(f, a) /\ Kept(f, a)
      BY <3>1, <3>2, CheckRunningIs, CheckRunningKeeps
    <3>5. Quiet(x, a) /\ Kept(x, a)
      BY <3>3, <3>4, QuietTwice, KeptTwice
    <3> QED
      BY <3>5 DEF Quiet, Follows
  <2>3. CASE before \notin {"SUBMITTED", "QUEUING", "FAILED"}
    <3>1. a = x
      BY <2>3
    <3> QED
      BY <3>1 DEF Quiet, Follows, Kept
  <2> QED
    BY <2>1, <2>2, <2>3
<1> HIDE DEF a
<1> DEFINE c == z(a)
<1>3. c \in XSet /\ Quiet(a, c) /\ Kept(a, c)
  <2>1. /\ c \in XSet /\ c.l = a.l /\ c.w.jobs = a.w.jobs /\ c.w.status = a.w.status
        /\ c.cancel = a.cancel
    BY <1>2 DEF XSet
  <2> HIDE DEF c
  <2> QED
    BY <2>1 DEF Quiet, Follows, Kept
<1>4. Quiet(x, c) /\ Kept(x, c)
  <2> HIDE DEF c
  <2> QED
    BY <1>2, <1>3, QuietTwice, KeptTwice
<1>5. CASE a.w.inner = {}
  <2>1. B(a) = CancelWrapper(a)
    BY <1>5
  <2> HIDE DEF B
  <2>2. Put(a, B(a)) /\ Kept(a, B(a))
    BY <1>2, <2>1, CancelPuts, CancelWrapperKeeps
  <2> QED
    BY <1>1, <1>2, <2>2, QuietThenPut, KeptTwice
<1>6. CASE a.w.inner # {} /\ c.w.failed
  <2> DEFINE u == UpdateFailed(c, FALSE)
  <2>1. B(a) = E(u)
    <3>1. B(a) = With(u, E)
      BY <1>6
    <3> HIDE DEF B, E, u
    <3>2. {E(w) : w \in {u}} = {E(u)}
      OBVIOUS
    <3> QED
      BY <3>1, <3>2, One DEF With
  <2>2. Quiet(c, u) /\ Kept(c, u) /\ u \in XSet
    <3> HIDE DEF c
    <3> QED
      BY <1>3, UpdateFailedIs, UpdateFailedKept DEF Quiet, Follows
  <2>3. E(u) = IF u.w.inner = {} THEN CancelWrapper(u) ELSE u
    OBVIOUS
  <2> HIDE DEF B, E, u, c
  <2>4. Put(u, E(u)) /\ Kept(u, E(u))
    <3>1. Put(u, u) /\ Kept(u, u)
      BY <2>2 DEF Put, Follows, Left, Kept
    <3>2. Put(u, CancelWrapper(u)) /\ Kept(u, CancelWrapper(u))
      BY <2>2, CancelPuts, CancelWrapperKeeps
    <3> QED
      BY <2>3, <3>1, <3>2
  <2>5. Quiet(x, u) /\ Kept(x, u)
    BY <1>4, <2>2, QuietTwice, KeptTwice
  <2> QED
    BY <1>1, <2>1, <2>4, <2>5, QuietThenPut, KeptTwice
<1>7. CASE a.w.inner # {} /\ ~c.w.failed
  <2>1. B(a) = c
    BY <1>7
  <2> HIDE DEF B, c
  <2> QED
    BY <1>1, <1>4, <2>1, QuietPuts
<1> QED
  BY <1>5, <1>6, <1>7

\* A check puts the list the same way whatever Slurm says of the wrapper.
LEMMA CheckStatusIs ==
  ASSUME NEW x \in XSet, x.w.status \in WrapperStatuses, files \in FileSet,
         NEW status \in {"QUEUING", "RUNNING", "COMPLETED", "FAILED"}, NEW reason
  PROVE  Put(x, CheckStatus(x, status, reason))
<1> DEFINE before == x.w.status
           a == [x EXCEPT !.w.status = status]
           s == SetStatus(a, Range(a.w.jobs), "QUEUING")
           b == IF before = "SUBMITTED" THEN s ELSE a
           z == CASE status = "QUEUING" -> CheckQueue(a, before, reason)
                  [] status = "RUNNING" -> With(b, CheckRunning)
                  [] status = "COMPLETED" -> With(CheckRunning(a), CheckCompleted)
                  [] OTHER -> a
           C(u) == IF u.w.status = "FAILED" THEN CheckFailed(u, before) ELSE u
           B(y) == With(CASE status = "QUEUING" -> CheckQueue(y, before, reason)
                          [] status = "RUNNING" ->
                               With(IF before = "SUBMITTED"
                                    THEN SetStatus(y, Range(y.w.jobs), "QUEUING") ELSE y,
                                    CheckRunning)
                          [] status = "COMPLETED" -> With(CheckRunning(y), CheckCompleted)
                          [] OTHER -> y, C)
<1>1. CheckStatus(x, status, reason) = C(z)
  <2>1. CheckStatus(x, status, reason) = With(a, B)
    BY DEF CheckStatus
  <2>2. B(a) = With(z, C)
    OBVIOUS
  <2> HIDE DEF B, C, a, z
  <2>3. {B(w) : w \in {a}} = {B(a)} /\ {C(w) : w \in {z}} = {C(z)}
    OBVIOUS
  <2> QED
    BY <2>1, <2>2, <2>3, One DEF With
<1>2. a \in XSet /\ a.l = x.l /\ a.w.jobs = x.w.jobs /\ a.w.status = status /\ a.cancel = x.cancel
  BY DEF XSet, WrapperStatuses
<1> HIDE DEF B, C, a
<1>3. Put(a, z)
  <2>1. CASE status = "QUEUING"
    <3>1. z = CheckQueue(a, before, reason)
      BY <2>1
    <3> QED
      BY <1>2, <2>1, <3>1, CheckQueueIs
  <2>2. CASE status = "RUNNING"
    <3>1. z = CheckRunning(b)
      <4>1. z = With(b, CheckRunning)
        BY <2>2
      <4> HIDE DEF b, z
      <4>2. {CheckRunning(w) : w \in {b}} = {CheckRunning(b)}
        OBVIOUS
      <4> QED
        BY <4>1, <4>2, One DEF With
    <3> HIDE DEF z
    <3>2. Quiet(a, s) /\ s \in XSet
      <4>1. "QUEUING" \in InQueue \cup {"FAILED"} /\ "QUEUING" \in Statuses
        BY DEF InQueue, Statuses
      <4> QED
        BY <1>2, <4>1, SetStatusQuiet DEF Quiet, Follows
    <3>3. Quiet(a, b) /\ b \in XSet
      <4>1. Quiet(a, a)
        BY <1>2 DEF Quiet, Follows
      <4> HIDE DEF s
      <4> QED
        BY <1>2, <3>2, <4>1
    <3> HIDE DEF b
    <3>4. Quiet(b, z)
      BY <3>1, <3>3, CheckRunningIs
    <3> QED
      BY <3>3, <3>4, QuietTwice, QuietPuts
  <2>3. CASE status = "COMPLETED"
    <3> DEFINE r == CheckRunning(a)
    <3>1. z = CheckCompleted(r)
      <4>1. z = With(r, CheckCompleted)
        BY <2>3
      <4> HIDE DEF r, z
      <4>2. {CheckCompleted(w) : w \in {r}} = {CheckCompleted(r)}
        OBVIOUS
      <4> QED
        BY <4>1, <4>2, One DEF With
    <3> HIDE DEF z
    <3>2. Quiet(a, r) /\ r \in XSet
      BY <1>2, CheckRunningIs DEF Quiet, Follows
    <3> HIDE DEF r
    <3>3. Quiet(r, z)
      BY <3>1, <3>2, CheckCompletedIs
    <3> QED
      BY <3>2, <3>3, QuietTwice, QuietPuts
  <2>4. CASE status = "FAILED"
    <3>1. z = a
      BY <2>4
    <3> HIDE DEF z
    <3>2. Quiet(a, z)
      BY <1>2, <3>1 DEF Quiet, Follows
    <3> QED
      BY <3>2, QuietPuts
  <2> QED
    BY <2>1, <2>2, <2>3, <2>4
<1> HIDE DEF z
<1>4. Put(a, C(z))
  <2>1. CASE z.w.status = "FAILED"
    <3>1. C(z) = CheckFailed(z, before)
      BY <2>1 DEF C
    <3>2. Put(z, CheckFailed(z, before)) /\ Kept(z, CheckFailed(z, before))
      BY <1>3, <2>1, CheckFailedIs DEF Put, Follows
    <3> DEFINE r == CheckFailed(z, before)
    <3> HIDE DEF r
    <3>3. Follows(a, r)
      BY <1>3, <3>2 DEF Put, Follows, r
    <3>4. ASSUME type = "vertical", Vertical, a.w.jobs = chain, Going(a.l), a.w.status # "WAITING"
          PROVE  Left(r)
      <4>1. z.w.jobs = chain /\ (Going(z.l) \/ Over(z.l))
        BY <1>3, <2>1, <3>4 DEF Put, Follows, Left
      <4>2. CASE Going(z.l)
        BY <2>1, <3>2, <3>4, <4>1, <4>2 DEF Put, r
      <4>3. CASE Over(z.l)
        BY <2>1, <3>2, <3>4, <4>1, <4>3 DEF Kept, Left, r
      <4> QED
        BY <4>1, <4>2, <4>3
    <3> QED
      BY <3>1, <3>3, <3>4 DEF Put, r
  <2>2. CASE z.w.status # "FAILED"
    <3>1. C(z) = z
      BY <2>2 DEF C
    <3> QED
      BY <1>3, <3>1
  <2> QED
    BY <2>1, <2>2
<1> QED
  BY <1>1, <1>2, <1>4 DEF Put, Follows, WrapperStatuses

-----------------------------------------------------------------------------
(* The end of an iteration: the list is updated and packages are made.     *)

PackageSet ==
  [kind : AllTypes \cup {"simple"}, lists : Seq(Seq(Jobs)),
   wtype : {"none", "vertical", "Simple", "keep"}]

\* An update takes no job for COMPLETED and leaves the types of wrapper.
LEMMA RetryIs ==
  ASSUME NEW l \in ListSet
  PROVE  /\ Retry(l) \in ListSet
         /\ Retry(l).wtype = l.wtype
         /\ \A j \in Jobs : Retry(l).status[j] \in {l.status[j], "READY", "WAITING"}
         /\ \A j \in Jobs : l.wtype[j] = "vertical" =>
              Retry(l).status[j] = l.status[j] /\ Retry(l).id[j] = l.id[j]
         /\ \A j \in Jobs : l.status[j] # "FAILED" =>
              /\ Retry(l).status[j] = l.status[j] /\ Retry(l).id[j] = l.id[j]
              /\ Retry(l).fails[j] = l.fails[j]
<1> DEFINE f == [j \in Jobs |-> IF l.status[j] = "FAILED" /\ l.wtype[j] = "vertical"
                                THEN Retrials ELSE l.fails[j]]
           again == {j \in Jobs : l.status[j] = "FAILED" /\ f[j] < Retrials}
           s == [j \in Jobs |-> IF j \notin again THEN l.status[j]
                                ELSE IF ParentsDone(l, j) THEN "READY" ELSE "WAITING"]
           g == [j \in Jobs |-> IF j \in again THEN f[j] + 1 ELSE f[j]]
           d == [j \in Jobs |-> IF j \in again /\ ParentsDone(l, j) THEN NoSub ELSE l.id[j]]
           r == [l EXCEPT !.status = s, !.fails = g, !.id = d]
<1>1. Retry(l) = r
  BY DEF Retry, ListSet
<1>2. f \in [Jobs -> 0..Retrials] /\ Retrials \in Nat
  BY WrappersAssumption DEF ListSet
<1>3. \A j \in Jobs : /\ j \in again <=> l.status[j] = "FAILED" /\ f[j] < Retrials
                      /\ l.status[j] = "FAILED" /\ l.wtype[j] = "vertical" => f[j] = Retrials
                      /\ l.status[j] # "FAILED" => f[j] = l.fails[j]
  OBVIOUS
<1> HIDE DEF f, again
<1>4. s \in [Jobs -> Statuses]
  BY DEF ListSet, Statuses
<1>5. g \in [Jobs -> 0..Retrials]
  <2>1. \A j \in Jobs : j \in again => f[j] + 1 \in 0..Retrials
    BY <1>2, <1>3
  <2> QED
    BY <1>2, <2>1
<1>6. d \in [Jobs -> Ids \cup {NoSub}]
  BY DEF ListSet
<1>7. /\ \A j \in Jobs : s[j] \in {l.status[j], "READY", "WAITING"}
      /\ \A j \in Jobs : j \notin again => s[j] = l.status[j] /\ d[j] = l.id[j] /\ g[j] = f[j]
  BY DEF ListSet
<1>8. \A j \in Jobs : l.wtype[j] = "vertical" => j \notin again
  BY <1>2, <1>3
<1> HIDE DEF s, g, d
<1>9. r \in ListSet /\ r.wtype = l.wtype /\ r.status = s /\ r.id = d /\ r.fails = g
  BY <1>4, <1>5, <1>6 DEF ListSet
<1> HIDE DEF r
<1> QED
  BY <1>1, <1>3, <1>7, <1>8, <1>9

\* Jobs that wait for nobody are READY; no other status changes.
LEMMA ReleasedIs ==
  ASSUME NEW l \in ListSet
  PROVE  /\ Released(l) \in ListSet
         /\ Released(l).wtype = l.wtype /\ Released(l).id = l.id /\ Released(l).fails = l.fails
         /\ \A j \in Jobs : Released(l).status[j] =
              IF l.status[j] = "WAITING" /\ ParentsDone(l, j) THEN "READY" ELSE l.status[j]
<1> DEFINE s == [j \in Jobs |-> IF l.status[j] = "WAITING" /\ ParentsDone(l, j)
                                THEN "READY" ELSE l.status[j]]
<1>1. Released(l) = [l EXCEPT !.status = s]
  BY DEF Released, ListSet
<1>2. s \in [Jobs -> Statuses]
  BY DEF ListSet, Statuses
<1>3. \A j \in Jobs : s[j] = IF l.status[j] = "WAITING" /\ ParentsDone(l, j)
                             THEN "READY" ELSE l.status[j]
  OBVIOUS
<1> HIDE DEF s
<1> QED
  BY <1>1, <1>2, <1>3 DEF ListSet

\* update_list makes a list of the same wrappers, and nobody COMPLETED.
LEMMA UpdateListIs ==
  ASSUME NEW l \in ListSet
  PROVE  /\ UpdateList(l) \in ListSet
         /\ UpdateList(l).wtype = l.wtype
         /\ HasFiles(l) => HasFiles(UpdateList(l))
<1>1. Retry(l) \in ListSet /\ Retry(l).wtype = l.wtype
      /\ \A j \in Jobs : Retry(l).status[j] \in {l.status[j], "READY", "WAITING"}
  BY RetryIs
<1> QED
  BY <1>1, ReleasedIs DEF UpdateList, HasFiles

\* The list of a new process: what was READY or WAITING is decided again, the rest stays.
LEMMA LoadedIs ==
  ASSUME NEW l \in ListSet, type \in Types
  PROVE  /\ Loaded(l) \in ListSet
         /\ Loaded(l).wtype = l.wtype /\ Loaded(l).id = l.id
         /\ HasFiles(l) => HasFiles(Loaded(l))
         /\ \A j \in Jobs : l.status[j] \notin {"READY", "WAITING"} =>
              Loaded(l).status[j] = l.status[j]
         /\ \A j \in Jobs : l.status[j] \in {"READY", "WAITING"} =>
              /\ Loaded(l).status[j] = IF \A p \in Parents[type][j] : l.status[p] = "COMPLETED"
                                       THEN "READY" ELSE "WAITING"
              /\ Loaded(l).fails[j] = 0
<1> DEFINE s == [j \in Jobs |-> IF l.status[j] = "READY" THEN "WAITING" ELSE l.status[j]]
           g == [j \in Jobs |-> IF l.status[j] \in {"READY", "WAITING"} THEN 0 ELSE l.fails[j]]
           m == [l EXCEPT !.status = s, !.fails = g]
<1>1. Loaded(l) = Released(m)
  BY DEF Loaded, ListSet
<1>2. s \in [Jobs -> Statuses] /\ g \in [Jobs -> 0..Retrials]
  BY WrappersAssumption DEF ListSet, Statuses
<1>3. /\ \A j \in Jobs : s[j] = IF l.status[j] = "READY" THEN "WAITING" ELSE l.status[j]
      /\ \A j \in Jobs : l.status[j] \in {"READY", "WAITING"} => g[j] = 0
  OBVIOUS
<1> HIDE DEF s, g
<1>4. m \in ListSet /\ m.status = s /\ m.fails = g /\ m.wtype = l.wtype /\ m.id = l.id
  BY <1>2 DEF ListSet
<1> HIDE DEF m
<1>5. /\ Released(m) \in ListSet
      /\ Released(m).wtype = m.wtype /\ Released(m).id = m.id /\ Released(m).fails = m.fails
      /\ \A j \in Jobs : Released(m).status[j] =
           IF m.status[j] = "WAITING" /\ ParentsDone(m, j) THEN "READY" ELSE m.status[j]
  BY <1>4, ReleasedIs
<1> DEFINE r == Loaded(l)
<1> HIDE DEF r
<1>6. /\ r \in ListSet /\ r.wtype = l.wtype /\ r.id = l.id
      /\ \A j \in Jobs : l.status[j] \in {"READY", "WAITING"} => r.fails[j] = 0
      /\ \A j \in Jobs : r.status[j] =
           IF s[j] = "WAITING" /\ ParentsDone(m, j) THEN "READY" ELSE s[j]
  BY <1>1, <1>3, <1>4, <1>5 DEF r
<1>7. \A j \in Jobs : ParentsDone(m, j) <=> \A p \in Parents[type][j] : s[p] = "COMPLETED"
  BY <1>4 DEF ParentsDone, Done
<1>8. ASSUME NEW j \in Jobs
      PROVE  ParentsDone(m, j) <=> \A p \in Parents[type][j] : l.status[p] = "COMPLETED"
  <2>1. Parents[type][j] \subseteq Jobs
    BY WrappersAssumption
  <2> QED
    BY <1>3, <1>7, <2>1
<1> QED
  BY <1>3, <1>6, <1>8 DEF HasFiles, r

\* A finite set as a sequence.
LEMMA SeqOfSet ==
  ASSUME NEW S, IsFiniteSet(S)
  PROVE  /\ SetToSeq(S) \in Seq(S)
         /\ S = {} <=> SetToSeq(S) = <<>>
<1>1. Cardinality(S) \in Nat /\ ExistsBijection(1..Cardinality(S), S)
  BY FS_CardinalityType
<1>2. PICK f \in [1..Cardinality(S) -> S] : IsInjective(f)
  BY <1>1 DEF ExistsBijection, Bijection, Injection, IsInjective
<1> DEFINE g == SetToSeq(S)
<1>3. g \in [1..Cardinality(S) -> S]
  BY <1>2 DEF SetToSeq
<1> HIDE DEF g
<1>4. g \in Seq(S) /\ Len(g) = Cardinality(S)
  BY <1>1, <1>3
<1>5. S = {} <=> Cardinality(S) = 0
  BY FS_EmptySet
<1>6. Len(g) = 0 <=> g = <<>>
  BY <1>4
<1> QED
  BY <1>4, <1>5, <1>6 DEF g

\* The packages of jobs are lists of jobs.
LEMMA PackageListsIs ==
  ASSUME type \in Types, NEW js
  PROVE  PackageLists(js) \in Seq(Seq(Jobs))
<1>1. Chains[type] \in Seq(Seq(Jobs))
  BY WrappersAssumption
<1> DEFINE ls == [k \in DOMAIN Chains[type] |-> Among(Chains[type][k], js)]
<1>2. ASSUME NEW k \in 1..Len(Chains[type])
      PROVE  Among(Chains[type][k], js) \in Seq(Jobs)
  <2>1. Chains[type][k] \in Seq(Jobs)
    BY <1>1
  <2>2. Among(Chains[type][k], js) \in Seq(Jobs \cap js)
    BY <2>1, AmongType
  <2>3. \A s \in Seq(Jobs \cap js) : s \in Seq(Jobs)
    OBVIOUS
  <2> QED
    BY <2>2, <2>3
<1>3. ls \in Seq(Seq(Jobs))
  <2>1. DOMAIN Chains[type] = 1..Len(Chains[type]) /\ Len(Chains[type]) \in Nat
    BY <1>1
  <2>2. ls = [k \in 1..Len(Chains[type]) |-> Among(Chains[type][k], js)]
    BY <2>1
  <2> DEFINE n == Len(Chains[type])
             g(k) == Among(Chains[type][k], js)
  <2> HIDE DEF ls, n, g
  <2>3. ls = [k \in 1..n |-> g(k)] /\ n \in Nat /\ \A k \in 1..n : g(k) \in Seq(Jobs)
    BY <1>2, <2>1, <2>2 DEF n, g
  <2> QED
    BY <2>3
<1> DEFINE P == Seq(Jobs) \ {<<>>}
<1> HIDE DEF ls, P
<1>4. Among(ls, P) \in Seq(Seq(Jobs) \cap P)
  BY <1>3, AmongType
<1>5. \A s \in Seq(Seq(Jobs) \cap P) : s \in Seq(Seq(Jobs))
  OBVIOUS
<1> QED
  BY <1>4, <1>5 DEF PackageLists, ls, P

\* What an iteration submits are packages, and nothing when no job is READY.
LEMMA ToSubmitIs ==
  ASSUME type \in Types, NEW l
  PROVE  /\ ToSubmit(l) \in Seq(PackageSet)
         /\ ReadyJobs(l) = {} => ToSubmit(l) = <<>>
<1> DEFINE js == InPackage(l)
           wrap(t) == <<Package(type, PackageLists(js), t)>>
           ready == SetToSeq(ReadyJobs(l))
           ps == ToSubmit(l)
<1>1. ready \in Seq(ReadyJobs(l)) /\ (ReadyJobs(l) = {} <=> ready = <<>>)
  <2>1. IsFiniteSet(ReadyJobs(l))
    BY WrappersAssumption, FS_Subset DEF ReadyJobs
  <2> QED
    BY <2>1, SeqOfSet
<1>2. ready \in Seq(Jobs)
  BY <1>1 DEF ReadyJobs
<1>3. ASSUME NEW t \in {"none", "vertical", "keep"}
      PROVE  wrap(t) \in Seq(PackageSet)
  <2>1. PackageLists(js) \in Seq(Seq(Jobs)) /\ type \in AllTypes
    BY PackageListsIs, WrappersAssumption
  <2>2. Package(type, PackageLists(js), t) \in PackageSet
    BY <1>3, <2>1 DEF PackageSet, Package
  <2> HIDE DEF js
  <2> QED
    BY <2>2
<1>4. ASSUME NEW j \in Jobs, NEW t \in {"Simple", "keep"}
      PROVE  Simple(j, t) \in PackageSet
  <2>1. <<<<j>>>> \in Seq(Seq(Jobs))
    OBVIOUS
  <2> QED
    BY <1>4, <2>1 DEF PackageSet, Package, Simple
<1>5. ready # <<>> => <<Simple(ready[1], "Simple")>> \in Seq(PackageSet)
  <2>1. ready # <<>> => ready[1] \in Jobs
    BY <1>2
  <2> HIDE DEF ready
  <2> QED
    BY <1>4, <2>1
<1>6. [k \in DOMAIN ready |-> Simple(ready[k], "keep")] \in Seq(PackageSet)
  <2>1. DOMAIN ready = 1..Len(ready) /\ Len(ready) \in Nat /\ \A k \in 1..Len(ready) : ready[k] \in Jobs
    BY <1>2
  <2> HIDE DEF ready
  <2>2. \A k \in 1..Len(ready) : Simple(ready[k], "keep") \in PackageSet
    BY <1>4, <2>1
  <2> QED
    BY <2>1, <2>2
<1> DEFINE C1 == Cardinality(js) > 1 /\ (\A j \in js : l.fails[j] = 0)
           C2 == \E j \in Jobs : l.status[j] \in InQueue
           C3 == \A j \in Jobs \ js : Done(l, j)
           C4 == Cardinality(js) = 1
           A1 == wrap(WrapperType)
           A2 == <<Simple(ready[1], "Simple")>>
           A3 == wrap("keep")
           A4 == [k \in DOMAIN ready |-> Simple(ready[k], "keep")]
<1>7. ps = CASE ready = <<>> -> <<>>
             [] ready # <<>> /\ C1 -> A1
             [] OTHER -> IF C2 THEN <<>> ELSE IF C3 THEN IF C4 THEN A2 ELSE A3 ELSE A4
  BY DEF ToSubmit
<1>8. A1 \in Seq(PackageSet) /\ A3 \in Seq(PackageSet) /\ A4 \in Seq(PackageSet)
  <2>1. WrapperType \in {"none", "vertical", "keep"}
    BY DEF WrapperType
  <2> QED
    BY <1>3, <1>6, <2>1
<1>9. ready # <<>> => A2 \in Seq(PackageSet)
  BY <1>5
<1>10. <<>> \in Seq(PackageSet)
  OBVIOUS
<1> HIDE DEF ps, C1, C2, C3, C4, A1, A2, A3, A4, ready
<1>11. ready = <<>> => ps = <<>>
  BY <1>7
<1>12. ready # <<>> => ps \in {A1, <<>>, A2, A3, A4}
  BY <1>7
<1> QED
  BY <1>1, <1>8, <1>9, <1>10, <1>11, <1>12 DEF ps, ready

\* Jobs of the packages.
JobsOf(ps) == UNION {Range(PackageJobs(ps[k])) : k \in DOMAIN ps}

\* The jobs of a package.
LEMMA PackageJobsIs ==
  ASSUME NEW p \in PackageSet
  PROVE  PackageJobs(p) \in Seq(Jobs) /\ Range(PackageJobs(p)) \subseteq Jobs
<1>1. PackageJobs(p) \in Seq(Jobs)
  BY FlattenType DEF PackageSet, PackageJobs
<1> QED
  BY <1>1 DEF Range

\* What is submitted is SUBMITTED, under the id of a package it is in; the rest is left.
LEMMA SubmittedIs ==
  ASSUME NEW l \in ListSet, NEW ps \in Seq(PackageSet), lastId \in 0..MaxId,
         lastId + Len(ps) <= MaxId
  PROVE  LET new == Submitted(l, ps) IN
         /\ new \in ListSet
         /\ \A j \in Jobs \ JobsOf(ps) :
              /\ new.status[j] = l.status[j] /\ new.id[j] = l.id[j]
              /\ new.wtype[j] = l.wtype[j] /\ new.fails[j] = l.fails[j]
         /\ \A j \in Jobs \cap JobsOf(ps) :
              /\ new.status[j] = "SUBMITTED"
              /\ \E k \in DOMAIN ps :
                   /\ new.id[j] = lastId + k
                   /\ new.wtype[j] = IF ps[k].wtype = "keep" THEN l.wtype[j] ELSE ps[k].wtype
<1> DEFINE In(j) == {k \in DOMAIN ps : j \in Range(PackageJobs(ps[k]))}
           idOf(j) == IF In(j) = {} THEN NoSub ELSE lastId + CHOOSE n \in In(j) : TRUE
           wt(j) == ps[idOf(j) - lastId].wtype
           d == [j \in Jobs |-> IF idOf(j) = NoSub THEN l.id[j] ELSE idOf(j)]
           s == [j \in Jobs |-> IF idOf(j) = NoSub THEN l.status[j] ELSE "SUBMITTED"]
           t == [j \in Jobs |-> IF idOf(j) = NoSub \/ wt(j) = "keep" THEN l.wtype[j] ELSE wt(j)]
           new == Submitted(l, ps)
<1>1. new = [l EXCEPT !.id = d, !.status = s, !.wtype = t]
  BY DEF Submitted, ListSet
<1>2. \A j \in Jobs : j \in JobsOf(ps) <=> In(j) # {}
  BY DEF JobsOf
<1>3. /\ \A j : In(j) \subseteq DOMAIN ps
      /\ DOMAIN ps = 1..Len(ps) /\ Len(ps) \in Nat
      /\ \A k \in DOMAIN ps : ps[k] \in PackageSet
  OBVIOUS
<1> HIDE DEF In, new
<1>4. ASSUME NEW j \in Jobs, In(j) = {}
      PROVE  idOf(j) = NoSub
  BY <1>4
<1>5. ASSUME NEW j \in Jobs, In(j) # {}
      PROVE  \E k \in DOMAIN ps : idOf(j) = lastId + k /\ idOf(j) - lastId = k /\ idOf(j) # NoSub
                                  /\ idOf(j) \in Ids
  <2> DEFINE k == CHOOSE n \in In(j) : TRUE
  <2>1. k \in DOMAIN ps /\ idOf(j) = lastId + k
    BY <1>3, <1>5
  <2> HIDE DEF k, idOf
  <2>2. idOf(j) - lastId = k /\ idOf(j) # NoSub /\ idOf(j) \in Ids
    BY <1>3, <2>1, WrappersAssumption DEF NoSub, Ids
  <2> QED
    BY <2>1, <2>2
<1> HIDE DEF idOf
<1>6. ASSUME NEW j \in Jobs
      PROVE  d[j] \in Ids \cup {NoSub} /\ s[j] \in Statuses /\ t[j] \in {"none", "vertical", "Simple"}
  <2>1. CASE In(j) = {}
    BY <1>4, <2>1 DEF ListSet
  <2>2. CASE In(j) # {}
    <3>1. PICK k \in DOMAIN ps : /\ idOf(j) - lastId = k
                                 /\ idOf(j) # NoSub /\ idOf(j) \in Ids
      BY <1>5, <2>2
    <3>2. ps[k].wtype \in {"none", "vertical", "Simple", "keep"}
      BY <1>3 DEF PackageSet
    <3>3. "SUBMITTED" \in Statuses
      BY DEF Statuses, InQueue
    <3> QED
      BY <3>1, <3>2, <3>3 DEF ListSet
  <2> QED
    BY <2>1, <2>2
<1>7. /\ d \in [Jobs -> Ids \cup {NoSub}] /\ s \in [Jobs -> Statuses]
      /\ t \in [Jobs -> {"none", "vertical", "Simple"}]
  BY <1>6
<1>8. ASSUME NEW j \in Jobs, In(j) = {}
      PROVE  d[j] = l.id[j] /\ s[j] = l.status[j] /\ t[j] = l.wtype[j]
  BY <1>4, <1>8
<1>9. ASSUME NEW j \in Jobs, In(j) # {}
      PROVE  /\ s[j] = "SUBMITTED"
             /\ \E k \in DOMAIN ps :
                  /\ d[j] = lastId + k
                  /\ t[j] = IF ps[k].wtype = "keep" THEN l.wtype[j] ELSE ps[k].wtype
  <2>1. PICK k \in DOMAIN ps : /\ idOf(j) = lastId + k /\ idOf(j) - lastId = k
                               /\ idOf(j) # NoSub
    BY <1>5, <1>9
  <2> QED
    BY <2>1
<1> HIDE DEF d, s, t
<1>10. /\ new \in ListSet /\ new.id = d /\ new.status = s /\ new.wtype = t /\ new.fails = l.fails
  BY <1>1, <1>7 DEF ListSet
<1> QED
  BY <1>2, <1>8, <1>9, <1>10 DEF new

\* Submitting jobs removes their COMPLETED files and no other.
LEMMA RemovedIs ==
  ASSUME NEW l, NEW ps, files \in FileSet
  PROVE  /\ Removed(l, ps) \in FileSet
         /\ Removed(l, ps).completed = files.completed \ JobsOf(ps)
<1> DEFINE js == JobsOf(ps)
           alone == {j \in js : l.fails[j] = 0 /\ \E k \in DOMAIN ps : ps[k] = Simple(j, ps[k].wtype)}
           s == [j \in Jobs |-> IF j \in alone THEN 0 ELSE files.stat[j]]
           r == Removed(l, ps)
<1>1. r = [files EXCEPT !.completed = files.completed \ js, !.stat = s]
  BY DEF Removed, JobsOf, FileSet
<1> HIDE DEF js, alone, r
<1>2. s \in [Jobs -> 0..2]
  BY DEF FileSet
<1> HIDE DEF s
<1>3. r \in FileSet /\ r.completed = files.completed \ js
  BY <1>1, <1>2 DEF FileSet
<1> QED
  BY <1>3 DEF r, js

\* A new submission.
LEMMA NewSubIs ==
  ASSUME NEW l \in ListSet, NEW p \in PackageSet
  PROVE  NewSub(p, l) \in SubSet
<1>1. Range(PackageJobs(p)) \subseteq Jobs
  BY PackageJobsIs
<1>2. p.kind \in AllTypes \cup {"simple"} /\ p.lists \in Seq(Seq(Jobs))
  BY DEF PackageSet
<1>3. 0 \in 0..Retrials
  BY WrappersAssumption
<1> DEFINE js == Range(PackageJobs(p))
           f == [j \in Jobs |-> IF j \in js THEN "todo" ELSE "no"]
           s == {j \in js : l.fails[j] = 0}
           t == [j \in Jobs |-> 0]
<1>4. NewSub(p, l) = [state |-> "pending", reason |-> "none", kind |-> p.kind,
                      lists |-> p.lists, job |-> f, first |-> s, tries |-> t]
  BY DEF NewSub
<1> HIDE DEF js
<1>5. f \in [Jobs -> {"no", "todo", "run", "ok", "bad"}] /\ t \in [Jobs -> 0..Retrials]
  BY <1>3
<1>6. s \subseteq Jobs
  BY <1>1 DEF js
<1> HIDE DEF f, s, t
<1> QED
  BY <1>2, <1>4, <1>5, <1>6 DEF SubSet

-----------------------------------------------------------------------------
(* The wrappers of a new process.                                          *)

\* A new WrapperJob.
LEMMA WrapperJobIs ==
  ASSUME NEW js \in Seq(Jobs), NEW s \in WrapperStatuses
  PROVE  WrapperJob(js, s) \in WrapperSet /\ WrapperJob(js, s).jobs = js
<1>1. WrapperJob(js, s) = [[jobs |-> <<>>, status |-> "none", started |-> {}, inner |-> {},
                            failed |-> FALSE] EXCEPT !.jobs = js, !.status = s]
  BY DEF WrapperJob, NoWrapper
<1>2. WrapperJob(js, s) = [jobs |-> js, status |-> s, started |-> {}, inner |-> {}, failed |-> FALSE]
  BY <1>1
<1> QED
  BY <1>2 DEF WrapperSet

\* A package has a status that a check starts from.
LEMMA StoredStatusIs ==
  ASSUME NEW l, packages \in Seq(Seq(Jobs))
  PROVE  \A k \in DOMAIN packages : StoredStatus(l)[k] \in WrapperStatuses
<1> DEFINE order == <<"RUNNING", "FAILED", "QUEUING", "HELD", "SUBMITTED">>
           has(k) == {n \in DOMAIN order : \E j \in Range(packages[k]) : l.status[j] = order[n]}
           done(k) == \A j \in Range(packages[k]) : Done(l, j)
           best(k) == order[CHOOSE n \in has(k) : \A m \in has(k) : n <= m]
           n == Len(packages)
           at(k, a) == IF done(k) THEN "COMPLETED" ELSE IF has(k) = {} THEN a ELSE best(k)
           Is(f) == f = [k \in 0..n |-> IF k = 0 THEN "SUBMITTED" ELSE at(k, f[k - 1])]
           f == CHOOSE x : Is(x)
           S == [k \in 0..n |-> WrapperStatuses]
           step == [k \in 1..n |-> [a \in WrapperStatuses |-> at(k, a)]]
<1>1. StoredStatus(l) = f
  BY DEF StoredStatus
<1>2. n \in Nat /\ DOMAIN packages = 1..n
  OBVIOUS
<1>3. \A k \in 1..n : has(k) # {} => best(k) \in WrapperStatuses
  <2> SUFFICES ASSUME NEW k \in 1..n, has(k) # {}
               PROVE  best(k) \in WrapperStatuses
    OBVIOUS
  <2>1. has(k) \subseteq 1..5 /\ \A m \in 1..5 : order[m] \in WrapperStatuses
    BY DEF WrapperStatuses
  <2>2. \E m \in has(k) : \A i \in has(k) : m <= i
    <3>1. has(k) \subseteq Nat
      BY <2>1
    <3> HIDE DEF has
    <3> QED
      BY <3>1, LeastNumber
  <2>3. (CHOOSE m \in has(k) : \A i \in has(k) : m <= i) \in has(k)
    BY <2>2
  <2> QED
    BY <2>1, <2>3
<1>4. \A k \in 1..n : \A a \in WrapperStatuses : at(k, a) \in WrapperStatuses
  <2> HIDE DEF done, has, best
  <2> QED
    BY <1>3 DEF WrapperStatuses
<1> HIDE DEF at, n
<1>5. \A k \in 1..n : \A a \in WrapperStatuses : step[k][a] = at(k, a)
  OBVIOUS
<1>6. \A k \in 0..n : S[k] = WrapperStatuses
  OBVIOUS
<1> HIDE DEF step, S
<1>7. PICK g : Values(n, "SUBMITTED", step, g)
  BY <1>2, ValuesExist DEF HasValues
<1>8. g[0] = "SUBMITTED" /\ \A k \in 1..n : g[k] = step[k][g[k - 1]]
  BY <1>7 DEF Values
<1>9. 0 \in 0..n /\ \A k \in 1..n : k \in 0..n /\ k - 1 \in 0..n /\ k # 0
  BY <1>2
<1>10. "SUBMITTED" \in WrapperStatuses
  BY DEF WrapperStatuses
<1>11. \A k \in 0..n : g[k] \in WrapperStatuses
  <2>1. g[0] \in S[0] /\ \A k \in 1..n : g[k - 1] \in S[k - 1] => g[k] \in S[k]
    BY <1>4, <1>5, <1>6, <1>8, <1>9, <1>10
  <2> QED
    BY <1>2, <1>6, <2>1, Stays
<1>12. Is(g)
  <2>1. g = [k \in 0..n |-> g[k]]
    BY <1>7 DEF Values
  <2>2. \A k \in 0..n : k = 0 \/ k \in 1..n
    BY <1>2
  <2>3. \A k \in 0..n : g[k] = IF k = 0 THEN "SUBMITTED" ELSE at(k, g[k - 1])
    BY <1>5, <1>8, <1>9, <1>11, <2>2
  <2> QED
    BY <2>1, <2>3
<1>13. Is(f)
  BY <1>12
<1> HIDE DEF f
<1>14. f[0] = "SUBMITTED" /\ \A k \in 1..n : f[k] = at(k, f[k - 1])
  BY <1>9, <1>13
<1>15. \A k \in 0..n : f[k] \in WrapperStatuses
  <2>1. f[0] \in S[0] /\ \A k \in 1..n : f[k - 1] \in S[k - 1] => f[k] \in S[k]
    BY <1>4, <1>6, <1>9, <1>10, <1>14
  <2> QED
    BY <1>2, <1>6, <2>1, Stays
<1> QED
  BY <1>1, <1>2, <1>9, <1>15

\* The last of the packages of an id.
LEMMA LastNumber ==
  ASSUME NEW n \in Nat, NEW T, T \subseteq 1..n, T # {}
  PROVE  \E k \in T : \A m \in T : m <= k
<1> DEFINE R == {n - k : k \in T}
<1>1. R \subseteq Nat /\ R # {}
  <2>1. \A k \in T : n - k \in Nat
    OBVIOUS
  <2> QED
    BY <2>1
<1> HIDE DEF R
<1>2. PICK r \in R : \A q \in R : r <= q
  BY <1>1, LeastNumber
<1>3. PICK k \in T : r = n - k
  BY DEF R
<1>4. \A m \in T : n - m \in R
  BY DEF R
<1>5. \A m \in T : n - k <= n - m
  BY <1>2, <1>3, <1>4
<1>6. \A m \in T : m <= k
  BY <1>5
<1> QED
  BY <1>6

\* The WrapperJobs of a new process: one for each id of a first job of a package.
LEMMA StoredWrappersIs ==
  ASSUME NEW l, packages \in Seq(Seq(Jobs))
  PROVE  /\ StoredWrappers(l) \in [Ids -> WrapperSet]
         /\ \A i \in Ids :
              (\E k \in DOMAIN packages : l.id[packages[k][1]] = i) =>
              \E k \in DOMAIN packages : StoredWrappers(l)[i].jobs = packages[k]
<1> DEFINE ks(i) == {k \in DOMAIN packages : l.id[packages[k][1]] = i}
           last(i) == CHOOSE k \in ks(i) : \A m \in ks(i) : m <= k
           w(i) == IF ks(i) = {} THEN NoWrapper
                   ELSE WrapperJob(packages[last(i)], StoredStatus(l)[last(i)])
<1>1. StoredWrappers(l) = [i \in Ids |-> w(i)]
  BY DEF StoredWrappers
<1>2. NoWrapper \in WrapperSet
  BY DEF NoWrapper, WrapperSet, WrapperStatuses
<1>3. \A k \in DOMAIN packages : StoredStatus(l)[k] \in WrapperStatuses
  BY StoredStatusIs
<1>4. ASSUME NEW i \in Ids, ks(i) # {}
      PROVE  last(i) \in DOMAIN packages
  <2>1. ks(i) \subseteq 1..Len(packages) /\ Len(packages) \in Nat
    OBVIOUS
  <2> HIDE DEF ks
  <2>2. \E k \in ks(i) : \A m \in ks(i) : m <= k
    BY <1>4, <2>1, LastNumber
  <2>3. last(i) \in ks(i)
    BY <2>2
  <2> QED
    BY <2>3 DEF ks
<1> HIDE DEF last
<1>5. ASSUME NEW i \in Ids, ks(i) # {}
      PROVE  /\ WrapperJob(packages[last(i)], StoredStatus(l)[last(i)]) \in WrapperSet
             /\ WrapperJob(packages[last(i)], StoredStatus(l)[last(i)]).jobs = packages[last(i)]
  <2>1. packages[last(i)] \in Seq(Jobs) /\ StoredStatus(l)[last(i)] \in WrapperStatuses
    BY <1>3, <1>4, <1>5
  <2> QED
    BY <2>1, WrapperJobIs
<1> HIDE DEF ks
<1>6. \A i \in Ids : w(i) \in WrapperSet
  BY <1>2, <1>5
<1>7. ASSUME NEW i \in Ids, \E k \in DOMAIN packages : l.id[packages[k][1]] = i
      PROVE  \E k \in DOMAIN packages : w(i).jobs = packages[k]
  <2>1. ks(i) # {}
    BY <1>7 DEF ks
  <2> QED
    BY <1>4, <1>5, <2>1
<1> HIDE DEF w
<1> QED
  BY <1>1, <1>6, <1>7

-----------------------------------------------------------------------------
(* Types, and the files of what is COMPLETED, step by step.                *)

\* The start has the types, and no job is COMPLETED.
LEMMA InitTypes ==
  ASSUME Init
  PROVE  TypeInv /\ FilesInv
<1>1. Parents[type] \in [Jobs -> SUBSET Jobs] /\ type \in Types /\ Retrials \in Nat /\ MaxId \in Nat
  BY WrappersAssumption DEF Init
<1>2. list \in ListSet
  BY <1>1 DEF Init, ListSet, Statuses, NoSub
<1>3. NoWrapper \in WrapperSet
  BY DEF NoWrapper, WrapperSet, WrapperStatuses
<1>4. NoneSub \in SubSet
  BY <1>1 DEF NoneSub, SubSet
<1>5. files \in FileSet /\ packages \in Seq(Seq(Jobs)) /\ todo \subseteq Ids /\ lastId \in 0..MaxId
  BY <1>1 DEF Init, FileSet
<1>6. wrappers \in [Ids -> WrapperSet] /\ subs \in [Ids -> SubSet] /\ saved = list
  BY <1>3, <1>4 DEF Init
<1>7. TypeInv
  BY <1>1, <1>2, <1>5, <1>6 DEF TypeInv
<1>8. \A j \in Jobs : list.status[j] # "COMPLETED"
  BY DEF Init
<1> QED
  BY <1>6, <1>7, <1>8 DEF FilesInv, HasFiles

\* What an iteration plans: the list it updates, the packages, what it submits.
LEMMA Plan ==
  ASSUME TypeInv, NEW l, NEW ps, NEW new, l = UpdateList(list), ps = ToSubmit(l),
         new = Submitted(l, ps), lastId + Len(ps) <= MaxId
  PROVE  /\ l \in ListSet /\ ps \in Seq(PackageSet) /\ new \in ListSet
         /\ l.wtype = list.wtype
         /\ HasFiles(list) => HasFiles(l)
<1>1. l \in ListSet /\ l.wtype = list.wtype /\ (HasFiles(list) => HasFiles(l))
  BY UpdateListIs DEF TypeInv
<1>2. ps \in Seq(PackageSet)
  BY ToSubmitIs DEF TypeInv
<1>3. new \in ListSet
  BY <1>1, <1>2, SubmittedIs DEF TypeInv
<1> QED
  BY <1>1, <1>2, <1>3

\* An iteration keeps the types; it submits no COMPLETED job, so no file it needs is removed.
LEMMA IterationTypes ==
  ASSUME TypeInv, Iteration
  PROVE  TypeInv' /\ (FilesInv => FilesInv')
<1>1. PICK l \in {UpdateList(list)} : \E ps \in {ToSubmit(l)} : \E new \in {Submitted(l, ps)} :
        /\ lastId + Len(ps) <= MaxId
        /\ list' = new /\ saved' = new
        /\ lastId' = lastId + Len(ps)
        /\ subs' = [i \in Ids |-> IF i - lastId \in DOMAIN ps THEN NewSub(ps[i - lastId], l) ELSE subs[i]]
        /\ files' = Removed(l, ps)
        /\ wrappers' = [i \in Ids |->
             IF i - lastId \in DOMAIN ps /\ ps[i - lastId].kind # "simple"
             THEN WrapperJob(PackageJobs(ps[i - lastId]), "SUBMITTED") ELSE wrappers[i]]
        /\ packages' = packages \o [k \in DOMAIN Wrapped(ps) |-> PackageJobs(Wrapped(ps)[k])]
        /\ todo' = QueuedIds(new)
        /\ type' = type
  BY DEF Iteration
<1>2. PICK ps \in {ToSubmit(l)} : \E new \in {Submitted(l, ps)} :
        /\ lastId + Len(ps) <= MaxId
        /\ list' = new /\ saved' = new
        /\ lastId' = lastId + Len(ps)
        /\ subs' = [i \in Ids |-> IF i - lastId \in DOMAIN ps THEN NewSub(ps[i - lastId], l) ELSE subs[i]]
        /\ files' = Removed(l, ps)
        /\ wrappers' = [i \in Ids |->
             IF i - lastId \in DOMAIN ps /\ ps[i - lastId].kind # "simple"
             THEN WrapperJob(PackageJobs(ps[i - lastId]), "SUBMITTED") ELSE wrappers[i]]
        /\ packages' = packages \o [k \in DOMAIN Wrapped(ps) |-> PackageJobs(Wrapped(ps)[k])]
        /\ todo' = QueuedIds(new)
        /\ type' = type
  BY <1>1
<1> DEFINE new == Submitted(l, ps)
<1>3. /\ lastId + Len(ps) <= MaxId
      /\ list' = new /\ saved' = new
      /\ lastId' = lastId + Len(ps)
      /\ subs' = [i \in Ids |-> IF i - lastId \in DOMAIN ps THEN NewSub(ps[i - lastId], l) ELSE subs[i]]
      /\ files' = Removed(l, ps)
      /\ wrappers' = [i \in Ids |->
           IF i - lastId \in DOMAIN ps /\ ps[i - lastId].kind # "simple"
           THEN WrapperJob(PackageJobs(ps[i - lastId]), "SUBMITTED") ELSE wrappers[i]]
      /\ packages' = packages \o [k \in DOMAIN Wrapped(ps) |-> PackageJobs(Wrapped(ps)[k])]
      /\ todo' = QueuedIds(new)
      /\ type' = type
  BY <1>2
<1>4. l = UpdateList(list) /\ ps = ToSubmit(l) /\ new = Submitted(l, ps)
  BY <1>1, <1>2
<1> HIDE DEF new
<1>5. /\ l \in ListSet /\ ps \in Seq(PackageSet) /\ new \in ListSet
      /\ HasFiles(list) => HasFiles(l)
  BY <1>3, <1>4, Plan
<1>6. /\ \A j \in Jobs \ JobsOf(ps) : new.status[j] = l.status[j]
      /\ \A j \in Jobs \cap JobsOf(ps) : new.status[j] = "SUBMITTED"
  <2>1. lastId \in 0..MaxId /\ lastId + Len(ps) <= MaxId
    BY <1>3 DEF TypeInv
  <2> QED
    BY <1>5, <2>1, SubmittedIs DEF new
<1>7. files' \in FileSet /\ files'.completed = files.completed \ JobsOf(ps)
  BY <1>3, RemovedIs DEF TypeInv
<1>8. \A k \in DOMAIN ps : ps[k] \in PackageSet
  BY <1>5
<1>9. lastId' \in 0..MaxId
  BY <1>3, <1>5, WrappersAssumption DEF TypeInv
<1>10. subs' \in [Ids -> SubSet]
  <2>1. \A k \in DOMAIN ps : NewSub(ps[k], l) \in SubSet
    BY <1>5, <1>8, NewSubIs
  <2> QED
    BY <1>3, <2>1 DEF TypeInv
<1>11. wrappers' \in [Ids -> WrapperSet]
  <2>1. ASSUME NEW p \in PackageSet
        PROVE  WrapperJob(PackageJobs(p), "SUBMITTED") \in WrapperSet
    <3>1. PackageJobs(p) \in Seq(Jobs) /\ "SUBMITTED" \in WrapperStatuses
      BY PackageJobsIs DEF WrapperStatuses
    <3> QED
      BY <3>1, WrapperJobIs
  <2>2. \A k \in DOMAIN ps : WrapperJob(PackageJobs(ps[k]), "SUBMITTED") \in WrapperSet
    BY <1>8, <2>1
  <2> QED
    BY <1>3, <2>2 DEF TypeInv
<1>12. packages' \in Seq(Seq(Jobs))
  <2> DEFINE P == {p \in Range(ps) : p.kind # "simple"}
             ws == Wrapped(ps)
             rows == [k \in DOMAIN ws |-> PackageJobs(ws[k])]
  <2>1. ws = Among(ps, P)
    BY DEF Wrapped
  <2> HIDE DEF P, ws
  <2>2. ws \in Seq(PackageSet \cap P)
    BY <1>5, <2>1, AmongType
  <2>3. DOMAIN ws = 1..Len(ws) /\ Len(ws) \in Nat /\ \A k \in 1..Len(ws) : ws[k] \in PackageSet
    BY <2>2
  <2>4. \A k \in 1..Len(ws) : PackageJobs(ws[k]) \in Seq(Jobs)
    BY <2>3, PackageJobsIs
  <2> DEFINE n == Len(ws)
             g(k) == PackageJobs(ws[k])
  <2>5. rows = [k \in 1..n |-> g(k)] /\ n \in Nat /\ \A k \in 1..n : g(k) \in Seq(Jobs)
    BY <2>3, <2>4
  <2> HIDE DEF n, g, rows
  <2>6. rows \in Seq(Seq(Jobs))
    BY <2>5
  <2>7. packages' = packages \o rows
    BY <1>3 DEF rows, ws
  <2> QED
    BY <2>6, <2>7 DEF TypeInv
<1>13. todo' \subseteq Ids
  BY <1>3 DEF QueuedIds
<1>14. TypeInv'
  BY <1>3, <1>5, <1>7, <1>9, <1>10, <1>11, <1>12, <1>13 DEF TypeInv
<1>15. FilesInv => FilesInv'
  <2>1. SUFFICES ASSUME FilesInv, NEW j \in Jobs, new.status[j] = "COMPLETED"
                 PROVE  j \in files'.completed
    BY <1>3 DEF FilesInv, HasFiles
  <2>2. j \notin JobsOf(ps) /\ l.status[j] = "COMPLETED"
    BY <1>6, <2>1
  <2> QED
    BY <1>5, <1>7, <2>1, <2>2 DEF FilesInv, HasFiles
<1> QED
  BY <1>14, <1>15

\* A new process keeps the types and the files.
LEMMA RestartTypes ==
  ASSUME TypeInv, Restart
  PROVE  TypeInv' /\ (FilesInv => FilesInv')
<1>1. /\ list' = Loaded(saved) /\ saved' = list'
      /\ todo' = QueuedIds(list')
      /\ UNCHANGED <<type, packages, subs, lastId, files>>
  BY DEF Restart
<1>2. PICK l : wrappers' = StoredWrappers(l)
  BY DEF Restart
<1>3. /\ Loaded(saved) \in ListSet
      /\ HasFiles(saved) => HasFiles(Loaded(saved))
  BY LoadedIs DEF TypeInv
<1>4. wrappers' \in [Ids -> WrapperSet]
  BY <1>2, StoredWrappersIs DEF TypeInv
<1>5. todo' \subseteq Ids
  BY <1>1 DEF QueuedIds
<1>6. TypeInv'
  BY <1>1, <1>3, <1>4, <1>5 DEF TypeInv
<1>7. FilesInv => FilesInv'
  BY <1>1, <1>3 DEF FilesInv, HasFiles
<1> QED
  BY <1>6, <1>7

\* The list and the wrapper that a check starts from.
LEMMA CheckStarts ==
  ASSUME TypeInv, NEW i \in Ids
  PROVE  LET x == [l |-> list, w |-> wrappers[i], cancel |-> FALSE, forget |-> FALSE] IN
         /\ x \in XSet /\ x.w.status \in WrapperStatuses
         /\ x.l = list /\ x.w = wrappers[i]
<1>1. wrappers[i] \in WrapperSet
  BY DEF TypeInv
<1> DEFINE w == wrappers[i]
<1> HIDE DEF w
<1>2. w.status \in WrapperStatuses /\ w.inner \subseteq Range(w.jobs)
      /\ w \in [jobs : Seq(Jobs), status : WrapperStatuses \cup {"WAITING"},
                started : SUBSET Jobs, inner : SUBSET Jobs, failed : BOOLEAN]
  BY <1>1 DEF WrapperSet, w
<1> DEFINE x == [l |-> list, w |-> w, cancel |-> FALSE, forget |-> FALSE]
<1>3. x.l = list /\ x.w = w
  OBVIOUS
<1>4. x \in XSet
  BY <1>2 DEF XSet, TypeInv
<1> QED
  BY <1>2, <1>3, <1>4 DEF w

\* Attempts end with the submission.
LEMMA StoppedIs ==
  ASSUME TypeInv, NEW i \in Ids, NEW state \in {"failed", "completed"}, NEW trapped,
         Stopped(i, state, trapped)
  PROVE  /\ subs' \in [Ids -> SubSet] /\ files' \in FileSet
         /\ files'.completed = files.completed
         /\ \A k \in Ids \ {i} : subs'[k] = subs[k]
         /\ subs'[i].state = state /\ subs'[i].kind = subs[i].kind /\ subs'[i].lists = subs[i].lists
         /\ \A j \in Jobs : subs'[i].job[j] = IF subs[i].job[j] = "run" THEN "bad" ELSE subs[i].job[j]
<1> DEFINE js == {j \in Jobs : subs[i].job[j] = "run"}
           f == [j \in Jobs |-> IF j \in js THEN "bad" ELSE subs[i].job[j]]
           s == [subs[i] EXCEPT !.state = state, !.reason = "none", !.job = f]
           g == [j \in Jobs |-> IF j \in js \cap subs[i].first /\ trapped THEN 2 ELSE files.stat[j]]
<1>1. subs[i] \in SubSet /\ files \in FileSet
  BY DEF TypeInv
<1>2. subs' = [subs EXCEPT ![i] = s]
  BY <1>1 DEF Stopped, TypeInv, SubSet
<1>3. files' = [files EXCEPT !.late = @ \ js, !.stat = g]
  BY <1>1 DEF Stopped, FileSet
<1>4. f \in [Jobs -> {"no", "todo", "run", "ok", "bad"}]
  BY <1>1 DEF SubSet
<1>5. g \in [Jobs -> 0..2]
  BY <1>1 DEF FileSet
<1>6. \A j \in Jobs : f[j] = IF subs[i].job[j] = "run" THEN "bad" ELSE subs[i].job[j]
  OBVIOUS
<1> HIDE DEF f, g, js
<1>7. /\ s \in SubSet /\ s.state = state /\ s.kind = subs[i].kind /\ s.lists = subs[i].lists
      /\ s.job = f
  BY <1>1, <1>4 DEF SubSet
<1> HIDE DEF s
<1>8. subs' \in [Ids -> SubSet] /\ subs'[i] = s /\ \A k \in Ids \ {i} : subs'[k] = subs[k]
  BY <1>2, <1>7 DEF TypeInv
<1>9. files' \in FileSet /\ files'.completed = files.completed
  BY <1>1, <1>3, <1>5 DEF FileSet
<1> QED
  BY <1>6, <1>7, <1>8, <1>9

\* What a check of a wrapper comes to.
LEMMA CheckWrapperIs ==
  ASSUME TypeInv, NEW i \in Ids, CheckWrapper(i)
  PROVE  \E x \in XSet :
           /\ Put([l |-> list, w |-> wrappers[i], cancel |-> FALSE, forget |-> FALSE], x)
           /\ list' = x.l
           /\ wrappers' = [wrappers EXCEPT ![i] = IF x.w.status = "WAITING" THEN NoWrapper ELSE x.w]
           /\ IF x.cancel /\ Alive(i) THEN Stopped(i, "failed", TRUE)
              ELSE files' = [files EXCEPT !.wrapperFailed = @ /\ ~x.forget] /\ subs' = subs
<1> DEFINE x0 == [l |-> list, w |-> wrappers[i], cancel |-> FALSE, forget |-> FALSE]
<1>1. PICK a \in {"QUEUING", "RUNNING", "COMPLETED", "FAILED"} :
        \E x \in {CheckStatus(x0, a, subs[i].reason)} :
           /\ list' = x.l
           /\ wrappers' = [wrappers EXCEPT ![i] = IF x.w.status = "WAITING" THEN NoWrapper ELSE x.w]
           /\ IF x.cancel /\ Alive(i) THEN Stopped(i, "failed", TRUE)
              ELSE files' = [files EXCEPT !.wrapperFailed = @ /\ ~x.forget] /\ subs' = subs
  BY DEF CheckWrapper
<1>2. x0 \in XSet /\ x0.w.status \in WrapperStatuses
  BY CheckStarts
<1> HIDE DEF x0
<1> DEFINE x == CheckStatus(x0, a, subs[i].reason)
<1>3. Put(x0, x)
  BY <1>2, CheckStatusIs DEF TypeInv
<1>4. x \in XSet
  BY <1>3 DEF Put, Follows
<1>5. /\ list' = x.l
      /\ wrappers' = [wrappers EXCEPT ![i] = IF x.w.status = "WAITING" THEN NoWrapper ELSE x.w]
      /\ IF x.cancel /\ Alive(i) THEN Stopped(i, "failed", TRUE)
         ELSE files' = [files EXCEPT !.wrapperFailed = @ /\ ~x.forget] /\ subs' = subs
  BY <1>1
<1> HIDE DEF x
<1> QED
  BY <1>3, <1>4, <1>5 DEF x0

\* A check of a wrapper keeps the types; it takes for COMPLETED only jobs with a file.
LEMMA CheckWrapperTypes ==
  ASSUME TypeInv, NEW i \in Ids, CheckWrapper(i)
  PROVE  TypeInv' /\ (FilesInv => FilesInv')
<1> DEFINE x0 == [l |-> list, w |-> wrappers[i], cancel |-> FALSE, forget |-> FALSE]
<1>1. PICK x \in XSet :
        /\ Put(x0, x)
        /\ list' = x.l
        /\ wrappers' = [wrappers EXCEPT ![i] = IF x.w.status = "WAITING" THEN NoWrapper ELSE x.w]
        /\ IF x.cancel /\ Alive(i) THEN Stopped(i, "failed", TRUE)
           ELSE files' = [files EXCEPT !.wrapperFailed = @ /\ ~x.forget] /\ subs' = subs
  BY CheckWrapperIs
<1>2. todo' = todo \ {i} /\ UNCHANGED <<type, saved, packages, lastId>>
  BY DEF CheckWrapper
<1>3. list' \in ListSet
  BY <1>1 DEF XSet
<1>4. wrappers' \in [Ids -> WrapperSet]
  <2>1. NoWrapper \in WrapperSet
    BY DEF NoWrapper, WrapperSet, WrapperStatuses
  <2>2. x.w.status # "WAITING" => x.w \in WrapperSet
    BY DEF XSet, WrapperSet
  <2> QED
    BY <1>1, <2>1, <2>2 DEF TypeInv
<1>5. subs' \in [Ids -> SubSet] /\ files' \in FileSet /\ files'.completed = files.completed
  <2>1. CASE x.cancel /\ Alive(i)
    BY <1>1, <2>1, StoppedIs
  <2>2. CASE ~(x.cancel /\ Alive(i))
    <3>1. files \in FileSet /\ files' = [files EXCEPT !.wrapperFailed = @ /\ ~x.forget] /\ subs' = subs
      BY <1>1, <2>2 DEF TypeInv
    <3>2. (files.wrapperFailed /\ ~x.forget) \in BOOLEAN
      OBVIOUS
    <3> QED
      BY <3>1, <3>2 DEF FileSet, TypeInv
  <2> QED
    BY <2>1, <2>2
<1>6. TypeInv'
  BY <1>2, <1>3, <1>4, <1>5 DEF TypeInv
<1>7. HasFiles(list) => HasFiles(x.l)
  BY <1>1 DEF Put, Follows
<1> QED
  BY <1>1, <1>2, <1>5, <1>6, <1>7 DEF FilesInv, HasFiles

\* A check of a job that is followed alone keeps them as well.
LEMMA CheckSimpleTypes ==
  ASSUME TypeInv, NEW i \in Ids, CheckSimple(i)
  PROVE  TypeInv' /\ (FilesInv => FilesInv')
<1> DEFINE js == {j \in Jobs : list.id[j] = i /\ list.status[j] \in InQueue}
           f == [j \in Jobs |-> IF j \notin js THEN list.status[j]
                                ELSE IF Answer(i) # "COMPLETED" THEN Answer(i)
                                ELSE IF j \in files.completed THEN "COMPLETED" ELSE "FAILED"]
<1>1. list' = [list EXCEPT !.status = f] /\ list \in ListSet
  BY DEF CheckSimple, TypeInv, ListSet
<1>2. todo' = todo \ {i} /\ UNCHANGED <<type, saved, wrappers, packages, subs, lastId, files>>
  BY DEF CheckSimple
<1>3. Answer(i) \in Statuses
  BY DEF Answer, Statuses, InQueue
<1> HIDE DEF js
<1>4. f \in [Jobs -> Statuses]
  BY <1>1, <1>3 DEF ListSet, Statuses
<1>5. \A j \in Jobs : f[j] = "COMPLETED" => list.status[j] = "COMPLETED" \/ j \in files.completed
  OBVIOUS
<1> HIDE DEF f
<1>6. list' \in ListSet /\ list'.status = f
  BY <1>1, <1>4 DEF ListSet
<1>7. TypeInv'
  BY <1>2, <1>6 DEF TypeInv
<1>8. FilesInv => FilesInv'
  BY <1>2, <1>5, <1>6 DEF FilesInv, HasFiles
<1> QED
  BY <1>7, <1>8

-----------------------------------------------------------------------------
(* What Slurm and the script do.                                           *)

\* No file of a job that is done is deleted, and no submission comes back to life.
SubsMove ==
  /\ subs' \in [Ids -> SubSet] /\ files' \in FileSet
  /\ files.completed \subseteq files'.completed
  /\ \A k \in Ids : Alive(k)' => Alive(k)
  /\ type = "vertical" /\ Vertical /\ SubsInv => SubsInv'

\* What the process keeps is left alone.
Moves == UNCHANGED <<type, local>> /\ SubsMove

\* One submission changes.
LEMMA OneMoves ==
  ASSUME TypeInv, NEW i \in Ids, NEW s \in SubSet, subs' = [subs EXCEPT ![i] = s],
         files' \in FileSet, lastId' = lastId,
         files.completed \subseteq files'.completed,
         s.state \in {"pending", "running", "suspended"} => Alive(i),
         type = "vertical" /\ Vertical /\ SubsInv =>
           /\ \A j \in Jobs : s.job[j] = "run" => s.state \in {"running", "suspended"}
           /\ i = lastId => ChainSub(s, files'.completed)
           /\ files'.completed # files.completed => i = lastId
  PROVE  SubsMove
<1>1. subs' \in [Ids -> SubSet] /\ subs'[i] = s /\ \A k \in Ids \ {i} : subs'[k] = subs[k]
  BY DEF TypeInv
<1>3. \A k \in Ids : Alive(k)' => Alive(k)
  <2> SUFFICES ASSUME NEW k \in Ids, Alive(k)'
               PROVE  Alive(k)
    OBVIOUS
  <2>1. CASE k = i
    BY <1>1, <2>1 DEF Alive
  <2>2. CASE k # i
    BY <1>1, <2>2 DEF Alive
  <2> QED
    BY <2>1, <2>2
<1>4. ASSUME type = "vertical", Vertical, SubsInv
      PROVE  SubsInv'
  <2>1. \A k \in Ids : k # lastId => ~Alive(k)'
    BY <1>3, <1>4 DEF SubsInv
  <2>2. \A k \in Ids, j \in Jobs : subs'[k].job[j] = "run" => subs'[k].state \in {"running", "suspended"}
    <3> SUFFICES ASSUME NEW k \in Ids, NEW j \in Jobs, subs'[k].job[j] = "run"
                 PROVE  subs'[k].state \in {"running", "suspended"}
      OBVIOUS
    <3>1. CASE k = i
      BY <1>1, <1>4, <3>1
    <3>2. CASE k # i
      BY <1>1, <1>4, <3>2 DEF SubsInv
    <3> QED
      BY <3>1, <3>2
  <2>3. lastId # 0 => ChainSub(subs'[lastId], files'.completed)
    <3>1. lastId # 0 => lastId \in Ids
      BY DEF TypeInv, Ids
    <3>2. CASE lastId = i
      BY <1>1, <1>4, <3>2
    <3>3. CASE lastId # i
      BY <1>1, <1>4, <3>1, <3>3 DEF SubsInv
    <3> QED
      BY <3>2, <3>3
  <2> QED
    BY <2>1, <2>2, <2>3 DEF SubsInv
<1> QED
  BY <1>1, <1>3, <1>4 DEF SubsMove

\* Only what Slurm says of it changes.
LEMMA StateMoves ==
  ASSUME TypeInv, NEW i \in Ids, NEW s \in SubSet, subs' = [subs EXCEPT ![i] = s],
         files' \in FileSet, UNCHANGED <<type, local>>, files'.completed = files.completed,
         s.job = subs[i].job, s.kind = subs[i].kind, s.lists = subs[i].lists,
         s.state \in {"pending", "running", "suspended"} => Alive(i),
         subs[i].state \in {"running", "suspended"} => s.state \in {"running", "suspended"},
         s.state = "pending" => subs[i].state = "pending"
  PROVE  Moves
<1>1. ASSUME SubsInv
      PROVE  /\ \A j \in Jobs : s.job[j] = "run" => s.state \in {"running", "suspended"}
             /\ i = lastId => ChainSub(s, files'.completed)
  <2>1. \A j \in Jobs : subs[i].job[j] = "run" => subs[i].state \in {"running", "suspended"}
    BY <1>1 DEF SubsInv
  <2>2. i = lastId => ChainSub(subs[i], files.completed)
    BY <1>1 DEF SubsInv, Ids
  <2>3. i = lastId => ChainSub(s, files'.completed)
    BY <2>2 DEF ChainSub
  <2> QED
    BY <2>1, <2>3
<1> QED
  BY <1>1, OneMoves DEF Moves, local

\* Slurm starts a submission.
LEMMA StartsMoves ==
  ASSUME TypeInv, NEW i \in Ids, Starts(i)
  PROVE  Moves
<1> DEFINE s == [subs[i] EXCEPT !.state = "running"]
<1>1. subs[i] \in SubSet /\ files \in FileSet
  BY DEF TypeInv
<1>2. subs' = [subs EXCEPT ![i] = s] /\ files' = files /\ UNCHANGED <<type, local>> /\ Alive(i)
      /\ subs[i].state = "pending"
  BY DEF Starts, Alive
<1>3. s \in SubSet /\ s.state = "running" /\ s.job = subs[i].job /\ s.kind = subs[i].kind
      /\ s.lists = subs[i].lists
  BY <1>1 DEF SubSet
<1> HIDE DEF s
<1> QED
  BY <1>1, <1>2, <1>3, StateMoves

\* Slurm gives a reason for which a submission waits.
LEMMA WaitsMoves ==
  ASSUME TypeInv, NEW i \in Ids, Waits(i)
  PROVE  Moves
<1>0. PICK r \in Reasons : subs' = [subs EXCEPT ![i].reason = r]
  BY DEF Waits
<1> DEFINE s == [subs[i] EXCEPT !.reason = r]
<1>1. subs[i] \in SubSet /\ files \in FileSet
  BY DEF TypeInv
<1>2. subs' = [subs EXCEPT ![i] = s] /\ files' = files /\ UNCHANGED <<type, local>> /\ Alive(i)
  BY <1>0 DEF Waits, Alive
<1>3. s \in SubSet /\ s.state = subs[i].state /\ s.job = subs[i].job /\ s.kind = subs[i].kind
      /\ s.lists = subs[i].lists
  BY <1>1 DEF SubSet
<1> HIDE DEF s
<1> QED
  BY <1>1, <1>2, <1>3, StateMoves

\* The user releases a submission that was held.
LEMMA UserReleasesMoves ==
  ASSUME TypeInv, NEW i \in Ids, UserReleases(i)
  PROVE  Moves
<1> DEFINE s == [subs[i] EXCEPT !.reason = "none"]
<1>1. subs[i] \in SubSet /\ files \in FileSet
  BY DEF TypeInv
<1>2. subs' = [subs EXCEPT ![i] = s] /\ files' = files /\ UNCHANGED <<type, local>>
  BY DEF UserReleases
<1>3. s \in SubSet /\ s.state = subs[i].state /\ s.job = subs[i].job /\ s.kind = subs[i].kind
      /\ s.lists = subs[i].lists
  BY <1>1 DEF SubSet
<1>4. subs[i].state \in {"pending", "running", "suspended"} => Alive(i)
  BY DEF Alive
<1> HIDE DEF s
<1> QED
  BY <1>1, <1>2, <1>3, <1>4, StateMoves

\* Slurm suspends a submission.
LEMMA SuspendsMoves ==
  ASSUME TypeInv, NEW i \in Ids, Suspends(i)
  PROVE  Moves
<1> DEFINE s == [subs[i] EXCEPT !.state = "suspended"]
<1>1. subs[i] \in SubSet /\ files \in FileSet
  BY DEF TypeInv
<1>2. subs' = [subs EXCEPT ![i] = s] /\ files' = files /\ UNCHANGED <<type, local>> /\ Alive(i)
  BY DEF Suspends, Alive
<1>3. s \in SubSet /\ s.state = "suspended" /\ s.job = subs[i].job /\ s.kind = subs[i].kind
      /\ s.lists = subs[i].lists
  BY <1>1 DEF SubSet
<1> HIDE DEF s
<1> QED
  BY <1>1, <1>2, <1>3, StateMoves

\* Slurm resumes a submission.
LEMMA ResumesMoves ==
  ASSUME TypeInv, NEW i \in Ids, Resumes(i)
  PROVE  Moves
<1> DEFINE s == [subs[i] EXCEPT !.state = "running"]
<1>1. subs[i] \in SubSet /\ files \in FileSet
  BY DEF TypeInv
<1>2. subs' = [subs EXCEPT ![i] = s] /\ files' = files /\ UNCHANGED <<type, local>> /\ Alive(i)
  BY DEF Resumes, Alive
<1>3. s \in SubSet /\ s.state = "running" /\ s.job = subs[i].job /\ s.kind = subs[i].kind
      /\ s.lists = subs[i].lists
  BY <1>1 DEF SubSet
<1> HIDE DEF s
<1> QED
  BY <1>1, <1>2, <1>3, StateMoves

\* The files of a job are late.
LEMMA RunsLateMoves ==
  ASSUME TypeInv, NEW i \in Ids, NEW j \in Jobs, RunsLate(i, j)
  PROVE  Moves
<1>1. subs[i] \in SubSet /\ files \in FileSet
  BY DEF TypeInv
<1>2. subs' = [subs EXCEPT ![i] = subs[i]] /\ UNCHANGED <<type, local>> /\ Alive(i)
      /\ files' = [files EXCEPT !.late = @ \cup {j}]
  BY DEF RunsLate, Alive, TypeInv
<1>3. files' \in FileSet /\ files'.completed = files.completed
  BY <1>1, <1>2 DEF FileSet
<1> QED
  BY <1>1, <1>2, <1>3, StateMoves

\* A submission that ends: what ran there failed.
LEMMA EndMoves ==
  ASSUME TypeInv, NEW i \in Ids, NEW s \in SubSet, subs' = [subs EXCEPT ![i] = s],
         files' \in FileSet, lastId' = lastId, files'.completed = files.completed,
         s.kind = subs[i].kind, s.lists = subs[i].lists, s.state \in {"failed", "completed"},
         type = "vertical" /\ Vertical /\ SubsInv =>
           \A j \in Jobs : s.job[j] = IF subs[i].job[j] = "run" THEN "bad" ELSE subs[i].job[j]
  PROVE  SubsMove
<1>1. ASSUME type = "vertical", Vertical, SubsInv
      PROVE  /\ \A j \in Jobs : s.job[j] = "run" => s.state \in {"running", "suspended"}
             /\ i = lastId => ChainSub(s, files'.completed)
  <2>1. \A j \in Jobs : s.job[j] # "run"
    BY <1>1
  <2>2. ASSUME i = lastId
        PROVE  ChainSub(s, files'.completed)
    <3>1. ChainSub(subs[i], files.completed)
      BY <1>1, <2>2 DEF SubsInv, Ids
    <3>2. \A n \in 1..Len(chain) : chain[n] \in Jobs
      BY <1>1, ChainIs
    <3>3. \A n \in 1..Len(chain) : \A k \in 1..(n - 1) : k \in 1..Len(chain)
      BY <1>1, ChainIs
    <3>4. \A n \in 1..Len(chain) : \A k \in 1..(n - 1) :
            subs[i].job[chain[n]] # "todo" => subs[i].job[chain[k]] = "ok"
      BY <3>1 DEF ChainSub
    <3>5. \A j \in Jobs : /\ s.job[j] = "ok" <=> subs[i].job[j] = "ok"
                          /\ s.job[j] = "todo" <=> subs[i].job[j] = "todo"
      BY <1>1
    <3>6. \A n \in 1..Len(chain) : \A k \in 1..(n - 1) :
            s.job[chain[n]] # "todo" => s.job[chain[k]] = "ok"
      BY <3>2, <3>3, <3>4, <3>5
    <3> QED
      BY <3>1, <3>5, <3>6 DEF ChainSub
  <2> QED
    BY <2>1, <2>2
<1> QED
  BY <1>1, OneMoves

\* Slurm ends a submission before its script does.
LEMMA SlurmStopsMoves ==
  ASSUME TypeInv, NEW i \in Ids, SlurmStops(i)
  PROVE  Moves
<1>1. PICK trapped \in BOOLEAN : Stopped(i, "failed", trapped)
  BY DEF SlurmStops
<1>2. /\ subs' \in [Ids -> SubSet] /\ files' \in FileSet
      /\ files'.completed = files.completed
      /\ \A k \in Ids \ {i} : subs'[k] = subs[k]
      /\ subs'[i].state = "failed" /\ subs'[i].kind = subs[i].kind /\ subs'[i].lists = subs[i].lists
      /\ \A j \in Jobs : subs'[i].job[j] = IF subs[i].job[j] = "run" THEN "bad" ELSE subs[i].job[j]
  BY <1>1, StoppedIs
<1>3. UNCHANGED <<type, local>>
  BY DEF SlurmStops
<1> DEFINE s == subs'[i]
<1>4. s \in SubSet /\ subs' = [subs EXCEPT ![i] = s]
  BY <1>2 DEF TypeInv
<1> QED
  BY <1>2, <1>3, <1>4, EndMoves DEF Moves, local

\* The script of a wrapper gives up.
LEMMA ScriptFailsMoves ==
  ASSUME TypeInv, NEW i \in Ids, ScriptFails(i)
  PROVE  Moves
<1> DEFINE js == {j \in Jobs : subs[i].job[j] = "run"}
           bad == BadJobs(subs[i])
           f == [j \in Jobs |-> IF j \in js THEN "bad" ELSE subs[i].job[j]]
           s == [subs[i] EXCEPT !.state = "failed", !.job = f]
<1>1. subs[i] \in SubSet /\ files \in FileSet
  BY DEF TypeInv
<1>2. subs' = [subs EXCEPT ![i] = s] /\ UNCHANGED <<type, local>>
      /\ files' = [files EXCEPT !.failed = @ \cup bad, !.wrapperFailed = TRUE, !.late = @ \ js]
  BY <1>1 DEF ScriptFails, TypeInv, SubSet
<1>3. f \in [Jobs -> {"no", "todo", "run", "ok", "bad"}] /\ bad \subseteq Jobs
  BY <1>1 DEF SubSet, BadJobs
<1>4. \A j \in Jobs : f[j] = IF subs[i].job[j] = "run" THEN "bad" ELSE subs[i].job[j]
  OBVIOUS
<1> HIDE DEF f, js, bad
<1>5. s \in SubSet /\ s.state = "failed" /\ s.job = f /\ s.kind = subs[i].kind /\ s.lists = subs[i].lists
  BY <1>1, <1>3 DEF SubSet
<1>6. files' \in FileSet /\ files'.completed = files.completed
  BY <1>1, <1>2, <1>3 DEF FileSet
<1> HIDE DEF s
<1> QED
  BY <1>2, <1>4, <1>5, <1>6, EndMoves DEF Moves, local

\* The script of a wrapper ends.
LEMMA ScriptEndsMoves ==
  ASSUME TypeInv, NEW i \in Ids, ScriptEnds(i)
  PROVE  Moves
<1> DEFINE end == IF subs[i].kind = "simple" /\ BadJobs(subs[i]) # {} THEN "failed" ELSE "completed"
           bad == IF subs[i].kind = "simple" THEN {} ELSE BadJobs(subs[i])
           s == [subs[i] EXCEPT !.state = end]
<1>1. subs[i] \in SubSet /\ files \in FileSet
  BY DEF TypeInv
<1>2. subs' = [subs EXCEPT ![i] = s] /\ UNCHANGED <<type, local>>
      /\ files' = [files EXCEPT !.failed = @ \cup bad] /\ AllOver(subs[i]) /\ subs[i].state = "running"
  BY DEF ScriptEnds
<1>3. end \in {"failed", "completed"} /\ bad \subseteq Jobs
  BY DEF BadJobs
<1> HIDE DEF end, bad
<1>4. s \in SubSet /\ s.state = end /\ s.job = subs[i].job /\ s.kind = subs[i].kind
      /\ s.lists = subs[i].lists
  BY <1>1, <1>3 DEF SubSet
<1>5. files' \in FileSet /\ files'.completed = files.completed
  BY <1>1, <1>2, <1>3 DEF FileSet
<1> HIDE DEF s
<1>6. ASSUME type = "vertical", Vertical, SubsInv
      PROVE  \A j \in Jobs : subs[i].job[j] # "run"
  <2>1. i = lastId
    BY <1>2, <1>6 DEF SubsInv, Alive
  <2>2. ChainSub(subs[i], files.completed)
    BY <1>6, <2>1 DEF SubsInv, Ids
  <2>3. subs[i].lists = <<chain>>
    BY <2>2 DEF ChainSub
  <2>4. \A j \in Range(chain) : subs[i].job[j] \in {"ok", "bad"}
    BY <1>2, <2>3 DEF AllOver, OverList
  <2> QED
    BY <1>6, <2>4 DEF Vertical
<1>7. type = "vertical" /\ Vertical /\ SubsInv =>
        \A j \in Jobs : s.job[j] = IF subs[i].job[j] = "run" THEN "bad" ELSE subs[i].job[j]
  BY <1>4, <1>6
<1> QED
  BY <1>2, <1>3, <1>4, <1>5, <1>7, EndMoves DEF Moves, local

\* A job of the chain changes, that is not done yet: one that goes on has all before it
\* done.
LEMMA ChainChanges ==
  ASSUME Vertical, NEW u \in SubSet, NEW done, ChainSub(u, done), NEW j \in Jobs, u.job[j] # "ok",
         NEW s \in SubSet, s.kind = u.kind, s.lists = u.lists, s.state # "pending",
         \A q \in Jobs \ {j} : s.job[q] = u.job[q],
         s.job[j] # "todo" => \A n \in 1..Len(chain) :
                         chain[n] = j => \A k \in 1..(n - 1) : u.job[chain[k]] = "ok"
  PROVE  /\ s.job[j] = "ok" => ChainSub(s, done \cup {j})
         /\ s.job[j] # "ok" => ChainSub(s, done)
<1>1. \A n \in 1..Len(chain) : chain[n] \in Jobs /\ \A k \in 1..(n - 1) : k \in 1..Len(chain)
  <2>1. \A n \in 1..Len(chain) : \A k \in 1..(n - 1) : k \in 1..Len(chain)
    BY ChainPlaces
  <2> QED
    BY <2>1, ChainIs
<1>2. \A n \in 1..Len(chain) : \A k \in 1..(n - 1) :
        u.job[chain[n]] # "todo" => u.job[chain[k]] = "ok"
  BY DEF ChainSub
<1>3. \A n \in 1..Len(chain) : \A k \in 1..(n - 1) :
        s.job[chain[n]] # "todo" => s.job[chain[k]] = "ok"
  <2> SUFFICES ASSUME NEW n \in 1..Len(chain), NEW k \in 1..(n - 1), s.job[chain[n]] # "todo"
               PROVE  s.job[chain[k]] = "ok"
    OBVIOUS
  <2>1. chain[n] \in Jobs /\ chain[k] \in Jobs
    BY <1>1
  <2>2. u.job[chain[k]] = "ok"
    <3>1. CASE chain[n] = j
      BY <2>1, <3>1
    <3>2. CASE chain[n] # j
      BY <1>2, <2>1, <3>2
    <3> QED
      BY <3>1, <3>2
  <2>3. chain[k] # j
    BY <2>2
  <2> QED
    BY <2>1, <2>2, <2>3
<1>4. done = {q \in Jobs : u.job[q] = "ok"}
  BY DEF ChainSub
<1>5. /\ s.job[j] = "ok" => done \cup {j} = {q \in Jobs : s.job[q] = "ok"}
      /\ s.job[j] # "ok" => done = {q \in Jobs : s.job[q] = "ok"}
  BY <1>4
<1> QED
  BY <1>3, <1>5 DEF ChainSub

\* What ran, or went on, in a chain has all before it done.
LEMMA ChainDone ==
  ASSUME Vertical, NEW u, NEW done, ChainSub(u, done), NEW j \in Jobs, u.job[j] # "todo"
  PROVE  \A n \in 1..Len(chain) : chain[n] = j => \A k \in 1..(n - 1) : u.job[chain[k]] = "ok"
BY DEF ChainSub

\* The script starts a job: those before it in its list are done.
LEMMA JobStartsMoves ==
  ASSUME TypeInv, NEW i \in Ids, NEW j \in Jobs, JobStarts(i, j)
  PROVE  Moves
<1> DEFINE u == subs[i]
           s == [subs[i] EXCEPT !.job[j] = "run"]
           lines == IF j \in subs[i].first THEN 1 ELSE files.stat[j]
<1>1. u \in SubSet /\ files \in FileSet
  BY DEF TypeInv
<1>2. subs' = [subs EXCEPT ![i] = s] /\ UNCHANGED <<type, local>> /\ Alive(i)
      /\ files' = [files EXCEPT !.stat[j] = lines]
      /\ u.state = "running" /\ u.job[j] = "todo" /\ MayStart(u, j)
  BY DEF JobStarts, Alive
<1>3. /\ s \in SubSet /\ s.state = u.state /\ s.kind = u.kind /\ s.lists = u.lists
      /\ \A q \in Jobs : s.job[q] = IF q = j THEN "run" ELSE u.job[q]
  BY <1>1 DEF SubSet
<1>4. files' \in FileSet /\ files'.completed = files.completed
  <2>1. lines \in 0..2
    BY <1>1 DEF FileSet
  <2> HIDE DEF lines
  <2> QED
    BY <1>1, <1>2, <2>1 DEF FileSet
<1> HIDE DEF s, lines
<1>5. ASSUME type = "vertical", Vertical, SubsInv
      PROVE  /\ \A q \in Jobs : s.job[q] = "run" => s.state \in {"running", "suspended"}
             /\ i = lastId => ChainSub(s, files'.completed)
  <2>1. i = lastId
    BY <1>2, <1>5 DEF SubsInv
  <2>2. ChainSub(u, files.completed)
    BY <1>5, <2>1 DEF SubsInv, Ids
  <2>3. \A n \in 1..Len(chain) : chain[n] = j => \A k \in 1..(n - 1) : u.job[chain[k]] = "ok"
    <3>1. u.lists = <<chain>> /\ u.kind = "vertical"
      BY <2>2 DEF ChainSub
    <3>2. PICK m \in 1..Len(chain) : chain[m] = j /\ Ok(u, Range(SubSeq(chain, 1, m - 1)))
      <4>1. DOMAIN u.lists = {1} /\ u.lists[1] = chain
        BY <3>1
      <4>2. DOMAIN chain = 1..Len(chain)
        BY <1>5, ChainIs
      <4> HIDE DEF u
      <4> QED
        BY <1>2, <3>1, <4>1, <4>2 DEF MayStart
    <3>3. \A n \in 1..Len(chain) : chain[n] = j => n = m
      BY <1>5, <3>2 DEF Vertical
    <3>4. \A k \in 1..(m - 1) : chain[k] \in Range(SubSeq(chain, 1, m - 1))
      <4> SUFFICES ASSUME NEW k \in 1..(m - 1)
                   PROVE  chain[k] \in Range(SubSeq(chain, 1, m - 1))
        OBVIOUS
      <4>1. chain \in Seq(Jobs) /\ m - 1 \in 0..Len(chain) /\ Len(chain) \in Nat
        BY <1>5, ChainIs
      <4> DEFINE t == SubSeq(chain, 1, m - 1)
      <4>2. DOMAIN t = 1..(m - 1) /\ t[k] = chain[k]
        BY <4>1
      <4> HIDE DEF t
      <4> QED
        BY <4>2 DEF Range, t
    <3> QED
      BY <3>2, <3>3, <3>4 DEF Ok
  <2>4. ChainSub(s, files.completed)
    <3> DEFINE done == files.completed
    <3> HIDE DEF done, u
    <3>1. u.job[j] # "ok" /\ s.state # "pending" /\ ChainSub(u, done)
      BY <1>2, <1>3, <2>2 DEF done
    <3>2. s.job[j] = "run" /\ \A q \in Jobs \ {j} : s.job[q] = u.job[q]
      BY <1>3
    <3>3. ChainSub(s, done)
      BY <1>1, <1>3, <1>5, <2>3, <3>1, <3>2, ChainChanges
    <3> QED
      BY <3>3 DEF done
  <2>5. \A q \in Jobs : s.job[q] = "run" => s.state \in {"running", "suspended"}
    BY <1>2, <1>3
  <2> QED
    BY <1>4, <2>4, <2>5
<1> QED
  BY <1>2, <1>3, <1>4, <1>5, OneMoves DEF Moves, local

\* A job succeeds and leaves its COMPLETED file.
LEMMA JobSucceedsMoves ==
  ASSUME TypeInv, NEW i \in Ids, NEW j \in Jobs, JobSucceeds(i, j)
  PROVE  Moves
<1> DEFINE u == subs[i]
           s == [subs[i] EXCEPT !.job[j] = "ok"]
           v == IF j \in subs[i].first THEN 2 ELSE files.stat[j]
<1>1. u \in SubSet /\ files \in FileSet
  BY DEF TypeInv
<1>2. subs' = [subs EXCEPT ![i] = s] /\ UNCHANGED <<type, local>> /\ Alive(i)
      /\ files' = [files EXCEPT !.completed = @ \cup {j}, !.late = @ \ {j}, !.stat[j] = v]
      /\ u.state = "running" /\ u.job[j] = "run"
  BY DEF JobSucceeds, Alive
<1>3. /\ s \in SubSet /\ s.state = u.state /\ s.kind = u.kind /\ s.lists = u.lists
      /\ \A q \in Jobs : s.job[q] = IF q = j THEN "ok" ELSE u.job[q]
  BY <1>1 DEF SubSet
<1>4. files' \in FileSet /\ files'.completed = files.completed \cup {j}
  <2>1. v \in 0..2
    BY <1>1 DEF FileSet
  <2> HIDE DEF v
  <2> QED
    BY <1>1, <1>2, <2>1 DEF FileSet
<1> HIDE DEF s, v
<1>5. ASSUME type = "vertical", Vertical, SubsInv
      PROVE  /\ \A q \in Jobs : s.job[q] = "run" => s.state \in {"running", "suspended"}
             /\ i = lastId /\ ChainSub(s, files'.completed)
  <2>1. i = lastId
    BY <1>2, <1>5 DEF SubsInv
  <2>2. ChainSub(u, files.completed)
    BY <1>5, <2>1 DEF SubsInv, Ids
  <2>3. ChainSub(s, files.completed \cup {j})
    <3> DEFINE done == files.completed
    <3> HIDE DEF done, u
    <3>1. u.job[j] # "ok" /\ u.job[j] # "todo" /\ s.state # "pending" /\ ChainSub(u, done)
      BY <1>2, <1>3, <2>2 DEF done
    <3>2. \A n \in 1..Len(chain) : chain[n] = j => \A k \in 1..(n - 1) : u.job[chain[k]] = "ok"
      BY <1>5, <3>1, ChainDone
    <3>3. ChainSub(s, done \cup {j})
      BY <1>1, <1>3, <1>5, <3>1, <3>2, ChainChanges
    <3> QED
      BY <3>3 DEF done
  <2>4. \A q \in Jobs : s.job[q] = "run" => s.state \in {"running", "suspended"}
    BY <1>2, <1>3
  <2> QED
    BY <1>4, <2>1, <2>3, <2>4
<1>6. files.completed \subseteq files'.completed
  BY <1>4
<1> QED
  BY <1>2, <1>3, <1>4, <1>5, <1>6, OneMoves DEF Moves, local

\* A job fails, and those after it in its list are not started.
LEMMA JobFailsMoves ==
  ASSUME TypeInv, NEW i \in Ids, NEW j \in Jobs, JobFails(i, j)
  PROVE  Moves
<1> DEFINE u == subs[i]
           c == IF Again(subs[i], j) THEN "todo" ELSE "bad"
           n == IF Again(subs[i], j) THEN u.tries[j] + 1 ELSE u.tries[j]
           s == [subs[i] EXCEPT !.job[j] = c, !.tries[j] = n]
           v == IF j \in subs[i].first THEN 2 ELSE files.stat[j]
<1>1. u \in SubSet /\ files \in FileSet
  BY DEF TypeInv
<1>2. subs' = [subs EXCEPT ![i] = s] /\ UNCHANGED <<type, local>> /\ Alive(i)
      /\ files' = [files EXCEPT !.late = @ \ {j}, !.stat[j] = v]
      /\ u.state = "running" /\ u.job[j] = "run"
  <2>1. subs' = [subs EXCEPT ![i].job[j] = c, ![i].tries[j] = n]
    BY DEF JobFails
  <2>2. subs \in [Ids -> SubSet]
    BY DEF TypeInv
  <2> HIDE DEF c, n
  <2>3. subs' = [subs EXCEPT ![i] = s]
    BY <2>1, <2>2 DEF SubSet
  <2> QED
    BY <2>3 DEF JobFails, Alive
<1>3. c \in {"todo", "bad"} /\ n \in 0..Retrials
  <2>1. u.tries[j] \in 0..Retrials /\ Retrials \in Nat
    BY <1>1, WrappersAssumption DEF SubSet
  <2>2. Again(u, j) => u.tries[j] < Retrials
    BY DEF Again
  <2> HIDE DEF u
  <2> QED
    BY <2>1, <2>2 DEF u
<1> HIDE DEF c, n
<1>4. /\ s \in SubSet /\ s.state = u.state /\ s.kind = u.kind /\ s.lists = u.lists
      /\ \A q \in Jobs : s.job[q] = IF q = j THEN c ELSE u.job[q]
  BY <1>1, <1>3 DEF SubSet
<1>5. files' \in FileSet /\ files'.completed = files.completed
  <2>1. v \in 0..2
    BY <1>1 DEF FileSet
  <2> HIDE DEF v
  <2> QED
    BY <1>1, <1>2, <2>1 DEF FileSet
<1> HIDE DEF s, v
<1>6. ASSUME type = "vertical", Vertical, SubsInv
      PROVE  /\ \A q \in Jobs : s.job[q] = "run" => s.state \in {"running", "suspended"}
             /\ i = lastId => ChainSub(s, files'.completed)
  <2>1. i = lastId
    BY <1>2, <1>6 DEF SubsInv
  <2>2. ChainSub(u, files.completed)
    BY <1>6, <2>1 DEF SubsInv, Ids
  <2>3. ChainSub(s, files.completed)
    <3> DEFINE done == files.completed
    <3> HIDE DEF done, u
    <3>1. u.job[j] # "ok" /\ u.job[j] # "todo" /\ s.state # "pending" /\ ChainSub(u, done)
          /\ c # "ok"
      BY <1>2, <1>3, <1>4, <2>2 DEF done
    <3>2. \A m \in 1..Len(chain) : chain[m] = j => \A k \in 1..(m - 1) : u.job[chain[k]] = "ok"
      BY <1>6, <3>1, ChainDone
    <3>4. ChainSub(s, done)
      BY <1>1, <1>4, <1>6, <3>1, <3>2, ChainChanges
    <3> QED
      BY <3>4 DEF done
  <2>4. \A q \in Jobs : s.job[q] = "run" => s.state \in {"running", "suspended"}
    BY <1>2, <1>4
  <2> QED
    BY <1>5, <2>3, <2>4
<1> QED
  BY <1>2, <1>4, <1>5, <1>6, OneMoves DEF Moves, local

\* Every step of Slurm and of the script is such a move.
LEMMA SlurmMoves ==
  ASSUME TypeInv, NEW i \in Ids, Script(i) \/ Trouble(i)
  PROVE  Moves
BY StartsMoves, WaitsMoves, UserReleasesMoves, SuspendsMoves, ResumesMoves, RunsLateMoves,
   SlurmStopsMoves, ScriptFailsMoves, ScriptEndsMoves, JobStartsMoves, JobSucceedsMoves, JobFailsMoves
   DEF Script, Trouble

\* Such a move keeps the types and the files.
LEMMA MovesTypes ==
  ASSUME TypeInv, Moves
  PROVE  TypeInv' /\ (FilesInv => FilesInv')
<1>1. TypeInv'
  BY DEF TypeInv, Moves, SubsMove, local
<1>2. FilesInv => FilesInv'
  BY DEF FilesInv, HasFiles, Moves, SubsMove, local
<1> QED
  BY <1>1, <1>2

\* Every step keeps the types and the files.
LEMMA TypesKept ==
  ASSUME TypeInv, [Next]_vars
  PROVE  TypeInv' /\ (FilesInv => FilesInv')
<1>1. CASE Iteration
  BY <1>1, IterationTypes
<1>2. CASE Restart
  BY <1>2, RestartTypes
<1>3. ASSUME NEW i \in Ids, CheckWrapper(i)
      PROVE  TypeInv' /\ (FilesInv => FilesInv')
  BY <1>3, CheckWrapperTypes
<1>4. ASSUME NEW i \in Ids, CheckSimple(i)
      PROVE  TypeInv' /\ (FilesInv => FilesInv')
  BY <1>4, CheckSimpleTypes
<1>5. ASSUME NEW i \in Ids, Script(i) \/ Trouble(i)
      PROVE  TypeInv' /\ (FilesInv => FilesInv')
  BY <1>5, SlurmMoves, MovesTypes
<1>6. CASE UNCHANGED vars
  BY <1>6 DEF vars, TypeInv, FilesInv, HasFiles
<1> QED
  BY <1>1, <1>2, <1>3, <1>4, <1>5, <1>6 DEF Next, Process, Slurm, Check

\* TypeOK holds for every workflow, every kind of wrapper and every trouble: the list,
\* the WrapperJobs, the submissions and the files of an experiment keep their types
\* through iterations, checks, restarts and whatever Slurm does.
THEOREM TypeCorrect == Spec => []TypeOK
<1>1. Init => TypeInv
  BY InitTypes
<1>2. TypeInv /\ [Next]_vars => TypeInv'
  BY TypesKept
<1>3. TypeInv => TypeOK
  <2> SUFFICES ASSUME TypeInv
               PROVE  TypeOK
    OBVIOUS
  <2>1. /\ list.status \in [Jobs -> Statuses] /\ list.fails \in [Jobs -> 0..Retrials]
        /\ list.id \in [Jobs -> Ids \cup {NoSub}]
        /\ saved.status \in [Jobs -> Statuses] /\ saved.fails \in [Jobs -> 0..Retrials]
    BY DEF TypeInv, ListSet
  <2>2. ASSUME NEW i \in Ids
        PROVE  /\ wrappers[i].inner \subseteq Range(wrappers[i].jobs)
               /\ Range(wrappers[i].jobs) \subseteq Jobs
    <3>1. wrappers[i] \in WrapperSet
      BY DEF TypeInv
    <3>2. wrappers[i].jobs \in Seq(Jobs) /\ wrappers[i].inner \subseteq Range(wrappers[i].jobs)
      BY <3>1 DEF WrapperSet
    <3> QED
      BY <3>2 DEF Range
  <2>3. \A i \in Ids : subs[i].tries \in [Jobs -> 0..Retrials]
    BY DEF TypeInv, SubSet
  <2>4. /\ todo \subseteq Ids /\ lastId \in 0..MaxId
        /\ files.completed \cup files.failed \cup files.late \subseteq Jobs
        /\ files.stat \in [Jobs -> 0..2]
    BY DEF TypeInv, FileSet
  <2> QED
    BY <2>1, <2>2, <2>3, <2>4 DEF TypeOK
<1> QED
  BY <1>1, <1>2, <1>3, PTL DEF Spec

\* CompletedHasFile holds for every kind of wrapper and every trouble: a job that the list
\* has as COMPLETED (check_wrapper_jobs_status, check_completed_files, update_list) has
\* its COMPLETED file, and the file is not removed by a later submission.
THEOREM CompletedHave == Spec => []CompletedHasFile
<1>1. Init => TypeInv /\ FilesInv
  BY InitTypes
<1>2. TypeInv /\ FilesInv /\ [Next]_vars => (TypeInv /\ FilesInv)'
  BY TypesKept
<1>3. FilesInv => CompletedHasFile
  BY DEF FilesInv, HasFiles, CompletedHasFile
<1> QED
  BY <1>1, <1>2, <1>3, PTL DEF Spec

-----------------------------------------------------------------------------
(* A vertical wrapper goes again only after it was held and cancelled.     *)

\* All wait but the first job, which is READY: what a wrapper is submitted from.
AtStart(l) == \A j \in Jobs : l.status[j] = IF j = chain[1] THEN "READY" ELSE "WAITING"

\* Only the first job of the chain depends on none.
LEMMA FirstOfChain ==
  ASSUME Vertical
  PROVE  \A j \in Jobs : Parents["vertical"][j] = {} <=> j = chain[1]
<1> SUFFICES ASSUME NEW j \in Jobs, j # chain[1]
             PROVE  Parents["vertical"][j] # {}
  BY ChainIs
<1>1. PICK n \in 1..Len(chain) : chain[n] = j
  BY ChainIs
<1>2. n \in 2..Len(chain)
  BY <1>1
<1> QED
  BY <1>1, <1>2, ChainIs

\* The release of a list in which each job but the first has a job before it that is
\* not done.
LEMMA ReleasedChain ==
  ASSUME Vertical, type = "vertical", NEW l \in ListSet, NEW j \in Jobs, j # chain[1],
         \A n \in 2..Len(chain) : l.status[chain[n]] = "WAITING" => l.status[chain[n - 1]] # "COMPLETED"
  PROVE  Released(l).status[j] = l.status[j]
<1>1. Released(l).status[j] = IF l.status[j] = "WAITING" /\ ParentsDone(l, j) THEN "READY" ELSE l.status[j]
  BY ReleasedIs
<1>2. PICK n \in 1..Len(chain) : chain[n] = j
  BY ChainIs
<1>3. n \in 2..Len(chain)
  BY <1>2
<1>4. Parents["vertical"][j] = {chain[n - 1]}
  BY <1>2, <1>3, ChainIs
<1>5. l.status[j] = "WAITING" => ~ParentsDone(l, j)
  BY <1>2, <1>3, <1>4 DEF ParentsDone, Done
<1> QED
  BY <1>1, <1>5

\* An update leaves what is under way or over as it is.
LEMMA UpdateLeaves ==
  ASSUME Vertical, type = "vertical", NEW l \in ListSet, Known(l), Going(l) \/ Over(l)
  PROVE  LET m == UpdateList(l) IN
         /\ m \in ListSet /\ Known(m)
         /\ \A j \in Jobs : m.status[j] = l.status[j]
         /\ ReadyJobs(m) = {}
<1> DEFINE r == Retry(l)
           m == Released(r)
<1>1. /\ r \in ListSet /\ r.wtype = l.wtype
      /\ \A j \in Jobs : r.status[j] = l.status[j] /\ r.id[j] = l.id[j]
  BY RetryIs DEF Known
<1> HIDE DEF r
<1>2. m \in ListSet /\ m.wtype = r.wtype /\ m.id = r.id
      /\ \A j \in Jobs : m.status[j] =
           IF r.status[j] = "WAITING" /\ ParentsDone(r, j) THEN "READY" ELSE r.status[j]
  BY <1>1, ReleasedIs
<1>3. \A n \in 1..Len(chain) : chain[n] \in Jobs
  BY ChainIs
<1>4. 1 \in 1..Len(chain) /\ \A n \in 2..Len(chain) : n \in 1..Len(chain) /\ n - 1 \in 1..Len(chain)
  BY ChainPlaces
<1>5. \A n \in 2..Len(chain) : r.status[chain[n]] = "WAITING" => r.status[chain[n - 1]] # "COMPLETED"
  BY <1>1, <1>3, <1>4 DEF Going, Over, InQueue
<1>6. r.status[chain[1]] # "WAITING"
  BY <1>1, <1>3, <1>4 DEF Going, Over, InQueue
<1>7. \A j \in Jobs : m.status[j] = r.status[j]
  <2> SUFFICES ASSUME NEW j \in Jobs
               PROVE  m.status[j] = r.status[j]
    OBVIOUS
  <2>1. CASE j = chain[1]
    BY <1>2, <1>6, <2>1
  <2>2. CASE j # chain[1]
    BY <1>1, <1>5, <2>2, ReleasedChain
  <2> QED
    BY <2>1, <2>2
<1>8. Known(m)
  BY <1>1, <1>2 DEF Known
<1>9. \A j \in Jobs : m.status[j] # "READY"
  BY <1>1, <1>7 DEF Going, Over, InQueue
<1>10. ReadyJobs(m) = {}
  BY <1>9 DEF ReadyJobs
<1>11. UpdateList(l) = m
  BY DEF UpdateList, r
<1> HIDE DEF m
<1> QED
  BY <1>1, <1>2, <1>7, <1>8, <1>10, <1>11

\* An update of what is new, or was held, releases the first job.
LEMMA UpdateStarts ==
  ASSUME Vertical, type = "vertical", NEW l \in ListSet, First(l) \/ Held(l)
  PROVE  LET m == UpdateList(l) IN
         /\ m \in ListSet /\ AtStart(m) /\ m.wtype = l.wtype
         /\ First(l) => \A j \in Jobs : m.fails[j] = 0
<1> DEFINE r == Retry(l)
           m == Released(r)
<1>1. \A j \in Jobs : l.status[j] \in {"READY", "WAITING"} /\ (j # chain[1] => l.status[j] = "WAITING")
  BY DEF First, Held
<1>2. /\ r \in ListSet /\ r.wtype = l.wtype
      /\ \A j \in Jobs : r.status[j] = l.status[j] /\ r.fails[j] = l.fails[j]
  BY <1>1, RetryIs
<1> HIDE DEF r
<1>3. m \in ListSet /\ m.wtype = r.wtype /\ m.fails = r.fails
      /\ \A j \in Jobs : m.status[j] =
           IF r.status[j] = "WAITING" /\ ParentsDone(r, j) THEN "READY" ELSE r.status[j]
  BY <1>2, ReleasedIs
<1>4. \A n \in 1..Len(chain) : chain[n] \in Jobs
  BY ChainIs
<1>5. 1 \in 1..Len(chain) /\ \A n \in 2..Len(chain) : n - 1 \in 1..Len(chain)
  BY ChainPlaces
<1>6. \A n \in 2..Len(chain) : r.status[chain[n]] = "WAITING" => r.status[chain[n - 1]] # "COMPLETED"
  BY <1>1, <1>2, <1>4, <1>5
<1>7. m.status[chain[1]] = "READY"
  <2>1. ParentsDone(r, chain[1])
    BY ChainIs DEF ParentsDone
  <2> QED
    BY <1>1, <1>2, <1>3, <1>4, <1>5, <2>1
<1>8. \A j \in Jobs : j # chain[1] => m.status[j] = "WAITING"
  <2> SUFFICES ASSUME NEW j \in Jobs, j # chain[1]
               PROVE  m.status[j] = "WAITING"
    OBVIOUS
  <2>1. m.status[j] = r.status[j]
    BY <1>2, <1>6, ReleasedChain
  <2> QED
    BY <1>1, <1>2, <2>1
<1>9. UpdateList(l) = m
  BY DEF UpdateList, r
<1>10. First(l) => \A j \in Jobs : m.fails[j] = 0
  BY <1>2, <1>3 DEF First
<1> HIDE DEF m
<1> QED
  BY <1>2, <1>3, <1>7, <1>8, <1>9, <1>10 DEF AtStart

\* From there all the jobs are in the package: each waits for the one before it only.
LEMMA AllInPackage ==
  ASSUME Vertical, type = "vertical", NEW l, AtStart(l)
  PROVE  InPackage(l) = Jobs
<1> DEFINE Is(in) == in = [j \in Jobs |->
             \/ j \in ReadyJobs(l)
             \/ /\ l.status[j] = "WAITING" /\ Parents[type][j] # {}
                /\ \A p \in Parents[type][j] : Done(l, p) \/ in[p]]
           in == CHOOSE x : Is(x)
           all == [j \in Jobs |-> TRUE]
<1>1. InPackage(l) = {j \in Jobs : in[j]}
  BY DEF InPackage
<1>2. \A j \in Jobs : /\ j \in ReadyJobs(l) <=> j = chain[1]
                      /\ j # chain[1] => l.status[j] = "WAITING" /\ Parents[type][j] # {}
                      /\ Parents[type][j] \subseteq Jobs
  BY FirstOfChain, ChainIs DEF AtStart, ReadyJobs
<1>3. Is(all)
  <2>1. \A j \in Jobs : all[j] = TRUE
    OBVIOUS
  <2>2. all = [j \in Jobs |-> all[j]]
    OBVIOUS
  <2> HIDE DEF all
  <2>3. \A j \in Jobs : all[j] =
          (\/ j \in ReadyJobs(l)
           \/ /\ l.status[j] = "WAITING" /\ Parents[type][j] # {}
              /\ \A p \in Parents[type][j] : Done(l, p) \/ all[p])
    BY <1>2, <2>1, Zenon
  <2> QED
    BY <2>2, <2>3, Zenon
<1>4. Is(in)
  BY <1>3, Zenon
<1> HIDE DEF in
<1>5. \A j \in Jobs : in[j] =
        (\/ j \in ReadyJobs(l)
         \/ /\ l.status[j] = "WAITING" /\ Parents[type][j] # {}
            /\ \A p \in Parents[type][j] : Done(l, p) \/ in[p])
  BY <1>4, Zenon
<1>6. \A n \in 1..Len(chain) : in[chain[n]]
  <2> DEFINE Bad == {n \in 1..Len(chain) : ~in[chain[n]]}
  <2>1. SUFFICES ASSUME Bad # {}
                 PROVE  FALSE
    OBVIOUS
  <2>2. Bad \subseteq Nat
    BY ChainIs
  <2>3. \A n : n \in Bad <=> n \in 1..Len(chain) /\ ~in[chain[n]]
    OBVIOUS
  <2> HIDE DEF Bad
  <2>4. PICK b \in Bad : \A n \in Bad : b <= n
    BY <2>1, <2>2, LeastNumber
  <2>5. b \in 1..Len(chain) /\ chain[b] \in Jobs /\ ~in[chain[b]]
    BY <2>3, <2>4, ChainIs
  <2>6. chain[b] # chain[1]
    BY <1>2, <1>5, <2>5, Zenon
  <2>7. b \in 2..Len(chain) /\ b - 1 \in 1..Len(chain)
    BY <2>5, <2>6, ChainIs
  <2>8. Parents[type][chain[b]] = {chain[b - 1]}
    BY <2>7, ChainIs
  <2>9. b - 1 \notin Bad
    BY <2>2, <2>4, <2>7
  <2>10. in[chain[b - 1]]
    BY <2>3, <2>7, <2>9
  <2>11. l.status[chain[b]] = "WAITING" /\ Parents[type][chain[b]] # {}
    BY <1>2, <2>5, <2>6
  <2>12. \A p \in Parents[type][chain[b]] : Done(l, p) \/ in[p]
    BY <2>8, <2>10, Zenon
  <2> QED
    BY <1>5, <2>5, <2>11, <2>12, Zenon
<1>7. \A j \in Jobs : in[j]
  <2> SUFFICES ASSUME NEW j \in Jobs
               PROVE  in[j]
    OBVIOUS
  <2>1. PICK n \in 1..Len(chain) : chain[n] = j
    BY ChainIs
  <2>2. in[chain[n]]
    BY <1>6, Zenon
  <2> QED
    BY <2>1, <2>2, Zenon
<1> QED
  BY <1>1, <1>7

\* The package is the chain.
LEMMA ChainPackaged ==
  ASSUME Vertical, type = "vertical", NEW l, AtStart(l)
  PROVE  \E t \in {"vertical", "keep"} :
           /\ ToSubmit(l) = <<Package("vertical", <<chain>>, t)>>
           /\ (\A j \in Jobs : l.fails[j] = 0) => t = "vertical"
<1> DEFINE js == InPackage(l)
           wrap(t) == <<Package(type, PackageLists(js), t)>>
           ready == SetToSeq(ReadyJobs(l))
           ps == ToSubmit(l)
<1>1. js = Jobs
  BY AllInPackage
<1>2. /\ 1 \in 1..Len(chain) /\ 2 \in 1..Len(chain) /\ chain \in Seq(Jobs)
      /\ chain[1] \in Jobs /\ chain[2] \in Jobs /\ chain[1] # chain[2]
  <2>1. 1 \in 1..Len(chain) /\ 2 \in 1..Len(chain) /\ chain \in Seq(Jobs)
        /\ \A n \in 1..Len(chain) : chain[n] \in Jobs
    BY ChainIs
  <2> QED
    BY <2>1 DEF Vertical
<1>3. ready # <<>>
  <2>1. chain[1] \in ReadyJobs(l)
    BY <1>2 DEF ReadyJobs, AtStart
  <2>2. IsFiniteSet(ReadyJobs(l))
    BY WrappersAssumption, FS_Subset DEF ReadyJobs
  <2> QED
    BY <2>1, <2>2, SeqOfSet
<1>4. Cardinality(Jobs) > 1
  <2>1. IsFiniteSet({chain[1], chain[2]}) /\ Cardinality({chain[1], chain[2]}) = 2
    <3> DEFINE S == {chain[1]}
    <3>1. IsFiniteSet(S) /\ Cardinality(S) = 1
      BY FS_Singleton
    <3>2. chain[2] \notin S
      BY <1>2
    <3> HIDE DEF S
    <3>3. IsFiniteSet(S \cup {chain[2]}) /\ Cardinality(S \cup {chain[2]}) = Cardinality(S) + 1
      BY <3>1, <3>2, FS_AddElement
    <3>4. S \cup {chain[2]} = {chain[1], chain[2]}
      BY DEF S
    <3> QED
      BY <3>1, <3>3, <3>4
  <2>2. {chain[1], chain[2]} \subseteq Jobs
    BY <1>2
  <2>3. Cardinality({chain[1], chain[2]}) <= Cardinality(Jobs) /\ Cardinality(Jobs) \in Nat
    BY <2>2, WrappersAssumption, FS_Subset, FS_CardinalityType
  <2> QED
    BY <2>1, <2>3
<1>5. PackageLists(js) = <<chain>>
  <2> DEFINE ls == [k \in DOMAIN Chains[type] |-> Among(Chains[type][k], js)]
             P == Seq(Jobs) \ {<<>>}
  <2>1. PackageLists(js) = Among(ls, P)
    BY DEF PackageLists
  <2>2. DOMAIN Chains[type] = {1} /\ Chains[type][1] = chain
    <3>1. Chains["vertical"] \in Seq(Seq(Jobs)) /\ Len(Chains["vertical"]) = 1
      BY WrappersAssumption DEF Vertical
    <3> QED
      BY <3>1 DEF chain
  <2>3. Among(chain, Jobs) = chain
    BY <1>2, AmongAll
  <2>4. ls = [k \in {1} |-> chain]
    BY <1>1, <2>2, <2>3
  <2>5. [k \in {1} |-> chain] = <<chain>>
    OBVIOUS
  <2>6. chain \in P
    <3>1. chain # <<>>
      BY <1>2
    <3> QED
      BY <1>2, <3>1
  <2> HIDE DEF P, ls
  <2>7. <<chain>> \in Seq(P)
    BY <2>6
  <2>8. Among(<<chain>>, P) = <<chain>>
    BY <2>7, AmongAll
  <2> QED
    BY <2>1, <2>4, <2>5, <2>8
<1>6. \A j \in Jobs : l.status[j] \notin InQueue
  BY DEF AtStart, InQueue
<1> DEFINE C1 == Cardinality(js) > 1 /\ (\A j \in js : l.fails[j] = 0)
           C2 == \E j \in Jobs : l.status[j] \in InQueue
           C3 == \A j \in Jobs \ js : Done(l, j)
           C4 == Cardinality(js) = 1
           A1 == wrap(WrapperType)
           A2 == <<Simple(ready[1], "Simple")>>
           A3 == wrap("keep")
           A4 == [k \in DOMAIN ready |-> Simple(ready[k], "keep")]
<1>7. ps = CASE ready = <<>> -> <<>>
             [] ready # <<>> /\ C1 -> A1
             [] OTHER -> IF C2 THEN <<>> ELSE IF C3 THEN IF C4 THEN A2 ELSE A3 ELSE A4
  BY DEF ToSubmit
<1>8. ~C2 /\ C3 /\ ~C4 /\ (C1 <=> \A j \in Jobs : l.fails[j] = 0)
  <2>1. ~C2
    BY <1>6
  <2>2. C3
    BY <1>1
  <2>3. ~C4
    BY <1>1, <1>4
  <2>4. C1 <=> \A j \in Jobs : l.fails[j] = 0
    BY <1>1, <1>4
  <2> QED
    BY <2>1, <2>2, <2>3, <2>4
<1>9. /\ A1 = <<Package("vertical", <<chain>>, "vertical")>>
      /\ A3 = <<Package("vertical", <<chain>>, "keep")>>
  <2> HIDE DEF js
  <2> QED
    BY <1>5 DEF WrapperType
<1> HIDE DEF ps, C1, C2, C3, C4, A1, A2, A3, A4, ready
<1>10. ps = IF C1 THEN A1 ELSE A3
  BY <1>3, <1>7, <1>8
<1>11. CASE C1
  BY <1>9, <1>10, <1>11 DEF ps
<1>12. CASE ~C1
  BY <1>8, <1>9, <1>10, <1>12 DEF ps
<1> QED
  BY <1>11, <1>12

\* Before the first submission.
LEMMA InitVertical ==
  ASSUME Vertical, Init, type = "vertical"
  PROVE  SubsInv /\ ListInv
<1>1. /\ \A j \in Jobs : list.status[j] = IF Parents["vertical"][j] = {} THEN "READY" ELSE "WAITING"
      /\ \A j \in Jobs : list.fails[j] = 0 /\ list.wtype[j] = "none" /\ list.id[j] = NoSub
  BY DEF Init
<1>2. First(list)
  BY <1>1, FirstOfChain DEF First
<1>3. saved = list /\ packages = <<>> /\ todo = {} /\ lastId = 0
  BY DEF Init
<1>4. \A i \in Ids : subs[i].state = "none" /\ \A j \in Jobs : subs[i].job[j] = "no"
  BY DEF Init, NoneSub
<1>5. SubsInv
  BY <1>3, <1>4 DEF SubsInv, Alive
<1>6. ListInv
  BY <1>2, <1>3 DEF ListInv
<1> QED
  BY <1>5, <1>6

\* The ids that are asked for are those of jobs in the queue.
LEMMA QueuedIdsIs ==
  ASSUME NEW l, NEW id, \A j \in Jobs : l.id[j] = id
  PROVE  /\ QueuedIds(l) \subseteq {id}
         /\ QueuedIds(l) # {} => \E j \in Jobs : l.status[j] \in InQueue
BY DEF QueuedIds

\* Only a wrapper under way has jobs in the queue.
LEMMA QueuedGoing ==
  ASSUME NEW l, Going(l) \/ Over(l), QueuedIds(l) # {}
  PROVE  Going(l)
BY DEF QueuedIds, Over, InQueue

\* Nothing is submitted.
LEMMA IterationLeaves ==
  ASSUME TypeInv, Vertical, type = "vertical", SubsInv, ListInv, Iteration,
         lastId # 0, Going(list) \/ Over(list)
  PROVE  SubsInv' /\ ListInv'
<1> DEFINE l == UpdateList(list)
           ps == ToSubmit(l)
           new == Submitted(l, ps)
<1>1. /\ lastId + Len(ps) <= MaxId
      /\ list' = new /\ saved' = new
      /\ lastId' = lastId + Len(ps)
      /\ subs' = [i \in Ids |-> IF i - lastId \in DOMAIN ps THEN NewSub(ps[i - lastId], l) ELSE subs[i]]
      /\ files' = Removed(l, ps)
      /\ wrappers' = [i \in Ids |->
           IF i - lastId \in DOMAIN ps /\ ps[i - lastId].kind # "simple"
           THEN WrapperJob(PackageJobs(ps[i - lastId]), "SUBMITTED") ELSE wrappers[i]]
      /\ packages' = packages \o [k \in DOMAIN Wrapped(ps) |-> PackageJobs(Wrapped(ps)[k])]
      /\ todo' = QueuedIds(new)
      /\ todo = {}
  BY DEF Iteration
<1>2. Known(list)
  BY DEF ListInv
<1>3. /\ l \in ListSet /\ Known(l) /\ ReadyJobs(l) = {}
      /\ \A j \in Jobs : l.status[j] = list.status[j]
  BY <1>2, UpdateLeaves DEF TypeInv
<1> HIDE DEF l
<1>4. ps = <<>>
  BY <1>3, ToSubmitIs DEF TypeInv
<1> HIDE DEF ps
<1>5. JobsOf(ps) = {} /\ DOMAIN ps = {} /\ Len(ps) = 0 /\ ps \in Seq(PackageSet)
  BY <1>4 DEF JobsOf
<1>6. \A j \in Jobs : new.status[j] = list.status[j] /\ new.id[j] = lastId /\ new.wtype[j] = "vertical"
  <2>1. lastId \in 0..MaxId /\ lastId + Len(ps) <= MaxId
    BY <1>1 DEF TypeInv
  <2>2. \A j \in Jobs \ JobsOf(ps) :
          new.status[j] = l.status[j] /\ new.id[j] = l.id[j] /\ new.wtype[j] = l.wtype[j]
    BY <1>3, <1>5, <2>1, SubmittedIs
  <2> HIDE DEF new
  <2> QED
    BY <1>3, <1>5, <2>2 DEF Known
<1> HIDE DEF new
<1>7. lastId' = lastId
  BY <1>1, <1>5 DEF TypeInv
<1>8. subs' = subs /\ wrappers' = wrappers
  <2>1. subs' = [i \in Ids |-> subs[i]] /\ wrappers' = [i \in Ids |-> wrappers[i]]
    BY <1>1, <1>5
  <2> QED
    BY <2>1 DEF TypeInv
<1>9. files'.completed = files.completed
  BY <1>1, <1>5, RemovedIs DEF TypeInv
<1>10. packages' = packages
  <2> DEFINE P == {p \in Range(ps) : p.kind # "simple"}
  <2>1. Wrapped(ps) = Among(ps, P)
    BY DEF Wrapped
  <2> HIDE DEF P
  <2>2. ps \in Seq(P)
    BY <1>4
  <2>3. Wrapped(ps) = <<>>
    BY <1>4, <2>1, <2>2, AmongAll
  <2>4. [k \in DOMAIN Wrapped(ps) |-> PackageJobs(Wrapped(ps)[k])] = <<>>
    BY <2>3
  <2> QED
    BY <1>1, <2>4 DEF TypeInv
<1>11. Known(new) /\ (Going(list) => Going(new)) /\ (Over(list) => Over(new))
  <2>1. \A n \in 1..Len(chain) : chain[n] \in Jobs
    BY ChainIs
  <2>2. 1 \in 1..Len(chain) /\ \A n \in 2..Len(chain) : n \in 1..Len(chain) /\ n - 1 \in 1..Len(chain)
    BY ChainPlaces
  <2>3. Known(new) /\ (Going(list) => Going(new))
    BY <1>6 DEF Known, Going
  <2>4. Over(list) => Over(new)
    BY <1>6, <2>1, <2>2 DEF Over
  <2> QED
    BY <2>3, <2>4
<1>12. Going(new) => Going(list)
  BY <1>6 DEF Going
<1>13. todo' \subseteq {lastId} /\ (todo' # {} => Going(new))
  <2>1. \A j \in Jobs : new.id[j] = lastId
    BY <1>6
  <2>2. todo' \subseteq {lastId}
    BY <1>1, <2>1, QueuedIdsIs
  <2>3. todo' # {} => Going(new)
    BY <1>1, <1>11, QueuedGoing
  <2> QED
    BY <2>2, <2>3
<1>14. SubsInv'
  BY <1>7, <1>8, <1>9 DEF SubsInv, Alive
<1>15. Known(list)' /\ Known(saved)'
  BY <1>1, <1>7, <1>11 DEF Known
<1>16. (Going(list)' \/ Over(list)') /\ (Going(saved)' \/ Over(saved)')
  BY <1>1, <1>11 DEF Going, Over
<1>17. Going(list)' => wrappers'[lastId'].jobs = chain
  BY <1>1, <1>7, <1>8, <1>12 DEF ListInv, Going
<1>18. todo' # {} => Going(list)'
  BY <1>1, <1>13 DEF Going
<1>19. packages' # <<>> /\ \A k \in DOMAIN packages' : packages'[k] = chain
  BY <1>10 DEF ListInv
<1> QED
  BY <1>7, <1>13, <1>14, <1>15, <1>16, <1>17, <1>18, <1>19 DEF ListInv

\* The chain is submitted, as one package.
LEMMA IterationSubmits ==
  ASSUME TypeInv, Vertical, type = "vertical", SubsInv, ListInv, Iteration,
         \/ First(list) /\ lastId = 0
         \/ Held(list) /\ lastId # 0 /\ ~Alive(lastId)
  PROVE  SubsInv' /\ ListInv'
<1> DEFINE l == UpdateList(list)
           ps == ToSubmit(l)
           new == Submitted(l, ps)
<1>1. /\ lastId + Len(ps) <= MaxId
      /\ list' = new /\ saved' = new
      /\ lastId' = lastId + Len(ps)
      /\ subs' = [i \in Ids |-> IF i - lastId \in DOMAIN ps THEN NewSub(ps[i - lastId], l) ELSE subs[i]]
      /\ files' = Removed(l, ps)
      /\ wrappers' = [i \in Ids |->
           IF i - lastId \in DOMAIN ps /\ ps[i - lastId].kind # "simple"
           THEN WrapperJob(PackageJobs(ps[i - lastId]), "SUBMITTED") ELSE wrappers[i]]
      /\ packages' = packages \o [k \in DOMAIN Wrapped(ps) |-> PackageJobs(Wrapped(ps)[k])]
      /\ todo' = QueuedIds(new)
  BY DEF Iteration
<1>2. /\ l \in ListSet /\ AtStart(l) /\ l.wtype = list.wtype
      /\ First(list) => \A j \in Jobs : l.fails[j] = 0
  BY UpdateStarts DEF TypeInv
<1> HIDE DEF l
<1>3. PICK t \in {"vertical", "keep"} :
        /\ ps = <<Package("vertical", <<chain>>, t)>>
        /\ (\A j \in Jobs : l.fails[j] = 0) => t = "vertical"
  BY <1>2, ChainPackaged
<1> DEFINE p == Package("vertical", <<chain>>, t)
<1>4. /\ p.kind = "vertical" /\ p.lists = <<chain>> /\ p.wtype = t /\ p \in PackageSet
  <2>1. <<chain>> \in Seq(Seq(Jobs))
    BY ChainIs
  <2> QED
    BY <2>1 DEF Package, PackageSet, AllTypes
<1> HIDE DEF p, ps
<1>5. ps = <<p>> /\ DOMAIN ps = {1} /\ Len(ps) = 1 /\ ps[1] = p /\ ps \in Seq(PackageSet)
  BY <1>3, <1>4 DEF p
<1>6. PackageJobs(p) = chain /\ Range(chain) = Jobs
  <2>1. chain \in Seq(Jobs)
    BY ChainIs
  <2>2. FlattenSeq(<<chain>>) = chain
    BY DEF FlattenSeq
  <2> QED
    BY <1>4, <2>2 DEF PackageJobs, Vertical
<1>7. JobsOf(ps) = Jobs
  BY <1>5, <1>6 DEF JobsOf
<1>8. t = "keep" => \A j \in Jobs : l.wtype[j] = "vertical"
  BY <1>2, <1>3 DEF ListInv, Known
<1>9. \A j \in Jobs : /\ new.status[j] = "SUBMITTED" /\ new.id[j] = lastId + 1
                      /\ new.wtype[j] = "vertical"
  <2>1. lastId \in 0..MaxId /\ lastId + Len(ps) <= MaxId
    BY <1>1 DEF TypeInv
  <2>2. \A j \in Jobs \cap JobsOf(ps) :
          /\ new.status[j] = "SUBMITTED"
          /\ \E k \in DOMAIN ps :
               /\ new.id[j] = lastId + k
               /\ new.wtype[j] = IF ps[k].wtype = "keep" THEN l.wtype[j] ELSE ps[k].wtype
    BY <1>2, <1>5, <2>1, SubmittedIs
  <2> HIDE DEF new
  <2> QED
    BY <1>4, <1>5, <1>7, <1>8, <2>2
<1> HIDE DEF new
<1>10. lastId' = lastId + 1 /\ lastId' \in Ids /\ lastId \in Nat
  BY <1>1, <1>5, WrappersAssumption DEF TypeInv, Ids
<1>11. \A i \in Ids : i - lastId \in DOMAIN ps <=> i = lastId'
  BY <1>5, <1>10 DEF Ids
<1>12. /\ subs'[lastId'] = NewSub(p, l)
       /\ \A i \in Ids : i # lastId' => subs'[i] = subs[i]
       /\ wrappers'[lastId'] = WrapperJob(chain, "SUBMITTED")
  <2>1. lastId' - lastId = 1
    BY <1>10
  <2> QED
    BY <1>1, <1>4, <1>5, <1>6, <1>10, <1>11, <2>1
<1>13. files'.completed = {}
  <2>1. files.completed \subseteq Jobs
    BY DEF TypeInv, FileSet
  <2> QED
    BY <1>1, <1>7, <2>1, RemovedIs DEF TypeInv
<1>14. packages' = packages \o <<chain>>
  <2> DEFINE P == {q \in Range(ps) : q.kind # "simple"}
  <2>1. Wrapped(ps) = Among(ps, P)
    BY DEF Wrapped
  <2>2. p \in P
    BY <1>4, <1>5 DEF Range
  <2> HIDE DEF P
  <2>3. ps \in Seq(P)
    BY <1>5, <2>2
  <2>4. Wrapped(ps) = ps
    BY <2>1, <2>3, AmongAll
  <2>5. [k \in DOMAIN Wrapped(ps) |-> PackageJobs(Wrapped(ps)[k])] = [k \in {1} |-> chain]
    BY <1>5, <1>6, <2>4
  <2>6. [k \in {1} |-> chain] = <<chain>>
    OBVIOUS
  <2> QED
    BY <1>1, <2>5, <2>6
<1>15. LET s == NewSub(p, l) IN
         /\ s.state = "pending" /\ s.kind = "vertical" /\ s.lists = <<chain>>
         /\ \A j \in Jobs : s.job[j] = "todo"
  BY <1>4, <1>6 DEF NewSub
<1> DEFINE s == NewSub(p, l)
<1> HIDE DEF s
<1>16. SubsInv'
  <2>1. \A i \in Ids : i # lastId' => ~Alive(i)'
    <3> SUFFICES ASSUME NEW i \in Ids, i # lastId'
                 PROVE  subs[i].state \notin {"pending", "running", "suspended"}
      BY <1>12 DEF Alive
    <3>1. ~Alive(i)
      <4>1. CASE i = lastId
        BY <1>10, <4>1 DEF Ids
      <4>2. CASE i # lastId
        BY <4>2 DEF SubsInv
      <4> QED
        BY <4>1, <4>2
    <3> QED
      BY <3>1 DEF Alive
  <2>2. \A i \in Ids, j \in Jobs : subs'[i].job[j] = "run" => subs'[i].state \in {"running", "suspended"}
    <3> SUFFICES ASSUME NEW i \in Ids, NEW j \in Jobs, subs'[i].job[j] = "run"
                 PROVE  subs'[i].state \in {"running", "suspended"}
      OBVIOUS
    <3>1. CASE i = lastId'
      BY <1>12, <1>15, <3>1 DEF s
    <3>2. CASE i # lastId'
      BY <1>12, <3>2 DEF SubsInv
    <3> QED
      BY <3>1, <3>2
  <2>3. ChainSub(s, {})
    <3>1. s.state = "pending" /\ s.kind = "vertical" /\ s.lists = <<chain>>
          /\ \A j \in Jobs : s.job[j] = "todo"
      BY <1>15 DEF s
    <3>2. \A n \in 1..Len(chain) : chain[n] \in Jobs
      BY ChainIs
    <3> QED
      BY <3>1, <3>2 DEF ChainSub
  <2>4. ChainSub(subs'[lastId'], files'.completed)
    BY <1>12, <1>13, <2>3 DEF s
  <2> QED
    BY <2>1, <2>2, <2>4 DEF SubsInv
<1>17. todo' \subseteq {lastId'}
  <2>1. \A j \in Jobs : new.id[j] = lastId'
    BY <1>9, <1>10
  <2> QED
    BY <1>1, <2>1, QueuedIdsIs
<1>18. Going(list)' /\ Going(saved)' /\ Known(list)' /\ Known(saved)'
  <2>1. \A j \in Jobs : /\ list'.status[j] = "SUBMITTED" /\ list'.id[j] = lastId'
                        /\ list'.wtype[j] = "vertical"
    BY <1>1, <1>9, <1>10
  <2>2. saved' = list'
    BY <1>1
  <2>3. Going(list)' /\ Known(list)'
    BY <2>1 DEF Going, Known, InQueue
  <2> QED
    BY <2>2, <2>3 DEF Going, Known
<1>19. wrappers'[lastId'].jobs = chain
  <2>1. chain \in Seq(Jobs) /\ "SUBMITTED" \in WrapperStatuses
    BY ChainIs DEF WrapperStatuses
  <2> QED
    BY <1>12, <2>1, WrapperJobIs
<1>20. packages' # <<>> /\ \A k \in DOMAIN packages' : packages'[k] = chain
  <2>1. packages \in Seq(Seq(Jobs)) /\ chain \in Seq(Jobs)
    BY ChainIs DEF TypeInv
  <2>2. \A k \in DOMAIN packages : packages[k] = chain
    BY DEF ListInv
  <2> DEFINE S == Seq(Jobs)
             c == chain
  <2> HIDE DEF S, c
  <2>3. \A k \in 1..(Len(packages) + 1) :
          (packages \o <<c>>)[k] = IF k \in 1..Len(packages) THEN packages[k] ELSE c
    BY <2>1 DEF S, c
  <2>4. Len(packages \o <<c>>) = Len(packages) + 1 /\ Len(packages) \in Nat
        /\ packages \o <<c>> \in Seq(S) /\ DOMAIN packages = 1..Len(packages)
    BY <2>1 DEF S, c
  <2>5. \A k \in DOMAIN (packages \o <<c>>) : (packages \o <<c>>)[k] = c
    BY <2>2, <2>3, <2>4 DEF c
  <2>6. packages \o <<c>> # <<>>
    BY <2>4
  <2> QED
    BY <1>14, <2>5, <2>6 DEF c
<1> QED
  BY <1>10, <1>16, <1>17, <1>18, <1>19, <1>20 DEF ListInv, Ids

\* A new process finds the wrapper again, or has not submitted it yet.
LEMMA RestartVertical ==
  ASSUME TypeInv, Vertical, type = "vertical", SubsInv, ListInv, Restart
  PROVE  SubsInv' /\ ListInv'
<1> DEFINE l == [saved EXCEPT !.status = [j \in Jobs |-> IF @[j] = "READY" THEN "WAITING" ELSE @[j]]]
           m == Loaded(saved)
<1>1. /\ list' = m /\ saved' = m
      /\ wrappers' = StoredWrappers(l)
      /\ todo' = QueuedIds(m)
      /\ UNCHANGED <<type, packages, subs, lastId, files>>
  BY DEF Restart
<1>2. /\ m \in ListSet /\ m.wtype = saved.wtype /\ m.id = saved.id
      /\ \A j \in Jobs : saved.status[j] \notin {"READY", "WAITING"} => m.status[j] = saved.status[j]
      /\ \A j \in Jobs : saved.status[j] \in {"READY", "WAITING"} =>
           /\ m.status[j] = IF \A p \in Parents["vertical"][j] : saved.status[p] = "COMPLETED"
                            THEN "READY" ELSE "WAITING"
           /\ m.fails[j] = 0
  BY LoadedIs DEF TypeInv
<1> HIDE DEF m
<1>3. l.id = saved.id
  BY DEF TypeInv, ListSet
<1> HIDE DEF l
<1>4. /\ 1 \in 1..Len(chain)
      /\ \A n \in 1..Len(chain) : chain[n] \in Jobs
      /\ \A n \in 2..Len(chain) : n \in 1..Len(chain) /\ n - 1 \in 1..Len(chain)
      /\ \A n \in 2..Len(chain) : Parents["vertical"][chain[n]] = {chain[n - 1]}
      /\ Parents["vertical"][chain[1]] = {}
      /\ \A j \in Jobs : \E n \in 1..Len(chain) : chain[n] = j
      /\ \A n \in 1..Len(chain) : n = 1 \/ n \in 2..Len(chain)
  <2>2. /\ 1 \in 1..Len(chain)
        /\ \A n \in 2..Len(chain) : n \in 1..Len(chain) /\ n - 1 \in 1..Len(chain) /\ n # 1
        /\ \A n \in 1..Len(chain) : n = 1 \/ n \in 2..Len(chain)
    BY ChainPlaces
  <2>3. /\ \A n \in 1..Len(chain) : chain[n] \in Jobs
        /\ \A j \in Jobs : \E n \in 1..Len(chain) : chain[n] = j
    BY ChainIs
  <2>4. \A n \in 1..Len(chain) :
          Parents["vertical"][chain[n]] = IF n = 1 THEN {} ELSE {chain[n - 1]}
    BY DEF Vertical
  <2> QED
    BY <2>2, <2>3, <2>4
<1>5. SubsInv'
  BY <1>1 DEF SubsInv, Alive
<1>6. CASE lastId = 0
  <2>1. First(saved) /\ packages = <<>>
    BY <1>6 DEF ListInv
  <2>2. \A j \in Jobs : m.status[j] = IF j = chain[1] THEN "READY" ELSE "WAITING"
    <3> SUFFICES ASSUME NEW j \in Jobs
                 PROVE  m.status[j] = IF j = chain[1] THEN "READY" ELSE "WAITING"
      OBVIOUS
    <3>1. m.status[j] = IF \A p \in Parents["vertical"][j] : saved.status[p] = "COMPLETED"
                        THEN "READY" ELSE "WAITING"
      BY <1>2, <2>1 DEF First
    <3>2. CASE j = chain[1]
      BY <1>4, <3>1, <3>2
    <3>3. CASE j # chain[1]
      <4>1. PICK n \in 2..Len(chain) : chain[n] = j
        BY <1>4, <3>3
      <4>2. Parents["vertical"][j] = {chain[n - 1]} /\ chain[n - 1] \in Jobs
        BY <1>4, <4>1
      <4>3. saved.status[chain[n - 1]] # "COMPLETED"
        BY <2>1, <4>2 DEF First
      <4> QED
        BY <3>1, <3>3, <4>2, <4>3
    <3> QED
      BY <3>2, <3>3
  <2>3. First(m)
    BY <1>2, <2>1, <2>2 DEF First
  <2>4. QueuedIds(m) = {}
    BY <2>2 DEF QueuedIds, InQueue
  <2>5. First(list)' /\ First(saved)'
    BY <1>1, <2>3 DEF First
  <2> QED
    BY <1>1, <1>5, <1>6, <2>1, <2>4, <2>5 DEF ListInv
<1>7. CASE lastId # 0
  <2>1. /\ Known(saved) /\ packages # <<>> /\ (Going(saved) \/ Over(saved))
        /\ \A k \in DOMAIN packages : packages[k] = chain
    BY <1>7 DEF ListInv
  <2>2. \A j \in Jobs : m.status[j] = saved.status[j]
    <3>1. \A j \in Jobs : saved.status[j] # "READY"
      BY <2>1 DEF Going, Over, InQueue
    <3> SUFFICES ASSUME NEW j \in Jobs, saved.status[j] = "WAITING"
                 PROVE  m.status[j] = "WAITING"
      BY <1>2, <3>1
    <3>2. Over(saved)
      BY <2>1, <3>1 DEF Going, InQueue
    <3>3. PICK n \in 1..Len(chain) : chain[n] = j
      BY <1>4
    <3>4. n \in 2..Len(chain)
      BY <1>4, <3>2, <3>3 DEF Over
    <3>5. saved.status[chain[n - 1]] # "COMPLETED"
      BY <3>2, <3>3, <3>4 DEF Over
    <3>6. chain[n - 1] \in Parents["vertical"][j]
      BY <1>4, <3>3, <3>4
    <3> QED
      BY <1>2, <3>5, <3>6
  <2>3. Known(m) /\ (Going(saved) => Going(m)) /\ (Over(saved) => Over(m))
    <3>1. Known(m) /\ (Going(saved) => Going(m))
      BY <1>2, <2>1, <2>2 DEF Known, Going
    <3>2. Over(saved) => Over(m)
      BY <1>4, <2>2 DEF Over
    <3> QED
      BY <3>1, <3>2
  <2>4. QueuedIds(m) \subseteq {lastId} /\ (QueuedIds(m) # {} => Going(m))
    <3>1. \A j \in Jobs : m.id[j] = lastId
      BY <2>3 DEF Known
    <3> QED
      BY <2>1, <2>3, <3>1, QueuedIdsIs, QueuedGoing
  <2>5. wrappers'[lastId].jobs = chain
    <3>1. lastId \in Ids
      BY <1>7 DEF TypeInv, Ids
    <3>2. 1 \in DOMAIN packages /\ packages[1] = chain
      BY <2>1 DEF TypeInv
    <3>3. l.id[packages[1][1]] = lastId
      BY <1>3, <1>4, <2>1, <3>2 DEF Known
    <3>4. \E k \in DOMAIN packages : StoredWrappers(l)[lastId].jobs = packages[k]
      BY <3>1, <3>2, <3>3, StoredWrappersIs DEF TypeInv
    <3> QED
      BY <1>1, <2>1, <3>4
  <2>6. /\ Known(list)' /\ Known(saved)'
        /\ Going(list)' \/ Over(list)'
        /\ Going(saved)' \/ Over(saved)'
        /\ Going(m) => Going(list)'
    BY <1>1, <2>1, <2>3 DEF Known, Going, Over
  <2> QED
    BY <1>1, <1>5, <1>7, <2>1, <2>4, <2>5, <2>6 DEF ListInv
<1> QED
  BY <1>6, <1>7

\* A check leaves the wrapper under way or over, or held with nothing of it left in Slurm.
LEMMA CheckWrapperVertical ==
  ASSUME TypeInv, Vertical, type = "vertical", SubsInv, ListInv, NEW i \in Ids, CheckWrapper(i)
  PROVE  SubsInv' /\ ListInv'
<1> DEFINE x0 == [l |-> list, w |-> wrappers[i], cancel |-> FALSE, forget |-> FALSE]
<1>1. PICK x \in XSet :
        /\ Put(x0, x)
        /\ list' = x.l
        /\ wrappers' = [wrappers EXCEPT ![i] = IF x.w.status = "WAITING" THEN NoWrapper ELSE x.w]
        /\ IF x.cancel /\ Alive(i) THEN Stopped(i, "failed", TRUE)
           ELSE files' = [files EXCEPT !.wrapperFailed = @ /\ ~x.forget] /\ subs' = subs
  BY CheckWrapperIs
<1>2. i \in todo /\ todo' = todo \ {i} /\ UNCHANGED <<type, saved, packages, lastId>>
  BY DEF CheckWrapper
<1>3. i = lastId /\ lastId # 0 /\ Going(list) /\ todo' = {}
  BY <1>2 DEF ListInv, Ids
<1>4. Known(list) /\ wrappers[i].jobs = chain
  BY <1>3 DEF ListInv
<1>5. x0.l = list /\ x0.w = wrappers[i] /\ x0.w.status \in WrapperStatuses
  BY CheckStarts
<1> HIDE DEF x0
<1>6. x.w.jobs = chain /\ x.l.id = list.id /\ x.l.wtype = list.wtype
  BY <1>1, <1>4, <1>5 DEF Put, Follows
<1>7. Left(x)
  <2>1. x0.w.jobs = chain /\ Going(x0.l) /\ x0.w.status # "WAITING"
    BY <1>3, <1>4, <1>5 DEF WrapperStatuses
  <2> QED
    BY <1>1, <2>1 DEF Put
<1>8. SubsInv' /\ (x.cancel => ~Alive(i)')
  <2>1. CASE x.cancel /\ Alive(i)
    <3> DEFINE s == subs'[i]
    <3>1. /\ subs' \in [Ids -> SubSet] /\ files' \in FileSet
          /\ files'.completed = files.completed
          /\ \A k \in Ids \ {i} : subs'[k] = subs[k]
          /\ s.state = "failed" /\ s.kind = subs[i].kind /\ s.lists = subs[i].lists
          /\ \A j \in Jobs : s.job[j] = IF subs[i].job[j] = "run" THEN "bad" ELSE subs[i].job[j]
      BY <1>1, <2>1, StoppedIs
    <3>2. s \in SubSet /\ subs' = [subs EXCEPT ![i] = s]
      BY <3>1 DEF TypeInv
    <3>3. SubsMove
      BY <1>2, <3>1, <3>2, EndMoves
    <3>4. ~Alive(i)'
      BY <3>1 DEF Alive
    <3> QED
      BY <3>3, <3>4 DEF SubsMove
  <2>2. CASE ~(x.cancel /\ Alive(i))
    <3>1. subs' = subs /\ files' = [files EXCEPT !.wrapperFailed = @ /\ ~x.forget]
      BY <1>1, <2>2
    <3>2. files'.completed = files.completed
      BY <3>1 DEF TypeInv, FileSet
    <3>3. SubsInv'
      BY <1>2, <3>1, <3>2 DEF SubsInv, Alive
    <3>4. x.cancel => ~Alive(i)'
      BY <2>2, <3>1 DEF Alive
    <3> QED
      BY <3>3, <3>4
  <2> QED
    BY <2>1, <2>2
<1>9. Known(list)' /\ Known(saved)' /\ (Going(saved)' \/ Over(saved)')
  <2>1. Known(saved) /\ (Going(saved) \/ Over(saved))
    BY <1>3 DEF ListInv
  <2> QED
    BY <1>1, <1>2, <1>4, <1>6, <2>1 DEF Known, Going, Over
<1>10. Going(list)' \/ Over(list)' \/ (Held(list)' /\ ~Alive(lastId)')
  <2>1. CASE (Going(x.l) \/ Over(x.l)) /\ x.w.status # "WAITING"
    BY <1>1, <2>1 DEF Going, Over
  <2>2. CASE Held(x.l) /\ x.cancel
    <3>1. Held(list)'
      BY <1>1, <2>2 DEF Held
    <3>2. subs'[i].state \notin {"pending", "running", "suspended"}
      BY <1>8, <2>2 DEF Alive
    <3>3. lastId' = i
      BY <1>2, <1>3
    <3>4. ~Alive(lastId)'
      BY <3>2, <3>3 DEF Alive
    <3> QED
      BY <3>1, <3>4
  <2> QED
    BY <1>7, <2>1, <2>2 DEF Left
<1>11. Going(list)' => wrappers'[lastId].jobs = chain
  <2>1. CASE x.w.status # "WAITING"
    BY <1>1, <1>3, <1>6, <2>1 DEF TypeInv
  <2>2. CASE x.w.status = "WAITING"
    <3>1. Held(x.l)
      BY <1>7, <2>2 DEF Left
    <3>2. \E j \in Jobs : TRUE
      <4>1. 1 \in 1..Len(chain) /\ chain[1] \in Jobs
        BY ChainIs
      <4> QED
        BY <4>1
    <3> QED
      BY <1>1, <3>1, <3>2 DEF Held, Going, InQueue
  <2> QED
    BY <2>1, <2>2
<1>12. packages # <<>> /\ \A k \in DOMAIN packages : packages[k] = chain
  BY <1>3 DEF ListInv
<1> QED
  BY <1>2, <1>3, <1>8, <1>9, <1>10, <1>11, <1>12 DEF ListInv

\* A vertical wrapper under way is never followed as if its jobs were alone.
LEMMA CheckSimpleVertical ==
  ASSUME TypeInv, Vertical, type = "vertical", ListInv, NEW i \in Ids, CheckSimple(i)
  PROVE  FALSE
<1>1. i \in todo /\ wrappers[i] = NoWrapper
  BY DEF CheckSimple
<1>2. i = lastId /\ lastId # 0 /\ Going(list)
  BY <1>1 DEF ListInv, Ids
<1>3. wrappers[i].jobs = chain
  BY <1>2 DEF ListInv
<1>4. NoWrapper.jobs = <<>>
  BY DEF NoWrapper
<1>5. chain # <<>>
  BY ChainIs
<1> QED
  BY <1>1, <1>3, <1>4, <1>5

\* What Slurm and the script do ends submissions and starts none.
LEMMA MovesVertical ==
  ASSUME TypeInv, Vertical, type = "vertical", SubsInv, ListInv, Moves
  PROVE  SubsInv' /\ ListInv'
<1>1. SubsInv' /\ \A k \in Ids : Alive(k)' => Alive(k)
  BY DEF Moves, SubsMove
<1>2. UNCHANGED <<list, saved, wrappers, packages, todo, lastId>>
  BY DEF Moves, local
<1>3. lastId # 0 => lastId \in Ids
  BY DEF TypeInv, Ids
<1>4. lastId # 0 /\ ~Alive(lastId) => ~Alive(lastId)'
  <2>1. Alive(lastId)' <=> subs'[lastId].state \in {"pending", "running", "suspended"}
    BY <1>2 DEF Alive
  <2>2. \A k \in Ids : Alive(k)' <=> subs'[k].state \in {"pending", "running", "suspended"}
    BY DEF Alive
  <2> QED
    BY <1>1, <1>3, <2>1, <2>2
<1>5. CASE lastId = 0
  BY <1>1, <1>2, <1>5 DEF ListInv, First, Going
<1>6. CASE lastId # 0
  <2>1. Known(list)' /\ Known(saved)' /\ (Going(saved)' \/ Over(saved)')
    BY <1>2, <1>6 DEF ListInv, Known, Going, Over
  <2>2. Going(list)' \/ Over(list)' \/ (Held(list)' /\ ~Alive(lastId)')
    BY <1>2, <1>4, <1>6 DEF ListInv, Going, Over, Held
  <2>3. /\ Going(list)' => wrappers'[lastId'].jobs = chain
        /\ todo' # {} => Going(list)'
        /\ todo' \subseteq {lastId'}
        /\ packages' # <<>> /\ \A k \in DOMAIN packages' : packages'[k] = chain
    BY <1>2, <1>6 DEF ListInv, Going
  <2> QED
    BY <1>1, <1>2, <1>6, <2>1, <2>2, <2>3 DEF ListInv
<1> QED
  BY <1>5, <1>6

\* Every step keeps the invariant of the vertical wrapper.
LEMMA VerticalKept ==
  ASSUME Vertical, TypeInv, VerticalInv, [Next]_vars
  PROVE  VerticalInv'
<1> SUFFICES ASSUME type' = "vertical"
             PROVE  SubsInv' /\ ListInv'
  BY DEF VerticalInv
<1>1. CASE UNCHANGED vars
  BY <1>1 DEF vars, VerticalInv, SubsInv, ListInv, ChainSub, Alive, First, Known, Going, Over, Held
<1>2. CASE Next
  <2>1. type' = type
    BY <1>2, SlurmMoves DEF Next, Process, Slurm, Check, Iteration, Restart, CheckWrapper, CheckSimple,
                            Moves
  <2>2. type = "vertical" /\ SubsInv /\ ListInv
    BY <2>1 DEF VerticalInv
  <2>3. CASE Iteration
    <3>1. \/ lastId # 0 /\ (Going(list) \/ Over(list))
          \/ First(list) /\ lastId = 0
          \/ Held(list) /\ lastId # 0 /\ ~Alive(lastId)
      BY <2>2 DEF ListInv
    <3>2. CASE lastId # 0 /\ (Going(list) \/ Over(list))
      BY <2>2, <2>3, <3>2, IterationLeaves
    <3>3. CASE First(list) /\ lastId = 0
      BY <2>2, <2>3, <3>3, IterationSubmits
    <3>4. CASE Held(list) /\ lastId # 0 /\ ~Alive(lastId)
      BY <2>2, <2>3, <3>4, IterationSubmits
    <3> QED
      BY <3>1, <3>2, <3>3, <3>4
  <2>4. CASE Restart
    BY <2>2, <2>4, RestartVertical
  <2>5. ASSUME NEW i \in Ids, CheckWrapper(i)
        PROVE  SubsInv' /\ ListInv'
    BY <2>2, <2>5, CheckWrapperVertical
  <2>6. ASSUME NEW i \in Ids, CheckSimple(i)
        PROVE  SubsInv' /\ ListInv'
    BY <2>2, <2>6, CheckSimpleVertical
  <2>7. ASSUME NEW i \in Ids, Script(i) \/ Trouble(i)
        PROVE  SubsInv' /\ ListInv'
    BY <2>2, <2>7, SlurmMoves, MovesVertical
  <2> QED
    BY <1>2, <2>3, <2>4, <2>5, <2>6, <2>7 DEF Next, Process, Slurm, Check
<1> QED
  BY <1>1, <1>2

\* Only the last submission may be under way, and in it the jobs follow each other.
LEMMA VerticalMeans ==
  ASSUME Vertical, TypeInv, VerticalInv, type = "vertical"
  PROVE  NoTwins /\ OrderKept
<1>1. SubsInv
  BY DEF VerticalInv
<1>2. NoTwins
  <2> SUFFICES ASSUME NEW j \in Jobs
               PROVE  Cardinality({i \in Ids : Runs(i, j)}) <= 1
    BY DEF NoTwins
  <2>1. {i \in Ids : Runs(i, j)} \subseteq {lastId}
    BY <1>1 DEF SubsInv, Runs
  <2>2. IsFiniteSet({lastId}) /\ Cardinality({lastId}) = 1
    BY FS_Singleton
  <2> DEFINE S == {i \in Ids : Runs(i, j)}
             T == {lastId}
  <2> HIDE DEF S, T
  <2>3. Cardinality(S) <= Cardinality(T)
    BY <2>1, <2>2, FS_Subset DEF S, T
  <2> QED
    BY <2>2, <2>3 DEF S, T
<1>3. OrderKept
  <2> SUFFICES ASSUME NEW i \in Ids, NEW j \in Jobs, subs[i].job[j] = "run"
               PROVE  Parents["vertical"][j] \subseteq files.completed
    BY DEF OrderKept
  <2>1. i = lastId /\ lastId # 0
    BY <1>1 DEF SubsInv, Alive, Ids
  <2>2. ChainSub(subs[i], files.completed)
    BY <1>1, <2>1 DEF SubsInv
  <2>3. PICK n \in 1..Len(chain) : chain[n] = j
    BY ChainIs
  <2>4. CASE n = 1
    BY <2>3, <2>4, ChainIs
  <2>5. CASE n # 1
    <3>1. n \in 2..Len(chain) /\ n - 1 \in 1..(n - 1) /\ n - 1 \in 1..Len(chain)
      BY <2>5, ChainPlaces
    <3>2. Parents["vertical"][j] = {chain[n - 1]} /\ chain[n - 1] \in Jobs
      BY <2>3, <3>1, ChainIs
    <3>3. subs[i].job[chain[n - 1]] = "ok"
      BY <2>2, <2>3, <3>1 DEF ChainSub
    <3>4. chain[n - 1] \in files.completed
      BY <2>2, <3>2, <3>3 DEF ChainSub
    <3> QED
      BY <3>2, <3>4
  <2> QED
    BY <2>4, <2>5
<1> QED
  BY <1>2, <1>3

\* The inductive invariant.
LEMMA VerticalAlways ==
  ASSUME Vertical
  PROVE  Spec => [](TypeInv /\ VerticalInv)
<1>1. Init => TypeInv /\ VerticalInv
  BY InitTypes, InitVertical DEF VerticalInv
<1>2. TypeInv /\ VerticalInv /\ [Next]_vars => (TypeInv /\ VerticalInv)'
  BY TypesKept, VerticalKept
<1> QED
  BY <1>1, <1>2, PTL DEF Spec

\* NoTwins holds of a vertical wrapper whatever happens to it: cancelled, held, suspended,
\* killed, answered late or not at all, and restarted at any point, no two submissions
\* run one of its jobs at the same time.
THEOREM VerticalHasNoTwins ==
  ASSUME Vertical
  PROVE  Spec => [](type = "vertical" => NoTwins)
<1>1. TypeInv /\ VerticalInv => (type = "vertical" => NoTwins)
  BY VerticalMeans
<1> QED
  BY <1>1, VerticalAlways, PTL

\* OrderKept holds of a vertical wrapper whatever happens to it: a job runs only after the
\* one it depends on has left its COMPLETED file.
THEOREM VerticalInOrder ==
  ASSUME Vertical
  PROVE  Spec => [](type = "vertical" => OrderKept)
<1>1. TypeInv /\ VerticalInv => (type = "vertical" => OrderKept)
  BY VerticalMeans
<1> QED
  BY <1>1, VerticalAlways, PTL
=============================================================================
