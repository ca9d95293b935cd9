------------------------- MODULE JobPackagerProofs -------------------------
(***************************************************************************)
(* Proofs about JobPackager for every workflow, its wrappers, their        *)
(* policies and the limits of the platform: types, what an iteration may   *)
(* send, when check_deadlock may stop the run, and that no job is in two   *)
(* packages.                                                               *)
(*                                                                         *)
(* The packager is a pipeline of loops over jobs and packages, each a fold *)
(* of the model. A fold has one lemma, which says that what each step      *)
(* keeps holds of the result; with them build_packages is shown to yield   *)
(* sound packages (Sound), and a step of the run to keep IInv.             *)
(***************************************************************************)
EXTENDS JobPackager, FiniteSetTheorems, WellFoundedInduction, TLAPS

-----------------------------------------------------------------------------
(* Loops.                                                                  *)

\* A set of natural numbers that is not empty has a least one.
LEMMA LeastNumber ==
  ASSUME NEW T, T \subseteq Nat, T # {}
  PROVE  \E n \in T : \A k \in T : n <= k
<1>1. PICK n \in T : \A k \in T : ~ (<<k, n>> \in OpToRel(<, Nat))
  BY NatLessThanWellFounded, WFMin
<1>2. \A k \in T : ~ (k < n)
  BY <1>1 DEF OpToRel
<1> QED
  BY <1>2

\* What holds of the first value and is kept from each to the next holds of all.
LEMMA Stays ==
  ASSUME NEW n \in Nat, NEW S, NEW f, f[0] \in S[0],
         \A k \in 1..n : f[k - 1] \in S[k - 1] => f[k] \in S[k]
  PROVE  \A k \in 0..n : f[k] \in S[k]
<1> DEFINE Bad == {k \in 0..n : f[k] \notin S[k]}
<1>1. SUFFICES ASSUME Bad # {}
               PROVE  FALSE
  OBVIOUS
<1>2. PICK b \in Bad : \A k \in Bad : b <= k
  <2> Bad \subseteq Nat
    OBVIOUS
  <2> HIDE DEF Bad
  <2> QED
    BY <1>1, LeastNumber
<1>3. b \in 1..n /\ b - 1 \in 0..n /\ b - 1 \notin Bad
  BY <1>2
<1> QED
  BY <1>2, <1>3

\* The values of a fold, from a function for each of its steps.
Values(n, base, step, g) ==
  /\ g = [k \in 0..n |-> g[k]]
  /\ g[0] = base
  /\ \A k \in 1..n : g[k] = step[k][g[k - 1]]

HasValues(n, base, step) == \E g : Values(n, base, step, g)

\* A fold has values: there is no first step at which they end.
LEMMA ValuesExist ==
  ASSUME NEW n \in Nat, NEW base, NEW step
  PROVE  HasValues(n, base, step)
<1> DEFINE Bad == {m \in 0..n : ~HasValues(m, base, step)}
<1>1. SUFFICES ASSUME Bad # {}
               PROVE  FALSE
  OBVIOUS
<1>2. PICK b \in Bad : \A k \in Bad : b <= k
  <2> Bad \subseteq Nat
    OBVIOUS
  <2> HIDE DEF Bad
  <2> QED
    BY <1>1, LeastNumber
<1>3. CASE b = 0
  <2>1. Values(0, base, step, [k \in 0..0 |-> base])
    BY DEF Values
  <2> QED
    BY <1>2, <1>3, <2>1 DEF HasValues
<1>4. CASE b # 0
  <2>1. b \in 1..n /\ b - 1 \in 0..n /\ b - 1 \notin Bad
    BY <1>2, <1>4
  <2>2. PICK g : Values(b - 1, base, step, g)
    BY <2>1 DEF HasValues
  <2> DEFINE h == [k \in 0..b |-> IF k = b THEN step[b][g[b - 1]] ELSE g[k]]
  <2>3. /\ h = [k \in 0..b |-> h[k]]
        /\ \A k \in 0..(b - 1) : h[k] = g[k]
        /\ h[b] = step[b][g[b - 1]]
    BY <2>1
  <2> HIDE DEF h
  <2>4. h[0] = base /\ h[b] = step[b][h[b - 1]]
    <3>1. 0 \in 0..(b - 1) /\ b - 1 \in 0..(b - 1)
      BY <2>1
    <3>2. g[0] = base
      BY <2>2 DEF Values
    <3> QED
      BY <2>3, <3>1, <3>2
  <2>5. \A k \in 1..(b - 1) : h[k] = step[k][h[k - 1]]
    <3> SUFFICES ASSUME NEW k \in 1..(b - 1)
                 PROVE  h[k] = step[k][h[k - 1]]
      OBVIOUS
    <3>1. k - 1 \in 0..(b - 1) /\ k \in 0..(b - 1)
      BY <2>1
    <3>2. g[k] = step[k][g[k - 1]]
      BY <2>2 DEF Values
    <3> QED
      BY <2>3, <3>1, <3>2
  <2>6. Values(b, base, step, h)
    <3>1. \A k \in 1..b : k \in 1..(b - 1) \/ k = b
      BY <2>1
    <3> QED
      BY <2>3, <2>4, <2>5, <3>1 DEF Values
  <2>7. HasValues(b, base, step)
    BY <2>6 DEF HasValues
  <2> QED
    BY <1>2, <2>7
<1> QED
  BY <1>3, <1>4

\* What the first job of a vertical package, and the jobs outside wrappers, start from.
VerticalStart(j, packing) ==
  [pack |-> <<j>>, packing |-> packing, wall |-> Wallclock[j], open |-> TRUE]
FirstSimple(r, st) ==
  [r |-> r, own |-> SectionRoom(LastSection(st)), closed |-> FALSE]

\* What a fold gives, when each of its steps keeps what is said of its values:
\* one lemma for each fold of the model.
LEMMA AmongFold ==
  ASSUME NEW P, NEW seq, Len(seq) \in Nat,
         NEW S, <<>> \in S[0],
         \A k \in 1..Len(seq) : \A a \in S[k - 1] : Keep(P, a, seq[k]) \in S[k]
  PROVE  Among(seq, P) \in S[Len(seq)]
<1> DEFINE n == Len(seq)
           base == <<>>
           step == [k \in 1..n |-> [a \in S[k - 1] |-> Keep(P, a, seq[k])]]
           Is(f) == f = [k \in 0..n |->
                           IF k = 0 THEN base
                           ELSE CHOOSE v \in {Keep(P, acc, seq[k]) : acc \in {f[k - 1]}} : TRUE]
           f == CHOOSE x : Is(x)
<1>1. Among(seq, P) = f[n]
  BY DEF Among, Through
<1>2. base \in S[0]
  OBVIOUS
<1> HIDE DEF base
<1>3. PICK g : Values(n, base, step, g)
  BY ValuesExist DEF HasValues
<1>4. \A k \in 1..n : \A a \in S[k - 1] : step[k][a] = Keep(P, a, seq[k])
  OBVIOUS
<1> HIDE DEF step
<1>5. g[0] = base /\ \A k \in 1..n : g[k] = step[k][g[k - 1]]
  BY <1>3 DEF Values
<1>6. \A k \in 1..n : g[k - 1] \in S[k - 1] => g[k] = Keep(P, g[k - 1], seq[k])
  BY <1>4, <1>5
<1>7. \A k \in 0..n : g[k] \in S[k]
  <2>1. g[0] \in S[0] /\ \A k \in 1..n : g[k - 1] \in S[k - 1] => g[k] \in S[k]
    BY <1>2, <1>5, <1>6
  <2> QED
    BY <2>1, Stays
<1>8. Is(g)
  <2>1. \A k \in 1..n : k - 1 \in 0..n /\ g[k] = Keep(P, g[k - 1], seq[k])
    BY <1>6, <1>7
  <2>2. g = [k \in 0..n |-> g[k]]
    BY <1>3 DEF Values
  <2>3. \A k \in 1..n :
          g[k] = CHOOSE v \in {Keep(P, acc, seq[k]) : acc \in {g[k - 1]}} : TRUE
    BY <2>1
  <2>4. \A k \in 0..n :
          g[k] = IF k = 0 THEN base
                 ELSE CHOOSE v \in {Keep(P, acc, seq[k]) : acc \in {g[k - 1]}} : TRUE
    <3>1. \A k \in 0..n : k = 0 \/ k \in 1..n
      OBVIOUS
    <3> QED
      BY <1>5, <2>3, <3>1
  <2> QED
    BY <2>2, <2>4
<1>9. Is(f)
  BY <1>8
<1> HIDE DEF f
<1>10. f[0] = base /\ \A k \in 1..n : f[k] = Keep(P, f[k - 1], seq[k])
  BY <1>9
<1>11. \A k \in 0..n : f[k] \in S[k]
  BY <1>2, <1>10, Stays
<1> QED
  BY <1>1, <1>11

\* The fold of ByPriority.
LEMMA PriorityFold ==
  ASSUME NEW seq, Len(seq) \in Nat,
         seq = Priorities,
         NEW S, <<>> \in S[0],
         \A k \in 1..Len(seq) : \A a \in S[k - 1] : AndThen(a, seq[k]) \in S[k]
  PROVE  ByPriority \in S[Len(seq)]
<1> DEFINE n == Len(seq)
           base == <<>>
           step == [k \in 1..n |-> [a \in S[k - 1] |-> AndThen(a, seq[k])]]
           Is(f) == f = [k \in 0..n |->
                           IF k = 0 THEN base
                           ELSE CHOOSE v \in {AndThen(acc, seq[k]) : acc \in {f[k - 1]}} : TRUE]
           f == CHOOSE x : Is(x)
<1>1. ByPriority = f[n]
  BY DEF ByPriority, Through
<1>2. base \in S[0]
  OBVIOUS
<1> HIDE DEF base
<1>3. PICK g : Values(n, base, step, g)
  BY ValuesExist DEF HasValues
<1>4. \A k \in 1..n : \A a \in S[k - 1] : step[k][a] = AndThen(a, seq[k])
  OBVIOUS
<1> HIDE DEF step
<1>5. g[0] = base /\ \A k \in 1..n : g[k] = step[k][g[k - 1]]
  BY <1>3 DEF Values
<1>6. \A k \in 1..n : g[k - 1] \in S[k - 1] => g[k] = AndThen(g[k - 1], seq[k])
  BY <1>4, <1>5
<1>7. \A k \in 0..n : g[k] \in S[k]
  <2>1. g[0] \in S[0] /\ \A k \in 1..n : g[k - 1] \in S[k - 1] => g[k] \in S[k]
    BY <1>2, <1>5, <1>6
  <2> QED
    BY <2>1, Stays
<1>8. Is(g)
  <2>1. \A k \in 1..n : k - 1 \in 0..n /\ g[k] = AndThen(g[k - 1], seq[k])
    BY <1>6, <1>7
  <2>2. g = [k \in 0..n |-> g[k]]
    BY <1>3 DEF Values
  <2>3. \A k \in 1..n :
          g[k] = CHOOSE v \in {AndThen(acc, seq[k]) : acc \in {g[k - 1]}} : TRUE
    BY <2>1
  <2>4. \A k \in 0..n :
          g[k] = IF k = 0 THEN base
                 ELSE CHOOSE v \in {AndThen(acc, seq[k]) : acc \in {g[k - 1]}} : TRUE
    <3>1. \A k \in 0..n : k = 0 \/ k \in 1..n
      OBVIOUS
    <3> QED
      BY <1>5, <2>3, <3>1
  <2> QED
    BY <2>2, <2>4
<1>9. Is(f)
  BY <1>8
<1> HIDE DEF f
<1>10. f[0] = base /\ \A k \in 1..n : f[k] = AndThen(f[k - 1], seq[k])
  BY <1>9
<1>11. \A k \in 0..n : f[k] \in S[k]
  BY <1>2, <1>10, Stays
<1> QED
  BY <1>1, <1>11

\* The fold of VerticalPackage.
LEMMA VerticalFold ==
  ASSUME NEW st, NEW w, NEW j, NEW packing,
         NEW seq, Len(seq) \in Nat, seq = SameMember[j],
         NEW S, VerticalStart(j, packing) \in S[0],
         \A k \in 1..Len(seq) : \A a \in S[k - 1] : VerticalStep(st, w, a, seq[k]) \in S[k]
  PROVE  VerticalPackage(st, w, j, packing) \in S[Len(seq)]
<1> DEFINE n == Len(seq)
           base == VerticalStart(j, packing)
           step == [k \in 1..n |-> [a \in S[k - 1] |-> VerticalStep(st, w, a, seq[k])]]
           Is(f) == f = [k \in 0..n |->
                           IF k = 0 THEN base
                           ELSE CHOOSE v \in {VerticalStep(st, w, acc, seq[k]) : acc \in {f[k - 1]}} : TRUE]
           f == CHOOSE x : Is(x)
<1>1. VerticalPackage(st, w, j, packing) = f[n]
  BY DEF VerticalPackage, Through, VerticalStart
<1>2. base \in S[0]
  OBVIOUS
<1> HIDE DEF base
<1>3. PICK g : Values(n, base, step, g)
  BY ValuesExist DEF HasValues
<1>4. \A k \in 1..n : \A a \in S[k - 1] : step[k][a] = VerticalStep(st, w, a, seq[k])
  OBVIOUS
<1> HIDE DEF step
<1>5. g[0] = base /\ \A k \in 1..n : g[k] = step[k][g[k - 1]]
  BY <1>3 DEF Values
<1>6. \A k \in 1..n : g[k - 1] \in S[k - 1] => g[k] = VerticalStep(st, w, g[k - 1], seq[k])
  BY <1>4, <1>5
<1>7. \A k \in 0..n : g[k] \in S[k]
  <2>1. g[0] \in S[0] /\ \A k \in 1..n : g[k - 1] \in S[k - 1] => g[k] \in S[k]
    BY <1>2, <1>5, <1>6
  <2> QED
    BY <2>1, Stays
<1>8. Is(g)
  <2>1. \A k \in 1..n : k - 1 \in 0..n /\ g[k] = VerticalStep(st, w, g[k - 1], seq[k])
    BY <1>6, <1>7
  <2>2. g = [k \in 0..n |-> g[k]]
    BY <1>3 DEF Values
  <2>3. \A k \in 1..n :
          g[k] = CHOOSE v \in {VerticalStep(st, w, acc, seq[k]) : acc \in {g[k - 1]}} : TRUE
    BY <2>1
  <2>4. \A k \in 0..n :
          g[k] = IF k = 0 THEN base
                 ELSE CHOOSE v \in {VerticalStep(st, w, acc, seq[k]) : acc \in {g[k - 1]}} : TRUE
    <3>1. \A k \in 0..n : k = 0 \/ k \in 1..n
      OBVIOUS
    <3> QED
      BY <1>5, <2>3, <3>1
  <2> QED
    BY <2>2, <2>4
<1>9. Is(f)
  BY <1>8
<1> HIDE DEF f
<1>10. f[0] = base /\ \A k \in 1..n : f[k] = VerticalStep(st, w, f[k - 1], seq[k])
  BY <1>9
<1>11. \A k \in 0..n : f[k] \in S[k]
  BY <1>2, <1>10, Stays
<1> QED
  BY <1>1, <1>11

\* The fold of VerticalPackages.
LEMMA VerticalsFold ==
  ASSUME NEW st, NEW w, NEW seq, Len(seq) \in Nat,
         NEW S, [built |-> <<>>, packing |-> {}] \in S[0],
         \A k \in 1..Len(seq) : \A a \in S[k - 1] : VerticalPackagesStep(st, w, a, seq[k]) \in S[k]
  PROVE  \E r \in S[Len(seq)] : VerticalPackages(st, w, seq) = r.built
<1> DEFINE n == Len(seq)
           base == [built |-> <<>>, packing |-> {}]
           step == [k \in 1..n |-> [a \in S[k - 1] |-> VerticalPackagesStep(st, w, a, seq[k])]]
           Is(f) == f = [k \in 0..n |->
                           IF k = 0 THEN base
                           ELSE CHOOSE v \in {VerticalPackagesStep(st, w, acc, seq[k]) : acc \in {f[k - 1]}} : TRUE]
           f == CHOOSE x : Is(x)
<1>1. VerticalPackages(st, w, seq) = f[n].built
  BY DEF VerticalPackages, Through
<1>2. base \in S[0]
  OBVIOUS
<1> HIDE DEF base
<1>3. PICK g : Values(n, base, step, g)
  BY ValuesExist DEF HasValues
<1>4. \A k \in 1..n : \A a \in S[k - 1] : step[k][a] = VerticalPackagesStep(st, w, a, seq[k])
  OBVIOUS
<1> HIDE DEF step
<1>5. g[0] = base /\ \A k \in 1..n : g[k] = step[k][g[k - 1]]
  BY <1>3 DEF Values
<1>6. \A k \in 1..n : g[k - 1] \in S[k - 1] => g[k] = VerticalPackagesStep(st, w, g[k - 1], seq[k])
  BY <1>4, <1>5
<1>7. \A k \in 0..n : g[k] \in S[k]
  <2>1. g[0] \in S[0] /\ \A k \in 1..n : g[k - 1] \in S[k - 1] => g[k] \in S[k]
    BY <1>2, <1>5, <1>6
  <2> QED
    BY <2>1, Stays
<1>8. Is(g)
  <2>1. \A k \in 1..n : k - 1 \in 0..n /\ g[k] = VerticalPackagesStep(st, w, g[k - 1], seq[k])
    BY <1>6, <1>7
  <2>2. g = [k \in 0..n |-> g[k]]
    BY <1>3 DEF Values
  <2>3. \A k \in 1..n :
          g[k] = CHOOSE v \in {VerticalPackagesStep(st, w, acc, seq[k]) : acc \in {g[k - 1]}} : TRUE
    BY <2>1
  <2>4. \A k \in 0..n :
          g[k] = IF k = 0 THEN base
                 ELSE CHOOSE v \in {VerticalPackagesStep(st, w, acc, seq[k]) : acc \in {g[k - 1]}} : TRUE
    <3>1. \A k \in 0..n : k = 0 \/ k \in 1..n
      OBVIOUS
    <3> QED
      BY <1>5, <2>3, <3>1
  <2> QED
    BY <2>2, <2>4
<1>9. Is(f)
  BY <1>8
<1> HIDE DEF f
<1>10. f[0] = base /\ \A k \in 1..n : f[k] = VerticalPackagesStep(st, w, f[k - 1], seq[k])
  BY <1>9
<1>11. \A k \in 0..n : f[k] \in S[k]
  BY <1>2, <1>10, Stays
<1> QED
  BY <1>1, <1>11

\* The fold of HorizontalPackage.
LEMMA HorizontalFold ==
  ASSUME NEW w, NEW seq, Len(seq) \in Nat,
         NEW S, [pack |-> <<>>, procs |-> 0] \in S[0],
         \A k \in 1..Len(seq) : \A a \in S[k - 1] : HorizontalStep(w, a, seq[k]) \in S[k]
  PROVE  \E r \in S[Len(seq)] : HorizontalPackage(w, seq) = r.pack
<1> DEFINE n == Len(seq)
           base == [pack |-> <<>>, procs |-> 0]
           step == [k \in 1..n |-> [a \in S[k - 1] |-> HorizontalStep(w, a, seq[k])]]
           Is(f) == f = [k \in 0..n |->
                           IF k = 0 THEN base
                           ELSE CHOOSE v \in {HorizontalStep(w, acc, seq[k]) : acc \in {f[k - 1]}} : TRUE]
           f == CHOOSE x : Is(x)
<1>1. HorizontalPackage(w, seq) = f[n].pack
  BY DEF HorizontalPackage, Through
<1>2. base \in S[0]
  OBVIOUS
<1> HIDE DEF base
<1>3. PICK g : Values(n, base, step, g)
  BY ValuesExist DEF HasValues
<1>4. \A k \in 1..n : \A a \in S[k - 1] : step[k][a] = HorizontalStep(w, a, seq[k])
  OBVIOUS
<1> HIDE DEF step
<1>5. g[0] = base /\ \A k \in 1..n : g[k] = step[k][g[k - 1]]
  BY <1>3 DEF Values
<1>6. \A k \in 1..n : g[k - 1] \in S[k - 1] => g[k] = HorizontalStep(w, g[k - 1], seq[k])
  BY <1>4, <1>5
<1>7. \A k \in 0..n : g[k] \in S[k]
  <2>1. g[0] \in S[0] /\ \A k \in 1..n : g[k - 1] \in S[k - 1] => g[k] \in S[k]
    BY <1>2, <1>5, <1>6
  <2> QED
    BY <2>1, Stays
<1>8. Is(g)
  <2>1. \A k \in 1..n : k - 1 \in 0..n /\ g[k] = HorizontalStep(w, g[k - 1], seq[k])
    BY <1>6, <1>7
  <2>2. g = [k \in 0..n |-> g[k]]
    BY <1>3 DEF Values
  <2>3. \A k \in 1..n :
          g[k] = CHOOSE v \in {HorizontalStep(w, acc, seq[k]) : acc \in {g[k - 1]}} : TRUE
    BY <2>1
  <2>4. \A k \in 0..n :
          g[k] = IF k = 0 THEN base
                 ELSE CHOOSE v \in {HorizontalStep(w, acc, seq[k]) : acc \in {g[k - 1]}} : TRUE
    <3>1. \A k \in 0..n : k = 0 \/ k \in 1..n
      OBVIOUS
    <3> QED
      BY <1>5, <2>3, <3>1
  <2> QED
    BY <2>2, <2>4
<1>9. Is(f)
  BY <1>8
<1> HIDE DEF f
<1>10. f[0] = base /\ \A k \in 1..n : f[k] = HorizontalStep(w, f[k - 1], seq[k])
  BY <1>9
<1>11. \A k \in 0..n : f[k] \in S[k]
  BY <1>2, <1>10, Stays
<1> QED
  BY <1>1, <1>11

\* The fold of Sieve.
LEMMA SieveFold ==
  ASSUME NEW r, NEW fs, NEW w, NEW seq, Len(seq) \in Nat,
         NEW S, [r |-> r, left |-> <<>>] \in S[0],
         \A k \in 1..Len(seq) : \A a \in S[k - 1] : SieveStep(fs, w, a, seq[k]) \in S[k]
  PROVE  Sieve(r, fs, w, seq) \in S[Len(seq)]
<1> DEFINE n == Len(seq)
           base == [r |-> r, left |-> <<>>]
           step == [k \in 1..n |-> [a \in S[k - 1] |-> SieveStep(fs, w, a, seq[k])]]
           Is(f) == f = [k \in 0..n |->
                           IF k = 0 THEN base
                           ELSE CHOOSE v \in {SieveStep(fs, w, acc, seq[k]) : acc \in {f[k - 1]}} : TRUE]
           f == CHOOSE x : Is(x)
<1>1. Sieve(r, fs, w, seq) = f[n]
  BY DEF Sieve, Through
<1>2. base \in S[0]
  OBVIOUS
<1> HIDE DEF base
<1>3. PICK g : Values(n, base, step, g)
  BY ValuesExist DEF HasValues
<1>4. \A k \in 1..n : \A a \in S[k - 1] : step[k][a] = SieveStep(fs, w, a, seq[k])
  OBVIOUS
<1> HIDE DEF step
<1>5. g[0] = base /\ \A k \in 1..n : g[k] = step[k][g[k - 1]]
  BY <1>3 DEF Values
<1>6. \A k \in 1..n : g[k - 1] \in S[k - 1] => g[k] = SieveStep(fs, w, g[k - 1], seq[k])
  BY <1>4, <1>5
<1>7. \A k \in 0..n : g[k] \in S[k]
  <2>1. g[0] \in S[0] /\ \A k \in 1..n : g[k - 1] \in S[k - 1] => g[k] \in S[k]
    BY <1>2, <1>5, <1>6
  <2> QED
    BY <2>1, Stays
<1>8. Is(g)
  <2>1. \A k \in 1..n : k - 1 \in 0..n /\ g[k] = SieveStep(fs, w, g[k - 1], seq[k])
    BY <1>6, <1>7
  <2>2. g = [k \in 0..n |-> g[k]]
    BY <1>3 DEF Values
  <2>3. \A k \in 1..n :
          g[k] = CHOOSE v \in {SieveStep(fs, w, acc, seq[k]) : acc \in {g[k - 1]}} : TRUE
    BY <2>1
  <2>4. \A k \in 0..n :
          g[k] = IF k = 0 THEN base
                 ELSE CHOOSE v \in {SieveStep(fs, w, acc, seq[k]) : acc \in {g[k - 1]}} : TRUE
    <3>1. \A k \in 0..n : k = 0 \/ k \in 1..n
      OBVIOUS
    <3> QED
      BY <1>5, <2>3, <3>1
  <2> QED
    BY <2>2, <2>4
<1>9. Is(f)
  BY <1>8
<1> HIDE DEF f
<1>10. f[0] = base /\ \A k \in 1..n : f[k] = SieveStep(fs, w, f[k - 1], seq[k])
  BY <1>9
<1>11. \A k \in 0..n : f[k] \in S[k]
  BY <1>2, <1>10, Stays
<1> QED
  BY <1>1, <1>11

\* The fold of OneByOne.
LEMMA OneByOneFold ==
  ASSUME NEW r, NEW seq, Len(seq) \in Nat,
         NEW S, r \in S[0],
         \A k \in 1..Len(seq) : \A a \in S[k - 1] : OneByOneStep(a, seq[k]) \in S[k]
  PROVE  OneByOne(r, seq) \in S[Len(seq)]
<1> DEFINE n == Len(seq)
           base == r
           step == [k \in 1..n |-> [a \in S[k - 1] |-> OneByOneStep(a, seq[k])]]
           Is(f) == f = [k \in 0..n |->
                           IF k = 0 THEN base
                           ELSE CHOOSE v \in {OneByOneStep(acc, seq[k]) : acc \in {f[k - 1]}} : TRUE]
           f == CHOOSE x : Is(x)
<1>1. OneByOne(r, seq) = f[n]
  BY DEF OneByOne, Through
<1>2. base \in S[0]
  OBVIOUS
<1> HIDE DEF base
<1>3. PICK g : Values(n, base, step, g)
  BY ValuesExist DEF HasValues
<1>4. \A k \in 1..n : \A a \in S[k - 1] : step[k][a] = OneByOneStep(a, seq[k])
  OBVIOUS
<1> HIDE DEF step
<1>5. g[0] = base /\ \A k \in 1..n : g[k] = step[k][g[k - 1]]
  BY <1>3 DEF Values
<1>6. \A k \in 1..n : g[k - 1] \in S[k - 1] => g[k] = OneByOneStep(g[k - 1], seq[k])
  BY <1>4, <1>5
<1>7. \A k \in 0..n : g[k] \in S[k]
  <2>1. g[0] \in S[0] /\ \A k \in 1..n : g[k - 1] \in S[k - 1] => g[k] \in S[k]
    BY <1>2, <1>5, <1>6
  <2> QED
    BY <2>1, Stays
<1>8. Is(g)
  <2>1. \A k \in 1..n : k - 1 \in 0..n /\ g[k] = OneByOneStep(g[k - 1], seq[k])
    BY <1>6, <1>7
  <2>2. g = [k \in 0..n |-> g[k]]
    BY <1>3 DEF Values
  <2>3. \A k \in 1..n :
          g[k] = CHOOSE v \in {OneByOneStep(acc, seq[k]) : acc \in {g[k - 1]}} : TRUE
    BY <2>1
  <2>4. \A k \in 0..n :
          g[k] = IF k = 0 THEN base
                 ELSE CHOOSE v \in {OneByOneStep(acc, seq[k]) : acc \in {g[k - 1]}} : TRUE
    <3>1. \A k \in 0..n : k = 0 \/ k \in 1..n
      OBVIOUS
    <3> QED
      BY <1>5, <2>3, <3>1
  <2> QED
    BY <2>2, <2>4
<1>9. Is(f)
  BY <1>8
<1> HIDE DEF f
<1>10. f[0] = base /\ \A k \in 1..n : f[k] = OneByOneStep(f[k - 1], seq[k])
  BY <1>9
<1>11. \A k \in 0..n : f[k] \in S[k]
  BY <1>2, <1>10, Stays
<1> QED
  BY <1>1, <1>11

\* The fold of ProcessLeft.
LEMMA ProcessFold ==
  ASSUME NEW r, NEW st, NEW fs, NEW w, NEW seq, Len(seq) \in Nat,
         NEW S, r \in S[0],
         \A k \in 1..Len(seq) : \A a \in S[k - 1] : ProcessStep(st, fs, w, a, seq[k]) \in S[k]
  PROVE  ProcessLeft(r, st, fs, w, seq) \in S[Len(seq)]
<1> DEFINE n == Len(seq)
           base == r
           step == [k \in 1..n |-> [a \in S[k - 1] |-> ProcessStep(st, fs, w, a, seq[k])]]
           Is(f) == f = [k \in 0..n |->
                           IF k = 0 THEN base
                           ELSE CHOOSE v \in {ProcessStep(st, fs, w, acc, seq[k]) : acc \in {f[k - 1]}} : TRUE]
           f == CHOOSE x : Is(x)
<1>1. ProcessLeft(r, st, fs, w, seq) = f[n]
  BY DEF ProcessLeft, Through
<1>2. base \in S[0]
  OBVIOUS
<1> HIDE DEF base
<1>3. PICK g : Values(n, base, step, g)
  BY ValuesExist DEF HasValues
<1>4. \A k \in 1..n : \A a \in S[k - 1] : step[k][a] = ProcessStep(st, fs, w, a, seq[k])
  OBVIOUS
<1> HIDE DEF step
<1>5. g[0] = base /\ \A k \in 1..n : g[k] = step[k][g[k - 1]]
  BY <1>3 DEF Values
<1>6. \A k \in 1..n : g[k - 1] \in S[k - 1] => g[k] = ProcessStep(st, fs, w, g[k - 1], seq[k])
  BY <1>4, <1>5
<1>7. \A k \in 0..n : g[k] \in S[k]
  <2>1. g[0] \in S[0] /\ \A k \in 1..n : g[k - 1] \in S[k - 1] => g[k] \in S[k]
    BY <1>2, <1>5, <1>6
  <2> QED
    BY <2>1, Stays
<1>8. Is(g)
  <2>1. \A k \in 1..n : k - 1 \in 0..n /\ g[k] = ProcessStep(st, fs, w, g[k - 1], seq[k])
    BY <1>6, <1>7
  <2>2. g = [k \in 0..n |-> g[k]]
    BY <1>3 DEF Values
  <2>3. \A k \in 1..n :
          g[k] = CHOOSE v \in {ProcessStep(st, fs, w, acc, seq[k]) : acc \in {g[k - 1]}} : TRUE
    BY <2>1
  <2>4. \A k \in 0..n :
          g[k] = IF k = 0 THEN base
                 ELSE CHOOSE v \in {ProcessStep(st, fs, w, acc, seq[k]) : acc \in {g[k - 1]}} : TRUE
    <3>1. \A k \in 0..n : k = 0 \/ k \in 1..n
      OBVIOUS
    <3> QED
      BY <1>5, <2>3, <3>1
  <2> QED
    BY <2>2, <2>4
<1>9. Is(f)
  BY <1>8
<1> HIDE DEF f
<1>10. f[0] = base /\ \A k \in 1..n : f[k] = ProcessStep(st, fs, w, f[k - 1], seq[k])
  BY <1>9
<1>11. \A k \in 0..n : f[k] \in S[k]
  BY <1>2, <1>10, Stays
<1> QED
  BY <1>1, <1>11

\* The fold of SimpleRound.
LEMMA SimpleFold ==
  ASSUME NEW r, NEW st, NEW seq, Len(seq) \in Nat,
         seq = ReadyOf(st, "SIMPLE"),
         NEW S, FirstSimple(r, st) \in S[0],
         \A k \in 1..Len(seq) : \A a \in S[k - 1] : SimpleStep(LastSection(st), a, seq[k]) \in S[k]
  PROVE  \E a \in S[Len(seq)] : SimpleRound(r, st) = a.r
<1> DEFINE n == Len(seq)
           base == FirstSimple(r, st)
           step == [k \in 1..n |-> [a \in S[k - 1] |-> SimpleStep(LastSection(st), a, seq[k])]]
           Is(f) == f = [k \in 0..n |->
                           IF k = 0 THEN base
                           ELSE CHOOSE v \in {SimpleStep(LastSection(st), acc, seq[k]) : acc \in {f[k - 1]}} : TRUE]
           f == CHOOSE x : Is(x)
<1>1. SimpleRound(r, st) = f[n].r
  BY DEF SimpleRound, Through, FirstSimple
<1>2. base \in S[0]
  OBVIOUS
<1> HIDE DEF base
<1>3. PICK g : Values(n, base, step, g)
  BY ValuesExist DEF HasValues
<1>4. \A k \in 1..n : \A a \in S[k - 1] : step[k][a] = SimpleStep(LastSection(st), a, seq[k])
  OBVIOUS
<1> HIDE DEF step
<1>5. g[0] = base /\ \A k \in 1..n : g[k] = step[k][g[k - 1]]
  BY <1>3 DEF Values
<1>6. \A k \in 1..n : g[k - 1] \in S[k - 1] => g[k] = SimpleStep(LastSection(st), g[k - 1], seq[k])
  BY <1>4, <1>5
<1>7. \A k \in 0..n : g[k] \in S[k]
  <2>1. g[0] \in S[0] /\ \A k \in 1..n : g[k - 1] \in S[k - 1] => g[k] \in S[k]
    BY <1>2, <1>5, <1>6
  <2> QED
    BY <2>1, Stays
<1>8. Is(g)
  <2>1. \A k \in 1..n : k - 1 \in 0..n /\ g[k] = SimpleStep(LastSection(st), g[k - 1], seq[k])
    BY <1>6, <1>7
  <2>2. g = [k \in 0..n |-> g[k]]
    BY <1>3 DEF Values
  <2>3. \A k \in 1..n :
          g[k] = CHOOSE v \in {SimpleStep(LastSection(st), acc, seq[k]) : acc \in {g[k - 1]}} : TRUE
    BY <2>1
  <2>4. \A k \in 0..n :
          g[k] = IF k = 0 THEN base
                 ELSE CHOOSE v \in {SimpleStep(LastSection(st), acc, seq[k]) : acc \in {g[k - 1]}} : TRUE
    <3>1. \A k \in 0..n : k = 0 \/ k \in 1..n
      OBVIOUS
    <3> QED
      BY <1>5, <2>3, <3>1
  <2> QED
    BY <2>2, <2>4
<1>9. Is(f)
  BY <1>8
<1> HIDE DEF f
<1>10. f[0] = base /\ \A k \in 1..n : f[k] = SimpleStep(LastSection(st), f[k - 1], seq[k])
  BY <1>9
<1>11. \A k \in 0..n : f[k] \in S[k]
  BY <1>2, <1>10, Stays
<1> QED
  BY <1>1, <1>11

\* The fold of WrapperRounds.
LEMMA RoundsFold ==
  ASSUME NEW start, NEW st, NEW fs, NEW anySimple,
         NEW seq, Len(seq) \in Nat, seq = Wrappers,
         NEW S, start \in S[0],
         \A k \in 1..Len(seq) : \A a \in S[k - 1] : WrapperRound(a, st, fs, anySimple, seq[k]) \in S[k]
  PROVE  WrapperRounds(start, st, fs, anySimple) \in S[Len(seq)]
<1> DEFINE n == Len(seq)
           base == start
           step == [k \in 1..n |-> [a \in S[k - 1] |-> WrapperRound(a, st, fs, anySimple, seq[k])]]
           Is(f) == f = [k \in 0..n |->
                           IF k = 0 THEN base
                           ELSE CHOOSE v \in {WrapperRound(acc, st, fs, anySimple, seq[k]) : acc \in {f[k - 1]}} : TRUE]
           f == CHOOSE x : Is(x)
<1>1. WrapperRounds(start, st, fs, anySimple) = f[n]
  BY DEF WrapperRounds, Through
<1>2. base \in S[0]
  OBVIOUS
<1> HIDE DEF base
<1>3. PICK g : Values(n, base, step, g)
  BY ValuesExist DEF HasValues
<1>4. \A k \in 1..n : \A a \in S[k - 1] : step[k][a] = WrapperRound(a, st, fs, anySimple, seq[k])
  OBVIOUS
<1> HIDE DEF step
<1>5. g[0] = base /\ \A k \in 1..n : g[k] = step[k][g[k - 1]]
  BY <1>3 DEF Values
<1>6. \A k \in 1..n : g[k - 1] \in S[k - 1] => g[k] = WrapperRound(g[k - 1], st, fs, anySimple, seq[k])
  BY <1>4, <1>5
<1>7. \A k \in 0..n : g[k] \in S[k]
  <2>1. g[0] \in S[0] /\ \A k \in 1..n : g[k - 1] \in S[k - 1] => g[k] \in S[k]
    BY <1>2, <1>5, <1>6
  <2> QED
    BY <2>1, Stays
<1>8. Is(g)
  <2>1. \A k \in 1..n : k - 1 \in 0..n /\ g[k] = WrapperRound(g[k - 1], st, fs, anySimple, seq[k])
    BY <1>6, <1>7
  <2>2. g = [k \in 0..n |-> g[k]]
    BY <1>3 DEF Values
  <2>3. \A k \in 1..n :
          g[k] = CHOOSE v \in {WrapperRound(acc, st, fs, anySimple, seq[k]) : acc \in {g[k - 1]}} : TRUE
    BY <2>1
  <2>4. \A k \in 0..n :
          g[k] = IF k = 0 THEN base
                 ELSE CHOOSE v \in {WrapperRound(acc, st, fs, anySimple, seq[k]) : acc \in {g[k - 1]}} : TRUE
    <3>1. \A k \in 0..n : k = 0 \/ k \in 1..n
      OBVIOUS
    <3> QED
      BY <1>5, <2>3, <3>1
  <2> QED
    BY <2>2, <2>4
<1>9. Is(f)
  BY <1>8
<1> HIDE DEF f
<1>10. f[0] = base /\ \A k \in 1..n : f[k] = WrapperRound(f[k - 1], st, fs, anySimple, seq[k])
  BY <1>9
<1>11. \A k \in 0..n : f[k] \in S[k]
  BY <1>2, <1>10, Stays
<1> QED
  BY <1>1, <1>11

-----------------------------------------------------------------------------
(* What Among and ByPriority give.                                         *)

\* a picks, from the first k elements of seq and in their order, those in P:
\* its i-th element is the h[i]-th of seq.
Picks(seq, P, k, a, h) ==
  /\ h \in [1..Len(a) -> 1..k]
  /\ \A i \in 1..Len(a) : a[i] = seq[h[i]] /\ a[i] \in P
  /\ \A i, m \in 1..Len(a) : i < m => h[i] < h[m]
  /\ \A m \in 1..k : seq[m] \in P => \E i \in 1..Len(a) : h[i] = m

HasPicks(seq, P, k, a) == \E h : Picks(seq, P, k, a, h)

\* One step of Among.
LEMMA KeepPicks ==
  ASSUME NEW T, NEW P, NEW seq \in Seq(T), NEW k \in 1..Len(seq), NEW a \in Seq(T),
         HasPicks(seq, P, k - 1, a)
  PROVE  /\ Keep(P, a, seq[k]) \in Seq(T)
         /\ HasPicks(seq, P, k, Keep(P, a, seq[k]))
<1>1. PICK h : Picks(seq, P, k - 1, a, h)
  BY DEF HasPicks
<1>2. seq[k] \in T /\ Len(a) \in Nat
  OBVIOUS
<1>3. CASE seq[k] \notin P
  <2>1. Picks(seq, P, k, a, h)
    BY <1>1, <1>2, <1>3 DEF Picks
  <2> QED
    BY <1>3, <2>1 DEF Keep, HasPicks
<1>4. CASE seq[k] \in P
  <2> DEFINE n == Len(a)
             b == Append(a, seq[k])
             g == [i \in 1..(n + 1) |-> IF i = n + 1 THEN k ELSE h[i]]
  <2>1. /\ b \in Seq(T) /\ Len(b) = n + 1 /\ b[n + 1] = seq[k]
        /\ \A i \in 1..n : b[i] = a[i]
    BY <1>2
  <2>2. n \in Nat /\ k \in Nat /\ h \in [1..n -> 1..(k - 1)]
    BY <1>1, <1>2 DEF Picks
  <2>3. \A i \in 1..(n + 1) : i \in 1..n \/ i = n + 1
    BY <2>2
  <2>4. g \in [1..(n + 1) -> 1..k]
    BY <2>2, <2>3
  <2>5. \A i \in 1..n : g[i] = h[i] /\ g[i] \in 1..(k - 1)
    BY <2>2
  <2>6. g[n + 1] = k
    BY <2>2
  <2> HIDE DEF g, b
  <2>7. \A i \in 1..(n + 1) : b[i] = seq[g[i]] /\ b[i] \in P
    BY <1>1, <1>4, <2>1, <2>3, <2>5, <2>6 DEF Picks
  <2>8. \A i, m \in 1..(n + 1) : i < m => g[i] < g[m]
    <3> SUFFICES ASSUME NEW i \in 1..(n + 1), NEW m \in 1..(n + 1), i < m
                 PROVE  g[i] < g[m]
      OBVIOUS
    <3>1. i \in 1..n
      BY <2>2
    <3>2. CASE m = n + 1
      BY <2>2, <2>5, <2>6, <3>1, <3>2
    <3>3. CASE m \in 1..n
      BY <1>1, <2>5, <3>1, <3>3 DEF Picks
    <3> QED
      BY <2>3, <3>2, <3>3
  <2>9. \A m \in 1..k : seq[m] \in P => \E i \in 1..(n + 1) : g[i] = m
    <3> SUFFICES ASSUME NEW m \in 1..k, seq[m] \in P
                 PROVE  \E i \in 1..(n + 1) : g[i] = m
      OBVIOUS
    <3>1. CASE m = k
      BY <2>2, <2>6, <3>1
    <3>2. CASE m # k
      <4>1. m \in 1..(k - 1)
        BY <3>2
      <4>2. PICK i \in 1..n : h[i] = m
        BY <1>1, <4>1 DEF Picks
      <4>3. i \in 1..(n + 1) /\ g[i] = m
        BY <2>2, <2>5, <4>2
      <4> QED
        BY <4>3
    <3> QED
      BY <3>1, <3>2
  <2>10. Picks(seq, P, k, b, g)
    BY <2>1, <2>4, <2>7, <2>8, <2>9 DEF Picks
  <2>11. Keep(P, a, seq[k]) = b
    BY <1>4 DEF Keep, b
  <2> QED
    BY <2>1, <2>10, <2>11 DEF HasPicks
<1> QED
  BY <1>3, <1>4

\* Among picks, in order, all the elements of seq that are in P.
LEMMA AmongPicks ==
  ASSUME NEW T, NEW P, NEW seq \in Seq(T)
  PROVE  /\ Among(seq, P) \in Seq(T)
         /\ HasPicks(seq, P, Len(seq), Among(seq, P))
<1> DEFINE S == [k \in 0..Len(seq) |-> {a \in Seq(T) : HasPicks(seq, P, k, a)}]
<1>1. Len(seq) \in Nat
  OBVIOUS
<1>2. <<>> \in S[0]
  <2>1. Picks(seq, P, 0, <<>>, <<>>)
    BY DEF Picks
  <2> QED
    BY <1>1, <2>1 DEF HasPicks
<1>3. ASSUME NEW k \in 1..Len(seq), NEW a \in S[k - 1]
      PROVE  Keep(P, a, seq[k]) \in S[k]
  <2>1. k - 1 \in 0..Len(seq) /\ k \in 0..Len(seq)
    BY <1>1
  <2> QED
    BY <2>1, KeepPicks
<1>4. Among(seq, P) \in S[Len(seq)]
  <2> HIDE DEF S
  <2> QED
    BY <1>1, <1>2, <1>3, AmongFold
<1> QED
  BY <1>1, <1>4

\* The elements of seq that are in P, no others.
LEMMA AmongRange ==
  ASSUME NEW T, NEW P, NEW seq \in Seq(T)
  PROVE  Range(Among(seq, P)) = Range(seq) \cap P
<1> DEFINE a == Among(seq, P)
<1>1. a \in Seq(T) /\ Len(a) \in Nat /\ Len(seq) \in Nat
  BY AmongPicks
<1>2. PICK h : Picks(seq, P, Len(seq), a, h)
  BY AmongPicks DEF HasPicks
<1> HIDE DEF a
<1>3. Range(a) = {a[i] : i \in 1..Len(a)} /\ Range(seq) = {seq[i] : i \in 1..Len(seq)}
  BY <1>1 DEF Range
<1>4. ASSUME NEW x \in Range(a)
      PROVE  x \in Range(seq) \cap P
  <2>1. PICK i \in 1..Len(a) : x = a[i]
    BY <1>3
  <2> QED
    BY <1>2, <1>3, <2>1 DEF Picks
<1>5. ASSUME NEW x \in Range(seq), x \in P
      PROVE  x \in Range(a)
  <2>1. PICK m \in 1..Len(seq) : x = seq[m]
    BY <1>3
  <2>2. PICK i \in 1..Len(a) : h[i] = m
    BY <1>2, <1>5, <2>1 DEF Picks
  <2> QED
    BY <1>2, <1>3, <2>1, <2>2 DEF Picks
<1> QED
  BY <1>4, <1>5 DEF a

\* What Among picks from a list without repetitions has none.
LEMMA AmongInjective ==
  ASSUME NEW T, NEW P, NEW seq \in Seq(T), IsInjective(seq)
  PROVE  IsInjective(Among(seq, P))
<1> DEFINE a == Among(seq, P)
<1>1. a \in Seq(T) /\ Len(a) \in Nat
  BY AmongPicks
<1>2. PICK h : Picks(seq, P, Len(seq), a, h)
  BY AmongPicks DEF HasPicks
<1> HIDE DEF a
<1>3. ASSUME NEW i \in 1..Len(a), NEW m \in 1..Len(a), a[i] = a[m]
      PROVE  i = m
  <2>1. h[i] \in 1..Len(seq) /\ h[m] \in 1..Len(seq) /\ seq[h[i]] = seq[h[m]]
    BY <1>2, <1>3 DEF Picks
  <2>2. h[i] = h[m]
    BY <2>1 DEF IsInjective
  <2>3. ~(i < m) /\ ~(m < i)
    BY <1>2, <2>1, <2>2 DEF Picks
  <2> QED
    BY <1>1, <2>3
<1>4. IsInjective(a)
  BY <1>1, <1>3 DEF IsInjective
<1> QED
  BY <1>4 DEF a

\* The elements of a sequence, by their positions.
LEMMA RangeIs ==
  ASSUME NEW T, NEW a \in Seq(T)
  PROVE  /\ Len(a) \in Nat /\ DOMAIN a = 1..Len(a) /\ Range(a) = {a[i] : i \in 1..Len(a)}
         /\ Range(a) \subseteq T
BY DEF Range

\* Lists without a common element make one without repetitions.
LEMMA ConcatInjective ==
  ASSUME NEW T, NEW a \in Seq(T), NEW b \in Seq(T)
  PROVE  /\ a \o b \in Seq(T)
         /\ Range(a \o b) = Range(a) \cup Range(b)
         /\ IsInjective(a) /\ IsInjective(b) /\ Range(a) \cap Range(b) = {} => IsInjective(a \o b)
<1> DEFINE c == a \o b
<1>1. /\ c \in Seq(T) /\ Len(c) = Len(a) + Len(b) /\ Len(a) \in Nat /\ Len(b) \in Nat
      /\ \A i \in 1..Len(a) : c[i] = a[i]
      /\ \A i \in 1..Len(b) : c[Len(a) + i] = b[i]
  OBVIOUS
<1>2. \A i \in 1..Len(c) : i \in 1..Len(a) \/ (i - Len(a) \in 1..Len(b) /\ c[i] = b[i - Len(a)])
  BY <1>1
<1> HIDE DEF c
<1>3. /\ Range(a) = {a[i] : i \in 1..Len(a)} /\ Range(b) = {b[i] : i \in 1..Len(b)}
      /\ Range(c) = {c[i] : i \in 1..Len(c)}
  BY <1>1, RangeIs
<1>4. Range(c) = Range(a) \cup Range(b)
  <2>1. Range(c) \subseteq Range(a) \cup Range(b)
    BY <1>1, <1>2, <1>3
  <2>2. \A i \in 1..Len(a) : i \in 1..Len(c) /\ c[i] = a[i]
    BY <1>1
  <2>3. \A i \in 1..Len(b) : Len(a) + i \in 1..Len(c) /\ c[Len(a) + i] = b[i]
    BY <1>1
  <2>4. Range(a) \subseteq Range(c)
    BY <1>3, <2>2
  <2>5. Range(b) \subseteq Range(c)
    BY <1>3, <2>3
  <2> QED
    BY <2>1, <2>4, <2>5
<1>5. ASSUME IsInjective(a), IsInjective(b), Range(a) \cap Range(b) = {},
             NEW i \in 1..Len(c), NEW m \in 1..Len(c), c[i] = c[m]
      PROVE  i = m
  <2>1. \A x, y \in 1..Len(a) : a[x] = a[y] => x = y
    BY <1>5 DEF IsInjective
  <2>2. \A x, y \in 1..Len(b) : b[x] = b[y] => x = y
    BY <1>5 DEF IsInjective
  <2>3. CASE i \in 1..Len(a) /\ m \in 1..Len(a)
    BY <1>1, <1>5, <2>1, <2>3
  <2>4. CASE i \in 1..Len(a) /\ m \notin 1..Len(a)
    BY <1>1, <1>2, <1>3, <1>5, <2>4
  <2>5. CASE i \notin 1..Len(a) /\ m \in 1..Len(a)
    BY <1>1, <1>2, <1>3, <1>5, <2>5
  <2>6. CASE i \notin 1..Len(a) /\ m \notin 1..Len(a)
    <3>1. i - Len(a) = m - Len(a)
      BY <1>2, <1>5, <2>2, <2>6
    <3> QED
      BY <1>1, <3>1
  <2> QED
    BY <2>3, <2>4, <2>5, <2>6
<1>6. IsInjective(a) /\ IsInjective(b) /\ Range(a) \cap Range(b) = {} => IsInjective(c)
  <2> SUFFICES ASSUME IsInjective(a), IsInjective(b), Range(a) \cap Range(b) = {}
               PROVE  IsInjective(c)
    OBVIOUS
  <2>1. DOMAIN c = 1..Len(c)
    BY <1>1
  <2> QED
    BY <1>5, <2>1 DEF IsInjective
<1> QED
  BY <1>1, <1>4, <1>6 DEF c

\* There is a highest priority.
LEMMA TopIsNatural == TopPriority \in Nat
<1> DEFINE n == Len(JobSeq)
           Bounds(k) == {m \in Nat : \A i \in 1..k : Priority[JobSeq[i]] <= m}
           f == [k \in 0..n |-> Bounds(k)]
           S == [k \in 0..n |-> (SUBSET Nat) \ {{}}]
<1>1. n \in Nat /\ n # 0 /\ Jobs = {JobSeq[i] : i \in 1..n}
  BY WorkflowAssumption DEF Jobs, Range
<1>2. \A i \in 1..n : Priority[JobSeq[i]] \in Nat \ {0}
  BY <1>1, WorkflowAssumption
<1>3. f[0] \in S[0]
  <2>1. 0 \in Bounds(0)
    OBVIOUS
  <2> QED
    BY <1>1, <2>1
<1>4. \A k \in 1..n : f[k - 1] \in S[k - 1] => f[k] \in S[k]
  <2>1. \A k \in 0..n : f[k] = Bounds(k) /\ S[k] = (SUBSET Nat) \ {{}} /\ Bounds(k) \subseteq Nat
    OBVIOUS
  <2>2. \A k \in 1..n : k - 1 \in 0..n /\ k \in 0..n
    BY <1>1
  <2> SUFFICES ASSUME NEW k \in 1..n, Bounds(k - 1) # {}
               PROVE  Bounds(k) # {}
    <3> HIDE DEF f, S, Bounds
    <3> QED
      BY <2>1, <2>2
  <2>3. PICK m \in Nat : \A i \in 1..(k - 1) : Priority[JobSeq[i]] <= m
    BY <1>1
  <2>4. \A i \in 1..k : i \in 1..(k - 1) \/ i = k
    BY <1>1
  <2>5. CASE Priority[JobSeq[k]] <= m
    <3>1. m \in Bounds(k)
      BY <2>3, <2>4, <2>5
    <3> QED
      BY <3>1
  <2>6. CASE ~(Priority[JobSeq[k]] <= m)
    <3>1. \A i \in 1..(k - 1) : Priority[JobSeq[i]] <= Priority[JobSeq[k]]
      <4>1. \A i \in 1..(k - 1) : i \in 1..n
        BY <1>1
      <4> QED
        BY <1>2, <2>3, <2>6, <4>1
    <3>2. Priority[JobSeq[k]] \in Bounds(k)
      BY <1>2, <2>4, <3>1
    <3> QED
      BY <3>2
  <2> QED
    BY <2>5, <2>6
<1>5. f[n] \in S[n]
  <2> HIDE DEF f, S
  <2>1. \A k \in 0..n : f[k] \in S[k]
    BY <1>1, <1>3, <1>4, Stays
  <2> QED
    BY <1>1, <2>1
<1>6. Bounds(n) \subseteq Nat /\ Bounds(n) # {}
  BY <1>1, <1>5
<1>7. PICK m \in Bounds(n) : \A x \in Bounds(n) : m <= x
  <2> HIDE DEF Bounds
  <2> QED
    BY <1>6, LeastNumber
<1>8. \E i \in 1..n : Priority[JobSeq[i]] = m
  <2> SUFFICES ASSUME \A i \in 1..n : Priority[JobSeq[i]] # m
               PROVE  FALSE
    OBVIOUS
  <2>1. \A i \in 1..n : Priority[JobSeq[i]] <= m - 1
    BY <1>2, <1>7
  <2>2. m \in Nat /\ m # 0
    BY <1>1, <1>2, <1>7
  <2>3. m - 1 \in Bounds(n)
    BY <2>1, <2>2
  <2> QED
    BY <1>7, <2>2, <2>3
<1>9. m \in {Priority[j] : j \in Jobs} /\ \A y \in {Priority[j] : j \in Jobs} : m >= y
  BY <1>1, <1>2, <1>7, <1>8
<1>10. \A x \in {Priority[j] : j \in Jobs} : x \in Nat
  BY WorkflowAssumption
<1> QED
  BY <1>9, <1>10 DEF TopPriority, Max

\* The priorities, from the highest down.
LEMMA PrioritiesTyped ==
  /\ Len(Priorities) = TopPriority /\ Len(Priorities) \in Nat
  /\ \A k \in 1..Len(Priorities) : Priorities[k] = TopPriority + 1 - k
<1>1. Priorities \in Seq(Nat)
  BY TopIsNatural DEF Priorities
<1> QED
  BY <1>1, TopIsNatural DEF Priorities

\* The jobs of a priority, each once.
LEMMA WithPriorityIs ==
  ASSUME NEW n
  PROVE  /\ WithPriority(n) \in Seq(Jobs) /\ IsInjective(WithPriority(n))
         /\ \A j \in Range(WithPriority(n)) : Priority[j] = n
<1>1. JobSeq \in Seq(Jobs) /\ IsInjective(JobSeq)
  BY WorkflowAssumption
<1> QED
  BY <1>1, AmongPicks, AmongInjective, AmongRange DEF WithPriority

\* The candidates of an iteration: jobs of the list, once each.
LEMMA ByPriorityTyped == ByPriority \in Seq(Jobs) /\ IsInjective(ByPriority)
<1> DEFINE n == Len(Priorities)
           S == [k \in 0..n |->
                   {a \in Seq(Jobs) : /\ IsInjective(a)
                                      /\ \A j \in Range(a) : Priority[j] > TopPriority - k}]
<1>1. n \in Nat /\ TopPriority \in Nat
  BY PrioritiesTyped, TopIsNatural
<1>2. <<>> \in S[0]
  <2>1. IsInjective(<<>>) /\ Range(<<>>) = {} /\ <<>> \in Seq(Jobs)
    BY DEF IsInjective, Range
  <2> QED
    BY <1>1, <2>1
<1>3. ASSUME NEW k \in 1..n, NEW a \in S[k - 1]
      PROVE  AndThen(a, Priorities[k]) \in S[k]
  <2> DEFINE b == WithPriority(Priorities[k])
  <2>1. k - 1 \in 0..n /\ k \in 0..n
    BY <1>1
  <2>2. /\ a \in Seq(Jobs) /\ IsInjective(a)
        /\ \A j \in Range(a) : Priority[j] > TopPriority - (k - 1)
    BY <2>1
  <2>3. /\ b \in Seq(Jobs) /\ IsInjective(b)
        /\ \A j \in Range(b) : Priority[j] = TopPriority + 1 - k
    BY WithPriorityIs, PrioritiesTyped
  <2> HIDE DEF b
  <2>4. \A j \in Jobs : Priority[j] \in Nat
    BY WorkflowAssumption
  <2>5. Range(a) \subseteq Jobs /\ Range(b) \subseteq Jobs
    BY <2>2, <2>3 DEF Range
  <2>6. Range(a) \cap Range(b) = {}
    BY <1>1, <2>2, <2>3, <2>4, <2>5
  <2>7. /\ a \o b \in Seq(Jobs) /\ IsInjective(a \o b)
        /\ Range(a \o b) = Range(a) \cup Range(b)
    BY <2>2, <2>3, <2>6, ConcatInjective
  <2>8. \A j \in Range(a \o b) : Priority[j] > TopPriority - k
    BY <1>1, <2>2, <2>3, <2>4, <2>5, <2>7
  <2>9. a \o b \in S[k]
    BY <2>1, <2>7, <2>8
  <2> HIDE DEF S
  <2> QED
    BY <2>9 DEF AndThen, b
<1>4. ByPriority \in S[n]
  <2> HIDE DEF S
  <2> QED
    BY <1>1, <1>2, <1>3, PriorityFold
<1> QED
  BY <1>1, <1>4

\* The candidates of a wrapper are READY jobs of it, each once.
LEMMA ReadyOfIs ==
  ASSUME NEW st, NEW w
  PROVE  /\ ReadyOf(st, w) \in Seq(Jobs) /\ IsInjective(ReadyOf(st, w))
         /\ \A j \in Range(ReadyOf(st, w)) : j \in Jobs /\ st[j] = "READY" /\ WrapperOf(j) = w
<1>1. Range(ReadyOf(st, w)) = Range(ByPriority) \cap {j \in ReadyJobs(st) : WrapperOf(j) = w}
  BY ByPriorityTyped, AmongRange DEF ReadyOf
<1> QED
  BY <1>1, ByPriorityTyped, AmongPicks, AmongInjective DEF ReadyOf, ReadyJobs

-----------------------------------------------------------------------------
(* What is said of the packages of an iteration.  st is the status of the  *)
(* jobs after update_list.                                                 *)

Startable == {"WAITING", "READY", "PREPARED", "DELAYED"}

PackageType == {"simple", "vertical", "horizontal"}
PackageSet == [jobs : Seq(Jobs) \ {<<>>}, type : PackageType]

\* What is READY has its parents COMPLETED, and so has what is COMPLETED where
\* vertical wrappers are chains.
Orderly(st) ==
  /\ \A j \in Jobs : st[j] = "READY" => ParentsCompleted(st, j)
  /\ Chained => \A j \in Jobs : st[j] = "COMPLETED" => ParentsCompleted(st, j)

\* The jobs may start in this order (v: one after the other).
RightJobs(st, jobs, v) ==
  \A k \in 1..Len(jobs) :
    /\ st[jobs[k]] \in Startable
    /\ \A q \in Parents[jobs[k]] :
         st[q] = "COMPLETED" \/ (v /\ \E l \in 1..(k - 1) : jobs[l] = q)

Right(st, p) == RightJobs(st, p.jobs, p.type = "vertical")

\* The jobs are different ones, and the READY ones tell packages apart: a vertical
\* package is a part of a chain, from its only READY job on.
Shape(st, p) ==
  /\ IsInjective(p.jobs)
  /\ st[p.jobs[1]] = "READY"
  /\ p.type # "vertical" => \A j \in Range(p.jobs) : st[j] = "READY"
  /\ p.type = "vertical" =>
       InVertical(p.jobs[1]) /\ Range(p.jobs) \subseteq Range(SameMember[p.jobs[1]])

ReadyIn(st, p) == {j \in Range(p.jobs) : st[j] = "READY"}

\* What is READY in the first n packages.
Used(st, packs, n) == UNION {ReadyIn(st, packs[i]) : i \in 1..n}

Sound(st, packs) ==
  /\ \A i \in 1..Len(packs) : Right(st, packs[i])
  /\ Chained =>
       /\ \A i \in 1..Len(packs) : Shape(st, packs[i])
       /\ \A i, k \in 1..Len(packs) :
            i # k => ReadyIn(st, packs[i]) \cap ReadyIn(st, packs[k]) = {}

-----------------------------------------------------------------------------
(* Vertical packages.                                                      *)

\* What comes before a READY job of a chain is COMPLETED.
LEMMA BeforeReady ==
  ASSUME Chained, NEW st, Orderly(st), NEW j \in Jobs, InVertical(j),
         NEW n \in 1..Len(SameMember[j]), NEW m \in 1..(n - 1), st[SameMember[j][n]] = "READY"
  PROVE  st[SameMember[j][m]] = "COMPLETED"
<1> DEFINE c == SameMember[j]
           Bad == {d \in 1..(n - 1) : st[c[n - d]] # "COMPLETED"}
<1>1. c \in Seq(Jobs) /\ Len(c) \in Nat /\ n \in 1..Len(c) /\ m \in 1..(n - 1)
  BY WorkflowAssumption
<1>2. \A i \in 1..Len(c) : c[i] \in Jobs
  BY <1>1
<1>3. \A i \in 2..Len(c) : c[i - 1] \in Parents[c[i]]
  BY DEF Chained
<1> HIDE DEF c
<1>4. \A i \in 2..Len(c) : st[c[i]] \in {"READY", "COMPLETED"} => st[c[i - 1]] = "COMPLETED"
  BY <1>1, <1>2, <1>3 DEF Orderly, ParentsCompleted
<1>5. Bad = {}
  <2> SUFFICES ASSUME Bad # {}
               PROVE  FALSE
    OBVIOUS
  <2>1. Bad \subseteq Nat
    BY <1>1
  <2>2. PICK d \in Bad : \A e \in Bad : d <= e
    <3> HIDE DEF Bad
    <3> QED
      BY <2>1, LeastNumber
  <2>3. d \in 1..(n - 1) /\ n - (d - 1) \in 2..Len(c) /\ (n - (d - 1)) - 1 = n - d
    BY <1>1, <2>2
  <2>4. CASE d = 1
    BY <1>1, <1>4, <2>2, <2>3, <2>4 DEF c
  <2>5. CASE d # 1
    <3>1. d - 1 \in 1..(n - 1) /\ d - 1 \notin Bad
      <4>1. d - 1 \in 1..(n - 1) /\ ~(d <= d - 1)
        BY <1>1, <2>3, <2>5
      <4> HIDE DEF Bad
      <4> QED
        BY <2>2, <4>1
    <3>2. st[c[n - (d - 1)]] = "COMPLETED"
      BY <3>1
    <3> QED
      BY <1>4, <2>2, <2>3, <3>2
  <2> QED
    BY <2>4, <2>5
<1>6. n - m \in 1..(n - 1) /\ n - (n - m) = m
  BY <1>1
<1> QED
  BY <1>5, <1>6 DEF c

\* So a chain has no two READY jobs.
LEMMA OneReady ==
  ASSUME Chained, NEW st, Orderly(st), NEW j \in Jobs, InVertical(j),
         NEW x \in Range(SameMember[j]), NEW y \in Range(SameMember[j]),
         st[x] = "READY", st[y] = "READY"
  PROVE  x = y
<1> DEFINE c == SameMember[j]
<1>1. c \in Seq(Jobs) /\ Len(c) \in Nat /\ Range(c) = {c[i] : i \in 1..Len(c)}
  BY WorkflowAssumption, RangeIs
<1>2. PICK n \in 1..Len(c) : x = c[n]
  BY <1>1
<1>3. PICK m \in 1..Len(c) : y = c[m]
  BY <1>1
<1>4. m \in 1..(n - 1) \/ n \in 1..(m - 1) \/ m = n
  BY <1>1
<1>5. ~(m \in 1..(n - 1))
  BY <1>2, <1>3, BeforeReady
<1>6. ~(n \in 1..(m - 1))
  BY <1>2, <1>3, BeforeReady
<1> QED
  BY <1>2, <1>3, <1>4, <1>5, <1>6

Building == [pack : Seq(Jobs) \ {<<>>}, packing : SUBSET Jobs, wall : Nat, open : BOOLEAN]

\* The package from j on, after the first k jobs of its member.
Built(st, j, k, a) ==
  LET c == SameMember[j]
  IN /\ a.pack[1] = j
     /\ RightJobs(st, a.pack, TRUE)
     /\ Chained => /\ IsInjective(a.pack)
                   /\ \A x \in Range(a.pack) : x = j \/ \E i \in 1..k : x = c[i]
                   /\ (\A i \in 1..k : c[i] # j) => a.pack = <<j>>

\* The next job of a vertical package: its parents are before it, or COMPLETED.
LEMMA RightAppend ==
  ASSUME NEW st, NEW jobs \in Seq(Jobs), NEW x \in Jobs, RightJobs(st, jobs, TRUE),
         st[x] \in Startable,
         \A q \in Parents[x] : q \in Range(jobs) \/ st[q] = "COMPLETED"
  PROVE  RightJobs(st, Append(jobs, x), TRUE)
<1> DEFINE b == Append(jobs, x)
           n == Len(jobs)
<1>1. /\ n \in Nat /\ Len(b) = n + 1 /\ b[n + 1] = x
      /\ \A i \in 1..n : b[i] = jobs[i]
      /\ Range(jobs) = {jobs[i] : i \in 1..n}
  BY RangeIs
<1>2. \A k \in 1..(n + 1) : k \in 1..n \/ k = n + 1
  BY <1>1
<1> HIDE DEF b
<1>3. ASSUME NEW k \in 1..n
      PROVE  /\ st[b[k]] \in Startable
             /\ \A q \in Parents[b[k]] :
                  st[q] = "COMPLETED" \/ (TRUE /\ \E l \in 1..(k - 1) : b[l] = q)
  <2>1. \A l \in 1..(k - 1) : b[l] = jobs[l]
    BY <1>1
  <2> QED
    BY <1>1, <2>1 DEF RightJobs
<1>4. /\ st[b[n + 1]] \in Startable
      /\ \A q \in Parents[b[n + 1]] :
           st[q] = "COMPLETED" \/ (TRUE /\ \E l \in 1..((n + 1) - 1) : b[l] = q)
  BY <1>1
<1>5. RightJobs(st, b, TRUE)
  <2> SUFFICES ASSUME NEW k \in 1..(n + 1)
               PROVE  /\ st[b[k]] \in Startable
                      /\ \A q \in Parents[b[k]] :
                           st[q] = "COMPLETED" \/ (TRUE /\ \E l \in 1..(k - 1) : b[l] = q)
    BY <1>1 DEF RightJobs
  <2>1. CASE k \in 1..n
    BY <1>3, <2>1
  <2>2. CASE k = n + 1
    BY <1>4, <2>2
  <2> QED
    BY <1>2, <2>1, <2>2
<1> QED
  BY <1>5 DEF b

\* A list and one element more.
LEMMA InjectiveAppend ==
  ASSUME NEW T, NEW a \in Seq(T), NEW x \in T
  PROVE  /\ Append(a, x) \in Seq(T) /\ Append(a, x) # <<>>
         /\ Range(Append(a, x)) = Range(a) \cup {x}
         /\ a # <<>> => Append(a, x)[1] = a[1]
         /\ IsInjective(a) /\ x \notin Range(a) => IsInjective(Append(a, x))
<1> DEFINE b == Append(a, x)
           n == Len(a)
<1>1. /\ n \in Nat /\ Len(b) = n + 1 /\ b[n + 1] = x /\ b \in Seq(T) /\ b # <<>>
      /\ \A i \in 1..n : b[i] = a[i]
      /\ a # <<>> => n # 0
  OBVIOUS
<1>2. \A k \in 1..(n + 1) : k \in 1..n \/ k = n + 1
  BY <1>1
<1>3. \A k \in 1..n : k \in 1..(n + 1)
  BY <1>1
<1> HIDE DEF b
<1>4. /\ Range(a) = {a[i] : i \in 1..n} /\ DOMAIN a = 1..n
      /\ Range(b) = {b[i] : i \in 1..(n + 1)} /\ DOMAIN b = 1..(n + 1)
  BY <1>1, RangeIs
<1>5. Range(b) = Range(a) \cup {x}
  <2>1. n + 1 \in 1..(n + 1)
    BY <1>1
  <2> QED
    BY <1>1, <1>2, <1>3, <1>4, <2>1
<1>6. IsInjective(a) /\ x \notin Range(a) => IsInjective(b)
  BY <1>1, <1>2, <1>4 DEF IsInjective
<1>7. a # <<>> => b[1] = a[1]
  BY <1>1
<1> QED
  BY <1>1, <1>5, <1>6, <1>7 DEF b

\* One step of a vertical package: the job is added, or the package is closed.
LEMMA VerticalKeeps ==
  ASSUME NEW st, Orderly(st), NEW w \in Range(Wrappers), WrapperType[w] = "vertical",
         NEW j \in Jobs, st[j] = "READY", WrapperOf(j) = w,
         NEW k \in 1..Len(SameMember[j]), NEW a \in Building, Built(st, j, k - 1, a)
  PROVE  /\ VerticalStep(st, w, a, SameMember[j][k]) \in Building
         /\ Built(st, j, k, VerticalStep(st, w, a, SameMember[j][k]))
<1> DEFINE c == SameMember[j]
           x == c[k]
           b == VerticalStep(st, w, a, x)
<1>1. c \in Seq(Jobs) /\ Len(c) \in Nat /\ k \in 1..Len(c) /\ k \in Nat /\ x \in Jobs
  <2>1. c \in Seq(Jobs)
    BY WorkflowAssumption
  <2>2. k \in 1..Len(c)
    OBVIOUS
  <2> HIDE DEF c
  <2> QED
    BY <2>1, <2>2
<1>2. a.pack \in Seq(Jobs) /\ a.pack # <<>> /\ a.packing \subseteq Jobs /\ a.wall \in Nat
  BY DEF Building
<1>3. Wallclock[x] \in Nat
  BY <1>1, WorkflowAssumption
<1>4. InVertical(j)
  BY DEF InVertical
<1>5. ASSUME Chained
      PROVE  j \in Range(c) /\ (\A i, m \in 1..Len(c) : c[i] = c[m] => i = m)
             /\ Range(c) = {c[i] : i \in 1..Len(c)}
  <2>1. Range(c) = {c[i] : i \in 1..Len(c)} /\ DOMAIN c = 1..Len(c)
    BY <1>1, RangeIs
  <2> QED
    BY <1>4, <1>5, <2>1 DEF Chained, IsInjective
<1>6. ASSUME Chained, \A i \in 1..k : c[i] # j
      PROVE  st[x] = "COMPLETED"
  <2>1. PICK n \in 1..Len(c) : c[n] = j
    BY <1>5, <1>6
  <2>2. k \in 1..(n - 1)
    BY <1>1, <1>6, <2>1
  <2> QED
    BY <1>4, <1>6, <2>1, <2>2, BeforeReady
<1>7. CASE b.pack = a.pack /\ b \in Building
  <2> SUFFICES Built(st, j, k, b)
    BY <1>7
  <2>1. b.pack[1] = j /\ RightJobs(st, b.pack, TRUE)
    BY <1>7 DEF Built
  <2>2. ASSUME Chained
        PROVE  /\ IsInjective(b.pack)
               /\ \A y \in Range(b.pack) : y = j \/ \E i \in 1..k : y = c[i]
               /\ (\A i \in 1..k : c[i] # j) => b.pack = <<j>>
    <3>1. \A i \in 1..(k - 1) : i \in 1..k
      BY <1>1
    <3> HIDE DEF b, c
    <3> QED
      BY <1>7, <2>2, <3>1 DEF Built, c
  <2> HIDE DEF b
  <2> QED
    BY <2>1, <2>2 DEF Built
<1>8. CASE ~(b.pack = a.pack /\ b \in Building)
  <2>1. /\ x # Last(a.pack) /\ Wrappable(st, x, a.pack, a.packing)
        /\ b = [a EXCEPT !.pack = Append(@, x), !.packing = @ \cup {x},
                         !.wall = @ + Wallclock[x]]
    <3>1. ~a.open \/ ~Fits(w, a.pack) \/ x = Last(a.pack)
            \/ ~Wrappable(st, x, a.pack, a.packing) => b = a
      BY DEF VerticalStep
    <3>2. a.wall + Wallclock[x] > MaxWallclock =>
            [a EXCEPT !.open = FALSE].pack = a.pack /\ [a EXCEPT !.open = FALSE] \in Building
      BY DEF Building
    <3> QED
      BY <1>8, <3>1, <3>2 DEF VerticalStep
  <2>2. b.pack = Append(a.pack, x) /\ b \in Building
    <3>1. Append(a.pack, x) \in Seq(Jobs) \ {<<>>}
      BY <1>1, <1>2, InjectiveAppend
    <3>2. a.packing \cup {x} \in SUBSET Jobs /\ a.wall + Wallclock[x] \in Nat
      BY <1>1, <1>2, <1>3
    <3> HIDE DEF b, x
    <3> QED
      BY <2>1, <3>1, <3>2 DEF Building
  <2> SUFFICES Built(st, j, k, b)
    BY <2>2
  <2>3. st[x] \in Startable /\ \A q \in Parents[x] : q \in Range(a.pack) \/ st[q] = "COMPLETED"
    BY <2>1 DEF Wrappable, Startable
  <2>4. RightJobs(st, b.pack, TRUE)
    BY <1>1, <1>2, <2>2, <2>3, RightAppend DEF Built
  <2>5. b.pack[1] = j
    BY <1>1, <1>2, <2>2, InjectiveAppend DEF Built
  <2>6. ASSUME Chained
        PROVE  /\ IsInjective(b.pack)
               /\ \A y \in Range(b.pack) : y = j \/ \E i \in 1..k : y = c[i]
               /\ (\A i \in 1..k : c[i] # j) => b.pack = <<j>>
    <3>1. /\ IsInjective(a.pack)
          /\ \A y \in Range(a.pack) : y = j \/ \E i \in 1..(k - 1) : y = c[i]
          /\ (\A i \in 1..(k - 1) : c[i] # j) => a.pack = <<j>>
      BY <2>6 DEF Built
    <3>2. ~(\A i \in 1..k : c[i] # j)
      BY <1>6, <2>3, <2>6 DEF Startable
    <3>3. x # j
      <4> SUFFICES ASSUME x = j
                   PROVE  FALSE
        OBVIOUS
      <4>1. \A i \in 1..(k - 1) : c[i] # j
        BY <1>1, <1>5, <2>6
      <4>2. a.pack = <<j>>
        BY <3>1, <4>1
      <4>3. Last(<<j>>) = j
        BY DEF Last
      <4> QED
        BY <2>1, <4>2, <4>3
    <3>4. x \notin Range(a.pack)
      <4> SUFFICES ASSUME x \in Range(a.pack)
                   PROVE  FALSE
        OBVIOUS
      <4>1. PICK i \in 1..(k - 1) : x = c[i]
        BY <3>1, <3>3
      <4>2. i \in 1..Len(c) /\ i # k
        BY <1>1
      <4> QED
        BY <1>1, <1>5, <2>6, <4>1, <4>2
    <3>5. Range(b.pack) = Range(a.pack) \cup {x} /\ IsInjective(b.pack)
      BY <1>1, <1>2, <2>2, <3>1, <3>4, InjectiveAppend
    <3>6. \A i \in 1..(k - 1) : i \in 1..k
      BY <1>1
    <3>7. k \in 1..k
      BY <1>1
    <3>8. \A y \in Range(b.pack) : y = j \/ \E i \in 1..k : y = c[i]
      <4> HIDE DEF c, b
      <4> QED
        BY <3>1, <3>5, <3>6, <3>7
    <3> QED
      BY <3>2, <3>5, <3>8
  <2> HIDE DEF b
  <2> QED
    BY <2>4, <2>5, <2>6 DEF Built
<1> QED
  BY <1>7, <1>8

\* The package from a READY job on.
LEMMA VerticalIs ==
  ASSUME NEW st, Orderly(st), NEW w \in Range(Wrappers), WrapperType[w] = "vertical",
         NEW j \in Jobs, st[j] = "READY", WrapperOf(j) = w, NEW packing \in SUBSET Jobs
  PROVE  LET v == VerticalPackage(st, w, j, packing)
             p == [jobs |-> v.pack, type |-> "vertical"]
         IN /\ v.packing \subseteq Jobs /\ v.pack \in Seq(Jobs) \ {<<>>}
            /\ p \in PackageSet /\ Right(st, p)
            /\ Chained => Shape(st, p) /\ ReadyIn(st, p) = {j}
<1> DEFINE c == SameMember[j]
           S == [k \in 0..Len(c) |-> {a \in Building : Built(st, j, k, a)}]
           v == VerticalPackage(st, w, j, packing)
           p == [jobs |-> v.pack, type |-> "vertical"]
<1>1. c \in Seq(Jobs) /\ Len(c) \in Nat
  BY WorkflowAssumption
<1>2. VerticalStart(j, packing) \in S[0]
  <2> DEFINE h == VerticalStart(j, packing)
  <2>1. h \in Building /\ h.pack = <<j>>
    BY WorkflowAssumption DEF Building, VerticalStart
  <2>2. RightJobs(st, <<j>>, TRUE)
    BY DEF RightJobs, Orderly, ParentsCompleted, Startable
  <2>3. <<j>>[1] = j /\ IsInjective(<<j>>) /\ Range(<<j>>) = {j}
    BY DEF IsInjective, Range
  <2> HIDE DEF h
  <2>4. Built(st, j, 0, h)
    BY <2>1, <2>2, <2>3 DEF Built
  <2> QED
    BY <1>1, <2>1, <2>4 DEF h
<1>3. ASSUME NEW k \in 1..Len(c), NEW a \in S[k - 1]
      PROVE  VerticalStep(st, w, a, c[k]) \in S[k]
  <2>1. k - 1 \in 0..Len(c) /\ k \in 0..Len(c)
    BY <1>1
  <2>2. a \in Building /\ Built(st, j, k - 1, a)
    BY <2>1
  <2>3. VerticalStep(st, w, a, c[k]) \in Building /\ Built(st, j, k, VerticalStep(st, w, a, c[k]))
    BY <2>2, VerticalKeeps
  <2> QED
    BY <2>1, <2>3
<1>4. v \in S[Len(c)]
  <2> HIDE DEF S
  <2> QED
    BY <1>1, <1>2, <1>3, VerticalFold
<1>5. v \in Building /\ Built(st, j, Len(c), v)
  BY <1>1, <1>4
<1> HIDE DEF v
<1>6. v.packing \subseteq Jobs /\ v.pack \in Seq(Jobs) \ {<<>>}
  BY <1>5 DEF Building
<1>7. p \in PackageSet /\ Right(st, p)
  BY <1>5, <1>6 DEF PackageSet, PackageType, Right, Built
<1>8. ASSUME Chained
      PROVE  Shape(st, p) /\ ReadyIn(st, p) = {j}
  <2>1. InVertical(j)
    BY DEF InVertical
  <2>2. Range(c) = {c[i] : i \in 1..Len(c)} /\ j \in Range(c)
    BY <1>1, <1>8, <2>1, RangeIs DEF Chained
  <2>3. /\ v.pack[1] = j /\ IsInjective(v.pack)
        /\ Range(v.pack) \subseteq Range(c)
    BY <1>5, <1>8, <2>2 DEF Built
  <2>4. j \in Range(v.pack)
    BY <1>6, <2>3, RangeIs
  <2>5. \A x \in Range(v.pack) : st[x] = "READY" => x = j
    BY <1>8, <2>1, <2>2, <2>3, OneReady
  <2> HIDE DEF c
  <2>6. Shape(st, p)
    BY <2>1, <2>3 DEF Shape, c
  <2>7. ReadyIn(st, p) = {j}
    BY <2>4, <2>5 DEF ReadyIn
  <2> QED
    BY <2>6, <2>7
<1> QED
  BY <1>6, <1>7, <1>8 DEF v

-----------------------------------------------------------------------------
(* The packages of a wrapper.                                              *)

AllUsed(st, packs) == Used(st, packs, Len(packs))

\* One package more: sound, if its READY jobs are in none of the others.
LEMMA AddPack ==
  ASSUME NEW st, NEW packs \in Seq(PackageSet), NEW p \in PackageSet,
         Sound(st, packs), Right(st, p),
         Chained => Shape(st, p) /\ ReadyIn(st, p) \cap AllUsed(st, packs) = {}
  PROVE  /\ Append(packs, p) \in Seq(PackageSet)
         /\ Sound(st, Append(packs, p))
         /\ AllUsed(st, Append(packs, p)) = AllUsed(st, packs) \cup ReadyIn(st, p)
<1> DEFINE b == Append(packs, p)
           n == Len(packs)
<1>1. /\ n \in Nat /\ Len(b) = n + 1 /\ b[n + 1] = p /\ b \in Seq(PackageSet)
      /\ \A i \in 1..n : b[i] = packs[i]
  OBVIOUS
<1>2. \A k \in 1..(n + 1) : k \in 1..n \/ k = n + 1
  BY <1>1
<1>3. n + 1 \in 1..(n + 1) /\ \A k \in 1..n : k \in 1..(n + 1) /\ k # n + 1
  BY <1>1
<1> HIDE DEF b
<1>4. \A i \in 1..(n + 1) : Right(st, b[i])
  BY <1>1, <1>2 DEF Sound
<1>5. AllUsed(st, b) = AllUsed(st, packs) \cup ReadyIn(st, p)
  <2>1. UNION {ReadyIn(st, b[i]) : i \in 1..(n + 1)}
          = (UNION {ReadyIn(st, packs[i]) : i \in 1..n}) \cup ReadyIn(st, p)
    BY <1>1, <1>2, <1>3
  <2> QED
    BY <1>1, <2>1 DEF AllUsed, Used
<1>6. ASSUME Chained
      PROVE  /\ \A i \in 1..(n + 1) : Shape(st, b[i])
             /\ \A i, k \in 1..(n + 1) :
                  i # k => ReadyIn(st, b[i]) \cap ReadyIn(st, b[k]) = {}
  <2>1. \A i \in 1..(n + 1) : Shape(st, b[i])
    BY <1>1, <1>2, <1>6 DEF Sound
  <2>2. \A i \in 1..n : ReadyIn(st, b[i]) \cap ReadyIn(st, p) = {}
    BY <1>1, <1>6 DEF AllUsed, Used
  <2>3. \A i, k \in 1..n : i # k => ReadyIn(st, b[i]) \cap ReadyIn(st, b[k]) = {}
    BY <1>1, <1>6 DEF Sound
  <2>4. ASSUME NEW i \in 1..(n + 1), NEW k \in 1..(n + 1), i # k
        PROVE  ReadyIn(st, b[i]) \cap ReadyIn(st, b[k]) = {}
    <3>1. CASE i \in 1..n /\ k \in 1..n
      BY <2>3, <2>4, <3>1
    <3>2. CASE i = n + 1 /\ k \in 1..n
      BY <1>1, <2>2, <3>2
    <3>3. CASE i \in 1..n /\ k = n + 1
      BY <1>1, <2>2, <3>3
    <3> QED
      BY <1>2, <2>4, <3>1, <3>2, <3>3
  <2> QED
    BY <2>1, <2>4
<1>7. Sound(st, b)
  BY <1>1, <1>4, <1>6 DEF Sound
<1> QED
  BY <1>1, <1>5, <1>7 DEF b

\* Packages of a type, from their jobs.
OfType(packs, t) == [i \in DOMAIN packs |-> [jobs |-> packs[i], type |-> t]]

JobsSet == Seq(Jobs) \ {<<>>}

\* One package more, with its type.
LEMMA OfTypeIs ==
  ASSUME NEW packs \in Seq(JobsSet), NEW jobs \in JobsSet, NEW t \in PackageType
  PROVE  /\ OfType(packs, t) \in Seq(PackageSet)
         /\ OfType(Append(packs, jobs), t) = Append(OfType(packs, t), [jobs |-> jobs, type |-> t])
<1> DEFINE n == Len(packs)
           b == Append(packs, jobs)
           x == [jobs |-> jobs, type |-> t]
           o == OfType(packs, t)
<1>1. /\ n \in Nat /\ DOMAIN packs = 1..n /\ \A i \in 1..n : packs[i] \in JobsSet
      /\ b \in Seq(JobsSet) /\ DOMAIN b = 1..(n + 1) /\ b[n + 1] = jobs
      /\ \A i \in 1..n : b[i] = packs[i]
  OBVIOUS
<1>2. x \in PackageSet /\ \A i \in 1..n : [jobs |-> packs[i], type |-> t] \in PackageSet
  BY <1>1 DEF PackageSet, JobsSet
<1> HIDE DEF b, x
<1>3. o \in [1..n -> PackageSet]
  BY <1>1, <1>2 DEF OfType
<1>4. o \in Seq(PackageSet) /\ Len(o) = n
  BY <1>1, <1>3
<1>5. /\ Append(o, x) \in Seq(PackageSet) /\ Len(Append(o, x)) = n + 1
      /\ Append(o, x)[n + 1] = x /\ \A i \in 1..n : Append(o, x)[i] = o[i]
  BY <1>1, <1>2, <1>4
<1>6. OfType(b, t) \in [1..(n + 1) -> PackageSet]
  <2>1. \A i \in 1..(n + 1) : i \in 1..n \/ i = n + 1
    BY <1>1
  <2>2. \A i \in 1..(n + 1) : [jobs |-> b[i], type |-> t] \in PackageSet
    BY <1>1, <1>2, <2>1 DEF x
  <2> QED
    BY <1>1, <2>2 DEF OfType
<1>7. OfType(b, t) \in Seq(PackageSet) /\ Len(OfType(b, t)) = n + 1
  BY <1>1, <1>6
<1>8. \A i \in 1..(n + 1) : OfType(b, t)[i] = Append(o, x)[i]
  <2> SUFFICES ASSUME NEW i \in 1..(n + 1)
               PROVE  OfType(b, t)[i] = Append(o, x)[i]
    OBVIOUS
  <2>1. OfType(b, t)[i] = [jobs |-> b[i], type |-> t]
    BY <1>1 DEF OfType
  <2>2. \A m \in 1..n : o[m] = [jobs |-> packs[m], type |-> t]
    BY <1>1 DEF OfType
  <2>3. i \in 1..n \/ i = n + 1
    BY <1>1
  <2> HIDE DEF o
  <2>4. CASE i = n + 1
    BY <1>1, <1>5, <2>1, <2>4 DEF x
  <2>5. CASE i \in 1..n
    BY <1>1, <1>5, <2>1, <2>2, <2>5
  <2> QED
    BY <2>3, <2>4, <2>5
<1>9. OfType(b, t) = Append(o, x)
  <2> HIDE DEF o
  <2> QED
    BY <1>5, <1>7, <1>8
<1> QED
  BY <1>4, <1>9 DEF b, x

\* Candidates of the wrapper, each once.
LEMMA VerticalsAre ==
  ASSUME NEW st, Orderly(st), NEW w \in Range(Wrappers), WrapperType[w] = "vertical",
         NEW ready \in Seq(Jobs), IsInjective(ready),
         \A j \in Range(ready) : st[j] = "READY" /\ WrapperOf(j) = w
  PROVE  /\ VerticalPackages(st, w, ready) \in Seq(JobsSet)
         /\ Sound(st, OfType(VerticalPackages(st, w, ready), "vertical"))
         /\ Chained => AllUsed(st, OfType(VerticalPackages(st, w, ready), "vertical"))
                         \subseteq Range(ready)
<1> DEFINE n == Len(ready)
           All == [built : Seq(JobsSet), packing : SUBSET Jobs]
           First(k) == {ready[i] : i \in 1..k}
           Good(k, a) == /\ Sound(st, OfType(a.built, "vertical"))
                         /\ Chained => AllUsed(st, OfType(a.built, "vertical")) \subseteq First(k)
           S == [k \in 0..n |-> {a \in All : Good(k, a)}]
           base == [built |-> <<>>, packing |-> {}]
<1>1. n \in Nat /\ Range(ready) = First(n) /\ DOMAIN ready = 1..n
  BY RangeIs
<1>2. base \in S[0]
  <2>1. base \in All /\ OfType(base.built, "vertical") = <<>>
    BY DEF OfType
  <2>2. Sound(st, <<>>) /\ AllUsed(st, <<>>) = {}
    BY DEF Sound, AllUsed, Used
  <2> HIDE DEF base, All
  <2>3. Good(0, base)
    BY <2>1, <2>2
  <2> QED
    BY <1>1, <2>1, <2>3
<1>3. ASSUME NEW k \in 1..n, NEW a \in S[k - 1]
      PROVE  VerticalPackagesStep(st, w, a, ready[k]) \in S[k]
  <2> DEFINE j == ready[k]
             b == VerticalPackagesStep(st, w, a, j)
  <2>1. k - 1 \in 0..n /\ k \in 0..n /\ First(k) = First(k - 1) \cup {j}
    <3>1. \A i \in 1..k : i \in 1..(k - 1) \/ i = k
      BY <1>1
    <3>2. k \in 1..k /\ \A i \in 1..(k - 1) : i \in 1..k
      BY <1>1
    <3> QED
      BY <1>1, <3>1, <3>2
  <2>2. a \in All /\ Good(k - 1, a)
    BY <2>1
  <2>3. j \in Jobs /\ st[j] = "READY" /\ WrapperOf(j) = w
    BY <1>1
  <2>4. j \notin First(k - 1)
    <3>1. \A i \in 1..(k - 1) : i \in 1..n /\ i # k
      BY <1>1
    <3>2. \A i, m \in 1..n : ready[i] = ready[m] => i = m
      BY <1>1 DEF IsInjective
    <3> QED
      BY <3>1, <3>2
  <2> HIDE DEF First
  <2> SUFFICES b \in All /\ Good(k, b)
    BY <2>1
  <2>5. CASE j \in a.packing
    <3>1. b = a
      BY <2>5 DEF VerticalPackagesStep
    <3> HIDE DEF b
    <3> QED
      BY <2>1, <2>2, <3>1
  <2>6. CASE j \notin a.packing
    <3> DEFINE v == VerticalPackage(st, w, j, a.packing)
               p == [jobs |-> v.pack, type |-> "vertical"]
    <3>1. b = [built |-> Append(a.built, v.pack), packing |-> v.packing]
      BY <2>6 DEF VerticalPackagesStep
    <3>2. /\ v.packing \subseteq Jobs /\ v.pack \in JobsSet /\ p \in PackageSet /\ Right(st, p)
          /\ Chained => Shape(st, p) /\ ReadyIn(st, p) = {j}
      BY <2>2, <2>3, VerticalIs DEF JobsSet
    <3> HIDE DEF v, b
    <3>3. b \in All
      BY <2>2, <3>1, <3>2
    <3>4. /\ OfType(b.built, "vertical") = Append(OfType(a.built, "vertical"), p)
          /\ OfType(a.built, "vertical") \in Seq(PackageSet)
      BY <2>2, <3>1, <3>2, OfTypeIs DEF PackageType
    <3> DEFINE q == OfType(a.built, "vertical")
    <3>5. Chained => ReadyIn(st, p) \cap AllUsed(st, q) = {}
      BY <2>2, <2>4, <3>2
    <3>6. q \in Seq(PackageSet) /\ Sound(st, q)
      BY <2>2, <3>4
    <3> HIDE DEF q, p
    <3>7. Sound(st, Append(q, p)) /\ AllUsed(st, Append(q, p)) = AllUsed(st, q) \cup ReadyIn(st, p)
      BY <3>2, <3>5, <3>6, AddPack
    <3>8. Good(k, b)
      BY <2>1, <2>2, <3>2, <3>4, <3>7 DEF q
    <3> QED
      BY <3>3, <3>8
  <2> QED
    BY <2>5, <2>6
<1>4. \E r \in S[n] : VerticalPackages(st, w, ready) = r.built
  <2> HIDE DEF S
  <2> QED
    BY <1>1, <1>2, <1>3, VerticalsFold
<1>5. PICK r \in All : Good(n, r) /\ VerticalPackages(st, w, ready) = r.built
  BY <1>1, <1>4
<1> QED
  BY <1>1, <1>5

\* A horizontal package holds candidates of the wrapper, each once.
LEMMA HorizontalIs ==
  ASSUME NEW w, NEW ready \in Seq(Jobs), IsInjective(ready)
  PROVE  LET pack == HorizontalPackage(w, ready)
         IN pack \in Seq(Jobs) /\ IsInjective(pack) /\ Range(pack) \subseteq Range(ready)
<1> DEFINE n == Len(ready)
           All == [pack : Seq(Jobs), procs : Nat]
           First(k) == {ready[i] : i \in 1..k}
           Good(k, a) == IsInjective(a.pack) /\ Range(a.pack) \subseteq First(k)
           S == [k \in 0..n |-> {a \in All : Good(k, a)}]
           base == [pack |-> <<>>, procs |-> 0]
<1>1. n \in Nat /\ Range(ready) = First(n) /\ DOMAIN ready = 1..n
  BY RangeIs
<1>2. base \in S[0]
  <2>1. base \in All /\ Good(0, base)
    BY DEF IsInjective, Range
  <2> HIDE DEF base, All, Good
  <2> QED
    BY <1>1, <2>1
<1>3. ASSUME NEW k \in 1..n, NEW a \in S[k - 1]
      PROVE  HorizontalStep(w, a, ready[k]) \in S[k]
  <2> DEFINE j == ready[k]
             b == HorizontalStep(w, a, j)
  <2>1. k - 1 \in 0..n /\ k \in 0..n /\ First(k) = First(k - 1) \cup {j}
    <3>1. \A i \in 1..k : i \in 1..(k - 1) \/ i = k
      BY <1>1
    <3>2. k \in 1..k /\ \A i \in 1..(k - 1) : i \in 1..k
      BY <1>1
    <3> QED
      BY <1>1, <3>1, <3>2
  <2>2. a \in All /\ Good(k - 1, a)
    BY <2>1
  <2>3. j \in Jobs /\ Processors[j] \in Nat
    BY <1>1, WorkflowAssumption
  <2>4. j \notin First(k - 1)
    <3>1. \A i \in 1..(k - 1) : i \in 1..n /\ i # k
      BY <1>1
    <3>2. \A i, m \in 1..n : ready[i] = ready[m] => i = m
      BY <1>1 DEF IsInjective
    <3> QED
      BY <3>1, <3>2
  <2> HIDE DEF First
  <2> SUFFICES b \in All /\ Good(k, b)
    BY <2>1
  <2>5. CASE b = a
    <3> HIDE DEF b
    <3> QED
      BY <2>1, <2>2, <2>5
  <2>6. CASE b # a
    <3>1. b = [pack |-> Append(a.pack, j), procs |-> a.procs + Processors[j]]
      BY <2>6 DEF HorizontalStep
    <3>2. j \notin Range(a.pack) /\ a.pack \in Seq(Jobs) /\ IsInjective(a.pack)
      BY <2>2, <2>4
    <3>3. /\ Append(a.pack, j) \in Seq(Jobs) /\ IsInjective(Append(a.pack, j))
          /\ Range(Append(a.pack, j)) = Range(a.pack) \cup {j}
      BY <2>3, <3>2, InjectiveAppend
    <3> HIDE DEF b, j
    <3> QED
      BY <2>1, <2>2, <2>3, <3>1, <3>3
  <2> QED
    BY <2>5, <2>6
<1>4. \E r \in S[n] : HorizontalPackage(w, ready) = r.pack
  <2> HIDE DEF S
  <2> QED
    BY <1>1, <1>2, <1>3, HorizontalFold
<1>5. PICK r \in All : Good(n, r) /\ HorizontalPackage(w, ready) = r.pack
  BY <1>1, <1>4
<1> QED
  BY <1>1, <1>5

\* READY jobs may be sent together and alone.
LEMMA ReadyRight ==
  ASSUME NEW st, Orderly(st), NEW jobs \in JobsSet, IsInjective(jobs),
         \A j \in Range(jobs) : st[j] = "READY", NEW t \in {"simple", "horizontal"}
  PROVE  LET p == [jobs |-> jobs, type |-> t]
         IN p \in PackageSet /\ Right(st, p) /\ Shape(st, p) /\ ReadyIn(st, p) = Range(jobs)
<1> DEFINE p == [jobs |-> jobs, type |-> t]
<1>1. jobs \in Seq(Jobs) /\ jobs # <<>> /\ Len(jobs) \in Nat \ {0}
  BY DEF JobsSet
<1>2. Range(jobs) = {jobs[i] : i \in 1..Len(jobs)} /\ Range(jobs) \subseteq Jobs
  BY <1>1, RangeIs
<1>3. p \in PackageSet /\ p.jobs = jobs /\ p.type # "vertical"
  BY <1>1 DEF PackageSet, PackageType
<1> HIDE DEF p
<1>4. Right(st, p)
  BY <1>2, <1>3 DEF Right, RightJobs, Orderly, ParentsCompleted, Startable
<1>5. Shape(st, p)
  BY <1>1, <1>2, <1>3 DEF Shape
<1>6. ReadyIn(st, p) = Range(jobs)
  BY <1>3 DEF ReadyIn
<1> QED
  BY <1>3, <1>4, <1>5, <1>6 DEF p

OfWrapper(w) == {j \in Jobs : WrapperOf(j) = w}

\* The packages built for a wrapper are sound and use READY jobs of it only.
LEMMA BuiltAre ==
  ASSUME NEW st, Orderly(st), NEW w \in Range(Wrappers)
  PROVE  /\ BuiltPackages(st, w) \in Seq(PackageSet)
         /\ Sound(st, BuiltPackages(st, w))
         /\ Chained => AllUsed(st, BuiltPackages(st, w)) \subseteq OfWrapper(w)
<1> DEFINE ready == ReadyOf(st, w)
<1>1. /\ ready \in Seq(Jobs) /\ IsInjective(ready)
      /\ \A j \in Range(ready) : j \in Jobs /\ st[j] = "READY" /\ WrapperOf(j) = w
  BY ReadyOfIs
<1>2. Range(ready) \subseteq OfWrapper(w)
  BY <1>1 DEF OfWrapper
<1>3. CASE WrapperType[w] = "vertical"
  <2>1. BuiltPackages(st, w) = OfType(VerticalPackages(st, w, ready), "vertical")
    BY <1>3 DEF BuiltPackages, OfType
  <2> HIDE DEF ready
  <2>2. /\ VerticalPackages(st, w, ready) \in Seq(JobsSet)
        /\ Sound(st, OfType(VerticalPackages(st, w, ready), "vertical"))
        /\ Chained => AllUsed(st, OfType(VerticalPackages(st, w, ready), "vertical"))
                        \subseteq Range(ready)
    BY <1>1, <1>3, VerticalsAre
  <2>3. JobSeq \in Seq(Jobs) \ {<<>>} /\ "vertical" \in PackageType
    BY WorkflowAssumption DEF PackageType
  <2>4. OfType(VerticalPackages(st, w, ready), "vertical") \in Seq(PackageSet)
    BY <2>2, <2>3, OfTypeIs DEF JobsSet
  <2> QED
    BY <1>2, <2>1, <2>2, <2>4
<1>4. CASE WrapperType[w] # "vertical"
  <2> DEFINE pack == HorizontalPackage(w, ready)
             p == [jobs |-> pack, type |-> "horizontal"]
  <2>1. pack \in Seq(Jobs) /\ IsInjective(pack) /\ Range(pack) \subseteq Range(ready)
    <3> HIDE DEF ready
    <3> QED
      BY <1>1, HorizontalIs
  <2>2. WrapperType[w] = "horizontal"
    BY <1>4, WrapperAssumption
  <2>3. CASE pack = <<>>
    <3>1. BuiltPackages(st, w) = <<>>
      BY <1>4, <2>3 DEF BuiltPackages, HorizontalPackages
    <3>2. <<>> \in Seq(PackageSet) /\ Sound(st, <<>>) /\ AllUsed(st, <<>>) = {}
      BY DEF Sound, AllUsed, Used
    <3> QED
      BY <3>1, <3>2
  <2>4. CASE pack # <<>>
    <3> DEFINE q == <<p>>
    <3>1. BuiltPackages(st, w) = q
      BY <1>4, <2>2, <2>4 DEF BuiltPackages, HorizontalPackages
    <3>2. pack \in JobsSet /\ \A j \in Range(pack) : st[j] = "READY"
      BY <1>1, <2>1, <2>4 DEF JobsSet
    <3>3. p \in PackageSet /\ Right(st, p) /\ Shape(st, p) /\ ReadyIn(st, p) = Range(pack)
      <4> HIDE DEF pack
      <4> QED
        BY <2>1, <3>2, ReadyRight
    <3> HIDE DEF p
    <3>4. q \in Seq(PackageSet) /\ Len(q) = 1 /\ q[1] = p /\ \A i \in 1..1 : i = 1
      BY <3>3
    <3> HIDE DEF q
    <3>5. Sound(st, q)
      BY <3>3, <3>4 DEF Sound
    <3>6. AllUsed(st, q) \subseteq Range(pack)
      BY <3>3, <3>4 DEF AllUsed, Used
    <3> HIDE DEF pack, ready
    <3> QED
      BY <1>2, <2>1, <3>1, <3>4, <3>5, <3>6
  <2> QED
    BY <2>3, <2>4
<1> QED
  BY <1>3, <1>4

-----------------------------------------------------------------------------
(* The rounds: what each step adds is sound.                               *)

WrapperTypeOfJob == {"none", "Simple", "vertical"}

RoundSet ==
  [packs : Seq(PackageSet), room : Int, errors : SUBSET Jobs, wtype : [Jobs -> WrapperTypeOfJob]]

\* r is a round whose packages are sound.
GoodRound(st, r) == r \in RoundSet /\ Sound(st, r.packs)

\* b comes from r by packages that use jobs of U.
Adds(st, r, b, U) ==
  /\ GoodRound(st, b)
  /\ Chained => AllUsed(st, b.packs) \subseteq AllUsed(st, r.packs) \cup U

\* The package p may be added to r.
MayAdd(st, r, p) ==
  /\ p \in PackageSet /\ Right(st, p)
  /\ Chained => Shape(st, p) /\ ReadyIn(st, p) \cap AllUsed(st, r.packs) = {}

\* What a round becomes with one package more.
LEMMA AddsPack ==
  ASSUME NEW st, NEW r, GoodRound(st, r), NEW p, MayAdd(st, r, p),
         NEW types, types \in [Jobs -> WrapperTypeOfJob]
  PROVE  /\ Adds(st, r, Submit(r, p, types), ReadyIn(st, p))
         /\ Submit(r, p, types).errors = r.errors
<1> DEFINE b == Submit(r, p, types)
<1>1. r.packs \in Seq(PackageSet) /\ Sound(st, r.packs) /\ r.room \in Int /\ r.errors \subseteq Jobs
  BY DEF GoodRound, RoundSet
<1>2. /\ Append(r.packs, p) \in Seq(PackageSet) /\ Sound(st, Append(r.packs, p))
      /\ AllUsed(st, Append(r.packs, p)) = AllUsed(st, r.packs) \cup ReadyIn(st, p)
  BY <1>1, AddPack DEF MayAdd
<1>3. b \in RoundSet /\ b.packs = Append(r.packs, p) /\ b.errors = r.errors
  BY <1>1, <1>2 DEF RoundSet, Submit
<1> HIDE DEF b
<1>4. Adds(st, r, b, ReadyIn(st, p))
  BY <1>2, <1>3 DEF Adds, GoodRound
<1> QED
  BY <1>3, <1>4 DEF b

\* A round, field by field.
LEMMA RoundIs ==
  ASSUME NEW r \in RoundSet
  PROVE  /\ r.packs \in Seq(PackageSet) /\ r.room \in Int /\ r.errors \subseteq Jobs
         /\ r.wtype \in [Jobs -> WrapperTypeOfJob]
BY DEF RoundSet

\* wrapper_type, set for the jobs of a package.
LEMMA WithTypeTyped ==
  ASSUME NEW types \in [Jobs -> WrapperTypeOfJob], NEW P, NEW t \in WrapperTypeOfJob
  PROVE  WithType(types, P, t) \in [Jobs -> WrapperTypeOfJob]
BY DEF WithType

\* What a round becomes with a READY job sent alone, if no package has it.
LEMMA AddsAlone ==
  ASSUME NEW st, Orderly(st), NEW r, GoodRound(st, r), NEW j \in Jobs, st[j] = "READY",
         Chained => j \notin AllUsed(st, r.packs)
  PROVE  Adds(st, r, AddAlone(r, j), {j}) /\ AddAlone(r, j).errors = r.errors
<1>1. r \in RoundSet
  BY DEF GoodRound
<1>2. /\ <<j>> \in JobsSet /\ IsInjective(<<j>>) /\ Range(<<j>>) = {j}
  BY DEF JobsSet, IsInjective, Range
<1>3. /\ Alone(j) \in PackageSet /\ Right(st, Alone(j)) /\ Shape(st, Alone(j))
      /\ ReadyIn(st, Alone(j)) = {j}
  BY <1>2, ReadyRight DEF Alone
<1> DEFINE p == Alone(j)
           types == r.wtype
<1>4. types \in [Jobs -> WrapperTypeOfJob]
  BY <1>1, RoundIs
<1>5. ReadyIn(st, p) = {j} /\ MayAdd(st, r, p)
  BY <1>3 DEF MayAdd
<1>6. AddAlone(r, j) = Submit(r, p, types)
  BY DEF AddAlone
<1> HIDE DEF p, types
<1>7. /\ Adds(st, r, Submit(r, p, types), ReadyIn(st, p))
      /\ Submit(r, p, types).errors = r.errors
  BY <1>4, <1>5, AddsPack
<1> QED
  BY <1>5, <1>6, <1>7

\* The READY jobs of the packages, one package at a time.
LEMMA UsedStep ==
  ASSUME NEW st, NEW packs \in Seq(PackageSet), NEW k \in 1..Len(packs)
  PROVE  /\ Used(st, packs, k) = Used(st, packs, k - 1) \cup ReadyIn(st, packs[k])
         /\ Used(st, packs, k) \subseteq AllUsed(st, packs)
         /\ ReadyIn(st, packs[k]) \subseteq AllUsed(st, packs)
         /\ packs[k] \in PackageSet
         /\ Sound(st, packs) =>
              /\ Right(st, packs[k])
              /\ Chained => /\ Shape(st, packs[k])
                            /\ ReadyIn(st, packs[k]) \cap Used(st, packs, k - 1) = {}
<1>1. Len(packs) \in Nat /\ k \in Nat
  OBVIOUS
<1>2. \A i \in 1..k : i \in 1..Len(packs) /\ (i \in 1..(k - 1) \/ i = k)
  BY <1>1
<1>3. \A i \in 1..(k - 1) : i \in 1..k /\ i \in 1..Len(packs) /\ i # k
  BY <1>1
<1>4. k \in 1..k
  BY <1>1
<1>5. Used(st, packs, k) = Used(st, packs, k - 1) \cup ReadyIn(st, packs[k])
  BY <1>2, <1>3, <1>4 DEF Used
<1>6. Used(st, packs, k) \subseteq AllUsed(st, packs) /\ ReadyIn(st, packs[k]) \subseteq AllUsed(st, packs)
  BY <1>2 DEF Used, AllUsed
<1>7. packs[k] \in PackageSet
  OBVIOUS
<1>8. Sound(st, packs) =>
        /\ Right(st, packs[k])
        /\ Chained => /\ Shape(st, packs[k])
                      /\ ReadyIn(st, packs[k]) \cap Used(st, packs, k - 1) = {}
  BY <1>1, <1>3 DEF Sound, Used
<1> QED
  BY <1>5, <1>6, <1>7, <1>8

\* The packages of a sieve: some are accepted, the others left.
LEMMA SieveIs ==
  ASSUME NEW st, NEW fs, NEW w, NEW r, GoodRound(st, r),
         NEW built \in Seq(PackageSet), Sound(st, built),
         Chained => AllUsed(st, r.packs) \cap AllUsed(st, built) = {}
  PROVE  LET s == Sieve(r, fs, w, built)
         IN /\ Adds(st, r, s.r, AllUsed(st, built)) /\ s.r.errors = r.errors
            /\ s.left \in Seq(PackageSet) /\ Sound(st, s.left)
            /\ Chained => /\ AllUsed(st, s.left) \subseteq AllUsed(st, built)
                          /\ AllUsed(st, s.r.packs) \cap AllUsed(st, s.left) = {}
<1> DEFINE n == Len(built)
           U(k) == Used(st, built, k)
           All == [r : RoundSet, left : Seq(PackageSet)]
           Good(k, a) == /\ Adds(st, r, a.r, U(k)) /\ a.r.errors = r.errors
                         /\ Sound(st, a.left)
                         /\ Chained => /\ AllUsed(st, a.left) \subseteq U(k)
                                       /\ AllUsed(st, a.r.packs) \cap AllUsed(st, a.left) = {}
           S == [k \in 0..n |-> {a \in All : Good(k, a)}]
           base == [r |-> r, left |-> <<>>]
           Step(k, a) == SieveStep(fs, w, a, built[k])
<1>1. n \in Nat
  OBVIOUS
<1>2. base \in S[0]
  <2>1. base \in All /\ base.r = r /\ base.left = <<>>
    BY DEF GoodRound
  <2>2. Sound(st, <<>>) /\ AllUsed(st, <<>>) = {}
    BY DEF Sound, AllUsed, Used
  <2>3. Adds(st, r, r, U(0))
    BY DEF Adds
  <2> HIDE DEF base, All, U
  <2>4. Good(0, base)
    BY <2>1, <2>2, <2>3
  <2> QED
    BY <1>1, <2>1, <2>4
<1>3. ASSUME NEW k \in 1..n, NEW a \in S[k - 1]
      PROVE  Step(k, a) \in S[k]
  <2> DEFINE p == built[k]
             b == Step(k, a)
             R == ReadyIn(st, p)
  <2>1. k - 1 \in 0..n /\ k \in 0..n
    BY <1>1
  <2>2. a \in All /\ Good(k - 1, a)
    BY <2>1
  <2>3. /\ U(k) = U(k - 1) \cup R /\ R \subseteq AllUsed(st, built) /\ U(k) \subseteq AllUsed(st, built)
        /\ p \in PackageSet /\ Right(st, p)
        /\ Chained => Shape(st, p) /\ R \cap U(k - 1) = {}
    BY UsedStep
  <2> HIDE DEF U
  <2> SUFFICES b \in All /\ Good(k, b)
    BY <2>1
  <2>4. GoodRound(st, a.r) /\ a.left \in Seq(PackageSet)
    BY <2>2 DEF Adds
  <2>5. Chained => R \cap AllUsed(st, a.r.packs) = {} /\ R \cap AllUsed(st, a.left) = {}
    BY <2>2, <2>3 DEF Adds
  <2>6. CASE a.r.room = 0
    <3>1. b = a
      BY <2>6 DEF SieveStep
    <3> HIDE DEF b, All, R
    <3> QED
      BY <2>2, <2>3, <3>1 DEF Adds
  <2>7. CASE a.r.room # 0 /\ Enough(w, p) /\ ~HasFailed(fs, p)
    <3>1. b = [a EXCEPT !.r = Accepted(a.r, p)]
      BY <2>7 DEF SieveStep
    <3> DEFINE x == Accepted(a.r, p)
               types == WithType(a.r.wtype, Range(p.jobs),
                                 IF p.type = "vertical" THEN "vertical" ELSE "none")
               c == a.r
    <3>2. types \in [Jobs -> WrapperTypeOfJob]
      <4>1. a.r.wtype \in [Jobs -> WrapperTypeOfJob]
        BY <2>4, RoundIs DEF GoodRound
      <4> QED
        BY <4>1, WithTypeTyped DEF WrapperTypeOfJob
    <3>3. x = Submit(c, p, types)
      BY DEF Accepted
    <3>4. MayAdd(st, c, p) /\ GoodRound(st, c)
      BY <2>3, <2>4, <2>5 DEF MayAdd
    <3>5. b \in All <=> x \in RoundSet
      BY <2>2, <3>1
    <3>6. b.r = x /\ b.left = a.left
      BY <2>2, <3>1
    <3>7. c.errors = r.errors /\ (Chained => AllUsed(st, c.packs) \subseteq AllUsed(st, r.packs) \cup U(k - 1))
      BY <2>2 DEF Adds
    <3>8. /\ Sound(st, a.left)
          /\ Chained => /\ AllUsed(st, a.left) \subseteq U(k - 1)
                        /\ AllUsed(st, c.packs) \cap AllUsed(st, a.left) = {}
      BY <2>2
    <3> HIDE DEF x, types, c, p, b, All
    <3>9. Adds(st, c, x, R) /\ x.errors = c.errors
      BY <3>2, <3>3, <3>4, AddsPack
    <3>10. b \in All
      BY <3>5, <3>9 DEF Adds, GoodRound
    <3> HIDE DEF R
    <3>11. Adds(st, r, x, U(k))
      BY <2>3, <3>7, <3>9 DEF Adds
    <3>12. Chained => /\ AllUsed(st, a.left) \subseteq U(k)
                      /\ AllUsed(st, x.packs) \cap AllUsed(st, a.left) = {}
      BY <2>3, <2>5, <3>8, <3>9 DEF Adds
    <3> QED
      BY <3>6, <3>7, <3>8, <3>9, <3>10, <3>11, <3>12
  <2>8. CASE a.r.room # 0 /\ ~(Enough(w, p) /\ ~HasFailed(fs, p))
    <3> DEFINE x == Append(a.left, p)
    <3>1. b = [a EXCEPT !.left = x]
      BY <2>8 DEF SieveStep
    <3>2. x \in Seq(PackageSet) /\ Sound(st, x) /\ AllUsed(st, x) = AllUsed(st, a.left) \cup R
      BY <2>2, <2>3, <2>4, <2>5, AddPack
    <3> HIDE DEF x
    <3>3. b \in All /\ b.r = a.r /\ b.left = x
      BY <2>2, <3>1, <3>2
    <3> HIDE DEF b, All, R
    <3>4. Adds(st, r, a.r, U(k)) /\ a.r.errors = r.errors
      BY <2>2, <2>3 DEF Adds
    <3>5. Chained => /\ AllUsed(st, x) \subseteq U(k)
                     /\ AllUsed(st, a.r.packs) \cap AllUsed(st, x) = {}
      BY <2>2, <2>3, <2>5, <3>2
    <3> QED
      BY <3>2, <3>3, <3>4, <3>5
  <2> QED
    BY <2>6, <2>7, <2>8
<1>4. Sieve(r, fs, w, built) \in S[n]
  <2> HIDE DEF S
  <2> QED
    BY <1>1, <1>2, <1>3, SieveFold
<1>5. Sieve(r, fs, w, built) \in All /\ Good(n, Sieve(r, fs, w, built))
  BY <1>1, <1>4
<1>6. U(n) = AllUsed(st, built)
  BY DEF AllUsed
<1> HIDE DEF U
<1> QED
  BY <1>5, <1>6

\* READY jobs sent one by one.
LEMMA OneByOneIs ==
  ASSUME NEW st, Orderly(st), NEW r, GoodRound(st, r),
         NEW jobs \in Seq(Jobs), \A j \in Range(jobs) : st[j] = "READY",
         Chained => IsInjective(jobs) /\ Range(jobs) \cap AllUsed(st, r.packs) = {}
  PROVE  Adds(st, r, OneByOne(r, jobs), Range(jobs)) /\ OneByOne(r, jobs).errors = r.errors
<1> DEFINE n == Len(jobs)
           First(k) == {jobs[i] : i \in 1..k}
           Good(k, a) == Adds(st, r, a, First(k)) /\ a.errors = r.errors
           S == [k \in 0..n |-> {a \in RoundSet : Good(k, a)}]
<1>1. n \in Nat /\ Range(jobs) = First(n) /\ DOMAIN jobs = 1..n
  BY RangeIs
<1>2. r \in S[0]
  <2>1. r \in RoundSet /\ Adds(st, r, r, First(0))
    BY DEF Adds, GoodRound
  <2> QED
    BY <1>1, <2>1
<1>3. ASSUME NEW k \in 1..n, NEW a \in S[k - 1]
      PROVE  OneByOneStep(a, jobs[k]) \in S[k]
  <2> DEFINE j == jobs[k]
             b == OneByOneStep(a, j)
  <2>1. k - 1 \in 0..n /\ k \in 0..n /\ First(k) = First(k - 1) \cup {j}
    <3>1. \A i \in 1..k : i \in 1..(k - 1) \/ i = k
      BY <1>1
    <3>2. k \in 1..k /\ \A i \in 1..(k - 1) : i \in 1..k
      BY <1>1
    <3> QED
      BY <1>1, <3>1, <3>2
  <2>2. a \in RoundSet /\ Good(k - 1, a)
    BY <2>1
  <2>3. j \in Jobs /\ st[j] = "READY" /\ j \in Range(jobs)
    BY <1>1
  <2>4. Chained => j \notin First(k - 1)
    <3>1. \A i \in 1..(k - 1) : i \in 1..n /\ i # k
      BY <1>1
    <3>2. Chained => \A i, m \in 1..n : jobs[i] = jobs[m] => i = m
      BY <1>1 DEF IsInjective
    <3> QED
      BY <3>1, <3>2
  <2> HIDE DEF First
  <2> SUFFICES b \in RoundSet /\ Good(k, b)
    BY <2>1
  <2>5. GoodRound(st, a) /\ (Chained => j \notin AllUsed(st, a.packs))
    BY <2>2, <2>3, <2>4 DEF Adds
  <2> HIDE DEF j
  <2>6. CASE a.room = 0
    <3>1. b = a
      BY <2>6 DEF OneByOneStep
    <3> HIDE DEF b
    <3> QED
      BY <2>1, <2>2, <3>1 DEF Adds
  <2>7. CASE a.room # 0
    <3>1. b = AddAlone(a, j)
      BY <2>7 DEF OneByOneStep
    <3> HIDE DEF b
    <3>2. Adds(st, a, b, {j}) /\ b.errors = a.errors
      BY <2>3, <2>5, <3>1, AddsAlone
    <3> QED
      BY <2>1, <2>2, <3>2 DEF Adds, GoodRound
  <2> QED
    BY <2>6, <2>7
<1>4. OneByOne(r, jobs) \in S[n]
  <2> HIDE DEF S
  <2> QED
    BY <1>1, <1>2, <1>3, OneByOneFold
<1>5. Good(n, OneByOne(r, jobs))
  BY <1>1, <1>4
<1> QED
  BY <1>1, <1>5

\* One package that cannot be wrapped.
LEMMA ProcessIs ==
  ASSUME NEW st, Orderly(st), NEW fs, NEW w, policy \in Policies,
         NEW r, GoodRound(st, r), NEW p, MayAdd(st, r, p)
  PROVE  LET b == ProcessStep(st, fs, w, r, p)
         IN Adds(st, r, b, ReadyIn(st, p)) /\ (b.errors = r.errors \/ policy # "flexible")
<1> DEFINE b == ProcessStep(st, fs, w, r, p)
           Goal(x) == Adds(st, r, x, ReadyIn(st, p)) /\ (x.errors = r.errors \/ policy # "flexible")
<1>1. /\ p.jobs \in Seq(Jobs) /\ p.jobs # <<>> /\ p.jobs \in JobsSet
      /\ Right(st, p) /\ r \in RoundSet /\ r.wtype \in [Jobs -> WrapperTypeOfJob]
  BY RoundIs DEF MayAdd, PackageSet, GoodRound, JobsSet
<1>2. ASSUME NEW jobs, NEW P, P \subseteq ReadyJobs(st), jobs = Among(p.jobs, P)
      PROVE  Goal(OneByOne(r, jobs))
  <2>1. jobs \in Seq(Jobs) /\ Range(jobs) = Range(p.jobs) \cap P
    BY <1>1, <1>2, AmongPicks, AmongRange
  <2>2. \A j \in Range(jobs) : st[j] = "READY"
    BY <1>2, <2>1 DEF ReadyJobs
  <2>3. Range(jobs) \subseteq ReadyIn(st, p)
    BY <2>1, <2>2 DEF ReadyIn
  <2>4. Chained => IsInjective(jobs)
    BY <1>1, <1>2, AmongInjective DEF MayAdd, Shape
  <2>5. Chained => Range(jobs) \cap AllUsed(st, r.packs) = {}
    BY <2>3 DEF MayAdd
  <2>6. Adds(st, r, OneByOne(r, jobs), Range(jobs)) /\ OneByOne(r, jobs).errors = r.errors
    BY <2>1, <2>2, <2>4, <2>5, OneByOneIs
  <2> QED
    BY <2>3, <2>6 DEF Adds
<1>3. Goal(SubmitRemaining(r, p))
  <2>1. CASE Len(p.jobs) = 1
    <3> DEFINE q == Alone(p.jobs[1])
               types == WithType(r.wtype, Range(p.jobs), "Simple")
    <3>1. SubmitRemaining(r, p) = Submit(r, q, types)
      BY <2>1 DEF SubmitRemaining
    <3>2. types \in [Jobs -> WrapperTypeOfJob]
      BY <1>1, WithTypeTyped DEF WrapperTypeOfJob
    <3>3. p.jobs[1] \in Jobs /\ Range(p.jobs) = {p.jobs[1]}
      BY <1>1, <2>1, RangeIs
    <3>4. q \in PackageSet /\ q.jobs = <<p.jobs[1]>> /\ q.type = "simple" /\ Range(q.jobs) = {p.jobs[1]}
      BY <3>3 DEF Alone, PackageSet, PackageType, Range
    <3>5. Right(st, q)
      <4>1. /\ st[p.jobs[1]] \in Startable
            /\ \A z \in Parents[p.jobs[1]] : st[z] = "COMPLETED"
        BY <1>1, <2>1 DEF Right, RightJobs
      <4> QED
        BY <3>4, <4>1 DEF Right, RightJobs
    <3>6. ReadyIn(st, q) = ReadyIn(st, p)
      BY <3>3, <3>4 DEF ReadyIn
    <3>7. Chained => Shape(st, q)
      BY <3>4 DEF MayAdd, Shape, IsInjective
    <3>8. MayAdd(st, r, q)
      BY <3>4, <3>5, <3>6, <3>7 DEF MayAdd
    <3> HIDE DEF q, types
    <3>9. Adds(st, r, Submit(r, q, types), ReadyIn(st, q)) /\ Submit(r, q, types).errors = r.errors
      BY <3>2, <3>8, AddsPack
    <3> QED
      BY <3>1, <3>6, <3>9
  <2>2. CASE Len(p.jobs) # 1
    <3> DEFINE types == r.wtype
    <3>1. SubmitRemaining(r, p) = Submit(r, p, types)
      BY <2>2 DEF SubmitRemaining
    <3>2. types \in [Jobs -> WrapperTypeOfJob]
      BY <1>1
    <3> HIDE DEF types
    <3>3. Adds(st, r, Submit(r, p, types), ReadyIn(st, p)) /\ Submit(r, p, types).errors = r.errors
      BY <3>2, AddsPack
    <3> QED
      BY <3>1, <3>3
  <2> QED
    BY <2>1, <2>2
<1>4. policy # "flexible" => Goal(InError(r, p))
  <2> DEFINE x == InError(r, p)
  <2>1. x \in RoundSet /\ x.packs = r.packs
    <3>1. Range(p.jobs) \subseteq Jobs
      BY <1>1, RangeIs
    <3> QED
      BY <1>1, <3>1 DEF InError, RoundSet
  <2> HIDE DEF x
  <2>2. Adds(st, r, x, ReadyIn(st, p))
    BY <2>1 DEF Adds, GoodRound
  <2> QED
    BY <2>2 DEF x
<1>5. policy = "mixed" => Goal(HandleMixed(r, st, fs, p))
  <2> SUFFICES ASSUME policy = "mixed"
               PROVE  Goal(HandleMixed(r, st, fs, p))
    OBVIOUS
  <2> DEFINE P == {j \in ReadyJobs(st) : fs[j] > 0}
             failed == Among(p.jobs, P)
  <2>1. HandleMixed(r, st, fs, p) = InError(r, p) \/ HandleMixed(r, st, fs, p) = OneByOne(r, failed)
    BY DEF HandleMixed
  <2>2. Goal(OneByOne(r, failed))
    <3>1. P \subseteq ReadyJobs(st)
      OBVIOUS
    <3> HIDE DEF P, Goal
    <3> QED
      BY <1>2, <3>1
  <2>3. policy # "flexible"
    OBVIOUS
  <2> HIDE DEF Goal, failed
  <2> QED
    BY <1>4, <2>1, <2>2, <2>3
<1>6. Goal(OneByOne(r, Among(p.jobs, ReadyJobs(st))))
  <2> HIDE DEF Goal
  <2> QED
    BY <1>2
<1>7. \/ b = SubmitRemaining(r, p)
      \/ policy = "strict" /\ b = InError(r, p)
      \/ policy = "mixed" /\ b = HandleMixed(r, st, fs, p)
      \/ b = OneByOne(r, Among(p.jobs, ReadyJobs(st)))
  <2>1. CASE ~MoreToWrap(st, w, p)
    BY <2>1 DEF ProcessStep
  <2>2. CASE MoreToWrap(st, w, p) /\ policy = "strict"
    BY <2>2 DEF ProcessStep
  <2>3. CASE MoreToWrap(st, w, p) /\ policy = "mixed"
    BY <2>3 DEF ProcessStep
  <2>4. CASE MoreToWrap(st, w, p) /\ policy # "strict" /\ policy # "mixed"
    BY <2>4 DEF ProcessStep
  <2> QED
    BY <2>1, <2>2, <2>3, <2>4
<1>8. policy = "strict" => policy # "flexible"
  OBVIOUS
<1>9. Goal(b)
  <2> HIDE DEF Goal, b
  <2> QED
    BY <1>3, <1>4, <1>5, <1>6, <1>7, <1>8
<1> QED
  BY <1>9

\* The packages that cannot be wrapped, one by one.
LEMMA LeftIs ==
  ASSUME NEW st, Orderly(st), NEW fs, NEW w, policy \in Policies,
         NEW r, GoodRound(st, r), NEW left \in Seq(PackageSet), Sound(st, left),
         Chained => AllUsed(st, r.packs) \cap AllUsed(st, left) = {}
  PROVE  LET b == ProcessLeft(r, st, fs, w, left)
         IN Adds(st, r, b, AllUsed(st, left)) /\ (b.errors = r.errors \/ policy # "flexible")
<1> DEFINE n == Len(left)
           U(k) == Used(st, left, k)
           Good(k, a) == Adds(st, r, a, U(k)) /\ (a.errors = r.errors \/ policy # "flexible")
           S == [k \in 0..n |-> {a \in RoundSet : Good(k, a)}]
<1>1. n \in Nat
  OBVIOUS
<1>2. r \in S[0]
  <2>1. r \in RoundSet /\ Adds(st, r, r, U(0))
    BY DEF Adds, GoodRound
  <2> HIDE DEF U
  <2> QED
    BY <1>1, <2>1
<1>3. ASSUME NEW k \in 1..n, NEW a \in S[k - 1]
      PROVE  ProcessStep(st, fs, w, a, left[k]) \in S[k]
  <2> DEFINE p == left[k]
             b == ProcessStep(st, fs, w, a, p)
             R == ReadyIn(st, p)
  <2>1. k - 1 \in 0..n /\ k \in 0..n
    BY <1>1
  <2>2. a \in RoundSet /\ Good(k - 1, a)
    BY <2>1
  <2>3. /\ U(k) = U(k - 1) \cup R /\ R \subseteq AllUsed(st, left)
        /\ p \in PackageSet /\ Right(st, p)
        /\ Chained => Shape(st, p) /\ R \cap U(k - 1) = {}
    BY UsedStep
  <2> HIDE DEF U
  <2> SUFFICES b \in RoundSet /\ Good(k, b)
    BY <2>1
  <2>4. GoodRound(st, a) /\ MayAdd(st, a, p)
    BY <2>2, <2>3 DEF Adds, MayAdd
  <2> HIDE DEF p
  <2>5. Adds(st, a, b, R) /\ (b.errors = a.errors \/ policy # "flexible")
    BY <2>4, ProcessIs
  <2> HIDE DEF b, R
  <2> QED
    BY <2>2, <2>3, <2>5 DEF Adds, GoodRound
<1>4. ProcessLeft(r, st, fs, w, left) \in S[n]
  <2> HIDE DEF S
  <2> QED
    BY <1>1, <1>2, <1>3, ProcessFold
<1>5. Good(n, ProcessLeft(r, st, fs, w, left)) /\ U(n) = AllUsed(st, left)
  BY <1>1, <1>4 DEF AllUsed
<1> HIDE DEF U
<1> QED
  BY <1>5

-----------------------------------------------------------------------------
(* build_packages.                                                         *)

\* Errors come only from wrappers, and only where there is no job outside them.
RealErrors(st, r) ==
  r.errors # {} => ReadyOf(st, "SIMPLE") = <<>> /\ policy # "flexible"

\* One wrapper: its packages are sound, and an error is a real one.
LEMMA WrapperRoundIs ==
  ASSUME NEW st, Orderly(st), NEW fs, NEW w \in Range(Wrappers), policy \in Policies,
         NEW anySimple, anySimple = (ReadyOf(st, "SIMPLE") # <<>>),
         NEW r, GoodRound(st, r), RealErrors(st, r),
         Chained => AllUsed(st, r.packs) \cap OfWrapper(w) = {}
  PROVE  LET b == WrapperRound(r, st, fs, anySimple, w)
         IN Adds(st, r, b, OfWrapper(w)) /\ RealErrors(st, b)
<1> DEFINE b == WrapperRound(r, st, fs, anySimple, w)
           built == BuiltPackages(st, w)
           s == Sieve(r, fs, w, built)
           left == s.left
           c == s.r
           x == ProcessLeft(c, st, fs, w, left)
<1> SUFFICES Adds(st, r, b, OfWrapper(w)) /\ RealErrors(st, b)
  OBVIOUS
<1>1. /\ built \in Seq(PackageSet) /\ Sound(st, built)
      /\ Chained => AllUsed(st, built) \subseteq OfWrapper(w)
  BY BuiltAre
<1>2. Chained => AllUsed(st, r.packs) \cap AllUsed(st, built) = {}
  BY <1>1
<1>3. /\ Adds(st, r, c, AllUsed(st, built)) /\ c.errors = r.errors
      /\ left \in Seq(PackageSet) /\ Sound(st, left)
      /\ Chained => /\ AllUsed(st, left) \subseteq AllUsed(st, built)
                    /\ AllUsed(st, c.packs) \cap AllUsed(st, left) = {}
  <2> HIDE DEF built
  <2> QED
    BY <1>1, <1>2, SieveIs
<1>4. \/ b = r
      \/ b = x /\ Deadlock(st, anySimple, left, built)
      \/ b = c
  BY DEF WrapperRound
<1> HIDE DEF built, s, c, left, b
<1>5. Adds(st, c, x, AllUsed(st, left)) /\ (x.errors = c.errors \/ policy # "flexible")
  <2>1. GoodRound(st, c)
    BY <1>3 DEF Adds
  <2>2. Chained => AllUsed(st, c.packs) \cap AllUsed(st, left) = {}
    BY <1>3
  <2> QED
    BY <1>3, <2>1, <2>2, LeftIs
<1> HIDE DEF x
<1>6. CASE b = r
  BY <1>6 DEF Adds
<1>7. CASE b = c
  BY <1>1, <1>3, <1>7 DEF Adds, RealErrors
<1>8. CASE b = x /\ Deadlock(st, anySimple, left, built)
  <2>1. Adds(st, r, x, OfWrapper(w))
    BY <1>1, <1>3, <1>5 DEF Adds
  <2>2. ReadyOf(st, "SIMPLE") = <<>>
    BY <1>8 DEF Deadlock
  <2>3. RealErrors(st, x)
    BY <1>3, <1>5, <2>2 DEF RealErrors
  <2> QED
    BY <1>8, <2>1, <2>3
<1> QED
  BY <1>4, <1>6, <1>7, <1>8

\* All wrappers, in the order of the configuration.
LEMMA WrapperRoundsAre ==
  ASSUME NEW st, Orderly(st), NEW fs, policy \in Policies,
         NEW anySimple, anySimple = (ReadyOf(st, "SIMPLE") # <<>>),
         NEW start, GoodRound(st, start), start.packs = <<>>, start.errors = {}
  PROVE  LET b == WrapperRounds(start, st, fs, anySimple)
         IN /\ GoodRound(st, b) /\ RealErrors(st, b)
            /\ Chained => AllUsed(st, b.packs) \cap OfWrapper("SIMPLE") = {}
<1> DEFINE n == Len(Wrappers)
           U(k) == UNION {OfWrapper(Wrappers[i]) : i \in 1..k}
           Good(k, a) == /\ GoodRound(st, a) /\ RealErrors(st, a)
                         /\ Chained => AllUsed(st, a.packs) \subseteq U(k)
           S == [k \in 0..n |-> {a \in RoundSet : Good(k, a)}]
<1>1. /\ n \in Nat /\ DOMAIN Wrappers = 1..n
      /\ Range(Wrappers) = {Wrappers[i] : i \in 1..n}
  BY WrapperAssumption, RangeIs
<1>2. start \in S[0]
  <2>1. AllUsed(st, start.packs) = {}
    BY DEF AllUsed, Used
  <2>2. start \in RoundSet /\ RealErrors(st, start)
    BY DEF GoodRound, RealErrors
  <2> HIDE DEF U
  <2> QED
    BY <1>1, <2>1, <2>2
<1>3. ASSUME NEW k \in 1..n, NEW a \in S[k - 1]
      PROVE  WrapperRound(a, st, fs, anySimple, Wrappers[k]) \in S[k]
  <2> DEFINE w == Wrappers[k]
             b == WrapperRound(a, st, fs, anySimple, w)
  <2>1. k - 1 \in 0..n /\ k \in 0..n /\ w \in Range(Wrappers)
    BY <1>1
  <2>2. Good(k - 1, a)
    BY <2>1
  <2>3. U(k) = U(k - 1) \cup OfWrapper(w)
    <3>1. \A i \in 1..k : i \in 1..(k - 1) \/ i = k
      BY <1>1
    <3>2. k \in 1..k /\ \A i \in 1..(k - 1) : i \in 1..k
      BY <1>1
    <3> QED
      BY <3>1, <3>2
  <2>4. U(k - 1) \cap OfWrapper(w) = {}
    <3>1. \A i \in 1..(k - 1) : i \in 1..n /\ i # k
      BY <1>1
    <3>2. \A i \in 1..(k - 1) : Wrappers[i] # w
      BY <1>1, <3>1, WrapperAssumption DEF IsInjective
    <3> HIDE DEF w
    <3> QED
      BY <3>2 DEF OfWrapper
  <2> HIDE DEF U, w
  <2>5. Chained => AllUsed(st, a.packs) \cap OfWrapper(w) = {}
    BY <2>2, <2>4
  <2>6. Adds(st, a, b, OfWrapper(w)) /\ RealErrors(st, b)
    BY <2>1, <2>2, <2>5, WrapperRoundIs
  <2> HIDE DEF b
  <2>7. b \in RoundSet /\ Good(k, b)
    BY <2>2, <2>3, <2>6 DEF Adds, GoodRound
  <2> QED
    BY <2>1, <2>7 DEF b, w
<1>4. WrapperRounds(start, st, fs, anySimple) \in S[n]
  <2> HIDE DEF S
  <2> QED
    BY <1>1, <1>2, <1>3, RoundsFold
<1>5. Good(n, WrapperRounds(start, st, fs, anySimple))
  BY <1>1, <1>4
<1>6. U(n) \cap OfWrapper("SIMPLE") = {}
  <2>1. \A i \in 1..n : Wrappers[i] # "SIMPLE"
    BY <1>1, WrapperAssumption
  <2> QED
    BY <2>1 DEF OfWrapper
<1> HIDE DEF U
<1> QED
  BY <1>5, <1>6

\* The limits are numbers.
LEMMA LimitsTyped ==
  ASSUME subs \in Seq(PackageSet)
  PROVE  /\ RoomToWait \in Int /\ RoomToRun \in Int
         /\ \A j \in Jobs : SectionRoom(Section[j]) \in Int
<1>1. \A st : Cardinality(IdsWith(st)) \in Nat
  <2> SUFFICES ASSUME NEW st
               PROVE  Cardinality(IdsWith(st)) \in Nat
    OBVIOUS
  <2>1. Len(subs) \in Nat /\ DOMAIN subs = 1..Len(subs)
    OBVIOUS
  <2>2. IdsWith(st) \subseteq 1..Len(subs)
    BY <2>1 DEF IdsWith, OnPlatform
  <2>3. IsFiniteSet(1..Len(subs))
    BY <2>1, FS_Interval
  <2>4. IsFiniteSet(IdsWith(st))
    BY <2>2, <2>3, FS_Subset
  <2> QED
    BY <2>4, FS_CardinalityType
<1>2. Queuing \in Nat /\ Running \in Nat /\ WaitingIds \in Nat
  BY <1>1 DEF Queuing, Running, WaitingIds
<1>3. RoomToWait \in Int
  BY <1>2, LimitAssumption DEF RoomToWait
<1>4. RoomToRun \in Int
  BY <1>2, LimitAssumption DEF RoomToRun, Max2
<1>5. ASSUME NEW j \in Jobs
      PROVE  SectionRoom(Section[j]) \in Int
  <2> DEFINE s == Section[j]
             u == IF SectionWaiting[s] # MaxWaiting THEN SectionWaiting[s] - WaitingIds
                  ELSE RoomToWait
             v == IF SectionTotal[s] # TotalJobs THEN SectionTotal[s] - Queuing - Running
                  ELSE RoomToRun
  <2>1. u \in Int /\ v \in Int
    BY <1>2, <1>3, <1>4, LimitAssumption
  <2>2. \A x, y \in Int : Max2(x, y) \in Int /\ Min2(x, y) \in Int
    BY DEF Max2, Min2
  <2>3. SectionRoom(s) = Max2(0, Min2(u, v))
    BY DEF SectionRoom
  <2> HIDE DEF u, v
  <2> QED
    BY <2>1, <2>2, <2>3
<1> QED
  BY <1>3, <1>4, <1>5

\* The wrapper_type of a job outside wrappers is set whether it is sent or not.
Seen(r, j) == [r EXCEPT !.wtype = WithType(@, {j}, "Simple")]
SimpleChoice(r, j) == {r, Seen(r, j), AddAlone(Seen(r, j), j)}

\* It changes nothing but the types.
LEMMA SeenIs ==
  ASSUME NEW st, NEW r, GoodRound(st, r), NEW j
  PROVE  /\ GoodRound(st, Seen(r, j)) /\ Seen(r, j).packs = r.packs
         /\ Seen(r, j).errors = r.errors
<1> DEFINE types == WithType(r.wtype, {j}, "Simple")
           seen == [r EXCEPT !.wtype = types]
<1>1. r \in RoundSet /\ types \in [Jobs -> WrapperTypeOfJob]
  BY RoundIs, WithTypeTyped DEF GoodRound, WrapperTypeOfJob
<1>2. seen = Seen(r, j)
  BY DEF Seen
<1> HIDE DEF types
<1>3. seen \in RoundSet /\ seen.packs = r.packs /\ seen.errors = r.errors
  BY <1>1 DEF RoundSet
<1> HIDE DEF seen
<1>4. GoodRound(st, seen)
  BY <1>3 DEF GoodRound
<1> QED
  BY <1>2, <1>3, <1>4

\* A job outside wrappers is sent alone, or only its wrapper_type is set.
LEMMA SimpleAdds ==
  ASSUME NEW st, Orderly(st), NEW r, GoodRound(st, r), NEW j \in Jobs, st[j] = "READY",
         Chained => j \notin AllUsed(st, r.packs), NEW b \in SimpleChoice(r, j)
  PROVE  Adds(st, r, b, {j}) /\ b.errors = r.errors
<1>1. PICK y : y = Seen(r, j)
  OBVIOUS
<1>2. GoodRound(st, y) /\ y.packs = r.packs /\ y.errors = r.errors
  BY <1>1, SeenIs
<1>3. Adds(st, y, AddAlone(y, j), {j}) /\ AddAlone(y, j).errors = y.errors
  BY <1>2, AddsAlone
<1>4. Adds(st, r, r, {j}) /\ Adds(st, r, y, {j}) /\ Adds(st, r, AddAlone(y, j), {j})
  BY <1>2, <1>3 DEF Adds
<1>5. b \in {r, y, AddAlone(y, j)}
  BY <1>1 DEF SimpleChoice
<1> QED
  BY <1>2, <1>3, <1>4, <1>5

\* The jobs outside wrappers.
LEMMA SimpleRoundIs ==
  ASSUME NEW st, Orderly(st), subs \in Seq(PackageSet), Ready(st) # <<>>,
         NEW r, GoodRound(st, r), Chained => AllUsed(st, r.packs) \cap OfWrapper("SIMPLE") = {}
  PROVE  GoodRound(st, SimpleRound(r, st)) /\ SimpleRound(r, st).errors = r.errors
<1> DEFINE ready == ReadyOf(st, "SIMPLE")
           n == Len(ready)
           First(k) == {ready[i] : i \in 1..k}
           last == LastSection(st)
           All == [r : RoundSet, own : Int, closed : BOOLEAN]
           Good(k, a) == Adds(st, r, a.r, First(k)) /\ a.r.errors = r.errors
           S == [k \in 0..n |-> {a \in All : Good(k, a)}]
<1>1. /\ n \in Nat /\ Range(ready) = First(n) /\ DOMAIN ready = 1..n
      /\ \A i, m \in 1..n : ready[i] = ready[m] => i = m
      /\ \A i \in 1..n : ready[i] \in Jobs /\ st[ready[i]] = "READY" /\ WrapperOf(ready[i]) = "SIMPLE"
  <2>1. /\ ready \in Seq(Jobs) /\ IsInjective(ready)
        /\ \A j \in Range(ready) : j \in Jobs /\ st[j] = "READY" /\ WrapperOf(j) = "SIMPLE"
    BY ReadyOfIs
  <2> HIDE DEF ready
  <2>2. /\ n \in Nat /\ Range(ready) = First(n) /\ DOMAIN ready = 1..n
    BY <2>1, RangeIs
  <2> QED
    BY <2>1, <2>2 DEF IsInjective
<1> HIDE DEF ready
<1>2. SectionRoom(last) \in Int
  <2>1. Ready(st) \in Seq(Jobs)
    BY WorkflowAssumption, AmongPicks DEF Ready
  <2>2. Last(Ready(st)) \in Jobs
    BY <2>1 DEF Last
  <2> QED
    BY <2>2, LimitsTyped DEF LastSection
<1>3. FirstSimple(r, st) \in S[0]
  <2> DEFINE base == FirstSimple(r, st)
  <2>1. base \in All /\ base.r = r
    BY <1>2 DEF FirstSimple, GoodRound
  <2> HIDE DEF base, All, First
  <2>2. Good(0, base)
    BY <2>1 DEF Adds
  <2> QED
    BY <1>1, <2>1, <2>2 DEF base
<1>4. ASSUME NEW k \in 1..n, NEW a \in S[k - 1]
      PROVE  SimpleStep(last, a, ready[k]) \in S[k]
  <2> DEFINE j == ready[k]
             b == SimpleStep(last, a, j)
  <2>1. k - 1 \in 0..n /\ k \in 0..n /\ First(k) = First(k - 1) \cup {j}
    <3>1. \A i \in 1..k : i \in 1..(k - 1) \/ i = k
      BY <1>1
    <3>2. k \in 1..k /\ \A i \in 1..(k - 1) : i \in 1..k
      BY <1>1
    <3> QED
      BY <1>1, <3>1, <3>2
  <2>2. a \in All /\ Good(k - 1, a)
    BY <2>1
  <2>3. j \in Jobs /\ st[j] = "READY" /\ j \in OfWrapper("SIMPLE")
    BY <1>1 DEF OfWrapper
  <2>4. j \notin First(k - 1)
    <3>1. \A i \in 1..(k - 1) : i \in 1..n /\ i # k
      BY <1>1
    <3> QED
      BY <1>1, <3>1
  <2>5. /\ b.r \in SimpleChoice(a.r, j)
        /\ b \in [r : {b.r}, own : Int, closed : BOOLEAN]
    <3>1. a \in [r : RoundSet, own : Int, closed : BOOLEAN] /\ a.own - 1 \in Int
      BY <2>2
    <3>2. PICK s, x : s = Seen(a.r, j) /\ x = AddAlone(s, j)
      OBVIOUS
    <3>3. b \in {a, [a EXCEPT !.r = s], [r |-> x, own |-> a.own - 1, closed |-> FALSE],
                 [r |-> s, own |-> a.own, closed |-> TRUE], [a EXCEPT !.r = x]}
      BY <3>2 DEF SimpleStep, Seen
    <3> HIDE DEF b, j
    <3>4. b.r \in {a.r, s, x} /\ b \in [r : {b.r}, own : Int, closed : BOOLEAN]
      <4>1. CASE b = a
        BY <3>1, <4>1
      <4>2. CASE b = [a EXCEPT !.r = s]
        BY <3>1, <4>2
      <4>3. CASE b = [a EXCEPT !.r = x]
        BY <3>1, <4>3
      <4>4. CASE b = [r |-> x, own |-> a.own - 1, closed |-> FALSE]
        BY <3>1, <4>4
      <4>5. CASE b = [r |-> s, own |-> a.own, closed |-> TRUE]
        BY <3>1, <4>5
      <4> QED
        BY <3>3, <4>1, <4>2, <4>3, <4>4, <4>5
    <3> QED
      BY <3>2, <3>4 DEF SimpleChoice
  <2> HIDE DEF First
  <2> SUFFICES b \in All /\ Good(k, b)
    BY <2>1
  <2>6. PICK i, y, c : i = j /\ y = b.r /\ c = a.r
    OBVIOUS
  <2> HIDE DEF b, j
  <2>7. /\ GoodRound(st, c) /\ c.errors = r.errors
        /\ Chained => AllUsed(st, c.packs) \subseteq AllUsed(st, r.packs) \cup First(k - 1)
    BY <2>2, <2>6 DEF Adds
  <2>8. Chained => i \notin AllUsed(st, c.packs)
    BY <2>3, <2>4, <2>6, <2>7
  <2>9. i \in Jobs /\ st[i] = "READY" /\ y \in SimpleChoice(c, i)
    BY <2>3, <2>5, <2>6
  <2>10. Adds(st, c, y, {i}) /\ y.errors = c.errors
    BY <2>7, <2>8, <2>9, SimpleAdds
  <2>11. Adds(st, r, y, First(k)) /\ y.errors = r.errors
    BY <2>1, <2>6, <2>7, <2>10 DEF Adds
  <2>12. b \in All
    BY <2>5, <2>6, <2>9, <2>10 DEF Adds, GoodRound
  <2> HIDE DEF All
  <2> QED
    BY <2>6, <2>11, <2>12
<1>5. \E a \in S[n] : SimpleRound(r, st) = a.r
  <2> HIDE DEF S
  <2> QED
    BY <1>1, <1>3, <1>4, SimpleFold DEF ready
<1>6. PICK a \in All : Good(n, a) /\ SimpleRound(r, st) = a.r
  <2>1. S[n] = {a \in All : Good(n, a)}
    BY <1>1
  <2> HIDE DEF S, All, Good
  <2> QED
    BY <1>5, <2>1
<1> QED
  BY <1>6 DEF Adds

\* What an iteration submits is sound, and the errors it meets are real.
LEMMA PackagesAreSound ==
  ASSUME NEW st, Orderly(st), NEW fs, subs \in Seq(PackageSet), policy \in Policies,
         wtype \in [Jobs -> WrapperTypeOfJob]
  PROVE  GoodRound(st, BuildPackages(st, fs)) /\ RealErrors(st, BuildPackages(st, fs))
<1> DEFINE anySimple == ReadyOf(st, "SIMPLE") # <<>>
           start == [packs |-> <<>>, room |-> Min2(RoomToWait, RoomToRun),
                     errors |-> {}, wtype |-> wtype]
           rounds == WrapperRounds(start, st, fs, anySimple)
           b == BuildPackages(st, fs)
<1> SUFFICES GoodRound(st, b) /\ RealErrors(st, b)
  OBVIOUS
<1>1. start \in RoundSet /\ start.packs = <<>> /\ start.errors = {}
  BY LimitsTyped DEF RoundSet, Min2
<1>2. GoodRound(st, start)
  BY <1>1 DEF GoodRound, Sound
<1>3. b = start \/ (b = SimpleRound(rounds, st) /\ Ready(st) # <<>>)
  BY DEF BuildPackages
<1> HIDE DEF start, b
<1>4. /\ GoodRound(st, rounds) /\ RealErrors(st, rounds)
      /\ Chained => AllUsed(st, rounds.packs) \cap OfWrapper("SIMPLE") = {}
  <2>1. PICK any : any = anySimple
    OBVIOUS
  <2>2. /\ GoodRound(st, WrapperRounds(start, st, fs, any))
        /\ RealErrors(st, WrapperRounds(start, st, fs, any))
        /\ Chained => AllUsed(st, WrapperRounds(start, st, fs, any).packs)
                        \cap OfWrapper("SIMPLE") = {}
    BY <1>1, <1>2, <2>1, WrapperRoundsAre
  <2> QED
    BY <2>1, <2>2
<1> HIDE DEF rounds
<1>5. CASE b = start
  BY <1>1, <1>2, <1>5 DEF RealErrors
<1>6. CASE b = SimpleRound(rounds, st) /\ Ready(st) # <<>>
  BY <1>4, <1>6, SimpleRoundIs DEF RealErrors
<1> QED
  BY <1>3, <1>5, <1>6


-----------------------------------------------------------------------------
(* What a step keeps.  s is the status of the jobs, q the packages on the  *)
(* platform.                                                               *)

\* What is READY has its parents COMPLETED.
ReadyDone(s) == \A j \in Jobs : s[j] = "READY" => ParentsCompleted(s, j)

\* What is on the platform is in the queue.
PlacedIn(s, q) == \A i \in 1..Len(q) : \A j \in Range(q[i].jobs) : s[j] \in InQueueStatus

\* No job is twice on the platform.
ApartIn(q) ==
  /\ \A i \in 1..Len(q) : IsInjective(q[i].jobs)
  /\ \A i, k \in 1..Len(q) : i # k => Range(q[i].jobs) \cap Range(q[k].jobs) = {}

\* What is in the queue is on the platform.
HeldIn(s, q) ==
  \A j \in Jobs : s[j] \in InQueueStatus => \E i \in 1..Len(q) : j \in Range(q[i].jobs)

\* What a job on the platform waits for comes before it in its package.
OrderedIn(s, q) ==
  \A i \in 1..Len(q) : \A k \in 1..Len(q[i].jobs) : \A p \in Parents[q[i].jobs[k]] :
    \/ s[p] = "COMPLETED"
    \/ q[i].type = "vertical" /\ \E l \in 1..(k - 1) : q[i].jobs[l] = p

\* What runs or ran had its parents COMPLETED.
DoneIn(s) ==
  \A j \in Jobs : s[j] \in {"RUNNING", "COMPLETED"} => ParentsCompleted(s, j)

ChainsIn(s, q) == ApartIn(q) /\ HeldIn(s, q) /\ OrderedIn(s, q) /\ DoneIn(s)

\* The inductive invariant.
IInv ==
  /\ TypeOK
  /\ subs \in Seq(PackageSet)
  /\ ReadyDone(status)
  /\ PlacedIn(status, subs)
  /\ DeadlockIsReal
  /\ Chained => ChainsIn(status, subs)

-----------------------------------------------------------------------------
(* The packages that are left when jobs leave the platform.                *)

\* q is what is left of q0 without the jobs of S: its i-th package is what is
\* left of the h[i]-th.
Leaves(q0, S, q, h) ==
  /\ q \in Seq(PackageSet)
  /\ h \in [1..Len(q) -> 1..Len(q0)]
  /\ \A i, m \in 1..Len(q) : i < m => h[i] < h[m]
  /\ \A i \in 1..Len(q) : /\ q[i].type = q0[h[i]].type
                          /\ q[i].jobs = Among(q0[h[i]].jobs, Jobs \ S)
  /\ \A m \in 1..Len(q0) : ~(Range(q0[m].jobs) \subseteq S) => \E i \in 1..Len(q) : h[i] = m

\* A function on 1..n is a sequence.
LEMMA SequenceOf ==
  ASSUME NEW T, NEW n \in Nat, NEW f \in [1..n -> T]
  PROVE  f \in Seq(T) /\ Len(f) = n
OBVIOUS

\* Without is what is left of the packages on the platform.
LEMMA WithoutIs ==
  ASSUME subs \in Seq(PackageSet), NEW S
  PROVE  \E h : Leaves(subs, S, Without(S), h)
<1> DEFINE T == [jobs : Seq(Jobs), type : PackageType]
           left == [i \in DOMAIN subs |-> [subs[i] EXCEPT !.jobs = Among(@, Jobs \ S)]]
           P == {p \in Range(left) : p.jobs # <<>>}
           q == Among(left, P)
<1>1. Len(subs) \in Nat /\ DOMAIN subs = 1..Len(subs) /\ \A i \in 1..Len(subs) : subs[i] \in PackageSet
  OBVIOUS
<1>2. ASSUME NEW i \in 1..Len(subs)
      PROVE  /\ left[i] \in T /\ left[i].type = subs[i].type
             /\ left[i].jobs = Among(subs[i].jobs, Jobs \ S)
             /\ Range(left[i].jobs) = Range(subs[i].jobs) \ S
  <2>1. subs[i] \in T /\ subs[i].jobs \in Seq(Jobs)
    BY <1>1, <1>2 DEF PackageSet
  <2>2. Among(subs[i].jobs, Jobs \ S) \in Seq(Jobs)
    BY <2>1, AmongPicks
  <2>3. Range(Among(subs[i].jobs, Jobs \ S)) = Range(subs[i].jobs) \ S
    BY <2>1, AmongRange, RangeIs
  <2>4. left[i] = [subs[i] EXCEPT !.jobs = Among(subs[i].jobs, Jobs \ S)]
    BY <1>1
  <2> HIDE DEF left
  <2> QED
    BY <2>1, <2>2, <2>3, <2>4
<1>3. left \in Seq(T) /\ Len(left) = Len(subs) /\ Range(left) = {left[i] : i \in 1..Len(subs)}
  <2>1. left = [i \in 1..Len(subs) |-> left[i]]
    BY <1>1
  <2> HIDE DEF left, T
  <2>2. left \in [1..Len(subs) -> T]
    BY <1>2, <2>1
  <2>3. left \in Seq(T) /\ Len(left) = Len(subs)
    BY <1>1, <2>2, SequenceOf
  <2> QED
    BY <2>3, RangeIs
<1>4. Without(S) = q
  BY DEF Without
<1> HIDE DEF left
<1>5. \A m \in 1..Len(subs) : left[m] \in P <=> left[m].jobs # <<>>
  BY <1>3
<1>6. q \in Seq(T) /\ HasPicks(left, P, Len(left), q)
  <2> HIDE DEF T, P
  <2> QED
    BY <1>3, AmongPicks
<1>7. PICK h : Picks(left, P, Len(subs), q, h)
  BY <1>3, <1>6 DEF HasPicks
<1> HIDE DEF q
<1>8. \A i \in 1..Len(q) : q[i] \in T /\ q[i].jobs # <<>>
  <2>1. \A i \in 1..Len(q) : q[i] \in P
    BY <1>7 DEF Picks
  <2>2. \A i \in 1..Len(q) : q[i] \in T
    <3> HIDE DEF T
    <3> QED
      BY <1>6
  <2> QED
    BY <2>1, <2>2
<1>9. q \in Seq(PackageSet)
  <2>1. \A i \in 1..Len(q) : q[i] \in PackageSet
    BY <1>8 DEF PackageSet
  <2>2. Len(q) \in Nat /\ q = [i \in 1..Len(q) |-> q[i]]
    <3> HIDE DEF T
    <3> QED
      BY <1>6
  <2>3. q \in [1..Len(q) -> PackageSet]
    BY <2>1, <2>2
  <2> QED
    BY <2>2, <2>3, SequenceOf
<1>10. ASSUME NEW m \in 1..Len(subs), ~(Range(subs[m].jobs) \subseteq S)
       PROVE  \E i \in 1..Len(q) : h[i] = m
  <2>1. Range(left[m].jobs) # {}
    BY <1>2, <1>10
  <2>2. left[m].jobs # <<>>
    BY <2>1 DEF Range
  <2> QED
    BY <1>5, <1>7, <2>2 DEF Picks
<1>11. \A i \in 1..Len(q) : /\ q[i].type = subs[h[i]].type
                            /\ q[i].jobs = Among(subs[h[i]].jobs, Jobs \ S)
  BY <1>2, <1>7 DEF Picks
<1>12. Leaves(subs, S, q, h)
  BY <1>7, <1>9, <1>10, <1>11 DEF Leaves, Picks
<1> QED
  BY <1>4, <1>12

\* No package comes when jobs leave.
LEMMA LeavesFewer ==
  ASSUME NEW q0 \in Seq(PackageSet), NEW S, NEW q, NEW h, Leaves(q0, S, q, h)
  PROVE  Len(q) <= Len(q0)
<1>1. Len(q) \in Nat /\ Len(q0) \in Nat /\ h \in [1..Len(q) -> 1..Len(q0)]
  BY DEF Leaves
<1>2. \A i, m \in 1..Len(q) : h[i] = h[m] => i = m
  <2> SUFFICES ASSUME NEW i \in 1..Len(q), NEW m \in 1..Len(q), h[i] = h[m]
               PROVE  i = m
    OBVIOUS
  <2>1. ~(i < m) /\ ~(m < i)
    BY <1>1 DEF Leaves
  <2> QED
    BY <1>1, <2>1
<1>3. h \in Injection(1..Len(q), 1..Len(q0))
  BY <1>1, <1>2 DEF Injection, IsInjective
<1>4. /\ IsFiniteSet(1..Len(q0)) /\ Cardinality(1..Len(q0)) = Len(q0)
      /\ Cardinality(1..Len(q)) = Len(q)
  <2>1. ASSUME NEW n \in Nat
        PROVE  IsFiniteSet(1..n) /\ Cardinality(1..n) = n
    BY FS_Interval
  <2> QED
    BY <1>1, <2>1
<1>5. Cardinality(1..Len(q)) <= Cardinality(1..Len(q0))
  BY <1>3, <1>4, FS_Injection
<1> QED
  BY <1>4, <1>5

\* p is what is left of the package p0.
KeptOf(p0, S, p) ==
  /\ p.type = p0.type
  /\ \A x : x \in Range(p.jobs) <=> x \in Range(p0.jobs) /\ x \notin S
  /\ HasPicks(p0.jobs, Jobs \ S, Len(p0.jobs), p.jobs)
  /\ IsInjective(p0.jobs) => IsInjective(p.jobs)

\* It is a part of p0, in the same order.
LEMMA LeftOf ==
  ASSUME NEW q0 \in Seq(PackageSet), NEW S, NEW q, NEW h, Leaves(q0, S, q, h),
         NEW i \in 1..Len(q)
  PROVE  h[i] \in 1..Len(q0) /\ KeptOf(q0[h[i]], S, q[i])
<1>1. h[i] \in 1..Len(q0)
  BY DEF Leaves
<1>2. PICK p0, p : p0 = q0[h[i]] /\ p = q[i]
  OBVIOUS
<1>3. p0 \in PackageSet
  BY <1>1, <1>2
<1>4. p.type = p0.type /\ p.jobs = Among(p0.jobs, Jobs \ S)
  BY <1>2 DEF Leaves
<1>5. p0.jobs \in Seq(Jobs)
  BY <1>3 DEF PackageSet
<1>6. Range(p.jobs) = Range(p0.jobs) \ S
  BY <1>4, <1>5, AmongRange, RangeIs
<1>7. HasPicks(p0.jobs, Jobs \ S, Len(p0.jobs), p.jobs)
  BY <1>4, <1>5, AmongPicks
<1>8. IsInjective(p0.jobs) => IsInjective(p.jobs)
  BY <1>4, <1>5, AmongInjective
<1> QED
  BY <1>1, <1>2, <1>4, <1>6, <1>7, <1>8 DEF KeptOf

\* The statuses of what is on the platform change and its packages do not.
LEMMA MoveKeeps ==
  ASSUME NEW s, NEW t, NEW q \in Seq(PackageSet), ReadyDone(s), PlacedIn(s, q),
         \A j \in Jobs : t[j] = s[j] \/ (s[j] \in InQueueStatus /\ t[j] \in InQueueStatus)
  PROVE  /\ ReadyDone(t) /\ PlacedIn(t, q)
         /\ /\ ChainsIn(s, q)
            /\ \A j \in Jobs : t[j] = "RUNNING" => s[j] = "RUNNING" \/ ParentsCompleted(s, j)
            => ChainsIn(t, q)
<1>1. \A j \in Jobs : Parents[j] \subseteq Jobs
  BY WorkflowAssumption
<1>2. \A i \in 1..Len(q) : q[i].jobs \in Seq(Jobs)
  <2>1. \A i \in 1..Len(q) : q[i] \in PackageSet
    OBVIOUS
  <2> QED
    BY <2>1 DEF PackageSet
<1>3. /\ \A j \in Jobs : s[j] = "COMPLETED" <=> t[j] = "COMPLETED"
      /\ \A j \in Jobs : s[j] = "READY" <=> t[j] = "READY"
      /\ \A j \in Jobs : s[j] \in InQueueStatus <=> t[j] \in InQueueStatus
  BY DEF InQueueStatus
<1>4. \A j \in Jobs : ParentsCompleted(s, j) => ParentsCompleted(t, j)
  BY <1>1, <1>3 DEF ParentsCompleted
<1>5. ReadyDone(t)
  BY <1>3, <1>4 DEF ReadyDone
<1>6. PlacedIn(t, q)
  <2>1. \A i \in 1..Len(q) : Range(q[i].jobs) \subseteq Jobs
    BY <1>2, RangeIs
  <2> QED
    BY <1>3, <2>1 DEF PlacedIn
<1>7. ASSUME ChainsIn(s, q),
             \A j \in Jobs : t[j] = "RUNNING" => s[j] = "RUNNING" \/ ParentsCompleted(s, j)
      PROVE  ChainsIn(t, q)
  <2>1. HeldIn(t, q)
    BY <1>3, <1>7 DEF ChainsIn, HeldIn
  <2>2. OrderedIn(t, q)
    <3>1. \A i \in 1..Len(q) : \A k \in 1..Len(q[i].jobs) : Parents[q[i].jobs[k]] \subseteq Jobs
      BY <1>1, <1>2
    <3> QED
      BY <1>3, <1>7, <3>1 DEF ChainsIn, OrderedIn
  <2>3. DoneIn(t)
    BY <1>3, <1>4, <1>7 DEF ChainsIn, DoneIn
  <2> QED
    BY <1>7, <2>1, <2>2, <2>3 DEF ChainsIn
<1> QED
  BY <1>5, <1>6, <1>7

\* The jobs of S leave the platform: they are COMPLETED, FAILED, or WAITING again.
Left(s, t, S) ==
  /\ \A j \in Jobs \ S : t[j] = s[j]
  /\ \A j \in S : s[j] \in InQueueStatus /\ t[j] \in {"COMPLETED", "FAILED", "WAITING"}

\* A job that leaves is COMPLETED, after it ran, or takes its vertical package along.
Whole(s, t, q0, S) ==
  /\ \A j \in S : t[j] = "COMPLETED" => s[j] = "RUNNING"
  /\ \A j \in S : \/ t[j] = "COMPLETED"
                  \/ \A m \in 1..Len(q0) :
                       q0[m].type = "vertical" /\ j \in Range(q0[m].jobs) =>
                         Range(q0[m].jobs) \subseteq S

\* What is left of the packages stays as it was.
LEMMA LeaveKeeps ==
  ASSUME NEW s, NEW t, NEW q0 \in Seq(PackageSet), NEW S \in SUBSET Jobs, NEW q, NEW h,
         Leaves(q0, S, q, h), ReadyDone(s), PlacedIn(s, q0), Left(s, t, S)
  PROVE  /\ ReadyDone(t) /\ PlacedIn(t, q)
         /\ ChainsIn(s, q0) /\ Whole(s, t, q0, S) => ChainsIn(t, q)
<1>1. \A j \in Jobs : Parents[j] \subseteq Jobs
  BY WorkflowAssumption
<1>2. \A j \in Jobs : s[j] = "COMPLETED" => t[j] = "COMPLETED"
  BY DEF Left, InQueueStatus
<1>3. \A j \in Jobs : ParentsCompleted(s, j) => ParentsCompleted(t, j)
  BY <1>1, <1>2 DEF ParentsCompleted
<1>4. \A i \in 1..Len(q) : h[i] \in 1..Len(q0) /\ KeptOf(q0[h[i]], S, q[i])
  BY LeftOf
<1>5. \A i \in 1..Len(q) : \A j \in Range(q[i].jobs) : j \in Jobs /\ t[j] = s[j]
  <2> SUFFICES ASSUME NEW i \in 1..Len(q), NEW j \in Range(q[i].jobs)
               PROVE  j \in Jobs /\ t[j] = s[j]
    OBVIOUS
  <2>1. q \in Seq(PackageSet)
    BY DEF Leaves
  <2>2. q[i] \in PackageSet
    BY <2>1
  <2>3. q[i].jobs \in Seq(Jobs)
    BY <2>2 DEF PackageSet
  <2>4. j \in Jobs
    BY <2>3, RangeIs
  <2>5. j \notin S
    BY <1>4 DEF KeptOf
  <2> QED
    BY <2>4, <2>5 DEF Left
<1>6. ReadyDone(t)
  BY <1>3 DEF ReadyDone, Left
<1>7. PlacedIn(t, q)
  <2> SUFFICES ASSUME NEW i \in 1..Len(q), NEW j \in Range(q[i].jobs)
               PROVE  t[j] \in InQueueStatus
    BY DEF PlacedIn
  <2>1. h[i] \in 1..Len(q0) /\ j \in Range(q0[h[i]].jobs)
    BY <1>4 DEF KeptOf
  <2> QED
    BY <1>5, <2>1 DEF PlacedIn
<1>8. ASSUME ChainsIn(s, q0), Whole(s, t, q0, S)
      PROVE  ChainsIn(t, q)
  <2>1. ApartIn(q)
    <3>1. \A i \in 1..Len(q) : IsInjective(q[i].jobs)
      <4> SUFFICES ASSUME NEW i \in 1..Len(q)
                   PROVE  IsInjective(q[i].jobs)
        OBVIOUS
      <4>1. h[i] \in 1..Len(q0)
        BY <1>4
      <4>2. IsInjective(q0[h[i]].jobs)
        BY <1>8, <4>1 DEF ChainsIn, ApartIn
      <4> QED
        BY <1>4, <4>2 DEF KeptOf
    <3>2. ASSUME NEW i \in 1..Len(q), NEW k \in 1..Len(q), i # k
          PROVE  Range(q[i].jobs) \cap Range(q[k].jobs) = {}
      <4>1. h[i] \in 1..Len(q0) /\ h[k] \in 1..Len(q0) /\ h[i] # h[k]
        <5>1. h[i] \in 1..Len(q0) /\ h[k] \in 1..Len(q0)
          BY <1>4
        <5>2. Len(q) \in Nat /\ Len(q0) \in Nat
          BY DEF Leaves
        <5>3. i < k \/ k < i
          BY <3>2, <5>2
        <5>4. h[i] < h[k] \/ h[k] < h[i]
          BY <5>3 DEF Leaves
        <5> QED
          BY <5>1, <5>2, <5>4
      <4>2. /\ Range(q[i].jobs) \subseteq Range(q0[h[i]].jobs)
            /\ Range(q[k].jobs) \subseteq Range(q0[h[k]].jobs)
        BY <1>4 DEF KeptOf
      <4> QED
        BY <1>8, <4>1, <4>2 DEF ChainsIn, ApartIn
    <3> QED
      BY <3>1, <3>2 DEF ApartIn
  <2>2. HeldIn(t, q)
    <3> SUFFICES ASSUME NEW j \in Jobs, t[j] \in InQueueStatus
                 PROVE  \E i \in 1..Len(q) : j \in Range(q[i].jobs)
      BY DEF HeldIn
    <3>1. j \notin S /\ s[j] \in InQueueStatus
      BY DEF Left, InQueueStatus
    <3>2. PICK m \in 1..Len(q0) : j \in Range(q0[m].jobs)
      BY <1>8, <3>1 DEF ChainsIn, HeldIn
    <3>3. PICK i \in 1..Len(q) : h[i] = m
      BY <3>1, <3>2 DEF Leaves
    <3>4. j \in Range(q0[m].jobs) /\ j \notin S => j \in Range(q[i].jobs)
      BY <1>4, <3>3 DEF KeptOf
    <3> QED
      BY <3>1, <3>2, <3>4
  <2>3. OrderedIn(t, q)
    <3> SUFFICES ASSUME NEW i \in 1..Len(q), NEW k \in 1..Len(q[i].jobs),
                        NEW p \in Parents[q[i].jobs[k]], t[p] # "COMPLETED"
                 PROVE  q[i].type = "vertical" /\ \E l \in 1..(k - 1) : q[i].jobs[l] = p
      BY DEF OrderedIn
    <3>1. PICK m, a, b : m = h[i] /\ a = q0[m].jobs /\ b = q[i].jobs
      OBVIOUS
    <3>2. PICK g : Picks(a, Jobs \ S, Len(a), b, g)
      BY <1>4, <3>1 DEF KeptOf, HasPicks
    <3>3. /\ m \in 1..Len(q0) /\ q[i].type = q0[m].type
          /\ \A x \in Range(b) : x \notin S
      BY <1>4, <3>1 DEF KeptOf
    <3>4. a \in Seq(Jobs) /\ b \in Seq(Jobs)
      <4>1. q[i] \in PackageSet /\ q0[m] \in PackageSet
        BY <3>3 DEF Leaves
      <4> QED
        BY <3>1, <4>1 DEF PackageSet
    <3>5. g[k] \in 1..Len(a) /\ b[k] = a[g[k]] /\ k \in 1..Len(b) /\ b[k] \in Jobs /\ p \in Parents[b[k]]
      BY <3>1, <3>2, <3>4 DEF Picks
    <3>6. p \in Jobs /\ s[p] # "COMPLETED"
      BY <1>1, <1>2, <3>5
    <3>7. q0[m].type = "vertical" /\ \E l \in 1..(g[k] - 1) : a[l] = p
      <4>1. g[k] \in 1..Len(q0[m].jobs) /\ p \in Parents[q0[m].jobs[g[k]]]
        BY <3>1, <3>5
      <4>2. q0[m].type = "vertical" /\ \E l \in 1..(g[k] - 1) : q0[m].jobs[l] = p
        BY <1>8, <3>3, <3>6, <4>1 DEF ChainsIn, OrderedIn
      <4> QED
        BY <3>1, <4>2
    <3>8. PICK l \in 1..(g[k] - 1) : a[l] = p
      BY <3>7
    <3>9. l \in 1..Len(a) /\ l < g[k]
      BY <3>4, <3>5
    <3>10. p \in Range(a)
      BY <3>4, <3>8, <3>9, RangeIs
    <3>11. p \notin S
      <4> SUFFICES ASSUME p \in S
                   PROVE  FALSE
        OBVIOUS
      <4>1. Range(a) \subseteq S
        <5>1. t[p] = "COMPLETED" \/ \A i0 \in 1..Len(q0) :
                 q0[i0].type = "vertical" /\ p \in Range(q0[i0].jobs) =>
                   Range(q0[i0].jobs) \subseteq S
          BY <1>8 DEF Whole
        <5> QED
          BY <3>1, <3>3, <3>7, <3>10, <5>1
      <4>2. b[k] \in Range(b) /\ b[k] \in Range(a)
        BY <3>4, <3>5, RangeIs
      <4> QED
        BY <3>3, <4>1, <4>2
    <3>12. PICK n \in 1..Len(b) : g[n] = l
      BY <3>2, <3>6, <3>8, <3>9, <3>11 DEF Picks
    <3>13. b[n] = p /\ n < k
      <4>1. b[n] = p
        BY <3>2, <3>8, <3>12 DEF Picks
      <4>2. n # k /\ ~(k < n)
        BY <3>2, <3>4, <3>5, <3>9, <3>12 DEF Picks
      <4> QED
        BY <3>4, <3>5, <3>12, <4>1, <4>2
    <3>14. n \in 1..(k - 1)
      BY <3>4, <3>5, <3>12, <3>13
    <3> QED
      BY <3>1, <3>3, <3>7, <3>13, <3>14
  <2>4. DoneIn(t)
    <3> SUFFICES ASSUME NEW j \in Jobs, t[j] \in {"RUNNING", "COMPLETED"}
                 PROVE  ParentsCompleted(s, j)
      BY <1>3 DEF DoneIn
    <3>1. s[j] \in {"RUNNING", "COMPLETED"}
      BY <1>8 DEF Left, Whole
    <3> QED
      BY <1>8, <3>1 DEF ChainsIn, DoneIn
  <2> QED
    BY <2>1, <2>2, <2>3, <2>4 DEF ChainsIn
<1> QED
  BY <1>6, <1>7, <1>8

-----------------------------------------------------------------------------
(* The packages an iteration adds.                                         *)

\* The packages that were there, then the new ones.
LEMMA ConcatIs ==
  ASSUME NEW T, NEW a \in Seq(T), NEW b \in Seq(T)
  PROVE  /\ a \o b \in Seq(T) /\ Len(a \o b) = Len(a) + Len(b)
         /\ \A i \in 1..Len(a) : i \in 1..Len(a \o b) /\ (a \o b)[i] = a[i]
         /\ \A i \in 1..Len(b) : i + Len(a) \in 1..Len(a \o b) /\ (a \o b)[i + Len(a)] = b[i]
         /\ \A i \in 1..Len(a \o b) : i \in 1..Len(a) \/ i - Len(a) \in 1..Len(b)
OBVIOUS

\* A vertical package has its jobs in the chain of its READY job, so two
\* packages with no READY job in common have no job in common.
LEMMA PacksApart ==
  ASSUME Chained, NEW st, Orderly(st), NEW packs \in Seq(PackageSet), Sound(st, packs)
  PROVE  ApartIn(packs)
<1>1. \A i \in 1..Len(packs) : packs[i] \in PackageSet /\ Shape(st, packs[i])
  BY DEF Sound
<1>2. \A i \in 1..Len(packs) : IsInjective(packs[i].jobs)
  BY <1>1 DEF Shape
<1>3. ASSUME NEW i \in 1..Len(packs), NEW k \in 1..Len(packs), i # k,
             NEW x \in Range(packs[i].jobs) \cap Range(packs[k].jobs)
      PROVE  FALSE
  <2>1. PICK p, q : p = packs[i] /\ q = packs[k]
    OBVIOUS
  <2>2. /\ p \in PackageSet /\ Shape(st, p) /\ q \in PackageSet /\ Shape(st, q)
        /\ x \in Range(p.jobs) /\ x \in Range(q.jobs)
    BY <1>1, <2>1
  <2>3. \A y \in ReadyIn(st, p) : y \notin ReadyIn(st, q)
    BY <1>3, <2>1 DEF Sound
  <2>4. st[x] # "READY"
    BY <2>2, <2>3 DEF ReadyIn
  <2>5. p.type = "vertical" /\ q.type = "vertical"
    BY <2>2, <2>4 DEF Shape
  <2>6. /\ p.jobs \in Seq(Jobs) /\ p.jobs # <<>> /\ q.jobs \in Seq(Jobs) /\ q.jobs # <<>>
    BY <2>2 DEF PackageSet
  <2>7. PICK a, b : a = p.jobs[1] /\ b = q.jobs[1]
    OBVIOUS
  <2>8. a \in Range(p.jobs) /\ a \in Jobs /\ b \in Range(q.jobs) /\ b \in Jobs
    <3>1. ASSUME NEW c \in Seq(Jobs), c # <<>>
          PROVE  c[1] \in Range(c) /\ c[1] \in Jobs
      <4>1. 1 \in 1..Len(c)
        BY <3>1
      <4> QED
        BY <4>1, RangeIs
    <3> QED
      BY <2>6, <2>7, <3>1
  <2>9. /\ st[a] = "READY" /\ st[b] = "READY" /\ InVertical(a) /\ InVertical(b)
        /\ Range(p.jobs) \subseteq Range(SameMember[a])
        /\ Range(q.jobs) \subseteq Range(SameMember[b])
    BY <2>2, <2>5, <2>7 DEF Shape
  <2>10. SameMember[x] = SameMember[a] /\ SameMember[x] = SameMember[b]
    <3>1. x \in Range(SameMember[a]) /\ x \in Range(SameMember[b])
      BY <2>2, <2>9
    <3> QED
      BY <2>8, <2>9, <3>1 DEF Chained
  <2>11. a \in Range(SameMember[a]) /\ b \in Range(SameMember[a])
    BY <2>8, <2>9, <2>10
  <2>12. a = b
    BY <2>8, <2>9, <2>11, OneReady
  <2> QED
    BY <2>3, <2>8, <2>9, <2>12 DEF ReadyIn
<1>4. \A i, k \in 1..Len(packs) : i # k => Range(packs[i].jobs) \cap Range(packs[k].jobs) = {}
  BY <1>3
<1> QED
  BY <1>2, <1>4 DEF ApartIn

JobsOf(packs) == UNION {Range(packs[i].jobs) : i \in DOMAIN packs}

\* update_list, from s to st, leaves alone what is in the queue or COMPLETED.
Updates(s, st) ==
  \A j \in Jobs :
    \/ s[j] \in InQueueStatus \cup {"COMPLETED"}
    \/ st[j] \in InQueueStatus \cup {"COMPLETED"}
    => st[j] = s[j]

\* What holds of the packages that were there and of the new ones holds of all.
LEMMA AddKeeps ==
  ASSUME NEW s, NEW st, NEW t, NEW q0 \in Seq(PackageSet), NEW packs \in Seq(PackageSet),
         Updates(s, st), Orderly(st), Sound(st, packs), PlacedIn(s, q0),
         t = [j \in Jobs |-> IF j \in JobsOf(packs) THEN "SUBMITTED" ELSE st[j]]
  PROVE  /\ ReadyDone(t) /\ PlacedIn(t, q0 \o packs)
         /\ Chained /\ ChainsIn(s, q0) => ChainsIn(t, q0 \o packs)
<1> DEFINE q == q0 \o packs
           n == Len(q0)
           m == Len(packs)
<1>1. \A j \in Jobs : Parents[j] \subseteq Jobs
  BY WorkflowAssumption
<1>2. /\ n \in Nat /\ m \in Nat /\ Len(q) = n + m /\ q \in Seq(PackageSet)
      /\ \A i \in 1..n : i \in 1..(n + m) /\ q[i] = q0[i]
      /\ \A i \in 1..m : i + n \in 1..(n + m) /\ q[i + n] = packs[i]
      /\ \A i \in 1..(n + m) : i \in 1..n \/ i - n \in 1..m
      /\ \A i \in 1..(n + m) : i - n \in 1..m => q[i] = packs[i - n]
  BY ConcatIs
<1> HIDE DEF q
<1>3. \A i \in 1..(n + m) :
        /\ q[i].jobs \in Seq(Jobs) /\ Range(q[i].jobs) = {q[i].jobs[k] : k \in 1..Len(q[i].jobs)}
        /\ \A j \in Range(q[i].jobs) : j \in Jobs
  <2> SUFFICES ASSUME NEW i \in 1..(n + m)
               PROVE  /\ q[i].jobs \in Seq(Jobs)
                      /\ Range(q[i].jobs) = {q[i].jobs[k] : k \in 1..Len(q[i].jobs)}
                      /\ \A j \in Range(q[i].jobs) : j \in Jobs
    OBVIOUS
  <2>1. q[i] \in PackageSet
    BY <1>2
  <2>2. q[i].jobs \in Seq(Jobs)
    BY <2>1 DEF PackageSet
  <2> QED
    BY <2>2, RangeIs
<1>4. /\ \A i \in 1..m : \A j \in Range(packs[i].jobs) : j \in JobsOf(packs)
      /\ \A j \in JobsOf(packs) : \E i \in 1..m : j \in Range(packs[i].jobs)
  <2>1. DOMAIN packs = 1..m
    OBVIOUS
  <2> QED
    BY <2>1 DEF JobsOf
<1>5. \A i \in 1..m : \A j \in Range(packs[i].jobs) : st[j] \in Startable /\ t[j] = "SUBMITTED"
  <2> SUFFICES ASSUME NEW i \in 1..m, NEW j \in Range(packs[i].jobs)
               PROVE  st[j] \in Startable /\ t[j] = "SUBMITTED"
    OBVIOUS
  <2>1. i + n \in 1..(n + m) /\ q[i + n] = packs[i]
    BY <1>2
  <2>2. PICK p : p = packs[i]
    OBVIOUS
  <2>3. p.jobs \in Seq(Jobs) /\ j \in Range(p.jobs) /\ RightJobs(st, p.jobs, p.type = "vertical")
    BY <1>3, <2>1, <2>2 DEF Sound, Right
  <2>4. j \in Jobs /\ \E k \in 1..Len(p.jobs) : j = p.jobs[k]
    BY <2>3, RangeIs
  <2>5. st[j] \in Startable
    BY <2>3, <2>4 DEF RightJobs
  <2> QED
    BY <1>4, <2>4, <2>5
<1>6. \A j \in Jobs : t[j] = "SUBMITTED" \/ t[j] = st[j]
  OBVIOUS
<1>7. \A j \in JobsOf(packs) : st[j] \in Startable
  BY <1>4, <1>5
<1>8. \A j \in Jobs : j \notin JobsOf(packs) => t[j] = st[j]
  OBVIOUS
<1>9. \A j \in Jobs : s[j] \in InQueueStatus \cup {"COMPLETED"} => t[j] = s[j] /\ j \notin JobsOf(packs)
  BY <1>7, <1>8 DEF Updates, InQueueStatus, Startable
<1>10. \A j \in Jobs : st[j] = "COMPLETED" => s[j] = "COMPLETED" /\ t[j] = "COMPLETED"
  BY <1>9 DEF Updates
<1>11. \A j \in Jobs : /\ ParentsCompleted(s, j) => ParentsCompleted(t, j)
                       /\ ParentsCompleted(st, j) => ParentsCompleted(t, j)
  BY <1>1, <1>9, <1>10 DEF ParentsCompleted
<1>12. ReadyDone(t)
  BY <1>6, <1>11 DEF ReadyDone, Orderly
<1>13. PlacedIn(t, q)
  <2> SUFFICES ASSUME NEW i \in 1..(n + m), NEW j \in Range(q[i].jobs)
               PROVE  t[j] \in InQueueStatus
    BY <1>2 DEF PlacedIn
  <2>1. CASE i \in 1..n
    <3>1. s[j] \in InQueueStatus /\ j \in Jobs
      BY <1>2, <1>3, <2>1 DEF PlacedIn
    <3> QED
      BY <1>9, <3>1
  <2>2. CASE i - n \in 1..m
    BY <1>2, <1>5, <2>2 DEF InQueueStatus
  <2> QED
    BY <1>2, <2>1, <2>2
<1>14. ASSUME Chained, ChainsIn(s, q0)
       PROVE  ChainsIn(t, q)
  <2>1. ApartIn(q)
    <3>1. ApartIn(q0) /\ ApartIn(packs)
      BY <1>14, PacksApart DEF ChainsIn
    <3>2. \A i \in 1..(n + m) : IsInjective(q[i].jobs)
      BY <1>2, <3>1 DEF ApartIn
    <3>3. ASSUME NEW i \in 1..n, NEW k \in 1..m, NEW x \in Range(q0[i].jobs) \cap Range(packs[k].jobs)
          PROVE  FALSE
      <4>1. s[x] \in InQueueStatus /\ x \in Jobs
        BY <1>2, <1>3, <3>3 DEF PlacedIn
      <4>2. x \in JobsOf(packs)
        BY <1>4
      <4> QED
        BY <1>9, <4>1, <4>2
    <3>4. ASSUME NEW i \in 1..(n + m), NEW k \in 1..(n + m), i # k
          PROVE  Range(q[i].jobs) \cap Range(q[k].jobs) = {}
      <4>1. CASE i \in 1..n /\ k \in 1..n
        BY <1>2, <3>1, <3>4, <4>1 DEF ApartIn
      <4>2. CASE i \in 1..n /\ k - n \in 1..m
        BY <1>2, <3>3, <4>2
      <4>3. CASE i - n \in 1..m /\ k \in 1..n
        BY <1>2, <3>3, <4>3
      <4>4. CASE i - n \in 1..m /\ k - n \in 1..m
        <5>1. i - n # k - n
          BY <1>2, <3>4
        <5> QED
          BY <1>2, <3>1, <4>4, <5>1 DEF ApartIn
      <4> QED
        BY <1>2, <4>1, <4>2, <4>3, <4>4
    <3> QED
      BY <1>2, <3>2, <3>4 DEF ApartIn
  <2>2. HeldIn(t, q)
    <3> SUFFICES ASSUME NEW j \in Jobs, t[j] \in InQueueStatus
                 PROVE  \E i \in 1..(n + m) : j \in Range(q[i].jobs)
      BY <1>2 DEF HeldIn
    <3>1. CASE j \in JobsOf(packs)
      <4>1. PICK i \in 1..m : j \in Range(packs[i].jobs)
        BY <1>4, <3>1
      <4> QED
        BY <1>2, <4>1
    <3>2. CASE j \notin JobsOf(packs)
      <4>1. s[j] \in InQueueStatus
        BY <1>8, <3>2 DEF Updates
      <4>2. PICK i \in 1..n : j \in Range(q0[i].jobs)
        BY <1>14, <4>1 DEF ChainsIn, HeldIn
      <4> QED
        BY <1>2, <4>2
    <3> QED
      BY <3>1, <3>2
  <2>3. OrderedIn(t, q)
    <3> SUFFICES ASSUME NEW i \in 1..(n + m), NEW k \in 1..Len(q[i].jobs),
                        NEW p \in Parents[q[i].jobs[k]]
                 PROVE  \/ t[p] = "COMPLETED"
                        \/ q[i].type = "vertical" /\ \E l \in 1..(k - 1) : q[i].jobs[l] = p
      BY <1>2 DEF OrderedIn
    <3>1. p \in Jobs
      BY <1>1, <1>3
    <3>2. CASE i \in 1..n
      <4>1. k \in 1..Len(q0[i].jobs) /\ p \in Parents[q0[i].jobs[k]] /\ q[i] = q0[i]
        BY <1>2, <3>2
      <4>2. \/ s[p] = "COMPLETED"
            \/ q0[i].type = "vertical" /\ \E l \in 1..(k - 1) : q0[i].jobs[l] = p
        BY <1>14, <3>2, <4>1 DEF ChainsIn, OrderedIn
      <4> QED
        BY <1>9, <3>1, <4>1, <4>2
    <3>3. CASE i - n \in 1..m
      <4>1. Right(st, q[i])
        BY <1>2, <3>3 DEF Sound
      <4>2. \/ st[p] = "COMPLETED"
            \/ q[i].type = "vertical" /\ \E l \in 1..(k - 1) : q[i].jobs[l] = p
        BY <4>1 DEF Right, RightJobs
      <4> QED
        BY <1>10, <3>1, <4>2
    <3> QED
      BY <1>2, <3>2, <3>3
  <2>4. DoneIn(t)
    <3> SUFFICES ASSUME NEW j \in Jobs, t[j] \in {"RUNNING", "COMPLETED"}
                 PROVE  ParentsCompleted(t, j)
      BY DEF DoneIn
    <3>1. st[j] = t[j]
      BY <1>6
    <3>2. s[j] = t[j]
      BY <3>1 DEF Updates, InQueueStatus
    <3> QED
      BY <1>11, <1>14, <3>2 DEF ChainsIn, DoneIn
  <2> QED
    BY <2>1, <2>2, <2>3, <2>4 DEF ChainsIn
<1> QED
  BY <1>12, <1>13, <1>14 DEF q

-----------------------------------------------------------------------------
(* The invariant.                                                          *)

\* The packages on the platform, field by field.
LEMMA PackagesTyped ==
  ASSUME NEW q \in Seq(PackageSet)
  PROVE  \A i \in DOMAIN q : /\ q[i].jobs \in Seq(Jobs) \ {<<>>}
                             /\ q[i].type \in {"simple", "vertical", "horizontal"}
<1>1. \A i \in DOMAIN q : q[i] \in PackageSet
  OBVIOUS
<1> QED
  BY <1>1 DEF PackageSet, PackageType

\* Nothing has been sent at first.
LEMMA InitIs == Init => IInv
<1> SUFFICES ASSUME Init
             PROVE  IInv
  OBVIOUS
<1>1. subs = <<>> /\ subs \in Seq(PackageSet) /\ Len(subs) = 0 /\ ~stopped
  BY DEF Init
<1>2. \A j \in Jobs : status[j] = "WAITING"
  BY DEF Init
<1>3. TypeOK
  <2>1. status \in [Jobs -> Status]
    BY DEF Init, Status, LogicalOrder
  <2> QED
    <3>1. policy \in Policies /\ stopped \in BOOLEAN
      BY DEF Init
    <3>2. fails \in [Jobs -> 0..Retrials] /\ failures \in 0..MaxFailures
      BY LimitAssumption DEF Init
    <3>3. wtype \in [Jobs -> {"none", "Simple", "vertical"}]
      BY DEF Init
    <3> QED
      BY <1>1, <2>1, <3>1, <3>2, <3>3, PackagesTyped DEF TypeOK
<1>4. ReadyDone(status)
  BY <1>2 DEF ReadyDone
<1>5. PlacedIn(status, subs)
  BY <1>1 DEF PlacedIn
<1>6. ChainsIn(status, subs)
  BY <1>1, <1>2 DEF ChainsIn, ApartIn, HeldIn, OrderedIn, DoneIn, InQueueStatus
<1> QED
  BY <1>1, <1>3, <1>4, <1>5, <1>6 DEF IInv, DeadlockIsReal

\* What update_list makes of the statuses.
LEMMA UpdatedIs ==
  ASSUME IInv
  PROVE  /\ UpdatedStatus \in [Jobs -> Status] /\ UpdatedFails \in [Jobs -> 0..Retrials]
         /\ Updates(status, UpdatedStatus) /\ Orderly(UpdatedStatus)
<1> DEFINE st == UpdatedStatus
<1>1. /\ status \in [Jobs -> Status] /\ fails \in [Jobs -> 0..Retrials] /\ Retrials \in Nat
      /\ \A j \in Jobs : Parents[j] \subseteq Jobs
  BY LimitAssumption, WorkflowAssumption DEF IInv, TypeOK
<1>2. st \in [Jobs -> Status]
  <2>1. {"READY", "WAITING"} \subseteq Status
    BY DEF Status, LogicalOrder
  <2> QED
    BY <1>1, <2>1 DEF UpdatedStatus
<1>3. UpdatedFails \in [Jobs -> 0..Retrials]
  <2>1. \A j \in Jobs : Spent(j) \in 0..Retrials
    BY <1>1 DEF Spent
  <2>2. \A j \in Retried : Spent(j) = fails[j] /\ fails[j] + 1 \in 0..Retrials
    BY <1>1, <2>1 DEF Retried, Spent
  <2> QED
    BY <2>1, <2>2 DEF UpdatedFails
<1>4. Updates(status, st)
  BY DEF Updates, UpdatedStatus, Retried, InQueueStatus
<1>5. \A j \in Jobs : st[j] = "READY" => status[j] = "READY" \/ ParentsCompleted(status, j)
  BY DEF UpdatedStatus
<1>6. \A j \in Jobs : st[j] = "COMPLETED" => status[j] = "COMPLETED"
  BY <1>4 DEF Updates
<1>7. \A j \in Jobs : status[j] = "COMPLETED" => st[j] = "COMPLETED"
  BY <1>4 DEF Updates
<1> HIDE DEF st
<1>8. \A j \in Jobs : ParentsCompleted(status, j) => ParentsCompleted(st, j)
  BY <1>1, <1>7 DEF ParentsCompleted
<1>9. Orderly(st)
  BY <1>5, <1>6, <1>8 DEF Orderly, IInv, ReadyDone, ChainsIn, DoneIn
<1> QED
  BY <1>2, <1>3, <1>4, <1>9 DEF st

\* An iteration, in terms of the packages it builds.
Adding(st, r) ==
  /\ Updates(status, st) /\ Orderly(st) /\ st \in [Jobs -> Status]
  /\ GoodRound(st, r) /\ RealErrors(st, r)
  /\ status' = [j \in Jobs |-> IF j \in JobsOf(r.packs) THEN "SUBMITTED" ELSE st[j]]
  /\ fails' \in [Jobs -> 0..Retrials]
  /\ wtype' = r.wtype /\ policy' = policy /\ failures' = failures
  /\ subs' = subs \o r.packs
  /\ stopped' = Stuck(r.errors, st, JobsOf(r.packs))

\* Every iteration is one of these.
LEMMA IterateIs ==
  ASSUME IInv, Iterate
  PROVE  \E st, r : Adding(st, r)
<1>1. PICK st \in {UpdatedStatus} : \E r \in {BuildPackages(st, UpdatedFails)} :
        /\ status' = [j \in Jobs |-> IF j \in JobsOf(r.packs) THEN "SUBMITTED" ELSE st[j]]
        /\ fails' = UpdatedFails
        /\ wtype' = r.wtype
        /\ subs' = subs \o r.packs
        /\ stopped' = Stuck(r.errors, st, JobsOf(r.packs))
        /\ UNCHANGED <<policy, failures>>
  BY DEF Iterate, JobsOf
<1>2. PICK r \in {BuildPackages(st, UpdatedFails)} :
        /\ status' = [j \in Jobs |-> IF j \in JobsOf(r.packs) THEN "SUBMITTED" ELSE st[j]]
        /\ fails' = UpdatedFails
        /\ wtype' = r.wtype
        /\ subs' = subs \o r.packs
        /\ stopped' = Stuck(r.errors, st, JobsOf(r.packs))
        /\ UNCHANGED <<policy, failures>>
  BY <1>1
<1>3. /\ Updates(status, st) /\ Orderly(st) /\ st \in [Jobs -> Status]
      /\ UpdatedFails \in [Jobs -> 0..Retrials]
  BY UpdatedIs
<1>4. PICK fs : fs = UpdatedFails
  OBVIOUS
<1>5. /\ subs \in Seq(PackageSet) /\ policy \in Policies
      /\ wtype \in [Jobs -> WrapperTypeOfJob]
  BY DEF IInv, TypeOK, WrapperTypeOfJob
<1>6. GoodRound(st, BuildPackages(st, fs)) /\ RealErrors(st, BuildPackages(st, fs))
  BY <1>3, <1>5, PackagesAreSound
<1>7. Adding(st, r)
  BY <1>2, <1>3, <1>4, <1>6 DEF Adding
<1> QED
  BY <1>7

\* No package is empty.
LEMMA NoPackages ==
  ASSUME NEW q \in Seq(PackageSet), JobsOf(q) = {}
  PROVE  q = <<>>
<1> SUFFICES ASSUME q # <<>>
             PROVE  FALSE
  OBVIOUS
<1>1. 1 \in 1..Len(q) /\ DOMAIN q = 1..Len(q) /\ q[1] \in PackageSet
  OBVIOUS
<1>2. q[1].jobs \in Seq(Jobs) /\ q[1].jobs # <<>>
  BY <1>1 DEF PackageSet
<1>3. \A a \in Seq(Jobs) : a # <<>> => a[1] \in Range(a)
  BY DEF Range
<1>4. q[1].jobs[1] \in JobsOf(q)
  BY <1>1, <1>2, <1>3 DEF JobsOf
<1> QED
  BY <1>4

\* An iteration: what update_list changes, then the packages that are added.
LEMMA IterateKeeps ==
  ASSUME IInv, Iterate
  PROVE  IInv'
<1>1. PICK st, r : Adding(st, r)
  BY IterateIs
<1>2. /\ r.packs \in Seq(PackageSet) /\ r.wtype \in [Jobs -> WrapperTypeOfJob]
      /\ Sound(st, r.packs)
  BY <1>1, RoundIs DEF Adding, GoodRound
<1>3. subs \in Seq(PackageSet) /\ PlacedIn(status, subs)
  BY DEF IInv
<1>4. PICK s, t, q0, packs : s = status /\ t = status' /\ q0 = subs /\ packs = r.packs
  OBVIOUS
<1>5. /\ ReadyDone(t) /\ PlacedIn(t, q0 \o packs)
      /\ Chained /\ ChainsIn(s, q0) => ChainsIn(t, q0 \o packs)
  <2>1. /\ q0 \in Seq(PackageSet) /\ packs \in Seq(PackageSet) /\ Updates(s, st)
        /\ Orderly(st) /\ Sound(st, packs) /\ PlacedIn(s, q0)
        /\ t = [j \in Jobs |-> IF j \in JobsOf(packs) THEN "SUBMITTED" ELSE st[j]]
    BY <1>1, <1>2, <1>3, <1>4 DEF Adding
  <2> QED
    BY <2>1, AddKeeps
<1>6. subs' = q0 \o packs /\ subs' \in Seq(PackageSet)
  <2>1. q0 \o packs \in Seq(PackageSet)
    BY <1>2, <1>3, <1>4, ConcatIs
  <2> QED
    BY <1>1, <1>4, <2>1 DEF Adding
<1>7. ReadyDone(status)' /\ PlacedIn(status, subs)' /\ (Chained => ChainsIn(status, subs))'
  BY <1>4, <1>5, <1>6 DEF IInv
<1>8. TypeOK'
  <2>1. status' \in [Jobs -> Status]
    <3>1. "SUBMITTED" \in Status
      BY DEF Status, LogicalOrder
    <3> QED
      BY <1>1, <3>1 DEF Adding
  <2>2. \A i \in DOMAIN subs' : /\ subs'[i].jobs \in Seq(Jobs) \ {<<>>}
                                /\ subs'[i].type \in {"simple", "vertical", "horizontal"}
    BY <1>6, PackagesTyped
  <2>3. stopped' \in BOOLEAN
    BY <1>1 DEF Adding, Stuck
  <2>4. policy' \in Policies /\ failures' \in 0..MaxFailures
    BY <1>1 DEF Adding, IInv, TypeOK
  <2> QED
    BY <1>1, <1>2, <2>1, <2>2, <2>3, <2>4 DEF TypeOK, Adding, WrapperTypeOfJob
<1>9. DeadlockIsReal'
  <2> SUFFICES ASSUME stopped'
               PROVE  policy' # "flexible" /\ subs' = <<>> /\ ReadyOf(status', "SIMPLE") = <<>>
    BY DEF DeadlockIsReal
  <2>1. /\ r.errors # {} /\ JobsOf(r.packs) = {}
        /\ \A j \in Jobs : st[j] \notin InQueueStatus
    BY <1>1 DEF Adding, Stuck
  <2>2. r.packs = <<>>
    BY <1>2, <2>1, NoPackages
  <2>3. JobsOf(subs) = {}
    <3>1. \A i \in 1..Len(subs) : \A j \in Range(subs[i].jobs) : j \in Jobs /\ FALSE
      <4> SUFFICES ASSUME NEW i \in 1..Len(subs), NEW j \in Range(subs[i].jobs)
                   PROVE  FALSE
        OBVIOUS
      <4>1. status[j] \in InQueueStatus
        BY <1>3 DEF PlacedIn
      <4>2. subs[i] \in PackageSet
        BY <1>3
      <4>3. subs[i].jobs \in Seq(Jobs)
        BY <4>2 DEF PackageSet
      <4>4. j \in Jobs
        BY <4>3, RangeIs
      <4> QED
        BY <1>1, <2>1, <4>1, <4>4 DEF Adding, Updates
    <3>2. DOMAIN subs = 1..Len(subs)
      BY <1>3
    <3> QED
      BY <3>1, <3>2 DEF JobsOf
  <2>4. subs = <<>>
    BY <1>3, <2>3, NoPackages
  <2>5. subs' = <<>>
    BY <1>1, <2>2, <2>4 DEF Adding
  <2>6. status' = st
    BY <1>1, <2>1 DEF Adding
  <2> QED
    BY <1>1, <2>1, <2>5, <2>6 DEF Adding, RealErrors
<1> QED
  BY <1>6, <1>7, <1>8, <1>9 DEF IInv

\* What the platform does to the packages it has, with the statuses of their jobs.
LEMMA MoveInv ==
  ASSUME IInv, ~stopped, UNCHANGED <<policy, fails, wtype, subs, stopped, failures>>,
         status' \in [Jobs -> Status],
         \A j \in Jobs : \/ status'[j] = status[j]
                         \/ status[j] \in InQueueStatus /\ status'[j] \in InQueueStatus,
         Chained => \A j \in Jobs : status'[j] = "RUNNING" =>
                      status[j] = "RUNNING" \/ ParentsCompleted(status, j)
  PROVE  IInv'
<1>1. PICK s, t, q : s = status /\ t = status' /\ q = subs
  OBVIOUS
<1>2. /\ q \in Seq(PackageSet) /\ ReadyDone(s) /\ PlacedIn(s, q)
      /\ \A j \in Jobs : t[j] = s[j] \/ (s[j] \in InQueueStatus /\ t[j] \in InQueueStatus)
      /\ Chained => ChainsIn(s, q)
      /\ Chained => \A j \in Jobs : t[j] = "RUNNING" => s[j] = "RUNNING" \/ ParentsCompleted(s, j)
  BY <1>1 DEF IInv
<1>3. ReadyDone(t) /\ PlacedIn(t, q) /\ (Chained => ChainsIn(t, q))
  BY <1>2, MoveKeeps
<1>4. ReadyDone(status)' /\ PlacedIn(status, subs)' /\ (Chained => ChainsIn(status, subs))'
  BY <1>1, <1>3
<1>5. TypeOK' /\ (subs \in Seq(PackageSet))' /\ DeadlockIsReal'
  BY DEF IInv, TypeOK, DeadlockIsReal
<1> QED
  BY <1>4, <1>5 DEF IInv

\* What the platform does when jobs leave it.
LEMMA LeaveInv ==
  ASSUME IInv, ~stopped, UNCHANGED <<policy, wtype, stopped>>,
         failures' \in 0..MaxFailures, fails' \in [Jobs -> 0..Retrials],
         NEW S \in SUBSET Jobs, subs' = Without(S),
         status' \in [Jobs -> Status], Left(status, status', S),
         Chained => Whole(status, status', subs, S)
  PROVE  IInv'
<1>1. PICK s, t, q0, q : s = status /\ t = status' /\ q0 = subs /\ q = subs'
  OBVIOUS
<1>2. PICK h : Leaves(q0, S, q, h)
  BY <1>1, WithoutIs DEF IInv
<1>3. /\ q0 \in Seq(PackageSet) /\ ReadyDone(s) /\ PlacedIn(s, q0) /\ Left(s, t, S)
      /\ Chained => ChainsIn(s, q0) /\ Whole(s, t, q0, S)
  BY <1>1 DEF IInv
<1>4. ReadyDone(t) /\ PlacedIn(t, q) /\ (Chained => ChainsIn(t, q))
  BY <1>2, <1>3, LeaveKeeps
<1>5. ReadyDone(status)' /\ PlacedIn(status, subs)' /\ (Chained => ChainsIn(status, subs))'
  BY <1>1, <1>4
<1>6. subs' \in Seq(PackageSet)
  BY <1>1, <1>2 DEF Leaves
<1>7. TypeOK'
  <2>1. \A i \in DOMAIN subs' : /\ subs'[i].jobs \in Seq(Jobs) \ {<<>>}
                                /\ subs'[i].type \in {"simple", "vertical", "horizontal"}
    BY <1>6, PackagesTyped
  <2> QED
    BY <2>1 DEF IInv, TypeOK
<1>8. DeadlockIsReal'
  BY DEF DeadlockIsReal
<1> QED
  BY <1>5, <1>6, <1>7, <1>8 DEF IInv

\* What starts has its parents COMPLETED.
LEMMA MayStart ==
  ASSUME Chained, IInv, NEW i \in 1..Len(subs), NEW k \in 1..Len(subs[i].jobs),
         subs[i].type = "vertical" => k = 1
  PROVE  ParentsCompleted(status, subs[i].jobs[k])
<1>1. OrderedIn(status, subs)
  BY DEF IInv, ChainsIn
<1>2. \A l \in 1..(k - 1) : k # 1
  OBVIOUS
<1> QED
  BY <1>1, <1>2 DEF OrderedIn, ParentsCompleted

\* The jobs of a package on the platform.
LEMMA OnIt ==
  ASSUME IInv, NEW i \in DOMAIN subs
  PROVE  /\ i \in 1..Len(subs) /\ subs[i].jobs \in Seq(Jobs) /\ subs[i].jobs # <<>>
         /\ Range(subs[i].jobs) \subseteq Jobs
         /\ \A j \in Range(subs[i].jobs) :
              /\ status[j] \in InQueueStatus
              /\ \E k \in 1..Len(subs[i].jobs) : j = subs[i].jobs[k]
<1>1. i \in 1..Len(subs) /\ subs[i] \in PackageSet /\ PlacedIn(status, subs)
  BY DEF IInv
<1>2. PICK jobs : jobs = subs[i].jobs
  OBVIOUS
<1>3. jobs \in Seq(Jobs) /\ jobs # <<>>
  BY <1>1, <1>2 DEF PackageSet
<1>4. Range(jobs) \subseteq Jobs /\ \A j \in Range(jobs) : \E k \in 1..Len(jobs) : j = jobs[k]
  BY <1>3, RangeIs
<1> QED
  BY <1>1, <1>2, <1>3, <1>4 DEF PlacedIn

\* A package is queued, or a job alone starts.
LEMMA PackageKeeps ==
  ASSUME IInv, NEW i \in DOMAIN subs, NEW from, NEW to \in {"QUEUING", "RUNNING"},
         to = "RUNNING" => subs[i].type = "simple", Package(i, from, to)
  PROVE  IInv'
<1>1. /\ ~stopped /\ UNCHANGED <<policy, fails, wtype, subs, stopped, failures>>
      /\ status' = [j \in Jobs |-> IF j \in Range(subs[i].jobs) THEN to ELSE status[j]]
  BY DEF Package
<1>2. to \in Status /\ to \in InQueueStatus
  BY DEF Status, LogicalOrder, InQueueStatus
<1>3. status \in [Jobs -> Status]
  BY DEF IInv, TypeOK
<1>4. status' \in [Jobs -> Status]
  BY <1>1, <1>2, <1>3
<1>5. \A j \in Jobs : \/ status'[j] = status[j]
                      \/ status[j] \in InQueueStatus /\ status'[j] \in InQueueStatus
  BY <1>1, <1>2, OnIt
<1>6. ASSUME Chained, NEW j \in Jobs, status'[j] = "RUNNING", status[j] # "RUNNING"
      PROVE  ParentsCompleted(status, j)
  <2>1. j \in Range(subs[i].jobs) /\ to = "RUNNING"
    BY <1>1, <1>6
  <2>2. PICK k \in 1..Len(subs[i].jobs) : j = subs[i].jobs[k]
    BY <2>1, OnIt
  <2> QED
    BY <1>6, <2>1, <2>2, OnIt, MayStart
<1> QED
  BY <1>1, <1>4, <1>5, <1>6, MoveInv

\* A job inside a wrapper starts: in a vertical one, after those before it.
LEMMA InnerStartsKeeps ==
  ASSUME IInv, NEW i \in DOMAIN subs, InnerStarts(i)
  PROVE  IInv'
<1> DEFINE p == subs[i]
           inner == Range(p.jobs)
<1>1. PICK j \in IF p.type = "vertical" THEN {p.jobs[1]} ELSE inner :
        /\ status[j] \in {"SUBMITTED", "QUEUING"}
        /\ status' = [k \in Jobs |-> IF k = j THEN "RUNNING"
                                     ELSE IF k \in inner /\ status[k] = "SUBMITTED"
                                          THEN "QUEUING" ELSE status[k]]
  BY DEF InnerStarts
<1>2. ~stopped /\ UNCHANGED <<policy, fails, wtype, subs, stopped, failures>>
  BY DEF InnerStarts
<1>3. {"RUNNING", "QUEUING"} \subseteq Status /\ {"RUNNING", "QUEUING", "SUBMITTED"} \subseteq InQueueStatus
  BY DEF Status, LogicalOrder, InQueueStatus
<1>4. status \in [Jobs -> Status]
  BY DEF IInv, TypeOK
<1>5. status' \in [Jobs -> Status]
  BY <1>1, <1>3, <1>4
<1>6. \A k \in Jobs : \/ status'[k] = status[k]
                      \/ status[k] \in InQueueStatus /\ status'[k] \in InQueueStatus
  BY <1>1, <1>3
<1>7. ASSUME Chained, NEW x \in Jobs, status'[x] = "RUNNING", status[x] # "RUNNING"
      PROVE  ParentsCompleted(status, x)
  <2>1. x = j
    BY <1>1, <1>7
  <2>2. \E k \in 1..Len(subs[i].jobs) : j = subs[i].jobs[k] /\ (subs[i].type = "vertical" => k = 1)
    <3>1. CASE p.type = "vertical"
      <4>1. 1 \in 1..Len(subs[i].jobs)
        BY OnIt
      <4> QED
        BY <1>1, <3>1, <4>1
    <3>2. CASE p.type # "vertical"
      BY <1>1, <3>2, OnIt
    <3> QED
      BY <3>1, <3>2
  <2> QED
    BY <1>7, <2>1, <2>2, OnIt, MayStart
<1> QED
  BY <1>2, <1>5, <1>6, <1>7, MoveInv

\* A job completes.
LEMMA CompletesKeeps ==
  ASSUME IInv, NEW j \in Jobs, Completes(j)
  PROVE  IInv'
<1>1. /\ ~stopped /\ status[j] = "RUNNING" /\ status' = [status EXCEPT ![j] = "COMPLETED"]
      /\ subs' = Without({j}) /\ UNCHANGED <<policy, fails, wtype, stopped, failures>>
  BY DEF Completes
<1>2. /\ status \in [Jobs -> Status] /\ failures \in 0..MaxFailures
      /\ fails \in [Jobs -> 0..Retrials]
  BY DEF IInv, TypeOK
<1>3. "COMPLETED" \in Status
  BY DEF Status, LogicalOrder
<1>4. status' \in [Jobs -> Status]
  BY <1>1, <1>2, <1>3
<1>5. Left(status, status', {j})
  BY <1>1, <1>2 DEF Left, InQueueStatus
<1>6. Whole(status, status', subs, {j})
  BY <1>1, <1>2 DEF Whole
<1> QED
  BY <1>1, <1>2, <1>4, <1>5, <1>6, LeaveInv

\* A job fails, and with it what is left of its vertical package.
LEMMA FailsKeeps ==
  ASSUME IInv, NEW i \in DOMAIN subs, Fails(i)
  PROVE  IInv'
<1>1. PICK j \in Range(subs[i].jobs) :
        LET gone == IF subs[i].type = "vertical" THEN Range(subs[i].jobs) ELSE {j}
        IN /\ status[j] = "RUNNING"
           /\ status' = [k \in Jobs |-> IF k = j THEN "FAILED"
                                        ELSE IF k \in gone /\ status[k] # "COMPLETED"
                                             THEN "WAITING" ELSE status[k]]
           /\ fails' = [fails EXCEPT ![j] = IF subs[i].type = "vertical"
                                               /\ wtype[j] = "vertical"
                                            THEN Retrials ELSE @]
           /\ subs' = Without(gone)
  BY DEF Fails
<1>2. /\ ~stopped /\ UNCHANGED <<policy, wtype, stopped>>
      /\ failures < MaxFailures /\ failures' = failures + 1
  BY DEF Fails
<1> DEFINE gone == IF subs[i].type = "vertical" THEN Range(subs[i].jobs) ELSE {j}
<1>3. /\ j \in gone /\ gone \subseteq Jobs
      /\ \A k \in gone : k \in Range(subs[i].jobs) /\ status[k] \in InQueueStatus
  BY OnIt
<1>4. /\ status' = [k \in Jobs |-> IF k = j THEN "FAILED"
                                   ELSE IF k \in gone /\ status[k] # "COMPLETED"
                                        THEN "WAITING" ELSE status[k]]
      /\ subs' = Without(gone)
  BY <1>1
<1>5. subs[i].type = "vertical" => Range(subs[i].jobs) \subseteq gone
  OBVIOUS
<1>6. subs[i].type # "vertical" => gone = {j}
  OBVIOUS
<1>7. /\ status \in [Jobs -> Status] /\ failures \in 0..MaxFailures /\ MaxFailures \in Nat
      /\ fails \in [Jobs -> 0..Retrials] /\ Retrials \in Nat
  BY LimitAssumption DEF IInv, TypeOK
<1>8. fails' \in [Jobs -> 0..Retrials]
  <2>1. PICK f \in {Retrials, fails[j]} : fails' = [fails EXCEPT ![j] = f]
    BY <1>1
  <2>2. f \in 0..Retrials
    BY <1>3, <1>7
  <2> QED
    BY <1>7, <2>1, <2>2
<1>9. failures' \in 0..MaxFailures
  BY <1>2, <1>7
<1> HIDE DEF gone
<1>10. status' \in [Jobs -> Status]
  <2>1. {"FAILED", "WAITING"} \subseteq Status
    BY DEF Status, LogicalOrder
  <2> QED
    BY <1>4, <1>7, <2>1
<1>11. Left(status, status', gone)
  BY <1>3, <1>4 DEF Left, InQueueStatus
<1>12. ASSUME Chained
       PROVE  Whole(status, status', subs, gone)
  <2>1. ApartIn(subs)
    BY <1>12 DEF IInv, ChainsIn
  <2>2. \A k \in gone : status'[k] # "COMPLETED"
    BY <1>3, <1>4 DEF InQueueStatus
  <2>3. ASSUME NEW k \in gone, NEW m \in 1..Len(subs), subs[m].type = "vertical",
               k \in Range(subs[m].jobs)
        PROVE  Range(subs[m].jobs) \subseteq gone
    <3>1. i \in 1..Len(subs)
      BY OnIt
    <3>2. m = i
      BY <1>3, <2>1, <2>3, <3>1 DEF ApartIn
    <3> QED
      BY <1>5, <2>3, <3>2
  <2> QED
    BY <2>2, <2>3 DEF Whole
<1> QED
  BY <1>2, <1>3, <1>4, <1>8, <1>9, <1>10, <1>11, <1>12, LeaveInv

\* Every step keeps the invariant.
LEMMA NextKeeps == IInv /\ [Next]_vars => IInv'
<1> SUFFICES ASSUME IInv, [Next]_vars
             PROVE  IInv'
  OBVIOUS
<1>1. CASE Iterate
  BY <1>1, IterateKeeps
<1>2. ASSUME NEW i \in DOMAIN subs, Queues(i)
      PROVE  IInv'
  <2>1. Package(i, {"SUBMITTED"}, "QUEUING")
    BY <1>2 DEF Queues
  <2> QED
    BY <2>1, PackageKeeps
<1>3. ASSUME NEW i \in DOMAIN subs, SimpleStarts(i)
      PROVE  IInv'
  <2>1. subs[i].type = "simple" /\ Package(i, {"SUBMITTED", "QUEUING"}, "RUNNING")
    BY <1>3 DEF SimpleStarts
  <2> QED
    BY <2>1, PackageKeeps
<1>4. ASSUME NEW i \in DOMAIN subs, InnerStarts(i)
      PROVE  IInv'
  BY <1>4, InnerStartsKeeps
<1>5. ASSUME NEW i \in DOMAIN subs, Fails(i)
      PROVE  IInv'
  BY <1>5, FailsKeeps
<1>6. ASSUME NEW j \in Jobs, Completes(j)
      PROVE  IInv'
  BY <1>6, CompletesKeeps
<1>7. CASE UNCHANGED vars
  <2>1. UNCHANGED <<policy, status, fails, wtype, subs, stopped, failures>>
    BY <1>7 DEF vars
  <2> QED
    BY <2>1 DEF IInv, TypeOK, DeadlockIsReal
<1> QED
  BY <1>1, <1>2, <1>3, <1>4, <1>5, <1>6, <1>7 DEF Next, Platform, Terminated

-----------------------------------------------------------------------------
(* The theorems.                                                           *)

\* The invariant holds in every state.
LEMMA Invariance == Spec => []IInv
<1>1. Init => IInv
  BY InitIs
<1>2. IInv /\ [Next]_vars => IInv'
  BY NextKeeps
<1> QED
  BY <1>1, <1>2, PTL DEF Spec

\* Every field keeps the values the code can give it: no job is retried more
\* often than RETRIALS.
THEOREM Types == Spec => []TypeOK
<1>1. IInv => TypeOK
  BY DEF IInv
<1> QED
  BY <1>1, Invariance, PTL

\* check_deadlock stops a run only with an empty platform and nothing READY
\* outside wrappers, and never under the flexible policy.
THEOREM RealDeadlocks == Spec => []DeadlockIsReal
<1>1. IInv => DeadlockIsReal
  BY DEF IInv
<1> QED
  BY <1>1, Invariance, PTL

\* What InOrder says of a step.
SentInOrder ==
  \A i \in DOMAIN Sent : \A k \in DOMAIN Sent[i].jobs :
    LET j == Sent[i].jobs[k]
    IN /\ status[j] \notin InQueueStatus \cup {"COMPLETED"}
       /\ \A p \in Parents[j] :
            \/ status[p] = "COMPLETED"
            \/ /\ Sent[i].type = "vertical"
               /\ \E l \in 1..(k - 1) : Sent[i].jobs[l] = p

\* What follows the packages that were there.
LEMMA RestIs ==
  ASSUME NEW T, NEW a \in Seq(T), NEW b \in Seq(T)
  PROVE  SubSeq(a \o b, Len(a) + 1, Len(a \o b)) = b
OBVIOUS

\* No package is added where there are no more than before.
LEMMA NothingSent ==
  ASSUME subs \in Seq(PackageSet), subs' \in Seq(PackageSet), Len(subs') <= Len(subs)
  PROVE  SentInOrder
<1>1. \A i \in DOMAIN Sent : FALSE
  BY DEF Sent
<1> QED
  BY <1>1 DEF SentInOrder

\* An iteration adds packages that are sound, of jobs that were not on the
\* platform.
LEMMA AddedInOrder ==
  ASSUME IInv, Iterate
  PROVE  SentInOrder
<1>1. PICK st, r : Adding(st, r)
  BY IterateIs
<1>2. PICK packs : packs = r.packs
  OBVIOUS
<1>3. packs \in Seq(PackageSet) /\ Sound(st, packs) /\ subs \in Seq(PackageSet)
  BY <1>1, <1>2, RoundIs DEF Adding, GoodRound, IInv
<1>4. Sent = packs
  BY <1>1, <1>2, <1>3, RestIs DEF Sent, Adding
<1>5. ASSUME NEW i \in DOMAIN packs, NEW k \in DOMAIN packs[i].jobs
      PROVE  LET j == packs[i].jobs[k]
             IN /\ status[j] \notin InQueueStatus \cup {"COMPLETED"}
                /\ \A p \in Parents[j] :
                     \/ status[p] = "COMPLETED"
                     \/ /\ packs[i].type = "vertical"
                        /\ \E l \in 1..(k - 1) : packs[i].jobs[l] = p
  <2> DEFINE j == packs[i].jobs[k]
  <2>1. i \in 1..Len(packs) /\ packs[i] \in PackageSet
    BY <1>3
  <2>2. packs[i].jobs \in Seq(Jobs)
    BY <2>1 DEF PackageSet
  <2>3. k \in 1..Len(packs[i].jobs) /\ j \in Jobs /\ Parents[j] \subseteq Jobs
    <3>1. PICK jobs : jobs = packs[i].jobs
      OBVIOUS
    <3>2. k \in 1..Len(jobs) /\ jobs[k] \in Jobs
      BY <2>2, <3>1
    <3>3. \A x \in Jobs : Parents[x] \subseteq Jobs
      BY WorkflowAssumption
    <3> QED
      BY <3>1, <3>2, <3>3
  <2>4. Right(st, packs[i])
    BY <1>3, <2>1 DEF Sound
  <2>5. /\ st[j] \in Startable
        /\ \A p \in Parents[j] :
             \/ st[p] = "COMPLETED"
             \/ packs[i].type = "vertical" /\ \E l \in 1..(k - 1) : packs[i].jobs[l] = p
    BY <2>3, <2>4 DEF Right, RightJobs
  <2>6. Updates(status, st)
    BY <1>1 DEF Adding
  <2>7. status[j] \notin InQueueStatus \cup {"COMPLETED"}
    BY <2>3, <2>5, <2>6 DEF Updates, Startable, InQueueStatus
  <2>8. \A p \in Parents[j] : st[p] = "COMPLETED" => status[p] = "COMPLETED"
    BY <2>3, <2>6 DEF Updates
  <2> QED
    BY <2>5, <2>7, <2>8
<1> QED
  BY <1>4, <1>5 DEF SentInOrder

\* A job is sent only when each of its parents is COMPLETED or comes before it
\* in the same vertical package, and never when it is in the queue or COMPLETED:
\* whatever the workflow, its wrappers and their policy.
THEOREM InOrderHolds == Spec => InOrder
<1>1. IInv /\ IInv' /\ [Next]_vars => [SentInOrder]_vars
  <2> SUFFICES ASSUME IInv, IInv', Next
               PROVE  SentInOrder
    BY DEF vars
  <2>1. subs \in Seq(PackageSet) /\ subs' \in Seq(PackageSet)
    BY DEF IInv
  <2>2. ASSUME NEW S, subs' = Without(S)
        PROVE  Len(subs') <= Len(subs)
    <3>1. PICK q0, q : q0 = subs /\ q = subs'
      OBVIOUS
    <3>2. q0 \in Seq(PackageSet) /\ \E h : Leaves(q0, S, q, h)
      BY <2>1, <2>2, <3>1, WithoutIs
    <3>3. Len(q) <= Len(q0)
      BY <3>2, LeavesFewer
    <3> QED
      BY <3>1, <3>3
  <2>3. CASE Iterate
    BY <2>3, AddedInOrder
  <2>4. CASE Platform \/ Terminated
    <3>1. subs' = subs \/ \E S : subs' = Without(S)
      <4>1. CASE Terminated
        BY <4>1 DEF Terminated, vars
      <4>2. ASSUME NEW i \in DOMAIN subs, Queues(i) \/ SimpleStarts(i) \/ InnerStarts(i)
            PROVE  subs' = subs
        BY <4>2 DEF Queues, SimpleStarts, InnerStarts, Package
      <4>3. ASSUME NEW i \in DOMAIN subs, Fails(i)
            PROVE  \E S : subs' = Without(S)
        BY <4>3 DEF Fails
      <4>4. ASSUME NEW j \in Jobs, Completes(j)
            PROVE  \E S : subs' = Without(S)
        BY <4>4 DEF Completes
      <4> QED
        BY <2>4, <4>1, <4>2, <4>3, <4>4 DEF Platform
    <3>2. Len(subs') <= Len(subs)
      BY <2>1, <2>2, <3>1
    <3> QED
      BY <2>1, <3>2, NothingSent
  <2> QED
    BY <2>3, <2>4 DEF Next
<1> QED
  BY <1>1, Invariance, PTL DEF Spec, InOrder, SentInOrder

\* Where the jobs of a member in a vertical wrapper follow each other, no job is
\* ever packed twice: what is in the queue is in one package, once.
THEOREM PackedOnce ==
  ASSUME Chained
  PROVE  Spec => []OncePerJob
<1>1. IInv => OncePerJob
  <2> SUFFICES ASSUME IInv
               PROVE  OncePerJob
    OBVIOUS
  <2>1. /\ subs \in Seq(PackageSet) /\ DOMAIN subs = 1..Len(subs)
        /\ ApartIn(subs) /\ HeldIn(status, subs) /\ PlacedIn(status, subs)
    BY DEF IInv, ChainsIn
  <2>2. ASSUME NEW j \in Jobs
        PROVE  Cardinality(OnPlatform(j)) = IF status[j] \in InQueueStatus THEN 1 ELSE 0
    <3>1. CASE status[j] \in InQueueStatus
      <4>1. PICK i \in 1..Len(subs) : j \in Range(subs[i].jobs)
        BY <2>1, <3>1 DEF HeldIn
      <4>2. OnPlatform(j) = {i}
        BY <2>1, <4>1 DEF OnPlatform, ApartIn
      <4> QED
        BY <3>1, <4>2, FS_Singleton
    <3>2. CASE status[j] \notin InQueueStatus
      <4>1. OnPlatform(j) = {}
        BY <2>1, <3>2 DEF OnPlatform, PlacedIn
      <4> QED
        BY <3>2, <4>1, FS_EmptySet
    <3> QED
      BY <3>1, <3>2
  <2>3. \A i \in DOMAIN subs : IsInjective(subs[i].jobs)
    BY <2>1 DEF ApartIn
  <2> QED
    BY <2>2, <2>3 DEF OncePerJob
<1> QED
  BY <1>1, Invariance, PTL
=============================================================================
