-------------------------- MODULE DictionaryProofs --------------------------
(***************************************************************************)
(* Proofs about the dictionary tables for any dumps, drops, word lists,    *)
(* reports and gold data.  The invariant is Inv of module Dictionary: what *)
(* a recorded import promises follows from what its transactions leave     *)
(* behind (KaikkiIsFresh, PassesStand), which rests on where the glosses   *)
(* of weaker rows come from (GlossesFromDumps).                            *)
(*                                                                         *)
(* Some steps run over a sequence with FoldLeft.  What such a run does is  *)
(* shown by induction, in a form the provers can use: the library's        *)
(* induction theorems take a predicate, InductionOnSet below takes a set.  *)
(***************************************************************************)
EXTENDS Dictionary, FiniteSetTheorems, WellFoundedInduction, TLAPS

(* The tables of TypeOK, one by one. *)
LemmaRowsOK ==
    /\ DOMAIN lemmaRow = Senses
    /\ \A s \in Senses : /\ DOMAIN lemmaRow[s] = {"src", "prio", "gloss"}
                         /\ lemmaRow[s].src \in Sources /\ lemmaRow[s].prio \in Int

FormRowsOK ==
    /\ DOMAIN formRow = Words
    /\ \A f \in Words :
        /\ DOMAIN formRow[f] = Senses
        /\ \A s \in Senses : /\ DOMAIN formRow[f][s] = {"src", "prio", "feats"}
                             /\ formRow[f][s].src \in Sources \ {"custom"}
                             /\ formRow[f][s].prio \in Int

(* The two halves of RowsRanked. *)
LemmasRanked ==
    \A s \in Senses : lemmaRow[s].src \in {"custom", "custom_overrides"} =>
                          lemmaRow[s].prio = Priority[lemmaRow[s].src]

FormsRanked ==
    \A f \in Words, s \in Senses :
        IF formRow[f][s].src = "custom_overrides" THEN formRow[f][s].prio = Override
        ELSE formRow[f][s].prio < Override

TransOK ==
    /\ DOMAIN trans = Translated /\ DOMAIN trans["ekilex"] = Senses
    /\ trans["kaikki"] \in [Senses -> Seq(Glosses)]
    /\ paradigm \in [Senses -> Seq(Classes)]

JobOK ==
    /\ job \in {Idle} \cup KaikkiJobs \cup BackfillJobs \cup SmokeJobs \cup EkilexJobs
    /\ job.tool = "kaikki" => job.done <= Len(job.dump)

LoopOK ==
    /\ DOMAIN report = Reports
    /\ \A r \in Reports : /\ report[r].sense \in Senses \cup {NoSense}
                          /\ report[r].status \in Statuses
    /\ DOMAIN candidate = Words \X Senses
    /\ export \cup exported \subseteq Words \X Senses

CountsOK ==
    /\ answer \in [Words -> Senses \cup {NoSense}]
    /\ runs \in 0..MaxRuns /\ reviews \in 0..MaxReviews /\ exports \in 0..MaxExports
    /\ lang \in {"FI", "ET"}

(* TypeOK says no more and no less. *)
LEMMA TypeParts ==
    TypeOK <=> LemmaRowsOK /\ FormRowsOK /\ TransOK /\ JobOK /\ LoopOK /\ CountsOK
  BY DEF TypeOK, LemmaRowsOK, FormRowsOK, TransOK, JobOK, LoopOK, CountsOK

(* The ranks that no flag sets. *)
LEMMA Ranks ==
    /\ Priority["public"] = 0 /\ Priority["kotus"] = 10 /\ Priority["ekilex"] = 20
    /\ Priority["custom"] = 100 /\ Priority["custom_overrides"] = 1000 /\ Override = 1000
  BY DEF Priority, Override

-----------------------------------------------------------------------------
(* Runs over sequences.                                                     *)

(* A set of naturals has a least element. *)
LEMMA LeastOf ==
    ASSUME NEW T \in SUBSET Nat, T # {}
    PROVE  \E x \in T : \A y \in T : x <= y
  <1> DEFINE less == {p \in Nat \X Nat : p[1] < p[2]}
  <1>1. less = OpToRel(<, Nat)
    BY DEF OpToRel
  <1>2. IsWellFoundedOn(less, Nat)
    BY <1>1, NatLessThanWellFounded, Zenon
  <1>3. \A a, b \in Nat : a < b => <<a, b>> \in less
    OBVIOUS
  <1> HIDE DEF less
  <1>4. PICK x \in T : \A y \in T : <<y, x>> \notin less
    BY <1>2, WFMin, Zenon
  <1>5. ASSUME NEW y \in T PROVE x <= y
    <2>1. x \in Nat /\ y \in Nat /\ ~(y < x)
      BY <1>3, <1>4
    <2> QED
      BY <2>1
  <1> QED
    BY <1>5

(* Induction on the naturals, stated for sets. *)
LEMMA InductionOnSet ==
    ASSUME NEW T, 0 \in T, \A n \in Nat : n \in T => n + 1 \in T
    PROVE  Nat \subseteq T
  <1> DEFINE rest == Nat \ T
  <1>1. SUFFICES ASSUME rest # {} PROVE FALSE
    OBVIOUS
  <1>2. PICK n \in rest : \A m \in rest : n <= m
    BY <1>1, LeastOf
  <1>3. n # 0 /\ n - 1 \in Nat /\ n - 1 \notin rest
    BY <1>2
  <1>4. n = (n - 1) + 1
    BY <1>2
  <1> QED
    BY <1>2, <1>3, <1>4

(* What holds at the start and survives each step holds at the end. *)
LEMMA RunStays ==
    ASSUME NEW n \in Nat, NEW g, NEW T, g[0] \in T[0],
           \A k \in 1..n : g[k - 1] \in T[k - 1] => g[k] \in T[k]
    PROVE  g[n] \in T[n]
  <1> DEFINE R == {k \in Nat : k <= n => g[k] \in T[k]}
  <1>1. 0 \in R
    OBVIOUS
  <1>2. ASSUME NEW k \in Nat, k \in R PROVE k + 1 \in R
    <2>1. SUFFICES ASSUME k + 1 <= n PROVE g[k + 1] \in T[k + 1]
      OBVIOUS
    <2>2. g[k] \in T[k]
      BY <1>2, <2>1
    <2>3. k + 1 \in 1..n /\ (k + 1) - 1 = k
      BY <2>1
    <2> QED
      BY <2>2, <2>3
  <1> HIDE DEF R
  <1>3. n \in R
    BY <1>1, <1>2, InductionOnSet
  <1> QED
    BY <1>3 DEF R

(* Max is a greatest element, of a set of numbers up to some n. *)
LEMMA MaxIsGreatest ==
    ASSUME NEW n \in Nat, NEW s \in SUBSET (1..n), s # {}
    PROVE  Max(s) \in s /\ \A y \in s : Max(s) >= y
  <1> DEFINE T == {n - x : x \in s}
  <1>1. T \in SUBSET Nat /\ T # {}
    <2>1. \A x \in s : x \in Nat /\ n - x \in Nat
      OBVIOUS
    <2>2. PICK x : x \in s
      OBVIOUS
    <2>3. n - x \in T
      BY <2>2
    <2> QED
      BY <2>1, <2>3
  <1>2. PICK z \in T : \A y \in T : z <= y
    BY <1>1, LeastOf
  <1>3. PICK x \in s : z = n - x
    OBVIOUS
  <1>4. ASSUME NEW y \in s PROVE x >= y
    <2>1. n - x <= n - y
      BY <1>2, <1>3
    <2> QED
      BY <2>1
  <1> QED
    BY <1>4, Zenon DEF Max

(* The greatest of the first numbers. *)
LEMMA MaxOfFirst ==
    ASSUME NEW k \in Nat
    PROVE  Max(1..(k + 1)) = k + 1 /\ (1..(k + 1)) \ {Max(1..(k + 1))} = 1..k
  <1>1. \A x \in 1..(k + 1) : (\A y \in 1..(k + 1) : x >= y) => x = k + 1
    OBVIOUS
  <1>2. k + 1 \in 1..(k + 1) /\ \A y \in 1..(k + 1) : k + 1 >= y
    OBVIOUS
  <1>3. Max(1..(k + 1)) = k + 1
    BY <1>1, <1>2, Zenon DEF Max
  <1> QED
    BY <1>3

(* The recursion of a fold over a sequence of length n, as a function on   *)
(* the sets of positions.                                                  *)
IsRun(h, n, D, base, F) ==
    /\ h \in [SUBSET (1..n) -> D]
    /\ \A s \in SUBSET (1..n) :
           h[s] = IF s = {} THEN base ELSE F[<<h[s \ {Max(s)}], Max(s)>>]

(* The recursion of a fold over a sequence of length n has a solution: the *)
(* sets of at most m positions have one, for every m.                      *)
LEMMA SomeRun ==
    ASSUME NEW n \in Nat, NEW D, NEW base \in D, NEW F \in [D \X (1..n) -> D]
    PROVE  \E h : IsRun(h, n, D, base, F)
  <1> DEFINE S == 1..n
             Body(g, s) == IF s = {} THEN base ELSE F[<<g[s \ {Max(s)}], Max(s)>>]
             R == {m \in Nat : \E g \in [SUBSET S -> D] : \A s \in SUBSET S :
                                   Cardinality(s) <= m => g[s] = Body(g, s)}
  <1>1. ASSUME NEW s \in SUBSET S
        PROVE  /\ IsFiniteSet(s) /\ Cardinality(s) \in Nat /\ Cardinality(s) <= n
               /\ s # {} => Max(s) \in s
    <2>1. IsFiniteSet(S) /\ Cardinality(S) = n
      BY FS_Interval
    <2> HIDE DEF S
    <2>2. IsFiniteSet(s) /\ Cardinality(s) <= n
      BY <2>1, FS_Subset
    <2>3. Cardinality(s) \in Nat
      BY <2>2, FS_CardinalityType
    <2> QED
      BY <2>2, <2>3, MaxIsGreatest DEF S
  <1>2. \A g \in [SUBSET S -> D] : \A s \in SUBSET S : Body(g, s) \in D
    <2> SUFFICES ASSUME NEW g \in [SUBSET S -> D], NEW s \in SUBSET S, s # {}
                 PROVE  F[<<g[s \ {Max(s)}], Max(s)>>] \in D
      OBVIOUS
    <2>1. Max(s) \in S /\ s \ {Max(s)} \in SUBSET S
      BY <1>1
    <2> QED
      BY <2>1
  <1>3. 0 \in R
    <2> DEFINE g == [s \in SUBSET S |-> base]
    <2>1. ASSUME NEW s \in SUBSET S, Cardinality(s) <= 0 PROVE g[s] = Body(g, s)
      <3>1. s = {}
        BY <1>1, <2>1, FS_EmptySet
      <3> QED
        BY <3>1
    <2> QED
      BY <2>1
  <1>4. ASSUME NEW m \in Nat, m \in R PROVE m + 1 \in R
    <2>1. PICK g \in [SUBSET S -> D] : \A s \in SUBSET S : Cardinality(s) <= m => g[s] = Body(g, s)
      BY <1>4
    <2> DEFINE h == [s \in SUBSET S |-> Body(g, s)]
    <2>2. h \in [SUBSET S -> D]
      BY <1>2
    <2>3. ASSUME NEW s \in SUBSET S, Cardinality(s) <= m + 1 PROVE h[s] = Body(h, s)
      <3>1. CASE s = {}
        BY <3>1
      <3>2. CASE s # {}
        <4> DEFINE r == s \ {Max(s)}
        <4>1. r \in SUBSET S
          OBVIOUS
        <4>2. Cardinality(r) <= m
          <5>1. IsFiniteSet(s) /\ Cardinality(s) \in Nat /\ Max(s) \in s
            BY <1>1, <3>2
          <5>2. Cardinality(r) = Cardinality(s) - 1
            BY <5>1, FS_RemoveElement
          <5> HIDE DEF r
          <5> QED
            BY <2>3, <5>1, <5>2
        <4>3. h[r] = Body(g, r) /\ g[r] = Body(g, r)
          BY <2>1, <4>1, <4>2
        <4>4. h[s] = F[<<g[r], Max(s)>>] /\ Body(h, s) = F[<<h[r], Max(s)>>]
          BY <3>2
        <4> HIDE DEF h, r, Body
        <4> QED
          BY <4>3, <4>4
      <3> QED
        BY <3>1, <3>2
    <2>4. \A s \in SUBSET S : Cardinality(s) <= m + 1 => h[s] = Body(h, s)
      BY <2>3
    <2> HIDE DEF h, Body, S
    <2> QED
      BY <2>2, <2>4
  <1>5. n \in R
    <2> HIDE DEF R
    <2> QED
      BY <1>3, <1>4, InductionOnSet
  <1> HIDE DEF Body
  <1>6. PICK g \in [SUBSET S -> D] : \A s \in SUBSET S : g[s] = Body(g, s)
    BY <1>1, <1>5
  <1>7. IsRun(g, n, D, base, F)
    BY <1>6 DEF Body, IsRun
  <1> QED
    BY <1>7

(* FoldLeft(Renumbered, ...) runs through the entries in order: what holds *)
(* of the first rows and survives every entry holds of the last rows.      *)
LEMMA RenumberedStays ==
    ASSUME NEW n \in Nat, NEW D, NEW base \in D, NEW seq, DOMAIN seq = 1..n,
           \A rows \in D, i \in 1..n : Renumbered(rows, seq[i]) \in D
    PROVE  FoldLeft(Renumbered, base, seq) \in D
  <1> DEFINE S == 1..n
             Body(g, s) == IF s = {} THEN base
                           ELSE Renumbered(g[s \ {Max(s)}], seq[Max(s)])
             iter == CHOOSE g : g = [s \in SUBSET S |-> Body(g, s)]
             F == [p \in D \X S |-> Renumbered(p[1], seq[p[2]])]
             f == [k \in 0..n |-> iter[1..k]]
  <1>1. FoldLeft(Renumbered, base, seq) = iter[S]
    BY Zenon DEF FoldLeft, MapThenFoldSet
  <1>2. \E g : g = [s \in SUBSET S |-> Body(g, s)]
    <2>1. F \in [D \X S -> D]
      OBVIOUS
    <2>2. PICK h : IsRun(h, n, D, base, F)
      <3> HIDE DEF F
      <3> QED
        BY <2>1, SomeRun
    <2>3. ASSUME NEW s \in SUBSET S PROVE h[s] = Body(h, s)
      <3>1. CASE s = {}
        BY <2>2, <3>1 DEF IsRun
      <3>2. CASE s # {}
        <4>1. Max(s) \in S /\ h[s \ {Max(s)}] \in D
          BY <2>2, <3>2, MaxIsGreatest DEF IsRun
        <4> QED
          BY <2>2, <3>2, <4>1 DEF IsRun
      <3> QED
        BY <3>1, <3>2
    <2> HIDE DEF Body
    <2>4. h = [s \in SUBSET S |-> h[s]]
      BY <2>2 DEF IsRun
    <2>5. h = [s \in SUBSET S |-> Body(h, s)]
      BY <2>3, <2>4
    <2> QED
      BY <2>5
  <1>3. iter = [s \in SUBSET S |-> Body(iter, s)]
    <2> HIDE DEF Body
    <2> QED
      BY <1>2, Zenon
  <1> HIDE DEF iter
  <1>4. f[0] = base
    BY <1>3
  <1>5. ASSUME NEW k \in 1..n PROVE f[k] = Renumbered(f[k - 1], seq[k])
    <2>1. k - 1 \in Nat /\ k = (k - 1) + 1
      OBVIOUS
    <2>2. Max(1..k) = k /\ (1..k) \ {Max(1..k)} = 1..(k - 1)
      BY <2>1, MaxOfFirst
    <2>3. 1..k \in SUBSET S /\ k \in 1..k
      OBVIOUS
    <2>4. iter[1..k] = Renumbered(iter[1..(k - 1)], seq[k])
      BY <1>3, <2>2, <2>3
    <2> QED
      BY <2>1, <2>4
  <1>6. FoldLeft(Renumbered, base, seq) = f[n]
    BY <1>1
  <1> DEFINE T == [k \in 0..n |-> D]
  <1> HIDE DEF f
  <1>7. f[0] \in T[0] /\ \A k \in 1..n : f[k - 1] \in T[k - 1] => f[k] \in T[k]
    BY <1>4, <1>5
  <1>8. f[n] \in T[n]
    <2> HIDE DEF T
    <2> QED
      BY <1>7, RunStays
  <1> QED
    BY <1>6, <1>8

(* So does FoldLeft(ParadigmsWritten, ...) through the lines; what holds    *)
(* after the first k of them may depend on k ...                            *)
LEMMA ParadigmsWrittenRun ==
    ASSUME NEW n \in Nat, NEW D, NEW base \in D, NEW seq, DOMAIN seq = 1..n,
           \A rows \in D, i \in 1..n : ParadigmsWritten(rows, seq[i]) \in D,
           NEW T, base \in T[0],
           \A k \in 1..n : \A rows \in T[k - 1] : ParadigmsWritten(rows, seq[k]) \in T[k]
    PROVE  FoldLeft(ParadigmsWritten, base, seq) \in T[n]
  <1> DEFINE S == 1..n
             Body(g, s) == IF s = {} THEN base
                           ELSE ParadigmsWritten(g[s \ {Max(s)}], seq[Max(s)])
             iter == CHOOSE g : g = [s \in SUBSET S |-> Body(g, s)]
             F == [p \in D \X S |-> ParadigmsWritten(p[1], seq[p[2]])]
             f == [k \in 0..n |-> iter[1..k]]
  <1>1. FoldLeft(ParadigmsWritten, base, seq) = iter[S]
    BY Zenon DEF FoldLeft, MapThenFoldSet
  <1>2. \E g : g = [s \in SUBSET S |-> Body(g, s)]
    <2>1. F \in [D \X S -> D]
      OBVIOUS
    <2>2. PICK h : IsRun(h, n, D, base, F)
      <3> HIDE DEF F
      <3> QED
        BY <2>1, SomeRun
    <2>3. ASSUME NEW s \in SUBSET S PROVE h[s] = Body(h, s)
      <3>1. CASE s = {}
        BY <2>2, <3>1 DEF IsRun
      <3>2. CASE s # {}
        <4>1. Max(s) \in S /\ h[s \ {Max(s)}] \in D
          BY <2>2, <3>2, MaxIsGreatest DEF IsRun
        <4> QED
          BY <2>2, <3>2, <4>1 DEF IsRun
      <3> QED
        BY <3>1, <3>2
    <2> HIDE DEF Body
    <2>4. h = [s \in SUBSET S |-> h[s]]
      BY <2>2 DEF IsRun
    <2>5. h = [s \in SUBSET S |-> Body(h, s)]
      BY <2>3, <2>4
    <2> QED
      BY <2>5
  <1>3. iter = [s \in SUBSET S |-> Body(iter, s)]
    <2> HIDE DEF Body
    <2> QED
      BY <1>2, Zenon
  <1> HIDE DEF iter
  <1>4. f[0] = base
    BY <1>3
  <1>5. ASSUME NEW k \in 1..n PROVE f[k] = ParadigmsWritten(f[k - 1], seq[k])
    <2>1. k - 1 \in Nat /\ k = (k - 1) + 1
      OBVIOUS
    <2>2. Max(1..k) = k /\ (1..k) \ {Max(1..k)} = 1..(k - 1)
      BY <2>1, MaxOfFirst
    <2>3. 1..k \in SUBSET S /\ k \in 1..k
      OBVIOUS
    <2>4. iter[1..k] = ParadigmsWritten(iter[1..(k - 1)], seq[k])
      BY <1>3, <2>2, <2>3
    <2> QED
      BY <2>1, <2>4
  <1>6. FoldLeft(ParadigmsWritten, base, seq) = f[n]
    BY <1>1
  <1> HIDE DEF f
  <1>7. f[0] \in T[0] /\ \A k \in 1..n : f[k - 1] \in T[k - 1] => f[k] \in T[k]
    BY <1>4, <1>5
  <1> QED
    BY <1>6, <1>7, RunStays

(* ... and FoldLeft(WithMeaning, ...) through the glosses. *)
LEMMA WithMeaningStays ==
    ASSUME NEW n \in Nat, NEW D, NEW base \in D, NEW seq, DOMAIN seq = 1..n,
           \A rows \in D, i \in 1..n : WithMeaning(rows, seq[i]) \in D
    PROVE  FoldLeft(WithMeaning, base, seq) \in D
  <1> DEFINE S == 1..n
             Body(g, s) == IF s = {} THEN base
                           ELSE WithMeaning(g[s \ {Max(s)}], seq[Max(s)])
             iter == CHOOSE g : g = [s \in SUBSET S |-> Body(g, s)]
             F == [p \in D \X S |-> WithMeaning(p[1], seq[p[2]])]
             f == [k \in 0..n |-> iter[1..k]]
  <1>1. FoldLeft(WithMeaning, base, seq) = iter[S]
    BY Zenon DEF FoldLeft, MapThenFoldSet
  <1>2. \E g : g = [s \in SUBSET S |-> Body(g, s)]
    <2>1. F \in [D \X S -> D]
      OBVIOUS
    <2>2. PICK h : IsRun(h, n, D, base, F)
      <3> HIDE DEF F
      <3> QED
        BY <2>1, SomeRun
    <2>3. ASSUME NEW s \in SUBSET S PROVE h[s] = Body(h, s)
      <3>1. CASE s = {}
        BY <2>2, <3>1 DEF IsRun
      <3>2. CASE s # {}
        <4>1. Max(s) \in S /\ h[s \ {Max(s)}] \in D
          BY <2>2, <3>2, MaxIsGreatest DEF IsRun
        <4> QED
          BY <2>2, <3>2, <4>1 DEF IsRun
      <3> QED
        BY <3>1, <3>2
    <2> HIDE DEF Body
    <2>4. h = [s \in SUBSET S |-> h[s]]
      BY <2>2 DEF IsRun
    <2>5. h = [s \in SUBSET S |-> Body(h, s)]
      BY <2>3, <2>4
    <2> QED
      BY <2>5
  <1>3. iter = [s \in SUBSET S |-> Body(iter, s)]
    <2> HIDE DEF Body
    <2> QED
      BY <1>2, Zenon
  <1> HIDE DEF iter
  <1>4. f[0] = base
    BY <1>3
  <1>5. ASSUME NEW k \in 1..n PROVE f[k] = WithMeaning(f[k - 1], seq[k])
    <2>1. k - 1 \in Nat /\ k = (k - 1) + 1
      OBVIOUS
    <2>2. Max(1..k) = k /\ (1..k) \ {Max(1..k)} = 1..(k - 1)
      BY <2>1, MaxOfFirst
    <2>3. 1..k \in SUBSET S /\ k \in 1..k
      OBVIOUS
    <2>4. iter[1..k] = WithMeaning(iter[1..(k - 1)], seq[k])
      BY <1>3, <2>2, <2>3
    <2> QED
      BY <2>1, <2>4
  <1>6. FoldLeft(WithMeaning, base, seq) = f[n]
    BY <1>1
  <1> DEFINE T == [k \in 0..n |-> D]
  <1> HIDE DEF f
  <1>7. f[0] \in T[0] /\ \A k \in 1..n : f[k - 1] \in T[k - 1] => f[k] \in T[k]
    BY <1>4, <1>5
  <1>8. f[n] \in T[n]
    <2> HIDE DEF T
    <2> QED
      BY <1>7, RunStays
  <1> QED
    BY <1>6, <1>8

-----------------------------------------------------------------------------
(* The jobs.                                                                *)

(* A job is what its tool says. *)
LEMMA JobKinds ==
    ASSUME JobOK
    PROVE  /\ job.tool = "kaikki" => job \in KaikkiJobs
           /\ job.tool = "ekilex" => job \in EkilexJobs
           /\ job.tool = "backfill" => job \in BackfillJobs
           /\ job.tool = "smoke" => job \in SmokeJobs
           /\ job.tool \in {"none", "kaikki", "ekilex", "backfill", "smoke"}
  BY DEF JobOK, Idle, KaikkiJobs, EkilexJobs, BackfillJobs, SmokeJobs

(* The records of a set of jobs of importdict move on from place to place. *)
LEMMA MovedOn ==
    ASSUME NEW pc \in ImportPlaces
    PROVE  /\ \A j \in KaikkiJobs : [j EXCEPT !.pc = pc] \in KaikkiJobs
           /\ \A j \in BackfillJobs : [j EXCEPT !.pc = pc] \in BackfillJobs
           /\ \A j \in SmokeJobs : [j EXCEPT !.pc = pc] \in SmokeJobs
  <1>1. \A j \in KaikkiJobs : [j EXCEPT !.pc = pc] \in KaikkiJobs
    BY DEF KaikkiJobs
  <1>2. \A j \in BackfillJobs : [j EXCEPT !.pc = pc] \in BackfillJobs
    BY DEF BackfillJobs
  <1>3. \A j \in SmokeJobs : [j EXCEPT !.pc = pc] \in SmokeJobs
    BY DEF SmokeJobs
  <1> QED
    BY <1>1, <1>2, <1>3

(* Its file of glosses gets shorter. *)
LEMMA GlossRead ==
    /\ \A j \in KaikkiJobs : j.csv # <<>> => [j EXCEPT !.csv = Tail(@)] \in KaikkiJobs
    /\ \A j \in SmokeJobs : j.csv # <<>> => [j EXCEPT !.csv = Tail(@)] \in SmokeJobs
  <1>1. \A csv \in GlossLists : csv # <<>> => Tail(csv) \in GlossLists
    BY DEF GlossLists
  <1>2. \A j \in KaikkiJobs : j.csv # <<>> => [j EXCEPT !.csv = Tail(@)] \in KaikkiJobs
    BY <1>1 DEF KaikkiJobs
  <1>3. \A j \in SmokeJobs : j.csv # <<>> => [j EXCEPT !.csv = Tail(@)] \in SmokeJobs
    BY <1>1 DEF SmokeJobs
  <1> QED
    BY <1>2, <1>3

(* A kaikki job moves on along its dump. *)
LEMMA KaikkiJobSteps ==
    ASSUME NEW j \in KaikkiJobs
    PROVE  \A n \in Nat, pc \in {"import", "glosses"} :
               [j EXCEPT !.done = n, !.pc = pc] \in KaikkiJobs
  <1>1. ASSUME NEW n \in Nat PROVE [j EXCEPT !.done = n] \in KaikkiJobs
    BY DEF KaikkiJobs
  <1>2. \A k \in KaikkiJobs : \A pc \in {"import", "glosses"} : [k EXCEPT !.pc = pc] \in KaikkiJobs
    BY MovedOn DEF ImportPlaces
  <1> QED
    BY <1>1, <1>2

(* Where a kaikki job is when it writes its next entries. *)
LEMMA KaikkiAt == KaikkiBatch => job.tool = "kaikki" /\ job.pc = "import"
  BY Zenon DEF KaikkiBatch, ImportAt

(* The entries of the next transaction are entries of the dump. *)
LEMMA BatchOfDump ==
    ASSUME JobOK, job.tool = "kaikki"
    PROVE  LET batch == SubSeq(job.dump, job.done + 1,
                               IF job.done + BatchSize < Len(job.dump)
                               THEN job.done + BatchSize ELSE Len(job.dump))
           IN  /\ Len(batch) \in Nat /\ DOMAIN batch = 1..Len(batch)
               /\ job.done + Len(batch) <= Len(job.dump)
               /\ \A i \in DOMAIN batch : batch[i] \in Range(job.dump)
  <1> DEFINE last == IF job.done + BatchSize < Len(job.dump)
                     THEN job.done + BatchSize ELSE Len(job.dump)
             batch == SubSeq(job.dump, job.done + 1, last)
  <1>1. job \in KaikkiJobs /\ job.done <= Len(job.dump)
    BY JobKinds DEF JobOK
  <1>2. job.dump \in KaikkiDumps /\ job.done \in Nat
    BY <1>1 DEF KaikkiJobs
  <1>3. job.dump \in Seq(Range(job.dump))
    BY <1>2, DictionaryAssumption
  <1>4. Len(job.dump) \in Nat /\ DOMAIN job.dump = 1..Len(job.dump)
    BY <1>3
  <1>5. last \in Nat /\ job.done <= last /\ last <= Len(job.dump)
    BY <1>1, <1>2, <1>4, DictionaryAssumption
  <1> HIDE DEF last
  <1>6. Len(batch) = last - job.done /\ DOMAIN batch = 1..(last - job.done)
    BY <1>2, <1>3, <1>4, <1>5
  <1>7. \A i \in 1..(last - job.done) : batch[i] = job.dump[job.done + i]
    BY <1>2, <1>3, <1>4, <1>5
  <1>8. \A i \in 1..(last - job.done) : job.done + i \in DOMAIN job.dump
    BY <1>2, <1>4, <1>5
  <1>9. \A i \in DOMAIN batch : batch[i] \in Range(job.dump)
    BY <1>6, <1>7, <1>8 DEF Range
  <1>10. Len(batch) \in Nat /\ DOMAIN batch = 1..Len(batch) /\ job.done + Len(batch) <= Len(job.dump)
    <2> HIDE DEF batch
    <2>1. last - job.done \in Nat /\ job.done + (last - job.done) = last
      BY <1>2, <1>5
    <2> QED
      BY <1>5, <1>6, <2>1
  <1> QED
    BY <1>9, <1>10 DEF last

-----------------------------------------------------------------------------
(* Who writes which table.                                                  *)

ReviewStep == \E r \in Reports, status \in Statuses \ {"submitted"}, c \in Corrections :
                  ReviewParseFeedback(r, status, c)

StartStep ==
    \/ \E dump \in KaikkiDumps, prio \in SourcePriorities, reimport \in BOOLEAN, csv \in GlossChoices :
           StartKaikki(dump, prio, reimport, csv)
    \/ \E dump \in KaikkiDumps, reimport \in BOOLEAN : StartBackfill(dump, reimport)
    \/ \E words \in SmokeImports, prio \in SourcePriorities, reimport \in BOOLEAN, csv \in GlossChoices :
           StartSmoke(words, prio, reimport, csv)
    \/ \E d \in EkilexDrops : StartEkilex(d)

SmallImport == \E words \in WordLists : ImportPublicWords(words)

(* Every step is one of these. *)
LEMMA StepKinds ==
    ASSUME [Next]_vars
    PROVE  \/ UNCHANGED vars
           \/ StartStep \/ DropForms \/ DropLemmas \/ DropTranslations
           \/ KaikkiBatch \/ BackfillFeats \/ SmokeImport \/ ApplyCustomGloss \/ RecordImport
           \/ WriteLemmas \/ WriteTranslations \/ WriteDefinitions \/ ImportForms \/ RecordEkilex
           \/ SmallImport \/ KotusStep \/ Abort
           \/ (\E counts \in GoldSets : ReplaceGold(counts)) \/ ReviewStep \/ ExportStep
  BY Zenon DEF Next, ImportDictStep, EkilexStep, LoopStep, ReviewStep, StartStep, SmallImport

(* The importers of a single transaction. *)
LEMMA SmallSteps == SmallImport \/ KotusStep => OneTransaction
  <1>2. \A words : ImportPublicWords(words) => OneTransaction
    BY SMT DEF ImportPublicWords
  <1>3. \A file : ImportKotus(file) => OneTransaction
    BY Zenon DEF ImportKotus
  <1> QED
    BY <1>2, <1>3, Zenon DEF SmallImport, KotusStep

(* What each step leaves alone. *)
LEMMA Frames ==
    /\ StartStep => UNCHANGED <<lemmaRow, formRow, trans, definitions, kotusVars, loopVars, answer>>
    /\ DropForms => UNCHANGED <<lemmaRow, trans, definitions, kotusVars, loopVars>>
    /\ DropLemmas => UNCHANGED <<formRow, trans, definitions, loopVars, answer>>
    /\ DropTranslations => UNCHANGED <<lemmaRow, formRow, definitions, kotusVars, loopVars, answer>>
    /\ KaikkiBatch => UNCHANGED <<definitions, kotusVars, loopVars, answer>>
    /\ ApplyCustomGloss => UNCHANGED <<formRow, trans, definitions, kotusVars, loopVars, answer>>
    /\ RecordImport => UNCHANGED <<lemmaRow, formRow, trans, definitions, kotusVars, loopVars, answer>>
    /\ SmokeImport => UNCHANGED <<trans, definitions, kotusVars, loopVars, answer>>
    /\ BackfillFeats => UNCHANGED <<lemmaRow, trans, definitions, kotusVars, loopVars, answer>>
    /\ WriteLemmas => UNCHANGED <<formRow, trans, definitions, kotusVars, loopVars, answer>>
    /\ WriteTranslations => UNCHANGED <<lemmaRow, formRow, definitions, kotusVars, loopVars, answer>>
    /\ WriteDefinitions => UNCHANGED <<lemmaRow, formRow, trans, kotusVars, loopVars, answer>>
    /\ ImportForms => UNCHANGED <<lemmaRow, trans, definitions, kotusVars, loopVars, answer>>
    /\ RecordEkilex => UNCHANGED <<lemmaRow, formRow, trans, definitions, kotusVars, loopVars, answer>>
    /\ SmallImport => UNCHANGED <<trans, definitions, kotusVars, job, loopVars, answer>>
    /\ KotusStep => UNCHANGED <<formRow, trans, definitions, job, loopVars, answer>>
    /\ Abort => UNCHANGED <<lemmaRow, formRow, trans, definitions, kotusVars, loopVars, answer>>
    /\ (\E counts \in GoldSets : ReplaceGold(counts)) =>
           UNCHANGED <<lemmaRow, formRow, trans, definitions, kotusVars, job, report, candidate,
                       exportVars, answer>>
    /\ ReviewStep => UNCHANGED <<trans, definitions, kotusVars, job, exportVars>>
    /\ ExportStep => UNCHANGED <<lemmaRow, formRow, trans, definitions, kotusVars, job, report,
                                 candidate, answer>>
  <1>1. StartStep => UNCHANGED <<lemmaRow, formRow, trans, definitions, kotusVars, loopVars, answer>>
    BY Zenon DEF StartStep, StartKaikki, StartBackfill, StartSmoke, StartEkilex, StartJob, importVars
  <1>2. DropForms => UNCHANGED <<lemmaRow, trans, definitions, kotusVars, loopVars>>
    BY Zenon DEF DropForms
  <1>3. DropLemmas => UNCHANGED <<formRow, trans, definitions, loopVars, answer>>
    BY Zenon DEF DropLemmas
  <1>4. DropTranslations => UNCHANGED <<lemmaRow, formRow, definitions, kotusVars, loopVars, answer>>
    BY Zenon DEF DropTranslations, jobKeeps
  <1>5. KaikkiBatch => UNCHANGED <<definitions, kotusVars, loopVars, answer>>
    BY SMT DEF KaikkiBatch, jobKeeps
  <1>6. ApplyCustomGloss => UNCHANGED <<formRow, trans, definitions, kotusVars, loopVars, answer>>
    BY Zenon DEF ApplyCustomGloss, jobKeeps
  <1>7. RecordImport => UNCHANGED <<lemmaRow, formRow, trans, definitions, kotusVars, loopVars, answer>>
    BY Zenon DEF RecordImport, jobKeeps, importVars
  <1>20. SmokeImport => UNCHANGED <<trans, definitions, kotusVars, loopVars, answer>>
    BY SMT DEF SmokeImport, jobKeeps
  <1>8. BackfillFeats => UNCHANGED <<lemmaRow, trans, definitions, kotusVars, loopVars, answer>>
    BY Zenon DEF BackfillFeats, jobKeeps
  <1>9. WriteLemmas => UNCHANGED <<formRow, trans, definitions, kotusVars, loopVars, answer>>
    BY Zenon DEF WriteLemmas, jobKeeps
  <1>10. WriteTranslations => UNCHANGED <<lemmaRow, formRow, definitions, kotusVars, loopVars, answer>>
    BY Zenon DEF WriteTranslations, jobKeeps
  <1>11. WriteDefinitions => UNCHANGED <<lemmaRow, formRow, trans, kotusVars, loopVars, answer>>
    BY Zenon DEF WriteDefinitions, jobKeeps
  <1>12. ImportForms => UNCHANGED <<lemmaRow, trans, definitions, kotusVars, loopVars, answer>>
    BY Zenon DEF ImportForms, jobKeeps
  <1>13. RecordEkilex => UNCHANGED <<lemmaRow, formRow, trans, definitions, kotusVars, loopVars, answer>>
    BY Zenon DEF RecordEkilex, jobKeeps, importVars
  <1>14. SmallImport => UNCHANGED <<trans, definitions, kotusVars, job, loopVars, answer>>
    <2>1. ASSUME NEW words, ImportPublicWords(words) PROVE OneTransaction /\ UNCHANGED kotusVars
      BY <2>1, SMT DEF ImportPublicWords
    <2> QED
      BY <2>1, Zenon DEF SmallImport, OneTransaction
  <1>15. KotusStep => UNCHANGED <<formRow, trans, definitions, job, loopVars, answer>>
    BY Zenon DEF KotusStep, ImportKotus, OneTransaction
  <1>16. Abort => UNCHANGED <<lemmaRow, formRow, trans, definitions, kotusVars, loopVars, answer>>
    BY Zenon DEF Abort, importVars
  <1>17. (\E counts \in GoldSets : ReplaceGold(counts)) =>
             UNCHANGED <<lemmaRow, formRow, trans, definitions, kotusVars, job, report, candidate,
                         exportVars, answer>>
    BY Zenon DEF ReplaceGold, importVars
  <1>18. ReviewStep => UNCHANGED <<trans, definitions, kotusVars, job, exportVars>>
    BY Zenon DEF ReviewStep, ReviewParseFeedback
  <1>19. ExportStep => UNCHANGED <<lemmaRow, formRow, trans, definitions, kotusVars, job, report,
                                  candidate, answer>>
    BY Zenon DEF ExportStep, PrintCandidates, MarkGoldCandidatesExported, ExportStops, importVars
  <1> QED
    BY <1>1, <1>2, <1>3, <1>4, <1>5, <1>6, <1>7, <1>8, <1>9, <1>10, <1>11, <1>12, <1>13, <1>14,
       <1>15, <1>16, <1>17, <1>18, <1>19, <1>20, Zenon

(* The statements that write each table. *)
LEMMA Writers ==
    ASSUME [Next]_vars
    PROVE  /\ lemmaRow' = lemmaRow \/ DropLemmas \/ KaikkiBatch \/ SmokeImport \/ ApplyCustomGloss \/ WriteLemmas
               \/ SmallImport \/ KotusStep \/ ReviewStep
           /\ formRow' = formRow \/ DropForms \/ KaikkiBatch \/ BackfillFeats \/ SmokeImport \/ ImportForms
               \/ SmallImport \/ ReviewStep
           /\ trans' = trans \/ DropTranslations \/ KaikkiBatch \/ WriteTranslations
           /\ definitions' = definitions \/ WriteDefinitions
           /\ <<paradigm, wordList>>' = <<paradigm, wordList>> \/ DropLemmas \/ KotusStep
           /\ job' = job \/ StartStep \/ DropForms \/ DropLemmas \/ DropTranslations
               \/ KaikkiBatch \/ BackfillFeats \/ SmokeImport \/ ApplyCustomGloss \/ RecordImport
               \/ WriteLemmas \/ WriteTranslations \/ WriteDefinitions \/ ImportForms
               \/ RecordEkilex \/ Abort
           /\ <<report, candidate>>' = <<report, candidate>> \/ ReviewStep
           /\ answer' = answer \/ DropForms \/ ReviewStep
           /\ exportVars' = exportVars \/ ExportStep
  <1>1. lemmaRow' = lemmaRow \/ DropLemmas \/ KaikkiBatch \/ SmokeImport \/ ApplyCustomGloss \/ WriteLemmas
            \/ SmallImport \/ KotusStep \/ ReviewStep
    BY StepKinds, Frames, Zenon DEF vars, importVars
  <1>2. formRow' = formRow \/ DropForms \/ KaikkiBatch \/ BackfillFeats \/ SmokeImport \/ ImportForms
            \/ SmallImport \/ ReviewStep
    BY StepKinds, Frames, Zenon DEF vars, importVars
  <1>3. trans' = trans \/ DropTranslations \/ KaikkiBatch \/ WriteTranslations
    BY StepKinds, Frames, Zenon DEF vars, importVars
  <1>4. definitions' = definitions \/ WriteDefinitions
    BY StepKinds, Frames, Zenon DEF vars, importVars
  <1>5. <<paradigm, wordList>>' = <<paradigm, wordList>> \/ DropLemmas \/ KotusStep
    BY StepKinds, Frames, Zenon DEF vars, importVars, kotusVars
  <1>6. job' = job \/ StartStep \/ DropForms \/ DropLemmas \/ DropTranslations
            \/ KaikkiBatch \/ BackfillFeats \/ SmokeImport \/ ApplyCustomGloss \/ RecordImport
            \/ WriteLemmas \/ WriteTranslations \/ WriteDefinitions \/ ImportForms
            \/ RecordEkilex \/ Abort
    BY StepKinds, Frames, ZenonT(60) DEF vars
  <1>7. <<report, candidate>>' = <<report, candidate>> \/ ReviewStep
    BY StepKinds, Frames, Zenon DEF vars, loopVars
  <1>8. answer' = answer \/ DropForms \/ ReviewStep
    BY StepKinds, Frames, Zenon DEF vars
  <1>9. exportVars' = exportVars \/ ExportStep
    BY StepKinds, Frames, Zenon DEF vars, loopVars, exportVars
  <1> QED
    BY <1>1, <1>2, <1>3, <1>4, <1>5, <1>6, <1>7, <1>8, <1>9, Zenon

-----------------------------------------------------------------------------
(* Translations.                                                            *)

(* A sequence is one over the set of its elements, and over no less. *)
LEMMA SeqOverRange ==
    ASSUME NEW X, NEW G, NEW q \in Seq(G)
    PROVE  q \in Seq(X) <=> Range(q) \subseteq X
  <1>1. q \in [1..Len(q) -> G] /\ Len(q) \in Nat /\ DOMAIN q = 1..Len(q)
    OBVIOUS
  <1>2. ASSUME q \in Seq(X) PROVE Range(q) \subseteq X
    BY <1>2 DEF Range
  <1>3. ASSUME Range(q) \subseteq X PROVE q \in Seq(X)
    <2>1. \A i \in 1..Len(q) : q[i] \in X
      BY <1>1, <1>3 DEF Range
    <2> QED
      BY <1>1, <2>1
  <1> QED
    BY <1>2, <1>3

(* The meanings of an entry are glosses of it that are not structural. *)
LEMMA MeaningsOfEntry ==
    ASSUME NEW e, e.glosses \in Seq(Range(e.glosses))
    PROVE  Meanings(e) \in Seq(Range(e.glosses) \ Structural)
  <1> DEFINE n == Len(e.glosses)
             D == Seq(Range(e.glosses) \ Structural)
  <1>1. n \in Nat /\ DOMAIN e.glosses = 1..n
    OBVIOUS
  <1>2. \A rows \in D, i \in 1..n : WithMeaning(rows, e.glosses[i]) \in D
    <2> TAKE rows \in D, i \in 1..n
    <2>1. e.glosses[i] \in Range(e.glosses)
      BY <1>1 DEF Range
    <2> QED
      BY <2>1 DEF WithMeaning
  <1>3. <<>> \in D
    OBVIOUS
  <1> HIDE DEF D, n
  <1>4. FoldLeft(WithMeaning, <<>>, e.glosses) \in D
    BY <1>1, <1>2, <1>3, WithMeaningStays
  <1> QED
    BY <1>4 DEF Meanings, D

(* A transaction leaves translations of the dump alone, in the first one because *)
(* it deletes those of an earlier import.                                        *)
LEMMA BatchIsFresh ==
    ASSUME JobOK, TransOK, KaikkiIsFresh, KaikkiBatch
    PROVE  /\ trans'["kaikki"] \in [Senses -> Seq(Glosses)]
           /\ \A s \in Senses : Range(trans'["kaikki"][s]) \subseteq InDump(job.dump, s)
           /\ DOMAIN trans' = Translated /\ trans'["ekilex"] = trans["ekilex"]
  <1> DEFINE batch == SubSeq(job.dump, job.done + 1,
                             IF job.done + BatchSize < Len(job.dump)
                             THEN job.done + BatchSize ELSE Len(job.dump))
             base == FirstBatchDeletes(trans["kaikki"])
             Own(s) == Seq(InDump(job.dump, s))
             D == {rows \in [Senses -> Seq(Glosses)] : \A s \in Senses : rows[s] \in Own(s)}
             n == Len(batch)
  <1>1. /\ job.tool = "kaikki" /\ job.pc = "import"
        /\ trans' = [trans EXCEPT !["kaikki"] = FoldLeft(Renumbered, base, batch)]
    BY KaikkiAt, Zenon DEF KaikkiBatch
  <1>2. /\ n \in Nat /\ DOMAIN batch = 1..n
        /\ \A i \in DOMAIN batch : batch[i] \in Range(job.dump)
    BY <1>1, BatchOfDump, Zenon
  <1>3. job.dump \in KaikkiDumps /\ job.done \in Nat
    BY <1>1, JobKinds DEF KaikkiJobs
  <1>4. base \in D
    <2>1. CASE job.done = 0
      <3>1. base = [s \in Senses |-> <<>>]
        BY <2>1 DEF FirstBatchDeletes
      <3>2. \A s \in Senses : <<>> \in Own(s)
        OBVIOUS
      <3> HIDE DEF Own, base
      <3> QED
        BY <3>1, <3>2
    <2>2. CASE job.done # 0
      <3>1. base = trans["kaikki"] /\ base \in [Senses -> Seq(Glosses)]
        BY <2>2 DEF FirstBatchDeletes, TransOK
      <3>2. \A s \in Senses : Range(base[s]) \subseteq InDump(job.dump, s)
        BY <1>1, <1>3, <2>2, <3>1 DEF KaikkiIsFresh
      <3> HIDE DEF base
      <3>3. \A s \in Senses : base[s] \in Own(s)
        BY <3>1, <3>2, SeqOverRange
      <3> QED
        BY <3>1, <3>3
    <2> QED
      BY <2>1, <2>2
  <1>5. \A s \in Senses : InDump(job.dump, s) \subseteq Glosses
    BY <1>3 DEF InDump, Glosses, EntriesOfDumps
  <1>6. \A rows \in D, i \in 1..n : Renumbered(rows, batch[i]) \in D
    <2> HIDE DEF batch, n
    <2> TAKE rows \in D, i \in 1..n
    <2> DEFINE e == batch[i]
               m == Meanings(e)
    <2>1. e \in Range(job.dump) /\ e.glosses \in Seq(Range(e.glosses))
      BY <1>2, <1>3, DictionaryAssumption
    <2>2. m \in Seq(Range(e.glosses) \ Structural)
      BY <2>1, MeaningsOfEntry
    <2> HIDE DEF e, m
    <2>3. CASE e.sense \notin Senses
      <3>1. Renumbered(rows, e) = rows
        BY <2>3 DEF Renumbered
      <3> QED
        BY <3>1 DEF e
    <2>4. CASE e.sense \in Senses
      <3>1. Range(e.glosses) \ Structural \subseteq InDump(job.dump, e.sense)
        BY <2>1 DEF InDump
      <3>2. m \in Own(e.sense)
        BY <2>2, <3>1
      <3> DEFINE r == rows[e.sense]
                 row == m \o SubSeq(r, Len(m) + 1, Len(r))
      <3>3. r \in Own(e.sense)
        BY <2>4
      <3>4. row \in Own(e.sense) /\ row \in Seq(Glosses)
        <4> DEFINE X == InDump(job.dump, e.sense)
        <4>1. m \in Seq(X) /\ r \in Seq(X)
          BY <3>2, <3>3
        <4> HIDE DEF X, r
        <4>2. SubSeq(r, Len(m) + 1, Len(r)) \in Seq(X)
          BY <4>1
        <4>3. row \in Seq(X)
          BY <4>1, <4>2
        <4>4. X \subseteq Glosses
          BY <1>5, <2>4 DEF X
        <4> HIDE DEF row
        <4> QED
          BY <4>3, <4>4 DEF X
      <3>5. Renumbered(rows, e) = [rows EXCEPT ![e.sense] = row]
        BY DEF Renumbered, m
      <3> HIDE DEF row, Own
      <3> QED
        BY <2>4, <3>4, <3>5 DEF e
    <2> QED
      BY <2>3, <2>4
  <1> HIDE DEF D, base, batch, n
  <1>7. FoldLeft(Renumbered, base, batch) \in D
    BY <1>2, <1>4, <1>6, RenumberedStays
  <1>8. trans'["kaikki"] = FoldLeft(Renumbered, base, batch)
    BY <1>1 DEF TransOK, Translated
  <1>9. trans'["kaikki"] \in D
    BY <1>7, <1>8
  <1>10. DOMAIN trans' = Translated /\ trans'["ekilex"] = trans["ekilex"]
    BY <1>1 DEF TransOK
  <1>11. \A s \in Senses : Range(trans'["kaikki"][s]) \subseteq InDump(job.dump, s)
    BY <1>9, SeqOverRange DEF D
  <1> QED
    BY <1>9, <1>10, <1>11 DEF D

-----------------------------------------------------------------------------
(* The invariant is inductive, conjunct by conjunct.                        *)

(* An importer starts at the beginning of its input and never runs past it. *)
LEMMA StepJob ==
    ASSUME JobOK, [Next]_vars
    PROVE  JobOK'
  <1>1. CASE job' = job
    BY <1>1 DEF JobOK
  <1>2. CASE job' = Idle
    BY <1>2 DEF JobOK, Idle
  <1>3. ASSUME job' \in BackfillJobs \cup SmokeJobs \cup EkilexJobs PROVE JobOK'
    BY <1>3 DEF JobOK, BackfillJobs, SmokeJobs, EkilexJobs
  <1>4. ASSUME job' \in KaikkiJobs, job'.done <= Len(job'.dump)
        PROVE  JobOK'
    BY <1>4 DEF JobOK
  <1>5. ASSUME NEW pc \in ImportPlaces, job.tool \in {"kaikki", "backfill", "smoke"},
               job' = [job EXCEPT !.pc = pc]
        PROVE  JobOK'
    <2>1. CASE job.tool = "kaikki"
      <3>1. job \in KaikkiJobs /\ job.done <= Len(job.dump)
        BY <2>1, JobKinds DEF JobOK
      <3>2. job' \in KaikkiJobs
        BY <1>5, <3>1, MovedOn
      <3>3. job'.done = job.done /\ job'.dump = job.dump
        BY <1>5, <3>1 DEF KaikkiJobs
      <3> QED
        BY <1>4, <3>1, <3>2, <3>3
    <2>2. CASE job.tool = "backfill"
      BY <1>3, <1>5, <2>2, JobKinds, MovedOn
    <2>3. CASE job.tool = "smoke"
      BY <1>3, <1>5, <2>3, JobKinds, MovedOn
    <2> QED
      BY <1>5, <2>1, <2>2, <2>3
  <1>6. ASSUME NEW pc \in {"translations", "definitions", "forms", "record"},
               job.tool = "ekilex", job' = [job EXCEPT !.pc = pc]
        PROVE  JobOK'
    <2>1. job \in EkilexJobs
      BY <1>6, JobKinds
    <2>2. job' \in EkilexJobs
      BY <1>6, <2>1 DEF EkilexJobs
    <2> QED
      BY <1>3, <2>2
  <1>7. CASE StartStep
    <2>0. ASSUME NEW csv \in GlossChoices PROVE csv \in GlossLists
      <3>1. CASE csv = <<>>
        BY <3>1 DEF GlossLists
      <3>2. CASE csv \in GlossFiles
        <4> DEFINE G == UNION {Range(file) : file \in GlossFiles}
        <4>1. csv \in Seq(Range(csv)) /\ Range(csv) \subseteq G
          BY <3>2, DictionaryAssumption
        <4> HIDE DEF G
        <4>2. csv \in Seq(G)
          BY <4>1, SeqOverRange
        <4> QED
          BY <4>2 DEF G, GlossLists
      <3> QED
        BY <3>1, <3>2 DEF GlossChoices
    <2>5. \A reimport : FirstPlace(reimport) \in ImportPlaces
      BY DEF FirstPlace, ImportPlaces
    <2>1. ASSUME NEW d \in KaikkiDumps, NEW prio \in SourcePriorities, NEW reimport \in BOOLEAN,
                 NEW csv \in GlossChoices, StartKaikki(d, prio, reimport, csv)
          PROVE  JobOK'
      <3> DEFINE pc == FirstPlace(reimport)
      <3>2. job' = [tool |-> "kaikki", pc |-> pc, dump |-> d, prio |-> prio, done |-> 0, csv |-> csv]
        BY <2>1, Zenon DEF StartKaikki
      <3>3. pc \in ImportPlaces /\ csv \in GlossLists
        BY <2>0, <2>5
      <3> HIDE DEF pc
      <3>4. job' \in KaikkiJobs
        BY <3>2, <3>3 DEF KaikkiJobs
      <3>5. job'.done = 0 /\ job'.dump = d /\ Len(d) \in Nat
        BY <3>2, DictionaryAssumption
      <3> QED
        BY <1>4, <3>4, <3>5
    <2>2. ASSUME NEW d \in KaikkiDumps, NEW reimport \in BOOLEAN, StartBackfill(d, reimport)
          PROVE  JobOK'
      <3> DEFINE pc == FirstPlace(reimport)
      <3>1. job' = [tool |-> "backfill", pc |-> pc, dump |-> d, done |-> 0] /\ pc \in ImportPlaces
        BY <2>2, <2>5, Zenon DEF StartBackfill
      <3> HIDE DEF pc
      <3>2. job' \in BackfillJobs
        BY <3>1 DEF BackfillJobs
      <3> QED
        BY <1>3, <3>2
    <2>4. ASSUME NEW words \in SmokeImports, NEW prio \in SourcePriorities, NEW reimport \in BOOLEAN,
                 NEW csv \in GlossChoices, StartSmoke(words, prio, reimport, csv)
          PROVE  JobOK'
      <3> DEFINE pc == FirstPlace(reimport)
      <3>1. job' = [tool |-> "smoke", pc |-> pc, words |-> words, prio |-> prio, csv |-> csv]
        BY <2>4, Zenon DEF StartSmoke
      <3>2. pc \in ImportPlaces /\ csv \in GlossLists
        BY <2>0, <2>5
      <3> HIDE DEF pc
      <3>3. job' \in SmokeJobs
        BY <3>1, <3>2 DEF SmokeJobs
      <3> QED
        BY <1>3, <3>3
    <2>3. ASSUME NEW d \in EkilexDrops, StartEkilex(d) PROVE JobOK'
      <3>1. job' = [tool |-> "ekilex", pc |-> "lemmas", drop |-> d]
        BY <2>3 DEF StartEkilex, StartJob
      <3>2. job' \in EkilexJobs
        BY <3>1 DEF EkilexJobs
      <3> QED
        BY <1>3, <3>2
    <2> QED
      BY <1>7, <2>1, <2>2, <2>3, <2>4, Zenon DEF StartStep
  <1>8. CASE DropForms
    BY <1>5, <1>8, Zenon DEF DropForms, ImportAt, ImportPlaces
  <1>9. CASE DropLemmas
    BY <1>5, <1>9, Zenon DEF DropLemmas, ImportAt, ImportPlaces
  <1>10. CASE DropTranslations
    BY <1>5, <1>10, Zenon DEF DropTranslations, ImportAt, ImportPlaces
  <1>18. CASE SmokeImport
    <2>1. job.tool = "smoke" /\ job' = [job EXCEPT !.pc = "glosses"]
      BY <1>18, Zenon DEF SmokeImport, ImportAt
    <2> QED
      BY <1>5, <2>1, Zenon DEF ImportPlaces
  <1>19. CASE BackfillFeats
    <2> DEFINE ends == CommittedAfter \cup {Len(job.dump)}
               last == Min(ends)
    <2>1. job.tool = "backfill" /\ (job' = Idle \/ job' = [job EXCEPT !.done = last])
      BY <1>19, Zenon DEF BackfillFeats, ImportAt
    <2>2. job \in BackfillJobs
      BY <2>1, JobKinds
    <2>3. ends \in SUBSET Nat /\ ends # {}
      <3>1. Len(job.dump) \in Nat /\ job.done \in Nat
        BY <2>2, DictionaryAssumption DEF BackfillJobs
      <3>2. CommittedAfter \subseteq (job.done + 1)..Len(job.dump)
        BY Zenon DEF CommittedAfter
      <3>3. (job.done + 1)..Len(job.dump) \subseteq Nat
        BY <3>1
      <3>4. Len(job.dump) \in ends
        BY Zenon
      <3> QED
        BY <3>1, <3>2, <3>3, <3>4, Zenon
    <2> HIDE DEF ends
    <2>4. last \in Nat
      <3>1. \E x \in ends : \A y \in ends : x <= y
        BY <2>3, LeastOf
      <3> QED
        BY <2>3, <3>1, Zenon DEF Min
    <2> HIDE DEF last
    <2>5. job' = Idle \/ job' \in BackfillJobs
      BY <2>1, <2>2, <2>4 DEF BackfillJobs
    <2> QED
      BY <1>2, <1>3, <2>5
  <1>11. CASE KaikkiBatch
    <2> DEFINE batch == SubSeq(job.dump, job.done + 1,
                               IF job.done + BatchSize < Len(job.dump)
                               THEN job.done + BatchSize ELSE Len(job.dump))
               pc == IF job.done + Len(batch) = Len(job.dump) THEN "glosses" ELSE "import"
    <2>1. /\ job.tool = "kaikki" /\ job.pc = "import"
          /\ job' = [job EXCEPT !.done = @ + Len(batch),
                                !.pc = IF job.done + Len(batch) = Len(job.dump)
                                       THEN "glosses" ELSE @]
      BY <1>11, KaikkiAt, Zenon DEF KaikkiBatch
    <2>2. Len(batch) \in Nat /\ job.done + Len(batch) <= Len(job.dump)
      BY <2>1, BatchOfDump, Zenon
    <2>3. job \in KaikkiJobs /\ job.done \in Nat
      BY <2>1, JobKinds DEF KaikkiJobs
    <2> HIDE DEF batch
    <2>4. job' = [job EXCEPT !.done = job.done + Len(batch), !.pc = pc]
      BY <2>1
    <2>5. pc \in {"import", "glosses"} /\ job.done + Len(batch) \in Nat
      BY <2>2, <2>3
    <2> HIDE DEF pc
    <2>6. job' \in KaikkiJobs
      BY <2>3, <2>4, <2>5, KaikkiJobSteps
    <2>7. job'.done = job.done + Len(batch) /\ job'.dump = job.dump
      BY <2>3, <2>4 DEF KaikkiJobs
    <2> QED
      BY <1>4, <2>2, <2>6, <2>7
  <1>12. CASE ApplyCustomGloss
    <2>1. /\ job.tool \in {"kaikki", "smoke"} /\ job.csv # <<>>
          /\ job' = [job EXCEPT !.csv = Tail(@)]
      BY <1>12, Zenon DEF ApplyCustomGloss, ImportAt
    <2>2. CASE job.tool = "kaikki"
      <3>1. job \in KaikkiJobs /\ job.done <= Len(job.dump)
        BY <2>2, JobKinds DEF JobOK
      <3>2. job' \in KaikkiJobs
        BY <2>1, <3>1, GlossRead
      <3>3. job'.done = job.done /\ job'.dump = job.dump
        BY <2>1, <3>1 DEF KaikkiJobs
      <3> QED
        BY <1>4, <3>1, <3>2, <3>3
    <2>3. CASE job.tool = "smoke"
      BY <1>3, <2>1, <2>3, JobKinds, GlossRead
    <2> QED
      BY <2>1, <2>2, <2>3
  <1>13. CASE RecordImport \/ RecordEkilex \/ Abort
    BY <1>2, <1>13, Zenon DEF RecordImport, RecordEkilex, Abort
  <1>14. CASE WriteLemmas
    BY <1>6, <1>14, Zenon DEF WriteLemmas, AtPass
  <1>15. CASE WriteTranslations
    BY <1>6, <1>15, Zenon DEF WriteTranslations, AtPass
  <1>16. CASE WriteDefinitions
    BY <1>6, <1>16, Zenon DEF WriteDefinitions, AtPass
  <1>17. CASE ImportForms
    BY <1>6, <1>17, Zenon DEF ImportForms, AtPass
  <1> QED
    BY <1>1, <1>7, <1>8, <1>9, <1>10, <1>11, <1>12, <1>13, <1>14, <1>15, <1>16, <1>17,
       <1>18, <1>19, Writers, Zenon

(* A word list leaves each sense the last class it has for it. *)
LEMMA WordListWritten ==
    ASSUME TransOK, NEW file \in KotusLists, ImportKotus(file)
    PROVE  paradigm' \in [Senses -> Seq(Classes)] /\ ParadigmsKept'
  <1> DEFINE n == Len(file)
             D == [Senses -> Seq(Classes)]
             Classed(k, s) == {i \in 1..k : s \in SensesNamed(file[i]) /\ file[i].classes # <<>>}
             T == [k \in 0..n |-> {p \in D : \A s \in Senses :
                      Classed(k, s) # {} => p[s] = ParadigmClass(file[Max(Classed(k, s))])}]
  <1>1. n \in Nat /\ DOMAIN file = 1..n
    BY DictionaryAssumption
  <1>2. paradigm' = FoldLeft(ParadigmsWritten, paradigm, file) /\ wordList' = file
    BY Zenon DEF ImportKotus
  <1>3. paradigm \in D
    BY DEF TransOK
  <1>4. \A rows \in D, i \in 1..n : ParadigmsWritten(rows, file[i]) \in D
    <2> TAKE rows \in D, i \in 1..n
    <2> DEFINE classes == file[i].classes
    <2>1. file[i] \in Range(file)
      BY <1>1 DEF Range
    <2>2. classes \in Seq(Range(classes)) /\ Range(classes) \subseteq Classes
      BY <2>1, DictionaryAssumption DEF Classes
    <2> HIDE DEF classes
    <2>3. classes # <<>> => Head(classes) \in Classes
      BY <2>2
    <2>4. ParadigmClass(file[i]) \in Seq(Classes)
      BY <2>3 DEF ParadigmClass, classes
    <2> QED
      BY <2>4 DEF ParadigmsWritten
  <1>5. paradigm \in T[0]
    <2>1. \A s : Classed(0, s) = {}
      OBVIOUS
    <2> HIDE DEF Classed, D
    <2> QED
      BY <1>1, <1>3, <2>1
  <1>6. ASSUME NEW k \in 1..n, NEW rows \in T[k - 1]
        PROVE  ParadigmsWritten(rows, file[k]) \in T[k]
    <2> DEFINE p == ParadigmsWritten(rows, file[k])
    <2>1. k \in Nat /\ k - 1 \in 0..n /\ k \in 0..n
      BY <1>1
    <2>2. /\ rows \in D
          /\ \A s \in Senses : Classed(k - 1, s) # {} =>
                 rows[s] = ParadigmClass(file[Max(Classed(k - 1, s))])
      <3> HIDE DEF Classed, D
      <3> QED
        BY <2>1
    <2>3. p \in D
      BY <1>4, <2>2
    <2>4. ASSUME NEW s \in Senses, Classed(k, s) # {}
          PROVE  p[s] = ParadigmClass(file[Max(Classed(k, s))])
      <3>1. CASE s \in SensesNamed(file[k]) /\ file[k].classes # <<>>
        <4>1. k \in Classed(k, s) /\ Classed(k, s) \in SUBSET (1..k)
          BY <2>1, <3>1
        <4> HIDE DEF Classed
        <4>2. Max(Classed(k, s)) \in 1..k /\ Max(Classed(k, s)) >= k
          BY <2>1, <4>1, MaxIsGreatest
        <4>3. Max(Classed(k, s)) = k
          BY <2>1, <4>2
        <4>4. ParadigmClass(file[k]) # <<>>
          BY <3>1 DEF ParadigmClass
        <4>5. p[s] = ParadigmClass(file[k])
          BY <3>1, <4>4 DEF ParadigmsWritten
        <4> QED
          BY <4>3, <4>5
      <3>2. CASE ~(s \in SensesNamed(file[k]) /\ file[k].classes # <<>>)
        <4>1. Classed(k, s) = Classed(k - 1, s)
          BY <2>1, <3>2
        <4>2. ~(s \in SensesNamed(file[k]) /\ ParadigmClass(file[k]) # <<>>)
          BY <3>2 DEF ParadigmClass
        <4>3. p[s] = rows[s]
          BY <4>2 DEF ParadigmsWritten
        <4> HIDE DEF Classed
        <4> QED
          BY <2>2, <2>4, <4>1, <4>3
      <3> QED
        BY <3>1, <3>2
    <2> HIDE DEF Classed, D, p
    <2>5. p \in T[k]
      BY <2>1, <2>3, <2>4
    <2> QED
      BY <2>5 DEF p
  <1>7. paradigm' \in T[n]
    <2> HIDE DEF T, D
    <2>1. \A k \in 1..n : \A rows \in T[k - 1] : ParadigmsWritten(rows, file[k]) \in T[k]
      BY <1>6
    <2>2. FoldLeft(ParadigmsWritten, paradigm, file) \in T[n]
      BY <1>1, <1>3, <1>4, <1>5, <2>1, ParadigmsWrittenRun
    <2> QED
      BY <1>2, <2>2
  <1>8. /\ paradigm' \in D
        /\ \A s \in Senses : Classed(n, s) # {} =>
               paradigm'[s] = ParadigmClass(file[Max(Classed(n, s))])
    <2> HIDE DEF Classed, D
    <2> QED
      BY <1>1, <1>7
  <1>9. ParadigmsKept'
    BY <1>1, <1>2, <1>8, Zenon DEF ParadigmsKept, SensesNamed
  <1> QED
    BY <1>8, <1>9

(* Translations are sequences of glosses, and a class has a sense. *)
LEMMA StepTrans ==
    ASSUME JobOK, TransOK, KaikkiIsFresh, [Next]_vars
    PROVE  TransOK'
  <1>1. /\ DOMAIN trans' = Translated /\ DOMAIN trans'["ekilex"] = Senses
        /\ trans'["kaikki"] \in [Senses -> Seq(Glosses)]
    <2>1. CASE trans' = trans
      BY <2>1 DEF TransOK
    <2>2. CASE DropTranslations
      BY <2>2 DEF DropTranslations, Translated
    <2>3. CASE KaikkiBatch
      BY <2>3, BatchIsFresh DEF TransOK
    <2>4. CASE WriteTranslations
      <3> DEFINE new == [s \in Senses |-> OrderedTranslations(MeaningsOf(job.drop.entries, s))]
      <3>1. trans' = [trans EXCEPT !["ekilex"] = new]
        BY <2>4, Zenon DEF WriteTranslations
      <3>2. DOMAIN new = Senses
        OBVIOUS
      <3> HIDE DEF new
      <3> QED
        BY <3>1, <3>2 DEF TransOK, Translated
    <2> QED
      BY <2>1, <2>2, <2>3, <2>4, Writers
  <1>2. paradigm' \in [Senses -> Seq(Classes)]
    <2>1. CASE <<paradigm, wordList>>' = <<paradigm, wordList>>
      BY <2>1 DEF TransOK
    <2>2. CASE DropLemmas
      BY <2>2 DEF DropLemmas
    <2>3. CASE KotusStep
      BY <2>3, WordListWritten, Zenon DEF KotusStep
    <2> QED
      BY <2>1, <2>2, <2>3, Writers
  <1> QED
    BY <1>1, <1>2 DEF TransOK

(* The classes of the last word list stay. *)
LEMMA StepParadigms ==
    ASSUME TransOK, ParadigmsKept, [Next]_vars
    PROVE  ParadigmsKept'
  <1>1. CASE <<paradigm, wordList>>' = <<paradigm, wordList>>
    <2>1. paradigm' = paradigm /\ wordList' = wordList
      BY <1>1
    <2> QED
      BY <2>1, Zenon DEF ParadigmsKept, SensesNamed
  <1>2. CASE DropLemmas
    <2>1. wordList' = <<>>
      BY <1>2 DEF DropLemmas
    <2>2. \A s : {i \in DOMAIN wordList' :
                     s \in SensesNamed(wordList'[i]) /\ wordList'[i].classes # <<>>} = {}
      BY <2>1
    <2> QED
      BY <2>2 DEF ParadigmsKept
  <1>3. CASE KotusStep
    BY <1>3, WordListWritten, Zenon DEF KotusStep
  <1> QED
    BY <1>1, <1>2, <1>3, Writers

(* The translations of a running import are those of its dump. *)
LEMMA StepFresh ==
    ASSUME JobOK, TransOK, KaikkiIsFresh, [Next]_vars
    PROVE  KaikkiIsFresh'
  <1> SUFFICES ASSUME job'.tool = "kaikki", job'.pc \in {"import", "glosses"},
                      job'.pc = "import" => job'.done > 0,
                      NEW s \in Senses
               PROVE  Range(trans'["kaikki"][s]) \subseteq InDump(job'.dump, s)
    BY DEF KaikkiIsFresh, InDump
  <1>1. ASSUME trans' = trans, job.tool = "kaikki", job'.dump = job.dump,
               job.pc = "glosses" \/ (job.pc = "import" /\ job.done > 0)
        PROVE  Range(trans'["kaikki"][s]) \subseteq InDump(job'.dump, s)
    BY <1>1 DEF KaikkiIsFresh, InDump
  <1>2. CASE KaikkiBatch
    <2>1. job.tool = "kaikki" /\ job'.dump = job.dump
      <3>1. job.tool = "kaikki"
        BY <1>2, KaikkiAt
      <3>2. job \in KaikkiJobs
        BY <3>1, JobKinds
      <3> QED
        BY <1>2, <3>1, <3>2, Zenon DEF KaikkiBatch, KaikkiJobs
    <2> QED
      BY <1>2, <2>1, BatchIsFresh DEF InDump
  <1>3. CASE DropTranslations
    BY <1>3 DEF DropTranslations, Range, Translated
  <1>4. CASE trans' = trans /\ job' = job
    BY <1>1, <1>4
  <1>5. CASE trans' = trans /\ ApplyCustomGloss
    <2>1. /\ job.tool \in {"kaikki", "smoke"} /\ job.pc = "glosses"
          /\ job' = [job EXCEPT !.csv = Tail(@)]
      BY <1>5, Zenon DEF ApplyCustomGloss, ImportAt
    <2>2. job.tool = "kaikki"
      <3>1. job.tool = "smoke" => job'.tool = "smoke"
        BY <2>1, JobKinds DEF SmokeJobs
      <3> QED
        BY <2>1, <3>1
    <2>3. job \in KaikkiJobs
      BY <2>2, JobKinds
    <2>4. job'.dump = job.dump
      BY <2>1, <2>3 DEF KaikkiJobs
    <2> QED
      BY <1>1, <1>5, <2>1, <2>2, <2>4
  <1>6. ~StartStep
    <2>1. ASSUME NEW d, NEW prio, NEW reimport, NEW csv, StartKaikki(d, prio, reimport, csv)
          PROVE  FALSE
      <3> DEFINE pc == FirstPlace(reimport)
      <3>1. job' = [tool |-> "kaikki", pc |-> pc, dump |-> d, prio |-> prio, done |-> 0, csv |-> csv]
        BY <2>1, Zenon DEF StartKaikki
      <3>2. job'.pc = pc /\ job'.done = 0
        BY <3>1
      <3>3. pc # "glosses"
        BY DEF FirstPlace
      <3> QED
        BY <3>2, <3>3
    <2>2. \A d, reimport : ~StartBackfill(d, reimport)
      BY DEF StartBackfill
    <2>3. \A words, prio, reimport, csv : ~StartSmoke(words, prio, reimport, csv)
      BY DEF StartSmoke
    <2>4. \A d : ~StartEkilex(d)
      BY DEF StartEkilex
    <2> QED
      BY <2>1, <2>2, <2>3, <2>4, Zenon DEF StartStep
  <1>7. ~(RecordImport \/ RecordEkilex \/ Abort)
    <2>1. job' # Idle
      BY DEF Idle
    <2> QED
      BY <2>1, Zenon DEF RecordImport, RecordEkilex, Abort
  <1>10. ~(BackfillFeats \/ SmokeImport)
    <2>1. ASSUME BackfillFeats PROVE FALSE
      <3> DEFINE last == Min(CommittedAfter \cup {Len(job.dump)})
      <3>1. job.tool = "backfill" /\ (job' = Idle \/ job' = [job EXCEPT !.done = last])
        BY <2>1, Zenon DEF BackfillFeats, ImportAt
      <3> HIDE DEF last
      <3>2. job'.tool # "kaikki"
        BY <3>1, JobKinds DEF BackfillJobs, Idle
      <3> QED
        BY <3>2
    <2>2. ASSUME SmokeImport PROVE FALSE
      <3>1. job.tool = "smoke" /\ job' = [job EXCEPT !.pc = "glosses"]
        BY <2>2, Zenon DEF SmokeImport, ImportAt
      <3>2. job'.tool = "smoke"
        BY <3>1, JobKinds DEF SmokeJobs
      <3> QED
        BY <3>2
    <2> QED
      BY <2>1, <2>2
  <1>8. ~(DropForms \/ DropLemmas)
    <2>1. ASSUME NEW pc \in {"dropLemmas", "dropTranslations"},
                 job.tool \in {"kaikki", "backfill", "smoke"}, job' = [job EXCEPT !.pc = pc]
          PROVE  FALSE
      <3>1. job \in KaikkiJobs \cup BackfillJobs \cup SmokeJobs
        BY <2>1, JobKinds
      <3>2. job'.pc = pc
        BY <2>1, <3>1 DEF KaikkiJobs, BackfillJobs, SmokeJobs
      <3> QED
        BY <3>2
    <2> QED
      BY <2>1, Zenon DEF DropForms, DropLemmas, ImportAt
  <1>9. ~(WriteLemmas \/ WriteTranslations \/ WriteDefinitions \/ ImportForms)
    <2>1. ASSUME NEW pc, job.tool = "ekilex", job' = [job EXCEPT !.pc = pc] PROVE FALSE
      <3>1. job \in EkilexJobs
        BY <2>1, JobKinds
      <3>2. job'.tool = "ekilex"
        BY <2>1, <3>1 DEF EkilexJobs
      <3> QED
        BY <3>2
    <2> QED
      BY <2>1, Zenon DEF WriteLemmas, WriteTranslations, WriteDefinitions, ImportForms, AtPass
  <1> QED
    BY <1>2, <1>3, <1>4, <1>5, <1>6, <1>7, <1>8, <1>9, <1>10, Writers, Zenon

(* A row of the lemmas, with what GlossesFromDumps and RowsRanked say of it. *)
RowOK(row) ==
    /\ DOMAIN row = {"src", "prio", "gloss"} /\ row.src \in Sources /\ row.prio \in Int
    /\ row.src \in {"public", "kaikki", "kotus"} /\ row.prio < Priority["ekilex"] =>
           row.gloss = <<>> \/ FromDump(row.gloss)
    /\ row.src \in {"custom", "custom_overrides"} => row.prio = Priority[row.src]

(* The invariants of the table, row by row. *)
LEMMA RowsOK ==
    LemmaRowsOK /\ GlossesFromDumps /\ LemmasRanked <=>
        DOMAIN lemmaRow = Senses /\ \A s \in Senses : RowOK(lemmaRow[s])
  BY Zenon DEF LemmaRowsOK, GlossesFromDumps, LemmasRanked, RowOK

(* A row an importer makes. *)
LEMMA NewRow ==
    ASSUME NEW src, NEW prio, NEW gloss, src \in Sources, prio \in Int,
           src \in {"public", "kaikki", "kotus"} /\ prio < Priority["ekilex"] =>
               gloss = <<>> \/ FromDump(gloss),
           src \in {"custom", "custom_overrides"} => prio = Priority[src]
    PROVE  RowOK([src |-> src, prio |-> prio, gloss |-> gloss])
  <1> DEFINE row == [src |-> src, prio |-> prio, gloss |-> gloss]
  <1>1. /\ DOMAIN row = {"src", "prio", "gloss"}
        /\ row.src = src /\ row.prio = prio /\ row.gloss = gloss
    OBVIOUS
  <1> HIDE DEF row
  <1>2. RowOK(row)
    BY <1>1, Zenon DEF RowOK
  <1> QED
    BY <1>2 DEF row

(* No row at all. *)
LEMMA NoRow == RowOK(NoLemma) /\ NoLemma.src = "none"
  BY NewRow DEF NoLemma, Sources

(* A row that has changed its owner, or its gloss. *)
LEMMA ChangedRow ==
    ASSUME NEW row, DOMAIN row = {"src", "prio", "gloss"}, NEW x, NEW y
    PROVE  /\ DOMAIN [row EXCEPT !.src = x, !.prio = y] = {"src", "prio", "gloss"}
           /\ [row EXCEPT !.src = x, !.prio = y].src = x
           /\ [row EXCEPT !.src = x, !.prio = y].prio = y
           /\ [row EXCEPT !.src = x, !.prio = y].gloss = row.gloss
           /\ DOMAIN [row EXCEPT !.gloss = x] = {"src", "prio", "gloss"}
           /\ [row EXCEPT !.gloss = x].src = row.src /\ [row EXCEPT !.gloss = x].prio = row.prio
           /\ [row EXCEPT !.gloss = x].gloss = x
  OBVIOUS

(* A weak row the Ekilex importer has taken over is filled, if it had no gloss. *)
LEMMA FilledRow ==
    ASSUME NEW row, DOMAIN row = {"src", "prio", "gloss"}, NEW s
    PROVE  LET new == Filled(row, s)
           IN  /\ DOMAIN new = {"src", "prio", "gloss"}
               /\ new.src = row.src /\ new.prio = row.prio
               /\ new.gloss = GlossInDrop(s) \/ new.gloss = row.gloss
               /\ row.gloss = <<>> => new.gloss = GlossInDrop(s)
  BY ChangedRow DEF Filled

(* The lemma pass of the Ekilex importer: who owns the row afterwards, and *)
(* where its gloss comes from.                                             *)
LEMMA LemmaPass ==
    ASSUME NEW row, RowOK(row), NEW s,
           NEW new, new = Filled(Upgraded(Refreshed(row, s), s), s)
    PROVE  /\ RowOK(new)
           /\ new.src = "ekilex" => new.gloss = GlossInDrop(s) \/ FromDump(new.gloss)
  <1> DEFINE a == Refreshed(row, s)
             b == Upgraded(a, s)
  <1>0. /\ DOMAIN row = {"src", "prio", "gloss"} /\ row.src \in Sources /\ row.prio \in Int
        /\ row.src \in {"custom", "custom_overrides"} => row.prio = Priority[row.src]
        /\ row.src \in {"public", "kaikki", "kotus"} /\ row.prio < Priority["ekilex"] =>
               row.gloss = <<>> \/ FromDump(row.gloss)
    BY Zenon DEF RowOK
  <1>1. /\ DOMAIN a = {"src", "prio", "gloss"} /\ a.src = row.src /\ a.prio = row.prio
        /\ a.src = "ekilex" => a.gloss = GlossInDrop(s)
        /\ a.src # "ekilex" => a.gloss = row.gloss
    BY <1>0, ChangedRow DEF Refreshed
  <1>5. b = Upgraded(a, s) /\ new = Filled(b, s)
    OBVIOUS
  <1> HIDE DEF a, b
  <1>6. ASSUME DOMAIN b = {"src", "prio", "gloss"}, b.src = "ekilex", b.prio \in Int,
               b.gloss = GlossInDrop(s) \/ b.gloss = <<>> \/ FromDump(b.gloss)
        PROVE  /\ RowOK(new)
               /\ new.src = "ekilex" => new.gloss = GlossInDrop(s) \/ FromDump(new.gloss)
    <2>1. /\ DOMAIN new = {"src", "prio", "gloss"} /\ new.src = "ekilex" /\ new.prio \in Int
          /\ new.gloss = GlossInDrop(s) \/ new.gloss = b.gloss
          /\ b.gloss = <<>> => new.gloss = GlossInDrop(s)
      BY <1>5, <1>6, FilledRow
    <2>2. new.gloss = GlossInDrop(s) \/ FromDump(new.gloss)
      BY <1>6, <2>1, Zenon
    <2>3. "ekilex" \in Sources
      BY DEF Sources
    <2>4. RowOK(new)
      BY <2>1, <2>3, Zenon DEF RowOK
    <2> QED
      BY <2>2, <2>4
  <1>2. CASE a.src = "none"
    <2>1. b = [src |-> "ekilex", prio |-> Priority["ekilex"], gloss |-> GlossInDrop(s)]
      BY <1>2, <1>5 DEF Upgraded
    <2>2. /\ DOMAIN b = {"src", "prio", "gloss"} /\ b.src = "ekilex" /\ b.prio \in Int
          /\ b.gloss = GlossInDrop(s)
      BY <2>1, Ranks
    <2> QED
      BY <1>6, <2>2
  <1>3. CASE a.src # "none" /\ a.prio < Priority["ekilex"]
    <2>1. b = [a EXCEPT !.src = "ekilex", !.prio = Priority["ekilex"]]
      BY <1>3, <1>5 DEF Upgraded
    <2>2. /\ DOMAIN b = {"src", "prio", "gloss"} /\ b.src = "ekilex" /\ b.prio \in Int
          /\ b.gloss = a.gloss
      BY <1>1, <2>1, ChangedRow, Ranks
    <2>3. a.src \in {"public", "kaikki", "kotus", "ekilex"}
      BY <1>0, <1>1, <1>3, Ranks DEF Sources
    <2>4. a.gloss = GlossInDrop(s) \/ a.gloss = <<>> \/ FromDump(a.gloss)
      BY <1>0, <1>1, <1>3, <2>3
    <2> QED
      BY <1>6, <2>2, <2>4
  <1>4. CASE a.src # "none" /\ ~(a.prio < Priority["ekilex"])
    <2>1. b = a
      BY <1>4, <1>5 DEF Upgraded
    <2>2. CASE a.src = "ekilex"
      <3>1. b.src = "ekilex" /\ b.prio \in Int /\ b.gloss = GlossInDrop(s)
        BY <1>0, <1>1, <2>1, <2>2
      <3> QED
        BY <1>1, <1>6, <2>1, <3>1
    <2>3. CASE a.src # "ekilex"
      <3>1. DOMAIN new = {"src", "prio", "gloss"} /\ new.src = row.src /\ new.prio = row.prio
        BY <1>1, <1>5, <2>1, FilledRow
      <3>2. ~(new.prio < Priority["ekilex"]) /\ new.src # "ekilex"
        BY <1>1, <1>4, <2>3, <3>1
      <3>3. RowOK(new)
        BY <1>0, <3>1, <3>2, Zenon DEF RowOK
      <3> QED
        BY <3>2, <3>3
    <2> QED
      BY <2>2, <2>3
  <1> QED
    BY <1>2, <1>3, <1>4

(* Many rows of one source: where its gloss is from if the source is a weak one. *)
LEMMA ManyRows ==
    ASSUME LemmaRowsOK, GlossesFromDumps, LemmasRanked,
           NEW src \in {"kaikki", "ekilex"}, NEW prio \in Int,
           NEW entries, NEW n \in Nat,
           src = "kaikki" =>
               /\ DOMAIN entries = 1..n
               /\ \A i \in 1..n : entries[i].gloss = <<>> \/ FromDump(entries[i].gloss),
           lemmaRow' = UpsertLemmas(src, prio, entries)
    PROVE  DOMAIN lemmaRow' = Senses /\ \A s \in Senses : RowOK(lemmaRow'[s])
  <1>1. DOMAIN lemmaRow' = Senses
    BY DEF UpsertLemmas
  <1>2. ASSUME NEW s \in Senses PROVE RowOK(lemmaRow'[s])
    <2> DEFINE own == {i \in DOMAIN entries : entries[i].sense = s}
               gloss == entries[Max(own)].gloss
    <2>1. lemmaRow'[s] = IF own # {} /\ Outranks(prio, lemmaRow[s])
                         THEN [src |-> src, prio |-> prio, gloss |-> gloss] ELSE lemmaRow[s]
      BY Zenon DEF UpsertLemmas
    <2>2. src = "kaikki" /\ own # {} => Max(own) \in 1..n
      BY MaxIsGreatest
    <2>3. src = "kaikki" /\ own # {} => gloss = <<>> \/ FromDump(gloss)
      BY <2>2
    <2> HIDE DEF own, gloss
    <2>4. src \in Sources /\ src \notin {"public", "kotus", "custom", "custom_overrides"}
      BY DEF Sources
    <2>5. CASE own # {} /\ Outranks(prio, lemmaRow[s])
      <3>1. RowOK([src |-> src, prio |-> prio, gloss |-> gloss])
        BY <2>3, <2>4, <2>5, NewRow
      <3> QED
        BY <2>1, <2>5, <3>1
    <2>6. CASE ~(own # {} /\ Outranks(prio, lemmaRow[s]))
      BY <2>1, <2>6, RowsOK, Zenon
    <2> QED
      BY <2>5, <2>6
  <1> QED
    BY <1>1, <1>2

(* The ranks of a running importer are numbers below that of corrections. *)
LEMMA RanksOfJobs ==
    ASSUME JobOK, job.tool \in {"kaikki", "smoke"}
    PROVE  job.prio \in Int /\ job.prio < Override
  <1>1. job \in KaikkiJobs \cup SmokeJobs
    BY JobKinds
  <1>2. job.prio \in SourcePriorities
    BY <1>1 DEF KaikkiJobs, SmokeJobs
  <1> QED
    BY <1>2, DictionaryAssumption DEF Override

(* Weaker rows than those of Ekilex have their gloss from a dump. *)
LEMMA StepLemmaRows ==
    ASSUME JobOK, LemmaRowsOK, GlossesFromDumps, LemmasRanked, [Next]_vars
    PROVE  LemmaRowsOK' /\ GlossesFromDumps' /\ LemmasRanked'
  <1> SUFFICES DOMAIN lemmaRow' = Senses /\ \A s \in Senses : RowOK(lemmaRow'[s])
    BY Zenon DEF LemmaRowsOK, GlossesFromDumps, LemmasRanked, RowOK
  <1>0. DOMAIN lemmaRow = Senses /\ \A s \in Senses : RowOK(lemmaRow[s])
    BY RowsOK
  <1>1. CASE lemmaRow' = lemmaRow
    BY <1>0, <1>1
  <1>2. CASE DropLemmas
    <2>1. lemmaRow' = [s \in Senses |-> NoLemma]
      BY <1>2 DEF DropLemmas
    <2> QED
      BY <2>1, NoRow, Zenon
  <1>3. CASE KaikkiBatch
    <2> DEFINE batch == SubSeq(job.dump, job.done + 1,
                               IF job.done + BatchSize < Len(job.dump)
                               THEN job.done + BatchSize ELSE Len(job.dump))
               entries == [i \in DOMAIN batch |->
                              [sense |-> batch[i].sense, gloss |-> PrimaryGloss(batch[i])]]
    <2>1. job.tool = "kaikki" /\ lemmaRow' = UpsertLemmas("kaikki", job.prio, entries)
      BY <1>3, KaikkiAt, Zenon DEF KaikkiBatch
    <2>2. /\ Len(batch) \in Nat /\ DOMAIN batch = 1..Len(batch)
          /\ \A i \in DOMAIN batch : batch[i] \in Range(job.dump)
      BY <2>1, BatchOfDump, Zenon
    <2>3. job.dump \in KaikkiDumps
      BY <2>1, JobKinds DEF KaikkiJobs
    <2> HIDE DEF batch
    <2>4. DOMAIN entries = 1..Len(batch)
      BY <2>2
    <2>5. \A i \in 1..Len(batch) : FromDump(entries[i].gloss)
      BY <2>2, <2>3 DEF FromDump
    <2> HIDE DEF entries
    <2>6. job.prio \in Int
      BY <2>1, RanksOfJobs
    <2> QED
      BY <2>1, <2>2, <2>4, <2>5, <2>6, ManyRows
  <1>4. CASE ApplyCustomGloss
    <2> DEFINE row == Head(job.csv)
    <2>1. lemmaRow' = UpsertLemma(lemmaRow, row.sense, "custom", Priority["custom"], <<row.gloss>>)
      BY <1>4, Zenon DEF ApplyCustomGloss
    <2> DEFINE new == [src |-> "custom", prio |-> Priority["custom"], gloss |-> <<row.gloss>>]
    <2> HIDE DEF row
    <2>2. RowOK(new)
      BY NewRow, Ranks DEF Sources
    <2>3. lemmaRow' = lemmaRow \/ lemmaRow' = [lemmaRow EXCEPT ![row.sense] = new]
      BY <2>1 DEF UpsertLemma
    <2> HIDE DEF new
    <2> QED
      BY <1>0, <2>2, <2>3 DEF new
  <1>5. CASE WriteLemmas
    <2>1. lemmaRow' = [s \in Senses |-> IF Listed(s)
                                        THEN Filled(Upgraded(Refreshed(lemmaRow[s], s), s), s)
                                        ELSE lemmaRow[s]]
      BY <1>5, Zenon DEF WriteLemmas
    <2>2. \A s \in Senses : lemmaRow'[s] = lemmaRow[s] \/
                             lemmaRow'[s] = Filled(Upgraded(Refreshed(lemmaRow[s], s), s), s)
      BY <2>1, Zenon
    <2>3. DOMAIN lemmaRow' = Senses
      BY <2>1, Zenon
    <2> QED
      BY <1>0, <2>2, <2>3, LemmaPass, Zenon
  <1>6. CASE SmallImport
    <2>2. ASSUME NEW words \in WordLists, ImportPublicWords(words)
          PROVE  DOMAIN lemmaRow' = Senses /\ \A s \in Senses : RowOK(lemmaRow'[s])
      <3> DEFINE new == [src |-> "public", prio |-> Priority["public"], gloss |-> <<>>]
      <3>1. lemmaRow' = [s \in Senses |->
               IF s.pos = "X" /\ s.lemma \in words /\ lemmaRow[s].src = "none"
               THEN new ELSE lemmaRow[s]]
        BY <2>2, Zenon DEF ImportPublicWords
      <3>2. RowOK(new)
        BY NewRow, Ranks DEF Sources
      <3> HIDE DEF new
      <3> QED
        BY <1>0, <3>1, <3>2
    <2> QED
      BY <1>6, <2>2, Zenon DEF SmallImport
  <1>9. CASE SmokeImport
    <2> DEFINE entries == FlattenSeq([i \in DOMAIN job.words |-> EntriesOf(job.words[i])])
    <2>1. job.tool = "smoke" /\ lemmaRow' = UpsertLemmas("ekilex", job.prio, entries)
      BY <1>9, Zenon DEF SmokeImport, ImportAt
    <2>2. job.prio \in Int /\ 0 \in Nat
      BY <2>1, RanksOfJobs
    <2> HIDE DEF entries
    <2>3. "ekilex" # "kaikki"
      OBVIOUS
    <2> QED
      BY <2>1, <2>2, <2>3, ManyRows
  <1>7. CASE KotusStep
    <2>1. PICK file \in KotusLists : ImportKotus(file)
      BY <1>7 DEF KotusStep
    <2> DEFINE new == [src |-> "kotus", prio |-> Priority["kotus"], gloss |-> <<>>]
    <2>2. lemmaRow' = [s \in Senses |->
             IF lemmaRow[s].src = "none" /\ \E e \in Range(file) : s \in SensesNamed(e)
             THEN new ELSE lemmaRow[s]]
      BY <2>1, Zenon DEF ImportKotus
    <2>3. RowOK(new)
      BY NewRow, Ranks DEF Sources
    <2> HIDE DEF new
    <2> QED
      BY <1>0, <2>2, <2>3
  <1>8. CASE ReviewStep
    <2>1. PICK r \in Reports, status \in Statuses \ {"submitted"}, c \in Corrections :
              ReviewParseFeedback(r, status, c)
      BY <1>8, Zenon DEF ReviewStep
    <2>2. CASE lemmaRow' = lemmaRow
      BY <1>0, <2>2
    <2>3. ASSUME NEW f, NEW s, NEW feats, WriteBack(report', f, s, feats)
          PROVE  DOMAIN lemmaRow' = Senses /\ \A t \in Senses : RowOK(lemmaRow'[t])
      <3> DEFINE taken == [lemmaRow[s] EXCEPT !.src = "custom_overrides", !.prio = Override]
                 new == IF Outranks(Override, lemmaRow[s]) THEN taken ELSE lemmaRow[s]
      <3>2. lemmaRow' = [lemmaRow EXCEPT ![s] = new]
        BY <2>3, Zenon DEF WriteBack
      <3>3. s \in Senses => RowOK(new)
        <4> SUFFICES ASSUME s \in Senses PROVE RowOK(taken)
          BY <1>0
        <4>1. DOMAIN lemmaRow[s] = {"src", "prio", "gloss"}
          BY <1>0 DEF RowOK
        <4>2. /\ DOMAIN taken = {"src", "prio", "gloss"} /\ taken.src = "custom_overrides"
              /\ taken.prio = Override
          BY <4>1, ChangedRow
        <4> HIDE DEF taken
        <4>3. Override \in Int /\ Override = Priority["custom_overrides"]
          BY Ranks
        <4>4. taken.src \in Sources /\ taken.src \notin {"public", "kaikki", "kotus"}
          BY <4>2 DEF Sources
        <4> QED
          BY <4>2, <4>3, <4>4, Zenon DEF RowOK
      <3> HIDE DEF new
      <3> QED
        BY <1>0, <3>2, <3>3
    <2>4. lemmaRow' = lemmaRow \/ \E f, s, feats : WriteBack(report', f, s, feats)
      BY <2>1, Zenon DEF ReviewParseFeedback
    <2> QED
      BY <2>2, <2>3, <2>4
  <1> QED
    BY <1>1, <1>2, <1>3, <1>4, <1>5, <1>6, <1>7, <1>8, <1>9, Writers

(* A row of the forms after a step of an importer: the same sources, and an *)
(* override row neither comes nor goes.                                     *)
ImportedOver(row, new) ==
    /\ DOMAIN new = {"src", "prio", "feats"} /\ new.src \in Sources \ {"custom"} /\ new.prio \in Int
    /\ IF new.src = "custom_overrides" THEN row.src = "custom_overrides" /\ new.prio = Override
       ELSE row.src # "custom_overrides" /\ new.prio < Override

(* The table before the step. *)
LEMMA FormsBefore ==
    ASSUME FormRowsOK, FormsRanked, NEW f \in Words, NEW s \in Senses
    PROVE  ImportedOver(formRow[f][s], formRow[f][s])
  <1>1. /\ DOMAIN formRow[f][s] = {"src", "prio", "feats"}
        /\ formRow[f][s].src \in Sources \ {"custom"} /\ formRow[f][s].prio \in Int
    BY Zenon DEF FormRowsOK
  <1>2. IF formRow[f][s].src = "custom_overrides" THEN formRow[f][s].prio = Override
        ELSE formRow[f][s].prio < Override
    BY Zenon DEF FormsRanked
  <1> QED
    BY <1>1, <1>2, Zenon DEF ImportedOver

(* Rows of the importers are no override rows. *)
LEMMA NewForm ==
    ASSUME NEW src \in {"none", "public", "kaikki", "ekilex"}, NEW prio \in Int, prio < Override,
           NEW feats, NEW row, row.src # "custom_overrides"
    PROVE  ImportedOver(row, [src |-> src, prio |-> prio, feats |-> feats])
  <1> DEFINE new == [src |-> src, prio |-> prio, feats |-> feats]
  <1>1. DOMAIN new = {"src", "prio", "feats"} /\ new.src = src /\ new.prio = prio
    OBVIOUS
  <1> HIDE DEF new
  <1>2. src \in Sources \ {"custom"} /\ src # "custom_overrides"
    BY DEF Sources
  <1>3. ImportedOver(row, new)
    BY <1>1, <1>2, Zenon DEF ImportedOver
  <1> QED
    BY <1>3 DEF new

(* A weaker rank does not reach the rows of a correction. *)
LEMMA Outranked ==
    ASSUME FormsRanked, NEW prio \in Int, prio < Override, NEW f \in Words, NEW s \in Senses,
           Outranks(prio, formRow[f][s])
    PROVE  formRow[f][s].src # "custom_overrides"
  BY Ranks DEF FormsRanked, Outranks

(* upsertFormSQL spares the rows of a correction. *)
LEMMA ManyForms ==
    ASSUME FormRowsOK, FormsRanked, NEW src \in {"kaikki", "ekilex"}, NEW prio \in Int,
           prio < Override, NEW listed,
           formRow' = UpsertForms(src, prio, listed), NEW f \in Words, NEW s \in Senses
    PROVE  ImportedOver(formRow[f][s], formRow'[f][s])
  <1> DEFINE new == [src |-> src, prio |-> prio, feats |-> Last(listed[f][s])]
  <1>1. formRow'[f][s] = IF listed[f][s] # <<>> /\ Outranks(prio, formRow[f][s])
                         THEN new ELSE formRow[f][s]
    BY Zenon DEF UpsertForms
  <1>3. CASE listed[f][s] # <<>> /\ Outranks(prio, formRow[f][s])
    <2>1. formRow[f][s].src # "custom_overrides"
      BY <1>3, Outranked
    <2>2. ImportedOver(formRow[f][s], new)
      BY <2>1, NewForm
    <2> QED
      BY <1>1, <1>3, <2>2
  <1>4. CASE ~(listed[f][s] # <<>> /\ Outranks(prio, formRow[f][s]))
    <2>1. formRow'[f][s] = formRow[f][s]
      BY <1>1, <1>4
    <2> QED
      BY <2>1, FormsBefore
  <1> QED
    BY <1>3, <1>4

(* No importer but -reimport touches an override row. *)
LEMMA ImportersSpareOverrides ==
    ASSUME JobOK, FormRowsOK, FormsRanked,
           KaikkiBatch \/ BackfillFeats \/ SmokeImport \/ ImportForms \/ SmallImport
    PROVE  /\ DOMAIN formRow' = Words /\ \A f \in Words : DOMAIN formRow'[f] = Senses
           /\ \A f \in Words, s \in Senses : ImportedOver(formRow[f][s], formRow'[f][s])
  <1>0. \A f \in Words, s \in Senses :
            /\ DOMAIN formRow[f][s] = {"src", "prio", "feats"}
            /\ formRow[f][s].src \in Sources \ {"custom"} /\ formRow[f][s].prio \in Int
    BY DEF FormRowsOK
  <1>1. \A f \in Words, s \in Senses : ImportedOver(formRow[f][s], formRow[f][s])
    BY FormsBefore
  <1>2. CASE KaikkiBatch
    <2>1. PICK listed : formRow' = UpsertForms("kaikki", job.prio, listed)
      BY <1>2, Zenon DEF KaikkiBatch
    <2>2. DOMAIN formRow' = Words /\ \A f \in Words : DOMAIN formRow'[f] = Senses
      BY <2>1 DEF UpsertForms
    <2>3. job.prio \in Int /\ job.prio < Override
      BY <1>2, KaikkiAt, RanksOfJobs
    <2> QED
      BY <2>1, <2>2, <2>3, ManyForms
  <1>6. CASE SmokeImport
    <2>1. PICK listed : formRow' = UpsertForms("ekilex", job.prio, listed)
      BY <1>6, Zenon DEF SmokeImport
    <2>2. DOMAIN formRow' = Words /\ \A f \in Words : DOMAIN formRow'[f] = Senses
      BY <2>1 DEF UpsertForms
    <2>3. job.tool = "smoke"
      BY <1>6, Zenon DEF SmokeImport, ImportAt
    <2>4. job.prio \in Int /\ job.prio < Override
      BY <2>3, RanksOfJobs
    <2> QED
      BY <2>1, <2>2, <2>4, ManyForms
  <1>3. CASE BackfillFeats
    <2> DEFINE New(f, s, x) == [formRow[f][s] EXCEPT !.feats = x]
    <2>1. /\ DOMAIN formRow' = Words /\ \A f \in Words : DOMAIN formRow'[f] = Senses
          /\ \A f \in Words, s \in Senses :
                 formRow'[f][s] = formRow[f][s] \/ \E x : formRow'[f][s] = New(f, s, x)
      <3> DEFINE last == Min(CommittedAfter \cup {Len(job.dump)})
                 rows == FlattenSeq([i \in 1..(last - job.done) |->
                                        Scanned(job.dump[job.done + i])])
                 listed(f) == SelectSeq(rows, LAMBDA x : x.form = f)
      <3>1. formRow' = [f \in Words |-> [s \in Senses |->
                IF formRow[f][s].src # "none" /\ formRow[f][s].feats = NoFeats /\ listed(f) # <<>>
                THEN New(f, s, Head(listed(f)).feats) ELSE formRow[f][s]]]
        BY <1>3, Zenon DEF BackfillFeats
      <3> HIDE DEF listed, New
      <3>2. DOMAIN formRow' = Words /\ \A f \in Words : DOMAIN formRow'[f] = Senses
        BY <3>1
      <3>3. \A f \in Words, s \in Senses :
                formRow'[f][s] = formRow[f][s] \/ formRow'[f][s] = New(f, s, Head(listed(f)).feats)
        BY <3>1
      <3> QED
        BY <3>2, <3>3, Zenon
    <2>2. ASSUME NEW f \in Words, NEW s \in Senses, NEW x
          PROVE  ImportedOver(formRow[f][s], New(f, s, x))
      <3> DEFINE row == formRow[f][s]
                 new == [row EXCEPT !.feats = x]
      <3>1. /\ DOMAIN row = {"src", "prio", "feats"} /\ row.src \in Sources \ {"custom"}
            /\ row.prio \in Int /\ ImportedOver(row, row)
        BY <1>0, <1>1
      <3> HIDE DEF row
      <3>2. DOMAIN new = {"src", "prio", "feats"} /\ new.src = row.src /\ new.prio = row.prio
        BY <3>1
      <3> HIDE DEF new
      <3>3. ImportedOver(row, new)
        BY <3>1, <3>2, Zenon DEF ImportedOver
      <3> QED
        BY <3>3 DEF row, new
    <2> HIDE DEF New
    <2>3. ASSUME NEW f \in Words, NEW s \in Senses
          PROVE  ImportedOver(formRow[f][s], formRow'[f][s])
      <3>1. CASE formRow'[f][s] = formRow[f][s]
        BY <1>1, <3>1, Zenon
      <3>2. CASE \E x : formRow'[f][s] = New(f, s, x)
        BY <2>2, <3>2, Zenon
      <3> QED
        BY <2>1, <3>1, <3>2, Zenon
    <2> QED
      BY <2>1, <2>3, Zenon
  <1>4. CASE ImportForms
    <2> DEFINE readings(f, s) == ReadingsOf(job.drop.entries, job.drop.lines, f, s)
               Feats(f, s) == MergedFeats(formRow[f][s].feats, formRow[f][s].src = "ekilex",
                                          readings(f, s))
               new(f, s) == [src |-> "ekilex", prio |-> Priority["ekilex"], feats |-> Feats(f, s)]
    <2>1. formRow' = [f \in Words |-> [s \in Senses |->
              IF readings(f, s) = <<>> \/ ~Outranks(Priority["ekilex"], formRow[f][s])
              THEN formRow[f][s] ELSE new(f, s)]]
      BY <1>4, Zenon DEF ImportForms
    <2>4. Priority["ekilex"] \in Int /\ Priority["ekilex"] < Override
      BY Ranks
    <2> HIDE DEF readings, Feats
    <2>5. ASSUME NEW f \in Words, NEW s \in Senses, formRow[f][s].src # "custom_overrides"
          PROVE  ImportedOver(formRow[f][s], new(f, s))
      BY <2>4, <2>5, NewForm
    <2> HIDE DEF new
    <2>2. DOMAIN formRow' = Words /\ \A f \in Words : DOMAIN formRow'[f] = Senses
      BY <2>1
    <2>3. ASSUME NEW f \in Words, NEW s \in Senses
          PROVE  ImportedOver(formRow[f][s], formRow'[f][s])
      <3>1. CASE formRow'[f][s] = formRow[f][s]
        BY <1>1, <3>1
      <3>2. CASE Outranks(Priority["ekilex"], formRow[f][s]) /\ formRow'[f][s] = new(f, s)
        <4>1. formRow[f][s].src # "custom_overrides"
          BY <2>4, <3>2, Outranked
        <4> QED
          BY <2>5, <3>2, <4>1
      <3> QED
        BY <2>1, <3>1, <3>2
    <2> QED
      BY <2>2, <2>3
  <1>5. CASE SmallImport
    <2>1. PICK words : ImportPublicWords(words)
      BY <1>5, Zenon DEF SmallImport
    <2> DEFINE new == [src |-> "public", prio |-> Priority["public"], feats |-> NoFeats]
    <2>2. formRow' = [f \in Words |-> [s \in Senses |->
             IF s.pos = "X" /\ s.lemma = f /\ f \in words /\ formRow[f][s].src = "none"
             THEN new ELSE formRow[f][s]]]
      BY <2>1, Zenon DEF ImportPublicWords
    <2>5. \A row : row.src = "none" => ImportedOver(row, new)
      BY NewForm, Ranks
    <2> HIDE DEF new
    <2>3. DOMAIN formRow' = Words /\ \A f \in Words : DOMAIN formRow'[f] = Senses
      BY <2>2
    <2>4. \A f \in Words, s \in Senses :
             \/ formRow'[f][s] = formRow[f][s]
             \/ formRow[f][s].src = "none" /\ formRow'[f][s] = new
      BY <2>2
    <2> QED
      BY <1>1, <2>3, <2>4, <2>5, Zenon
  <1> QED
    BY <1>2, <1>3, <1>4, <1>5, <1>6

(* The form of an accepted correction has its override row, and no other. *)
LEMMA WriteBackAnswers ==
    ASSUME FormRowsOK, FormsRanked, OverrideAnswers, answer \in [Words -> Senses \cup {NoSense}],
           NEW rep, NEW f \in Words, NEW s \in Senses, NEW feats, WriteBack(rep, f, s, feats)
    PROVE  FormRowsOK' /\ FormsRanked' /\ OverrideAnswers'
  <1> DEFINE Old(t) == WithoutOverride(formRow[f][t])
             put == [src |-> "custom_overrides", prio |-> Override, feats |-> feats]
             own == [t \in Senses |-> IF t = s /\ Outranks(Override, Old(t)) THEN put ELSE Old(t)]
  <1>1. formRow' = [formRow EXCEPT ![f] = own] /\ answer' = [answer EXCEPT ![f] = s]
    BY Zenon DEF WriteBack
  <1>2. ASSUME NEW t \in Senses
        PROVE  /\ DOMAIN Old(t) = {"src", "prio", "feats"}
               /\ Old(t).src \in Sources \ {"custom", "custom_overrides"}
               /\ Old(t).prio \in Int /\ Old(t).prio < Override
    <2>1. /\ DOMAIN formRow[f][t] = {"src", "prio", "feats"}
          /\ formRow[f][t].src \in Sources \ {"custom"} /\ formRow[f][t].prio \in Int
      BY DEF FormRowsOK
    <2>2. formRow[f][t].src # "custom_overrides" => formRow[f][t].prio < Override
      BY DEF FormsRanked
    <2>3. /\ DOMAIN NoForm = {"src", "prio", "feats"} /\ NoForm.src = "none" /\ NoForm.prio = 0
          /\ "none" \in Sources \ {"custom", "custom_overrides"}
      BY DEF NoForm, Sources
    <2> QED
      BY <2>1, <2>2, <2>3, Ranks DEF WithoutOverride
  <1>8. DOMAIN put = {"src", "prio", "feats"} /\ put.src = "custom_overrides" /\ put.prio = Override
    OBVIOUS
  <1> HIDE DEF put
  <1>3. ASSUME NEW t \in Senses
        PROVE  /\ DOMAIN own[t] = {"src", "prio", "feats"} /\ own[t].src \in Sources \ {"custom"}
               /\ own[t].prio \in Int
               /\ own[t].src = "custom_overrides" <=> t = s
               /\ IF own[t].src = "custom_overrides" THEN own[t].prio = Override
                  ELSE own[t].prio < Override
    <2>1. Outranks(Override, Old(t))
      <3>1. Old(t).prio <= Override
        BY <1>2, Ranks
      <3> QED
        BY <3>1, Zenon DEF Outranks
    <2>2. own[t] = IF t = s THEN put ELSE Old(t)
      BY <2>1
    <2> HIDE DEF own, Old
    <2> QED
      BY <1>2, <1>8, <2>2, Ranks DEF Sources
  <1>4. DOMAIN own = Senses
    OBVIOUS
  <1> HIDE DEF own
  <1>5. /\ DOMAIN formRow' = Words /\ formRow'[f] = own
        /\ \A g \in Words : g # f => formRow'[g] = formRow[g]
    BY <1>1 DEF FormRowsOK
  <1>6. FormRowsOK'
    <2>1. ASSUME NEW g \in Words
          PROVE  /\ DOMAIN formRow'[g] = Senses
                 /\ \A t \in Senses : /\ DOMAIN formRow'[g][t] = {"src", "prio", "feats"}
                                      /\ formRow'[g][t].src \in Sources \ {"custom"}
                                      /\ formRow'[g][t].prio \in Int
      <3>1. CASE g = f
        BY <1>3, <1>4, <1>5, <3>1
      <3>2. CASE g # f
        BY <1>5, <3>2, Zenon DEF FormRowsOK
      <3> QED
        BY <3>1, <3>2
    <2> QED
      BY <1>5, <2>1, Zenon DEF FormRowsOK
  <1>9. FormsRanked'
    <2>1. ASSUME NEW g \in Words, NEW t \in Senses
          PROVE  IF formRow'[g][t].src = "custom_overrides" THEN formRow'[g][t].prio = Override
                 ELSE formRow'[g][t].prio < Override
      <3>1. CASE g = f
        BY <1>3, <1>5, <3>1
      <3>2. CASE g # f
        BY <1>5, <3>2, Zenon DEF FormsRanked
      <3> QED
        BY <3>1, <3>2
    <2> QED
      BY <2>1, Zenon DEF FormsRanked
  <1>7. ASSUME NEW g \in Words PROVE OverridesOf(g)' = {answer'[g]} \ {NoSense}
    <2>1. CASE g = f
      <3>1. OverridesOf(g)' = {s} /\ answer'[g] = s
        BY <1>1, <1>3, <1>5, <2>1 DEF OverridesOf
      <3> QED
        BY <3>1, DictionaryAssumption
    <2>2. CASE g # f
      <3>1. OverridesOf(g)' = OverridesOf(g) /\ answer'[g] = answer[g]
        BY <1>1, <1>5, <2>2 DEF OverridesOf
      <3> QED
        BY <3>1 DEF OverrideAnswers
    <2> QED
      BY <2>1, <2>2
  <1> QED
    BY <1>6, <1>7, <1>9 DEF OverrideAnswers

(* A review writes back what it accepts. *)
LEMMA ReviewWritesBack ==
    ASSUME LoopOK, ReviewStep
    PROVE  \/ UNCHANGED <<lemmaRow, formRow, candidate, answer>>
           \/ \E f \in Words, s \in Senses : \E feats :
                 WriteBack(report', f, s, feats) /\ \E r \in Reports : f = FormOf[SurfaceOf[r]]
  <1>1. PICK r \in Reports, status \in Statuses \ {"submitted"}, c \in Corrections :
            ReviewParseFeedback(r, status, c)
    BY Zenon DEF ReviewStep
  <1> DEFINE sense == IF c.sense = NoSense THEN report[r].sense ELSE c.sense
             feats == IF c.sense = NoSense THEN report[r].feats ELSE c.feats
  <1>2. \/ UNCHANGED <<lemmaRow, formRow, candidate, answer>>
        \/ sense # NoSense /\ WriteBack(report', FormOf[SurfaceOf[r]], sense, feats)
    BY <1>1, Zenon DEF ReviewParseFeedback
  <1>3. sense # NoSense => sense \in Senses
    BY DEF LoopOK, Corrections
  <1>4. FormOf[SurfaceOf[r]] \in Words
    BY DictionaryAssumption
  <1> QED
    BY <1>2, <1>3, <1>4, Zenon

(* The override rows and the last accepted corrections stay one. *)
LEMMA StepFormRows ==
    ASSUME JobOK, LoopOK, FormRowsOK, FormsRanked, OverrideAnswers,
           answer \in [Words -> Senses \cup {NoSense}], [Next]_vars
    PROVE  FormRowsOK' /\ FormsRanked' /\ OverrideAnswers'
  <1>1. CASE formRow' = formRow /\ answer' = answer
    BY <1>1 DEF FormRowsOK, FormsRanked, OverrideAnswers, OverridesOf
  <1>2. CASE DropForms
    <2>1. /\ formRow' = [f \in Words |-> [s \in Senses |-> NoForm]]
          /\ answer' = [f \in Words |-> NoSense]
      BY <1>2 DEF DropForms
    <2>2. \A f \in Words, s \in Senses : formRow'[f][s] = NoForm
      BY <2>1
    <2>5. /\ DOMAIN NoForm = {"src", "prio", "feats"} /\ NoForm.src = "none" /\ NoForm.prio = 0
          /\ "none" \in Sources \ {"custom"}
      BY DEF NoForm, Sources
    <2>3. FormRowsOK' /\ FormsRanked'
      BY <2>1, <2>2, <2>5, Ranks DEF FormRowsOK, FormsRanked
    <2>4. \A f \in Words : OverridesOf(f)' = {} /\ answer'[f] = NoSense
      BY <2>1, <2>2, <2>5 DEF OverridesOf
    <2> QED
      BY <2>3, <2>4 DEF OverrideAnswers
  <1>3. CASE KaikkiBatch \/ BackfillFeats \/ SmokeImport \/ ImportForms \/ SmallImport
    <2>1. answer' = answer
      BY <1>3, Frames, Zenon
    <2>2. /\ DOMAIN formRow' = Words /\ \A f \in Words : DOMAIN formRow'[f] = Senses
          /\ \A f \in Words, s \in Senses : ImportedOver(formRow[f][s], formRow'[f][s])
      BY <1>3, ImportersSpareOverrides
    <2>3. FormRowsOK'
      BY <2>2, Zenon DEF FormRowsOK, ImportedOver
    <2>5. FormsRanked'
      BY <2>2, Zenon DEF FormsRanked, ImportedOver
    <2>4. \A f \in Words : OverridesOf(f)' = OverridesOf(f)
      BY <2>2 DEF OverridesOf, ImportedOver
    <2> QED
      BY <2>1, <2>3, <2>4, <2>5 DEF OverrideAnswers
  <1>4. CASE ReviewStep
    <2>1. CASE UNCHANGED <<lemmaRow, formRow, candidate, answer>>
      BY <1>1, <2>1
    <2>2. ASSUME NEW f \in Words, NEW s \in Senses, NEW feats, WriteBack(report', f, s, feats)
          PROVE  FormRowsOK' /\ FormsRanked' /\ OverrideAnswers'
      BY <2>2, WriteBackAnswers
    <2> QED
      BY <1>4, <2>1, <2>2, ReviewWritesBack, Zenon
  <1> QED
    BY <1>1, <1>2, <1>3, <1>4, Writers

(* These are steps of importdict. *)
LEMMA ImportDictSteps ==
    DropForms \/ DropLemmas \/ DropTranslations \/ KaikkiBatch \/ SmokeImport \/ ApplyCustomGloss
        \/ BackfillFeats => job.tool \in {"kaikki", "backfill", "smoke"}
  <1>1. DropForms \/ DropLemmas \/ DropTranslations => job.tool \in {"kaikki", "backfill", "smoke"}
    BY Zenon DEF DropForms, DropLemmas, DropTranslations, ImportAt
  <1>2. KaikkiBatch => job.tool = "kaikki"
    BY KaikkiAt
  <1>3. SmokeImport => job.tool = "smoke"
    BY Zenon DEF SmokeImport, ImportAt
  <1>4. ApplyCustomGloss => job.tool \in {"kaikki", "smoke"}
    BY Zenon DEF ApplyCustomGloss, ImportAt
  <1>5. BackfillFeats => job.tool = "backfill"
    BY Zenon DEF BackfillFeats, ImportAt
  <1> QED
    BY <1>1, <1>2, <1>3, <1>4, <1>5

(* A job of importdict does not become another one. *)
LEMMA StaysImportDict ==
    ASSUME JobOK, job.tool \in {"kaikki", "backfill", "smoke"}
    PROVE  /\ \A pc : [job EXCEPT !.pc = pc].tool = job.tool
           /\ \A n : [job EXCEPT !.done = n].tool = job.tool
           /\ \A n, pc : [job EXCEPT !.done = n, !.pc = pc].tool = job.tool
           /\ \A csv : [job EXCEPT !.csv = csv].tool = job.tool
  BY JobKinds DEF KaikkiJobs, BackfillJobs, SmokeJobs

(* What the passes of an Ekilex import wrote stands until it ends. *)
LEMMA StepPasses ==
    ASSUME JobOK, LoopOK, LemmaRowsOK, GlossesFromDumps, LemmasRanked, TransOK, PassesStand,
           [Next]_vars
    PROVE  PassesStand'
  <1> DEFINE LemmasStand(d, rows) == \A s \in Senses :
                 ListedIn(d.entries, s) /\ rows[s].src = "ekilex" =>
                     rows[s].gloss = JoinedGloss(d.entries, s) \/ FromDump(rows[s].gloss)
             TransStand(d, tr) == \A s \in Senses :
                 tr["ekilex"][s] = OrderedTranslations(MeaningsOf(d.entries, s))
             DefsStand(d, defs) == \A s \in Senses :
                 defs[s] = OrderedDefinitions(MeaningsOf(d.entries, s))
  <1>0. PassesStand <=>
            (job.tool = "ekilex" =>
                /\ job.pc # "lemmas" => LemmasStand(job.drop, lemmaRow)
                /\ job.pc \notin {"lemmas", "translations"} => TransStand(job.drop, trans)
                /\ job.pc \in {"forms", "record"} => DefsStand(job.drop, definitions))
    BY Zenon DEF PassesStand, Listed, GlossInDrop
  <1>1. ASSUME /\ job'.tool = "ekilex" =>
                   /\ job'.pc # "lemmas" => LemmasStand(job'.drop, lemmaRow')
                   /\ job'.pc \notin {"lemmas", "translations"} => TransStand(job'.drop, trans')
                   /\ job'.pc \in {"forms", "record"} => DefsStand(job'.drop, definitions')
        PROVE  PassesStand'
    BY <1>1, Zenon DEF PassesStand, Listed, GlossInDrop
  <1>2. ASSUME \A s \in Senses : lemmaRow'[s] = lemmaRow[s] \/ lemmaRow'[s].src # "ekilex",
               NEW d, LemmasStand(d, lemmaRow)
        PROVE  LemmasStand(d, lemmaRow')
    BY <1>2
  <1> HIDE DEF LemmasStand, TransStand, DefsStand
  <1>3. CASE job'.tool # "ekilex"
    BY <1>1, <1>3
  <1>4. ASSUME job.tool = "ekilex", NEW pc \in {"translations", "definitions", "forms", "record"},
               job' = [job EXCEPT !.pc = pc]
        PROVE  job'.drop = job.drop /\ job'.pc = pc
    <2>1. job \in EkilexJobs
      BY <1>4, JobKinds
    <2> QED
      BY <1>4, <2>1 DEF EkilexJobs
  <1>5. CASE job' = job /\ job.tool = "ekilex"
    <2>1. ~(DropForms \/ DropLemmas \/ DropTranslations \/ KaikkiBatch \/ SmokeImport
                \/ ApplyCustomGloss)
      BY <1>5, ImportDictSteps
    <2>2. ~(WriteLemmas \/ WriteTranslations \/ WriteDefinitions)
      <3>1. ASSUME WriteLemmas PROVE FALSE
        <4>1. job.pc = "lemmas" /\ job' = [job EXCEPT !.pc = "translations"]
          BY <3>1, Zenon DEF WriteLemmas, AtPass
        <4> QED
          BY <1>4, <1>5, <4>1
      <3>2. ASSUME WriteTranslations PROVE FALSE
        <4>1. job.pc = "translations" /\ job' = [job EXCEPT !.pc = "definitions"]
          BY <3>2, Zenon DEF WriteTranslations, AtPass
        <4> QED
          BY <1>4, <1>5, <4>1
      <3>3. ASSUME WriteDefinitions PROVE FALSE
        <4>1. job.pc = "definitions" /\ job' = [job EXCEPT !.pc = "forms"]
          BY <3>3, Zenon DEF WriteDefinitions, AtPass
        <4> QED
          BY <1>4, <1>5, <4>1
      <3> QED
        BY <3>1, <3>2, <3>3
    <2>3. ~(SmallImport \/ KotusStep)
      BY <1>5, SmallSteps DEF OneTransaction, Idle
    <2>4. trans' = trans /\ definitions' = definitions
      BY <2>1, <2>2, Writers
    <2>5. \A s \in Senses : lemmaRow'[s] = lemmaRow[s] \/ lemmaRow'[s].src # "ekilex"
      <3>1. CASE lemmaRow' = lemmaRow
        BY <3>1
      <3>2. CASE ReviewStep
        <4>1. CASE lemmaRow' = lemmaRow
          BY <4>1
        <4>2. ASSUME NEW f \in Words, NEW t \in Senses, NEW feats, WriteBack(report', f, t, feats),
                     NEW s \in Senses
              PROVE  lemmaRow'[s] = lemmaRow[s] \/ lemmaRow'[s].src # "ekilex"
          <5> DEFINE taken == [lemmaRow[t] EXCEPT !.src = "custom_overrides", !.prio = Override]
                     new == IF Outranks(Override, lemmaRow[t]) THEN taken ELSE lemmaRow[t]
          <5>1. DOMAIN lemmaRow[t] = {"src", "prio", "gloss"}
            BY DEF LemmaRowsOK
          <5>4. lemmaRow' = [lemmaRow EXCEPT ![t] = new]
            BY <4>2, Zenon DEF WriteBack
          <5>3. taken.src = "custom_overrides"
            BY <5>1, ChangedRow
          <5> HIDE DEF taken
          <5>5. new = lemmaRow[t] \/ new.src = "custom_overrides"
            BY <5>3
          <5> HIDE DEF new
          <5>6. CASE s = t
            BY <5>4, <5>5, <5>6 DEF LemmaRowsOK
          <5>7. CASE s # t
            BY <5>4, <5>7 DEF LemmaRowsOK
          <5> QED
            BY <5>6, <5>7
        <4> QED
          BY <3>2, <4>1, <4>2, ReviewWritesBack, Zenon
      <3> QED
        BY <2>1, <2>2, <2>3, <3>1, <3>2, Writers
    <2> QED
      BY <1>0, <1>1, <1>2, <1>5, <2>4, <2>5
  <1>6. CASE StartStep
    <2>1. job'.tool = "ekilex" => job'.pc = "lemmas"
      BY <1>6 DEF StartStep, StartKaikki, StartBackfill, StartSmoke, StartEkilex, StartJob
    <2> QED
      BY <1>1, <2>1
  <1>7. CASE WriteLemmas
    <2>1. /\ job.tool = "ekilex" /\ job' = [job EXCEPT !.pc = "translations"]
          /\ lemmaRow' = [s \in Senses |-> IF Listed(s)
                                           THEN Filled(Upgraded(Refreshed(lemmaRow[s], s), s), s)
                                           ELSE lemmaRow[s]]
      BY <1>7, Zenon DEF WriteLemmas, AtPass
    <2>2. \A s \in Senses : RowOK(lemmaRow[s])
      BY RowsOK
    <2>3. \A s \in Senses : Listed(s) =>
              lemmaRow'[s] = Filled(Upgraded(Refreshed(lemmaRow[s], s), s), s)
      BY <2>1, Zenon
    <2>4. \A s \in Senses : Listed(s) /\ lemmaRow'[s].src = "ekilex" =>
              lemmaRow'[s].gloss = GlossInDrop(s) \/ FromDump(lemmaRow'[s].gloss)
      BY <2>2, <2>3, LemmaPass, Zenon
    <2>5. LemmasStand(job.drop, lemmaRow')
      BY <2>4 DEF LemmasStand, Listed, GlossInDrop
    <2>6. job'.drop = job.drop /\ job'.pc = "translations"
      BY <1>4, <2>1
    <2> QED
      BY <1>1, <2>5, <2>6
  <1>8. CASE WriteTranslations
    <2>1. /\ job.tool = "ekilex" /\ job.pc = "translations"
          /\ job' = [job EXCEPT !.pc = "definitions"]
          /\ trans' = [trans EXCEPT !["ekilex"] = [s \in Senses |->
                           OrderedTranslations(MeaningsOf(job.drop.entries, s))]]
      BY <1>8, Zenon DEF WriteTranslations, AtPass
    <2>2. TransStand(job.drop, trans')
      BY <2>1 DEF TransStand, TransOK, Translated
    <2>3. LemmasStand(job.drop, lemmaRow')
      BY <1>0, <1>8, <2>1, Frames
    <2>4. job'.drop = job.drop /\ job'.pc = "definitions"
      BY <1>4, <2>1
    <2> QED
      BY <1>1, <2>2, <2>3, <2>4
  <1>9. CASE WriteDefinitions
    <2>1. /\ job.tool = "ekilex" /\ job.pc = "definitions"
          /\ job' = [job EXCEPT !.pc = "forms"]
          /\ definitions' = [s \in Senses |-> OrderedDefinitions(MeaningsOf(job.drop.entries, s))]
      BY <1>9, Zenon DEF WriteDefinitions, AtPass
    <2>2. DefsStand(job.drop, definitions')
      BY <2>1 DEF DefsStand
    <2>3. LemmasStand(job.drop, lemmaRow') /\ TransStand(job.drop, trans')
      BY <1>0, <1>9, <2>1, Frames
    <2>4. job'.drop = job.drop /\ job'.pc = "forms"
      BY <1>4, <2>1
    <2> QED
      BY <1>1, <2>2, <2>3, <2>4
  <1>10. CASE ImportForms
    <2>1. /\ job.tool = "ekilex" /\ job.pc = "forms" /\ job' = [job EXCEPT !.pc = "record"]
      BY <1>10, Zenon DEF ImportForms, AtPass
    <2>2. /\ LemmasStand(job.drop, lemmaRow') /\ TransStand(job.drop, trans')
          /\ DefsStand(job.drop, definitions')
      BY <1>0, <1>10, <2>1, Frames
    <2>3. job'.drop = job.drop /\ job'.pc = "record"
      BY <1>4, <2>1
    <2> QED
      BY <1>1, <2>2, <2>3
  <1>11. CASE RecordImport \/ RecordEkilex \/ Abort
    <2>1. job' = Idle
      BY <1>11, Zenon DEF RecordImport, RecordEkilex, Abort
    <2> QED
      BY <1>3, <2>1 DEF Idle
  <1>13. CASE BackfillFeats
    <2> DEFINE last == Min(CommittedAfter \cup {Len(job.dump)})
    <2>1. job' = Idle \/ job' = [job EXCEPT !.done = last]
      BY <1>13, Zenon DEF BackfillFeats
    <2> HIDE DEF last
    <2>2. job'.tool # "ekilex"
      <3>1. job.tool \in {"kaikki", "backfill", "smoke"}
        BY <1>13, ImportDictSteps, Zenon
      <3>2. [job EXCEPT !.done = last].tool = job.tool
        BY <3>1, StaysImportDict, Zenon
      <3>3. CASE job' = Idle
        BY <3>3 DEF Idle
      <3>4. CASE job' = [job EXCEPT !.done = last]
        <4>1. job'.tool = job.tool
          BY <3>2, <3>4, Zenon
        <4> QED
          BY <3>1, <4>1
      <3> QED
        BY <2>1, <3>3, <3>4
    <2> QED
      BY <1>3, <2>2
  <1>12. CASE DropForms \/ DropLemmas \/ DropTranslations \/ KaikkiBatch \/ SmokeImport
                  \/ ApplyCustomGloss
    <2>1. job.tool \in {"kaikki", "backfill", "smoke"}
      BY <1>12, ImportDictSteps
    <2>2. \/ \E pc : job' = [job EXCEPT !.pc = pc]
          \/ \E n, pc : job' = [job EXCEPT !.done = n, !.pc = pc]
          \/ \E csv : job' = [job EXCEPT !.csv = csv]
      <3>1. DropForms \/ DropLemmas \/ DropTranslations \/ SmokeImport =>
                \E pc : job' = [job EXCEPT !.pc = pc]
        BY Zenon DEF DropForms, DropLemmas, DropTranslations, SmokeImport
      <3>2. KaikkiBatch => \E n, pc : job' = [job EXCEPT !.done = n, !.pc = pc]
        BY Zenon DEF KaikkiBatch
      <3>3. ApplyCustomGloss => \E csv : job' = [job EXCEPT !.csv = csv]
        BY Zenon DEF ApplyCustomGloss
      <3> QED
        BY <1>12, <3>1, <3>2, <3>3
    <2>3. job'.tool = job.tool
      <3>1. CASE \E pc : job' = [job EXCEPT !.pc = pc]
        <4>1. PICK pc : job' = [job EXCEPT !.pc = pc]
          BY <3>1
        <4>2. [job EXCEPT !.pc = pc].tool = job.tool
          BY <2>1, StaysImportDict, Zenon
        <4> QED
          BY <4>1, <4>2, Zenon
      <3>2. CASE \E n, pc : job' = [job EXCEPT !.done = n, !.pc = pc]
        <4>1. PICK n, pc : job' = [job EXCEPT !.done = n, !.pc = pc]
          BY <3>2
        <4>2. [job EXCEPT !.done = n, !.pc = pc].tool = job.tool
          BY <2>1, StaysImportDict, Zenon
        <4> QED
          BY <4>1, <4>2, Zenon
      <3>3. CASE \E csv : job' = [job EXCEPT !.csv = csv]
        <4>1. PICK csv : job' = [job EXCEPT !.csv = csv]
          BY <3>3
        <4>2. [job EXCEPT !.csv = csv].tool = job.tool
          BY <2>1, StaysImportDict, Zenon
        <4> QED
          BY <4>1, <4>2, Zenon
      <3> QED
        BY <2>2, <3>1, <3>2, <3>3, Zenon
    <2> QED
      BY <1>3, <2>1, <2>3
  <1> QED
    BY <1>3, <1>5, <1>6, <1>7, <1>8, <1>9, <1>10, <1>11, <1>12, <1>13, Writers, Zenon

(* Reports keep a status, candidates a form and a sense. *)
LEMMA StepLoop ==
    ASSUME LoopOK, [Next]_vars
    PROVE  LoopOK'
  <1>1. /\ DOMAIN report' = Reports
        /\ \A r \in Reports : /\ report'[r].sense \in Senses \cup {NoSense}
                              /\ report'[r].status \in Statuses
    <2>1. CASE report' = report
      BY <2>1 DEF LoopOK
    <2>2. CASE ReviewStep
      <3>1. PICK r \in Reports, status \in Statuses \ {"submitted"}, c \in Corrections :
                ReviewParseFeedback(r, status, c)
        BY <2>2, Zenon DEF ReviewStep
      <3> DEFINE sense == IF c.sense = NoSense THEN report[r].sense ELSE c.sense
                 feats == IF c.sense = NoSense THEN report[r].feats ELSE c.feats
                 new == [sense |-> sense, feats |-> feats, status |-> status]
      <3>2. report' = [report EXCEPT ![r] = new]
        BY <3>1, Zenon DEF ReviewParseFeedback
      <3>3. sense \in Senses \cup {NoSense}
        BY DEF LoopOK, Corrections
      <3>4. new.sense \in Senses \cup {NoSense} /\ new.status \in Statuses
        BY <3>3
      <3> HIDE DEF new
      <3> QED
        BY <3>2, <3>4 DEF LoopOK
    <2> QED
      BY <2>1, <2>2, Writers
  <1>2. DOMAIN candidate' = Words \X Senses
    <2>1. CASE candidate' = candidate
      BY <2>1 DEF LoopOK
    <2>2. ASSUME NEW f, NEW s, NEW feats, WriteBack(report', f, s, feats)
          PROVE  DOMAIN candidate' = Words \X Senses
      <3>1. PICK n : candidate' = [candidate EXCEPT ![<<f, s>>] = n]
        BY <2>2, Zenon DEF WriteBack
      <3> QED
        BY <3>1 DEF LoopOK
    <2> QED
      BY <2>1, <2>2, ReviewWritesBack, Writers
  <1>3. export' \cup exported' \subseteq Words \X Senses
    <2>1. CASE exportVars' = exportVars
      BY <2>1 DEF LoopOK, exportVars
    <2>2. CASE ExportStep
      BY <2>2 DEF ExportStep, PrintCandidates, MarkGoldCandidatesExported, ExportStops,
                  PendingCandidates, LoopOK
    <2> QED
      BY <2>1, <2>2, Writers
  <1> QED
    BY <1>1, <1>2, <1>3 DEF LoopOK

(* The candidates that are marked or about to be have been printed. *)
LEMMA StepPrinted ==
    ASSUME MarkedWasPrinted, [Next]_vars
    PROVE  MarkedWasPrinted'
  <1>1. CASE exportVars' = exportVars
    BY <1>1 DEF MarkedWasPrinted, exportVars
  <1>2. CASE ExportStep
    BY <1>2 DEF ExportStep, PrintCandidates, MarkGoldCandidatesExported, ExportStops, MarkedWasPrinted
  <1> QED
    BY <1>1, <1>2, Writers

(* The bounds hold, and the last correction of a form is a sense or none. *)
LEMMA StepCounts ==
    ASSUME CountsOK, LoopOK, [Next]_vars
    PROVE  CountsOK'
  <1>1. answer' \in [Words -> Senses \cup {NoSense}]
    <2>1. CASE answer' = answer
      BY <2>1 DEF CountsOK
    <2>2. CASE DropForms
      BY <2>2 DEF DropForms
    <2>3. CASE ReviewStep
      <3>1. ASSUME NEW f \in Words, NEW s \in Senses, NEW feats, WriteBack(report', f, s, feats)
            PROVE  answer' \in [Words -> Senses \cup {NoSense}]
        <4>1. answer' = [answer EXCEPT ![f] = s]
          BY <3>1, Zenon DEF WriteBack
        <4> QED
          BY <4>1 DEF CountsOK
      <3> QED
        BY <2>1, <2>3, <3>1, ReviewWritesBack
    <2> QED
      BY <2>1, <2>2, <2>3, Writers
  <1>2. runs' = runs \/ (runs < MaxRuns /\ runs' = runs + 1)
    <2>1. CASE UNCHANGED vars
      BY <2>1, Zenon DEF vars
    <2>2. StartStep => runs < MaxRuns /\ runs' = runs + 1
      BY Zenon DEF StartStep, StartKaikki, StartBackfill, StartSmoke, StartEkilex, StartJob
    <2>3. SmallImport \/ KotusStep => runs < MaxRuns /\ runs' = runs + 1
      BY SmallSteps DEF OneTransaction
    <2>4. KaikkiBatch \/ SmokeImport => runs' = runs
      BY SMT DEF KaikkiBatch, SmokeImport, jobKeeps
    <2>5. DropForms \/ DropLemmas \/ DropTranslations \/ ApplyCustomGloss \/ RecordImport
              \/ BackfillFeats \/ WriteLemmas \/ WriteTranslations \/ WriteDefinitions
              \/ ImportForms \/ RecordEkilex \/ Abort => runs' = runs
      BY Zenon DEF DropForms, DropLemmas, DropTranslations, ApplyCustomGloss, RecordImport,
                   BackfillFeats, WriteLemmas, WriteTranslations, WriteDefinitions, ImportForms,
                   RecordEkilex, Abort, jobKeeps
    <2>6. (\E counts \in GoldSets : ReplaceGold(counts)) \/ ReviewStep \/ ExportStep => runs' = runs
      BY Zenon DEF ReplaceGold, ReviewStep, ReviewParseFeedback, ExportStep, PrintCandidates,
                   MarkGoldCandidatesExported, ExportStops
    <2> QED
      BY <2>1, <2>2, <2>3, <2>4, <2>5, <2>6, StepKinds, Zenon
  <1>3. /\ reviews' = reviews \/ (reviews < MaxReviews /\ reviews' = reviews + 1)
        /\ exports' = exports \/ (exports < MaxExports /\ exports' = exports + 1)
        /\ lang' = lang
    <2>1. CASE UNCHANGED vars
      BY <2>1, Zenon DEF vars, importVars, loopVars, exportVars
    <2>2. StartStep => UNCHANGED <<reviews, exports, lang>>
      BY Zenon DEF StartStep, StartKaikki, StartBackfill, StartSmoke, StartEkilex, StartJob, importVars,
                   loopVars, exportVars
    <2>3. SmallImport \/ KotusStep => UNCHANGED <<reviews, exports, lang>>
      BY SmallSteps, Zenon DEF OneTransaction, loopVars, exportVars
    <2>4. KaikkiBatch \/ SmokeImport => UNCHANGED <<reviews, exports, lang>>
      BY SMT DEF KaikkiBatch, SmokeImport, jobKeeps, loopVars, exportVars
    <2>5. DropForms \/ DropLemmas \/ DropTranslations \/ ApplyCustomGloss \/ RecordImport
              \/ BackfillFeats \/ WriteLemmas \/ WriteTranslations \/ WriteDefinitions
              \/ ImportForms \/ RecordEkilex \/ Abort => UNCHANGED <<reviews, exports, lang>>
      BY Zenon DEF DropForms, DropLemmas, DropTranslations, ApplyCustomGloss, RecordImport,
                   BackfillFeats, WriteLemmas, WriteTranslations, WriteDefinitions, ImportForms,
                   RecordEkilex, Abort, jobKeeps, importVars, loopVars, exportVars
    <2>6. (\E counts \in GoldSets : ReplaceGold(counts)) => UNCHANGED <<reviews, exports, lang>>
      BY Zenon DEF ReplaceGold, importVars, exportVars
    <2>7. ReviewStep => /\ reviews < MaxReviews /\ reviews' = reviews + 1
                        /\ UNCHANGED <<exports, lang>>
      BY Zenon DEF ReviewStep, ReviewParseFeedback, exportVars
    <2>8. ExportStep => /\ exports' = exports \/ (exports < MaxExports /\ exports' = exports + 1)
                        /\ UNCHANGED <<reviews, lang>>
      BY Zenon DEF ExportStep, PrintCandidates, MarkGoldCandidatesExported, ExportStops, importVars
    <2> QED
      BY <2>1, <2>2, <2>3, <2>4, <2>5, <2>6, <2>7, <2>8, StepKinds, Zenon
  <1> QED
    BY <1>1, <1>2, <1>3, DictionaryAssumption DEF CountsOK

-----------------------------------------------------------------------------
(* The invariant holds at the start ... *)
LEMMA InitInv == Init => Inv
  <1> SUFFICES ASSUME Init PROVE Inv
    OBVIOUS
  <1>0. RowsRanked
    BY Ranks DEF Init, RowsRanked, NoLemma, NoForm
  <1>1. TypeOK
    <2>1. LemmaRowsOK /\ FormRowsOK
      BY DEF Init, LemmaRowsOK, FormRowsOK, Sources, NoLemma, NoForm
    <2>2. TransOK
      BY DEF Init, TransOK, Translated
    <2>3. JobOK
      BY DEF Init, JobOK, Idle
    <2>4. LoopOK
      <3>1. \A r \in Reports : report[r] = [sense |-> ProposalOf[r].sense,
                                           feats |-> ProposalOf[r].feats, status |-> "submitted"]
        BY DEF Init
      <3>2. \A r \in Reports : report[r].sense = ProposalOf[r].sense /\ report[r].status = "submitted"
        <4> TAKE r \in Reports
        <4> DEFINE sense == ProposalOf[r].sense
                   feats == ProposalOf[r].feats
        <4>1. report[r] = [sense |-> sense, feats |-> feats, status |-> "submitted"]
          BY <3>1
        <4> HIDE DEF sense, feats
        <4>2. report[r].sense = sense /\ report[r].status = "submitted"
          BY <4>1
        <4> QED
          BY <4>2 DEF sense
      <3>3. \A r \in Reports : /\ report[r].sense \in Senses \cup {NoSense}
                              /\ report[r].status \in Statuses
        BY <3>2, DictionaryAssumption DEF Statuses
      <3> QED
        BY <3>3 DEF Init, LoopOK
    <2>5. CountsOK
      BY DictionaryAssumption DEF Init, CountsOK
    <2> QED
      BY <2>1, <2>2, <2>3, <2>4, <2>5, TypeParts
  <1>2. OverrideAnswers
    BY DEF Init, OverrideAnswers, OverridesOf, NoForm
  <1>3. ParadigmsKept
    <2>1. \A s : {i \in DOMAIN wordList : s \in SensesNamed(wordList[i]) /\ wordList[i].classes # <<>>} = {}
      BY DEF Init
    <2> QED
      BY <2>1 DEF ParadigmsKept
  <1>4. GlossesFromDumps
    BY DEF Init, GlossesFromDumps, NoLemma
  <1>5. KaikkiIsFresh /\ PassesStand
    BY DEF Init, KaikkiIsFresh, PassesStand, Idle
  <1>6. MarkedWasPrinted
    BY DEF Init, MarkedWasPrinted
  <1> QED
    BY <1>0, <1>1, <1>2, <1>3, <1>4, <1>5, <1>6 DEF Inv

(* ... and every step keeps it. *)
LEMMA StepInv == Inv /\ [Next]_vars => Inv'
  <1> SUFFICES ASSUME Inv, [Next]_vars PROVE Inv'
    OBVIOUS
  <1>1. LemmaRowsOK /\ FormRowsOK /\ TransOK /\ JobOK /\ LoopOK /\ CountsOK
    BY TypeParts DEF Inv
  <1>0. LemmasRanked /\ FormsRanked
    BY DEF Inv, RowsRanked, LemmasRanked, FormsRanked
  <1>2. LemmaRowsOK' /\ GlossesFromDumps' /\ LemmasRanked'
    BY <1>0, <1>1, StepLemmaRows DEF Inv
  <1>3. FormRowsOK' /\ FormsRanked' /\ OverrideAnswers'
    BY <1>0, <1>1, StepFormRows DEF Inv, CountsOK
  <1>4. TransOK' /\ KaikkiIsFresh'
    BY <1>1, StepTrans, StepFresh DEF Inv
  <1>5. JobOK' /\ LoopOK' /\ CountsOK'
    BY <1>1, StepJob, StepLoop, StepCounts
  <1>6. ParadigmsKept'
    BY <1>1, StepParadigms DEF Inv
  <1>7. PassesStand'
    BY <1>0, <1>1, StepPasses DEF Inv
  <1>8. MarkedWasPrinted'
    BY StepPrinted DEF Inv
  <1>9. TypeOK'
    BY <1>2, <1>3, <1>4, <1>5, Zenon
       DEF TypeOK, LemmaRowsOK, FormRowsOK, TransOK, JobOK, LoopOK, CountsOK
  <1>10. RowsRanked'
    BY <1>2, <1>3 DEF RowsRanked, LemmasRanked, FormsRanked
  <1> QED
    BY <1>2, <1>3, <1>4, <1>6, <1>7, <1>8, <1>9, <1>10 DEF Inv

(* The invariant holds in every reachable state. *)
THEOREM Invariance == Spec => []Inv
  BY InitInv, StepInv, PTL DEF Spec

(* Every table, the job and the reports have their types. *)
THEOREM TypeCorrect == Spec => []TypeOK
  <1>1. Inv => TypeOK
    BY DEF Inv
  <1> QED
    BY <1>1, Invariance, PTL

(* A corrected form is answered with its last accepted correction alone, *)
(* whatever importers run, end early or run again beside the reviews.    *)
THEOREM CorrectionsAnswer == Spec => []OverrideAnswers
  <1>1. Inv => OverrideAnswers
    BY DEF Inv
  <1> QED
    BY <1>1, Invariance, PTL

(* Each sense keeps the last class the word list has for it. *)
THEOREM ParadigmsStay == Spec => []ParadigmsKept
  <1>1. Inv => ParadigmsKept
    BY DEF Inv
  <1> QED
    BY <1>1, Invariance, PTL

(* A recorded kaikki import leaves no translation of an earlier dump. *)
THEOREM KaikkiReplaces == Spec => RecordedKaikkiIsFresh
  <1>1. Inv /\ [Next]_vars =>
            [RecordImport /\ job.tool = "kaikki" =>
                \A s \in Senses : Range(trans["kaikki"][s]) \subseteq InDump(job.dump, s)]_vars
    BY DEF Inv, KaikkiIsFresh, RecordImport, ImportAt
  <1> QED
    BY <1>1, Invariance, PTL DEF Spec, RecordedKaikkiIsFresh

(* A recorded Ekilex import leaves what its drop has, and glosses that agree. *)
THEOREM EkilexAgrees == Spec => RecordedEkilexAgrees
  <1> DEFINE Agrees == \A s \in Senses :
           LET meanings == MeaningsOf(job.drop.entries, s)
           IN  /\ trans["ekilex"][s] = OrderedTranslations(meanings)
               /\ definitions[s] = OrderedDefinitions(meanings)
               /\ lemmaRow[s].src = "ekilex" /\ OrderedTranslations(meanings) # <<>> =>
                      GlossOf(s) \in {<<Head(OrderedTranslations(meanings))>>} \cup Range(LearnerGloss)
               /\ (Listed(s) /\ lemmaRow[s].src = "ekilex") =>
                      lemmaRow[s].gloss = GlossInDrop(s) \/ FromDump(lemmaRow[s].gloss)
  <1>1. ASSUME Inv, RecordEkilex PROVE Agrees
    <2> SUFFICES ASSUME NEW s \in Senses
                 PROVE  LET meanings == MeaningsOf(job.drop.entries, s)
                        IN  /\ trans["ekilex"][s] = OrderedTranslations(meanings)
                            /\ definitions[s] = OrderedDefinitions(meanings)
                            /\ lemmaRow[s].src = "ekilex" /\ OrderedTranslations(meanings) # <<>> =>
                                   GlossOf(s) \in {<<Head(OrderedTranslations(meanings))>>}
                                                     \cup Range(LearnerGloss)
                            /\ (Listed(s) /\ lemmaRow[s].src = "ekilex") =>
                                   lemmaRow[s].gloss = GlossInDrop(s) \/ FromDump(lemmaRow[s].gloss)
      BY Zenon
    <2> DEFINE meanings == MeaningsOf(job.drop.entries, s)
               shown == OrderedTranslations(meanings)
    <2>1. job.tool = "ekilex" /\ job.pc = "record"
      BY <1>1, Zenon DEF RecordEkilex, AtPass
    <2>2. /\ trans["ekilex"][s] = shown
          /\ definitions[s] = OrderedDefinitions(meanings)
          /\ (Listed(s) /\ lemmaRow[s].src = "ekilex") =>
                 lemmaRow[s].gloss = GlossInDrop(s) \/ FromDump(lemmaRow[s].gloss)
      BY <1>1, <2>1 DEF Inv, PassesStand
    <2> HIDE DEF meanings, shown
    <2>3. ASSUME lemmaRow[s].src = "ekilex", shown # <<>>
          PROVE  GlossOf(s) \in {<<Head(shown)>>} \cup Range(LearnerGloss)
      <3>1. SensesOf(s) = shown
        BY <2>2, <2>3 DEF SensesOf, Translated
      <3>2. GlossOf(s) = <<Head(shown)>> \/ (s \in DOMAIN LearnerGloss /\ GlossOf(s) = LearnerGloss[s])
        BY <2>3, <3>1, Zenon DEF GlossOf
      <3> QED
        BY <3>2 DEF Range
    <2> QED
      BY <2>2, <2>3, Zenon DEF meanings, shown
  <1>2. Inv /\ [Next]_vars => [RecordEkilex => Agrees]_vars
    <2> HIDE DEF Agrees
    <2> QED
      BY <1>1
  <1> QED
    BY <1>2, Invariance, PTL DEF Spec, RecordedEkilexAgrees

(* A review changes no candidate but the one it promotes, on the word of enough *)
(* users with an accepted report of it.                                         *)
LEMMA PromotionIsBacked ==
    ASSUME LoopOK, NEW f \in Words, NEW s \in Senses, NEW feats, WriteBack(report', f, s, feats),
           NEW filed \in Reports, f = FormOf[SurfaceOf[filed]],
           NEW k \in Words \X Senses, candidate'[k] # candidate[k]
    PROVE  \E users \in SUBSET {ReporterOf[r] : r \in {q \in Reports :
                                    /\ report'[q].status = "accepted"
                                    /\ <<FormOf[SurfaceOf[q]], report'[q].sense>> = k}} :
               Cardinality(users) >= GoldPromotionThreshold
  <1> DEFINE agreed == {q \in Reports : /\ report'[q].sense = s /\ report'[q].status = "accepted"
                                        /\ LowerOf[SurfaceOf[q]] = f}
             users == {ReporterOf[r] : r \in agreed}
             backing == {q \in Reports : /\ report'[q].status = "accepted"
                                         /\ <<FormOf[SurfaceOf[q]], report'[q].sense>> = k}
             n == Supporters(report', f, s)
  <1>1. candidate' = [candidate EXCEPT ![<<f, s>>] =
            IF n >= GoldPromotionThreshold THEN n ELSE candidate[<<f, s>>]]
    BY Zenon DEF WriteBack
  <1>2. n = Cardinality(users)
    BY Zenon DEF Supporters
  <1>3. k = <<f, s>> /\ n >= GoldPromotionThreshold
    <2> HIDE DEF n
    <2> QED
      BY <1>1 DEF LoopOK
  <1>4. agreed \subseteq backing
    <2> SUFFICES ASSUME NEW q \in agreed PROVE <<FormOf[SurfaceOf[q]], report'[q].sense>> = k
      OBVIOUS
    <2>1. FormOf[SurfaceOf[q]] = f
      BY DictionaryAssumption
    <2> QED
      BY <1>3, <2>1
  <1>5. users \in SUBSET {ReporterOf[r] : r \in backing}
    <2> HIDE DEF agreed, backing
    <2> QED
      BY <1>4
  <1>6. Cardinality(users) >= GoldPromotionThreshold
    <2> HIDE DEF n, users
    <2> QED
      BY <1>2, <1>3
  <1> HIDE DEF users
  <1> QED
    BY <1>5, <1>6

(* No candidate is promoted without its supporters, and none leaves the pending *)
(* ones before an export has printed it.                                        *)
THEOREM CandidatesAreReviewed == Spec => CandidatesReachReview
  <1> DEFINE Backing(k) == {ReporterOf[r] : r \in {q \in Reports :
                                       /\ report'[q].status = "accepted"
                                       /\ <<FormOf[SurfaceOf[q]], report'[q].sense>> = k}}
             Backed == \A k \in DOMAIN candidate : candidate'[k] # candidate[k] =>
                           \E users \in SUBSET Backing(k) : Cardinality(users) >= GoldPromotionThreshold
  <1>1. ASSUME Inv, [Next]_vars PROVE Backed
    <2>1. LoopOK /\ DOMAIN candidate = Words \X Senses
      BY <1>1, TypeParts DEF Inv, LoopOK
    <2>2. CASE candidate' = candidate
      BY <2>2
    <2>3. ASSUME NEW f \in Words, NEW s \in Senses, NEW feats, WriteBack(report', f, s, feats),
                 NEW r \in Reports, f = FormOf[SurfaceOf[r]]
          PROVE  Backed
      BY <2>1, <2>3, PromotionIsBacked
    <2>4. CASE ReviewStep
      <3> HIDE DEF Backed
      <3> QED
        BY <2>1, <2>2, <2>3, <2>4, ReviewWritesBack, Zenon
    <2> QED
      BY <1>1, <2>2, <2>4, Writers
  <1>2. ASSUME Inv, [Next]_vars PROVE exported' \subseteq printed \/ exported' = exported
    <2>1. CASE exportVars' = exportVars
      BY <2>1 DEF exportVars
    <2>2. CASE ExportStep
      BY <1>2, <2>2 DEF ExportStep, PrintCandidates, MarkGoldCandidatesExported, ExportStops,
                        Inv, MarkedWasPrinted
    <2> QED
      BY <1>2, <2>1, <2>2, Writers
  <1>3. Inv /\ [Next]_vars => [Backed /\ exported' \subseteq printed]_vars
    <2> HIDE DEF Backed
    <2>1. Inv => exported \subseteq printed
      BY DEF Inv, MarkedWasPrinted
    <2> QED
      BY <1>1, <1>2, <2>1
  <1> QED
    BY <1>3, Invariance, PTL DEF Spec, CandidatesReachReview
=============================================================================
