----------------------------- MODULE ParseProofs -----------------------------
(***************************************************************************)
(* What a parse looks up and what it stores.                               *)
(*                                                                         *)
(* For all queries: the comparator of the merged ranking is a strict weak  *)
(* order, so a lookup has a best reading; in basic mode the keys of the    *)
(* rows of a form rank them without ties; and the reading a parse shows is *)
(* among the meanings the learner chooses from, except where one of the    *)
(* rules that take readings away has taken it.  A lookup is one pass over  *)
(* lists, so the argument is about what the lists contain.                 *)
(*                                                                         *)
(* For all requests and any number of them at once: the history a learner  *)
(* is shown tells of the deck the request made.  A row of parse_sessions   *)
(* is written in one step and linked to its deck in a later one, and other *)
(* requests write in between (SessionInv).  A deck has the cards of its    *)
(* words and the senses asked for, and what an upload returns can be       *)
(* parsed; the arguments follow a text from list to list.  What an         *)
(* overview counts and what a deck contains are both what is written in    *)
(* the text, place by place.                                               *)
(***************************************************************************)
EXTENDS DeckIngest, DictLookup, SequenceTheorems, FiniteSetTheorems, WellFoundedInduction, TLAPS

-----------------------------------------------------------------------------
(* Sets of numbers, finite sets and lists.                                 *)

(* A set of naturals has a least element. *)
LEMMA LeastOf ==
    ASSUME NEW T \in SUBSET Nat, T # {}
    PROVE  \E x \in T : \A y \in T : x <= y
  <1> DEFINE less == {p \in Nat \X Nat : p[1] < p[2]}
  <1>1. less = OpToRel(<, Nat)
    BY DEF OpToRel
  <1>2. IsWellFoundedOn(less, Nat)
    BY <1>1, NatLessThanWellFounded, Zenon
  <1>3. \A a, b \in Nat : a < b => <<a, b>> \in less
    OBVIOUS
  <1> HIDE DEF less
  <1>4. PICK x \in T : \A y \in T : <<y, x>> \notin less
    BY <1>2, WFMin, Zenon
  <1>5. ASSUME NEW y \in T PROVE x <= y
    <2>1. x \in Nat /\ y \in Nat /\ ~(y < x)
      BY <1>3, <1>4
    <2> QED
      BY <2>1
  <1> QED
    BY <1>5

(* Induction on the naturals, stated for sets. *)
LEMMA InductionOnSet ==
    ASSUME NEW T, 0 \in T, \A n \in Nat : n \in T => n + 1 \in T
    PROVE  Nat \subseteq T
  <1> DEFINE rest == Nat \ T
  <1>1. SUFFICES ASSUME rest # {} PROVE FALSE
    OBVIOUS
  <1>2. PICK n \in rest : \A m \in rest : n <= m
    BY <1>1, LeastOf
  <1>3. n # 0 /\ n - 1 \in Nat /\ n - 1 \notin rest
    BY <1>2
  <1>4. n = (n - 1) + 1
    BY <1>2
  <1> QED
    BY <1>2, <1>3, <1>4

(* The entries of a sequence at some positions, in their order: each has as *)
(* many before it as it is long after the first.                           *)
LEMMA TakenRanked ==
    ASSUME NEW n \in Nat, NEW at \in SUBSET (1..n)
    PROVE  /\ IsFiniteSet(at) /\ Cardinality(at) \in Nat
           /\ \A i, j \in at : Cardinality({x \in at : x <= i}) = Cardinality({x \in at : x <= j}) => i = j
           /\ \E e \in [1..Cardinality(at) -> at] :
                /\ \A i \in at : \E k \in 1..Cardinality(at) : e[k] = i
                /\ \A k, l \in 1..Cardinality(at) : k < l => e[k] < e[l]
                /\ \A seq : Taken(seq, at) = [k \in 1..Cardinality(at) |-> seq[e[k]]]
                /\ \A k \in 1..Cardinality(at) : Cardinality({x \in at : x <= e[k]}) = k
  <1> DEFINE upTo(i) == {j \in at : j <= i}
             rank(i) == Cardinality(upTo(i))
             N == Cardinality(at)
  <1>1. IsFiniteSet(at) /\ N \in Nat
    <2>1. IsFiniteSet(1..n)
      BY FS_Interval
    <2> QED
      BY <2>1, FS_Subset, FS_CardinalityType
  <1>2. \A i \in at : IsFiniteSet(upTo(i)) /\ rank(i) \in 1..N
    <2> TAKE i \in at
    <2>1. upTo(i) \in SUBSET at /\ i \in upTo(i)
      OBVIOUS
    <2>2. IsFiniteSet(upTo(i)) /\ rank(i) <= N /\ rank(i) \in Nat
      BY <1>1, <2>1, FS_Subset, FS_CardinalityType
    <2>3. rank(i) # 0
      BY <2>1, <2>2, FS_EmptySet
    <2> HIDE DEF upTo, N
    <2> QED
      BY <1>1, <2>2, <2>3
  <1>3. \A i, j \in at : i < j => rank(i) < rank(j)
    <2> TAKE i, j \in at
    <2> HAVE i < j
    <2>1. upTo(i) \in SUBSET upTo(j) /\ j \in upTo(j) /\ j \notin upTo(i)
      <3>1. \A x \in at : x \in Int
        OBVIOUS
      <3>2. i \in Int /\ j \in Int /\ j <= j /\ ~(j <= i)
        BY <3>1
      <3>3. \A x \in at : x <= i => x <= j
        BY <3>1, <3>2
      <3> QED
        BY <3>2, <3>3
    <2>2. rank(i) <= rank(j) /\ rank(i) # rank(j)
      BY <1>2, <2>1, FS_Subset
    <2>3. rank(i) \in Int /\ rank(j) \in Int
      BY <1>2
    <2> HIDE DEF rank
    <2> QED
      BY <2>2, <2>3
  <1> DEFINE f == [i \in at |-> rank(i)]
  <1>4. f \in Injection(at, 1..N)
    <2>1. \A i, j \in at : rank(i) = rank(j) => i = j
      <3> TAKE i, j \in at
      <3>1. i \in Int /\ j \in Int /\ rank(i) \in Int /\ rank(j) \in Int
        BY <1>2
      <3> HIDE DEF rank
      <3> QED
        BY <1>3, <3>1
    <2> HIDE DEF rank, N
    <2> QED
      BY <1>2, <2>1 DEF Injection, IsInjective
  <1>5. f \in Surjection(at, 1..N)
    <2>1. IsFiniteSet(1..N) /\ Cardinality(1..N) = N
      BY <1>1, FS_Interval
    <2> HIDE DEF f, N
    <2> QED
      BY <1>4, <2>1, FS_Injection DEF N
  <1>6. \A k \in 1..N : \E i \in at : rank(i) = k
    <2> HIDE DEF rank, N
    <2> QED
      BY <1>5 DEF Surjection
  <1> DEFINE e == [k \in 1..N |-> CHOOSE i \in at : rank(i) = k]
  <1>7. \A k \in 1..N : e[k] \in at /\ rank(e[k]) = k
    <2> HIDE DEF rank, N
    <2> QED
      BY <1>6
  <1>8. e \in [1..N -> at]
    <2> HIDE DEF rank, N
    <2> QED
      BY <1>7
  <1>9. \A i \in at : rank(i) \in 1..N /\ e[rank(i)] = i
    <2>1. \A i, j \in at : rank(i) = rank(j) => i = j
      BY <1>4 DEF Injection, IsInjective
    <2> HIDE DEF rank, N, e
    <2> QED
      BY <1>2, <1>7, <2>1
  <1>10. \A k, l \in 1..N : k < l => e[k] < e[l]
    <2> HIDE DEF rank, N, e
    <2> TAKE k, l \in 1..N
    <2> HAVE k < l
    <2>1. e[k] \in at /\ e[l] \in at /\ rank(e[k]) = k /\ rank(e[l]) = l
      BY <1>7
    <2>2. e[k] # e[l] /\ ~(e[l] < e[k])
      <3>1. k \in Int /\ l \in Int
        BY <1>1
      <3>2. e[l] < e[k] => l < k
        BY <1>3, <2>1
      <3> QED
        BY <2>1, <3>1, <3>2
    <2>3. \A x \in at : x \in Int
      OBVIOUS
    <2>4. e[k] \in Int /\ e[l] \in Int
      BY <2>1, <2>3
    <2> QED
      BY <2>2, <2>4
  <1>11. \A seq : Taken(seq, at) = [k \in 1..N |-> seq[e[k]]]
    BY DEF Taken
  <1>13. \A i, j \in at : Cardinality({x \in at : x <= i}) = Cardinality({x \in at : x <= j}) => i = j
    BY <1>4 DEF Injection, IsInjective
  <1> HIDE DEF e, N, f
  <1>14. \A k \in 1..N : Cardinality({x \in at : x <= e[k]}) = k
    BY <1>7, Zenon
  <1> HIDE DEF rank
  <1>12. /\ \A i \in at : \E k \in 1..N : e[k] = i
         /\ \A k, l \in 1..N : k < l => e[k] < e[l]
         /\ \A seq : Taken(seq, at) = [k \in 1..N |-> seq[e[k]]]
    BY <1>9, <1>10, <1>11
  <1> QED
    BY <1>1, <1>8, <1>12, <1>13, <1>14, Zenon DEF N

(* Their order, and that there are no others. *)
LEMMA TakenInOrder ==
    ASSUME NEW n \in Nat, NEW at \in SUBSET (1..n)
    PROVE  /\ Cardinality(at) \in Nat
           /\ \E e \in [1..Cardinality(at) -> at] :
                /\ \A i \in at : \E k \in 1..Cardinality(at) : e[k] = i
                /\ \A k, l \in 1..Cardinality(at) : k < l => e[k] < e[l]
                /\ \A seq : Taken(seq, at) = [k \in 1..Cardinality(at) |-> seq[e[k]]]
  <1>1. Cardinality(at) \in Nat
    BY TakenRanked, ZenonT(60)
  <1>2. PICK e \in [1..Cardinality(at) -> at] :
          /\ \A i \in at : \E k \in 1..Cardinality(at) : e[k] = i
          /\ \A k, l \in 1..Cardinality(at) : k < l => e[k] < e[l]
          /\ \A seq : Taken(seq, at) = [k \in 1..Cardinality(at) |-> seq[e[k]]]
          /\ \A k \in 1..Cardinality(at) : Cardinality({x \in at : x <= e[k]}) = k
    BY TakenRanked, ZenonT(60)
  <1> QED
    BY <1>1, <1>2

(* As many numbers when all are shifted. *)
LEMMA ShiftedSize ==
    ASSUME NEW A \in SUBSET Int, IsFiniteSet(A), NEW o \in Int
    PROVE  Cardinality({j + o : j \in A}) = Cardinality(A)
  <1> DEFINE B == {j + o : j \in A}
             f == [j \in A |-> j + o]
  <1>1. f \in Bijection(A, B)
    <2>1. f \in [A -> B] /\ \A b \in B : \E a \in A : f[a] = b
      OBVIOUS
    <2>2. \A a, b \in A : f[a] = f[b] => a = b
      OBVIOUS
    <2> HIDE DEF f, B
    <2> QED
      BY <2>1, <2>2 DEF Bijection, Injection, Surjection, IsInjective
  <1> HIDE DEF f, B
  <1>2. ExistsBijection(A, B)
    BY <1>1 DEF ExistsBijection
  <1> QED
    BY <1>2, FS_Bijection DEF B

\* The positions in at by their rank.
ByRank(e, N, at) ==
    /\ e \in [1..N -> at]
    /\ \A q : Taken(q, at) = [k \in 1..N |-> q[e[k]]]
    /\ \A k \in 1..N : Cardinality({x \in at : x <= e[k]}) = k

(* Positions have ranks. *)
LEMMA TakenByRank ==
    ASSUME NEW n \in Nat, NEW at \in SUBSET (1..n)
    PROVE  \E e : ByRank(e, Cardinality(at), at)
  <1>1. \E e \in [1..Cardinality(at) -> at] :
           /\ \A q : Taken(q, at) = [k \in 1..Cardinality(at) |-> q[e[k]]]
           /\ \A k \in 1..Cardinality(at) : Cardinality({x \in at : x <= e[k]}) = k
    BY TakenRanked, ZenonT(60)
  <1> QED
    BY <1>1, Zenon DEF ByRank

\* The entries of s at the places in at are those of t in from, which is o places before.
Shifted(s, at, t, from, o) ==
    /\ \A x : x \in at <=> \E j \in from : x = j + o
    /\ \A j \in from : s[j + o] = t[j]

(* What is taken of a part of a list is taken of the list. *)
LEMMA TakenShifted ==
    ASSUME NEW n \in Nat, NEW at \in SUBSET (1..n), NEW m \in Nat, NEW from \in SUBSET (1..m), NEW o \in Nat,
           NEW s, NEW t, Shifted(s, at, t, from, o)
    PROVE  Taken(s, at) = Taken(t, from)
  <1>a. at = {j + o : j \in from}
    BY DEF Shifted
  <1>b. at \in SUBSET (1..n)
    OBVIOUS
  <1>1. from \in SUBSET Int /\ at \in SUBSET Int /\ o \in Int
    BY <1>b
  <1>2. /\ IsFiniteSet(at) /\ Cardinality(at) \in Nat
        /\ \A i, j \in at : Cardinality({x \in at : x <= i}) = Cardinality({x \in at : x <= j}) => i = j
    BY <1>b, TakenRanked, ZenonT(60)
  <1>4. IsFiniteSet(from)
    BY TakenRanked, Zenon
  <1>5. Cardinality(from) = Cardinality(at)
    BY <1>1, <1>4, <1>a, ShiftedSize, Zenon
  <1>n. PICK N : Cardinality(at) = N /\ Cardinality(from) = N
    BY <1>5
  <1>3. PICK e : ByRank(e, N, at)
    <2>1. \E e : ByRank(e, Cardinality(at), at)
      BY <1>b, TakenByRank, Zenon
    <2> QED
      BY <1>n, <2>1
  <1>10. PICK d : ByRank(d, N, from)
    <2>1. \E d : ByRank(d, Cardinality(from), from)
      BY TakenByRank, Zenon
    <2> QED
      BY <1>n, <2>1
  <1>12. /\ e \in [1..N -> at]
         /\ \A k \in 1..N : Cardinality({x \in at : x <= e[k]}) = k
         /\ d \in [1..N -> from]
         /\ \A k \in 1..N : Cardinality({x \in from : x <= d[k]}) = k
    BY <1>3, <1>10, Zenon DEF ByRank
  <1>7. ASSUME NEW k \in 1..N PROVE e[k] = d[k] + o
    <2>1. PICK i \in from : i = d[k]
      BY <1>12
    <2>2. i + o \in at /\ i \in Int /\ e[k] \in at
      BY <1>1, <1>12, <1>a
    <2>a. PICK A : A = {x \in from : x <= i}
      OBVIOUS
    <2>3. {x \in at : x <= i + o} = {x + o : x \in A}
      BY <1>1, <2>2, <2>a, <1>a
    <2>4. A \in SUBSET from /\ A \in SUBSET Int
      BY <1>1, <2>a
    <2>5. Cardinality(A) = k
      BY <1>12, <2>1, <2>a
    <2>6. IsFiniteSet(A)
      BY <1>4, <2>4, FS_Subset
    <2>7. Cardinality({x + o : x \in A}) = Cardinality(A)
      BY <1>1, <2>4, <2>6, ShiftedSize, Zenon
    <2>8. Cardinality({x \in at : x <= i + o}) = k
      BY <2>3, <2>5, <2>7
    <2>9. Cardinality({x \in at : x <= e[k]}) = Cardinality({x \in at : x <= i + o})
      BY <1>12, <2>8
    <2>10. e[k] = i + o
      BY <1>2, <2>2, <2>9, Zenon
    <2> QED
      BY <2>1, <2>10
  <1>8. \A k \in 1..N : s[e[k]] = t[d[k]]
    <2> TAKE k \in 1..N
    <2>1. d[k] \in from /\ e[k] = d[k] + o
      BY <1>7, <1>12
    <2> QED
      BY <2>1 DEF Shifted
  <1>9. Taken(s, at) = [k \in 1..N |-> s[e[k]]] /\ Taken(t, from) = [k \in 1..N |-> t[d[k]]]
    BY <1>3, <1>10, Zenon DEF ByRank
  <1> QED
    BY <1>8, <1>9, <1>a

(* Each of them once. *)
LEMMA TakenPlaces ==
    ASSUME NEW n \in Nat, NEW at \in SUBSET (1..n)
    PROVE  /\ Cardinality(at) \in Nat
           /\ \E e \in [1..Cardinality(at) -> at] :
                /\ \A i \in at : \E k \in 1..Cardinality(at) : e[k] = i
                /\ \A k, l \in 1..Cardinality(at) : e[k] = e[l] => k = l
                /\ \A seq : Taken(seq, at) = [k \in 1..Cardinality(at) |-> seq[e[k]]]
  <1>1. Cardinality(at) \in Nat
    BY TakenInOrder, Zenon
  <1>2. PICK e \in [1..Cardinality(at) -> at] :
           /\ \A i \in at : \E k \in 1..Cardinality(at) : e[k] = i
           /\ \A k, l \in 1..Cardinality(at) : k < l => e[k] < e[l]
           /\ \A seq : Taken(seq, at) = [k \in 1..Cardinality(at) |-> seq[e[k]]]
    BY TakenInOrder, Zenon
  <1>3. \A k, l \in 1..Cardinality(at) : e[k] = e[l] => k = l
    <2> TAKE k, l \in 1..Cardinality(at)
    <2>1. k \in Int /\ l \in Int
      BY <1>1
    <2>2. \A x \in at : x \in Int
      OBVIOUS
    <2>3. e[k] \in at /\ e[l] \in at
      BY <1>2, Zenon
    <2>4. e[k] \in Int /\ e[l] \in Int
      BY <2>2, <2>3
    <2>5. (k < l => e[k] < e[l]) /\ (l < k => e[l] < e[k])
      BY <1>2
    <2> QED
      BY <2>1, <2>4, <2>5
  <1> QED
    BY <1>1, <1>2, <1>3, Zenon

(* So what is taken is what is there, and nothing only if nothing is.      *)
LEMMA TakenEntries ==
    ASSUME NEW n \in Nat, NEW at \in SUBSET (1..n), NEW seq
    PROVE  /\ \E m \in Nat : DOMAIN Taken(seq, at) = 1..m /\ (m = 0 <=> at = {})
           /\ Distinct(Taken(seq, at)) = {seq[i] : i \in at}
           /\ (Taken(seq, at) = <<>>) <=> at = {}
  <1> DEFINE m == Cardinality(at)
  <1>1. PICK e \in [1..m -> at] :
           /\ \A i \in at : \E k \in 1..m : e[k] = i
           /\ \A k, l \in 1..m : e[k] = e[l] => k = l
           /\ \A s : Taken(s, at) = [k \in 1..m |-> s[e[k]]]
    BY TakenPlaces, ZenonT(60)
  <1>2. m \in Nat
    BY TakenPlaces, Zenon
  <1>0. Taken(seq, at) = [k \in 1..m |-> seq[e[k]]]
    BY <1>1, Zenon
  <1> HIDE DEF m
  <1>3. DOMAIN Taken(seq, at) = 1..m
    BY <1>0
  <1>4. m = 0 <=> at = {}
    <2>1. ASSUME m = 0 PROVE at = {}
      BY <1>1, <2>1
    <2>2. ASSUME m # 0 PROVE at # {}
      <3>1. 1 \in 1..m
        BY <1>2, <2>2
      <3> QED
        BY <1>1, <3>1
    <2> QED
      BY <2>1, <2>2
  <1>5. Distinct(Taken(seq, at)) = {seq[i] : i \in at}
    <2>1. Distinct(Taken(seq, at)) = {seq[e[k]] : k \in 1..m}
      BY <1>0, <1>3 DEF Distinct
    <2>2. \A i \in at : \E k \in 1..m : seq[i] = seq[e[k]]
      BY <1>1
    <2>3. \A k \in 1..m : e[k] \in at
      BY <1>1
    <2> QED
      BY <2>1, <2>2, <2>3, Zenon
  <1>6. Taken(seq, at) = <<>> <=> m = 0
    <2>1. ASSUME m = 0 PROVE Taken(seq, at) = <<>>
      BY <1>0, <2>1
    <2>2. ASSUME Taken(seq, at) = <<>> PROVE m = 0
      BY <1>2, <1>3, <2>2
    <2> QED
      BY <2>1, <2>2
  <1> QED
    BY <1>2, <1>3, <1>4, <1>5, <1>6

(* Of finitely many things one beats the others, if of any two one does    *)
(* and beating is transitive.                                              *)
LEMMA OneBeatsAll ==
    ASSUME NEW n \in Nat, NEW beats,
           \A i, j \in 1..n : i # j => <<i, j>> \in beats \/ <<j, i>> \in beats,
           \A i, j, k \in 1..n : <<i, j>> \in beats /\ <<j, k>> \in beats => <<i, k>> \in beats,
           NEW S \in SUBSET (1..n), S # {}
    PROVE  \E b \in S : \A i \in S \ {b} : <<b, i>> \in beats
  <1> DEFINE Best(s, b) == b \in s /\ \A i \in s \ {b} : <<b, i>> \in beats
             T == {k \in Nat : \A s \in SUBSET (1..n) : s # {} /\ s \subseteq 1..k => \E b : Best(s, b)}
  <1>1. 0 \in T
    BY 1..0 = {}
  <1>2. ASSUME NEW k \in Nat, k \in T PROVE k + 1 \in T
    <2> HIDE DEF Best
    <2> SUFFICES ASSUME NEW s \in SUBSET (1..n), s # {}, s \subseteq 1..(k + 1)
                 PROVE  \E b : Best(s, b)
      OBVIOUS
    <2> USE DEF Best
    <2> DEFINE r == s \ {k + 1}
    <2>1. r \in SUBSET (1..n) /\ r \subseteq 1..k
      OBVIOUS
    <2>2. CASE k + 1 \notin s
      <3>1. r = s
        BY <2>2
      <3> QED
        BY <1>2, <2>1, <3>1
    <2>3. CASE r = {}
      <3>1. Best(s, k + 1)
        BY <2>3
      <3> QED
        BY <3>1
    <2>4. CASE k + 1 \in s /\ r # {}
      <3>1. PICK b : Best(r, b)
        BY <1>2, <2>1, <2>4
      <3>2. b \in 1..n /\ k + 1 \in 1..n /\ b # k + 1 /\ b \in s
        BY <2>1, <2>4, <3>1
      <3>3. CASE <<b, k + 1>> \in beats
        <4>1. Best(s, b)
          BY <3>1, <3>2, <3>3
        <4> QED
          BY <4>1
      <3>4. CASE <<k + 1, b>> \in beats
        <4>1. ASSUME NEW i \in s \ {k + 1} PROVE <<k + 1, i>> \in beats
          <5>1. CASE i = b
            BY <3>4, <5>1
          <5>2. CASE i # b
            <6>1. <<b, i>> \in beats /\ i \in 1..n
              BY <2>1, <3>1, <4>1, <5>2
            <6> QED
              BY <3>2, <3>4, <6>1
          <5> QED
            BY <5>1, <5>2
        <4>2. Best(s, k + 1)
          BY <2>4, <4>1
        <4> QED
          BY <4>2
      <3> QED
        BY <3>2, <3>3, <3>4
    <2> QED
      BY <2>2, <2>3, <2>4
  <1> HIDE DEF T
  <1>3. n \in T
    BY <1>1, <1>2, InductionOnSet
  <1> QED
    BY <1>3 DEF T

(* Of finitely many things in a strict order, one has nothing before it.   *)
LEMMA OneIsFirst ==
    ASSUME NEW S, IsFiniteSet(S), S # {}, NEW before,
           \A c \in S : <<c, c>> \notin before,
           \A c, d, e \in S : <<c, d>> \in before /\ <<d, e>> \in before => <<c, e>> \in before
    PROVE  \E c \in S : \A d \in S : <<d, c>> \notin before
  <1> DEFINE First(s, c) == c \in s /\ \A d \in s : <<d, c>> \notin before
             T == {k \in Nat : \A s \in SUBSET S : IsFiniteSet(s) /\ Cardinality(s) = k /\ s # {} => \E c : First(s, c)}
  <1>1. 0 \in T
    BY FS_EmptySet
  <1>2. ASSUME NEW k \in Nat, k \in T PROVE k + 1 \in T
    <2> HIDE DEF First
    <2> SUFFICES ASSUME NEW s \in SUBSET S, IsFiniteSet(s), Cardinality(s) = k + 1
                 PROVE  \E c : First(s, c)
      OBVIOUS
    <2>1. PICK x : x \in s
      BY FS_EmptySet
    <2> DEFINE r == s \ {x}
    <2>2. r \in SUBSET S /\ IsFiniteSet(r) /\ Cardinality(r) = k
      <3>1. IsFiniteSet(r) /\ Cardinality(r) = Cardinality(s) - 1
        BY <2>1, FS_RemoveElement
      <3>2. Cardinality(r) = k
        BY ONLY <1>2, <3>1, Cardinality(s) = k + 1, k \in Nat
      <3> QED
        BY <3>1, <3>2
    <2> USE DEF First
    <2>3. CASE r = {}
      <3>1. First(s, x)
        BY <2>1, <2>3
      <3> QED
        BY <3>1
    <2>4. CASE r # {}
      <3>1. PICK c : First(r, c)
        BY <1>2, <2>2, <2>4
      <3>2. CASE <<x, c>> \in before
        <4>1. First(s, x)
          BY <2>1, <3>1, <3>2
        <4> QED
          BY <4>1
      <3>3. CASE <<x, c>> \notin before
        <4>1. First(s, c)
          BY <2>1, <3>1, <3>3
        <4> QED
          BY <4>1
      <3> QED
        BY <3>2, <3>3
    <2> QED
      BY <2>3, <2>4
  <1> HIDE DEF T
  <1>3. Cardinality(S) \in T
    BY <1>1, <1>2, InductionOnSet, FS_CardinalityType
  <1> QED
    BY <1>3 DEF T

(* A finite set given by a rule has finitely many values. *)
LEMMA ImageIsFinite ==
    ASSUME NEW S, IsFiniteSet(S), NEW f, DOMAIN f = S
    PROVE  IsFiniteSet({f[x] : x \in S})
  <1> DEFINE g == [x \in S |-> f[x]]  T == {f[x] : x \in S}
  <1>1. g \in Surjection(S, T)
    BY DEF Surjection
  <1> HIDE DEF g, T
  <1>2. IsFiniteSet(T)
    BY <1>1, FS_Surjection
  <1> QED
    BY <1>2 DEF T

(* What is taken of a list is a list. *)
LEMMA TakenIsSeq ==
    ASSUME NEW n \in Nat, NEW at \in SUBSET (1..n), NEW seq
    PROVE  /\ Taken(seq, at) \in Seq({seq[i] : i \in at})
           /\ Len(Taken(seq, at)) = Cardinality(at)
  <1> DEFINE m == Cardinality(at)  S == {seq[i] : i \in at}
  <1>1. PICK e \in [1..m -> at] :
           /\ \A i \in at : \E k \in 1..m : e[k] = i
           /\ \A k, l \in 1..m : e[k] = e[l] => k = l
           /\ \A s : Taken(s, at) = [k \in 1..m |-> s[e[k]]]
    BY TakenPlaces, ZenonT(60)
  <1>2. m \in Nat
    BY TakenPlaces, Zenon
  <1>3. Taken(seq, at) = [k \in 1..m |-> seq[e[k]]]
    BY <1>1, Zenon
  <1> HIDE DEF m
  <1>4. \A k \in 1..m : seq[e[k]] \in S
    BY <1>1
  <1> HIDE DEF S
  <1>5. Taken(seq, at) \in [1..m -> S]
    BY <1>3, <1>4
  <1>6. Taken(seq, at) \in Seq(S) /\ Len(Taken(seq, at)) = m
    <2>1. Taken(seq, at) \in Seq(S)
      BY <1>2, <1>5, SeqDef
    <2>2. DOMAIN Taken(seq, at) = 1..m
      BY <1>3
    <2> QED
      BY <1>2, <2>1, <2>2, LenProperties
  <1> QED
    BY <1>6 DEF m, S

(* A list is made of its entries. *)
LEMMA ListOf ==
    ASSUME NEW S, NEW s \in Seq(S)
    PROVE  Len(s) \in Nat /\ DOMAIN s = 1..Len(s) /\ s \in Seq(Distinct(s)) /\ Distinct(s) \subseteq S
  <1>1. Len(s) \in Nat /\ DOMAIN s = 1..Len(s) /\ s \in [1..Len(s) -> S]
    BY LenProperties
  <1>2. s \in [1..Len(s) -> Distinct(s)]
    BY <1>1 DEF Distinct
  <1>3. s \in Seq(Distinct(s))
    BY <1>1, <1>2, SeqDef
  <1>4. Distinct(s) \subseteq S
    BY <1>1 DEF Distinct
  <1> QED
    BY <1>1, <1>3, <1>4

(* What follows a list leaves its entries. *)
LEMMA FollowedBy ==
    ASSUME NEW S, NEW s \in Seq(S), NEW T, NEW t \in Seq(T)
    PROVE  s \o t \in Seq(S \cup T) /\ Distinct(s \o t) = Distinct(s) \cup Distinct(t)
  <1>1. s \in Seq(S \cup T) /\ t \in Seq(S \cup T)
    <2>1. s \in [1..Len(s) -> S] /\ t \in [1..Len(t) -> T] /\ Len(s) \in Nat /\ Len(t) \in Nat
      BY LenProperties
    <2>2. s \in [1..Len(s) -> S \cup T] /\ t \in [1..Len(t) -> S \cup T]
      BY <2>1
    <2> QED
      BY <2>1, <2>2, SeqDef
  <1>2. s \o t \in Seq(S \cup T) /\ Len(s \o t) = Len(s) + Len(t)
    BY <1>1
  <1>3. /\ Len(s) \in Nat /\ Len(t) \in Nat
        /\ DOMAIN s = 1..Len(s) /\ DOMAIN t = 1..Len(t) /\ DOMAIN (s \o t) = 1..(Len(s) + Len(t))
    BY <1>1, <1>2, LenProperties
  <1>4. \A i \in 1..Len(s) : (s \o t)[i] = s[i]
    BY <1>1
  <1>5. \A i \in 1..Len(t) : (s \o t)[Len(s) + i] = t[i]
    BY <1>1
  <1>6. \A i \in 1..(Len(s) + Len(t)) : i \in 1..Len(s) \/ (i - Len(s) \in 1..Len(t) /\ i = Len(s) + (i - Len(s)))
    BY <1>3
  <1> DEFINE u == s \o t
  <1>7. \A x \in Distinct(u) : x \in Distinct(s) \cup Distinct(t)
    <2> TAKE x \in Distinct(u)
    <2>1. PICK i \in 1..(Len(s) + Len(t)) : u[i] = x
      BY <1>3 DEF Distinct
    <2>2. CASE i \in 1..Len(s)
      BY <1>3, <1>4, <2>1, <2>2 DEF Distinct
    <2>3. CASE i - Len(s) \in 1..Len(t) /\ i = Len(s) + (i - Len(s))
      <3>1. x = t[i - Len(s)]
        BY <1>5, <2>1, <2>3
      <3> QED
        BY <1>3, <2>3, <3>1 DEF Distinct
    <2> QED
      BY <1>6, <2>2, <2>3
  <1>8. \A x \in Distinct(s) : x \in Distinct(u)
    <2> TAKE x \in Distinct(s)
    <2>1. PICK i \in 1..Len(s) : s[i] = x
      BY <1>3 DEF Distinct
    <2>2. i \in 1..(Len(s) + Len(t)) /\ u[i] = x
      BY <1>3, <1>4, <2>1
    <2> QED
      BY <1>3, <2>2 DEF Distinct
  <1>9. \A x \in Distinct(t) : x \in Distinct(u)
    <2> TAKE x \in Distinct(t)
    <2>1. PICK i \in 1..Len(t) : t[i] = x
      BY <1>3 DEF Distinct
    <2>2. Len(s) + i \in 1..(Len(s) + Len(t)) /\ u[Len(s) + i] = x
      BY <1>3, <1>5, <2>1
    <2> QED
      BY <1>3, <2>2 DEF Distinct
  <1>10. Distinct(u) = Distinct(s) \cup Distinct(t)
    BY <1>7, <1>8, <1>9
  <1> QED
    BY <1>2, <1>10

-----------------------------------------------------------------------------
(* The ranking of a lookup.                                                 *)


(* What the ranking compares are numbers. *)
LEMMA FormKeys ==
    ASSUME NEW q, NEW all, NEW c
    PROVE  /\ CaseMatch(q.surface, c.res.lemma) \in Int /\ POSSanity(q.surface, c.res.pos) \in Int
           /\ MaBias(q.surface, c.res) \in Int /\ ALongBias(q.surface, c.res) \in Int
           /\ VerbBias(q, all, c) \in Int
  BY DEF CaseMatch, POSSanity, MaBias, ALongBias, VerbBias

(* Keys are compared one after another. *)
LEMMA FirstDiffers5 ==
    ASSUME NEW k1, NEW k2, NEW k3, NEW k4, NEW k5, NEW l1, NEW l2, NEW l3, NEW l4, NEW l5
    PROVE  Above(<<k1, k2, k3, k4, k5>>, <<l1, l2, l3, l4, l5>>) <=>
              \/ k1 > l1
              \/ k1 = l1 /\ k2 > l2
              \/ k1 = l1 /\ k2 = l2 /\ k3 > l3
              \/ k1 = l1 /\ k2 = l2 /\ k3 = l3 /\ k4 > l4
              \/ k1 = l1 /\ k2 = l2 /\ k3 = l3 /\ k4 = l4 /\ k5 > l5
  <1> DEFINE k == <<k1, k2, k3, k4, k5>>  l == <<l1, l2, l3, l4, l5>>
  <1>1. DOMAIN k = {1, 2, 3, 4, 5}
    OBVIOUS
  <1>2. /\ 1..(1 - 1) = {} /\ 1..(2 - 1) = {1} /\ 1..(3 - 1) = {1, 2} /\ 1..(4 - 1) = {1, 2, 3}
        /\ 1..(5 - 1) = {1, 2, 3, 4}
    OBVIOUS
  <1>3. /\ k[1] = k1 /\ k[2] = k2 /\ k[3] = k3 /\ k[4] = k4 /\ k[5] = k5
        /\ l[1] = l1 /\ l[2] = l2 /\ l[3] = l3 /\ l[4] = l4 /\ l[5] = l5
    OBVIOUS
  <1> HIDE DEF k, l
  <1>4. Above(k, l) <=>
              \/ k[1] > l[1]
              \/ k[1] = l[1] /\ k[2] > l[2]
              \/ k[1] = l[1] /\ k[2] = l[2] /\ k[3] > l[3]
              \/ k[1] = l[1] /\ k[2] = l[2] /\ k[3] = l[3] /\ k[4] > l[4]
              \/ k[1] = l[1] /\ k[2] = l[2] /\ k[3] = l[3] /\ k[4] = l[4] /\ k[5] > l[5]
    <2> DEFINE Wins(i) == k[i] > l[i] /\ \A j \in 1..(i - 1) : k[j] = l[j]
    <2>1. Wins(1) <=> k[1] > l[1]
      BY <1>2
    <2>2. Wins(2) <=> k[1] = l[1] /\ k[2] > l[2]
      BY <1>2
    <2>3. Wins(3) <=> k[1] = l[1] /\ k[2] = l[2] /\ k[3] > l[3]
      BY <1>2
    <2>4. Wins(4) <=> k[1] = l[1] /\ k[2] = l[2] /\ k[3] = l[3] /\ k[4] > l[4]
      BY <1>2
    <2>5. Wins(5) <=> k[1] = l[1] /\ k[2] = l[2] /\ k[3] = l[3] /\ k[4] = l[4] /\ k[5] > l[5]
      BY <1>2
    <2>6. Above(k, l) <=> \E i \in DOMAIN k : Wins(i)
      BY Zenon DEF Above
    <2> HIDE DEF Wins
    <2>7. (\E i \in DOMAIN k : Wins(i)) <=> Wins(1) \/ Wins(2) \/ Wins(3) \/ Wins(4) \/ Wins(5)
      BY <1>1, Zenon
    <2> QED
      BY <2>1, <2>2, <2>3, <2>4, <2>5, <2>6, <2>7
  <1> QED
    BY <1>3, <1>4 DEF k, l

(* The same for four keys.                                                 *)
LEMMA FirstDiffers4 ==
    ASSUME NEW k1, NEW k2, NEW k3, NEW k4, NEW l1, NEW l2, NEW l3, NEW l4
    PROVE  Above(<<k1, k2, k3, k4>>, <<l1, l2, l3, l4>>) <=>
              \/ k1 > l1
              \/ k1 = l1 /\ k2 > l2
              \/ k1 = l1 /\ k2 = l2 /\ k3 > l3
              \/ k1 = l1 /\ k2 = l2 /\ k3 = l3 /\ k4 > l4
  <1> DEFINE k == <<k1, k2, k3, k4>>  l == <<l1, l2, l3, l4>>
  <1>1. DOMAIN k = {1, 2, 3, 4}
    OBVIOUS
  <1>2. /\ 1..(1 - 1) = {} /\ 1..(2 - 1) = {1} /\ 1..(3 - 1) = {1, 2} /\ 1..(4 - 1) = {1, 2, 3}
    OBVIOUS
  <1>3. /\ k[1] = k1 /\ k[2] = k2 /\ k[3] = k3 /\ k[4] = k4
        /\ l[1] = l1 /\ l[2] = l2 /\ l[3] = l3 /\ l[4] = l4
    OBVIOUS
  <1> HIDE DEF k, l
  <1>4. Above(k, l) <=>
              \/ k[1] > l[1]
              \/ k[1] = l[1] /\ k[2] > l[2]
              \/ k[1] = l[1] /\ k[2] = l[2] /\ k[3] > l[3]
              \/ k[1] = l[1] /\ k[2] = l[2] /\ k[3] = l[3] /\ k[4] > l[4]
    <2> DEFINE Wins(i) == k[i] > l[i] /\ \A j \in 1..(i - 1) : k[j] = l[j]
    <2>1. Wins(1) <=> k[1] > l[1]
      BY <1>2
    <2>2. Wins(2) <=> k[1] = l[1] /\ k[2] > l[2]
      BY <1>2
    <2>3. Wins(3) <=> k[1] = l[1] /\ k[2] = l[2] /\ k[3] > l[3]
      BY <1>2
    <2>4. Wins(4) <=> k[1] = l[1] /\ k[2] = l[2] /\ k[3] = l[3] /\ k[4] > l[4]
      BY <1>2
    <2>5. Above(k, l) <=> \E i \in DOMAIN k : Wins(i)
      BY Zenon DEF Above
    <2> HIDE DEF Wins
    <2>6. (\E i \in DOMAIN k : Wins(i)) <=> Wins(1) \/ Wins(2) \/ Wins(3) \/ Wins(4)
      BY <1>1, Zenon
    <2> QED
      BY <2>1, <2>2, <2>3, <2>4, <2>5, <2>6
  <1> QED
    BY <1>3, <1>4 DEF k, l

(* A candidate of the ranking: an integer priority and place, no priority *)
(* without a row, and support that tells rows from analyses.              *)
Ranked(c) ==
    /\ c.priority \in Int /\ c.order \in Int
    /\ c.dict \in BOOLEAN /\ c.fst \in BOOLEAN
    /\ ~c.dict => c.priority = 0

(* What the second half of the ranking compares.                           *)
LEMMA WorthKeys ==
    ASSUME NEW c, Ranked(c)
    PROVE  /\ Support(c) \in Int /\ Morphology(c.res) \in {0, 1}
           /\ ~c.dict => c.priority = 0
           /\ c.dict /\ ~c.fst => Support(c) = 3
           /\ c.dict /\ c.fst => Support(c) = 4
           /\ ~c.dict /\ c.fst => Support(c) = 2
           /\ ~c.dict /\ ~c.fst => Support(c) = 1
  BY DEF Ranked, Support, Morphology

(* Among candidates that fit the surface alike, an analysis with           *)
(* morphology is above a row that has none and no priority, and otherwise  *)
(* priority, support, morphology and place decide.                         *)
Outdoes(c, d) ==
    \/ FstBeatsWeakDict(c, d)
    \/ ~FstBeatsWeakDict(d, c) /\ Above(<<c.priority, Support(c), Morphology(c.res), -c.order>>,
                                        <<d.priority, Support(d), Morphology(d.res), -d.order>>)

(* The exception leaves the order strict and weak: an analysis without a   *)
(* row has no priority and less support than any row, and all that lies    *)
(* between it and the row it beats is above the one or below the other.    *)
LEMMA OutdoesIsAnOrder ==
    ASSUME NEW c, NEW d, NEW e, Ranked(c), Ranked(d), Ranked(e)
    PROVE  /\ ~(Outdoes(c, d) /\ Outdoes(d, c))
           /\ Outdoes(c, d) => Outdoes(c, e) \/ Outdoes(e, d)
  <1> DEFINE Strong(x) == x.fst /\ ~x.dict /\ Morphology(x.res) > 0
             Weak(x) == x.dict /\ ~x.fst /\ x.priority <= 0 /\ Morphology(x.res) = 0
             Wins(x, y) ==
                \/ x.priority > y.priority
                \/ x.priority = y.priority /\ Support(x) > Support(y)
                \/ x.priority = y.priority /\ Support(x) = Support(y) /\ Morphology(x.res) > Morphology(y.res)
                \/ /\ x.priority = y.priority /\ Support(x) = Support(y)
                   /\ Morphology(x.res) = Morphology(y.res) /\ -x.order > -y.order
             Num(x) == /\ x.priority \in Int /\ Support(x) \in Int /\ x.order \in Int /\ Morphology(x.res) \in {0, 1}
                       /\ Strong(x) => x.priority = 0 /\ Support(x) = 2 /\ Morphology(x.res) = 1
                       /\ Weak(x) => x.priority <= 0 /\ Support(x) = 3 /\ Morphology(x.res) = 0
                       /\ x.priority # 0 => Support(x) >= 3
                       /\ ~Weak(x) /\ x.priority <= 0 /\ Support(x) = 3 => Morphology(x.res) = 1
                       /\ ~Strong(x) /\ Support(x) = 2 => Morphology(x.res) = 0
  <1>1. \A x, y : Outdoes(x, y) <=> (Strong(x) /\ Weak(y)) \/ (~(Strong(y) /\ Weak(x)) /\ Wins(x, y))
    BY FirstDiffers4 DEF Outdoes, FstBeatsWeakDict
  <1>2. ASSUME NEW x, Ranked(x) PROVE Num(x)
    BY <1>2, WorthKeys DEF Ranked
  <1>3. Num(c) /\ Num(d) /\ Num(e)
    BY <1>2
  <1> QED
    BY <1>1, <1>3

(* The keys that say how well a candidate fits the surface come first.     *)
LEMMA PrecedesIsAnOrder ==
    ASSUME NEW q, NEW all, NEW c, NEW d, NEW e, Ranked(c), Ranked(d), Ranked(e)
    PROVE  /\ ~(Precedes(q, all, c, d) /\ Precedes(q, all, d, c))
           /\ Precedes(q, all, c, d) => Precedes(q, all, c, e) \/ Precedes(q, all, e, d)
  <1> DEFINE Form(x) == <<CaseMatch(q.surface, x.res.lemma), POSSanity(q.surface, x.res.pos),
                          MaBias(q.surface, x.res), ALongBias(q.surface, x.res), VerbBias(q, all, x)>>
  <1>1. \A x, y : Precedes(q, all, x, y) <=> Above(Form(x), Form(y)) \/ (Form(x) = Form(y) /\ Outdoes(x, y))
    BY Zenon DEF Precedes, Outdoes
  <1>2. \A x, y : /\ ~(Above(Form(x), Form(y)) /\ Above(Form(y), Form(x)))
                  /\ Above(Form(x), Form(y)) => Form(x) # Form(y)
    BY FormKeys, FirstDiffers5
  <1>3. \A x, y, z : Above(Form(x), Form(y)) => Above(Form(x), Form(z)) \/ Above(Form(z), Form(y))
    BY FormKeys, FirstDiffers5
  <1>4. \A x, y : Above(Form(x), Form(y)) \/ Above(Form(y), Form(x)) \/ Form(x) = Form(y)
    BY FormKeys, FirstDiffers5
  <1> HIDE DEF Form
  <1> QED
    BY <1>1, <1>2, <1>3, <1>4, OutdoesIsAnOrder

(* The candidates that are merged are such candidates.                     *)
LEMMA MergedAreRanked ==
    ASSUME QueriesOK, NEW q \in Queries, NEW c \in Merged(q)
    PROVE  Ranked(c)
  <1> DEFINE n == Len(Analyses(q))
  <1>1. n \in Nat
    <2>1. Len(q.analyses) \in Nat
      BY DEF QueriesOK
    <2>2. Analyses(q) = q.analyses \/ \E o : Analyses(q) = <<o>>
      BY DEF Analyses, OverlayOf
    <2>3. \A o : Len(<<o>>) = 1
      OBVIOUS
    <2> QED
      BY <2>1, <2>2, <2>3
  <1>2. \A S \in SUBSET Nat : S # {} => Min(S) \in Int
    <2> TAKE S \in SUBSET Nat
    <2> HAVE S # {}
    <2>1. \E x \in S : \A y \in S : x <= y
      BY LeastOf
    <2>2. Min(S) \in S
      BY <2>1 DEF Min
    <2>3. \A x \in S : x \in Int
      OBVIOUS
    <2> QED
      BY <2>2, <2>3
  <1>3. \A k \in DOMAIN q.rows : k \in Nat /\ q.rows[k].priority \in Int
    <2>1. q.rows \in Seq(Distinct(q.rows)) /\ \A r \in Distinct(q.rows) : r.priority \in Int
      BY DEF QueriesOK
    <2>2. DOMAIN q.rows = 1..Len(q.rows)
      BY <2>1
    <2>3. \A k \in DOMAIN q.rows : q.rows[k] \in Distinct(q.rows)
      BY DEF Distinct
    <2> QED
      BY <2>1, <2>2, <2>3
  <1> HIDE DEF n
  <1>4. \/ \E k \in DOMAIN q.rows, S \in SUBSET (1..n) :
              /\ c.priority = q.rows[k].priority /\ c.dict = TRUE /\ c.fst \in BOOLEAN
              /\ c.order = Min(S \cup {n + k})
        \/ \E i \in 1..n : c.priority = 0 /\ c.dict = FALSE /\ c.fst = TRUE /\ c.order = i
    <2> DEFINE of(r) == {i \in 1..n : Reading(Analyses(q)[i]) = Reading(r)}
    <2>1. CASE \E k \in DOMAIN q.rows : c =
                 [res |-> Enriched(FromRow(q.surface, q.rows[k]),
                                   {FromAnalysis(q.surface, Analyses(q)[i], "fst") : i \in of(q.rows[k])}),
                  priority |-> q.rows[k].priority, dict |-> TRUE, fst |-> of(q.rows[k]) # {},
                  order |-> Min(of(q.rows[k]) \cup {n + k})]
      <3>1. PICK k \in DOMAIN q.rows : c =
                 [res |-> Enriched(FromRow(q.surface, q.rows[k]),
                                   {FromAnalysis(q.surface, Analyses(q)[i], "fst") : i \in of(q.rows[k])}),
                  priority |-> q.rows[k].priority, dict |-> TRUE, fst |-> of(q.rows[k]) # {},
                  order |-> Min(of(q.rows[k]) \cup {n + k})]
        BY <2>1
      <3>2. of(q.rows[k]) \in SUBSET (1..n)
        OBVIOUS
      <3>3. /\ c.priority = q.rows[k].priority /\ c.dict = TRUE /\ c.fst \in BOOLEAN
            /\ c.order = Min(of(q.rows[k]) \cup {n + k})
        BY <3>1, Zenon
      <3> HIDE DEF of
      <3> QED
        BY <3>2, <3>3, Zenon
    <2>2. CASE \E i \in 1..n : c =
                 [res |-> FromAnalysis(q.surface, Analyses(q)[i], "fst"), priority |-> 0,
                  dict |-> FALSE, fst |-> TRUE, order |-> i]
      <3>1. PICK i \in 1..n : c =
                 [res |-> FromAnalysis(q.surface, Analyses(q)[i], "fst"), priority |-> 0,
                  dict |-> FALSE, fst |-> TRUE, order |-> i]
        BY <2>2
      <3>2. c.priority = 0 /\ c.dict = FALSE /\ c.fst = TRUE /\ c.order = i
        BY <3>1
      <3> QED
        BY <3>2, Zenon
    <2> QED
      BY <2>1, <2>2, Zenon DEF Merged, n
  <1>5. CASE \E k \in DOMAIN q.rows, S \in SUBSET (1..n) :
              /\ c.priority = q.rows[k].priority /\ c.dict = TRUE /\ c.fst \in BOOLEAN
              /\ c.order = Min(S \cup {n + k})
    <2>1. PICK k \in DOMAIN q.rows, S \in SUBSET (1..n) :
              /\ c.priority = q.rows[k].priority /\ c.dict = TRUE /\ c.fst \in BOOLEAN
              /\ c.order = Min(S \cup {n + k})
      BY <1>5
    <2>2. S \cup {n + k} \in SUBSET Nat /\ S \cup {n + k} # {}
      <3>1. k \in Nat /\ n + k \in Nat
        BY <1>1, <1>3
      <3>2. \A i \in 1..n : i \in Nat
        BY <1>1
      <3> QED
        BY <2>1, <3>1, <3>2
    <2>3. c.order \in Int /\ c.priority \in Int
      BY <1>2, <1>3, <2>1, <2>2
    <2> QED
      BY <2>1, <2>3, Zenon DEF Ranked
  <1>6. CASE \E i \in 1..n : c.priority = 0 /\ c.dict = FALSE /\ c.fst = TRUE /\ c.order = i
    <2>1. c.order \in Int /\ c.priority = 0 /\ 0 \in Int
      BY <1>1, <1>6
    <2> QED
      BY <1>6, <2>1, Zenon DEF Ranked
  <1> QED
    BY <1>4, <1>5, <1>6

(* The comparator of the merged ranking is a strict weak order, whatever   *)
(* the rows and the analyses that meet and however many: no three readings *)
(* beat each other in a circle, and equally good ones are interchangeable. *)
THEOREM RankingOrders == LookupSpec => []RankingIsAnOrder
  <1>1. LookupInit => query \in Queries
    BY DEF LookupInit
  <1>2. query \in Queries /\ [LookupNext]_lookupVars => (query \in Queries)'
    BY DEF LookupNext, BatchLookupForms, SurfaceCandidates, lookupVars
  <1>3. query \in Queries => RankingIsAnOrder
    BY QueriesAssumption, MergedAreRanked, PrecedesIsAnOrder, Zenon DEF RankingIsAnOrder
  <1> QED
    BY <1>1, <1>2, <1>3, PTL DEF LookupSpec

-----------------------------------------------------------------------------
(* The pick of the basic mode.                                             *)

(* And the same for six. *)
LEMMA FirstDiffers6 ==
    ASSUME NEW k1, NEW k2, NEW k3, NEW k4, NEW k5, NEW k6, NEW l1, NEW l2, NEW l3, NEW l4, NEW l5, NEW l6
    PROVE  Above(<<k1, k2, k3, k4, k5, k6>>, <<l1, l2, l3, l4, l5, l6>>) <=>
              \/ k1 > l1
              \/ k1 = l1 /\ k2 > l2
              \/ k1 = l1 /\ k2 = l2 /\ k3 > l3
              \/ k1 = l1 /\ k2 = l2 /\ k3 = l3 /\ k4 > l4
              \/ k1 = l1 /\ k2 = l2 /\ k3 = l3 /\ k4 = l4 /\ k5 > l5
              \/ k1 = l1 /\ k2 = l2 /\ k3 = l3 /\ k4 = l4 /\ k5 = l5 /\ k6 > l6
  <1> DEFINE k == <<k1, k2, k3, k4, k5, k6>>  l == <<l1, l2, l3, l4, l5, l6>>
             Wins(i) == k[i] > l[i] /\ \A j \in 1..(i - 1) : k[j] = l[j]
  <1>1. DOMAIN k = {1, 2, 3, 4, 5, 6}
    OBVIOUS
  <1>2. /\ 1..(1 - 1) = {} /\ 1..(2 - 1) = {1} /\ 1..(3 - 1) = {1, 2} /\ 1..(4 - 1) = {1, 2, 3}
        /\ 1..(5 - 1) = {1, 2, 3, 4} /\ 1..(6 - 1) = {1, 2, 3, 4, 5}
    OBVIOUS
  <1>3. /\ k[1] = k1 /\ k[2] = k2 /\ k[3] = k3 /\ k[4] = k4 /\ k[5] = k5 /\ k[6] = k6
        /\ l[1] = l1 /\ l[2] = l2 /\ l[3] = l3 /\ l[4] = l4 /\ l[5] = l5 /\ l[6] = l6
    OBVIOUS
  <1> HIDE DEF k, l
  <1>4. Wins(1) <=> k1 > l1
    BY <1>2, <1>3
  <1>5. Wins(2) <=> k1 = l1 /\ k2 > l2
    BY <1>2, <1>3
  <1>6. Wins(3) <=> k1 = l1 /\ k2 = l2 /\ k3 > l3
    BY <1>2, <1>3
  <1>7. Wins(4) <=> k1 = l1 /\ k2 = l2 /\ k3 = l3 /\ k4 > l4
    BY <1>2, <1>3
  <1>8. Wins(5) <=> k1 = l1 /\ k2 = l2 /\ k3 = l3 /\ k4 = l4 /\ k5 > l5
    BY <1>2, <1>3
  <1>9. Wins(6) <=> k1 = l1 /\ k2 = l2 /\ k3 = l3 /\ k4 = l4 /\ k5 = l5 /\ k6 > l6
    BY <1>2, <1>3
  <1>10. Above(k, l) <=> \E i \in DOMAIN k : Wins(i)
    BY Zenon DEF Above
  <1> HIDE DEF Wins
  <1>11. (\E i \in DOMAIN k : Wins(i)) <=> Wins(1) \/ Wins(2) \/ Wins(3) \/ Wins(4) \/ Wins(5) \/ Wins(6)
    BY <1>1, Zenon
  <1> QED
    BY <1>4, <1>5, <1>6, <1>7, <1>8, <1>9, <1>10, <1>11 DEF k, l

(* The keys of rows are compared as such: neither is above the other only  *)
(* if they are the same, and what is above stays above.                    *)
LEMMA RowKeysOrder ==
    ASSUME QueriesOK, NEW q \in Queries, NEW surface
    PROVE  \A r, s, t \in Distinct(q.rows) :
             LET Beats(x, y) == Above(RowKeys(surface, x), RowKeys(surface, y)) IN
             /\ ~(Beats(r, s) /\ Beats(s, r))
             /\ Beats(r, s) /\ Beats(s, t) => Beats(r, t)
             /\ Beats(r, s) \/ Beats(s, r) \/ Reading(r) = Reading(s)
  <1> DEFINE Beats(x, y) == Above(RowKeys(surface, x), RowKeys(surface, y))
             A(x) == CaseMatch(surface, x.lemma)
             B(x) == POSSanity(surface, x.pos)
             C(x) == NameOrder[x.source]
             D(x) == LemmaOrder[x.lemma]
             E(x) == NameOrder[x.pos]
  <1>1. \A x, y : Beats(x, y) <=>
          \/ A(x) > A(y)
          \/ A(x) = A(y) /\ B(x) > B(y)
          \/ A(x) = A(y) /\ B(x) = B(y) /\ x.priority > y.priority
          \/ A(x) = A(y) /\ B(x) = B(y) /\ x.priority = y.priority /\ -C(x) > -C(y)
          \/ A(x) = A(y) /\ B(x) = B(y) /\ x.priority = y.priority /\ -C(x) = -C(y) /\ -D(x) > -D(y)
          \/ /\ A(x) = A(y) /\ B(x) = B(y) /\ x.priority = y.priority /\ -C(x) = -C(y) /\ -D(x) = -D(y)
             /\ -E(x) > -E(y)
    <2> TAKE x, y
    <2> HIDE DEF A, B, C, D, E
    <2>1. Beats(x, y) <=> Above(<<A(x), B(x), x.priority, -C(x), -D(x), -E(x)>>,
                                <<A(y), B(y), y.priority, -C(y), -D(y), -E(y)>>)
      BY Zenon DEF RowKeys, A, B, C, D, E
    <2> HIDE DEF Beats
    <2> QED
      BY <2>1, FirstDiffers6
  <1>2. \A x \in Distinct(q.rows) : A(x) \in Int /\ B(x) \in Int /\ x.priority \in Int
                                  /\ C(x) \in Int /\ D(x) \in Int /\ E(x) \in Int
    BY DEF QueriesOK, CaseMatch, POSSanity
  <1>3. \A x, y \in Distinct(q.rows) : /\ D(x) = D(y) => x.lemma = y.lemma
                                     /\ E(x) = E(y) => x.pos = y.pos
    BY Zenon DEF QueriesOK
  <1> HIDE DEF A, B, C, D, E, Beats
  <1>4. SUFFICES ASSUME NEW r \in Distinct(q.rows), NEW s \in Distinct(q.rows), NEW t \in Distinct(q.rows)
                 PROVE  /\ ~(Beats(r, s) /\ Beats(s, r))
                        /\ Beats(r, s) /\ Beats(s, t) => Beats(r, t)
                        /\ Beats(r, s) \/ Beats(s, r) \/ Reading(r) = Reading(s)
    BY DEF Beats
  <1>5. ~(Beats(r, s) /\ Beats(s, r))
    BY <1>1, <1>2
  <1>6. Beats(r, s) /\ Beats(s, t) => Beats(r, t)
    BY <1>1, <1>2
  <1>7. Beats(r, s) \/ Beats(s, r) \/ (D(r) = D(s) /\ E(r) = E(s))
    BY <1>1, <1>2
  <1>8. D(r) = D(s) /\ E(r) = E(s) => r.lemma = s.lemma /\ r.pos = s.pos
    BY Zenon DEF D, E, QueriesOK
  <1>9. r.lemma = s.lemma /\ r.pos = s.pos => Reading(r) = Reading(s)
    BY DEF Reading
  <1> QED
    BY <1>5, <1>6, <1>7, <1>8, <1>9

(* The first best of a list whose keys one entry leads is that entry.      *)
LEMMA BestRowLeads ==
    ASSUME NEW surface, NEW seq, NEW m \in Nat, DOMAIN seq = 1..m, NEW r \in Distinct(seq),
           \A s \in Distinct(seq) : ~Above(RowKeys(surface, s), RowKeys(surface, r)),
           \A s \in Distinct(seq) \ {r} : Above(RowKeys(surface, r), RowKeys(surface, s))
    PROVE  BestRow(surface, seq) = r
  <1> DEFINE P == {i \in DOMAIN seq : \A j \in DOMAIN seq :
                       ~Above(RowKeys(surface, seq[j]), RowKeys(surface, seq[i]))}
  <1>1. BestRow(surface, seq) = seq[Min(P)]
    BY Zenon DEF BestRow, FirstBest
  <1>2. \A i \in DOMAIN seq : seq[i] \in Distinct(seq)
    BY DEF Distinct
  <1>3. PICK i0 \in DOMAIN seq : seq[i0] = r
    BY DEF Distinct
  <1>4. i0 \in P
    BY <1>2, <1>3
  <1>5. \A i \in P : seq[i] = r
    BY <1>2, <1>3
  <1>6. P \in SUBSET Nat
    OBVIOUS
  <1> HIDE DEF P
  <1>7. PICK x \in P : \A y \in P : x <= y
    BY <1>4, <1>6, LeastOf
  <1>8. Min(P) \in P
    BY <1>7 DEF Min
  <1> QED
    BY <1>1, <1>5, <1>8

(* The rows of a query: a list of rows whose readings differ.              *)
LEMMA RowsListed ==
    ASSUME QueriesOK, NEW q \in Queries
    PROVE  /\ Len(q.rows) \in Nat /\ DOMAIN q.rows = 1..Len(q.rows)
           /\ \A i \in DOMAIN q.rows : q.rows[i] \in Distinct(q.rows)
           /\ \A i, j \in DOMAIN q.rows : i # j => Reading(q.rows[i]) # Reading(q.rows[j])
  <1>1. q.rows \in Seq(Distinct(q.rows)) /\ \A i, j \in DOMAIN q.rows : i # j => Reading(q.rows[i]) # Reading(q.rows[j])
    BY DEF QueriesOK
  <1>2. \A i \in DOMAIN q.rows : q.rows[i] \in Distinct(q.rows)
    BY DEF Distinct
  <1> HIDE DEF QueriesOK
  <1> QED
    BY <1>1, <1>2

(* Some considered row leads the others in its keys.                       *)
LEMMA SomeRowLeads ==
    ASSUME QueriesOK, NEW q \in Queries, NEW surface,
           NEW S \in SUBSET (DOMAIN q.rows), S # {}
    PROVE  \E b \in S : LET r == q.rows[b]  there == {q.rows[i] : i \in S} IN
             /\ \A s \in there : ~Above(RowKeys(surface, s), RowKeys(surface, r))
             /\ \A s \in there \ {r} : Above(RowKeys(surface, r), RowKeys(surface, s))
  <1> DEFINE n == Len(q.rows)
             Beats(x, y) == Above(RowKeys(surface, x), RowKeys(surface, y))
             beats == {p \in (1..n) \X (1..n) : Beats(q.rows[p[1]], q.rows[p[2]])}
  <1>1. /\ n \in Nat /\ DOMAIN q.rows = 1..n
        /\ \A i \in 1..n : q.rows[i] \in Distinct(q.rows)
        /\ \A i, j \in 1..n : i # j => Reading(q.rows[i]) # Reading(q.rows[j])
    BY RowsListed
  <1>2. \A r, s, t \in Distinct(q.rows) :
             /\ ~(Beats(r, s) /\ Beats(s, r))
             /\ Beats(r, s) /\ Beats(s, t) => Beats(r, t)
             /\ Beats(r, s) \/ Beats(s, r) \/ Reading(r) = Reading(s)
    BY RowKeysOrder
  <1> HIDE DEF Beats, n
  <1>3. \A i, j \in 1..n : <<i, j>> \in beats <=> Beats(q.rows[i], q.rows[j])
    OBVIOUS
  <1> HIDE DEF beats
  <1>4. /\ \A i, j \in 1..n : i # j => <<i, j>> \in beats \/ <<j, i>> \in beats
        /\ \A i, j, k \in 1..n : <<i, j>> \in beats /\ <<j, k>> \in beats => <<i, k>> \in beats
    BY <1>1, <1>2, <1>3
  <1>5. PICK b \in S : \A i \in S \ {b} : <<b, i>> \in beats
    BY <1>1, <1>4, OneBeatsAll
  <1>6. \A i \in S \ {b} : Beats(q.rows[b], q.rows[i])
    BY <1>1, <1>3, <1>5
  <1>7. \A s \in {q.rows[i] : i \in S} \ {q.rows[b]} : Beats(q.rows[b], s)
    BY <1>6
  <1>8. \A s \in {q.rows[i] : i \in S} : ~Beats(s, q.rows[b])
    BY <1>1, <1>2, <1>7
  <1> QED
    BY <1>7, <1>8 DEF Beats

(* A numbering that repeats nothing leaves nothing out.                    *)
LEMMA NumberingIsComplete ==
    ASSUME NEW n \in Nat, NEW p \in [1..n -> 1..n], IsInjective(p)
    PROVE  \A i \in 1..n : \E k \in 1..n : p[k] = i
  <1>1. IsFiniteSet(1..n)
    BY FS_Interval
  <1>2. p \in Injection(1..n, 1..n)
    BY DEF Injection, IsInjective
  <1>3. p \in Surjection(1..n, 1..n)
    BY <1>1, <1>2, FS_Injection
  <1> QED
    BY <1>3 DEF Surjection

(* In basic mode a pick is decided by which rows there are.                *)
LEMMA SameRowsSamePick ==
    ASSUME QueriesOK, NEW q \in Queries, q.mode = "basic",
           NEW p \in [1..Len(q.rows) -> 1..Len(q.rows)], IsInjective(p)
    PROVE  PickOf([q EXCEPT !.rows = [i \in 1..Len(q.rows) |-> q.rows[p[i]]]]) = PickOf(q)
  <1> DEFINE n == Len(q.rows)
             rows == [i \in 1..n |-> q.rows[p[i]]]
             q2 == [q EXCEPT !.rows = rows]
             Fits(x) == Considered(q, x)
             at == {k \in 1..n : Fits(q.rows[k])}
             at2 == {k \in 1..n : Fits(rows[k])}
  <1>1. /\ n \in Nat /\ DOMAIN q.rows = 1..n
    BY RowsListed
  <1>2. DOMAIN q = QueryFields
    BY DEF QueriesOK
  <1>3. /\ q2.rows = rows /\ q2.mode = q.mode /\ q2.surface = q.surface /\ q2.lang = q.lang
    BY <1>2 DEF QueryFields
  <1> HIDE DEF q2
  <1>4. Curated(q2) = <<>> /\ Curated(q) = <<>>
    BY <1>3 DEF Curated
  <1>5. \A x : Considered(q2, x) = Fits(x)
    BY <1>3 DEF Considered
  <1>6. Candidates(q) = Taken(q.rows, at)
    BY <1>1 DEF Candidates
  <1>7. Candidates(q2) = Taken(rows, at2)
    BY <1>3, <1>5 DEF Candidates
  <1> HIDE DEF Fits
  <1>8. {rows[k] : k \in at2} = {q.rows[k] : k \in at}
    <2>1. \A i \in 1..n : \E k \in 1..n : p[k] = i
      BY <1>1, NumberingIsComplete
    <2>2. \A k \in 1..n : rows[k] = q.rows[p[k]] /\ p[k] \in 1..n
      OBVIOUS
    <2> HIDE DEF rows, n
    <2>3. \A k \in at2 : p[k] \in at /\ rows[k] = q.rows[p[k]]
      BY <2>2
    <2>4. \A i \in at : \E k \in at2 : rows[k] = q.rows[i]
      <3> TAKE i \in at
      <3>1. PICK k \in 1..n : p[k] = i
        BY <2>1
      <3>2. rows[k] = q.rows[i] /\ k \in at2
        BY <2>2, <3>1
      <3> QED
        BY <3>2
    <2> HIDE DEF at, at2
    <2> QED
      BY <2>3, <2>4
  <1> DEFINE there == {q.rows[k] : k \in at}
  <1> HIDE DEF rows, n
  <1>s. at \in SUBSET (1..n) /\ at2 \in SUBSET (1..n)
    OBVIOUS
  <1>9. /\ \E m \in Nat : DOMAIN Candidates(q) = 1..m
        /\ Distinct(Candidates(q)) = there
        /\ (Candidates(q) = <<>>) <=> there = {}
    <2>1. there = {} <=> at = {}
      OBVIOUS
    <2> HIDE DEF at
    <2>2. /\ \E m \in Nat : DOMAIN Candidates(q) = 1..m /\ (m = 0 <=> at = {})
          /\ Distinct(Candidates(q)) = {q.rows[k] : k \in at}
          /\ (Candidates(q) = <<>>) <=> at = {}
      <3>1. /\ \E m \in Nat : DOMAIN Taken(q.rows, at) = 1..m /\ (m = 0 <=> at = {})
            /\ Distinct(Taken(q.rows, at)) = {q.rows[k] : k \in at}
            /\ (Taken(q.rows, at) = <<>>) <=> at = {}
        BY <1>1, <1>s, TakenEntries
      <3> QED
        BY <1>6, <3>1
    <2>3. (Candidates(q) = <<>>) <=> at = {}
      BY <2>2, Zenon
    <2> QED
      BY <2>1, <2>2, <2>3
  <1>10. /\ \E m \in Nat : DOMAIN Candidates(q2) = 1..m
         /\ Distinct(Candidates(q2)) = there
         /\ (Candidates(q2) = <<>>) <=> there = {}
    <2>1. /\ \E m \in Nat : DOMAIN Candidates(q2) = 1..m /\ (m = 0 <=> at2 = {})
          /\ Distinct(Candidates(q2)) = {rows[k] : k \in at2}
          /\ (Candidates(q2) = <<>>) <=> at2 = {}
      <3> HIDE DEF at2
      <3> QED
        <4>1. /\ \E m \in Nat : DOMAIN Taken(rows, at2) = 1..m /\ (m = 0 <=> at2 = {})
              /\ Distinct(Taken(rows, at2)) = {rows[k] : k \in at2}
              /\ (Taken(rows, at2) = <<>>) <=> at2 = {}
          BY <1>1, <1>s, TakenEntries
        <4> QED
          BY <1>7, <4>1
    <2>2. at2 = {} <=> {rows[k] : k \in at2} = {}
      OBVIOUS
    <2> HIDE DEF at2, there
    <2> QED
      BY <1>8, <2>1, <2>2 DEF there
  <1>11. CASE there = {}
    <2>1. Candidates(q) = <<>> /\ Candidates(q2) = <<>>
      BY <1>9, <1>10, <1>11
    <2>2. PickOf(q) = <<>> /\ PickOf(q2) = <<>>
      BY <1>3, <1>4, <2>1 DEF PickOf
    <2> QED
      BY <2>2 DEF q2, rows, n
  <1>12. CASE there # {}
    <2>1. PICK b \in at :
             /\ \A s \in there : ~Above(RowKeys(q.surface, s), RowKeys(q.surface, q.rows[b]))
             /\ \A s \in there \ {q.rows[b]} : Above(RowKeys(q.surface, q.rows[b]), RowKeys(q.surface, s))
      <3>1. at \in SUBSET (DOMAIN q.rows) /\ at # {}
        BY <1>1, <1>12
      <3> HIDE DEF at
      <3> QED
        BY <3>1, SomeRowLeads
    <2>2. q.rows[b] \in there
      OBVIOUS
    <2> HIDE DEF there, at, at2
    <2>3. BestRow(q.surface, Candidates(q)) = q.rows[b]
      BY <1>9, <2>1, <2>2, BestRowLeads
    <2>4. BestRow(q.surface, Candidates(q2)) = q.rows[b]
      BY <1>10, <2>1, <2>2, BestRowLeads
    <2>5. Candidates(q) # <<>> /\ Candidates(q2) # <<>>
      BY <1>9, <1>10, <1>12
    <2>6. PickOf(q) = <<FromRow(q.surface, q.rows[b])>>
      BY <1>4, <2>3, <2>5, Zenon DEF PickOf
    <2>7. PickOf(q2) = <<FromRow(q.surface, q.rows[b])>>
      BY <1>3, <1>4, <2>4, <2>5, Zenon DEF PickOf
    <2> QED
      BY <2>6, <2>7 DEF q2, rows, n
  <1> QED
    BY <1>11, <1>12

(* What was looked up stays, the pick is its pick and comes first, and the *)
(* offer is its offer.                                                     *)
PickInv == /\ query \in Queries
           /\ picked \in {<<>>, <<PickOf(query)>>}
           /\ offered \in {<<>>, <<Meanings(query)>>}
           /\ offered # <<>> => picked # <<>>

(* The pick of a lookup is made from the query and not changed.            *)
LEMMA PickInvariance == LookupSpec => []PickInv
  <1>1. LookupInit => PickInv
    BY DEF LookupInit, PickInv
  <1>2. PickInv /\ [LookupNext]_lookupVars => PickInv'
    <2> SUFFICES ASSUME PickInv, [LookupNext]_lookupVars PROVE PickInv'
      OBVIOUS
    <2> USE DEF PickInv
    <2>1. CASE BatchLookupForms
      BY <2>1 DEF BatchLookupForms
    <2>2. CASE SurfaceCandidates
      BY <2>2 DEF SurfaceCandidates
    <2>3. CASE UNCHANGED lookupVars
      BY <2>3 DEF lookupVars
    <2> QED
      BY <2>1, <2>2, <2>3 DEF LookupNext
  <1> QED
    BY <1>1, <1>2, PTL DEF LookupSpec

(* In basic mode the order in which the rows of a form are read decides    *)
(* nothing: their keys rank them without ties.                             *)
THEOREM PickIgnoresRowOrder == LookupSpec => []BasicPickIgnoresRowOrder
  <1>1. PickInv => BasicPickIgnoresRowOrder
    <2> SUFFICES ASSUME PickInv, query.mode = "basic", picked # <<>>,
                        NEW p \in [1..Len(query.rows) -> 1..Len(query.rows)], IsInjective(p)
                 PROVE  PickOf([query EXCEPT !.rows = [i \in 1..Len(query.rows) |-> query.rows[p[i]]]])
                            = Head(picked)
      BY DEF BasicPickIgnoresRowOrder
    <2>1. query \in Queries /\ picked = <<PickOf(query)>>
      BY DEF PickInv
    <2> QED
      BY <2>1, SameRowsSamePick, QueriesAssumption
  <1> QED
    BY <1>1, PickInvariance, PTL

-----------------------------------------------------------------------------
(* What is shown and what is offered.                                      *)

(* The analyses of a query are a list. *)
LEMMA AnalysesListed ==
    ASSUME QueriesOK, NEW q \in Queries
    PROVE  Len(Analyses(q)) \in Nat /\ DOMAIN Analyses(q) = 1..Len(Analyses(q))
  <1>1. q.analyses \in Seq(Distinct(q.analyses))
    BY DEF QueriesOK
  <1>2. Analyses(q) = q.analyses \/ \E o : Analyses(q) = <<o>>
    BY DEF Analyses, OverlayOf
  <1>3. \A o : Len(<<o>>) = 1 /\ DOMAIN <<o>> = 1..1
    OBVIOUS
  <1>4. Len(q.analyses) \in Nat /\ DOMAIN q.analyses = 1..Len(q.analyses)
    BY <1>1
  <1> QED
    BY <1>2, <1>3, <1>4

(* A reading with what a lookup says of it.                                *)
IsResolution(x) ==
    x = [lemma |-> x.lemma, pos |-> x.pos, feats |-> x.feats, label |-> x.label, source |-> x.source]

(* What is said of a row or an analysis is of its reading.                 *)
LEMMA ResolutionReading ==
    ASSUME NEW r, NEW feats, NEW label, NEW source
    PROVE  LET x == Resolution(r, feats, label, source) IN
           IsResolution(x) /\ Reading(x) = Reading(r) /\ x.source = source
  BY DEF Resolution, IsResolution, Reading

(* Support of an analysis and a suffix add to what is said, no more.       *)
LEMMA EnrichedReading ==
    ASSUME NEW x, IsResolution(x), NEW found
    PROVE  LET y == Enriched(x, found) IN
           IsResolution(y) /\ Reading(y) = Reading(x) /\ x.source \subseteq y.source
  <1> DEFINE y == Enriched(x, found)  f == CHOOSE z \in found : TRUE
  <1>1. \/ y = x
        \/ y = [x EXCEPT !.feats = f.feats, !.label = f.label, !.source = @ \cup {"fst"}]
        \/ y = [x EXCEPT !.label = f.label, !.source = @ \cup {"fst"}]
    BY Zenon DEF Enriched
  <1> HIDE DEF y, f
  <1>2. CASE y = x
    BY <1>2 DEF y
  <1>3. CASE y = [x EXCEPT !.feats = f.feats, !.label = f.label, !.source = @ \cup {"fst"}]
    <2>1. y = [lemma |-> x.lemma, pos |-> x.pos, feats |-> f.feats, label |-> f.label,
               source |-> x.source \cup {"fst"}]
      BY <1>3 DEF IsResolution
    <2> QED
      BY <2>1 DEF IsResolution, Reading, y
  <1>4. CASE y = [x EXCEPT !.label = f.label, !.source = @ \cup {"fst"}]
    <2>1. y = [lemma |-> x.lemma, pos |-> x.pos, feats |-> x.feats, label |-> f.label,
               source |-> x.source \cup {"fst"}]
      BY <1>4 DEF IsResolution
    <2> QED
      BY <2>1 DEF IsResolution, Reading, y
  <1> QED
    BY <1>1, <1>2, <1>3, <1>4

(* The same of the label a suffix gives.                                   *)
LEMMA SuffixLabelReading ==
    ASSUME NEW q, NEW x, IsResolution(x)
    PROVE  LET y == WithSuffixLabel(q, x) IN
           Reading(y) = Reading(x) /\ x.source \subseteq y.source
                                   /\ ("dict" \notin x.source => y = x)
  <1> DEFINE y == WithSuffixLabel(q, x)  l == Head(SuffixStripped(q.surface.word, q.lang)).label
  <1>1. \/ y = x
        \/ "dict" \in x.source /\ y = [x EXCEPT !.label = l, !.source = @ \cup {"case_suffix_label"}]
    BY Zenon DEF WithSuffixLabel
  <1> HIDE DEF y, l
  <1>2. CASE y = x
    BY <1>2 DEF y
  <1>3. CASE "dict" \in x.source /\ y = [x EXCEPT !.label = l, !.source = @ \cup {"case_suffix_label"}]
    <2>1. y = [lemma |-> x.lemma, pos |-> x.pos, feats |-> x.feats, label |-> l,
               source |-> x.source \cup {"case_suffix_label"}]
      BY <1>3 DEF IsResolution
    <2> QED
      BY <1>3, <2>1 DEF IsResolution, Reading, y
  <1> QED
    BY <1>1, <1>2, <1>3

(* Demotion and quarantine look at the reading alone.                      *)
LEMMA ReadingDecides ==
    ASSUME NEW surface, NEW x, NEW y, Reading(x) = Reading(y)
    PROVE  /\ Demoted(surface, x) <=> Demoted(surface, y)
           /\ \A filter : Suppresses(filter, surface, x) <=> Suppresses(filter, surface, y)
  <1>1. x.lemma = y.lemma /\ x.pos = y.pos
    BY DEF Reading
  <1>2. \A z : MaBias(surface, z) = -1 <=> MaSurface(surface) /\ z.pos = "VERB" /\ EndsIn(z.lemma.word, {"ma"})
    BY DEF MaBias
  <1>3. \A z : ALongBias(surface, z) = -1 <=> ALongSurface(surface) /\ Same(z.lemma, surface)
    BY DEF ALongBias
  <1>4. \A z : Demoted(surface, z) <=> MaBias(surface, z) = -1 \/ ALongBias(surface, z) = -1
    BY DEF Demoted
  <1>5. Demoted(surface, x) <=> Demoted(surface, y)
    BY <1>1, <1>2, <1>3, <1>4, Zenon
  <1>6. \A filter : Suppresses(filter, surface, x) <=> Suppresses(filter, surface, y)
    BY DEF Suppresses
  <1> QED
    BY <1>5, <1>6

(* The ranking is of finitely many candidates and always has a first.      *)
LEMMA BestIsMerged ==
    ASSUME QueriesOK, NEW q \in Queries, Merged(q) # {}
    PROVE  \E c \in Merged(q) : BestMerged(q) = c.res
  <1> DEFINE all == Merged(q)
             before == {p \in all \X all : Precedes(q, all, p[1], p[2])}
  <1>1. IsFiniteSet(all)
    <2> DEFINE n == Len(Analyses(q))
               readings == Analyses(q)
               of(r) == {i \in 1..n : Reading(readings[i]) = Reading(r)}
               found(r) == {FromAnalysis(q.surface, readings[i], "fst") : i \in of(r)}
               considered == {k \in DOMAIN q.rows : Considered(q, q.rows[k])}
               known == {Reading(q.rows[k]) : k \in considered}
               alone == {j \in 1..n : Reading(readings[j]) \notin known}
               row == [k \in considered |->
                         [res |-> Enriched(FromRow(q.surface, q.rows[k]), found(q.rows[k])),
                          priority |-> q.rows[k].priority, dict |-> TRUE, fst |-> of(q.rows[k]) # {},
                          order |-> Min(of(q.rows[k]) \cup {n + k})]]
               analysis == [i \in alone |->
                         [res |-> FromAnalysis(q.surface, readings[i], "fst"), priority |-> 0,
                          dict |-> FALSE, fst |-> TRUE, order |-> i]]
    <2>1. all = {row[k] : k \in considered} \cup {analysis[i] : i \in alone}
      BY Zenon DEF Merged
    <2>2. IsFiniteSet(considered)
      <3>1. IsFiniteSet(1..Len(q.rows)) /\ DOMAIN q.rows = 1..Len(q.rows)
        BY RowsListed, FS_Interval
      <3>2. considered \in SUBSET (1..Len(q.rows))
        BY <3>1
      <3> QED
        BY <3>1, <3>2, FS_Subset
    <2>3. IsFiniteSet(alone)
      <3>1. IsFiniteSet(1..n)
        BY AnalysesListed, FS_Interval
      <3>2. alone \in SUBSET (1..n)
        OBVIOUS
      <3> QED
        BY <3>1, <3>2, FS_Subset
    <2>4. DOMAIN row = considered /\ DOMAIN analysis = alone
      BY Zenon
    <2> HIDE DEF all, row, analysis, considered, alone
    <2>5. IsFiniteSet({row[k] : k \in considered}) /\ IsFiniteSet({analysis[i] : i \in alone})
      BY <2>2, <2>3, <2>4, ImageIsFinite
    <2> QED
      BY <2>1, <2>5, FS_Union
  <1>2. \A c, d, e \in all :
            /\ ~(Precedes(q, all, c, d) /\ Precedes(q, all, d, c))
            /\ Precedes(q, all, c, d) => Precedes(q, all, c, e) \/ Precedes(q, all, e, d)
    BY MergedAreRanked, PrecedesIsAnOrder, Zenon
  <1> HIDE DEF all
  <1>3. \A c, d \in all : <<c, d>> \in before <=> Precedes(q, all, c, d)
    OBVIOUS
  <1> HIDE DEF before
  <1>4. \A c \in all : <<c, c>> \notin before
    BY <1>2, <1>3
  <1>5. \A c, d, e \in all : <<c, d>> \in before /\ <<d, e>> \in before => <<c, e>> \in before
    BY <1>2, <1>3
  <1>6. all # {}
    BY DEF all
  <1>7. PICK c \in all : \A d \in all : <<d, c>> \notin before
    BY <1>1, <1>4, <1>5, <1>6, OneIsFirst
  <1>8. \E c1 \in all : \A d \in all : ~Precedes(q, all, d, c1)
    BY <1>3, <1>7
  <1>9. BestMerged(q) = (CHOOSE c1 \in all : \A d \in all : ~Precedes(q, all, d, c1)).res
    BY Zenon DEF BestMerged, all
  <1> QED
    BY <1>8, <1>9, Zenon DEF all

(* A merged candidate says something of a considered row or of an analysis *)
(* whose reading no considered row has.                                    *)
LEMMA MergedOrigin ==
    ASSUME QueriesOK, NEW q \in Queries, NEW c \in Merged(q)
    PROVE  /\ IsResolution(c.res)
           /\ \/ \E k \in DOMAIN q.rows : /\ Considered(q, q.rows[k]) /\ Reading(c.res) = Reading(q.rows[k])
                                          /\ "dict" \in c.res.source
              \/ \E i \in 1..Len(Analyses(q)) : /\ c.res = FromAnalysis(q.surface, Analyses(q)[i], "fst")
                                                /\ "dict" \notin c.res.source
  <1> DEFINE n == Len(Analyses(q))
             readings == Analyses(q)
             of(r) == {i \in 1..n : Reading(readings[i]) = Reading(r)}
             found(r) == {FromAnalysis(q.surface, readings[i], "fst") : i \in of(r)}
  <1>1. CASE \E k \in DOMAIN q.rows : Considered(q, q.rows[k]) /\ c.res = Enriched(FromRow(q.surface, q.rows[k]), found(q.rows[k]))
    <2>1. PICK k \in DOMAIN q.rows : Considered(q, q.rows[k]) /\ c.res = Enriched(FromRow(q.surface, q.rows[k]), found(q.rows[k]))
      BY <1>1
    <2> DEFINE x == FromRow(q.surface, q.rows[k])
    <2>2. IsResolution(x) /\ Reading(x) = Reading(q.rows[k]) /\ x.source = {"dict"}
      <3>1. \E f, l : x = Resolution(q.rows[k], f, l, {"dict"})
        BY Zenon DEF FromRow
      <3> HIDE DEF x
      <3>2. PICK f, l : x = Resolution(q.rows[k], f, l, {"dict"})
        BY <3>1
      <3>3. LET y == Resolution(q.rows[k], f, l, {"dict"}) IN
            IsResolution(y) /\ Reading(y) = Reading(q.rows[k]) /\ y.source = {"dict"}
        BY ResolutionReading
      <3> QED
        BY <3>2, <3>3
    <2> HIDE DEF found, x
    <2>3. IsResolution(c.res) /\ Reading(c.res) = Reading(x) /\ x.source \subseteq c.res.source
      <3>1. c.res = Enriched(x, found(q.rows[k]))
        BY <2>1 DEF x
      <3> QED
        BY <2>2, <3>1, EnrichedReading
    <2> QED
      BY <2>1, <2>2, <2>3
  <1>2. CASE \E i \in 1..n : c.res = FromAnalysis(q.surface, readings[i], "fst")
    <2>1. PICK i \in 1..n : c.res = FromAnalysis(q.surface, readings[i], "fst")
      BY <1>2
    <2>2. IsResolution(c.res) /\ c.res.source = {"fst"}
      <3>1. \E f, l : c.res = Resolution(readings[i], f, l, {"fst"})
        BY <2>1, Zenon DEF FromAnalysis
      <3>2. PICK f, l : c.res = Resolution(readings[i], f, l, {"fst"})
        BY <3>1
      <3>3. LET y == Resolution(readings[i], f, l, {"fst"}) IN IsResolution(y) /\ y.source = {"fst"}
        BY ResolutionReading
      <3> QED
        BY <3>2, <3>3
    <2>3. "dict" \notin c.res.source
      BY <2>2
    <2> QED
      BY <2>1, <2>2, <2>3
  <1>3. \/ \E k \in DOMAIN q.rows : /\ Considered(q, q.rows[k])
                                  /\ c = [res |-> Enriched(FromRow(q.surface, q.rows[k]), found(q.rows[k])),
                                          priority |-> q.rows[k].priority, dict |-> TRUE, fst |-> of(q.rows[k]) # {},
                                          order |-> Min(of(q.rows[k]) \cup {n + k})]
        \/ \E i \in 1..n : c = [res |-> FromAnalysis(q.surface, readings[i], "fst"), priority |-> 0,
                               dict |-> FALSE, fst |-> TRUE, order |-> i]
    BY Zenon DEF Merged
  <1> HIDE DEF found, of, n
  <1>4. \/ \E k \in DOMAIN q.rows : Considered(q, q.rows[k]) /\ c.res = Enriched(FromRow(q.surface, q.rows[k]), found(q.rows[k]))
        \/ \E i \in 1..n : c.res = FromAnalysis(q.surface, readings[i], "fst")
    <2>1. \A x, y, z, u, v : [res |-> x, priority |-> y, dict |-> z, fst |-> u, order |-> v].res = x
      OBVIOUS
    <2>2. ASSUME NEW k \in DOMAIN q.rows, Considered(q, q.rows[k]),
                 c = [res |-> Enriched(FromRow(q.surface, q.rows[k]), found(q.rows[k])),
                      priority |-> q.rows[k].priority, dict |-> TRUE, fst |-> of(q.rows[k]) # {},
                      order |-> Min(of(q.rows[k]) \cup {n + k})]
          PROVE  c.res = Enriched(FromRow(q.surface, q.rows[k]), found(q.rows[k]))
      BY <2>1, <2>2, Zenon
    <2>3. ASSUME NEW i \in 1..n,
                 c = [res |-> FromAnalysis(q.surface, readings[i], "fst"), priority |-> 0,
                      dict |-> FALSE, fst |-> TRUE, order |-> i]
          PROVE  c.res = FromAnalysis(q.surface, readings[i], "fst")
      BY <2>1, <2>3, Zenon
    <2> HIDE DEF readings
    <2> QED
      BY <1>3, <2>2, <2>3, Zenon
  <1> QED
    BY <1>1, <1>2, <1>4 DEF n

(* A wanted analysis is added, or its reading is there.                    *)
LEMMA WantedIsThere ==
    ASSUME QueriesOK, NEW q \in Queries, NEW listed, NEW wanted
    PROVE  /\ Added(q, listed, wanted) \in Seq(Distinct(FromFST(q)))
           /\ \A i \in DOMAIN Analyses(q) : FromFST(q)[i] \in wanted =>
                \E x \in Distinct(listed) \cup Distinct(Added(q, listed, wanted)) :
                    Reading(x) = Reading(FromFST(q)[i])
  <1> DEFINE all == FromFST(q)
             n == Len(Analyses(q))
             fresh == {i \in DOMAIN all : all[i] \in wanted /\ \A r \in Distinct(listed) :
                                                                  Reading(r) # Reading(all[i])}
             first == {i \in fresh : \A j \in fresh : j < i => Reading(all[j]) # Reading(all[i])}
  <1>1. DOMAIN all = 1..n /\ n \in Nat /\ DOMAIN Analyses(q) = 1..n
    BY AnalysesListed DEF FromFST
  <1>2. Added(q, listed, wanted) = Taken(all, first)
    BY Zenon DEF Added
  <1> HIDE DEF all, n
  <1>3. fresh \in SUBSET (1..n) /\ first \in SUBSET fresh /\ first \in SUBSET (1..n)
    BY <1>1
  <1>4. /\ Taken(all, first) \in Seq({all[i] : i \in first})
        /\ Distinct(Taken(all, first)) = {all[i] : i \in first}
    <2> HIDE DEF first
    <2>1. Taken(all, first) \in Seq({all[i] : i \in first})
      BY <1>1, <1>3, TakenIsSeq
    <2>2. Distinct(Taken(all, first)) = {all[i] : i \in first}
      <3>1. n \in Nat /\ first \in SUBSET (1..n)
        BY <1>1, <1>3
      <3> QED
        BY <3>1, TakenEntries, SMTT(20), ZenonT(60)
    <2> QED
      BY <2>1, <2>2
  <1>5. Taken(all, first) \in Seq(Distinct(all))
    <2>1. {all[i] : i \in first} \subseteq Distinct(all)
      BY <1>1, <1>3 DEF Distinct
    <2> DEFINE U == {all[i] : i \in first}  t == Taken(all, first)
    <2> HIDE DEF U, t
    <2>2. Len(t) \in Nat /\ t \in [1..Len(t) -> U]
      BY <1>4, LenProperties DEF t, U
    <2>3. t \in [1..Len(t) -> Distinct(all)]
      BY <2>1, <2>2 DEF U
    <2>4. t \in Seq(Distinct(all))
      BY <2>2, <2>3, SeqDef
    <2> QED
      BY <2>4 DEF t
  <1>6. ASSUME NEW i \in 1..n, all[i] \in wanted
        PROVE  \E x \in Distinct(listed) \cup Distinct(Taken(all, first)) : Reading(x) = Reading(all[i])
    <2>1. CASE i \notin fresh
      BY <1>1, <1>6, <2>1
    <2>2. CASE i \in fresh
      <3> DEFINE same == {j \in fresh : Reading(all[j]) = Reading(all[i])}
      <3>1. same \in SUBSET Nat /\ i \in same
        BY <1>1, <1>3, <2>2
      <3>2. PICK k \in same : \A j \in same : k <= j
        <4> HIDE DEF same
        <4> QED
          BY <3>1, LeastOf
      <3>3. k \in first
        <4>1. \A j \in fresh : j \in Int /\ k \in Int
          BY <1>1, <1>3, <3>2
        <4>2. \A j \in fresh : j < k => j \notin same
          BY <3>2, <4>1
        <4> QED
          BY <3>2, <4>2
      <3>4. all[k] \in {all[j] : j \in first} /\ Reading(all[k]) = Reading(all[i])
        BY <3>2, <3>3
      <3> HIDE DEF first, same
      <3> QED
        BY <1>4, <3>4
    <2> QED
      BY <2>1, <2>2
  <1> HIDE DEF first
  <1> QED
    BY <1>1, <1>2, <1>5, <1>6 DEF all

(* A correction keeps every row that is not demoted. *)
LEMMA CorrectedKeeps ==
    ASSUME QueriesOK, NEW q \in Queries, NEW S, NEW listed \in Seq(S)
    PROVE  LET all == FinnishCorrected(q, listed) IN
           /\ all \in Seq(Distinct(all))
           /\ \A x \in Distinct(listed) : Demoted(q.surface, x) \/ x \in Distinct(all)
  <1> DEFINE at == {i \in DOMAIN listed : ~Demoted(q.surface, listed[i])}
             kept == Taken(listed, at)
             more == Added(q, kept, {r \in Distinct(FromFST(q)) : Promoted(q.surface, r)})
             all == FinnishCorrected(q, listed)
             K == {listed[i] : i \in at}
             M == Distinct(FromFST(q))
  <1>1. Len(listed) \in Nat /\ DOMAIN listed = 1..Len(listed)
    BY ListOf
  <1>2. all = kept \/ all = kept \o more
    BY Zenon DEF FinnishCorrected
  <1>3. at \in SUBSET (1..Len(listed))
    BY <1>1
  <1>4. more \in Seq(M)
    BY WantedIsThere
  <1>5. \A x \in Distinct(listed) : Demoted(q.surface, x) \/ x \in K
    BY <1>1 DEF Distinct
  <1> HIDE DEF all, more, at
  <1>6. kept \in Seq(K)
    BY <1>1, <1>3, TakenIsSeq
  <1>7. Distinct(kept) = K
    BY <1>1, <1>3, TakenEntries, SMTT(20), ZenonT(60)
  <1> HIDE DEF kept, K, M
  <1>8. kept \in Seq(Distinct(kept))
    BY <1>6, ListOf
  <1>9. kept \o more \in Seq(K \cup M) /\ Distinct(kept \o more) = Distinct(kept) \cup Distinct(more)
    <2>1. kept \in Seq(K) /\ more \in Seq(M)
      BY <1>4, <1>6
    <2> QED
      BY <2>1, FollowedBy, ZenonT(90)
  <1>10. kept \o more \in Seq(Distinct(kept \o more))
    BY <1>9, ListOf
  <1>11. all \in Seq(Distinct(all)) /\ K \subseteq Distinct(all)
    BY <1>2, <1>7, <1>8, <1>9, <1>10
  <1> QED
    BY <1>5, <1>11 DEF all

(* Merging keeps what is listed, and of every analysis that is neither bad *)
(* nor of another casing the reading is there.                             *)
LEMMA MergedKeeps ==
    ASSUME QueriesOK, NEW q \in Queries, NEW S, NEW listed \in Seq(S)
    PROVE  LET all == WithAnalyses(q, listed) IN
           /\ all \in Seq(Distinct(all))
           /\ Distinct(listed) \subseteq Distinct(all)
           /\ \A i \in DOMAIN Analyses(q) :
                 LET f == FromFST(q)[i] IN
                 \/ BadCandidate("FI", q.surface.word, f.lemma, f.pos)
                 \/ ~CaseCompatible(q.surface, f.lemma)
                 \/ \E x \in Distinct(all) : Reading(x) = Reading(f)
  <1> DEFINE M == Distinct(FromFST(q))
             wanted == {r \in M : /\ ~BadCandidate("FI", q.surface.word, r.lemma, r.pos)
                                  /\ CaseCompatible(q.surface, r.lemma)}
             more == Added(q, listed, wanted)
             all == WithAnalyses(q, listed)
  <1>1. all = listed \o more
    BY Zenon DEF WithAnalyses
  <1>2. /\ more \in Seq(M)
        /\ \A i \in DOMAIN Analyses(q) : FromFST(q)[i] \in wanted =>
                \E x \in Distinct(listed) \cup Distinct(more) : Reading(x) = Reading(FromFST(q)[i])
    <2> HIDE DEF wanted
    <2> QED
      BY WantedIsThere
  <1>3. \A i \in DOMAIN Analyses(q) : FromFST(q)[i] \in M
    <2>1. DOMAIN FromFST(q) = DOMAIN Analyses(q)
      BY DEF FromFST
    <2> QED
      BY <2>1 DEF Distinct
  <1>4. \A i \in DOMAIN Analyses(q) : LET f == FromFST(q)[i] IN
                 \/ BadCandidate("FI", q.surface.word, f.lemma, f.pos)
                 \/ ~CaseCompatible(q.surface, f.lemma)
                 \/ f \in wanted
    BY <1>3
  <1> HIDE DEF all, more, wanted, M
  <1>5. listed \o more \in Seq(S \cup M) /\ Distinct(listed \o more) = Distinct(listed) \cup Distinct(more)
    <2>1. listed \in Seq(S) /\ more \in Seq(M)
      BY <1>2
    <2> QED
      BY <2>1, FollowedBy, ZenonT(90)
  <1>6. all \in Seq(Distinct(all)) /\ Distinct(all) = Distinct(listed) \cup Distinct(more)
    BY <1>1, <1>5, ListOf
  <1>7. \A i \in DOMAIN Analyses(q) : LET f == FromFST(q)[i] IN
                 \/ BadCandidate("FI", q.surface.word, f.lemma, f.pos)
                 \/ ~CaseCompatible(q.surface, f.lemma)
                 \/ \E x \in Distinct(all) : Reading(x) = Reading(f)
    BY <1>2, <1>4, <1>6
  <1>8. Distinct(listed) \subseteq Distinct(all)
    BY <1>6
  <1> QED
    BY <1>6, <1>7, <1>8 DEF all

(* The rows of a form among the readings of its surface.                   *)
RowReadings(rows) == [i \in DOMAIN rows |-> Resolution(rows[i], NoFeats, NoLabel, {"dict"})]

(* Each of them is listed with its reading, and nothing else is.           *)
LEMMA RowsAsReadings ==
    ASSUME QueriesOK, NEW q \in Queries, NEW at \in SUBSET (DOMAIN q.rows)
    PROVE  LET listed == RowReadings(Taken(q.rows, at)) IN
           /\ listed \in Seq(Distinct(listed))
           /\ \A k \in at : \E x \in Distinct(listed) : Reading(x) = Reading(q.rows[k])
  <1> DEFINE rows == Taken(q.rows, at)
             listed == RowReadings(rows)
  <1>1. Len(q.rows) \in Nat /\ DOMAIN q.rows = 1..Len(q.rows)
    BY RowsListed
  <1>2. /\ \E m \in Nat : DOMAIN rows = 1..m /\ (m = 0 <=> at = {})
        /\ Distinct(rows) = {q.rows[i] : i \in at}
    BY <1>1, TakenEntries, SMTT(20), ZenonT(60)
  <1> HIDE DEF rows
  <1>3. PICK m \in Nat : DOMAIN rows = 1..m
    BY <1>2
  <1>4. DOMAIN listed = 1..m /\ \A i \in 1..m : listed[i] = Resolution(rows[i], NoFeats, NoLabel, {"dict"})
    BY <1>3 DEF RowReadings
  <1>5. listed \in Seq(Distinct(listed))
    <2>1. listed = [i \in 1..m |-> listed[i]]
      BY <1>3, <1>4 DEF RowReadings
    <2> HIDE DEF listed
    <2>2. listed \in [1..m -> Distinct(listed)]
      BY <1>4, <2>1 DEF Distinct
    <2> QED
      BY <2>2, SeqDef
  <1> HIDE DEF listed
  <1>6. ASSUME NEW k \in at PROVE \E x \in Distinct(listed) : Reading(x) = Reading(q.rows[k])
    <2>1. PICK i \in 1..m : rows[i] = q.rows[k]
      BY <1>2, <1>3 DEF Distinct
    <2>2. listed[i] \in Distinct(listed) /\ listed[i] = Resolution(q.rows[k], NoFeats, NoLabel, {"dict"})
      BY <1>4, <2>1 DEF Distinct
    <2>3. LET x == Resolution(q.rows[k], NoFeats, NoLabel, {"dict"}) IN Reading(x) = Reading(q.rows[k])
      BY ResolutionReading
    <2> QED
      BY <2>2, <2>3
  <1> QED
    BY <1>5, <1>6 DEF listed, rows

(* What a parse shows of a surface without a curated reading, and where it *)
(* comes from.                                                             *)
LEMMA ShownOrigin ==
    ASSUME QueriesOK, NEW q \in Queries, q.mode = "custom", Candidates(q) # <<>>, Curated(q) = <<>>
    PROVE  \E r : /\ PickOf(q) = <<r>>
                  /\ \/ \E k \in DOMAIN q.rows : /\ Considered(q, q.rows[k]) /\ Reading(r) = Reading(q.rows[k])
                                                 /\ "dict" \in r.source
                     \/ \E i \in DOMAIN Analyses(q) : r = FromFST(q)[i] /\ "dict" \notin r.source
  <1> DEFINE b == BestMerged(q)
             r == WithSuffixLabel(q, b)
             considered == {k \in DOMAIN q.rows : Considered(q, q.rows[k])}
  <1>1. PickOf(q) = <<r>>
    BY Zenon DEF PickOf
  <1>2. Merged(q) # {}
    <2>1. considered # {}
      <3>1. Len(q.rows) \in Nat /\ considered \in SUBSET (1..Len(q.rows))
        BY RowsListed
      <3>2. Candidates(q) = Taken(q.rows, considered)
        BY Zenon DEF Candidates
      <3> HIDE DEF considered
      <3> QED
        BY <3>1, <3>2, TakenEntries
    <2>2. PICK k : k \in considered
      BY <2>1
    <2> DEFINE n == Len(Analyses(q))
               readings == Analyses(q)
               of(x) == {i \in 1..n : Reading(readings[i]) = Reading(x)}
               found(x) == {FromAnalysis(q.surface, readings[i], "fst") : i \in of(x)}
               c == [res |-> Enriched(FromRow(q.surface, q.rows[k]), found(q.rows[k])),
                     priority |-> q.rows[k].priority, dict |-> TRUE, fst |-> of(q.rows[k]) # {},
                     order |-> Min(of(q.rows[k]) \cup {n + k})]
    <2>3. c \in Merged(q)
      BY <2>2, Zenon DEF Merged
    <2> QED
      BY <2>3
  <1>3. PICK c \in Merged(q) : b = c.res
    BY <1>2, BestIsMerged
  <1>4. /\ IsResolution(c.res)
        /\ \/ \E k \in DOMAIN q.rows : /\ Considered(q, q.rows[k]) /\ Reading(c.res) = Reading(q.rows[k])
                                       /\ "dict" \in c.res.source
           \/ \E i \in 1..Len(Analyses(q)) : /\ c.res = FromAnalysis(q.surface, Analyses(q)[i], "fst")
                                             /\ "dict" \notin c.res.source
    BY MergedOrigin
  <1> HIDE DEF b
  <1>5. Reading(r) = Reading(b) /\ b.source \subseteq r.source /\ ("dict" \notin b.source => r = b)
    BY <1>3, <1>4, SuffixLabelReading
  <1> HIDE DEF r
  <1>6. CASE \E k \in DOMAIN q.rows : /\ Considered(q, q.rows[k]) /\ Reading(c.res) = Reading(q.rows[k])
                                      /\ "dict" \in c.res.source
    BY <1>1, <1>3, <1>5, <1>6
  <1>7. CASE \E i \in 1..Len(Analyses(q)) : /\ c.res = FromAnalysis(q.surface, Analyses(q)[i], "fst")
                                            /\ "dict" \notin c.res.source
    <2>1. PICK i \in 1..Len(Analyses(q)) : /\ c.res = FromAnalysis(q.surface, Analyses(q)[i], "fst")
                                           /\ "dict" \notin c.res.source
      BY <1>7
    <2>2. i \in DOMAIN Analyses(q) /\ FromFST(q)[i] = FromAnalysis(q.surface, Analyses(q)[i], "fst")
      BY AnalysesListed DEF FromFST
    <2>3. r = FromFST(q)[i] /\ "dict" \notin r.source
      BY <1>3, <1>5, <2>1, <2>2
    <2> QED
      BY <1>1, <2>2, <2>3
  <1> QED
    BY <1>4, <1>6, <1>7

(* A reading is among the meanings if it is among all the readings and is  *)
(* not in quarantine, and if there is a choice at all.                     *)
LEMMA OfferedUnlessHidden ==
    ASSUME QueriesOK, NEW q \in Queries, q.mode = "custom", Meanings(q) # <<>>,
           AllReadings(q, TRUE) \in Seq(Distinct(AllReadings(q, TRUE)))
    PROVE  /\ \A x \in Distinct(AllReadings(q, TRUE)) :
                 \/ Suppresses(QuarantineFilter(q.issues), q.surface, x)
                 \/ x \in Distinct(Meanings(q))
           /\ Len(AllReadings(q, TRUE)) >= 2
  <1> DEFINE q2 == [q EXCEPT !.mode = "custom"]
             all == AllReadings(q, TRUE)
             filter == QuarantineFilter(q.issues)
             at == {i \in DOMAIN all : ~Suppresses(filter, q.surface, all[i])}
  <1>1. q2 = q
    <2>1. q = [f \in QueryFields |-> q[f]]
      BY DEF QueriesOK
    <2>2. q2 = [f \in QueryFields |-> IF f = "mode" THEN "custom" ELSE q[f]]
      BY <2>1
    <2>3. \A f \in QueryFields : (IF f = "mode" THEN "custom" ELSE q[f]) = q[f]
      OBVIOUS
    <2> HIDE DEF q2
    <2> QED
      BY <2>1, <2>2, <2>3
  <1>2. Meanings(q) = IF Len(Taken(all, at)) >= 2 THEN Taken(all, at) ELSE <<>>
    BY <1>1, Zenon DEF Meanings
  <1>3. Len(all) \in Nat /\ DOMAIN all = 1..Len(all)
    BY ListOf
  <1>4. at \in SUBSET (1..Len(all))
    BY <1>3
  <1>5. \A x \in Distinct(all) : Suppresses(filter, q.surface, x) \/ x \in {all[i] : i \in at}
    BY DEF Distinct
  <1> HIDE DEF all, at, filter
  <1>6. Meanings(q) = Taken(all, at) /\ Len(Taken(all, at)) >= 2
    BY <1>2
  <1>7. Distinct(Taken(all, at)) = {all[i] : i \in at}
    BY <1>3, <1>4, TakenEntries, SMTT(20), ZenonT(60)
  <1>8. Len(all) >= 2
    <2>1. Len(Taken(all, at)) = Cardinality(at)
      BY <1>3, <1>4, TakenIsSeq
    <2>2. IsFiniteSet(1..Len(all)) /\ Cardinality(1..Len(all)) = Len(all)
      BY <1>3, FS_Interval
    <2>3. Cardinality(at) <= Cardinality(1..Len(all)) /\ IsFiniteSet(at)
      BY <1>4, <2>2, FS_Subset
    <2>4. Cardinality(at) \in Nat
      BY <2>3, FS_CardinalityType
    <2> QED
      BY <1>3, <1>6, <2>1, <2>2, <2>3, <2>4
  <1> QED
    BY <1>5, <1>6, <1>7, <1>8 DEF all, filter

(* What a learner may choose from has the reading shown, unless it was     *)
(* demoted, corrected away, quarantined, or an analysis out of place.      *)
LEMMA ShownIsAmong ==
    ASSUME QueriesOK, NEW q \in Queries, q.mode = "custom", q.lang = "FI",
           Candidates(q) # <<>>, Meanings(q) # <<>>
    PROVE  LET r == Head(PickOf(q)) IN
           \/ Reading(r) \in Readings(Meanings(q))
           \/ Suppresses(QuarantineFilter(q.issues), q.surface, r)
           \/ Demoted(q.surface, r)
           \/ Overrides(q) # <<>> /\ Reading(r) \notin Readings(Overrides(q))
           \/ "dict" \notin r.source /\ \/ BadCandidate(q.lang, q.surface.word, r.lemma, r.pos)
                                        \/ ~CaseCompatible(q.surface, r.lemma)
  <1> DEFINE all == AllReadings(q, TRUE)
             filter == QuarantineFilter(q.issues)
  <1>1. Curated(q) = <<>>
    <2>1. SUFFICES ASSUME Curated(q) # <<>> PROVE FALSE
      OBVIOUS
    <2>2. all = Curated(q)
      BY <2>1, Zenon DEF AllReadings
    <2>3. \E o : Curated(q) = <<o>>
      BY <2>1, Zenon DEF Curated
    <2>4. PICK o : all = <<o>>
      BY <2>2, <2>3
    <2> HIDE DEF all
    <2>5. all \in Seq(Distinct(all)) /\ Len(all) = 1
      BY <2>4 DEF Distinct
    <2>6. Len(all) >= 2
      BY <2>5, OfferedUnlessHidden DEF all
    <2> QED
      BY <2>5, <2>6
  <1>2. PICK r : /\ PickOf(q) = <<r>>
                 /\ \/ \E k \in DOMAIN q.rows : /\ Considered(q, q.rows[k]) /\ Reading(r) = Reading(q.rows[k])
                                                /\ "dict" \in r.source
                    \/ \E i \in DOMAIN Analyses(q) : r = FromFST(q)[i] /\ "dict" \notin r.source
    BY <1>1, ShownOrigin
  <1>3. Head(PickOf(q)) = r
    BY <1>2
  <1> HIDE DEF all, filter
  <1>4. ASSUME all \in Seq(Distinct(all)), \E x \in Distinct(all) : Reading(x) = Reading(r)
        PROVE  Reading(r) \in Readings(Meanings(q)) \/ Suppresses(filter, q.surface, r)
    <2>1. PICK x \in Distinct(all) : Reading(x) = Reading(r)
      BY <1>4
    <2>2. Suppresses(filter, q.surface, x) \/ x \in Distinct(Meanings(q))
      BY <1>4, <2>1, OfferedUnlessHidden DEF all, filter
    <2>3. Suppresses(filter, q.surface, x) => Suppresses(filter, q.surface, r)
      BY <2>1, ReadingDecides
    <2>4. x \in Distinct(Meanings(q)) => Reading(r) \in Readings(Meanings(q))
      BY <2>1 DEF Readings
    <2> QED
      BY <2>2, <2>3, <2>4
  <1>5. CASE Overrides(q) # <<>>
    <2> DEFINE at == {k \in DOMAIN q.rows : /\ q.rows[k].source = "custom_overrides"
                                            /\ q.rows[k].priority >= OverridePriority}
    <2>1. Overrides(q) = Taken(q.rows, at)
      BY Zenon DEF Overrides
    <2>2. all = RowReadings(Taken(q.rows, at))
      <3>1. all = RowReadings(Overrides(q))
        BY <1>1, <1>5, Zenon DEF AllReadings, RowReadings, all
      <3> QED
        BY <2>1, <3>1
    <2>3. at \in SUBSET (DOMAIN q.rows)
      OBVIOUS
    <2> HIDE DEF at
    <2>4. /\ all \in Seq(Distinct(all))
          /\ \A k \in at : \E x \in Distinct(all) : Reading(x) = Reading(q.rows[k])
      BY <2>2, <2>3, RowsAsReadings
    <2>5. CASE Reading(r) \in Readings(Overrides(q))
      <3>1. Len(q.rows) \in Nat /\ at \in SUBSET (1..Len(q.rows))
        BY <2>3, RowsListed
      <3>2. Distinct(Overrides(q)) = {q.rows[k] : k \in at}
        BY <2>1, <3>1, TakenEntries
      <3>3. PICK k \in at : Reading(r) = Reading(q.rows[k])
        BY <2>5, <3>2 DEF Readings
      <3>4. \E x \in Distinct(all) : Reading(x) = Reading(r)
        BY <2>4, <3>3
      <3> QED
        BY <1>3, <1>4, <2>4, <3>4 DEF filter
    <2> QED
      BY <1>3, <1>5, <2>5
  <1>6. CASE Overrides(q) = <<>>
    <2> DEFINE considered == {k \in DOMAIN q.rows : Considered(q, q.rows[k])}
               rows == RowReadings(Taken(q.rows, considered))
               corrected == FinnishCorrected(q, rows)
    <2>1. all = WithAnalyses(q, corrected)
      BY <1>1, <1>6, Zenon DEF AllReadings, RowReadings, Candidates, all
    <2>2. considered \in SUBSET (DOMAIN q.rows)
      OBVIOUS
    <2>3. \A k \in DOMAIN q.rows : Considered(q, q.rows[k]) => k \in considered
      OBVIOUS
    <2> HIDE DEF considered
    <2>4. /\ rows \in Seq(Distinct(rows))
          /\ \A k \in considered : \E x \in Distinct(rows) : Reading(x) = Reading(q.rows[k])
      BY <2>2, RowsAsReadings
    <2> HIDE DEF rows
    <2>5. /\ corrected \in Seq(Distinct(corrected))
          /\ \A x \in Distinct(rows) : Demoted(q.surface, x) \/ x \in Distinct(corrected)
      BY <2>4, CorrectedKeeps
    <2> HIDE DEF corrected
    <2>6. /\ all \in Seq(Distinct(all))
          /\ Distinct(corrected) \subseteq Distinct(all)
          /\ \A i \in DOMAIN Analyses(q) :
                 LET f == FromFST(q)[i] IN
                 \/ BadCandidate("FI", q.surface.word, f.lemma, f.pos)
                 \/ ~CaseCompatible(q.surface, f.lemma)
                 \/ \E x \in Distinct(all) : Reading(x) = Reading(f)
      BY <2>1, <2>5, MergedKeeps
    <2>7. CASE \E k \in DOMAIN q.rows : Considered(q, q.rows[k]) /\ Reading(r) = Reading(q.rows[k])
      <3>1. PICK k \in considered : Reading(r) = Reading(q.rows[k])
        BY <2>3, <2>7
      <3>2. PICK x \in Distinct(rows) : Reading(x) = Reading(r)
        BY <2>4, <3>1
      <3>3. Demoted(q.surface, x) => Demoted(q.surface, r)
        BY <3>2, ReadingDecides
      <3>4. x \in Distinct(corrected) => x \in Distinct(all)
        BY <2>6
      <3> QED
        BY <1>3, <1>4, <2>5, <2>6, <3>2, <3>3, <3>4 DEF filter
    <2>8. CASE \E i \in DOMAIN Analyses(q) : r = FromFST(q)[i] /\ "dict" \notin r.source
      <3>1. PICK i \in DOMAIN Analyses(q) : r = FromFST(q)[i] /\ "dict" \notin r.source
        BY <2>8
      <3>2. \/ BadCandidate("FI", q.surface.word, r.lemma, r.pos)
            \/ ~CaseCompatible(q.surface, r.lemma)
            \/ \E x \in Distinct(all) : Reading(x) = Reading(r)
        BY <2>6, <3>1
      <3> QED
        BY <1>3, <1>4, <2>6, <3>1, <3>2 DEF filter
    <2> QED
      BY <1>2, <2>7, <2>8
  <1> QED
    BY <1>5, <1>6

(* The two lookups of a surface agree: what the parse shows is among the   *)
(* meanings the learner chooses from, or was left out for a stated reason. *)
THEOREM ShownIsOffered == LookupSpec => []PickIsOffered
  <1>1. PickInv => PickIsOffered
    <2> SUFFICES ASSUME PickInv, offered # <<>>, Offer # <<>>, query.lang = "FI", query.mode = "custom",
                        Candidates(query) # <<>>
                 PROVE  PickIsOffered
      BY DEF PickIsOffered, Offer
    <2>1. /\ query \in Queries /\ picked = <<PickOf(query)>> /\ offered = <<Meanings(query)>>
      BY DEF PickInv
    <2>2. Pick = PickOf(query) /\ Offer = Meanings(query)
      BY <2>1 DEF Pick, Offer
    <2> HIDE DEF PickInv
    <2> QED
      BY <2>1, <2>2, ShownIsAmong, QueriesAssumption, Zenon DEF PickIsOffered
  <1> QED
    BY <1>1, PickInvariance, PTL

-----------------------------------------------------------------------------
(* The tables the requests write.                                          *)

(* What a request is parsed as depends on its text and on what it read. *)
LEMMA ParsedAlike ==
    ASSUME NEW p, NEW q, p.input = q.input, p.seen = q.seen, p.glossed = q.glossed, p.parser = q.parser
    PROVE  ParsedOf(p) = ParsedOf(q)
  BY DEF ParsedOf

(* A row of a request is a row of one parsed alike. *)
LEMMA RowAlike ==
    ASSUME NEW i, NEW p, NEW q, RowOf(i, p), p.client = q.client,
           p.input = q.input, p.seen = q.seen, p.glossed = q.glossed, p.parser = q.parser
    PROVE  RowOf(i, q)
  <1>1. ParsedOf(p) = ParsedOf(q)
    BY ParsedAlike
  <1> QED
    BY <1>1 DEF RowOf

(* Appending to a table keeps its rows. *)
LEMMA Appended ==
    ASSUME NEW table, IsTable(table), NEW row
    PROVE  LET longer == Append(table, row) IN
           /\ IsTable(longer) /\ Len(longer) = Len(table) + 1
           /\ DOMAIN table = 1..Len(table) /\ DOMAIN longer = 1..(Len(table) + 1)
           /\ Len(table) \in Nat
           /\ \A i \in DOMAIN table : longer[i] = table[i]
           /\ longer[Len(table) + 1] = row
  <1> DEFINE longer == Append(table, row)  n == Len(table)  S == {table[i] : i \in DOMAIN table} \cup {row}
  <1>1. n \in Nat /\ DOMAIN table = 1..n
    BY DEF IsTable
  <1>2. longer \in Seq(S) /\ Len(longer) = n + 1 /\ DOMAIN longer = 1..(n + 1)
    <2>1. table \in Seq(S)
      BY DEF IsTable
    <2> QED
      BY <2>1
  <1>3. \A i \in 1..n : longer[i] = table[i]
    BY DEF IsTable
  <1>4. longer[n + 1] = row
    BY DEF IsTable
  <1>5. longer \in [1..(n + 1) -> S]
    BY <1>2, LenProperties
  <1> HIDE DEF longer
  <1>6. longer \in [1..(n + 1) -> {longer[i] : i \in 1..(n + 1)}]
    BY <1>5
  <1>7. IsTable(longer)
    BY <1>1, <1>5, <1>6, SeqDef DEF IsTable
  <1> QED
    BY <1>1, <1>2, <1>3, <1>4, <1>7 DEF longer

(* A table whose rows are changed in place is as long as before. *)
LEMMA Changed ==
    ASSUME NEW table, IsTable(table), NEW changed,
           changed = [i \in DOMAIN table |-> changed[i]]
    PROVE  IsTable(changed) /\ DOMAIN changed = DOMAIN table
  <1>1. DOMAIN table = 1..Len(table) /\ Len(table) \in Nat
    BY DEF IsTable
  <1>2. DOMAIN changed = 1..Len(table)
    BY <1>1
  <1>3. changed \in [1..Len(table) -> {changed[i] : i \in 1..Len(table)}]
    BY <1>1
  <1> QED
    BY <1>1, <1>2, <1>3, SeqDef DEF IsTable

(* A step of a request that writes no row. *)
LEMMA Elsewhere ==
    ASSUME SessionInv, NEW r \in Requests, NEW q, req' = [req EXCEPT ![r] = q],
           UNCHANGED <<sessions, decks>>,
           "stage" \in DOMAIN q,
           \/ q.stage \notin {"session", "sentences", "deck", "link"}
           \/ q.stage = "session" /\ DOMAIN q = DeckRequest
    PROVE  SessionInv'
  <1>1. DOMAIN req = Requests
    BY DEF SessionInv, TablesOK
  <1>2. req' = [s \in Requests |-> IF s = r THEN q ELSE req[s]]
    BY <1>1
  <1>3. Filed' = Filed \ {r}
    BY <1>2 DEF Filed
  <1>4. TablesOK'
    BY <1>2, <1>3 DEF SessionInv, TablesOK
  <1>5. ASSUME NEW s \in Filed' PROVE FiledRow(s)'
    <2>1. s \in Filed /\ s # r /\ FiledRow(s) /\ req'[s] = req[s] /\ s \in Requests
      BY <1>2, <1>3, <1>5 DEF SessionInv, Filed
    <2>2. \A t \in Filed' : req'[t] = req[t]
      BY <1>2, <1>3 DEF Filed
    <2> QED
      BY <1>3, <2>1, <2>2 DEF FiledRow, RowOf, ParsedOf
  <1>6. ASSUME NEW j \in DOMAIN decks', decks'[j] # Idle, decks'[j].session # 0
        PROVE  LinkedDeck(j)'
    <2>1. LinkedDeck(j)
      BY <1>6 DEF SessionInv
    <2> QED
      BY <2>1 DEF LinkedDeck, RowOf, ParsedOf
  <1> QED
    BY <1>4, <1>5, <1>6 DEF SessionInv

(* CreateParseSession gives the request a row of its own, at the end. *)
LEMMA CreateParseSessionKeeps ==
    ASSUME SessionInv, NEW r \in Requests, CreateParseSession(r)
    PROVE  SessionInv'
  <1> DEFINE row == [user |-> req[r].client, text |-> req[r].input.text, total |-> ParsedOf(req[r]).total]
  <1>n. PICK n : n = Len(sessions) + 1
    OBVIOUS
  <1>q. PICK q : q = [req[r] EXCEPT !.stage = "sentences", !.session = n]
    OBVIOUS
  <1>1. DOMAIN req = Requests /\ IsTable(sessions)
    BY DEF SessionInv, TablesOK
  <1>2. /\ IsTable(sessions') /\ Len(sessions') = n
        /\ DOMAIN sessions' = DOMAIN sessions \cup {n} /\ n \notin DOMAIN sessions /\ n # 0
        /\ \A i \in DOMAIN sessions : sessions'[i] = sessions[i]
        /\ sessions'[n] = row
    <2>1. sessions' = Append(sessions, row)
      BY DEF CreateParseSession
    <2> HIDE DEF row
    <2> QED
      BY <1>1, <1>n, <2>1, Appended
  <1>3. req' = [s \in Requests |-> IF s = r THEN q ELSE req[s]] /\ decks' = decks
    BY <1>1, <1>2, <1>q DEF CreateParseSession
  <1>4. DOMAIN req[r] = DeckRequest /\ r \notin Filed
    BY DEF CreateParseSession, SessionInv, TablesOK, Filed
  <1>5. /\ DOMAIN q = DeckRequest /\ q.stage = "sentences" /\ q.session = n
        /\ q.client = req[r].client /\ q.input = req[r].input /\ q.parser = req[r].parser
        /\ q.seen = req[r].seen /\ q.glossed = req[r].glossed
    BY <1>4, <1>q DEF DeckRequest
  <1>6. row # Idle /\ DOMAIN row = {"user", "text", "total"}
        /\ row.user = req[r].client /\ row.text = req[r].input.text /\ row.total = ParsedOf(req[r]).total
    BY DEF Idle
  <1>7. ParsedOf(q) = ParsedOf(req[r])
    BY <1>5, ParsedAlike
  <1> HIDE DEF row
  <1>8. Filed' = Filed \cup {r}
    BY <1>3, <1>5 DEF Filed
  <1>9. TablesOK'
    <2>1. \A i \in DOMAIN sessions' : sessions'[i] # Idle => DOMAIN sessions'[i] = {"user", "text", "total"}
      BY <1>2, <1>6 DEF SessionInv, TablesOK
    <2>2. \A s \in Requests : "stage" \in DOMAIN req'[s]
      BY <1>3, <1>5 DEF SessionInv, TablesOK, DeckRequest
    <2>3. \A s \in Requests : s \in Filed' \/ req'[s].stage = "session" => DOMAIN req'[s] = DeckRequest
      BY <1>3, <1>5, <1>8 DEF SessionInv, TablesOK
    <2> QED
      BY <1>2, <1>3, <2>1, <2>2, <2>3 DEF SessionInv, TablesOK
  <1>10. \A s \in Filed : s # r /\ s \in Requests /\ req'[s] = req[s] /\ FiledRow(s) /\ req[s].session # n
    BY <1>2, <1>3, <1>4 DEF SessionInv, Filed, FiledRow
  <1>11. \A j \in DOMAIN decks : decks[j] # Idle /\ decks[j].session # 0 =>
            LinkedDeck(j) /\ decks[j].session # n
    BY <1>2 DEF SessionInv, LinkedDeck
  <1>12. ASSUME NEW s \in Filed' PROVE FiledRow(s)'
    <2>1. CASE s = r
      <3>1. req'[s] = q
        BY <1>3, <2>1
      <3>2. RowOf(n, q)'
        BY <1>2, <1>5, <1>6, <1>7 DEF RowOf
      <3>3. \A t \in Filed' : req'[t].session = n => t = r
        BY <1>8, <1>10
      <3>4. \A j \in DOMAIN decks' : decks'[j] # Idle => decks'[j].session # n
        BY <1>2, <1>3, <1>11
      <3> QED
        BY <1>2, <1>5, <2>1, <3>1, <3>2, <3>3, <3>4 DEF FiledRow
    <2>2. CASE s \in Filed
      <3>1. FiledRow(s) /\ req'[s] = req[s] /\ req[s].session \in DOMAIN sessions /\ req[s].session # n
        BY <1>10, <2>2 DEF FiledRow
      <3>2. RowOf(req[s].session, req[s])'
        BY <1>2, <3>1 DEF FiledRow, RowOf
      <3>3. \A t \in Filed' : req'[t].session = req[s].session => t = s
        BY <1>3, <1>5, <1>8, <1>10, <3>1 DEF FiledRow
      <3> QED
        BY <1>2, <1>3, <3>1, <3>2, <3>3 DEF FiledRow
    <2> QED
      BY <1>8, <2>1, <2>2
  <1>13. ASSUME NEW j \in DOMAIN decks', decks'[j] # Idle, decks'[j].session # 0
         PROVE  LinkedDeck(j)'
    <2>1. LinkedDeck(j)
      BY <1>3, <1>11, <1>13
    <2> QED
      BY <1>2, <1>3, <2>1 DEF LinkedDeck, RowOf
  <1> QED
    BY <1>9, <1>12, <1>13 DEF SessionInv

(* CollectSentences only reads. *)
LEMMA CollectSentencesKeeps ==
    ASSUME SessionInv, NEW r \in Requests, CollectSentences(r)
    PROVE  SessionInv'
  <1>q. PICK q : q = [req[r] EXCEPT !.stage = "deck", !.offered = dict]
    OBVIOUS
  <1>1. DOMAIN req = Requests /\ r \in Filed /\ DOMAIN req[r] = DeckRequest
    BY DEF SessionInv, TablesOK, CollectSentences, Filed
  <1>2. req' = [s \in Requests |-> IF s = r THEN q ELSE req[s]] /\ decks' = decks /\ sessions' = sessions
    BY <1>1, <1>q DEF CollectSentences
  <1>3. /\ DOMAIN q = DeckRequest /\ q.stage = "deck" /\ q.session = req[r].session
        /\ q.client = req[r].client /\ q.input = req[r].input /\ q.parser = req[r].parser
        /\ q.seen = req[r].seen /\ q.glossed = req[r].glossed
    BY <1>1, <1>q DEF DeckRequest
  <1>4. Filed' = Filed
    BY <1>1, <1>2, <1>3 DEF Filed
  <1>5. TablesOK'
    BY <1>2, <1>3, <1>4 DEF SessionInv, TablesOK, DeckRequest
  <1>6. ASSUME NEW s \in Filed' PROVE FiledRow(s)'
    <2>1. FiledRow(s) /\ s \in Requests /\ req'[s].session = req[s].session
      BY <1>2, <1>3, <1>4 DEF SessionInv, Filed
    <2>2. \A t \in Filed' : req'[t].session = req[t].session
      BY <1>2, <1>3, <1>4 DEF Filed
    <2>3. RowOf(req'[s].session, req'[s])
      BY <1>2, <1>3, <2>1, RowAlike DEF FiledRow
    <2>4. RowOf(req[s].session, req[s])'
      BY <1>2, <2>1, <2>3 DEF RowOf
    <2>5. req'[s].stage = "link" => req'[s] = req[s]
      BY <1>2, <1>3, <2>1
    <2> QED
      BY <1>2, <1>4, <2>1, <2>2, <2>4, <2>5 DEF FiledRow
  <1>7. ASSUME NEW j \in DOMAIN decks', decks'[j] # Idle, decks'[j].session # 0
        PROVE  LinkedDeck(j)'
    <2>1. LinkedDeck(j)
      BY <1>2, <1>7 DEF SessionInv
    <2> QED
      BY <1>2, <2>1 DEF LinkedDeck, RowOf
  <1> QED
    BY <1>5, <1>6, <1>7 DEF SessionInv

(* CreateDeck appends a deck of the request that is not linked to a row. *)
LEMMA CreateDeckKeeps ==
    ASSUME SessionInv, NEW r \in Requests, CreateDeck(r)
    PROVE  SessionInv'
  <1> DEFINE made == [owner |-> req[r].client, session |-> 0, request |-> req[r]]
  <1>n. PICK n : n = Len(decks) + 1
    OBVIOUS
  <1>q. PICK q : q = [req[r] EXCEPT !.stage = "link", !.deck = n]
    OBVIOUS
  <1>1. /\ DOMAIN req = Requests /\ IsTable(decks)
        /\ r \in Filed /\ DOMAIN req[r] = DeckRequest
    BY DEF SessionInv, TablesOK, CreateDeck, Filed
  <1>2. /\ IsTable(decks') /\ Len(decks') = n
        /\ DOMAIN decks' = DOMAIN decks \cup {n} /\ n \notin DOMAIN decks
        /\ \A j \in DOMAIN decks : decks'[j] = decks[j]
        /\ decks'[n] = made
    <2>1. decks' = Append(decks, made)
      BY DEF CreateDeck
    <2> HIDE DEF made
    <2> QED
      BY <1>1, <1>n, <2>1, Appended
  <1>3. req' = [s \in Requests |-> IF s = r THEN q ELSE req[s]] /\ sessions' = sessions
    BY <1>1, <1>2, <1>q DEF CreateDeck
  <1>4. /\ DOMAIN q = DeckRequest /\ q.stage = "link" /\ q.session = req[r].session /\ q.deck = n
        /\ q.client = req[r].client /\ q.input = req[r].input /\ q.parser = req[r].parser
        /\ q.seen = req[r].seen /\ q.glossed = req[r].glossed
    BY <1>1, <1>q DEF DeckRequest
  <1>5. made # Idle /\ DOMAIN made = {"owner", "session", "request"}
        /\ made.owner = req[r].client /\ made.session = 0 /\ made.request = req[r]
    BY DEF Idle
  <1> HIDE DEF made
  <1>6. Filed' = Filed
    BY <1>1, <1>3, <1>4 DEF Filed
  <1>7. TablesOK'
    BY <1>2, <1>3, <1>4, <1>5, <1>6 DEF SessionInv, TablesOK, DeckRequest
  <1>8. \A s \in Filed : s \in Requests /\ FiledRow(s) /\ req'[s].session = req[s].session
                         /\ req[s].session # 0
    <2>1. \A i \in DOMAIN sessions : i # 0
      BY DEF SessionInv, TablesOK, IsTable
    <2> QED
      BY <1>3, <1>4, <2>1 DEF SessionInv, Filed, FiledRow
  <1>9. ASSUME NEW s \in Filed' PROVE FiledRow(s)'
    <2>1. FiledRow(s) /\ req'[s].session = req[s].session /\ s \in Requests /\ req[s].session # 0
      BY <1>6, <1>8
    <2>2. \A t \in Filed' : req'[t].session = req[s].session => t = s
      BY <1>6, <1>8, <2>1 DEF FiledRow
    <2>3. RowOf(req'[s].session, req'[s])
      BY <1>3, <1>4, <2>1, RowAlike DEF FiledRow
    <2>4. RowOf(req[s].session, req[s])'
      BY <1>3, <2>1, <2>3 DEF RowOf
    <2>5. \A j \in DOMAIN decks' : decks'[j] # Idle => decks'[j].session # req[s].session
      BY <1>2, <1>5, <2>1 DEF FiledRow
    <2>6. CASE s = r
      BY <1>2, <1>3, <1>4, <1>5, <2>1, <2>2, <2>4, <2>5, <2>6 DEF FiledRow
    <2>7. CASE s # r
      <3>1. req'[s] = req[s]
        BY <1>3, <2>1, <2>7
      <3> QED
        BY <1>2, <1>3, <2>1, <2>2, <2>4, <2>5, <3>1 DEF FiledRow
    <2> QED
      BY <2>6, <2>7
  <1>10. ASSUME NEW j \in DOMAIN decks', decks'[j] # Idle, decks'[j].session # 0
         PROVE  LinkedDeck(j)'
    <2>1. j \in DOMAIN decks /\ LinkedDeck(j)
      BY <1>2, <1>5, <1>10 DEF SessionInv
    <2>2. \A k \in DOMAIN decks' : decks'[k] # Idle /\ decks'[k].session = decks'[j].session => k = j
      BY <1>2, <1>5, <1>10, <2>1 DEF LinkedDeck
    <2> QED
      BY <1>2, <1>3, <2>1, <2>2 DEF LinkedDeck, RowOf
  <1> QED
    BY <1>7, <1>9, <1>10 DEF SessionInv

(* SetDeckParseSession links the deck of the request to its row and ends   *)
(* the request: no other deck was linked to that row, and none will be.    *)
LEMMA SetDeckParseSessionKeeps ==
    ASSUME SessionInv, NEW r \in Requests, SetDeckParseSession(r)
    PROVE  SessionInv'
  <1>1. /\ DOMAIN req = Requests /\ IsTable(decks)
        /\ r \in Filed /\ req[r].stage = "link" /\ FiledRow(r)
    BY DEF SessionInv, TablesOK, SetDeckParseSession, Filed
  <1>d. PICK d : d = req[r].deck
    OBVIOUS
  <1>i. PICK i : i = req[r].session
    OBVIOUS
  <1>2. d \in DOMAIN decks /\ i \in DOMAIN sessions
    BY <1>1, <1>d, <1>i DEF FiledRow
  <1>3. /\ req' = [s \in Requests |-> IF s = r THEN Done ELSE req[s]] /\ sessions' = sessions
        /\ decks' = [decks EXCEPT ![d] = IF @ = Idle THEN @ ELSE [@ EXCEPT !.session = i]]
    BY <1>1, <1>d, <1>i DEF SetDeckParseSession
  <1>4. Filed' = Filed \ {r}
    BY <1>3 DEF Filed, Done
  <1>5. /\ IsTable(decks') /\ DOMAIN decks' = DOMAIN decks
        /\ \A j \in DOMAIN decks : j # d => decks'[j] = decks[j]
        /\ decks[d] = Idle => decks'[d] = Idle
        /\ decks[d] # Idle => /\ decks'[d] # Idle /\ DOMAIN decks'[d] = {"owner", "session", "request"}
                              /\ decks'[d].owner = decks[d].owner /\ decks'[d].session = i
                              /\ decks'[d].request = decks[d].request
    <2>1. decks' = [j \in DOMAIN decks |-> decks'[j]]
      BY <1>3
    <2>2. IsTable(decks') /\ DOMAIN decks' = DOMAIN decks
      BY <1>1, <2>1, Changed
    <2>3. decks[d] = Idle => decks'[d] = Idle
      BY <1>2, <1>3
    <2>4. ASSUME decks[d] # Idle
          PROVE  /\ decks'[d] # Idle /\ DOMAIN decks'[d] = {"owner", "session", "request"}
                 /\ decks'[d].owner = decks[d].owner /\ decks'[d].session = i
                 /\ decks'[d].request = decks[d].request
      <3>1. DOMAIN decks[d] = {"owner", "session", "request"}
        BY <1>2, <2>4 DEF SessionInv, TablesOK
      <3>2. decks'[d] = [decks[d] EXCEPT !.session = i]
        BY <1>2, <1>3, <2>4
      <3>3. DOMAIN decks'[d] # DOMAIN Idle
        BY <3>1, <3>2 DEF Idle
      <3> QED
        BY <3>1, <3>2, <3>3
    <2> QED
      BY <1>3, <2>2, <2>3, <2>4
  <1>6. TablesOK'
    <2>1. \A j \in DOMAIN decks' : decks'[j] # Idle => DOMAIN decks'[j] = {"owner", "session", "request"}
      BY <1>5 DEF SessionInv, TablesOK
    <2> QED
      BY <1>3, <1>4, <1>5, <2>1 DEF SessionInv, TablesOK, Done
  <1>7. ASSUME NEW s \in Filed' PROVE FiledRow(s)'
    <2>1. s \in Filed /\ s # r /\ s \in Requests /\ FiledRow(s) /\ req'[s] = req[s] /\ req[s].session # i
      BY <1>1, <1>3, <1>4, <1>7, <1>i DEF SessionInv, Filed, FiledRow
    <2>2. \A t \in Filed' : t \in Filed /\ req'[t] = req[t]
      BY <1>3, <1>4 DEF Filed
    <2>3. \A j \in DOMAIN decks' : decks'[j] # Idle => decks'[j].session # req[s].session
      BY <1>5, <2>1 DEF FiledRow
    <2>4. RowOf(req[s].session, req[s])'
      BY <1>3, <2>1 DEF FiledRow, RowOf
    <2>5. \A j \in DOMAIN decks : decks'[j] = Idle <=> decks[j] = Idle
      BY <1>5
    <2>6. \A j \in DOMAIN decks : decks[j] # Idle => decks'[j].owner = decks[j].owner /\ decks'[j].request = decks[j].request
      BY <1>5
    <2> QED
      BY <1>3, <1>5, <2>1, <2>2, <2>3, <2>4, <2>5, <2>6 DEF FiledRow
  <1>8. ASSUME NEW j \in DOMAIN decks', decks'[j] # Idle, decks'[j].session # 0
        PROVE  LinkedDeck(j)'
    <2>1. CASE j = d
      <3>1. decks[d] # Idle /\ decks'[d].session = i /\ decks'[d].request = decks[d].request
            /\ decks'[d].owner = decks[d].owner
        BY <1>5, <1>8, <2>1
      <3>2. /\ RowOf(i, req[r]) /\ decks[d].request.client = req[r].client
            /\ decks[d].request.input = req[r].input /\ decks[d].request.seen = req[r].seen
            /\ decks[d].request.glossed = req[r].glossed
            /\ decks[d].request.parser = req[r].parser /\ decks[d].owner = req[r].client
        BY <1>1, <1>d, <1>i, <3>1 DEF FiledRow
      <3>3. RowOf(i, decks[d].request)
        BY <3>2, RowAlike
      <3>4. RowOf(decks[j].session, decks[j].request)'
        BY <1>3, <2>1, <3>1, <3>3 DEF RowOf
      <3>5. \A k \in DOMAIN decks' : decks'[k] # Idle /\ decks'[k].session = i => k = d
        BY <1>1, <1>5, <1>i DEF FiledRow
      <3> QED
        BY <1>2, <1>3, <2>1, <3>1, <3>2, <3>4, <3>5 DEF LinkedDeck
    <2>2. CASE j # d
      <3>1. LinkedDeck(j) /\ decks'[j] = decks[j] /\ decks[j].session # i
        BY <1>1, <1>5, <1>8, <1>i, <2>2 DEF SessionInv, FiledRow
      <3>2. \A k \in DOMAIN decks' : decks'[k] # Idle /\ decks'[k].session = decks[j].session => k = j
        BY <1>5, <3>1 DEF LinkedDeck
      <3> QED
        BY <1>3, <3>1, <3>2 DEF LinkedDeck, RowOf
    <2> QED
      BY <2>1, <2>2
  <1> QED
    BY <1>6, <1>7, <1>8 DEF SessionInv

(* Rows and decks may go, decks be unlinked and texts be purged: the rest  *)
(* of the history stays right.                                             *)
LEMMA FewerKeeps ==
    ASSUME SessionInv, req' = req,
           sessions' = [i \in DOMAIN sessions |-> sessions'[i]],
           decks' = [j \in DOMAIN decks |-> decks'[j]],
           \A i \in DOMAIN sessions : sessions'[i] # Idle =>
               /\ sessions[i] # Idle /\ DOMAIN sessions'[i] = DOMAIN sessions[i]
               /\ sessions'[i].user = sessions[i].user /\ sessions'[i].total = sessions[i].total
               /\ sessions'[i].text \in {sessions[i].text, <<>>},
           \A j \in DOMAIN decks : decks'[j] # Idle =>
               /\ decks[j] # Idle /\ DOMAIN decks'[j] = DOMAIN decks[j]
               /\ decks'[j].owner = decks[j].owner /\ decks'[j].request = decks[j].request
               /\ decks'[j].session \in {0, decks[j].session}
    PROVE  SessionInv'
  <1>1. /\ IsTable(sessions') /\ DOMAIN sessions' = DOMAIN sessions
        /\ IsTable(decks') /\ DOMAIN decks' = DOMAIN decks
    BY Changed DEF SessionInv, TablesOK
  <1>2. Filed' = Filed /\ \A i \in DOMAIN sessions : i # 0
    BY DEF Filed, SessionInv, TablesOK
  <1>3. TablesOK'
    BY <1>1, <1>2 DEF SessionInv, TablesOK
  <1>4. ASSUME NEW i, NEW q, i \in DOMAIN sessions, RowOf(i, q) PROVE RowOf(i, q)'
    BY <1>4 DEF RowOf
  <1>5. ASSUME NEW s \in Filed' PROVE FiledRow(s)'
    <2>1. FiledRow(s) /\ req[s].session # 0
      BY <1>2 DEF SessionInv, FiledRow
    <2>2. RowOf(req[s].session, req[s])'
      BY <1>4, <2>1 DEF FiledRow, RowOf
    <2>3. \A j \in DOMAIN decks' : decks'[j] # Idle => decks'[j].session # req[s].session
      BY <1>1, <2>1 DEF FiledRow
    <2> QED
      BY <1>1, <1>2, <2>1, <2>2, <2>3 DEF FiledRow
  <1>6. ASSUME NEW j \in DOMAIN decks', decks'[j] # Idle, decks'[j].session # 0
        PROVE  LinkedDeck(j)'
    <2>1. /\ j \in DOMAIN decks /\ decks'[j].session = decks[j].session
          /\ decks'[j].request = decks[j].request /\ decks'[j].owner = decks[j].owner
          /\ LinkedDeck(j)
      BY <1>1, <1>6 DEF SessionInv
    <2>2. RowOf(decks[j].session, decks[j].request)'
      BY <2>1 DEF LinkedDeck, RowOf
    <2>3. \A k \in DOMAIN decks' : decks'[k] # Idle /\ decks'[k].session = decks'[j].session => k = j
      BY <1>1, <1>6, <2>1 DEF LinkedDeck
    <2> QED
      BY <1>1, <2>1, <2>2, <2>3 DEF LinkedDeck, RowOf
  <1> QED
    BY <1>3, <1>5, <1>6 DEF SessionInv

(* Deleting a deck leaves its session where it is.                         *)
LEMMA DeleteDeckKeeps ==
    ASSUME SessionInv, NEW i \in DOMAIN decks, DeleteDeck(i)
    PROVE  SessionInv'
  <1>1. decks' = [j \in DOMAIN decks |-> decks'[j]] /\ sessions' = sessions /\ req' = req
    BY DEF DeleteDeck
  <1>2. sessions' = [j \in DOMAIN sessions |-> sessions'[j]]
    BY <1>1 DEF SessionInv, TablesOK, IsTable
  <1>3. \A j \in DOMAIN decks : decks'[j] # Idle => decks'[j] = decks[j]
    BY DEF DeleteDeck
  <1> QED
    BY <1>1, <1>2, <1>3, FewerKeeps

(* Deleting sessions unlinks the decks saved from them.                    *)
LEMMA ForgetKeeps ==
    ASSUME SessionInv, NEW gone, Forget(gone), req' = req
    PROVE  SessionInv'
  <1>1. /\ sessions' = [i \in DOMAIN sessions |-> sessions'[i]]
        /\ \A i \in DOMAIN sessions : sessions'[i] # Idle => sessions'[i] = sessions[i]
    BY DEF Forget
  <1>2. decks' = [j \in DOMAIN decks |-> decks'[j]]
    BY DEF Forget
  <1>3. ASSUME NEW j \in DOMAIN decks, decks'[j] # Idle
        PROVE  /\ decks[j] # Idle /\ DOMAIN decks'[j] = DOMAIN decks[j]
               /\ decks'[j].owner = decks[j].owner /\ decks'[j].request = decks[j].request
               /\ decks'[j].session \in {0, decks[j].session}
    <2>1. decks[j] # Idle
      BY <1>3 DEF Forget
    <2>2. DOMAIN decks[j] = {"owner", "session", "request"}
      BY <2>1 DEF SessionInv, TablesOK
    <2>3. decks'[j] = decks[j] \/ decks'[j] = [decks[j] EXCEPT !.session = 0]
      BY DEF Forget
    <2> QED
      BY <2>1, <2>2, <2>3
  <1> QED
    BY <1>1, <1>2, <1>3, FewerKeeps

(* Purging texts leaves rows where they are.                               *)
LEMMA PurgeKeeps ==
    ASSUME SessionInv, NEW n \in DOMAIN sessions, PurgeParseSessionSourceText(n)
    PROVE  SessionInv'
  <1>1. req' = req /\ decks' = decks /\ sessions' = [i \in DOMAIN sessions |-> sessions'[i]]
    BY DEF PurgeParseSessionSourceText
  <1>2. decks' = [j \in DOMAIN decks |-> decks'[j]]
    BY <1>1 DEF SessionInv, TablesOK, IsTable
  <1>3. ASSUME NEW i \in DOMAIN sessions, sessions'[i] # Idle
        PROVE  /\ sessions[i] # Idle /\ DOMAIN sessions'[i] = DOMAIN sessions[i]
               /\ sessions'[i].user = sessions[i].user /\ sessions'[i].total = sessions[i].total
               /\ sessions'[i].text \in {sessions[i].text, <<>>}
    <2>1. sessions[i] # Idle
      BY <1>3 DEF PurgeParseSessionSourceText
    <2>2. DOMAIN sessions[i] = {"user", "text", "total"}
      BY <2>1 DEF SessionInv, TablesOK
    <2>3. sessions'[i] = sessions[i] \/ sessions'[i] = [sessions[i] EXCEPT !.text = <<>>]
      BY DEF PurgeParseSessionSourceText
    <2> QED
      BY <2>1, <2>2, <2>3
  <1> QED
    BY <1>1, <1>2, <1>3, FewerKeeps

(* Reading the glosses changes nothing else of a request.                  *)
LEMMA GlossesRead ==
    ASSUME SessionInv, NEW r \in Requests, ReadGlosses(r)
    PROVE  \E q : /\ req' = [req EXCEPT ![r] = q] /\ UNCHANGED <<loaded, shown, sessions, decks>>
                  /\ DOMAIN q = DOMAIN req[r] /\ "stage" \in DOMAIN q
                  /\ q.stage = req[r].stage /\ q.stage \in {"parse", "session"}
                  /\ \A f \in DOMAIN q : f # "glossed" => q[f] = req[r][f]
  <1>1. PICK q : q = [req[r] EXCEPT !.glossed = dict]
    OBVIOUS
  <1>2. req' = [req EXCEPT ![r] = q] /\ UNCHANGED <<loaded, shown, sessions, decks>>
    BY <1>1 DEF ReadGlosses
  <1>3. "stage" \in DOMAIN req[r] /\ req[r].stage \in {"parse", "session"}
    BY DEF SessionInv, TablesOK, ReadGlosses
  <1>4. DOMAIN q = DOMAIN req[r] /\ \A f \in DOMAIN q : f # "glossed" => q[f] = req[r][f]
    BY <1>1
  <1>5. q.stage = req[r].stage
    BY <1>3, <1>4
  <1> QED
    BY <1>2, <1>3, <1>4, <1>5

(* Every step keeps the history and the decks apart as they are.           *)
LEMMA StepSession == SessionInv /\ [Next]_vars => SessionInv'
  <1> SUFFICES ASSUME SessionInv, [Next]_vars PROVE SessionInv'
    OBVIOUS
  <1>1. CASE UNCHANGED <<req, sessions, decks>>
    BY <1>1, FewerKeeps DEF SessionInv, TablesOK, IsTable
  <1>2. CASE ChangeDictionary \/ (\E u \in Users, f \in Uploads : Upload(u, f)) \/ UNCHANGED vars
    BY <1>1, <1>2 DEF ChangeDictionary, Upload, vars
  <1>3. ASSUME NEW r \in Requests, NEW c, NEW input, NEW p, StartParse(r, c, input, p)
        PROVE  SessionInv'
    <2>1. PICK q : q = [stage |-> "parse", client |-> c, input |-> input, parser |-> p, seen |-> dict,
                         glossed |-> 0, expanded |-> 0]
      OBVIOUS
    <2>2. "stage" \in DOMAIN q /\ q.stage = "parse"
      BY <2>1
    <2>3. req' = [req EXCEPT ![r] = q] /\ UNCHANGED <<sessions, decks>>
      BY <1>3, <2>1 DEF StartParse
    <2> QED
      BY <2>2, <2>3, Elsewhere
  <1>4. ASSUME NEW r \in Requests, NEW u, NEW input, NEW s, StartDeck(r, u, input, s)
        PROVE  SessionInv'
    <2>1. PICK q : q = [stage |-> "session", client |-> u, input |-> input, selected |-> s, parser |-> "custom",
                         seen |-> dict, glossed |-> 0, session |-> 0, offered |-> 0, deck |-> 0]
      OBVIOUS
    <2>2. DOMAIN q = DeckRequest /\ "stage" \in DOMAIN q /\ q.stage = "session"
      BY <2>1 DEF DeckRequest
    <2>3. req' = [req EXCEPT ![r] = q] /\ UNCHANGED <<sessions, decks>>
      BY <1>4, <2>1 DEF StartDeck
    <2> QED
      BY <2>2, <2>3, Elsewhere
  <1>5. ASSUME NEW r \in Requests, ShowParse(r) \/ FailRequest(r)
        PROVE  SessionInv'
    <2>1. req' = [req EXCEPT ![r] = Done] /\ UNCHANGED <<sessions, decks>>
      BY <1>5, Zenon DEF ShowParse, FailRequest
    <2>2. "stage" \in DOMAIN Done /\ Done.stage = "done"
      BY DEF Done
    <2> QED
      BY <2>1, <2>2, Elsewhere
  <1>6. ASSUME NEW r \in Requests, ExpandParse(r)
        PROVE  SessionInv'
    <2>1. PICK q : q = [req[r] EXCEPT !.stage = "show", !.expanded = dict]
      OBVIOUS
    <2>2. "stage" \in DOMAIN q /\ q.stage = "show"
      BY <2>1 DEF SessionInv, TablesOK
    <2>3. req' = [req EXCEPT ![r] = q] /\ UNCHANGED <<sessions, decks>>
      BY <1>6, <2>1 DEF ExpandParse
    <2> QED
      BY <2>2, <2>3, Elsewhere
  <1>11. ASSUME NEW r \in Requests, ReadGlosses(r)
         PROVE  SessionInv'
    <2>1. PICK q : /\ req' = [req EXCEPT ![r] = q] /\ UNCHANGED <<loaded, shown, sessions, decks>>
                   /\ DOMAIN q = DOMAIN req[r] /\ "stage" \in DOMAIN q
                   /\ q.stage = req[r].stage /\ q.stage \in {"parse", "session"}
      BY <1>11, GlossesRead
    <2>2. q.stage = "session" => DOMAIN q = DeckRequest
      BY <2>1 DEF SessionInv, TablesOK
    <2> QED
      BY <2>1, <2>2, Elsewhere
  <1>7. ASSUME NEW r \in Requests, CreateParseSession(r) \/ CollectSentences(r) \/ CreateDeck(r) \/ SetDeckParseSession(r)
        PROVE  SessionInv'
    BY <1>7, CreateParseSessionKeeps, CollectSentencesKeeps, CreateDeckKeeps, SetDeckParseSessionKeeps
  <1>8. ASSUME NEW i \in DOMAIN decks, DeleteDeck(i) PROVE SessionInv'
    BY <1>8, DeleteDeckKeeps
  <1>9. ASSUME NEW u \in Users,
               DeleteUserParseSessions(u) \/ (\E i \in DOMAIN sessions : DeleteUserParseSession(u, i))
        PROVE  SessionInv'
    BY <1>9, ForgetKeeps DEF DeleteUserParseSessions, DeleteUserParseSession
  <1>10. ASSUME NEW n \in DOMAIN sessions, PurgeParseSessionSourceText(n) PROVE SessionInv'
    BY <1>10, PurgeKeeps
  <1> QED
    BY <1>2, <1>3, <1>4, <1>5, <1>6, <1>7, <1>8, <1>9, <1>10, <1>11 DEF Next

(* There is no history at the start.                                       *)
LEMMA InitSession == Init => SessionInv
  <1> SUFFICES ASSUME Init PROVE SessionInv
    OBVIOUS
  <1>1. req = [r \in Requests |-> Idle] /\ sessions = <<>> /\ decks = <<>>
    BY DEF Init
  <1>2. \A r \in Requests : req[r].stage = "idle" /\ "stage" \in DOMAIN req[r]
    BY <1>1 DEF Idle
  <1>3. DOMAIN sessions = {} /\ DOMAIN decks = {} /\ IsTable(sessions) /\ IsTable(decks)
    BY <1>1 DEF IsTable
  <1> QED
    BY <1>1, <1>2, <1>3 DEF SessionInv, TablesOK, Filed

(* The history of a learner shows each deck with the text it was made of:  *)
(* the row a deck is linked to counts that deck alone, its text is the     *)
(* deck's unless it was purged and its total is the deck's, however        *)
(* requests overlap and whatever is deleted or purged while they run.      *)
THEOREM HistoryMatches == Spec => []HistoryMatchesDecks
  <1>1. SessionInv => HistoryMatchesDecks
    <2> SUFFICES ASSUME SessionInv, NEW j \in DOMAIN decks, decks[j] # Idle,
                        decks[j].session \in DOMAIN ListUserParseSessions(decks[j].owner)
                 PROVE  LET d == decks[j]  rows == ListUserParseSessions(d.owner) IN
                        /\ rows[d.session].deckCount = 1
                        /\ rows[d.session].text \in {d.request.input.text, <<>>}
                        /\ rows[d.session].total = ParsedOf(d.request).total
      BY DEF HistoryMatchesDecks, Saved
    <2>d. PICK d : d = decks[j]
      OBVIOUS
    <2>1. /\ d.session \in DOMAIN sessions /\ sessions[d.session] # Idle /\ d.session \in Owned(d.owner)
          /\ ListUserParseSessions(d.owner)[d.session] =
               [text |-> sessions[d.session].text, total |-> sessions[d.session].total,
                deckCount |-> Cardinality({k \in DOMAIN decks : decks[k] # Idle /\ decks[k].owner = d.owner
                                                                /\ decks[k].session = d.session})]
      BY <2>d, Zenon DEF ListUserParseSessions, Owned
    <2>2. d.session # 0
      BY <2>1 DEF SessionInv, TablesOK, IsTable
    <2>3. LinkedDeck(j)
      BY <2>d, <2>2 DEF SessionInv
    <2>4. {k \in DOMAIN decks : decks[k] # Idle /\ decks[k].owner = d.owner /\ decks[k].session = d.session} = {j}
      BY <2>d, <2>3 DEF LinkedDeck
    <2>5. RowOf(d.session, d.request)
      BY <2>d, <2>3 DEF LinkedDeck
    <2>6. Cardinality({j}) = 1
      BY FS_Singleton
    <2>7. sessions[d.session].text \in {d.request.input.text, <<>>} /\ sessions[d.session].total = ParsedOf(d.request).total
      BY <2>1, <2>5 DEF RowOf
    <2>8. ListUserParseSessions(d.owner)[d.session].deckCount = 1
      BY <2>1, <2>4, <2>6
    <2> QED
      BY <2>d, <2>1, <2>7, <2>8
  <1> QED
    BY <1>1, InitSession, StepSession, PTL DEF Spec

-----------------------------------------------------------------------------
(* The upload of a file.                                                   *)

\* The lists up to each of n lists, put one after another.
Joins(f, n, S, seqs) ==
    /\ f \in [1..n -> Seq(S)]
    /\ f[1] = seqs[1] /\ \A i \in 1..n : i # 1 => f[i] = f[i - 1] \o seqs[i]

(* Lists one after another: of the lists up to each, the last ends it.     *)
LEMMA Flattened ==
    ASSUME NEW S, NEW n \in Nat \ {0}, NEW seqs \in [1..n -> Seq(S)]
    PROVE  \E f : Joins(f, n, S, seqs) /\ FlattenSeq(seqs) = f[n]
  <1> DEFINE D == 1..n
             Body(g, i) == IF i = 1 THEN seqs[i] ELSE g[i - 1] \o seqs[i]
             R == {m \in Nat : \E g \in [D -> Seq(S)] : \A i \in D : i <= m => g[i] = Body(g, i)}
  <1>1. \A g \in [D -> Seq(S)] : \A i \in D : Body(g, i) \in Seq(S)
    <2> SUFFICES ASSUME NEW g \in [D -> Seq(S)], NEW i \in D, i # 1
                 PROVE  g[i - 1] \o seqs[i] \in Seq(S)
      OBVIOUS
    <2>1. g[i - 1] \in Seq(S) /\ seqs[i] \in Seq(S)
      OBVIOUS
    <2> QED
      BY <2>1
  <1>2. 0 \in R
    <2> DEFINE g == [i \in D |-> <<>>]
    <2>1. g \in [D -> Seq(S)] /\ \A i \in D : i <= 0 => g[i] = Body(g, i)
      OBVIOUS
    <2> QED
      BY <2>1
  <1>3. ASSUME NEW m \in Nat, m \in R PROVE m + 1 \in R
    <2>1. PICK g \in [D -> Seq(S)] : \A i \in D : i <= m => g[i] = Body(g, i)
      BY <1>3
    <2> DEFINE h == [i \in D |-> Body(g, i)]
    <2>2. h \in [D -> Seq(S)]
      BY <1>1
    <2>3. ASSUME NEW i \in D, i <= m + 1 PROVE h[i] = Body(h, i)
      <3>1. CASE i = 1
        BY <3>1
      <3>2. CASE i # 1
        <4>1. i - 1 \in D /\ i - 1 <= m
          BY <2>3, <3>2
        <4>2. h[i - 1] = Body(g, i - 1) /\ g[i - 1] = Body(g, i - 1)
          BY <2>1, <4>1
        <4>3. h[i] = g[i - 1] \o seqs[i] /\ Body(h, i) = h[i - 1] \o seqs[i]
          BY <3>2
        <4> HIDE DEF h, Body
        <4> QED
          BY <4>2, <4>3
      <3> QED
        BY <3>1, <3>2
    <2>4. \A i \in D : i <= m + 1 => h[i] = Body(h, i)
      BY <2>3
    <2> HIDE DEF h, Body, D
    <2> QED
      BY <2>2, <2>4
  <1>4. n \in R
    <2> HIDE DEF R
    <2> QED
      BY <1>2, <1>3, InductionOnSet
  <1>5. PICK g \in [D -> Seq(S)] : \A i \in D : i <= n => g[i] = Body(g, i)
    BY <1>4
  <1>6. \A i \in D : g[i] = Body(g, i)
    BY <1>5, SMTT(20), ZenonT(60)
  <1> DEFINE rec == CHOOSE f : f = [i \in 1..n |-> IF i = 1 THEN seqs[i] ELSE f[i - 1] \o seqs[i]]
  <1>7. g = [i \in 1..n |-> IF i = 1 THEN seqs[i] ELSE g[i - 1] \o seqs[i]]
    BY <1>6
  <1>8. rec = [i \in 1..n |-> IF i = 1 THEN seqs[i] ELSE rec[i - 1] \o seqs[i]]
    <2> HIDE DEF D, Body
    <2> QED
      BY <1>7, Zenon
  <1>9. Len(seqs) = n
    OBVIOUS
  <1>10. FlattenSeq(seqs) = rec[n]
    BY <1>9 DEF FlattenSeq
  <1> HIDE DEF rec
  <1>11. \A i \in D : rec[i] = Body(rec, i)
    BY <1>8
  <1>12. \A i \in D : rec[i] \in Seq(S)
    <2> DEFINE T == {m \in Nat : \A i \in D : i <= m => rec[i] \in Seq(S)}
    <2>1. 0 \in T
      OBVIOUS
    <2>2. ASSUME NEW m \in Nat, m \in T PROVE m + 1 \in T
      <3>1. ASSUME NEW i \in D, i = m + 1 PROVE rec[i] \in Seq(S)
        <4>1. CASE i = 1
          BY <1>11, <4>1
        <4>2. CASE i # 1
          <5>1. rec[i - 1] \in Seq(S) /\ seqs[i] \in Seq(S)
            BY <2>2, <3>1, <4>2
          <5>2. rec[i] = rec[i - 1] \o seqs[i]
            BY <1>11, <4>2
          <5>3. rec[i - 1] \o seqs[i] \in Seq(S)
            BY <5>1
          <5> QED
            BY <5>2, <5>3
        <4> QED
          BY <4>1, <4>2
      <3>2. \A i \in D : i <= m + 1 => i <= m \/ i = m + 1
        OBVIOUS
      <3> HIDE DEF D
      <3> QED
        BY <2>2, <3>1, <3>2
    <2>3. n \in T
      <3> HIDE DEF T
      <3> QED
        BY <2>1, <2>2, InductionOnSet
    <2> QED
      BY <2>3
  <1>13. rec \in [1..n -> Seq(S)]
    BY <1>8, <1>12
  <1>14. Joins(rec, n, S, seqs)
    <2>1. 1 \in D
      OBVIOUS
    <2> QED
      BY <1>11, <1>13, <2>1 DEF Joins
  <1> QED
    BY <1>10, <1>14

(* Nothing comes before the first chapter, and each chapter adds its own   *)
(* length.                                                                 *)
LEMMA CharsAddUp ==
    ASSUME NEW chapters, NEW n \in Nat, NEW len \in [1..n -> Nat],
           \A i \in 1..n : DOMAIN chapters[i] = 1..len[i]
    PROVE  /\ CharsBefore(chapters, 1) = 0
           /\ \A i \in 1..(n + 1) : CharsBefore(chapters, i) \in Nat
           /\ \A i \in 1..n : CharsBefore(chapters, i + 1) = CharsBefore(chapters, i) + len[i]
  <1> DEFINE of(j) == {<<j, k>> : k \in DOMAIN chapters[j]}
             upTo(i) == UNION {of(j) : j \in 1..(i - 1)}
  <1>1. \A i : CharsBefore(chapters, i) = Cardinality(upTo(i))
    BY DEF CharsBefore
  <1>2. \A j \in 1..n : IsFiniteSet(of(j)) /\ Cardinality(of(j)) = len[j]
    <2> TAKE j \in 1..n
    <2>1. len[j] \in Nat /\ DOMAIN chapters[j] = 1..len[j]
      OBVIOUS
    <2> DEFINE f == [k \in 1..len[j] |-> <<j, k>>]
    <2>2. f \in Bijection(1..len[j], of(j))
      BY <2>1 DEF Bijection, Injection, Surjection, IsInjective
    <2>3. IsFiniteSet(1..len[j]) /\ Cardinality(1..len[j]) = len[j]
      BY <2>1, FS_Interval
    <2> HIDE DEF f, of
    <2>4. ExistsBijection(1..len[j], of(j))
      BY <2>2 DEF ExistsBijection
    <2> QED
      BY <2>3, <2>4, FS_Bijection, Zenon
  <1>3. \A i \in 1..(n + 1) : IsFiniteSet(upTo(i))
    <2> TAKE i \in 1..(n + 1)
    <2>1. IsFiniteSet(1..(i - 1))
      BY FS_Interval
    <2> DEFINE g == [j \in 1..(i - 1) |-> of(j)]
    <2>2. IsFiniteSet({g[j] : j \in 1..(i - 1)})
      <3>1. DOMAIN g = 1..(i - 1)
        OBVIOUS
      <3> HIDE DEF g
      <3> QED
        BY <2>1, <3>1, ImageIsFinite
    <2>3. {g[j] : j \in 1..(i - 1)} = {of(j) : j \in 1..(i - 1)}
      OBVIOUS
    <2>4. \A T \in {of(j) : j \in 1..(i - 1)} : IsFiniteSet(T)
      BY <1>2
    <2> HIDE DEF of, g
    <2> QED
      BY <2>2, <2>3, <2>4, FS_UNION
  <1>4. upTo(1) = {}
    OBVIOUS
  <1>5. ASSUME NEW i \in 1..n PROVE Cardinality(upTo(i + 1)) = Cardinality(upTo(i)) + len[i]
    <2>1. upTo(i + 1) = upTo(i) \cup of(i)
      <3>1. 1..((i + 1) - 1) = (1..(i - 1)) \cup {i}
        OBVIOUS
      <3> HIDE DEF of
      <3> QED
        BY <3>1
    <2>2. upTo(i) \cap of(i) = {}
      OBVIOUS
    <2> HIDE DEF upTo, of
    <2>3. IsFiniteSet(upTo(i)) /\ IsFiniteSet(of(i)) /\ Cardinality(of(i)) = len[i]
      BY <1>2, <1>3
    <2>4. Cardinality(upTo(i) \cup of(i)) = Cardinality(upTo(i)) + Cardinality(of(i)) - Cardinality(upTo(i) \cap of(i))
      BY <2>3, FS_Union
    <2>5. Cardinality(upTo(i) \cap of(i)) = 0
      BY <2>2, FS_EmptySet
    <2>6. Cardinality(upTo(i)) \in Nat /\ Cardinality(of(i)) \in Nat /\ Cardinality(of(i)) = len[i]
      BY <2>3, FS_CardinalityType
    <2>7. \A a, b, c \in Nat : c = 0 => a + b - c = a + b
      OBVIOUS
    <2>8. Cardinality(upTo(i)) + Cardinality(of(i)) - Cardinality(upTo(i) \cap of(i))
            = Cardinality(upTo(i)) + Cardinality(of(i))
      BY <2>5, <2>6, <2>7
    <2> QED
      BY <2>1, <2>4, <2>6, <2>8, Zenon
  <1>6. \A i \in 1..(n + 1) : Cardinality(upTo(i)) \in Nat
    BY <1>3, FS_CardinalityType
  <1>7. Cardinality(upTo(1)) = 0
    BY <1>4, FS_EmptySet
  <1> HIDE DEF upTo
  <1> QED
    BY <1>1, <1>5, <1>6, <1>7

(* A text cut to some length is its beginning. *)
LEMMA CutTo ==
    ASSUME NEW text, IsTable(text), NEW max \in Nat
    PROVE  LET cut == TruncateRunes(text, max)
           IN  \E n \in Nat : /\ DOMAIN cut = 1..n /\ n <= max /\ n <= Len(text)
                             /\ (n = max \/ n = Len(text))
                             /\ IsTable(cut) /\ Len(cut) = n
                             /\ \A i \in 1..n : cut[i] = text[i]
  <1> DEFINE N == Len(text)  S == {text[i] : i \in DOMAIN text}  n == Min({max, N})
  <1>1. N \in Nat /\ DOMAIN text = 1..N /\ text \in Seq(S)
    BY DEF IsTable
  <1>2. n \in {max, N} /\ n <= max /\ n <= N
    <2> DEFINE T == {max, N}
    <2>1. \E x \in T : \A y \in T : x <= y
      <3> HIDE DEF N
      <3>1. CASE max <= N
        BY <1>1, <3>1
      <3>2. CASE N <= max
        BY <1>1, <3>2
      <3> QED
        BY <1>1, <3>1, <3>2
    <2> HIDE DEF N, T
    <2>2. Min(T) \in T /\ \A y \in T : Min(T) <= y
      BY <2>1 DEF Min
    <2> QED
      BY <2>2 DEF T
  <1> HIDE DEF n
  <1>3. n \in Nat /\ n <= N /\ n <= max
    BY <1>1, <1>2
  <1>4. TruncateRunes(text, max) = SubSeq(text, 1, n)
    BY DEF TruncateRunes, n
  <1> HIDE DEF S, N
  <1> DEFINE cut == SubSeq(text, 1, n)
  <1>5. cut \in Seq(S) /\ Len(cut) = n /\ \A i \in 1..n : cut[i] = text[i]
    BY <1>1, <1>3 DEF N
  <1>6. DOMAIN cut = 1..n
    BY <1>5
  <1> HIDE DEF cut
  <1>7. IsTable(cut)
    BY <1>5, ListOf DEF IsTable, Distinct
  <1> QED
    BY <1>2, <1>3, <1>4, <1>5, <1>6, <1>7, Zenon DEF cut, N

(* The chapters a budget leaves are the first ones, and together as long   *)
(* as the budget allows.                                                   *)
LEMMA KeptChapters ==
    ASSUME NEW n \in Nat, NEW len \in [1..n -> Nat], NEW chapters, DOMAIN chapters = 1..n,
           \A i \in 1..n : IsTable(chapters[i]) /\ Len(chapters[i]) = len[i],
           NEW max \in Nat \ {0}
    PROVE  LET cut == TruncateImportChapters(chapters, max)
           IN  \E m \in Nat :
                 /\ m <= n /\ (n # 0 => m # 0)
                 /\ cut = [i \in 1..m |-> TruncateRunes(chapters[i], max - CharsBefore(chapters, i))]
                 /\ \A i \in 1..m : max - CharsBefore(chapters, i) \in Nat
                 /\ CharsBefore(cut, m + 1) \in Nat /\ CharsBefore(cut, m + 1) <= max
  <1> DEFINE at(i) == CharsBefore(chapters, i)
             kept == {i \in 1..n : at(i) < max}
  <1>1. /\ at(1) = 0
        /\ \A i \in 1..(n + 1) : at(i) \in Nat
        /\ \A i \in 1..n : at(i + 1) = at(i) + len[i]
    <2>1. ASSUME NEW i \in 1..n PROVE DOMAIN chapters[i] = 1..len[i]
      <3>1. PICK text : text = chapters[i]
        OBVIOUS
      <3>2. IsTable(text) /\ Len(text) = len[i]
        BY <3>1
      <3>3. DOMAIN text = 1..Len(text)
        BY <3>2 DEF IsTable
      <3> QED
        BY <3>1, <3>2, <3>3
    <2> QED
      BY <2>1, CharsAddUp, Zenon
  <1> HIDE DEF at
  <1>2. PICK m \in Nat : m <= n /\ kept = 1..m
    <2> DEFINE rest == {i \in Nat : i # 0 /\ i \notin kept}
    <2>1. n + 1 \in rest
      OBVIOUS
    <2>2. PICK g \in rest : \A i \in rest : g <= i
      <3>1. rest \in SUBSET Nat /\ rest # {}
        BY <2>1
      <3> HIDE DEF rest
      <3> QED
        BY <3>1, LeastOf
    <2>3. g - 1 \in Nat /\ g - 1 <= n
      BY <2>1, <2>2
    <2>4. ASSUME NEW i \in 1..n, i >= g PROVE at(i) >= max
      <3> DEFINE T == {j \in Nat : g + j <= n => at(g + j) >= max}
      <3>1. 0 \in T
        <4>1. g <= n => g \in 1..n /\ at(g) \in Nat /\ ~(at(g) < max)
          BY <1>1, <2>2
        <4> QED
          BY <2>2, <4>1
      <3>2. ASSUME NEW j \in Nat, j \in T PROVE j + 1 \in T
        <4>1. SUFFICES ASSUME g + (j + 1) <= n PROVE at(g + (j + 1)) >= max
          OBVIOUS
        <4>2. g + j \in 1..n /\ g + (j + 1) = (g + j) + 1 /\ at(g + j) >= max
          BY <2>2, <3>2, <4>1
        <4>3. at(g + j) \in Nat /\ len[g + j] \in Nat /\ at((g + j) + 1) = at(g + j) + len[g + j]
          BY <1>1, <4>2
        <4> QED
          BY <4>2, <4>3
      <3>3. i - g \in T
        <4> HIDE DEF T
        <4>1. i - g \in Nat
          BY <2>2, <2>4
        <4> QED
          BY <3>1, <3>2, <4>1, InductionOnSet
      <3>4. g + (i - g) = i
        BY <2>2
      <3> QED
        BY <3>3, <3>4
    <2>5. ASSUME NEW i \in kept PROVE i \in 1..(g - 1)
      <3>1. i \in 1..n /\ at(i) \in Nat /\ at(i) < max
        BY <1>1
      <3>2. ~(i >= g)
        BY <2>4, <3>1
      <3> QED
        BY <2>2, <3>1, <3>2
    <2>6. ASSUME NEW i \in 1..(g - 1) PROVE i \in kept
      <3>1. i \in Nat /\ i # 0 /\ ~(g <= i)
        BY <2>2
      <3> QED
        BY <2>2, <3>1
    <2>7. kept = 1..(g - 1)
      <3> HIDE DEF kept
      <3> QED
        BY <2>5, <2>6
    <2> QED
      BY <2>3, <2>7
  <1>3. n # 0 => m # 0
    <2>1. n # 0 => 1 \in kept
      BY <1>1
    <2> QED
      BY <1>2, <2>1
  <1>4. Cardinality(kept) = m
    <2>1. Cardinality(1..m) = m
      BY FS_Interval
    <2> QED
      BY <1>2, <2>1
  <1> DEFINE cut == [i \in 1..m |-> TruncateRunes(chapters[i], max - at(i))]
  <1>5. TruncateImportChapters(chapters, max) = cut
    BY <1>4 DEF TruncateImportChapters, at
  <1>6. \A i \in 1..m : at(i) \in Nat /\ max - at(i) \in Nat
    <2> TAKE i \in 1..m
    <2>1. i \in kept
      BY <1>2
    <2>2. at(i) \in Nat /\ at(i) < max
      BY <1>1, <2>1
    <2> QED
      BY <2>2
  <1>7. \A i \in 1..m : \E k \in Nat : DOMAIN cut[i] = 1..k /\ k <= max - at(i) /\ k <= len[i]
    <2> TAKE i \in 1..m
    <2>1. IsTable(chapters[i]) /\ max - at(i) \in Nat /\ Len(chapters[i]) = len[i]
      BY <1>2, <1>6
    <2>2. \E k \in Nat : /\ DOMAIN TruncateRunes(chapters[i], max - at(i)) = 1..k
                        /\ k <= max - at(i) /\ k <= Len(chapters[i])
      BY <2>1, CutTo, ZenonT(30)
    <2> QED
      BY <2>1, <2>2
  <1> HIDE DEF cut
  <1> DEFINE short == [i \in 1..m |-> CHOOSE k \in Nat : DOMAIN cut[i] = 1..k /\ k <= max - at(i) /\ k <= len[i]]
  <1>8. /\ short \in [1..m -> Nat]
        /\ \A i \in 1..m : DOMAIN cut[i] = 1..short[i] /\ short[i] <= max - at(i) /\ short[i] <= len[i]
    BY <1>7
  <1> HIDE DEF short
  <1> DEFINE before(i) == CharsBefore(cut, i)
  <1>9. /\ before(1) = 0
        /\ \A i \in 1..(m + 1) : before(i) \in Nat
        /\ \A i \in 1..m : before(i + 1) = before(i) + short[i]
    BY <1>8, CharsAddUp, ZenonT(60)
  <1> HIDE DEF before
  <1>10. m # 0 => before(m) <= at(m)
    <2> DEFINE T == {j \in Nat : j + 1 <= m => before(j + 1) <= at(j + 1)}
    <2>1. 0 \in T
      BY <1>1, <1>9
    <2>2. ASSUME NEW j \in Nat, j \in T PROVE j + 1 \in T
      <3>1. SUFFICES ASSUME (j + 1) + 1 <= m PROVE before((j + 1) + 1) <= at((j + 1) + 1)
        OBVIOUS
      <3>2. j + 1 \in 1..m /\ j + 1 \in 1..n /\ before(j + 1) <= at(j + 1)
        BY <1>2, <2>2, <3>1
      <3>3. /\ before((j + 1) + 1) = before(j + 1) + short[j + 1] /\ short[j + 1] <= len[j + 1]
            /\ at((j + 1) + 1) = at(j + 1) + len[j + 1]
            /\ before(j + 1) \in Nat /\ at(j + 1) \in Nat /\ short[j + 1] \in Nat /\ len[j + 1] \in Nat
        BY <1>1, <1>8, <1>9, <3>2
      <3> QED
        BY <3>2, <3>3
    <2>3. SUFFICES ASSUME m # 0 PROVE before(m) <= at(m)
      OBVIOUS
    <2>4. m - 1 \in T
      <3> HIDE DEF T
      <3>1. m - 1 \in Nat
        BY <2>3
      <3> QED
        BY <2>1, <2>2, <3>1, InductionOnSet
    <2>5. (m - 1) + 1 = m
      OBVIOUS
    <2> QED
      BY <2>4, <2>5
  <1>11. before(m + 1) \in Nat /\ before(m + 1) <= max
    <2>1. CASE m = 0
      BY <1>9, <2>1
    <2>2. CASE m # 0
      <3>1. m \in 1..m
        BY <2>2
      <3>2. /\ before(m + 1) = before(m) + short[m] /\ short[m] <= max - at(m) /\ before(m) <= at(m)
            /\ before(m) \in Nat /\ at(m) \in Nat /\ short[m] \in Nat
        BY <1>6, <1>8, <1>9, <1>10, <3>1
      <3> QED
        BY <3>2
    <2> QED
      BY <2>1, <2>2
  <1> QED
    BY <1>2, <1>3, <1>5, <1>6, <1>11, Zenon DEF cut, at, before

(* A text between one blank and none loses the blank. *)
LEMMA Trimmed ==
    ASSUME NEW S, NEW text \in Seq(S), Len(text) >= 2,
           text[1] # Break, text[Len(text)] = Break, text[Len(text) - 1] # Break
    PROVE  TrimSpace(text) \in Seq(S) /\ Len(TrimSpace(text)) = Len(text) - 1
  <1> DEFINE N == Len(text)  kept == {i \in DOMAIN text : text[i] # Break}
  <1>1. N \in Nat /\ DOMAIN text = 1..N
    OBVIOUS
  <1>2. ~Blank(text)
    BY <1>1 DEF Blank
  <1>3. Min(kept) = 1
    <2>1. 1 \in kept /\ \A i \in kept : 1 <= i
      BY <1>1
    <2>2. kept \subseteq Nat
      BY <1>1
    <2> HIDE DEF kept
    <2>3. Min(kept) \in kept /\ \A i \in kept : Min(kept) <= i
      BY <2>1, Zenon DEF Min
    <2>4. PICK p : p = Min(kept)
      OBVIOUS
    <2>5. p \in Nat /\ p <= 1 /\ 1 <= p
      BY <2>1, <2>2, <2>3, <2>4
    <2> QED
      BY <2>4, <2>5
  <1>4. Max(kept) = N - 1
    <2>1. N - 1 \in kept
      BY <1>1
    <2>2. \A i \in kept : i \in Nat /\ i <= N - 1
      <3> TAKE i \in kept
      <3>1. i \in 1..N /\ i # N
        BY <1>1
      <3> QED
        BY <1>1, <3>1
    <2> HIDE DEF kept
    <2>3. Max(kept) \in kept /\ \A i \in kept : Max(kept) >= i
      <3>1. \A i \in kept : N - 1 >= i
        BY <1>1, <2>2
      <3> QED
        BY <2>1, <3>1, Zenon DEF Max
    <2> QED
      BY <1>1, <2>1, <2>2, <2>3
  <1>5. TrimSpace(text) = SubSeq(text, 1, N - 1)
    BY <1>2, <1>3, <1>4 DEF TrimSpace
  <1> QED
    BY <1>1, <1>5

(* The text of a book: its chapters and a blank between any two.           *)
LEMMA BookText ==
    ASSUME NEW n \in Nat \ {0}, NEW len \in [1..n -> Nat], NEW chapters, DOMAIN chapters = 1..n,
           \A i \in 1..n : /\ IsTable(chapters[i]) /\ Len(chapters[i]) = len[i] /\ len[i] # 0
                           /\ chapters[i][1] # Break /\ chapters[i][len[i]] # Break
    PROVE  LET text == TrimSpace(FlattenSeq([i \in DOMAIN chapters |-> Append(chapters[i], Break)]))
           IN  IsTable(text) /\ Len(text) = CharsBefore(chapters, n + 1) + n - 1
  <1> DEFINE at(i) == CharsBefore(chapters, i)
             S == (UNION {Distinct(chapters[i]) : i \in 1..n}) \cup {Break}
             parts == [i \in 1..n |-> Append(chapters[i], Break)]
  <1>1. /\ at(1) = 0
        /\ \A i \in 1..(n + 1) : at(i) \in Nat
        /\ \A i \in 1..n : at(i + 1) = at(i) + len[i]
    <2>1. ASSUME NEW i \in 1..n PROVE DOMAIN chapters[i] = 1..len[i]
      <3>1. PICK text : text = chapters[i]
        OBVIOUS
      <3>2. IsTable(text) /\ Len(text) = len[i]
        BY <3>1
      <3>3. DOMAIN text = 1..Len(text)
        BY <3>2 DEF IsTable
      <3> QED
        BY <3>1, <3>2, <3>3
    <2> QED
      BY <2>1, CharsAddUp, Zenon
  <1> HIDE DEF at
  <1>2. ASSUME NEW i \in 1..n
        PROVE  /\ parts[i] \in Seq(S) /\ Len(parts[i]) = len[i] + 1
               /\ parts[i][1] # Break /\ parts[i][len[i] + 1] = Break /\ parts[i][len[i]] # Break
    <2>1. PICK text : text = chapters[i]
      OBVIOUS
    <2>2. IsTable(text) /\ Len(text) = len[i] /\ len[i] \in Nat \ {0} /\ text[1] # Break /\ text[len[i]] # Break
      BY <2>1
    <2>3. text \in Seq(S)
      <3>1. text \in Seq(Distinct(text))
        BY <2>2 DEF IsTable, Distinct
      <3>2. Distinct(text) \subseteq S
        BY <2>1
      <3> HIDE DEF S
      <3>3. text \in [1..Len(text) -> Distinct(text)] /\ Len(text) \in Nat
        BY <3>1, LenProperties
      <3>4. text \in [1..Len(text) -> S]
        BY <3>2, <3>3
      <3> QED
        BY <3>3, <3>4, SeqDef
    <2>4. parts[i] = Append(text, Break) /\ Break \in S
      <3>1. Break \in S
        OBVIOUS
      <3> HIDE DEF S
      <3> QED
        BY <2>1, <3>1
    <2> HIDE DEF parts, S
    <2> QED
      BY <2>2, <2>3, <2>4
  <1>3. parts \in [1..n -> Seq(S)]
    <2> HIDE DEF S
    <2>1. \A i \in 1..n : parts[i] \in Seq(S)
      BY <1>2
    <2> QED
      BY <2>1
  <1> HIDE DEF parts, S
  <1>4. PICK f : Joins(f, n, S, parts) /\ FlattenSeq(parts) = f[n]
    BY <1>3, Flattened
  <1>5. f \in [1..n -> Seq(S)] /\ f[1] = parts[1] /\ \A i \in 1..n : i # 1 => f[i] = f[i - 1] \o parts[i]
    BY <1>4 DEF Joins
  <1> DEFINE Good(i) == /\ Len(f[i]) = at(i + 1) + i /\ Len(f[i]) >= 2
                        /\ f[i][1] # Break /\ f[i][Len(f[i])] = Break /\ f[i][Len(f[i]) - 1] # Break
             T == {j \in Nat : j + 1 <= n => Good(j + 1)}
  <1>6. 0 \in T
    <2>1. 1 \in 1..n
      OBVIOUS
    <2>2. f[1] = parts[1] /\ len[1] \in Nat \ {0} /\ at(1 + 1) = at(1) + len[1]
      BY <1>1, <1>5, <2>1
    <2>3. PICK a \in Seq(S), l \in Nat \ {0} : a = parts[1] /\ l = len[1]
      BY <1>2, <2>1, <2>2
    <2>4. Len(a) = l + 1 /\ a[1] # Break /\ a[l + 1] = Break /\ a[l] # Break
      BY <1>2, <2>1, <2>3
    <2>5. at(1 + 1) = l
      BY <1>1, <2>2, <2>3
    <2>6. Len(a) = at(1 + 1) + 1 /\ Len(a) >= 2 /\ a[Len(a)] = Break /\ Len(a) - 1 = l
      BY <2>4, <2>5
    <2>7. Good(1)
      BY <2>2, <2>3, <2>4, <2>6
    <2> HIDE DEF Good
    <2> QED
      BY <2>7
  <1>7. ASSUME NEW j \in Nat, j \in T PROVE j + 1 \in T
    <2>1. SUFFICES ASSUME (j + 1) + 1 <= n PROVE Good((j + 1) + 1)
      OBVIOUS
    <2> DEFINE i == j + 1
    <2>2. i \in 1..n /\ i + 1 \in 1..n /\ i # 0 /\ i + 1 # 1 /\ (i + 1) - 1 = i
      BY <2>1
    <2>3. Good(i)
      BY <1>7, <2>1
    <2> HIDE DEF i
    <2>4. f[i + 1] = f[i] \o parts[i + 1]
      BY <1>5, <2>2
    <2>5. PICK a \in Seq(S) : a = f[i]
      BY <1>5, <2>2
    <2>6. PICK b \in Seq(S) : b = parts[i + 1]
      BY <1>2, <2>2
    <2>7. PICK l \in Nat \ {0} : l = len[i + 1]
      BY <2>2
    <2>8. Len(b) = l + 1 /\ b[1] # Break /\ b[l + 1] = Break /\ b[l] # Break
      BY <1>2, <2>2, <2>6, <2>7
    <2>9. Len(a) = at(i + 1) + i /\ Len(a) >= 2 /\ a[1] # Break
      BY <2>3, <2>5
    <2>10. at(i + 1) \in Nat /\ at((i + 1) + 1) = at(i + 1) + l
      BY <1>1, <2>2, <2>7
    <2>11. f[i + 1] = a \o b
      BY <2>4, <2>5, <2>6
    <2>12. /\ Len(a \o b) = Len(a) + (l + 1) /\ (a \o b)[1] = a[1]
           /\ (a \o b)[Len(a) + (l + 1)] = b[l + 1] /\ (a \o b)[Len(a) + l] = b[l]
      <3>1. \A k \in 1..Len(b) : (a \o b)[Len(a) + k] = b[k]
        OBVIOUS
      <3>2. Len(a \o b) = Len(a) + Len(b) /\ \A k \in 1..Len(a) : (a \o b)[k] = a[k]
        OBVIOUS
      <3>3. l + 1 \in 1..Len(b) /\ l \in 1..Len(b) /\ 1 \in 1..Len(a)
        BY <2>8, <2>9
      <3> QED
        BY <2>8, <3>1, <3>2, <3>3
    <2>13. Len(a) \in Nat /\ (Len(a) + (l + 1)) - 1 = Len(a) + l
      OBVIOUS
    <2>14. /\ Len(a \o b) = at((i + 1) + 1) + (i + 1) /\ Len(a \o b) >= 2
           /\ (a \o b)[1] # Break /\ (a \o b)[Len(a \o b)] = Break /\ (a \o b)[Len(a \o b) - 1] # Break
      <3>1. Len(a) + (l + 1) = at((i + 1) + 1) + (i + 1) /\ Len(a) + (l + 1) >= 2
        <4>1. PICK p \in Nat : p = at(i + 1)
          BY <2>10
        <4>2. Len(a) = p + i /\ at((i + 1) + 1) = p + l /\ i \in Nat
          BY <2>2, <2>9, <2>10, <4>1
        <4>3. (p + i) + (l + 1) = (p + l) + (i + 1)
          BY <4>2
        <4>4. Len(a) + (l + 1) >= 2
          BY <2>9
        <4> QED
          BY <4>2, <4>3, <4>4
      <3> QED
        BY <2>8, <2>9, <2>12, <2>13, <3>1
    <2> QED
      BY <2>11, <2>14 DEF i
  <1>8. Good(n)
    <2>1. n - 1 \in T
      <3> HIDE DEF T
      <3>1. n - 1 \in Nat
        OBVIOUS
      <3> QED
        BY <1>6, <1>7, <3>1, InductionOnSet
    <2>2. (n - 1) + 1 = n
      OBVIOUS
    <2> HIDE DEF Good
    <2> QED
      BY <2>1, <2>2
  <1> DEFINE text == TrimSpace(f[n])
  <1>9. text \in Seq(S) /\ Len(text) = Len(f[n]) - 1
    <2>1. f[n] \in Seq(S)
      BY <1>5
    <2> HIDE DEF text
    <2> QED
      BY <1>8, <2>1, Trimmed DEF text
  <1>10. IsTable(text) /\ Len(text) = at(n + 1) + n - 1
    <2> HIDE DEF text
    <2>1. Len(text) = at(n + 1) + n - 1
      BY <1>1, <1>8, <1>9
    <2>2. IsTable(text)
      BY <1>9, ListOf DEF IsTable, Distinct
    <2> QED
      BY <2>1, <2>2
  <1>11. TrimSpace(FlattenSeq([i \in DOMAIN chapters |-> Append(chapters[i], Break)])) = text
    BY <1>4 DEF parts
  <1> HIDE DEF text
  <1> QED
    BY <1>10, <1>11 DEF at

(* What the parser accepts: a text and a list of chapters. *)
LEMMA TextAccepted ==
    ASSUME NEW text, text # <<>>, Len(text) <= MaxTextChars
    PROVE  ValidInput([kind |-> "text", text |-> text])
  <1> DEFINE input == [kind |-> "text", text |-> text]
  <1>1. IsText(input) /\ input.text = text
    BY DEF IsText
  <1> HIDE DEF input
  <1>2. CharsOf(input) = Len(text)
    BY <1>1 DEF CharsOf
  <1>3. ValidInput(input)
    BY <1>1, <1>2 DEF ValidInput
  <1> QED
    BY <1>3 DEF input

(* So are chapters that are not blank and fit together.                   *)
LEMMA ChaptersAccepted ==
    ASSUME NEW chapters, 1 \in DOMAIN chapters, ~Blank(chapters[1]),
           CharsBefore(chapters, Len(chapters) + 1) <= MaxTextChars
    PROVE  ValidInput([kind |-> "chapters", chapters |-> chapters])
  <1> DEFINE input == [kind |-> "chapters", chapters |-> chapters]
  <1>1. ~IsText(input) /\ input.chapters = chapters
    BY DEF IsText
  <1> HIDE DEF input
  <1>2. CharsOf(input) = CharsBefore(chapters, Len(chapters) + 1)
    BY <1>1 DEF CharsOf
  <1>3. ValidInput(input)
    BY <1>1, <1>2 DEF ValidInput
  <1> QED
    BY <1>3 DEF input

(* What is kept of a text that is not empty is not empty. *)
LEMMA CutIsAccepted ==
    ASSUME NEW text, IsTable(text), text # <<>>
    PROVE  LET cut == TruncateRunes(text, MaxImportChars)
           IN  /\ IsTable(cut) /\ cut # <<>> /\ Len(cut) <= MaxImportChars
               /\ 1 \in DOMAIN cut /\ cut[1] = text[1]
  <1> DEFINE cut == TruncateRunes(text, MaxImportChars)
  <1>1. MaxImportChars \in Nat \ {0}
    BY IngestAssumption
  <1>2. PICK n \in Nat : /\ DOMAIN cut = 1..n /\ n <= MaxImportChars /\ (n = MaxImportChars \/ n = Len(text))
                         /\ IsTable(cut) /\ Len(cut) = n /\ \A i \in 1..n : cut[i] = text[i]
    BY <1>1, CutTo
  <1> HIDE DEF cut
  <1>3. Len(text) \in Nat /\ Len(text) # 0
    BY DEF IsTable
  <1>4. n # 0 /\ 1 \in 1..n
    BY <1>1, <1>2, <1>3
  <1>5. cut # <<>>
    BY <1>2, <1>4
  <1> QED
    BY <1>2, <1>4, <1>5 DEF cut

(* A plain file is a text, and no chapters. *)
LEMMA PlainParses ==
    ASSUME NEW file \in Uploads, file.kind # "epub"
    PROVE  LET got == HandleImportExtract(file)
           IN  /\ IsTable(got.text) /\ got.chapters = <<>>
               /\ got.text # <<>> => Len(got.text) <= MaxTextChars
  <1> DEFINE text == file.chapters[1]
             got == HandleImportExtract(file)
  <1>1. IsTable(text)
    <2>1. IsTable(file.chapters) /\ file.chapters # <<>> /\ \A i \in DOMAIN file.chapters : IsTable(file.chapters[i])
      BY UploadsAssumption
    <2>2. 1 \in DOMAIN file.chapters
      BY <2>1 DEF IsTable
    <2> QED
      BY <2>1, <2>2
  <1>2. MaxImportChars \in Nat \ {0} /\ MaxTextChars \in Nat /\ MaxImportChars <= MaxTextChars
    BY IngestAssumption
  <1>3. ExtractUploadedContent(file) = [text |-> text, chapters |-> <<>>]
    BY DEF ExtractUploadedContent
  <1> HIDE DEF text
  <1>4. Len(text) \in Nat
    BY <1>1 DEF IsTable
  <1>5. CASE Len(text) > MaxImportChars
    <2>1. got = [text |-> TruncateRunes(text, MaxImportChars),
                 chapters |-> TruncateImportChapters(<<>>, MaxImportChars), truncated |-> TRUE]
      BY <1>3, <1>5 DEF HandleImportExtract
    <2>2. text # <<>>
      BY <1>2, <1>5
    <2>3. LET cut == TruncateRunes(text, MaxImportChars) IN IsTable(cut) /\ Len(cut) <= MaxImportChars
      BY <1>1, <2>2, CutIsAccepted
    <2>4. TruncateImportChapters(<<>>, MaxImportChars) = <<>>
      <3>1. TruncateImportChapters(<<>>, MaxImportChars) =
              [i \in 1..Cardinality({}) |-> TruncateRunes(<<>>[i], MaxImportChars - CharsBefore(<<>>, i))]
        BY DEF TruncateImportChapters
      <3>2. Cardinality({}) = 0
        BY FS_EmptySet
      <3> QED
        BY <3>1, <3>2
    <2>5. Len(TruncateRunes(text, MaxImportChars)) <= MaxTextChars
      <3>1. Len(TruncateRunes(text, MaxImportChars)) \in Nat
        BY <2>3 DEF IsTable
      <3> QED
        BY <1>2, <2>3, <3>1
    <2> QED
      BY <2>1, <2>3, <2>4, <2>5
  <1>6. CASE ~(Len(text) > MaxImportChars)
    <2>1. got = [text |-> text, chapters |-> <<>>, truncated |-> FALSE]
      BY <1>3, <1>6 DEF HandleImportExtract
    <2>2. Len(text) <= MaxTextChars
      BY <1>2, <1>4, <1>6
    <2> QED
      BY <1>1, <2>1, <2>2
  <1> QED
    BY <1>5, <1>6

(* A book is a text that is not empty, and its chapters.                   *)
LEMMA BookParses ==
    ASSUME NEW file \in Uploads, file.kind = "epub"
    PROVE  LET got == HandleImportExtract(file)
           IN  /\ IsTable(got.text) /\ got.text # <<>> /\ Len(got.text) <= MaxTextChars
               /\ 1 \in DOMAIN got.chapters /\ ~Blank(got.chapters[1])
               /\ CharsBefore(got.chapters, Len(got.chapters) + 1) <= MaxTextChars
  <1> DEFINE c == file.chapters  n == Len(c)  len == [i \in 1..n |-> Len(c[i])]
             text == TrimSpace(FlattenSeq([i \in DOMAIN c |-> Append(c[i], Break)]))
             got == HandleImportExtract(file)
  <1>1. IsTable(c) /\ c # <<>> /\ \A i \in DOMAIN c :
           IsTable(c[i]) /\ c[i] # <<>> /\ c[i][1] # Break /\ c[i][Len(c[i])] # Break
    BY UploadsAssumption
  <1>2. MaxImportChars \in Nat \ {0} /\ MaxTextChars \in Nat /\ MaxImportChars <= MaxTextChars
    BY IngestAssumption
  <1>3. ExtractUploadedContent(file) = [text |-> text, chapters |-> c]
    BY DEF ExtractUploadedContent
  <1> HIDE DEF c
  <1>4. n \in Nat \ {0} /\ DOMAIN c = 1..n
    BY <1>1 DEF IsTable
  <1>5. ASSUME NEW i \in 1..n
        PROVE  Len(c[i]) \in Nat \ {0}
    <2>1. PICK t : t = c[i]
      OBVIOUS
    <2>2. IsTable(t) /\ t # <<>>
      BY <1>1, <1>4, <2>1
    <2>3. Len(t) \in Nat \ {0}
      BY <2>2 DEF IsTable
    <2> QED
      BY <2>1, <2>3
  <1> HIDE DEF n
  <1>6. /\ len \in [1..n -> Nat]
        /\ \A i \in 1..n : /\ IsTable(c[i]) /\ Len(c[i]) = len[i] /\ len[i] # 0
                           /\ c[i][1] # Break /\ c[i][len[i]] # Break
    BY <1>1, <1>4, <1>5
  <1> HIDE DEF len
  <1> DEFINE all == CharsBefore(c, n + 1)
  <1>7. IsTable(text) /\ Len(text) = all + n - 1
    BY <1>4, <1>6, BookText
  <1> HIDE DEF text
  <1>8. /\ CharsBefore(c, 1) = 0
        /\ \A i \in 1..(n + 1) : CharsBefore(c, i) \in Nat
        /\ \A i \in 1..n : CharsBefore(c, i + 1) = CharsBefore(c, i) + len[i]
    <2>1. ASSUME NEW i \in 1..n PROVE DOMAIN c[i] = 1..len[i]
      <3>1. PICK t : t = c[i]
        OBVIOUS
      <3>2. IsTable(t) /\ Len(t) = len[i]
        BY <1>6, <3>1
      <3>3. DOMAIN t = 1..Len(t)
        BY <3>2 DEF IsTable
      <3> QED
        BY <3>1, <3>2, <3>3
    <2> QED
      BY <1>4, <1>6, <2>1, CharsAddUp, Zenon
  <1>9. all \in Nat
    BY <1>4, <1>8
  <1>10. all + n - 1 # 0
    <2>1. CASE n = 1
      <3>1. all = len[1] /\ len[1] # 0
        BY <1>6, <1>8, <2>1
      <3> QED
        BY <1>9, <2>1, <3>1
    <2>2. CASE n # 1
      BY <1>4, <1>9, <2>2
    <2> QED
      BY <2>1, <2>2
  <1> HIDE DEF all
  <1>11. text # <<>> /\ Len(text) \in Nat
    BY <1>4, <1>7, <1>9, <1>10
  <1>12. 1 \in DOMAIN c /\ IsTable(c[1]) /\ c[1] # <<>> /\ c[1][1] # Break
    BY <1>1, <1>4
  <1>13. CASE Len(text) > MaxImportChars
    <2> DEFINE short == TruncateRunes(text, MaxImportChars)
               cut == TruncateImportChapters(c, MaxImportChars)
    <2>1. got = [text |-> short, chapters |-> cut, truncated |-> TRUE]
      BY <1>3, <1>13 DEF HandleImportExtract
    <2>2. IsTable(short) /\ short # <<>> /\ Len(short) <= MaxImportChars
      BY <1>7, <1>11, CutIsAccepted
    <2>3. Len(short) <= MaxTextChars
      <3> HIDE DEF short
      <3>1. Len(short) \in Nat
        BY <2>2 DEF IsTable
      <3> QED
        BY <1>2, <2>2, <3>1
    <2>4. PICK m \in Nat :
             /\ m <= n /\ (n # 0 => m # 0)
             /\ cut = [i \in 1..m |-> TruncateRunes(c[i], MaxImportChars - CharsBefore(c, i))]
             /\ \A i \in 1..m : MaxImportChars - CharsBefore(c, i) \in Nat
             /\ CharsBefore(cut, m + 1) \in Nat /\ CharsBefore(cut, m + 1) <= MaxImportChars
      BY <1>2, <1>4, <1>6, KeptChapters, SMTT(20), ZenonT(60)
    <2> HIDE DEF cut, short
    <2>5. 1 \in 1..m /\ DOMAIN cut = 1..m
      BY <1>4, <2>4
    <2>6. Len(cut) = m
      BY <2>5, LenProperties
    <2>7. cut[1] = TruncateRunes(c[1], MaxImportChars)
      <3>1. cut[1] = TruncateRunes(c[1], MaxImportChars - CharsBefore(c, 1))
        BY <2>4, <2>5
      <3>2. MaxImportChars - CharsBefore(c, 1) = MaxImportChars
        BY <1>2, <1>8
      <3> QED
        BY <3>1, <3>2
    <2>8. ~Blank(cut[1])
      <3>1. 1 \in DOMAIN cut[1] /\ cut[1][1] = c[1][1]
        BY <1>12, <2>7, CutIsAccepted
      <3> QED
        BY <1>12, <3>1 DEF Blank
    <2>9. CharsBefore(cut, m + 1) <= MaxTextChars
      BY <1>2, <2>4
    <2> QED
      BY <2>1, <2>2, <2>3, <2>5, <2>6, <2>8, <2>9
  <1>14. CASE ~(Len(text) > MaxImportChars)
    <2>1. got = [text |-> text, chapters |-> c, truncated |-> FALSE]
      BY <1>3, <1>14 DEF HandleImportExtract
    <2>2. Len(text) <= MaxTextChars
      BY <1>2, <1>11, <1>14
    <2>3. CharsBefore(c, Len(c) + 1) <= MaxTextChars
      <3>1. all <= Len(text)
        BY <1>4, <1>7, <1>9
      <3> QED
        BY <1>2, <1>9, <1>11, <2>2, <3>1 DEF all, n
    <2>4. ~Blank(c[1])
      <3>1. 1 \in DOMAIN c[1]
        <4>1. PICK t : t = c[1]
          OBVIOUS
        <4>2. IsTable(t) /\ t # <<>>
          BY <1>12, <4>1
        <4>3. 1 \in DOMAIN t
          BY <4>2 DEF IsTable
        <4> QED
          BY <4>1, <4>3
      <3> QED
        BY <1>12, <3>1 DEF Blank
    <2> QED
      BY <1>7, <1>11, <1>12, <2>1, <2>2, <2>3, <2>4
  <1> QED
    BY <1>13, <1>14

-----------------------------------------------------------------------------
(* The sentences of a deck and their tokens.                               *)

\* A list, whatever its entries.
Listed(s) == \E n \in Nat : DOMAIN s = 1..n

(* A finite set as a list: each of its elements once. *)
LEMMA SetAsList ==
    ASSUME NEW S, IsFiniteSet(S)
    PROVE  /\ SetToSeq(S) \in Seq(S) /\ Distinct(SetToSeq(S)) = S
           /\ IsInjective(SetToSeq(S))
  <1> DEFINE n == Cardinality(S)  s == SetToSeq(S)
  <1>1. n \in Nat /\ ExistsBijection(1..n, S)
    BY FS_CardinalityType
  <1> HIDE DEF n
  <1>2. PICK f \in Bijection(1..n, S) : TRUE
    BY <1>1 DEF ExistsBijection
  <1>3. f \in [1..n -> S] /\ IsInjective(f)
    BY <1>2 DEF Bijection, Injection
  <1>4. s \in [1..n -> S] /\ IsInjective(s)
    BY <1>3 DEF SetToSeq, n
  <1> HIDE DEF s
  <1>5. s \in Seq(S)
    BY <1>1, <1>4, SeqDef
  <1>6. IsFiniteSet(1..n) /\ Cardinality(1..n) = n
    BY <1>1, FS_Interval
  <1>7. Distinct(s) = S
    <2> DEFINE T == {s[i] : i \in 1..n}
    <2>1. T \in SUBSET S
      BY <1>4
    <2>2. s \in Bijection(1..n, T)
      BY <1>4 DEF Bijection, Injection, Surjection, IsInjective
    <2> HIDE DEF T
    <2>3. ExistsBijection(1..n, T)
      BY <2>2 DEF ExistsBijection
    <2>4. Cardinality(T) = n
      BY <1>6, <2>3, FS_Bijection, Zenon
    <2>5. T = S
      BY <2>1, <2>4, FS_Subset DEF n
    <2> QED
      BY <1>4, <2>5 DEF Distinct, T
  <1> QED
    BY <1>4, <1>5, <1>7 DEF s

(* Two lists without a common entry, neither with an entry twice. *)
LEMMA FollowedByOthers ==
    ASSUME NEW S, NEW s \in Seq(S), NEW T, NEW t \in Seq(T),
           IsInjective(s), IsInjective(t), Distinct(s) \cap Distinct(t) = {}
    PROVE  IsInjective(s \o t)
  <1>0. s \in Seq(S \cup T) /\ t \in Seq(S \cup T)
    <2>1. s \in [1..Len(s) -> S] /\ t \in [1..Len(t) -> T] /\ Len(s) \in Nat /\ Len(t) \in Nat
      BY LenProperties
    <2>2. s \in [1..Len(s) -> S \cup T] /\ t \in [1..Len(t) -> S \cup T]
      BY <2>1
    <2> QED
      BY <2>1, <2>2, SeqDef
  <1>1. s \o t \in Seq(S \cup T) /\ Len(s \o t) = Len(s) + Len(t)
    BY <1>0
  <1>2. /\ Len(s) \in Nat /\ Len(t) \in Nat
        /\ DOMAIN s = 1..Len(s) /\ DOMAIN t = 1..Len(t) /\ DOMAIN (s \o t) = 1..(Len(s) + Len(t))
    BY <1>0, <1>1, LenProperties
  <1>3. \A i \in 1..Len(s) : (s \o t)[i] = s[i]
    BY <1>0
  <1>4. \A i \in 1..(Len(s) + Len(t)) : i > Len(s) => i - Len(s) \in DOMAIN t /\ (s \o t)[i] = t[i - Len(s)]
    BY <1>0, <1>2
  <1> DEFINE u == s \o t
  <1>5. SUFFICES ASSUME NEW a \in 1..(Len(s) + Len(t)), NEW b \in 1..(Len(s) + Len(t)), u[a] = u[b]
                 PROVE  a = b
    BY <1>2 DEF IsInjective
  <1>6. CASE a <= Len(s) /\ b <= Len(s)
    BY <1>2, <1>3, <1>5, <1>6 DEF IsInjective
  <1>7. CASE a > Len(s) /\ b > Len(s)
    <2>1. a - Len(s) = b - Len(s)
      BY <1>2, <1>4, <1>5, <1>7 DEF IsInjective
    <2> QED
      BY <1>2, <2>1
  <1>8. ASSUME NEW i \in 1..(Len(s) + Len(t)), NEW j \in 1..(Len(s) + Len(t)), u[i] = u[j],
               i <= Len(s), j > Len(s)
        PROVE  FALSE
    <2>1. i \in DOMAIN s /\ u[i] = s[i]
      BY <1>2, <1>3, <1>8
    <2>2. j - Len(s) \in DOMAIN t /\ u[j] = t[j - Len(s)]
      BY <1>4, <1>8
    <2> QED
      BY <1>8, <2>1, <2>2 DEF Distinct
  <1> QED
    BY <1>2, <1>5, <1>6, <1>7, <1>8

(* A text is cut into a list of sentences that are lists. *)
LEMMA SplitsIntoLists ==
    ASSUME NEW text, IsTable(text)
    PROVE  LET cut == SplitSentences(text) IN
           Listed(cut) /\ \A k \in DOMAIN cut : Listed(cut[k])
  <1> DEFINE N == Len(text)
             E == {i \in DOMAIN text : i = Len(text) \/ EndsSentence(text, i)}
             all == [i \in DOMAIN text |-> i]
             ends == Taken(all, E)
             from(k) == IF k = 1 THEN 1 ELSE ends[k - 1] + 1
             tokens == [i \in DOMAIN text |-> Tokenize(text, i)]
             piece(k) == {i \in from(k)..ends[k] : text[i] # Break /\ ~Joined(text, i)}
             cut == [k \in DOMAIN ends |-> Taken(tokens, piece(k))]
             kept == {k \in DOMAIN cut : cut[k] # <<>>}
  <1>1. N \in Nat /\ DOMAIN text = 1..N
    BY DEF IsTable
  <1> HIDE DEF N
  <1>2. E \in SUBSET (1..N)
    BY <1>1
  <1>3. \A i \in E : all[i] = i
    BY <1>1
  <1> HIDE DEF E, all
  <1>4. /\ \E m \in Nat : DOMAIN ends = 1..m
        /\ Distinct(ends) = {all[i] : i \in E}
    BY <1>1, <1>2, TakenEntries, ZenonT(60)
  <1> HIDE DEF ends
  <1>5. PICK m \in Nat : DOMAIN ends = 1..m
    BY <1>4
  <1>6. Distinct(ends) = {all[i] : i \in E}
    BY <1>4
  <1>7. \A k \in 1..m : ends[k] \in 1..N
    <2>1. \A k \in 1..m : ends[k] \in Distinct(ends)
      BY <1>5 DEF Distinct
    <2> QED
      BY <1>2, <1>3, <1>6, <2>1
  <1>8. \A k \in 1..m : from(k) \in Nat /\ from(k) >= 1
    <2> TAKE k \in 1..m
    <2>1. CASE k = 1
      BY <2>1
    <2>2. CASE k # 1
      <3>1. k - 1 \in 1..m
        BY <2>2
      <3>2. ends[k - 1] \in 1..N
        BY <1>7, <3>1
      <3> QED
        BY <1>1, <2>2, <3>2
    <2> QED
      BY <2>1, <2>2
  <1> HIDE DEF from
  <1>9. \A k \in 1..m : piece(k) \in SUBSET (1..N)
    BY <1>1, <1>7, <1>8
  <1> HIDE DEF piece, tokens
  <1>10. \A k \in 1..m : Listed(Taken(tokens, piece(k)))
    <2>1. ASSUME NEW at \in SUBSET (1..N) PROVE Listed(Taken(tokens, at))
      BY <1>1, TakenEntries, ZenonT(60) DEF Listed
    <2> QED
      BY <1>9, <2>1
  <1>11. DOMAIN cut = 1..m /\ \A k \in 1..m : cut[k] = Taken(tokens, piece(k))
    BY <1>5
  <1>12. kept \in SUBSET (1..m)
    BY <1>11
  <1>13. SplitSentences(text) = Taken(cut, kept)
    BY DEF SplitSentences, E, all, ends, from, piece, tokens
  <1>14. \A k \in kept : Listed(cut[k])
    BY <1>10, <1>11
  <1> HIDE DEF cut, kept
  <1>15. Listed(Taken(cut, kept)) /\ Distinct(Taken(cut, kept)) = {cut[k] : k \in kept}
    BY <1>5, <1>12, TakenEntries, SMTT(20), ZenonT(60) DEF Listed
  <1>16. \A k \in DOMAIN Taken(cut, kept) : Listed(Taken(cut, kept)[k])
    BY <1>14, <1>15 DEF Distinct
  <1> QED
    BY <1>13, <1>15, <1>16

(* What a request for a deck was parsed as: the sentences of its text, a   *)
(* token for each of their forms.                                          *)
LEMMA SentencesRead ==
    ASSUME NEW q, MadeOfText(q)
    PROVE  LET cut == SplitSentences(q.input.text)
               pick == Dictionaries[q.seen].pick.custom
               ss == ParsedOf(q).sentences
           IN  /\ DOMAIN ss = DOMAIN cut
               /\ \A k \in DOMAIN cut :
                    /\ ss[k].text = cut[k] /\ DOMAIN ss[k].tokens = DOMAIN cut[k]
                    /\ \A i \in DOMAIN cut[k] : ss[k].tokens[i] = Token(cut[k][i], pick)
  <1> DEFINE cut == SplitSentences(q.input.text)
             pick == Dictionaries[q.seen].pick.custom
             parts == [k \in DOMAIN cut |-> [text |-> cut[k], chapter |-> 0]]
  <1>1. AnalyzedSentences(q.input) = parts
    BY DEF AnalyzedSentences, ParsedSentences, MadeOfText
  <1>2. ParsedOf(q).sentences = ResolveSentences(parts, pick)
    BY <1>1 DEF ParsedOf, Parsed, MadeOfText
  <1> HIDE DEF cut, pick
  <1>3. /\ DOMAIN parts = DOMAIN cut
        /\ \A k \in DOMAIN cut : parts[k].text = cut[k]
    OBVIOUS
  <1> DEFINE ss == ResolveSentences(parts, pick)
  <1> HIDE DEF parts
  <1>4. DOMAIN ss = DOMAIN parts
    BY DEF ResolveSentences
  <1>5. \A k \in DOMAIN parts :
           /\ ss[k].text = parts[k].text
           /\ ss[k].tokens = [i \in DOMAIN parts[k].text |-> Token(parts[k].text[i], pick)]
    BY DEF ResolveSentences
  <1> HIDE DEF ss
  <1>6. \A k \in DOMAIN cut : ss[k].text = cut[k] /\ ss[k].tokens = [i \in DOMAIN cut[k] |-> Token(cut[k][i], pick)]
    BY <1>3, <1>5
  <1>7. \A k \in DOMAIN cut :
           DOMAIN ss[k].tokens = DOMAIN cut[k] /\ \A i \in DOMAIN cut[k] : ss[k].tokens[i] = Token(cut[k][i], pick)
    BY <1>6
  <1>8. ParsedOf(q).sentences = ss /\ DOMAIN ss = DOMAIN cut
    BY <1>2, <1>3, <1>4 DEF ss
  <1> QED
    BY <1>6, <1>7, <1>8, Zenon DEF cut, pick

(* A token keeps its form. *)
LEMMA TokenReads ==
    ASSUME NEW form, NEW pick
    PROVE  Token(form, pick).form = form
  BY DEF Token, Stub

\* The cards the tokens of a sentence get of themselves.
OwnCards(tokens) ==
    {[ix |-> i, form |-> tokens[i].form, key |-> Key(tokens[i])] : i \in {j \in DOMAIN tokens : IsWord(tokens[j])}}

(* They are finitely many. *)
LEMMA OwnCardsFinite ==
    ASSUME NEW tokens, Listed(tokens)
    PROVE  IsFiniteSet(OwnCards(tokens))
  <1> DEFINE S == {j \in DOMAIN tokens : IsWord(tokens[j])}
             card == [i \in S |-> [ix |-> i, form |-> tokens[i].form, key |-> Key(tokens[i])]]
  <1>1. IsFiniteSet(S)
    <2>1. PICK n \in Nat : DOMAIN tokens = 1..n
      BY DEF Listed
    <2>2. IsFiniteSet(1..n)
      BY <2>1, FS_Interval
    <2>3. S \in SUBSET (1..n)
      BY <2>1
    <2> QED
      BY <2>2, <2>3, FS_Subset
  <1>2. OwnCards(tokens) = {card[i] : i \in S}
    BY DEF OwnCards
  <1> HIDE DEF S
  <1>3. DOMAIN card = S
    OBVIOUS
  <1> HIDE DEF card
  <1> QED
    BY <1>1, <1>2, <1>3, ImageIsFinite

\* The tokens of each sentence of a deck, and the cards of each sentence parsed.
TokensOf(sentences) == [n \in DOMAIN sentences |-> sentences[n].tokens]
CardsOf(ss) == [k \in DOMAIN ss |-> SetToSeq(OwnCards(ss[k].tokens))]

(* A deck is made of the sentences parsed, with their cards. *)
LEMMA DeckTaken ==
    ASSUME NEW ss, NEW alternatives
    PROVE  DeckSentences(ss, alternatives) =
             Taken([k \in DOMAIN ss |-> [text |-> ss[k].text, tokens |-> CardsOf(ss)[k]]],
                   {k \in DOMAIN ss : CardsOf(ss)[k] # <<>> \/ ss[k].text # <<>>})
  <1> DEFINE cards(k) == UNION {{[ix |-> i, form |-> ss[k].tokens[i].form, key |-> x] :
                                   x \in ExpandTokenLemmas(ss[k].tokens[i], alternatives)} : i \in DOMAIN ss[k].tokens}
             all == [k \in DOMAIN ss |-> [text |-> ss[k].text, tokens |-> SetToSeq(cards(k))]]
             kept == {k \in DOMAIN all : all[k].tokens # <<>> \/ all[k].text # <<>>}
  <1>1. DeckSentences(ss, alternatives) = Taken(all, kept)
    BY DEF DeckSentences
  <1>2. \A k \in DOMAIN ss : cards(k) = OwnCards(ss[k].tokens)
    <2> TAKE k \in DOMAIN ss
    <2> DEFINE tokens == ss[k].tokens
               card(i) == [ix |-> i, form |-> tokens[i].form, key |-> Key(tokens[i])]
    <2>1. \A i \in DOMAIN tokens :
             {[ix |-> i, form |-> tokens[i].form, key |-> x] : x \in ExpandTokenLemmas(tokens[i], alternatives)}
               = IF IsWord(tokens[i]) THEN {card(i)} ELSE {}
      BY DEF ExpandTokenLemmas
    <2>2. cards(k) = UNION {IF IsWord(tokens[i]) THEN {card(i)} ELSE {} : i \in DOMAIN tokens}
      BY <2>1
    <2> HIDE DEF card
    <2>3. UNION {IF IsWord(tokens[i]) THEN {card(i)} ELSE {} : i \in DOMAIN tokens}
            = {card(i) : i \in {j \in DOMAIN tokens : IsWord(tokens[j])}}
      OBVIOUS
    <2>4. OwnCards(tokens) = {card(i) : i \in {j \in DOMAIN tokens : IsWord(tokens[j])}}
      BY DEF OwnCards, card
    <2> QED
      BY <2>2, <2>3, <2>4
  <1> HIDE DEF cards
  <1>3. \A k \in DOMAIN ss : CardsOf(ss)[k] = SetToSeq(cards(k))
    BY <1>2 DEF CardsOf
  <1>4. all = [k \in DOMAIN ss |-> [text |-> ss[k].text, tokens |-> CardsOf(ss)[k]]]
    BY <1>3
  <1>5. kept = {k \in DOMAIN ss : CardsOf(ss)[k] # <<>> \/ ss[k].text # <<>>}
    BY <1>3
  <1> QED
    BY <1>1, <1>4, <1>5

(* The sentences of a deck: each has the text of one parsed and the cards  *)
(* of its tokens.                                                          *)
LEMMA DeckTokens ==
    ASSUME NEW ss, Listed(ss), NEW alternatives
    PROVE  LET all == DeckSentences(ss, alternatives)
           IN  \A j \in DOMAIN all : \E k \in DOMAIN ss :
                  all[j] = [text |-> ss[k].text, tokens |-> SetToSeq(OwnCards(ss[k].tokens))]
  <1> DEFINE all == [k \in DOMAIN ss |-> [text |-> ss[k].text, tokens |-> CardsOf(ss)[k]]]
             kept == {k \in DOMAIN ss : CardsOf(ss)[k] # <<>> \/ ss[k].text # <<>>}
  <1>1. DeckSentences(ss, alternatives) = Taken(all, kept)
    BY DeckTaken, Zenon
  <1>2. \A k \in DOMAIN ss : all[k] = [text |-> ss[k].text, tokens |-> SetToSeq(OwnCards(ss[k].tokens))]
    BY DEF CardsOf
  <1>3. kept \subseteq DOMAIN ss
    OBVIOUS
  <1> HIDE DEF all, kept
  <1>4. Distinct(Taken(all, kept)) = {all[k] : k \in kept}
    <2>1. PICK n \in Nat : DOMAIN ss = 1..n
      BY DEF Listed
    <2> QED
      BY <1>3, <2>1, TakenEntries, ZenonT(60)
  <1>5. \A j \in DOMAIN Taken(all, kept) : \E k \in kept : Taken(all, kept)[j] = all[k]
    BY <1>4 DEF Distinct
  <1> QED
    BY <1>1, <1>2, <1>3, <1>5

\* Sentence x has the given text, the cards S and beside them only senses that were asked
\* for and are offered for the form of the card, and none twice.
SensesAdded(x, text, S, selected, d) ==
    /\ x.text = text
    /\ IsInjective(x.tokens)
    /\ S \subseteq Range(x.tokens)
    /\ \A t \in Range(x.tokens) : t \in S \/
         /\ [surface |-> t.form, key |-> t.key] \in selected
         /\ t.form \in DOMAIN d.meanings /\ t.key \in d.meanings[t.form]

(* Injecting senses adds such cards to each sentence.                      *)
LEMMA InjectedCards ==
    ASSUME NEW sentences, NEW selected, IsFiniteSet(selected), NEW d, NEW j \in DOMAIN sentences,
           NEW S, IsFiniteSet(S), sentences[j].tokens = SetToSeq(S)
    PROVE  SensesAdded(InjectSelectedSenses(sentences, selected, d)[j], sentences[j].text, S, selected, d)
  <1> DEFINE s == sentences[j].tokens
             valid == {v \in selected : v.surface \in DOMAIN d.meanings /\ v.key \in d.meanings[v.surface]}
             askedOf(b) == {[ix |-> t.ix, form |-> t.form, key |-> v.key] : t \in Range(b.tokens), v \in valid}
             freshOf(b) == {t \in askedOf(b) : [surface |-> t.form, key |-> t.key] \in valid} \ Range(b.tokens)
             made == [k \in DOMAIN sentences |->
                        [text |-> sentences[k].text, tokens |-> sentences[k].tokens \o SetToSeq(freshOf(sentences[k]))]]
             asked == askedOf(sentences[j])
             fresh == freshOf(sentences[j])
             x == InjectSelectedSenses(sentences, selected, d)[j]
  <1>1. x = [text |-> sentences[j].text, tokens |-> s \o SetToSeq(fresh)]
    <2>1. InjectSelectedSenses(sentences, selected, d) = made
      BY DEF InjectSelectedSenses
    <2> HIDE DEF freshOf
    <2> QED
      BY <2>1
  <1>2. x.text = sentences[j].text /\ x.tokens = s \o SetToSeq(fresh)
    BY <1>1
  <1> HIDE DEF x
  <1>3. s \in Seq(S) /\ Distinct(s) = S /\ IsInjective(s)
    BY SetAsList
  <1>4. Range(s) = S
    BY <1>3 DEF Distinct, Range
  <1>5. IsFiniteSet(valid)
    <2>1. valid \in SUBSET selected
      OBVIOUS
    <2> HIDE DEF valid
    <2> QED
      BY <2>1, FS_Subset
  <1>6. IsFiniteSet(asked)
    <2> DEFINE P == S \X valid
               card == [p \in P |-> [ix |-> p[1].ix, form |-> p[1].form, key |-> p[2].key]]
    <2>1. IsFiniteSet(P)
      BY <1>5, FS_Product
    <2>2. IsFiniteSet({card[p] : p \in P})
      <3>1. DOMAIN card = P
        OBVIOUS
      <3> HIDE DEF card, P
      <3> QED
        BY <2>1, <3>1, ImageIsFinite
    <2>3. asked = {card[p] : p \in P}
      <3>1. \A t \in S, v \in valid : <<t, v>> \in P /\ card[<<t, v>>] = [ix |-> t.ix, form |-> t.form, key |-> v.key]
        OBVIOUS
      <3>2. \A p \in P : p[1] \in S /\ p[2] \in valid /\ card[p] = [ix |-> p[1].ix, form |-> p[1].form, key |-> p[2].key]
        OBVIOUS
      <3>3. asked = {[ix |-> t.ix, form |-> t.form, key |-> v.key] : t \in S, v \in valid}
        BY <1>4
      <3> HIDE DEF card, P, valid, asked
      <3>4. ASSUME NEW p \in P PROVE card[p] \in asked
        <4>1. PICK t \in S, v \in valid : card[p] = [ix |-> t.ix, form |-> t.form, key |-> v.key]
          BY <3>2
        <4> QED
          BY <3>3, <4>1
      <3>5. ASSUME NEW c \in asked PROVE \E p \in P : card[p] = c
        <4>1. PICK t \in S, v \in valid : c = [ix |-> t.ix, form |-> t.form, key |-> v.key]
          BY <3>3
        <4> QED
          BY <3>1, <4>1
      <3> QED
        BY <3>4, <3>5
    <2> QED
      BY <2>2, <2>3
  <1>7. IsFiniteSet(fresh)
    <2>1. fresh \in SUBSET asked
      OBVIOUS
    <2> HIDE DEF fresh, asked
    <2> QED
      BY <1>6, <2>1, FS_Subset
  <1>8. /\ \A t \in fresh : [surface |-> t.form, key |-> t.key] \in valid
        /\ fresh \cap S = {}
    BY <1>4
  <1> HIDE DEF fresh, s
  <1>9. SetToSeq(fresh) \in Seq(fresh) /\ Distinct(SetToSeq(fresh)) = fresh /\ IsInjective(SetToSeq(fresh))
    BY <1>7, SetAsList
  <1>10. IsInjective(x.tokens) /\ Distinct(x.tokens) = S \cup fresh
    <2> DEFINE u == SetToSeq(fresh)
    <2> HIDE DEF u
    <2>1. u \in Seq(fresh) /\ Distinct(u) = fresh /\ IsInjective(u) /\ x.tokens = s \o u
      BY <1>2, <1>9 DEF u
    <2>2. Distinct(s) \cap Distinct(u) = {}
      BY <1>3, <1>8, <2>1
    <2>3. IsInjective(s \o u)
      BY <1>3, <2>1, <2>2, FollowedByOthers
    <2>4. Distinct(s \o u) = Distinct(s) \cup Distinct(u)
      <3>1. s \in Seq(S) /\ u \in Seq(fresh)
        BY <1>3, <2>1
      <3> QED
        BY <3>1, FollowedBy, ZenonT(90)
    <2> QED
      BY <1>3, <2>1, <2>3, <2>4
  <1>11. Range(x.tokens) = S \cup fresh
    BY <1>10 DEF Range, Distinct
  <1>12. \A t : [surface |-> t.form, key |-> t.key] \in valid =>
            /\ [surface |-> t.form, key |-> t.key] \in selected
            /\ t.form \in DOMAIN d.meanings /\ t.key \in d.meanings[t.form]
    OBVIOUS
  <1> HIDE DEF valid
  <1>13. \A t \in Range(x.tokens) : t \in S \/
                    /\ [surface |-> t.form, key |-> t.key] \in selected
                    /\ t.form \in DOMAIN d.meanings /\ t.key \in d.meanings[t.form]
    BY <1>8, <1>11, <1>12, Zenon
  <1> QED
    BY <1>2, <1>10, <1>11, <1>13, Zenon DEF x, SensesAdded

(* The cards of the occurrences a request makes. *)
LEMMA CardsCollected ==
    ASSUME NEW q, MadeOfText(q), NEW x \in Range(Collected(q))
    PROVE  LET readings == Dictionaries[q.offered].meanings
               reading(form) == Token(form, Dictionaries[q.seen].pick.custom)
               own(t) == t.key = Key(reading(t.form))
           IN  /\ IsInjective(x.tokens)
               /\ \A t \in Range(x.tokens) :
                    \/ own(t)
                    \/ /\ [surface |-> t.form, key |-> t.key] \in q.selected
                       /\ t.form \in DOMAIN readings /\ t.key \in readings[t.form]
               /\ \A i \in DOMAIN x.text :
                    IsWord(reading(x.text[i])) => \E t \in Range(x.tokens) : t.ix = i /\ own(t)
  <1> DEFINE d == Dictionaries[q.offered]
             pick == Dictionaries[q.seen].pick.custom
             cut == SplitSentences(q.input.text)
             ss == ParsedOf(q).sentences
             base == DeckSentences(ss, Alternatives(ss, d))
             deck == InjectSelectedSenses(base, q.selected, d)
             reading(form) == Token(form, pick)
             own(t) == t.key = Key(reading(t.form))
  <1>1. Listed(cut) /\ \A k \in DOMAIN cut : Listed(cut[k])
    BY SplitsIntoLists DEF MadeOfText
  <1>2. /\ DOMAIN ss = DOMAIN cut
        /\ \A k \in DOMAIN cut :
             /\ ss[k].text = cut[k] /\ DOMAIN ss[k].tokens = DOMAIN cut[k]
             /\ \A i \in DOMAIN cut[k] : ss[k].tokens[i] = Token(cut[k][i], pick)
    BY SentencesRead
  <1>3. \A form : Token(form, pick).form = form
    BY TokenReads
  <1>4. Collected(q) = deck
    BY DEF Collected
  <1>5. DOMAIN deck = DOMAIN base
    BY DEF InjectSelectedSenses
  <1> HIDE DEF cut, ss, pick
  <1>6. \A j \in DOMAIN base : \E k \in DOMAIN ss :
           base[j] = [text |-> ss[k].text, tokens |-> SetToSeq(OwnCards(ss[k].tokens))]
    <2>1. Listed(ss)
      BY <1>1, <1>2 DEF Listed
    <2> QED
      BY <2>1, DeckTokens
  <1> HIDE DEF base
  <1>7. PICK j \in DOMAIN base : x = deck[j]
    BY <1>4, <1>5 DEF Range
  <1>8. PICK k \in DOMAIN ss : base[j] = [text |-> ss[k].text, tokens |-> SetToSeq(OwnCards(ss[k].tokens))]
    BY <1>6
  <1> DEFINE S == OwnCards(ss[k].tokens)
  <1>9. base[j].text = cut[k] /\ base[j].tokens = SetToSeq(S)
    BY <1>2, <1>8
  <1>10. IsFiniteSet(S)
    BY <1>1, <1>2, OwnCardsFinite DEF Listed
  <1>11. IsFiniteSet(q.selected)
    BY IngestAssumption DEF MadeOfText
  <1> HIDE DEF d, S
  <1>12. /\ x.text = cut[k] /\ IsInjective(x.tokens) /\ S \subseteq Range(x.tokens)
         /\ \A t \in Range(x.tokens) : t \in S \/
                    /\ [surface |-> t.form, key |-> t.key] \in q.selected
                    /\ t.form \in DOMAIN d.meanings /\ t.key \in d.meanings[t.form]
    <2> DEFINE y == InjectSelectedSenses(base, q.selected, d)[j]
    <2>1. SensesAdded(y, base[j].text, S, q.selected, d)
      BY <1>9, <1>10, <1>11, InjectedCards
    <2>2. x = y
      BY <1>7
    <2> HIDE DEF y
    <2>3. SensesAdded(x, cut[k], S, q.selected, d)
      BY <1>9, <2>1, <2>2
    <2> QED
      BY <2>3, Zenon DEF SensesAdded
  <1>13. \A t \in S : own(t)
    <2> TAKE t \in S
    <2>1. PICK i \in DOMAIN cut[k] : t = [ix |-> i, form |-> Token(cut[k][i], pick).form, key |-> Key(Token(cut[k][i], pick))]
      BY <1>2 DEF S, OwnCards
    <2>2. t.form = cut[k][i] /\ t.key = Key(Token(cut[k][i], pick))
      BY <1>3, <2>1
    <2> QED
      BY <2>2
  <1>14. ASSUME NEW i \in DOMAIN x.text, IsWord(reading(x.text[i]))
         PROVE  \E t \in Range(x.tokens) : t.ix = i /\ own(t)
    <2> DEFINE token == ss[k].tokens[i]
               t == [ix |-> i, form |-> token.form, key |-> Key(token)]
    <2>1. i \in DOMAIN ss[k].tokens /\ token = Token(cut[k][i], pick)
      BY <1>2, <1>12, <1>14
    <2>2. IsWord(token)
      BY <1>12, <1>14, <2>1
    <2>3. t \in S
      BY <2>1, <2>2 DEF S, OwnCards
    <2>4. t.ix = i
      OBVIOUS
    <2> HIDE DEF t
    <2> QED
      BY <1>12, <1>13, <2>3, <2>4
  <1> QED
    BY <1>12, <1>13, <1>14, Zenon DEF d, pick

-----------------------------------------------------------------------------
(* What requests and decks are made of.                                    *)

(* What an upload returns: a text, which can be parsed if there is any.    *)
LEMMA UploadReturns ==
    ASSUME NEW file \in Uploads
    PROVE  LET got == HandleImportExtract(file)
           IN  /\ IsTable(got.text)
               /\ got.text # <<>> \/ got.chapters # <<>> => ValidInput([kind |-> "text", text |-> got.text])
               /\ got.chapters # <<>> => ValidInput([kind |-> "chapters", chapters |-> got.chapters])
  <1> DEFINE got == HandleImportExtract(file)
  <1>1. CASE file.kind = "epub"
    <2>1. /\ IsTable(got.text) /\ got.text # <<>> /\ Len(got.text) <= MaxTextChars
          /\ 1 \in DOMAIN got.chapters /\ ~Blank(got.chapters[1])
          /\ CharsBefore(got.chapters, Len(got.chapters) + 1) <= MaxTextChars
      BY <1>1, BookParses
    <2> HIDE DEF got
    <2>2. ValidInput([kind |-> "text", text |-> got.text])
      BY <2>1, TextAccepted
    <2>3. ValidInput([kind |-> "chapters", chapters |-> got.chapters])
      BY <2>1, ChaptersAccepted
    <2> QED
      BY <2>1, <2>2, <2>3 DEF got
  <1>2. CASE file.kind # "epub"
    <2>1. /\ IsTable(got.text) /\ got.chapters = <<>>
          /\ got.text # <<>> => Len(got.text) <= MaxTextChars
      BY <1>2, PlainParses
    <2> HIDE DEF got
    <2>2. got.text # <<>> => ValidInput([kind |-> "text", text |-> got.text])
      BY <2>1, TextAccepted
    <2> QED
      BY <2>1, <2>2 DEF got
  <1> QED
    BY <1>1, <1>2

\* The requests for decks that are under way, and the decks there are.
RequestsMade == \A r \in Requests : r \in Filed \/ req[r].stage = "session" => MadeOfText(req[r])
DecksMade == \A j \in DOMAIN decks : decks[j] # Idle => MadeOfText(decks[j].request)

(* A request read alike is made of the same text.                          *)
LEMMA MadeAlike ==
    ASSUME NEW p, MadeOfText(p), NEW q, q.input = p.input, q.parser = p.parser,
           q.selected = p.selected, q.seen = p.seen
    PROVE  MadeOfText(q)
  BY DEF MadeOfText

(* A step of one request. *)
LEMMA OneRequest ==
    ASSUME SessionInv, RequestsMade, NEW r \in Requests, NEW q, req' = [req EXCEPT ![r] = q],
           q.stage \notin {"session", "sentences", "deck", "link"} \/ MadeOfText(q)
    PROVE  RequestsMade'
  <1>1. DOMAIN req = Requests
    BY DEF SessionInv, TablesOK
  <1>2. req' = [s \in Requests |-> IF s = r THEN q ELSE req[s]]
    BY <1>1
  <1>3. ASSUME NEW s \in Requests, s \in Filed' \/ req'[s].stage = "session" PROVE MadeOfText(req'[s])
    <2>1. CASE s = r
      BY <1>2, <1>3, <2>1 DEF Filed
    <2>2. CASE s # r
      BY <1>2, <1>3, <2>2 DEF Filed, RequestsMade
    <2> QED
      BY <2>1, <2>2
  <1> QED
    BY <1>3 DEF RequestsMade, MadeOfText

(* Decks that are there keep what they were made of.                       *)
LEMMA DecksKept ==
    ASSUME DecksMade, DOMAIN decks' = DOMAIN decks,
           \A j \in DOMAIN decks : decks'[j] # Idle => decks[j] # Idle /\ decks'[j].request = decks[j].request
    PROVE  DecksMade'
  BY DEF DecksMade, MadeOfText

(* A request for a deck is for the text of a learner and for senses that   *)
(* may be asked for.                                                       *)
LEMMA DeckStarted ==
    ASSUME IngestInv, SessionInv, NEW r \in Requests, NEW u \in Users, NEW input \in Inputs(u), NEW s \in Selections,
           StartDeck(r, u, input, s)
    PROVE  RequestsMade' /\ decks' = decks
  <1>1. PICK q : q = [stage |-> "session", client |-> u, input |-> input, selected |-> s, parser |-> "custom",
                       seen |-> dict, glossed |-> 0, session |-> 0, offered |-> 0, deck |-> 0]
    OBVIOUS
  <1>2. q.input = input /\ q.parser = "custom" /\ q.selected = s /\ q.seen = dict
    BY <1>1
  <1>3. IsText(input)
    BY DEF StartDeck
  <1>4. IsTable(input.text)
    <2>1. CASE input \in Payloads
      BY <1>3, <2>1, IngestAssumption DEF WellFormed
    <2>2. CASE input \notin Payloads
      <3>1. loaded[u] # Idle /\ input \in {[kind |-> "text", text |-> loaded[u].text],
                                           [kind |-> "chapters", chapters |-> loaded[u].chapters]}
        BY <2>2 DEF Inputs
      <3>2. input = [kind |-> "text", text |-> loaded[u].text]
        BY <1>3, <3>1 DEF IsText
      <3>3. input.text = loaded[u].text
        BY <3>2
      <3> QED
        BY <3>1, <3>3 DEF IngestInv
    <2> QED
      BY <2>1, <2>2
  <1>5. MadeOfText(q)
    BY <1>2, <1>3, <1>4 DEF MadeOfText, IngestInv
  <1>6. req' = [req EXCEPT ![r] = q] /\ decks' = decks
    BY <1>1 DEF StartDeck
  <1>7. RequestsMade
    BY DEF IngestInv, RequestsMade
  <1> QED
    BY <1>5, <1>6, <1>7, OneRequest

(* The steps of a request.                                                 *)
LEMMA RequestSteps ==
    ASSUME IngestInv, SessionInv, NEW r \in Requests,
           \/ ReadGlosses(r) \/ ExpandParse(r) \/ ShowParse(r) \/ CreateParseSession(r) \/ CollectSentences(r)
           \/ CreateDeck(r) \/ SetDeckParseSession(r) \/ FailRequest(r)
    PROVE  RequestsMade' /\ DecksMade'
  <1>1. RequestsMade /\ DecksMade /\ DOMAIN req = Requests /\ IsTable(decks)
    BY DEF IngestInv, RequestsMade, DecksMade, SessionInv, TablesOK
  <1>2. decks' = decks => DecksMade'
    BY <1>1 DEF DecksMade
  <1>3. CASE ExpandParse(r)
    <2>1. PICK q : q = [req[r] EXCEPT !.stage = "show", !.expanded = dict]
      OBVIOUS
    <2>2. q.stage = "show"
      BY <2>1 DEF SessionInv, TablesOK
    <2>3. req' = [req EXCEPT ![r] = q] /\ decks' = decks
      BY <1>3, <2>1 DEF ExpandParse
    <2> QED
      BY <1>1, <1>2, <2>2, <2>3, OneRequest
  <1>g. CASE ReadGlosses(r)
    <2>1. PICK q : /\ req' = [req EXCEPT ![r] = q] /\ UNCHANGED <<loaded, shown, sessions, decks>>
                   /\ DOMAIN q = DOMAIN req[r]
                   /\ q.stage = req[r].stage /\ q.stage \in {"parse", "session"}
                   /\ \A f \in DOMAIN q : f # "glossed" => q[f] = req[r][f]
      BY <1>g, GlossesRead
    <2>2. q.stage = "session" => MadeOfText(q)
      <3> SUFFICES ASSUME q.stage = "session" PROVE MadeOfText(q)
        OBVIOUS
      <3>1. DOMAIN req[r] = DeckRequest /\ MadeOfText(req[r])
        BY <1>1, <2>1 DEF SessionInv, TablesOK, RequestsMade
      <3>2. q.input = req[r].input /\ q.parser = req[r].parser /\ q.selected = req[r].selected /\ q.seen = req[r].seen
        BY <2>1, <3>1 DEF DeckRequest
      <3> QED
        BY <3>1, <3>2, MadeAlike
    <2> QED
      BY <1>1, <1>2, <2>1, <2>2, OneRequest
  <1>4. CASE ShowParse(r) \/ FailRequest(r)
    <2>1. req' = [req EXCEPT ![r] = Done] /\ decks' = decks
      BY <1>4, Zenon DEF ShowParse, FailRequest
    <2>2. Done.stage = "done"
      BY DEF Done
    <2> QED
      BY <1>1, <1>2, <2>1, <2>2, OneRequest
  <1>5. CASE CreateParseSession(r)
    <2>1. DOMAIN req[r] = DeckRequest /\ MadeOfText(req[r])
      BY <1>1, <1>5 DEF CreateParseSession, SessionInv, TablesOK, RequestsMade
    <2>2. PICK n : n = Len(sessions')
      OBVIOUS
    <2>3. PICK q : q = [req[r] EXCEPT !.stage = "sentences", !.session = n]
      OBVIOUS
    <2>4. q.input = req[r].input /\ q.parser = req[r].parser /\ q.selected = req[r].selected /\ q.seen = req[r].seen
      BY <2>1, <2>3 DEF DeckRequest
    <2>5. req' = [req EXCEPT ![r] = q] /\ decks' = decks
      BY <1>5, <2>2, <2>3 DEF CreateParseSession
    <2>6. MadeOfText(q)
      BY <2>1, <2>4, MadeAlike
    <2> QED
      BY <1>1, <1>2, <2>5, <2>6, OneRequest
  <1>6. CASE CollectSentences(r)
    <2>1. DOMAIN req[r] = DeckRequest /\ MadeOfText(req[r])
      BY <1>1, <1>6 DEF CollectSentences, SessionInv, TablesOK, RequestsMade, Filed
    <2>2. PICK q : q = [req[r] EXCEPT !.stage = "deck", !.offered = dict]
      OBVIOUS
    <2>3. q.input = req[r].input /\ q.parser = req[r].parser /\ q.selected = req[r].selected /\ q.seen = req[r].seen
      BY <2>1, <2>2 DEF DeckRequest
    <2>4. req' = [req EXCEPT ![r] = q] /\ decks' = decks
      BY <1>6, <2>2 DEF CollectSentences
    <2>5. MadeOfText(q)
      BY <2>1, <2>3, MadeAlike
    <2> QED
      BY <1>1, <1>2, <2>4, <2>5, OneRequest
  <1>7. CASE CreateDeck(r)
    <2>1. DOMAIN req[r] = DeckRequest /\ MadeOfText(req[r])
      BY <1>1, <1>7 DEF CreateDeck, SessionInv, TablesOK, RequestsMade, Filed
    <2>2. PICK n : n = Len(decks')
      OBVIOUS
    <2>3. PICK q : q = [req[r] EXCEPT !.stage = "link", !.deck = n]
      OBVIOUS
    <2>4. q.input = req[r].input /\ q.parser = req[r].parser /\ q.selected = req[r].selected /\ q.seen = req[r].seen
      BY <2>1, <2>3 DEF DeckRequest
    <2>5. req' = [req EXCEPT ![r] = q]
      BY <1>7, <2>2, <2>3 DEF CreateDeck
    <2>6. MadeOfText(q)
      BY <2>1, <2>4, MadeAlike
    <2>7. RequestsMade'
      BY <1>1, <2>5, <2>6, OneRequest
    <2> DEFINE made == [owner |-> req[r].client, session |-> 0, request |-> req[r]]
    <2>8. decks' = Append(decks, made) /\ made.request = req[r]
      BY <1>7 DEF CreateDeck
    <2> HIDE DEF made
    <2>9. /\ DOMAIN decks' = DOMAIN decks \cup {Len(decks) + 1} /\ decks'[Len(decks) + 1] = made
          /\ \A j \in DOMAIN decks : decks'[j] = decks[j]
      <3>1. /\ DOMAIN decks = 1..Len(decks) /\ DOMAIN decks' = 1..(Len(decks) + 1) /\ Len(decks) \in Nat
            /\ \A j \in DOMAIN decks : decks'[j] = decks[j]
            /\ decks'[Len(decks) + 1] = made
        BY <1>1, <2>8, Appended
      <3> QED
        BY <3>1
    <2>10. ASSUME NEW j \in DOMAIN decks', decks'[j] # Idle PROVE MadeOfText(decks'[j].request)
      BY <1>1, <2>1, <2>8, <2>9, <2>10 DEF DecksMade
    <2>11. DecksMade'
      BY <2>10 DEF DecksMade, MadeOfText
    <2> QED
      BY <2>7, <2>11
  <1>8. CASE SetDeckParseSession(r)
    <2>1. req' = [req EXCEPT ![r] = Done]
      BY <1>8 DEF SetDeckParseSession
    <2>2. Done.stage = "done"
      BY DEF Done
    <2>3. RequestsMade'
      BY <1>1, <2>1, <2>2, OneRequest
    <2>4. PICK d, i : d = req[r].deck /\ i = req[r].session
      OBVIOUS
    <2>5. decks' = [decks EXCEPT ![d] = IF @ = Idle THEN @ ELSE [@ EXCEPT !.session = i]]
      BY <1>8, <2>4 DEF SetDeckParseSession
    <2>6. DOMAIN decks' = DOMAIN decks
      BY <2>5
    <2>7. ASSUME NEW j \in DOMAIN decks, decks'[j] # Idle
          PROVE  decks[j] # Idle /\ decks'[j].request = decks[j].request
      <3>1. decks'[j] = decks[j] \/ (decks[j] # Idle /\ decks'[j] = [decks[j] EXCEPT !.session = i])
        BY <2>5
      <3>2. CASE decks'[j] = decks[j]
        BY <2>7, <3>2
      <3>3. CASE decks[j] # Idle /\ decks'[j] = [decks[j] EXCEPT !.session = i]
        <4>1. DOMAIN decks[j] = {"owner", "session", "request"}
          BY <3>3 DEF SessionInv, TablesOK
        <4> QED
          BY <3>3, <4>1
      <3> QED
        BY <3>1, <3>2, <3>3
    <2> QED
      BY <1>1, <2>3, <2>6, <2>7, DecksKept
  <1> QED
    BY <1>g, <1>3, <1>4, <1>5, <1>6, <1>7, <1>8

(* Forgetting sessions leaves decks made of what they were.                *)
LEMMA ForgetLeavesDecks ==
    ASSUME DecksMade, SessionInv, NEW gone, Forget(gone)
    PROVE  DecksMade'
  <1>1. DOMAIN decks' = DOMAIN decks
    BY DEF Forget
  <1>2. ASSUME NEW j \in DOMAIN decks, decks'[j] # Idle
        PROVE  decks[j] # Idle /\ decks'[j].request = decks[j].request
    <2>1. decks[j] # Idle
      BY <1>2 DEF Forget
    <2>2. DOMAIN decks[j] = {"owner", "session", "request"}
      BY <2>1 DEF SessionInv, TablesOK
    <2>3. decks'[j] = decks[j] \/ decks'[j] = [decks[j] EXCEPT !.session = 0]
      BY DEF Forget
    <2> QED
      BY <2>1, <2>2, <2>3
  <1> QED
    BY <1>1, <1>2, DecksKept

(* Every step leaves requests and decks made of texts, and what a learner  *)
(* has loaded a text that can be parsed.                                   *)
LEMMA StepIngest == SessionInv /\ IngestInv /\ ImportedBookParses /\ [Next]_vars => IngestInv' /\ ImportedBookParses'
  <1> SUFFICES ASSUME SessionInv, IngestInv, ImportedBookParses, [Next]_vars PROVE IngestInv' /\ ImportedBookParses'
    OBVIOUS
  <1>1. RequestsMade /\ DecksMade
    BY DEF IngestInv, RequestsMade, DecksMade
  <1>2. dict' \in DOMAIN Dictionaries
    <2>1. dict' = dict \/ ChangeDictionary
      BY DEF Next, vars, Upload, StartParse, StartDeck, ReadGlosses, ExpandParse, ShowParse, CreateParseSession, CollectSentences,
             CreateDeck, SetDeckParseSession, FailRequest, DeleteDeck, DeleteUserParseSession,
             DeleteUserParseSessions, PurgeParseSessionSourceText
    <2>2. dict \in DOMAIN Dictionaries /\ DOMAIN Dictionaries = 1..Len(Dictionaries) /\ Len(Dictionaries) \in Nat
      BY IngestAssumption DEF IngestInv, IsTable
    <2>3. ChangeDictionary => dict' = dict + 1 /\ dict < Len(Dictionaries)
      BY DEF ChangeDictionary
    <2> QED
      BY <2>1, <2>2, <2>3
  <1>3. loaded' = loaded \/ \E u \in Users, f \in Uploads : Upload(u, f)
    BY DEF Next, vars, ChangeDictionary, StartParse, StartDeck, ReadGlosses, ExpandParse, ShowParse, CreateParseSession,
           CollectSentences, CreateDeck, SetDeckParseSession, FailRequest, DeleteDeck, DeleteUserParseSession,
           DeleteUserParseSessions, PurgeParseSessionSourceText
  <1>4. /\ DOMAIN loaded' = Users /\ \A u \in Users : loaded'[u] # Idle => IsTable(loaded'[u].text)
        /\ ImportedBookParses'
    <2>1. CASE loaded' = loaded
      BY <2>1 DEF IngestInv, ImportedBookParses
    <2>2. ASSUME NEW u \in Users, NEW f \in Uploads, Upload(u, f)
          PROVE  /\ DOMAIN loaded' = Users /\ \A v \in Users : loaded'[v] # Idle => IsTable(loaded'[v].text)
                 /\ ImportedBookParses'
      <3>1. PICK got : got = HandleImportExtract(f)
        OBVIOUS
      <3>2. PICK new : new = [stage |-> "loaded", text |-> got.text, chapters |-> got.chapters, truncated |-> got.truncated]
        OBVIOUS
      <3>3. new.text = got.text /\ new.chapters = got.chapters
        BY <3>2
      <3>4. loaded' = [loaded EXCEPT ![u] = new]
        BY <2>2, <3>1, <3>2 DEF Upload
      <3>5. /\ IsTable(new.text)
            /\ new.text # <<>> \/ new.chapters # <<>> => ValidInput([kind |-> "text", text |-> new.text])
            /\ new.chapters # <<>> => ValidInput([kind |-> "chapters", chapters |-> new.chapters])
        BY <3>1, <3>3, UploadReturns
      <3>6. DOMAIN loaded = Users
        BY DEF IngestInv
      <3>7. loaded' = [v \in Users |-> IF v = u THEN new ELSE loaded[v]]
        BY <3>4, <3>6
      <3>8. ASSUME NEW v \in Users, loaded'[v] # Idle
            PROVE  /\ IsTable(loaded'[v].text)
                   /\ loaded'[v].text # <<>> \/ loaded'[v].chapters # <<>> =>
                        ValidInput([kind |-> "text", text |-> loaded'[v].text])
                   /\ loaded'[v].chapters # <<>> =>
                        ValidInput([kind |-> "chapters", chapters |-> loaded'[v].chapters])
        <4>1. CASE v = u
          BY <3>5, <3>7, <4>1
        <4>2. CASE v # u
          <5>1. loaded'[v] = loaded[v]
            BY <3>7, <4>2
          <5> QED
            BY <3>8, <5>1 DEF IngestInv, ImportedBookParses
        <4> QED
          BY <4>1, <4>2
      <3>9. DOMAIN loaded' = Users
        BY <3>7
      <3> QED
        BY <3>8, <3>9 DEF ImportedBookParses
    <2> QED
      BY <1>3, <2>1, <2>2
  <1>5. RequestsMade' /\ DecksMade'
    <2>1. CASE UNCHANGED <<req, decks>>
      BY <1>1, <2>1 DEF RequestsMade, DecksMade, Filed
    <2>2. CASE ChangeDictionary \/ (\E u \in Users, f \in Uploads : Upload(u, f)) \/ UNCHANGED vars
               \/ (\E n \in DOMAIN sessions : PurgeParseSessionSourceText(n))
      <3>1. UNCHANGED <<req, decks>>
        BY <2>2 DEF ChangeDictionary, Upload, vars, PurgeParseSessionSourceText
      <3> QED
        BY <2>1, <3>1
    <2>3. ASSUME NEW r \in Requests, NEW c, NEW input, NEW p, StartParse(r, c, input, p)
          PROVE  RequestsMade' /\ DecksMade'
      <3>1. PICK q : q = [stage |-> "parse", client |-> c, input |-> input, parser |-> p, seen |-> dict,
                           glossed |-> 0, expanded |-> 0]
        OBVIOUS
      <3>2. q.stage = "parse"
        BY <3>1
      <3>3. req' = [req EXCEPT ![r] = q] /\ decks' = decks
        BY <2>3, <3>1 DEF StartParse
      <3>4. DecksMade'
        BY <1>1, <3>3 DEF DecksMade
      <3>5. RequestsMade'
        BY <1>1, <3>2, <3>3, OneRequest
      <3> QED
        BY <3>4, <3>5
    <2>4. ASSUME NEW r \in Requests, NEW u \in Users, NEW input \in Inputs(u), NEW s \in Selections, StartDeck(r, u, input, s)
          PROVE  RequestsMade' /\ DecksMade'
      <3>1. RequestsMade' /\ decks' = decks
        BY <2>4, DeckStarted
      <3> QED
        BY <1>1, <3>1 DEF DecksMade
    <2>5. ASSUME NEW r \in Requests,
                 \/ ReadGlosses(r) \/ ExpandParse(r) \/ ShowParse(r) \/ CreateParseSession(r) \/ CollectSentences(r)
                 \/ CreateDeck(r) \/ SetDeckParseSession(r) \/ FailRequest(r)
          PROVE  RequestsMade' /\ DecksMade'
      BY <2>5, RequestSteps
    <2>6. ASSUME NEW i \in DOMAIN decks, DeleteDeck(i) PROVE RequestsMade' /\ DecksMade'
      <3>1. DOMAIN decks' = DOMAIN decks /\ req' = req
        BY <2>6 DEF DeleteDeck
      <3>2. \A j \in DOMAIN decks : decks'[j] # Idle => decks'[j] = decks[j]
        BY <2>6 DEF DeleteDeck
      <3>3. RequestsMade'
        BY <1>1, <3>1 DEF RequestsMade, Filed
      <3> QED
        BY <1>1, <3>1, <3>2, <3>3, DecksKept
    <2>7. ASSUME NEW u \in Users,
                 DeleteUserParseSessions(u) \/ (\E i \in DOMAIN sessions : DeleteUserParseSession(u, i))
          PROVE  RequestsMade' /\ DecksMade'
      <3>1. req' = req /\ \E gone : Forget(gone)
        BY <2>7 DEF DeleteUserParseSessions, DeleteUserParseSession
      <3>2. DecksMade'
        BY <1>1, <3>1, ForgetLeavesDecks
      <3>3. RequestsMade'
        BY <1>1, <3>1 DEF RequestsMade, Filed
      <3> QED
        BY <3>2, <3>3
    <2> QED
      BY <2>2, <2>3, <2>4, <2>5, <2>6, <2>7 DEF Next
  <1> QED
    BY <1>2, <1>4, <1>5 DEF IngestInv, RequestsMade, DecksMade

(* Nothing is loaded and no deck made at the start.                        *)
LEMMA InitIngest == Init => IngestInv /\ ImportedBookParses
  <1> SUFFICES ASSUME Init PROVE IngestInv /\ ImportedBookParses
    OBVIOUS
  <1>1. dict \in DOMAIN Dictionaries
    BY IngestAssumption DEF Init, IsTable
  <1>2. DOMAIN loaded = Users /\ \A u \in Users : loaded[u] = Idle
    BY DEF Init
  <1>3. \A r \in Requests : req[r].stage = "idle"
    BY DEF Init, Idle
  <1>4. decks = <<>>
    BY DEF Init
  <1>5. IngestInv
    BY <1>1, <1>2, <1>3, <1>4 DEF IngestInv, Filed
  <1> QED
    BY <1>2, <1>5 DEF ImportedBookParses

(* Three invariants that each step needs together.                        *)
LEMMA IngestInvariance == Spec => [](SessionInv /\ IngestInv /\ ImportedBookParses)
  BY InitSession, InitIngest, StepSession, StepIngest, PTL DEF Spec

(* What the upload of a file returns can be parsed, as a text and by       *)
(* chapters, however long the file was.                                    *)
THEOREM ImportsParse == Spec => []ImportedBookParses
  BY IngestInvariance, PTL

(* A deck has a card for each word, the parser's pick, and beside it only  *)
(* senses the learner asked for and the dictionary offered; none twice.    *)
THEOREM SensesAreChosen == Spec => []OnlySelectedSensesAdded
  <1>1. IngestInv => OnlySelectedSensesAdded
    <2> SUFFICES ASSUME IngestInv, NEW d \in Saved, NEW x \in Range(Collected(d.request))
                 PROVE  LET q == d.request
                            readings == Dictionaries[q.offered].meanings
                            reading(form) == Token(form, Dictionaries[q.seen].pick.custom)
                            own(t) == t.key = Key(reading(t.form))
                        IN  /\ IsInjective(x.tokens)
                            /\ \A t \in Range(x.tokens) :
                                 \/ own(t)
                                 \/ /\ [surface |-> t.form, key |-> t.key] \in q.selected
                                    /\ t.form \in DOMAIN readings /\ t.key \in readings[t.form]
                            /\ \A i \in DOMAIN x.text :
                                 IsWord(reading(x.text[i])) => \E t \in Range(x.tokens) : t.ix = i /\ own(t)
      BY Zenon DEF OnlySelectedSensesAdded
    <2>1. MadeOfText(d.request)
      BY DEF IngestInv, Saved
    <2>2. PICK q : q = d.request
      OBVIOUS
    <2> QED
      BY <2>1, <2>2, CardsCollected, Zenon
  <1> QED
    BY <1>1, IngestInvariance, PTL

-----------------------------------------------------------------------------
(* Families that contain the same things equally often.                    *)

\* The part of f with values in T.
Those(f, T) == [a \in {x \in DOMAIN f : f[x] \in T} |-> f[a]]

\* Two families that contain the same things equally often.
Pairs(h, f, g) ==
    /\ h \in [DOMAIN f -> DOMAIN g]
    /\ \A a, b \in DOMAIN f : h[a] = h[b] => a = b
    /\ \A c \in DOMAIN g : \E a \in DOMAIN f : h[a] = c
    /\ \A a \in DOMAIN f : f[a] = g[h[a]]
Alike(f, g) == \E h : Pairs(h, f, g)

(* Everything is like itself. *)
LEMMA AlikeSelf == \A f : Alike(f, f)
  <1> TAKE f
  <1> DEFINE h == [a \in DOMAIN f |-> a]
  <1>1. Pairs(h, f, f)
    BY DEF Pairs
  <1> QED
    BY <1>1 DEF Alike

(* Alike holds both ways. *)
LEMMA AlikeBack ==
    ASSUME NEW f, NEW g, Alike(f, g)
    PROVE  Alike(g, f)
  <1>1. PICK h : Pairs(h, f, g)
    BY DEF Alike
  <1> DEFINE e == [c \in DOMAIN g |-> CHOOSE a \in DOMAIN f : h[a] = c]
  <1>2. \A c \in DOMAIN g : e[c] \in DOMAIN f /\ h[e[c]] = c
    BY <1>1 DEF Pairs
  <1>3. e \in [DOMAIN g -> DOMAIN f]
    BY <1>2
  <1> HIDE DEF e
  <1>4. \A a \in DOMAIN f : e[h[a]] = a
    BY <1>1, <1>2 DEF Pairs
  <1>5. Pairs(e, g, f)
    <2>1. \A c, d \in DOMAIN g : e[c] = e[d] => c = d
      BY <1>2
    <2>2. \A a \in DOMAIN f : \E c \in DOMAIN g : e[c] = a
      BY <1>1, <1>4 DEF Pairs
    <2>3. \A c \in DOMAIN g : g[c] = f[e[c]]
      BY <1>1, <1>2 DEF Pairs
    <2> QED
      BY <1>3, <2>1, <2>2, <2>3, Zenon DEF Pairs
  <1> QED
    BY <1>5 DEF Alike

(* And from one to the next. *)
LEMMA AlikeThen ==
    ASSUME NEW f, NEW g, NEW d, Alike(f, g), Alike(g, d)
    PROVE  Alike(f, d)
  <1>1. PICK h : Pairs(h, f, g)
    BY DEF Alike
  <1>2. PICK e : Pairs(e, g, d)
    BY DEF Alike
  <1> DEFINE j == [a \in DOMAIN f |-> e[h[a]]]
  <1>3. Pairs(j, f, d)
    <2>1. \A a \in DOMAIN f : j[a] = e[h[a]] /\ h[a] \in DOMAIN g /\ e[h[a]] \in DOMAIN d
      BY <1>1, <1>2 DEF Pairs
    <2>2. j \in [DOMAIN f -> DOMAIN d]
      BY <2>1
    <2> HIDE DEF j
    <2>3. \A a, b \in DOMAIN f : j[a] = j[b] => a = b
      BY <1>1, <1>2, <2>1 DEF Pairs
    <2>4. \A c \in DOMAIN d : \E a \in DOMAIN f : j[a] = c
      <3> TAKE c \in DOMAIN d
      <3>1. PICK b \in DOMAIN g : e[b] = c
        BY <1>2 DEF Pairs
      <3>2. PICK a \in DOMAIN f : h[a] = b
        BY <1>1 DEF Pairs
      <3> QED
        BY <2>1, <3>1, <3>2
    <2>5. \A a \in DOMAIN f : f[a] = d[j[a]]
      BY <1>1, <1>2, <2>1 DEF Pairs
    <2> QED
      BY <2>2, <2>3, <2>4, <2>5, Zenon DEF Pairs
  <1> QED
    BY <1>3 DEF Alike

(* What is alike is alike in part. *)
LEMMA AlikeThose ==
    ASSUME NEW f, NEW g, Alike(f, g), NEW T
    PROVE  Alike(Those(f, T), Those(g, T))
  <1>1. PICK h : Pairs(h, f, g)
    BY DEF Alike
  <1> DEFINE A == {x \in DOMAIN f : f[x] \in T}
             B == {x \in DOMAIN g : g[x] \in T}
             F == Those(f, T)
             G == Those(g, T)
             e == [a \in A |-> h[a]]
  <1>2. DOMAIN F = A /\ DOMAIN G = B /\ (\A a \in A : F[a] = f[a]) /\ \A b \in B : G[b] = g[b]
    BY DEF Those
  <1>3. \A a \in A : e[a] = h[a] /\ h[a] \in B
    BY <1>1 DEF Pairs
  <1>4. e \in [A -> B]
    BY <1>3
  <1> HIDE DEF e
  <1>5. \A a, b \in A : e[a] = e[b] => a = b
    BY <1>1, <1>3 DEF Pairs
  <1>6. \A c \in B : \E a \in A : e[a] = c
    <2> TAKE c \in B
    <2>1. PICK a \in DOMAIN f : h[a] = c
      BY <1>1 DEF Pairs
    <2>2. f[a] = g[c]
      BY <1>1, <2>1 DEF Pairs
    <2> QED
      BY <1>3, <2>1, <2>2
  <1>7. \A a \in A : f[a] = g[e[a]]
    BY <1>1, <1>3 DEF Pairs
  <1> HIDE DEF F, G, A, B
  <1>8. Pairs(e, F, G)
    <2>1. \A a \in A : F[a] = G[e[a]]
      BY <1>2, <1>4, <1>7
    <2> QED
      BY <1>2, <1>4, <1>5, <1>6, <2>1, Zenon DEF Pairs
  <1> QED
    BY <1>8 DEF Alike, F, G

(* What is alike is equally much. *)
LEMMA AlikeSize ==
    ASSUME NEW f, NEW g, Alike(f, g), IsFiniteSet(DOMAIN f)
    PROVE  IsFiniteSet(DOMAIN g) /\ Cardinality(DOMAIN g) = Cardinality(DOMAIN f)
  <1>1. PICK h : Pairs(h, f, g)
    BY DEF Alike
  <1>2. h \in Bijection(DOMAIN f, DOMAIN g)
    BY <1>1 DEF Pairs, Bijection, Injection, Surjection, IsInjective
  <1>3. ExistsBijection(DOMAIN f, DOMAIN g)
    BY <1>2 DEF ExistsBijection
  <1> QED
    BY <1>3, FS_Bijection, Zenon

(* The entries of lists are at the places in them. *)
LEMMA EntriesOf ==
    ASSUME NEW F
    PROVE  /\ \A p : p \in DOMAIN Entries(F) <=> \E k \in DOMAIN F : \E i \in DOMAIN F[k] : p = <<k, i>>
           /\ \A p \in DOMAIN Entries(F) : Entries(F)[p] = F[p[1]][p[2]]
  BY DEF Entries

(* Alike families of lists have alike entries. *)
LEMMA AlikeRows ==
    ASSUME NEW F, NEW G, Alike(F, G)
    PROVE  Alike(Entries(F), Entries(G))
  <1>1. PICK h : Pairs(h, F, G)
    BY DEF Alike
  <1> DEFINE A == DOMAIN Entries(F)
             B == DOMAIN Entries(G)
             e == [p \in A |-> <<h[p[1]], p[2]>>]
  <1>2. \A p : p \in A <=> \E k \in DOMAIN F : \E i \in DOMAIN F[k] : p = <<k, i>>
    BY DEF Entries
  <1>3. \A p : p \in B <=> \E k \in DOMAIN G : \E i \in DOMAIN G[k] : p = <<k, i>>
    BY DEF Entries
  <1>4. (\A p \in A : Entries(F)[p] = F[p[1]][p[2]]) /\ \A p \in B : Entries(G)[p] = G[p[1]][p[2]]
    BY DEF Entries
  <1> HIDE DEF A, B
  <1>5. \A p \in A : e[p] = <<h[p[1]], p[2]>> /\ e[p] \in B /\ p = <<p[1], p[2]>> /\ p[1] \in DOMAIN F
    BY <1>1, <1>2, <1>3 DEF Pairs
  <1>6. e \in [A -> B]
    BY <1>5
  <1> HIDE DEF e
  <1>7. \A p, q \in A : e[p] = e[q] => p = q
    <2> SUFFICES ASSUME NEW p \in A, NEW q \in A, e[p] = e[q] PROVE p = q
      OBVIOUS
    <2>1. h[p[1]] = h[q[1]] /\ p[2] = q[2]
      BY <1>5
    <2>2. p[1] = q[1]
      BY <1>1, <1>5, <2>1 DEF Pairs
    <2> QED
      BY <1>5, <2>1, <2>2
  <1>8. \A c \in B : \E p \in A : e[p] = c
    <2> TAKE c \in B
    <2>0. PICK k \in DOMAIN G : \E i \in DOMAIN G[k] : c = <<k, i>>
      BY <1>3
    <2>1. PICK i \in DOMAIN G[k] : c = <<k, i>>
      BY <2>0
    <2>2. PICK l \in DOMAIN F : h[l] = k
      BY <1>1 DEF Pairs
    <2>3. F[l] = G[k]
      BY <1>1, <2>2 DEF Pairs
    <2>4. <<l, i>> \in A
      BY <1>2, <2>1, <2>3
    <2>5. e[<<l, i>>] = c
      BY <1>5, <2>1, <2>2, <2>4
    <2> QED
      BY <2>4, <2>5
  <1>9. \A p \in A : Entries(F)[p] = Entries(G)[e[p]]
    <2> TAKE p \in A
    <2>1. e[p] \in B /\ e[p][1] = h[p[1]] /\ e[p][2] = p[2]
      BY <1>5
    <2>2. F[p[1]] = G[h[p[1]]]
      BY <1>1, <1>5 DEF Pairs
    <2> QED
      BY <1>4, <2>1, <2>2
  <1>10. Pairs(e, Entries(F), Entries(G))
    BY <1>6, <1>7, <1>8, <1>9, Zenon DEF Pairs, A, B
  <1> QED
    BY <1>10 DEF Alike

(* So have families of alike lists. *)
LEMMA AlikeFamilies ==
    ASSUME NEW F, NEW G, DOMAIN F = DOMAIN G, \A k \in DOMAIN F : Alike(F[k], G[k])
    PROVE  Alike(Entries(F), Entries(G))
  <1> DEFINE K == DOMAIN F
             A == DOMAIN Entries(F)
             B == DOMAIN Entries(G)
             h == [k \in K |-> CHOOSE x : Pairs(x, F[k], G[k])]
             e == [p \in A |-> <<p[1], h[p[1]][p[2]]>>]
  <1>1. \A k \in K : Pairs(h[k], F[k], G[k])
    BY Zenon DEF Alike
  <1> HIDE DEF h
  <1>2. \A p : p \in A <=> \E k \in K : \E i \in DOMAIN F[k] : p = <<k, i>>
    BY DEF Entries
  <1>3. \A p : p \in B <=> \E k \in K : \E i \in DOMAIN G[k] : p = <<k, i>>
    BY DEF Entries
  <1>4. (\A p \in A : Entries(F)[p] = F[p[1]][p[2]]) /\ \A p \in B : Entries(G)[p] = G[p[1]][p[2]]
    BY DEF Entries
  <1> HIDE DEF A, B, K
  <1>5. \A p \in A : /\ p = <<p[1], p[2]>> /\ p[1] \in K /\ p[2] \in DOMAIN F[p[1]]
                     /\ h[p[1]][p[2]] \in DOMAIN G[p[1]]
                     /\ F[p[1]][p[2]] = G[p[1]][h[p[1]][p[2]]]
    BY <1>1, <1>2 DEF Pairs
  <1>6. \A p \in A : e[p] = <<p[1], h[p[1]][p[2]]>> /\ e[p] \in B
    BY <1>3, <1>5
  <1>7. e \in [A -> B]
    BY <1>6
  <1> HIDE DEF e
  <1>8. \A p, q \in A : e[p] = e[q] => p = q
    <2> SUFFICES ASSUME NEW p \in A, NEW q \in A, e[p] = e[q] PROVE p = q
      OBVIOUS
    <2>1. p[1] = q[1] /\ h[p[1]][p[2]] = h[p[1]][q[2]]
      BY <1>6
    <2>2. p[2] = q[2]
      BY <1>1, <1>5, <2>1 DEF Pairs
    <2> QED
      BY <1>5, <2>1, <2>2
  <1>9. \A c \in B : \E p \in A : e[p] = c
    <2> TAKE c \in B
    <2>1. PICK k \in K : \E i \in DOMAIN G[k] : c = <<k, i>>
      BY <1>3
    <2>2. PICK i \in DOMAIN G[k] : c = <<k, i>>
      BY <2>1
    <2>3. PICK l \in DOMAIN F[k] : h[k][l] = i
      BY <1>1, <2>2 DEF Pairs
    <2>4. <<k, l>> \in A
      BY <1>2
    <2> QED
      BY <1>6, <2>2, <2>3, <2>4
  <1>10. \A p \in A : Entries(F)[p] = Entries(G)[e[p]]
    BY <1>4, <1>5, <1>6
  <1>11. Pairs(e, Entries(F), Entries(G))
    BY <1>7, <1>8, <1>9, <1>10, Zenon DEF Pairs, A, B
  <1> QED
    BY <1>11 DEF Alike

(* The entries of the entries are the entries of the lists put together. *)
LEMMA AlikeNested ==
    ASSUME NEW P
    PROVE  Alike(Entries(Entries(P)), Entries([c \in DOMAIN P |-> Entries(P[c])]))
  <1> DEFINE Q == [c \in DOMAIN P |-> Entries(P[c])]
             A == DOMAIN Entries(Entries(P))
             B == DOMAIN Entries(Q)
             e == [p \in A |-> <<p[1][1], <<p[1][2], p[2]>>>>]
  <1>0. /\ \A x : x \in DOMAIN Entries(P) <=> \E c \in DOMAIN P : \E k \in DOMAIN P[c] : x = <<c, k>>
        /\ \A x \in DOMAIN Entries(P) : Entries(P)[x] = P[x[1]][x[2]]
        /\ \A p : p \in A <=> \E x \in DOMAIN Entries(P) : \E i \in DOMAIN Entries(P)[x] : p = <<x, i>>
        /\ \A p \in A : Entries(Entries(P))[p] = Entries(P)[p[1]][p[2]]
    <2>1. \A F : /\ \A p : p \in DOMAIN Entries(F) <=> \E k \in DOMAIN F : \E i \in DOMAIN F[k] : p = <<k, i>>
                 /\ \A p \in DOMAIN Entries(F) : Entries(F)[p] = F[p[1]][p[2]]
      BY EntriesOf
    <2> QED
      BY <2>1, Zenon
  <1>1. \A p : p \in A <=> \E c \in DOMAIN P : \E k \in DOMAIN P[c] : \E i \in DOMAIN P[c][k] : p = <<<<c, k>>, i>>
    <2> HIDE DEF A
    <2>1. \A c \in DOMAIN P : \A k \in DOMAIN P[c] : <<c, k>> \in DOMAIN Entries(P) /\ Entries(P)[<<c, k>>] = P[c][k]
      BY <1>0
    <2>2. ASSUME NEW p \in A
          PROVE  \E c \in DOMAIN P : \E k \in DOMAIN P[c] : \E i \in DOMAIN P[c][k] : p = <<<<c, k>>, i>>
      BY <1>0, <2>1
    <2>3. ASSUME NEW c \in DOMAIN P, NEW k \in DOMAIN P[c], NEW i \in DOMAIN P[c][k]
          PROVE  <<<<c, k>>, i>> \in A
      BY <1>0, <2>1
    <2> QED
      BY <2>2, <2>3
  <1>2. \A p : p \in B <=> \E c \in DOMAIN P : \E k \in DOMAIN P[c] : \E i \in DOMAIN P[c][k] : p = <<c, <<k, i>>>>
    BY DEF Entries
  <1>3. \A p \in A : Entries(Entries(P))[p] = P[p[1][1]][p[1][2]][p[2]]
    <2> HIDE DEF A
    <2>1. \A p \in A : p[1] \in DOMAIN Entries(P)
      BY <1>0
    <2> QED
      BY <1>0, <2>1
  <1>4. \A p \in B : Entries(Q)[p] = P[p[1]][p[2][1]][p[2][2]]
    <2>1. ASSUME NEW p \in B
          PROVE  p[1] \in DOMAIN P /\ p[2] \in DOMAIN Entries(P[p[1]]) /\ Entries(Q)[p] = Entries(P[p[1]])[p[2]]
      <3>1. Entries(Q)[p] = Q[p[1]][p[2]]
        BY <2>1, EntriesOf, Zenon
      <3>2. PICK c \in DOMAIN P : \E k \in DOMAIN P[c] : \E i \in DOMAIN P[c][k] : p = <<c, <<k, i>>>>
        BY <1>2, <2>1
      <3>3. p[1] = c /\ \E k \in DOMAIN P[c] : \E i \in DOMAIN P[c][k] : p[2] = <<k, i>>
        BY <3>2
      <3>4. \A F : \A p2 : p2 \in DOMAIN Entries(F) <=> \E k \in DOMAIN F : \E i \in DOMAIN F[k] : p2 = <<k, i>>
        BY EntriesOf, Zenon
      <3>5. p[2] \in DOMAIN Entries(P[c])
        BY <3>3, <3>4
      <3>6. Q[c] = Entries(P[c])
        OBVIOUS
      <3> QED
        BY <3>1, <3>3, <3>5, <3>6
    <2>2. \A F : \A p \in DOMAIN Entries(F) : Entries(F)[p] = F[p[1]][p[2]]
      BY EntriesOf, Zenon
    <2> HIDE DEF B, Q
    <2> QED
      BY <2>1, <2>2
  <1> HIDE DEF A, B, Q
  <1>5. \A p \in A : e[p] = <<p[1][1], <<p[1][2], p[2]>>>> /\ e[p] \in B /\ p = <<<<p[1][1], p[1][2]>>, p[2]>>
    BY <1>1, <1>2
  <1>6. e \in [A -> B]
    BY <1>5
  <1> HIDE DEF e
  <1>7. \A p, q \in A : e[p] = e[q] => p = q
    BY <1>5
  <1>8. \A c \in B : \E p \in A : e[p] = c
    <2> TAKE x \in B
    <2>1. PICK c \in DOMAIN P : \E k \in DOMAIN P[c] : \E i \in DOMAIN P[c][k] : x = <<c, <<k, i>>>>
      BY <1>2
    <2>2. PICK k \in DOMAIN P[c] : \E i \in DOMAIN P[c][k] : x = <<c, <<k, i>>>>
      BY <2>1
    <2>3. PICK i \in DOMAIN P[c][k] : x = <<c, <<k, i>>>>
      BY <2>2
    <2>4. <<<<c, k>>, i>> \in A
      BY <1>1
    <2>5. e[<<<<c, k>>, i>>] = x
      BY <1>5, <2>3, <2>4
    <2> QED
      BY <2>4, <2>5
  <1>9. \A p \in A : Entries(Entries(P))[p] = Entries(Q)[e[p]]
    BY <1>3, <1>4, <1>5
  <1>10. Pairs(e, Entries(Entries(P)), Entries(Q))
    BY <1>6, <1>7, <1>8, <1>9, Zenon DEF Pairs, A, B
  <1> QED
    BY <1>10 DEF Alike, Q

(* What is taken at some positions is what is there. *)
LEMMA TakenAlike ==
    ASSUME NEW n \in Nat, NEW at \in SUBSET (1..n), NEW seq
    PROVE  Alike(Taken(seq, at), [i \in at |-> seq[i]])
  <1> DEFINE m == Cardinality(at)
  <1>1. PICK e \in [1..m -> at] :
           /\ \A i \in at : \E k \in 1..m : e[k] = i
           /\ \A k, l \in 1..m : e[k] = e[l] => k = l
           /\ \A s : Taken(s, at) = [k \in 1..m |-> s[e[k]]]
    BY TakenPlaces, ZenonT(60)
  <1> HIDE DEF m
  <1>2. Taken(seq, at) = [k \in 1..m |-> seq[e[k]]]
    BY <1>1, Zenon
  <1>3. Pairs(e, Taken(seq, at), [i \in at |-> seq[i]])
    BY <1>1, <1>2 DEF Pairs
  <1> QED
    BY <1>3 DEF Alike

(* The sizes of disjoint sets add up to that of their union. *)
LEMMA SumOfSizes ==
    ASSUME NEW P, NEW counts, DOMAIN counts = DOMAIN P,
           \A k \in DOMAIN P : IsFiniteSet(P[k]) /\ counts[k] = Cardinality(P[k]),
           NEW U, IsFiniteSet(U), U = UNION {P[k] : k \in DOMAIN P},
           \A k, l \in DOMAIN P : k # l => P[k] \cap P[l] = {}
    PROVE  SumOf(counts) = Cardinality(U)
  <1> DEFINE F == [k \in DOMAIN P |-> [n \in 1..counts[k] |-> 0]]
             G == [k \in DOMAIN P |-> [x \in P[k] |-> 0]]
             H == [x \in U |-> 0]
             A == DOMAIN Entries(G)
  <1>1. ASSUME NEW k \in DOMAIN P PROVE Alike(F[k], G[k])
    <2>1. counts[k] = Cardinality(P[k]) /\ IsFiniteSet(P[k])
      OBVIOUS
    <2>2. ExistsBijection(1..counts[k], P[k])
      BY <2>1, FS_CardinalityType
    <2>3. PICK h \in Bijection(1..counts[k], P[k]) : TRUE
      BY <2>2 DEF ExistsBijection
    <2>4. Pairs(h, [n \in 1..counts[k] |-> 0], [x \in P[k] |-> 0])
      BY <2>3 DEF Pairs, Bijection, Injection, Surjection, IsInjective
    <2> QED
      BY <2>4 DEF Alike
  <1>2. Alike(Entries(F), Entries(G))
    <2>1. DOMAIN F = DOMAIN P /\ DOMAIN G = DOMAIN P
      OBVIOUS
    <2> HIDE DEF F, G
    <2> QED
      BY <1>1, <2>1, AlikeFamilies
  <1>3. \A p : p \in A <=> \E k \in DOMAIN P : \E x \in P[k] : p = <<k, x>>
    BY DEF Entries
  <1>4. \A p \in A : Entries(G)[p] = 0
    BY DEF Entries
  <1>5. DOMAIN Entries(F) = UNION {{<<k, n>> : n \in 1..counts[k]} : k \in DOMAIN counts}
    BY DEF Entries
  <1> DEFINE e == [p \in A |-> p[2]]
  <1>6. Pairs(e, Entries(G), H)
    <2> HIDE DEF G
    <2>1. \A p \in A : e[p] \in U
      BY <1>3
    <2>2. \A p, q \in A : e[p] = e[q] => p = q
      <3> HIDE DEF A
      <3> SUFFICES ASSUME NEW p \in A, NEW q \in A, p[2] = q[2] PROVE p = q
        OBVIOUS
      <3>1. PICK k \in DOMAIN P : \E x \in P[k] : p = <<k, x>>
        BY <1>3
      <3>2. PICK l \in DOMAIN P : \E x \in P[l] : q = <<l, x>>
        BY <1>3
      <3>3. p[1] = k /\ q[1] = l /\ p[2] \in P[k] /\ q[2] \in P[l] /\ p = <<k, p[2]>> /\ q = <<l, q[2]>>
        BY <3>1, <3>2
      <3>4. k = l
        BY <3>3
      <3> QED
        BY <3>3, <3>4
    <2>3. \A c \in U : \E p \in A : e[p] = c
      <3> TAKE c \in U
      <3>1. PICK k \in DOMAIN P : c \in P[k]
        OBVIOUS
      <3>2. <<k, c>> \in A
        BY <1>3, <3>1
      <3> HIDE DEF A
      <3> QED
        BY <3>2
    <2>4. e \in [A -> U]
      BY <2>1
    <2>5. \A p \in A : Entries(G)[p] = H[e[p]]
      BY <1>4, <2>1
    <2> HIDE DEF A, H, e
    <2>6. DOMAIN H = U
      BY DEF H
    <2> QED
      BY <2>2, <2>3, <2>4, <2>5, <2>6, Zenon DEF Pairs, A
  <1>7. Alike(H, Entries(F))
    <2> HIDE DEF F, G, H, e
    <2>1. Alike(Entries(G), H)
      BY <1>6 DEF Alike
    <2> QED
      BY <1>2, <2>1, AlikeThen, AlikeBack
  <1>8. DOMAIN H = U
    OBVIOUS
  <1> HIDE DEF F, G, H
  <1> QED
    BY <1>5, <1>7, <1>8, AlikeSize DEF SumOf

(* The same things in the same places. *)
LEMMA AlikeEntries ==
    ASSUME NEW F, NEW G, DOMAIN F = DOMAIN G, \A k \in DOMAIN F : F[k] = G[k]
    PROVE  Alike(F, G) /\ Alike(Entries(F), Entries(G))
  <1>1. \A k \in DOMAIN F : Alike(F[k], G[k])
    BY AlikeSelf
  <1>2. Alike(Entries(F), Entries(G))
    BY <1>1, AlikeFamilies
  <1> DEFINE h == [k \in DOMAIN F |-> k]
  <1>3. Pairs(h, F, G)
    BY DEF Pairs
  <1> QED
    BY <1>2, <1>3 DEF Alike

(* One list more, after the others. *)
LEMMA OneMoreAlike ==
    ASSUME NEW S, NEW s \in Seq(S), NEW t \in Seq(S), NEW m \in Nat, NEW seqs, DOMAIN seqs = 1..m,
           Alike(s, Entries(seqs)), NEW more, DOMAIN more = 1..(m + 1),
           \A i \in 1..m : more[i] = seqs[i], more[m + 1] = t
    PROVE  Alike(s \o t, Entries(more))
  <1> DEFINE u == s \o t
             A == DOMAIN Entries(seqs)
             B == DOMAIN Entries(more)
  <1>1. PICK h : Pairs(h, s, Entries(seqs))
    BY DEF Alike
  <1>2. /\ Len(s) \in Nat /\ Len(t) \in Nat /\ DOMAIN s = 1..Len(s) /\ DOMAIN t = 1..Len(t)
        /\ DOMAIN u = 1..(Len(s) + Len(t))
        /\ \A j \in 1..Len(s) : u[j] = s[j]
        /\ \A j \in 1..Len(t) : u[Len(s) + j] = t[j]
    <2>1. u \in Seq(S) /\ Len(u) = Len(s) + Len(t)
      OBVIOUS
    <2>2. Len(s) \in Nat /\ Len(t) \in Nat /\ DOMAIN s = 1..Len(s) /\ DOMAIN t = 1..Len(t) /\ DOMAIN u = 1..Len(u)
      BY <2>1, LenProperties
    <2> QED
      BY <2>1, <2>2
  <1> HIDE DEF u
  <1> DEFINE a == Len(s)
             e == [j \in DOMAIN u |-> IF j <= a THEN h[j] ELSE <<m + 1, j - a>>]
  <1>3. /\ \A p : p \in A <=> \E k \in 1..m : \E i \in DOMAIN seqs[k] : p = <<k, i>>
        /\ \A p \in A : Entries(seqs)[p] = seqs[p[1]][p[2]]
    BY EntriesOf
  <1>4. /\ \A p : p \in B <=> \E k \in 1..(m + 1) : \E i \in DOMAIN more[k] : p = <<k, i>>
        /\ \A p \in B : Entries(more)[p] = more[p[1]][p[2]]
    BY EntriesOf
  <1>5. \A j \in 1..a : /\ h[j] \in A /\ s[j] = Entries(seqs)[h[j]]
                       /\ \A l \in 1..a : h[j] = h[l] => j = l
    BY <1>1, <1>2 DEF Pairs
  <1>6. \A p \in A : \E j \in 1..a : h[j] = p
    BY <1>1, <1>2 DEF Pairs
  <1> HIDE DEF A, B
  <1>7. \A p \in A : p \in B /\ p[1] \in 1..m /\ Entries(more)[p] = Entries(seqs)[p]
    BY <1>3, <1>4
  <1>8. \A i \in DOMAIN t : <<m + 1, i>> \in B /\ Entries(more)[<<m + 1, i>>] = t[i]
    BY <1>4
  <1>9. \A j \in DOMAIN u : \/ j \in 1..a /\ e[j] = h[j] /\ u[j] = s[j]
                           \/ /\ j - a \in DOMAIN t /\ e[j] = <<m + 1, j - a>> /\ u[j] = t[j - a] /\ j \in Int
                              /\ j = a + (j - a)
    <2> TAKE j \in DOMAIN u
    <2>1. j \in 1..(a + Len(t)) /\ a \in Nat
      BY <1>2
    <2>2. CASE j <= a
      BY <1>2, <2>1, <2>2
    <2>3. CASE ~(j <= a)
      <3>1. j - a \in DOMAIN t /\ j = a + (j - a) /\ j \in Int
        BY <1>2, <2>1, <2>3
      <3> QED
        BY <1>2, <2>3, <3>1
    <2> QED
      BY <2>2, <2>3
  <1>10. \A j \in DOMAIN u : e[j] \in B /\ u[j] = Entries(more)[e[j]]
    <2> TAKE j \in DOMAIN u
    <2>1. CASE j \in 1..a /\ e[j] = h[j] /\ u[j] = s[j]
      <3>1. h[j] \in A /\ s[j] = Entries(seqs)[h[j]]
        BY <1>5, <2>1
      <3>2. h[j] \in B /\ Entries(more)[h[j]] = Entries(seqs)[h[j]]
        BY <1>7, <3>1
      <3> QED
        BY <2>1, <3>1, <3>2
    <2>2. CASE j - a \in DOMAIN t /\ e[j] = <<m + 1, j - a>> /\ u[j] = t[j - a]
      BY <1>8, <2>2
    <2> QED
      BY <1>9, <2>1, <2>2
  <1>11. e \in [DOMAIN u -> B]
    BY <1>10
  <1> HIDE DEF e
  <1>12. \A j, l \in DOMAIN u : e[j] = e[l] => j = l
    <2> SUFFICES ASSUME NEW j \in DOMAIN u, NEW l \in DOMAIN u, e[j] = e[l] PROVE j = l
      OBVIOUS
    <2> HIDE DEF a
    <2>1. CASE j \in 1..a /\ e[j] = h[j] /\ l \in 1..a /\ e[l] = h[l]
      BY <1>5, <2>1, SMTT(20), ZenonT(60)
    <2>2. ASSUME NEW x \in 1..a, e[x] = h[x] PROVE ~\E y : e[x] = <<m + 1, y>>
      <3>1. e[x] \in A
        BY <1>5, <2>2
      <3>2. e[x][1] \in 1..m
        BY <1>7, <3>1
      <3> QED
        BY <3>2
    <2>3. CASE e[j] = <<m + 1, j - a>> /\ e[l] = <<m + 1, l - a>> /\ j = a + (j - a) /\ l = a + (l - a)
      <3>1. ASSUME NEW x, NEW y, <<m + 1, x>> = <<m + 1, y>> PROVE x = y
        BY <3>1
      <3>2. j - a = l - a
        BY <2>3, <3>1, Zenon
      <3> QED
        BY <2>3, <3>2
    <2> QED
      BY <1>9, <2>1, <2>2, <2>3
  <1>13. \A p \in B : \E j \in DOMAIN u : e[j] = p
    <2> TAKE p \in B
    <2>1. PICK k \in 1..(m + 1) : \E i \in DOMAIN more[k] : p = <<k, i>>
      BY <1>4
    <2>2. CASE k \in 1..m
      <3>1. p \in A
        BY <1>3, <2>1, <2>2
      <3>2. PICK j \in 1..a : h[j] = p
        BY <1>6, <3>1
      <3>3. j \in DOMAIN u /\ ~(j - a \in DOMAIN t)
        BY <1>2
      <3> QED
        BY <1>9, <3>2, <3>3
    <2>3. CASE k = m + 1
      <3>1. PICK i \in DOMAIN t : p = <<m + 1, i>>
        BY <2>1, <2>3
      <3>2. a + i \in DOMAIN u /\ ~(a + i \in 1..a) /\ (a + i) - a = i
        BY <1>2
      <3> QED
        BY <1>9, <3>1, <3>2
    <2> QED
      BY <2>2, <2>3
  <1>14. Pairs(e, u, Entries(more))
    BY <1>10, <1>11, <1>12, <1>13, Zenon DEF Pairs, B
  <1> QED
    BY <1>14 DEF Alike, u

(* Lists put one after another contain their entries. *)
LEMMA FlattenAlike ==
    ASSUME NEW S, NEW n \in Nat \ {0}, NEW seqs \in [1..n -> Seq(S)]
    PROVE  FlattenSeq(seqs) \in Seq(S) /\ Alike(FlattenSeq(seqs), Entries(seqs))
  <1>1. PICK f : Joins(f, n, S, seqs) /\ FlattenSeq(seqs) = f[n]
    BY Flattened
  <1> DEFINE to(m) == [i \in 1..m |-> seqs[i]]
             T == {m \in Nat : m + 1 \in 1..n => Alike(f[m + 1], Entries(to(m + 1)))}
  <1>2. 0 \in T
    <2> DEFINE s == seqs[1]
    <2>1. s \in Seq(S) /\ f[1] = s
      BY <1>1 DEF Joins
    <2>2. DOMAIN to(1) = {1} /\ to(1)[1] = s
      OBVIOUS
    <2> HIDE DEF to, s
    <2> DEFINE h == [i \in DOMAIN s |-> <<1, i>>]
    <2>3. /\ \A p : p \in DOMAIN Entries(to(1)) <=> \E i \in DOMAIN s : p = <<1, i>>
          /\ \A p \in DOMAIN Entries(to(1)) : Entries(to(1))[p] = to(1)[p[1]][p[2]]
      BY <2>2, EntriesOf
    <2>4. Pairs(h, s, Entries(to(1)))
      BY <2>2, <2>3 DEF Pairs
    <2>5. Alike(f[0 + 1], Entries(to(0 + 1)))
      BY <2>1, <2>4 DEF Alike
    <2> QED
      BY <2>5
  <1>3. ASSUME NEW m \in Nat, m \in T PROVE m + 1 \in T
    <2> SUFFICES ASSUME (m + 1) + 1 \in 1..n
                 PROVE  Alike(f[(m + 1) + 1], Entries(to((m + 1) + 1)))
      OBVIOUS
    <2> DEFINE k == m + 1
    <2>1. k \in Nat /\ k \in 1..n /\ k + 1 \in 1..n /\ k + 1 # 1 /\ (k + 1) - 1 = k
      OBVIOUS
    <2>2. Alike(f[k], Entries(to(k)))
      BY <1>3, <2>1
    <2>3. f[k] \in Seq(S) /\ f[k + 1] = f[k] \o seqs[k + 1] /\ seqs[k + 1] \in Seq(S)
      BY <1>1, <2>1 DEF Joins
    <2>4. /\ DOMAIN to(k) = 1..k /\ DOMAIN to(k + 1) = 1..(k + 1)
          /\ \A i \in 1..k : to(k + 1)[i] = to(k)[i]
          /\ to(k + 1)[k + 1] = seqs[k + 1]
      BY <2>1
    <2> HIDE DEF to, k
    <2>5. Alike(f[k] \o seqs[k + 1], Entries(to(k + 1)))
      BY <2>1, <2>2, <2>3, <2>4, OneMoreAlike
    <2> QED
      BY <2>3, <2>5 DEF k
  <1>4. n - 1 \in T
    <2> HIDE DEF T
    <2>1. n - 1 \in Nat
      OBVIOUS
    <2> QED
      BY <1>2, <1>3, <2>1, InductionOnSet
  <1>5. to(n) = seqs
    OBVIOUS
  <1>6. n - 1 + 1 = n /\ n \in 1..n
    OBVIOUS
  <1> HIDE DEF to
  <1>7. Alike(f[n], Entries(seqs))
    BY <1>4, <1>5, <1>6
  <1>8. f[n] \in Seq(S)
    BY <1>1, <1>6 DEF Joins
  <1> QED
    BY <1>1, <1>7, <1>8

-----------------------------------------------------------------------------
(* What is written in a text or a book is in its sentences.                *)

(* Families whose entries are finitely many. *)
LEMMA EntriesFinite ==
    ASSUME NEW F, IsFiniteSet(DOMAIN F), \A k \in DOMAIN F : IsFiniteSet(DOMAIN F[k])
    PROVE  IsFiniteSet(DOMAIN Entries(F))
  <1> DEFINE K == DOMAIN F
             row(k) == {<<k, i>> : i \in DOMAIN F[k]}
             rows == [k \in K |-> row(k)]
  <1>1. \A k \in K : IsFiniteSet(row(k))
    <2> TAKE k \in K
    <2> DEFINE I == DOMAIN F[k]  f == [i \in I |-> <<k, i>>]
    <2>1. IsFiniteSet(I) /\ DOMAIN f = I
      OBVIOUS
    <2>2. row(k) = {f[i] : i \in I}
      OBVIOUS
    <2> HIDE DEF f, I, row
    <2> QED
      BY <2>1, <2>2, ImageIsFinite
  <1> HIDE DEF row
  <1>2. IsFiniteSet({rows[k] : k \in K})
    <2>1. IsFiniteSet(K) /\ DOMAIN rows = K
      OBVIOUS
    <2> HIDE DEF rows, K
    <2> QED
      BY <2>1, ImageIsFinite
  <1>3. {rows[k] : k \in K} = {row(k) : k \in K}
    OBVIOUS
  <1> DEFINE R == {row(k) : k \in K}
  <1>4. IsFiniteSet(R) /\ \A r \in R : IsFiniteSet(r)
    BY <1>1, <1>2, <1>3
  <1> HIDE DEF R
  <1>5. IsFiniteSet(UNION R)
    BY <1>4, FS_UNION
  <1>6. DOMAIN Entries(F) = UNION R
    BY DEF Entries, R, row
  <1> QED
    BY <1>5, <1>6

\* The text of each sentence.
TextsOf(sentences) == [k \in DOMAIN sentences |-> sentences[k].text]

(* The places of a text are finitely many. *)
LEMMA InkFinite ==
    ASSUME NEW text, IsTable(text)
    PROVE  IsFiniteSet(DOMAIN Ink(text))
  <1>1. Len(text) \in Nat /\ DOMAIN text = 1..Len(text)
    BY DEF IsTable
  <1>2. IsFiniteSet(1..Len(text))
    BY <1>1, FS_Interval
  <1>3. DOMAIN Ink(text) \in SUBSET (1..Len(text))
    BY <1>1 DEF Ink
  <1> QED
    BY <1>2, <1>3, FS_Subset

(* So are those of an input. *)
LEMMA InputFinite ==
    ASSUME NEW input, WellFormed(input)
    PROVE  IsFiniteSet(DOMAIN InkOf(input))
  <1>1. CASE IsText(input)
    BY <1>1, InkFinite DEF InkOf, WellFormed
  <1>2. CASE ~IsText(input)
    <2> DEFINE F == [i \in DOMAIN input.chapters |-> Ink(input.chapters[i])]
    <2>1. IsTable(input.chapters) /\ \A i \in DOMAIN input.chapters : IsTable(input.chapters[i])
      BY <1>2 DEF WellFormed
    <2>2. \A i \in DOMAIN F : IsFiniteSet(DOMAIN F[i])
      BY <2>1, InkFinite
    <2>3. IsFiniteSet(DOMAIN F)
      <3>1. PICK c : c = input.chapters
        OBVIOUS
      <3>2. Len(c) \in Nat /\ DOMAIN c = 1..Len(c)
        BY <2>1, <3>1 DEF IsTable
      <3>3. IsFiniteSet(1..Len(c))
        BY <3>2, FS_Interval
      <3> QED
        BY <3>1, <3>2, <3>3
    <2>4. InkOf(input) = Entries(F)
      BY <1>2 DEF InkOf
    <2> HIDE DEF F
    <2> QED
      BY <2>2, <2>3, <2>4, EntriesFinite
  <1> QED
    BY <1>1, <1>2

(* Alike things are read alike. *)
LEMMA ReadAlike ==
    ASSUME NEW f, NEW g, Alike(f, g), NEW pick
    PROVE  Alike(WordsIn(f, pick), WordsIn(g, pick))
  <1>1. PICK h : Pairs(h, f, g)
    BY DEF Alike
  <1> DEFINE A == {x \in DOMAIN f : IsWord(Token(f[x], pick))}
             B == {x \in DOMAIN g : IsWord(Token(g[x], pick))}
             F == WordsIn(f, pick)
             G == WordsIn(g, pick)
             e == [a \in A |-> h[a]]
  <1>2. /\ DOMAIN F = A /\ DOMAIN G = B
        /\ (\A a \in A : F[a] = Key(Token(f[a], pick))) /\ \A b \in B : G[b] = Key(Token(g[b], pick))
    BY DEF WordsIn
  <1>3. \A a \in A : e[a] = h[a] /\ h[a] \in B /\ f[a] = g[h[a]]
    BY <1>1 DEF Pairs
  <1>4. e \in [A -> B]
    BY <1>3
  <1> HIDE DEF e
  <1>5. \A a, b \in A : e[a] = e[b] => a = b
    BY <1>1, <1>3 DEF Pairs
  <1>6. \A c \in B : \E a \in A : e[a] = c
    <2> TAKE c \in B
    <2>1. PICK a \in DOMAIN f : h[a] = c
      BY <1>1 DEF Pairs
    <2>2. f[a] = g[c]
      BY <1>1, <2>1 DEF Pairs
    <2> QED
      BY <1>3, <2>1, <2>2
  <1>7. \A a \in A : F[a] = G[e[a]]
    BY <1>2, <1>3
  <1> HIDE DEF F, G, A, B
  <1>8. Pairs(e, F, G)
    BY <1>2, <1>4, <1>5, <1>6, <1>7, Zenon DEF Pairs
  <1> QED
    BY <1>8 DEF Alike, F, G

(* What is counted of one is counted of the other. *)
LEMMA TalliesAlike ==
    ASSUME NEW f, NEW g, Alike(f, g), IsFiniteSet(DOMAIN g), NEW words, Tallies(words, f)
    PROVE  Tallies(words, g)
  <1>1. Alike(g, f)
    BY AlikeBack
  <1>2. PICK h : Pairs(h, g, f)
    BY <1>1 DEF Alike
  <1>3. {f[p] : p \in DOMAIN f} = {g[p] : p \in DOMAIN g}
    <2>1. \A b \in DOMAIN g : h[b] \in DOMAIN f /\ g[b] = f[h[b]]
      BY <1>2 DEF Pairs
    <2>2. \A a \in DOMAIN f : \E b \in DOMAIN g : h[b] = a
      BY <1>2 DEF Pairs
    <2> QED
      BY <2>1, <2>2
  <1>4. ASSUME NEW k PROVE Cardinality({p \in DOMAIN g : g[p] = k}) = Cardinality({p \in DOMAIN f : f[p] = k})
    <2>1. Alike(Those(g, {k}), Those(f, {k}))
      BY <1>1, AlikeThose
    <2>2. DOMAIN Those(g, {k}) = {p \in DOMAIN g : g[p] = k} /\ DOMAIN Those(f, {k}) = {p \in DOMAIN f : f[p] = k}
      BY DEF Those
    <2>3. IsFiniteSet(DOMAIN Those(g, {k}))
      <3>1. DOMAIN Those(g, {k}) \in SUBSET (DOMAIN g)
        BY <2>2
      <3> QED
        BY <3>1, FS_Subset
    <2> QED
      BY <2>1, <2>2, <2>3, AlikeSize
  <1> QED
    BY <1>3, <1>4 DEF Tallies

(* What the sentences are read as, token by token. *)
LEMMA WordsRead ==
    ASSUME NEW S, NEW pick
    PROVE  LET ss == ResolveSentences(S, pick)
               read == WordsIn(Entries(TextsOf(S)), pick)
           IN  /\ DOMAIN read = {p \in Places(ss) : IsWord(At(ss, p))}
               /\ \A p \in DOMAIN read : read[p] = Key(At(ss, p))
  <1> DEFINE ss == ResolveSentences(S, pick)
             ink == Entries(TextsOf(S))
  <1>1. /\ DOMAIN ss = DOMAIN S
        /\ \A k \in DOMAIN S : ss[k].tokens = [i \in DOMAIN S[k].text |-> Token(S[k].text[i], pick)]
    BY DEF ResolveSentences
  <1> HIDE DEF ss
  <1>2. \A k \in DOMAIN S :
           /\ DOMAIN ss[k].tokens = DOMAIN S[k].text
           /\ \A i \in DOMAIN S[k].text : ss[k].tokens[i] = Token(S[k].text[i], pick)
    BY <1>1
  <1>3. \A p : p \in Places(ss) <=> \E k \in DOMAIN S : \E i \in DOMAIN S[k].text : p = <<k, i>>
    <2>1. \A p : p \in Places(ss) <=> \E k \in DOMAIN ss : \E i \in DOMAIN ss[k].tokens : p = <<k, i>>
      BY DEF Places
    <2> QED
      BY <1>1, <1>2, <2>1
  <1>4. /\ \A p : p \in DOMAIN ink <=> \E k \in DOMAIN S : \E i \in DOMAIN S[k].text : p = <<k, i>>
        /\ \A p \in DOMAIN ink : ink[p] = S[p[1]].text[p[2]]
    <2>1. DOMAIN TextsOf(S) = DOMAIN S /\ \A k \in DOMAIN S : TextsOf(S)[k] = S[k].text
      BY DEF TextsOf
    <2>2. /\ \A p : p \in DOMAIN ink <=> \E k \in DOMAIN S : \E i \in DOMAIN TextsOf(S)[k] : p = <<k, i>>
          /\ \A p \in DOMAIN ink : ink[p] = TextsOf(S)[p[1]][p[2]]
      BY <2>1, EntriesOf
    <2> HIDE DEF ink
    <2>3. \A p \in DOMAIN ink : p[1] \in DOMAIN S
      BY <2>2
    <2> QED
      BY <2>1, <2>2, <2>3
  <1> HIDE DEF ink
  <1>5. Places(ss) = DOMAIN ink
    BY <1>3, <1>4
  <1>6. \A p \in DOMAIN ink : At(ss, p) = Token(ink[p], pick)
    <2>1. ASSUME NEW p \in DOMAIN ink PROVE At(ss, p) = Token(ink[p], pick)
      <3>1. PICK k \in DOMAIN S : \E i \in DOMAIN S[k].text : p = <<k, i>>
        BY <1>4
      <3>2. p[1] = k /\ p[2] \in DOMAIN S[k].text
        BY <3>1
      <3> QED
        BY <1>2, <1>4, <3>2 DEF At
    <2> QED
      BY <2>1
  <1>7. /\ DOMAIN WordsIn(ink, pick) = {p \in DOMAIN ink : IsWord(Token(ink[p], pick))}
        /\ \A p \in DOMAIN WordsIn(ink, pick) : p \in DOMAIN ink /\ WordsIn(ink, pick)[p] = Key(Token(ink[p], pick))
    BY DEF WordsIn
  <1>8. DOMAIN WordsIn(ink, pick) = {p \in Places(ss) : IsWord(At(ss, p))}
    BY <1>5, <1>6, <1>7
  <1>9. \A p \in DOMAIN WordsIn(ink, pick) : WordsIn(ink, pick)[p] = Key(At(ss, p))
    BY <1>6, <1>7
  <1> QED
    BY <1>8, <1>9 DEF ss, ink

(* The words of the parser are counted from the sentences. *)
LEMMA EnrichTallies ==
    ASSUME NEW S, NEW pick, NEW gloss
    PROVE  Tallies(EnrichWords(ResolveSentences(S, pick), gloss), WordsIn(Entries(TextsOf(S)), pick))
  <1> DEFINE ss == ResolveSentences(S, pick)
             read == WordsIn(Entries(TextsOf(S)), pick)
             words == {p \in Places(ss) : IsWord(At(ss, p))}
             of(k) == {p \in words : Key(At(ss, p)) = k}
  <1>1. DOMAIN read = words /\ \A p \in words : read[p] = Key(At(ss, p))
    BY WordsRead
  <1> DEFINE W == EnrichWords(ss, gloss)
  <1>2. DOMAIN W = {Key(At(ss, p)) : p \in words}
    BY DEF EnrichWords
  <1>3. \A k \in DOMAIN W : W[k].count = Cardinality(of(k))
    BY DEF EnrichWords
  <1> HIDE DEF W, ss, read, words
  <1>4. DOMAIN W = {read[p] : p \in DOMAIN read}
    BY <1>1, <1>2
  <1>5. \A k : of(k) = {p \in DOMAIN read : read[p] = k}
    BY <1>1
  <1> QED
    BY <1>3, <1>4, <1>5 DEF Tallies, W, ss, read

(* So are those shown to a learner. *)
LEMMA ExpandTallies ==
    ASSUME NEW S, NEW pick, NEW parserWords, NEW alternatives, NEW now,
           Tallies(parserWords, WordsIn(Entries(TextsOf(S)), pick))
    PROVE  Tallies(ExpandSentencesToWords(ResolveSentences(S, pick), parserWords, alternatives, now),
                   WordsIn(Entries(TextsOf(S)), pick))
  <1> DEFINE ss == ResolveSentences(S, pick)
             read == WordsIn(Entries(TextsOf(S)), pick)
             of(k) == {p \in Places(ss) : k \in ExpandTokenLemmas(At(ss, p), alternatives)}
             keys == UNION {ExpandTokenLemmas(At(ss, p), alternatives) : p \in Places(ss)}
             W == ExpandSentencesToWords(ss, parserWords, alternatives, now)
  <1>1. DOMAIN read = {p \in Places(ss) : IsWord(At(ss, p))} /\ \A p \in DOMAIN read : read[p] = Key(At(ss, p))
    BY WordsRead
  <1>2. keys # {} => DOMAIN W = keys /\ \A k \in keys : W[k].count = Cardinality(of(k))
    BY DEF ExpandSentencesToWords
  <1>3. keys = {} => W = parserWords
    BY DEF ExpandSentencesToWords
  <1> HIDE DEF W, ss, read
  <1>4. \A p : p \in Places(ss) =>
           ExpandTokenLemmas(At(ss, p), alternatives) = IF p \in DOMAIN read THEN {read[p]} ELSE {}
    BY <1>1 DEF ExpandTokenLemmas
  <1>5. keys = {read[p] : p \in DOMAIN read}
    BY <1>1, <1>4
  <1>6. \A k : of(k) = {p \in DOMAIN read : read[p] = k}
    BY <1>1, <1>4
  <1> HIDE DEF keys
  <1>7. CASE keys = {}
    BY <1>3, <1>7 DEF read, W, ss
  <1>8. CASE keys # {}
    <2>1. Tallies(W, read)
      BY <1>2, <1>5, <1>6, <1>8 DEF Tallies
    <2> QED
      BY <2>1 DEF read, W, ss
  <1> QED
    BY <1>7, <1>8

(* Marking words leaves their counts. *)
LEMMA MarkedTallies ==
    ASSUME NEW words, NEW states, NEW read, Tallies(words, read)
    PROVE  Tallies(ApplyLemmaStates(words, states), read)
  <1>1. /\ DOMAIN ApplyLemmaStates(words, states) = DOMAIN words
        /\ \A k \in DOMAIN words : ApplyLemmaStates(words, states)[k].count = words[k].count
    BY DEF ApplyLemmaStates
  <1> QED
    BY <1>1 DEF Tallies

(* Each written symbol of a text is in one sentence, once. *)
LEMMA SplitAlike ==
    ASSUME NEW text, IsTable(text)
    PROVE  Alike(Entries(SplitSentences(text)), Ink(text))
  <1> DEFINE N == Len(text)
             E == {i \in DOMAIN text : i = Len(text) \/ EndsSentence(text, i)}
             all == [i \in DOMAIN text |-> i]
             ends == Taken(all, E)
             from(k) == IF k = 1 THEN 1 ELSE ends[k - 1] + 1
             tokens == [i \in DOMAIN text |-> Tokenize(text, i)]
             piece(k) == {i \in from(k)..ends[k] : text[i] # Break /\ ~Joined(text, i)}
             cut == [k \in DOMAIN ends |-> Taken(tokens, piece(k))]
             kept == {k \in DOMAIN cut : cut[k] # <<>>}
             ink == {i \in DOMAIN text : text[i] # Break /\ ~Joined(text, i)}
             m == Cardinality(E)
  <1>1. N \in Nat /\ DOMAIN text = 1..N
    BY DEF IsTable
  <1> HIDE DEF N
  <1>2. E \in SUBSET (1..N) /\ (N # 0 => N \in E)
    BY <1>1 DEF N
  <1>3. \A i \in E : all[i] = i
    BY <1>1
  <1> HIDE DEF E, all
  <1>4. /\ m \in Nat
        /\ \E e \in [1..m -> E] :
                /\ \A i \in E : \E k \in 1..m : e[k] = i
                /\ \A k, l \in 1..m : k < l => e[k] < e[l]
                /\ \A s : Taken(s, E) = [k \in 1..m |-> s[e[k]]]
    BY <1>1, <1>2, TakenInOrder, Zenon
  <1> HIDE DEF m
  <1>5. PICK e \in [1..m -> E] :
                /\ \A i \in E : \E k \in 1..m : e[k] = i
                /\ \A k, l \in 1..m : k < l => e[k] < e[l]
                /\ \A s : Taken(s, E) = [k \in 1..m |-> s[e[k]]]
    BY <1>4
  <1>6. ends = [k \in 1..m |-> all[e[k]]]
    BY <1>5, Zenon
  <1> HIDE DEF ends
  <1>7. DOMAIN ends = 1..m /\ \A k \in 1..m : ends[k] = e[k] /\ ends[k] \in E /\ ends[k] \in 1..N
    BY <1>2, <1>3, <1>5, <1>6
  <1>8. \A k, l \in 1..m : k < l => ends[k] < ends[l]
    BY <1>5, <1>7
  <1>9. \A k \in 1..m : from(k) \in Nat /\ from(k) >= 1
    <2> TAKE k \in 1..m
    <2>1. CASE k = 1
      BY <2>1
    <2>2. CASE k # 1
      <3>1. k - 1 \in 1..m
        BY <1>4, <2>2
      <3>2. ends[k - 1] \in 1..N
        BY <1>7, <3>1
      <3> QED
        BY <1>1, <2>2, <3>2
    <2> QED
      BY <2>1, <2>2
  <1>10. \A k, l \in 1..m : k < l => ends[k] < from(l)
    <2> SUFFICES ASSUME NEW k \in 1..m, NEW l \in 1..m, k < l PROVE ends[k] < from(l)
      OBVIOUS
    <2>1. l # 1 /\ l - 1 \in 1..m /\ (k = l - 1 \/ k < l - 1)
      BY <1>4
    <2>2. ends[k] <= ends[l - 1] /\ ends[k] \in 1..N /\ ends[l - 1] \in 1..N
      BY <1>7, <1>8, <2>1
    <2>3. from(l) = ends[l - 1] + 1
      BY <2>1
    <2> HIDE DEF from
    <2> QED
      BY <1>1, <2>2, <2>3
  <1>11. ASSUME NEW i \in ink PROVE \E k \in 1..m : i \in piece(k)
    <2>1. i \in 1..N /\ N \in E
      BY <1>1, <1>2
    <2> DEFINE T == {x \in E : x >= i}
    <2>2. T \in SUBSET Nat /\ T # {}
      <3>1. N >= i
        BY <1>1, <2>1
      <3>2. N \in T
        BY <2>1, <3>1
      <3>3. T \subseteq 1..N
        BY <1>2
      <3> HIDE DEF T
      <3> QED
        BY <1>1, <3>2, <3>3
    <2>3. PICK x \in T : \A y \in T : x <= y
      BY <2>2, LeastOf
    <2>4. PICK k \in 1..m : ends[k] = x
      BY <1>5, <1>7, <2>3
    <2>5. from(k) <= i
      <3>1. CASE k = 1
        BY <1>1, <2>1, <3>1
      <3>2. CASE k # 1
        <4>1. k - 1 \in 1..m /\ k - 1 < k
          BY <1>4, <3>2
        <4>2. ends[k - 1] < ends[k] /\ ends[k - 1] \in E /\ ends[k - 1] \in 1..N /\ ends[k] \in 1..N
          BY <1>7, <1>8, <4>1
        <4>3. ~(ends[k - 1] >= i)
          BY <2>3, <2>4, <4>2
        <4> QED
          BY <1>1, <2>1, <3>2, <4>2, <4>3
      <3> QED
        BY <3>1, <3>2
    <2>6. i <= ends[k] /\ ends[k] \in 1..N
      BY <1>7, <2>1, <2>3, <2>4
    <2> QED
      BY <1>1, <1>9, <2>1, <2>5, <2>6
  <1>12. \A k \in 1..m : piece(k) \in SUBSET (1..N) /\ piece(k) \subseteq ink
    BY <1>1, <1>7, <1>9
  <1>13. ASSUME NEW k \in 1..m, NEW l \in 1..m, NEW i, i \in piece(k), i \in piece(l) PROVE k = l
    <2>1. i \in Int /\ from(k) <= i /\ i <= ends[k] /\ from(l) <= i /\ i <= ends[l]
      BY <1>12, <1>13
    <2>2. from(k) \in Int /\ from(l) \in Int /\ ends[k] \in Int /\ ends[l] \in Int
      BY <1>7, <1>9
    <2> HIDE DEF from
    <2>3. ~(k < l)
      BY <1>10, <2>1, <2>2
    <2>4. ~(l < k)
      BY <1>10, <2>1, <2>2
    <2> QED
      BY <2>3, <2>4
  <1> HIDE DEF from, piece, tokens
  <1>14. DOMAIN cut = 1..m /\ \A k \in 1..m : cut[k] = Taken(tokens, piece(k))
    BY <1>7
  <1>15. SplitSentences(text) = Taken(cut, kept)
    BY DEF SplitSentences, E, all, ends, from, piece, tokens
  <1>16. kept \in SUBSET (1..m)
    BY <1>14
  <1>17. \A k \in 1..m : k \in kept <=> piece(k) # {}
    <2> TAKE k \in 1..m
    <2>1. Taken(tokens, piece(k)) = <<>> <=> piece(k) = {}
      BY <1>1, <1>12, TakenEntries
    <2> QED
      BY <1>14, <2>1
  <1> HIDE DEF cut, kept, ink
  <1> DEFINE F == [k \in kept |-> cut[k]]
             G == [k \in kept |-> [i \in piece(k) |-> tokens[i]]]
  <1>18. Alike(Entries(Taken(cut, kept)), Entries(F))
    <2>1. Alike(Taken(cut, kept), F)
      BY <1>4, <1>16, TakenAlike
    <2> HIDE DEF F
    <2> QED
      BY <2>1, AlikeRows
  <1>19. Alike(Entries(F), Entries(G))
    <2>1. ASSUME NEW k \in kept PROVE Alike(F[k], G[k])
      <3>1. k \in 1..m /\ F[k] = Taken(tokens, piece(k)) /\ G[k] = [i \in piece(k) |-> tokens[i]]
        BY <1>14, <1>16
      <3>2. piece(k) \in SUBSET (1..N)
        BY <1>12, <3>1
      <3>3. ASSUME NEW at \in SUBSET (1..N) PROVE Alike(Taken(tokens, at), [i \in at |-> tokens[i]])
        BY <1>1, TakenAlike, Zenon
      <3>4. Alike(Taken(tokens, piece(k)), [i \in piece(k) |-> tokens[i]])
        BY <3>2, <3>3, Zenon
      <3> QED
        BY <3>1, <3>4, Zenon
    <2>2. DOMAIN F = kept /\ DOMAIN G = kept
      OBVIOUS
    <2> HIDE DEF F, G
    <2> QED
      BY <2>1, <2>2, AlikeFamilies
  <1>20. Alike(Entries(G), Ink(text))
    <2> DEFINE A == DOMAIN Entries(G)
               h == [p \in A |-> p[2]]
    <2>1. \A p : p \in A <=> \E k \in kept : \E i \in piece(k) : p = <<k, i>>
      <3>1. /\ DOMAIN G = kept /\ \A k \in kept : DOMAIN G[k] = piece(k)
        OBVIOUS
      <3>2. \A p : p \in A <=> \E k \in DOMAIN G : \E i \in DOMAIN G[k] : p = <<k, i>>
        BY EntriesOf, Zenon
      <3> HIDE DEF A, G
      <3> QED
        BY <3>1, <3>2
    <2>2. \A p \in A : Entries(G)[p] = tokens[p[2]]
      <3>1. \A p \in A : Entries(G)[p] = G[p[1]][p[2]]
        BY EntriesOf, Zenon
      <3>2. \A k \in kept : \A i \in piece(k) : G[k][i] = tokens[i]
        OBVIOUS
      <3> HIDE DEF A, G
      <3>3. ASSUME NEW p \in A PROVE p[1] \in kept /\ p[2] \in piece(p[1])
        BY <2>1, <3>3
      <3> QED
        BY <3>1, <3>2, <3>3
    <2>3. DOMAIN Ink(text) = ink /\ \A i \in ink : Ink(text)[i] = tokens[i]
      BY DEF Ink, ink, tokens
    <2> HIDE DEF A, G
    <2>4. \A p \in A : p[1] \in 1..m /\ p[2] \in piece(p[1]) /\ p = <<p[1], p[2]>> /\ p[2] \in ink
      BY <1>12, <1>16, <2>1
    <2>5. \A p, q \in A : p[2] = q[2] => p = q
      <3> SUFFICES ASSUME NEW p \in A, NEW q \in A, p[2] = q[2] PROVE p = q
        OBVIOUS
      <3>1. p[1] = q[1]
        BY <1>13, <2>4
      <3> QED
        BY <2>4, <3>1
    <2>6. \A i \in ink : \E p \in A : p[2] = i
      <3> TAKE i \in ink
      <3>1. PICK k \in 1..m : i \in piece(k)
        BY <1>11
      <3>2. k \in kept
        BY <1>17, <3>1
      <3>3. <<k, i>> \in A
        BY <2>1, <3>1, <3>2
      <3> QED
        BY <3>3
    <2>7. h \in [A -> ink] /\ \A p \in A : h[p] = p[2]
      BY <2>4
    <2> HIDE DEF h
    <2>8. Pairs(h, Entries(G), Ink(text))
      <3>1. \A p \in A : Entries(G)[p] = Ink(text)[h[p]]
        BY <2>2, <2>3, <2>4, <2>7
      <3>2. \A p, q \in A : h[p] = h[q] => p = q
        BY <2>5, <2>7
      <3>3. \A i \in ink : \E p \in A : h[p] = i
        BY <2>6, <2>7
      <3>4. h \in [DOMAIN Entries(G) -> DOMAIN Ink(text)]
        BY <2>3, <2>7 DEF A
      <3> QED
        BY <2>3, <3>1, <3>2, <3>3, <3>4, Zenon DEF Pairs, A
    <2> QED
      BY <2>8 DEF Alike
  <1>21. Alike(Entries(Taken(cut, kept)), Entries(G))
    BY <1>18, <1>19, AlikeThen, Zenon
  <1>22. Alike(Entries(Taken(cut, kept)), Ink(text))
    BY <1>20, <1>21, AlikeThen, Zenon
  <1> QED
    BY <1>15, <1>22

(* The texts of the same sentences. *)
LEMMA TextsAlike ==
    ASSUME NEW f, NEW g, Alike(f, g)
    PROVE  Alike(TextsOf(f), TextsOf(g))
  <1>1. PICK h : Pairs(h, f, g)
    BY DEF Alike
  <1>2. Pairs(h, TextsOf(f), TextsOf(g))
    BY <1>1 DEF Pairs, TextsOf
  <1> QED
    BY <1>2 DEF Alike

(* The sentences of a text contain what is written of it. *)
LEMMA TextRead ==
    ASSUME NEW text, IsTable(text), NEW chapter
    PROVE  /\ Listed(ParsedSentences(text, chapter))
           /\ \A k \in DOMAIN ParsedSentences(text, chapter) : ParsedSentences(text, chapter)[k].chapter = chapter
           /\ Alike(Entries(TextsOf(ParsedSentences(text, chapter))), Ink(text))
  <1> DEFINE cut == SplitSentences(text)
             S == ParsedSentences(text, chapter)
  <1>1. Listed(cut)
    BY SplitsIntoLists
  <1>2. Alike(Entries(cut), Ink(text))
    BY SplitAlike
  <1> HIDE DEF cut
  <1>3. DOMAIN S = DOMAIN cut /\ \A k \in DOMAIN cut : S[k].text = cut[k] /\ S[k].chapter = chapter
    BY DEF ParsedSentences, cut
  <1> HIDE DEF S
  <1>4. DOMAIN TextsOf(S) = DOMAIN cut /\ \A k \in DOMAIN TextsOf(S) : TextsOf(S)[k] = cut[k]
    BY <1>3 DEF TextsOf
  <1>5. Alike(Entries(TextsOf(S)), Entries(cut))
    BY <1>4, AlikeEntries
  <1>6. Alike(Entries(TextsOf(S)), Ink(text))
    BY <1>2, <1>5, AlikeThen
  <1>7. Listed(S)
    BY <1>1, <1>3 DEF Listed
  <1> QED
    BY <1>3, <1>6, <1>7 DEF S

\* The sentences of each chapter.
ByChapter(chapters) == [i \in DOMAIN chapters |-> ParsedSentences(chapters[i], i)]

(* The sentences of a book are those of its chapters. *)
LEMMA ChaptersRead ==
    ASSUME NEW input, ~IsText(input), WellFormed(input), input.chapters # <<>>
    PROVE  /\ Listed(AnalyzedSentences(input))
           /\ Alike(AnalyzedSentences(input), Entries(ByChapter(input.chapters)))
  <1> DEFINE rows == ByChapter(input.chapters)
             U == UNION {Distinct(rows[i]) : i \in DOMAIN rows}
  <1>1. PICK c : c = input.chapters
    OBVIOUS
  <1>2. IsTable(c) /\ c # <<>> /\ \A i \in DOMAIN c : IsTable(c[i])
    BY <1>1 DEF WellFormed
  <1>3. PICK n : n = Len(c)
    OBVIOUS
  <1>4. n \in Nat \ {0} /\ DOMAIN c = 1..n
    BY <1>2, <1>3 DEF IsTable
  <1>5. rows = [i \in 1..n |-> ParsedSentences(c[i], i)]
    BY <1>1, <1>4 DEF ByChapter
  <1>6. ASSUME NEW i \in 1..n PROVE rows[i] \in Seq(U)
    <2> DEFINE cut == SplitSentences(c[i])
    <2>1. PICK m \in Nat : DOMAIN cut = 1..m
      BY <1>2, <1>4, SplitsIntoLists DEF Listed
    <2>2. rows[i] = [k \in 1..m |-> [text |-> cut[k], chapter |-> i]]
      BY <1>5, <2>1 DEF ParsedSentences
    <2>3. \A k \in 1..m : rows[i][k] \in U
      <3>1. i \in DOMAIN rows
        BY <1>5
      <3>2. \A k \in 1..m : rows[i][k] \in Distinct(rows[i])
        BY <2>2 DEF Distinct
      <3> HIDE DEF rows
      <3> QED
        BY <3>1, <3>2
    <2> HIDE DEF rows, U, cut
    <2>4. rows[i] \in [1..m -> U]
      BY <2>2, <2>3
    <2> QED
      BY <2>1, <2>4, SeqDef
  <1>7. rows \in [1..n -> Seq(U)]
    <2> HIDE DEF U
    <2>1. rows = [i \in 1..n |-> rows[i]]
      BY <1>5
    <2> HIDE DEF rows
    <2> QED
      BY <1>6, <2>1
  <1>8. AnalyzedSentences(input) = FlattenSeq(rows)
    BY DEF AnalyzedSentences, ByChapter
  <1> HIDE DEF rows, U
  <1>9. FlattenSeq(rows) \in Seq(U) /\ Alike(FlattenSeq(rows), Entries(rows))
    BY <1>4, <1>7, FlattenAlike
  <1>10. Listed(AnalyzedSentences(input))
    BY <1>8, <1>9, LenProperties DEF Listed
  <1> QED
    BY <1>8, <1>9, <1>10 DEF rows

(* The texts of what is listed by place are the texts, listed by place. *)
LEMMA TextsOfEntries ==
    ASSUME NEW rows
    PROVE  Alike(TextsOf(Entries(rows)), Entries([c \in DOMAIN rows |-> TextsOf(rows[c])]))
  <1> DEFINE P == [c \in DOMAIN rows |-> TextsOf(rows[c])]
             f == TextsOf(Entries(rows))
  <1>1. /\ DOMAIN P = DOMAIN rows
        /\ \A c \in DOMAIN rows : DOMAIN P[c] = DOMAIN rows[c] /\ \A k \in DOMAIN rows[c] : P[c][k] = rows[c][k].text
    BY DEF TextsOf
  <1>2. /\ \A p : p \in DOMAIN Entries(P) <=> \E c \in DOMAIN P : \E k \in DOMAIN P[c] : p = <<c, k>>
        /\ \A p \in DOMAIN Entries(P) : Entries(P)[p] = P[p[1]][p[2]]
    BY EntriesOf, Zenon
  <1>3. /\ \A p : p \in DOMAIN Entries(rows) <=> \E c \in DOMAIN rows : \E k \in DOMAIN rows[c] : p = <<c, k>>
        /\ \A p \in DOMAIN Entries(rows) : Entries(rows)[p] = rows[p[1]][p[2]]
    BY EntriesOf, Zenon
  <1>4. DOMAIN f = DOMAIN Entries(rows) /\ \A p \in DOMAIN Entries(rows) : f[p] = Entries(rows)[p].text
    BY DEF TextsOf
  <1> HIDE DEF f, P
  <1>5. \A p : p \in DOMAIN Entries(rows) <=> p \in DOMAIN Entries(P)
    BY <1>1, <1>2, <1>3
  <1>6. DOMAIN f = DOMAIN Entries(P)
    BY <1>4, <1>5
  <1>7. \A p \in DOMAIN f : f[p] = Entries(P)[p]
    <2> TAKE p \in DOMAIN f
    <2>1. PICK c \in DOMAIN rows : \E k \in DOMAIN rows[c] : p = <<c, k>>
      BY <1>3, <1>4
    <2>2. PICK k \in DOMAIN rows[c] : p = <<c, k>>
      BY <2>1
    <2>3. f[p] = rows[c][k].text
      BY <1>3, <1>4, <2>2
    <2>4. Entries(P)[p] = P[c][k]
      BY <1>2, <1>6, <2>2
    <2> QED
      BY <1>1, <2>3, <2>4
  <1>8. Alike(f, Entries(P))
    BY <1>6, <1>7, AlikeEntries
  <1> QED
    BY <1>8 DEF f, P

(* What is analyzed of an input is what is written in it. *)
LEMMA InputRead ==
    ASSUME NEW input, WellFormed(input), IsText(input) \/ input.chapters # <<>>
    PROVE  Alike(Entries(TextsOf(AnalyzedSentences(input))), InkOf(input))
  <1>1. CASE IsText(input)
    <2>1. AnalyzedSentences(input) = ParsedSentences(input.text, 0)
      BY <1>1 DEF AnalyzedSentences
    <2>2. InkOf(input) = Ink(input.text)
      BY <1>1 DEF InkOf
    <2>3. IsTable(input.text)
      BY <1>1 DEF WellFormed
    <2>4. Alike(Entries(TextsOf(ParsedSentences(input.text, 0))), Ink(input.text))
      BY <2>3, TextRead, Zenon
    <2> QED
      BY <2>1, <2>2, <2>4
  <1>2. CASE ~IsText(input)
    <2> DEFINE S == AnalyzedSentences(input)
               rows == ByChapter(input.chapters)
               P == [c \in DOMAIN rows |-> TextsOf(rows[c])]
               G == [c \in DOMAIN P |-> Entries(P[c])]
               I == [i \in DOMAIN input.chapters |-> Ink(input.chapters[i])]
    <2>1. Alike(S, Entries(rows))
      BY <1>2, ChaptersRead
    <2>2. Alike(TextsOf(S), TextsOf(Entries(rows)))
      BY <2>1, TextsAlike
    <2>3. Alike(TextsOf(Entries(rows)), Entries(P))
      BY TextsOfEntries
    <2>4. Alike(Entries(P), Entries(P)) /\ Alike(Entries(Entries(P)), Entries(G))
      BY AlikeSelf, AlikeNested
    <2>5. Alike(Entries(G), Entries(I))
      <3>1. DOMAIN G = DOMAIN I
        BY DEF ByChapter
      <3>2. ASSUME NEW c \in DOMAIN G PROVE Alike(G[c], I[c])
        <4>1. c \in DOMAIN input.chapters /\ G[c] = Entries(TextsOf(ParsedSentences(input.chapters[c], c)))
              /\ I[c] = Ink(input.chapters[c])
          BY <3>1 DEF ByChapter
        <4>2. IsTable(input.chapters[c])
          BY <1>2, <4>1 DEF WellFormed
        <4>3. Alike(Entries(TextsOf(ParsedSentences(input.chapters[c], c))), Ink(input.chapters[c]))
          BY <4>2, TextRead, Zenon
        <4> QED
          BY <4>1, <4>3
      <3> HIDE DEF G, I
      <3> QED
        BY <3>1, <3>2, AlikeFamilies
    <2>6. InkOf(input) = Entries(I)
      BY <1>2 DEF InkOf
    <2> HIDE DEF S, P, G, I, rows
    <2>7. Alike(TextsOf(S), Entries(P))
      BY <2>2, <2>3, AlikeThen
    <2>8. Alike(Entries(TextsOf(S)), Entries(Entries(P)))
      BY <2>7, AlikeRows
    <2>9. Alike(Entries(TextsOf(S)), Entries(G))
      BY <2>4, <2>8, AlikeThen
    <2>10. Alike(Entries(TextsOf(S)), Entries(I))
      BY <2>5, <2>9, AlikeThen
    <2> QED
      BY <2>6, <2>10 DEF S
  <1> QED
    BY <1>1, <1>2

(* The sentences of one chapter, taken of those of the book. *)
LEMMA ChapterRead ==
    ASSUME NEW input, ~IsText(input), WellFormed(input), NEW i \in DOMAIN input.chapters
    PROVE  LET S == AnalyzedSentences(input)
               own == Taken(S, {k \in DOMAIN S : S[k].chapter = i})
           IN  Alike(Entries(TextsOf(own)), Ink(input.chapters[i]))
  <1> DEFINE S == AnalyzedSentences(input)
             at == {k \in DOMAIN S : S[k].chapter = i}
             own == Taken(S, at)
             rows == ByChapter(input.chapters)
             E == Entries(rows)
             T == {x \in {E[p] : p \in DOMAIN E} : x.chapter = i}
  <1>1. input.chapters # <<>>
    OBVIOUS
  <1>2. Listed(S) /\ Alike(S, E)
    BY <1>1, ChaptersRead
  <1>3. /\ \A p : p \in DOMAIN E <=> \E c \in DOMAIN rows : \E k \in DOMAIN rows[c] : p = <<c, k>>
        /\ \A p \in DOMAIN E : E[p] = rows[p[1]][p[2]]
    BY EntriesOf, Zenon
  <1>4. DOMAIN rows = DOMAIN input.chapters /\ \A c \in DOMAIN rows : rows[c] = ParsedSentences(input.chapters[c], c)
    BY DEF ByChapter
  <1>5. \A c \in DOMAIN rows : IsTable(input.chapters[c])
    BY <1>4 DEF WellFormed
  <1> HIDE DEF rows
  <1>6. \A c \in DOMAIN rows : \A k \in DOMAIN rows[c] : rows[c][k].chapter = c
    <2> TAKE c \in DOMAIN rows
    <2>1. \A k \in DOMAIN ParsedSentences(input.chapters[c], c) :
             ParsedSentences(input.chapters[c], c)[k].chapter = c
      BY <1>5, TextRead, Zenon
    <2> QED
      BY <1>4, <2>1
  <1>7. Alike(Entries(TextsOf(rows[i])), Ink(input.chapters[i]))
    <2>1. i \in DOMAIN rows /\ IsTable(input.chapters[i])
      BY <1>4, <1>5
    <2>2. Alike(Entries(TextsOf(ParsedSentences(input.chapters[i], i))), Ink(input.chapters[i]))
      BY <2>1, TextRead, Zenon
    <2> QED
      BY <1>4, <2>1, <2>2
  <1> HIDE DEF S, E
  <1>8. PICK n \in Nat : DOMAIN S = 1..n
    BY <1>2 DEF Listed
  <1>9. at \in SUBSET (1..n)
    BY <1>8
  <1>10. \A k \in DOMAIN S : k \in at <=> S[k] \in T
    <2>1. PICK h : Pairs(h, S, E)
      BY <1>2 DEF Alike
    <2>2. \A k \in DOMAIN S : S[k] \in {E[p] : p \in DOMAIN E}
      BY <2>1 DEF Pairs
    <2> QED
      BY <2>2
  <1> HIDE DEF at, T
  <1>11. Alike(own, [k \in at |-> S[k]])
    BY <1>8, <1>9, TakenAlike, Zenon
  <1>12. [k \in at |-> S[k]] = Those(S, T)
    <2>1. at = {k \in DOMAIN S : S[k] \in T}
      BY <1>8, <1>9, <1>10
    <2> QED
      BY <2>1 DEF Those
  <1>13. Alike(Those(S, T), Those(E, T))
    BY <1>2, AlikeThose
  <1>14. Alike(Those(E, T), rows[i])
    <2> DEFINE A == {p \in DOMAIN E : E[p] \in T}
               h == [p \in A |-> p[2]]
    <2>1. \A p : p \in A <=> \E k \in DOMAIN rows[i] : p = <<i, k>>
      <3>1. ASSUME NEW p \in A PROVE \E k \in DOMAIN rows[i] : p = <<i, k>>
        <4>1. PICK c \in DOMAIN rows : \E k \in DOMAIN rows[c] : p = <<c, k>>
          BY <1>3
        <4>2. PICK k \in DOMAIN rows[c] : p = <<c, k>>
          BY <4>1
        <4>3. E[p].chapter = i
          BY DEF T
        <4>4. E[p] = rows[c][k]
          BY <1>3, <4>2
        <4>5. c = i
          BY <1>6, <4>3, <4>4
        <4> QED
          BY <4>2, <4>5
      <3>2. ASSUME NEW k \in DOMAIN rows[i] PROVE <<i, k>> \in A
        <4>1. <<i, k>> \in DOMAIN E /\ E[<<i, k>>] = rows[i][k]
          BY <1>3, <1>4
        <4>2. rows[i][k].chapter = i
          BY <1>4, <1>6
        <4> QED
          BY <4>1, <4>2 DEF T
      <3> QED
        BY <3>1, <3>2
    <2>2. DOMAIN Those(E, T) = A /\ \A p \in A : Those(E, T)[p] = E[p]
      BY DEF Those
    <2>3. \A p \in A : p[2] \in DOMAIN rows[i] /\ p = <<i, p[2]>> /\ E[p] = rows[i][p[2]]
      <3>1. \A p \in A : p \in DOMAIN E
        OBVIOUS
      <3> HIDE DEF A
      <3> QED
        BY <1>3, <2>1, <3>1
    <2> HIDE DEF A
    <2>4. h \in [A -> DOMAIN rows[i]] /\ \A p \in A : h[p] = p[2]
      BY <2>3
    <2> HIDE DEF h
    <2>5. \A p, q \in A : h[p] = h[q] => p = q
      <3> SUFFICES ASSUME NEW p \in A, NEW q \in A, h[p] = h[q] PROVE p = q
        OBVIOUS
      <3>1. p = <<i, p[2]>> /\ q = <<i, q[2]>> /\ p[2] = q[2]
        BY <2>3, <2>4
      <3> QED
        BY <3>1
    <2>6. \A k \in DOMAIN rows[i] : \E p \in A : h[p] = k
      <3> TAKE k \in DOMAIN rows[i]
      <3>1. <<i, k>> \in A
        BY <2>1
      <3> QED
        BY <2>4, <3>1
    <2>7. \A p \in A : Those(E, T)[p] = rows[i][h[p]]
      BY <2>2, <2>3, <2>4
    <2>8. Pairs(h, Those(E, T), rows[i])
      BY <2>2, <2>4, <2>5, <2>6, <2>7, Zenon DEF Pairs
    <2> QED
      BY <2>8 DEF Alike
  <1>15. Alike(own, Those(E, T))
    BY <1>11, <1>12, <1>13, AlikeThen, Zenon
  <1>16. Alike(own, rows[i])
    BY <1>14, <1>15, AlikeThen, Zenon
  <1> HIDE DEF own
  <1>17. Alike(TextsOf(own), TextsOf(rows[i]))
    BY <1>16, TextsAlike
  <1>18. Alike(Entries(TextsOf(own)), Entries(TextsOf(rows[i])))
    BY <1>17, AlikeRows
  <1>19. Alike(Entries(TextsOf(own)), Ink(input.chapters[i]))
    BY <1>7, <1>18, AlikeThen, Zenon
  <1> QED
    BY <1>19, Zenon DEF own, at, S

(* Resolving the sentences of a chapter, or taking them of the resolved. *)
LEMMA OfChapterResolved ==
    ASSUME NEW S, Listed(S), NEW pick, NEW i
    PROVE  OfChapter(ResolveSentences(S, pick), i)
             = ResolveSentences(Taken(S, {k \in DOMAIN S : S[k].chapter = i}), pick)
  <1> DEFINE ss == ResolveSentences(S, pick)
             at == {k \in DOMAIN S : S[k].chapter = i}
             one(x) == [text |-> x.text, chapter |-> x.chapter, tokens |-> [j \in DOMAIN x.text |-> Token(x.text[j], pick)]]
             m == Cardinality(at)
  <1>1. PICK n \in Nat : DOMAIN S = 1..n
    BY DEF Listed
  <1>2. DOMAIN ss = DOMAIN S /\ \A k \in DOMAIN S : ss[k] = one(S[k])
    BY DEF ResolveSentences
  <1> HIDE DEF ss
  <1>3. {k \in DOMAIN ss : ss[k].chapter = i} = at
    BY <1>2
  <1> HIDE DEF one
  <1>4. at \in SUBSET (1..n)
    BY <1>1
  <1>5. OfChapter(ss, i) = Taken(ss, at)
    BY <1>3 DEF OfChapter
  <1> HIDE DEF at
  <1>7. PICK e \in [1..m -> at] :
           /\ \A j \in at : \E k \in 1..m : e[k] = j
           /\ \A k, l \in 1..m : e[k] = e[l] => k = l
           /\ \A s : Taken(s, at) = [k \in 1..m |-> s[e[k]]]
    BY <1>4, TakenPlaces, ZenonT(60)
  <1> HIDE DEF m
  <1>8. Taken(ss, at) = [k \in 1..m |-> ss[e[k]]] /\ Taken(S, at) = [k \in 1..m |-> S[e[k]]]
    BY <1>7, Zenon
  <1>9. Taken(ss, at) = [k \in 1..m |-> one(S[e[k]])]
    BY <1>1, <1>2, <1>4, <1>7, <1>8, SMTT(20), ZenonT(60)
  <1>10. ResolveSentences(Taken(S, at), pick) = [k \in DOMAIN Taken(S, at) |-> one(Taken(S, at)[k])]
    BY Zenon DEF ResolveSentences, one
  <1>11. ResolveSentences(Taken(S, at), pick) = [k \in 1..m |-> one(S[e[k]])]
    BY <1>8, <1>10
  <1> QED
    BY <1>5, <1>9, <1>11 DEF ss, at

(* Blank space is no number. *)
LEMMA BreakPlain == ~Leads(Break) /\ ~Thousands(Break)
  <1>1. "groups" \notin DOMAIN Break
    BY DEF Break
  <1> QED
    BY <1>1 DEF Leads, Thousands, IsNumber

\* c is the part of t after the first o of its symbols, and no number runs into it or out of it.
Within(t, n, c, m, o) ==
    /\ DOMAIN t = 1..n /\ DOMAIN c = 1..m /\ o + m <= n
    /\ \A i \in 1..m : t[i + o] = c[i]
    /\ \A j, i \in 1..n : Leads(t[j]) /\ Thousands(t[i]) /\ Follows(t, j, i)
                           => (j \in (o + 1)..(o + m) <=> i \in (o + 1)..(o + m))

(* The tokens of such a part are the same in the text. *)
LEMMA TokensWithin ==
    ASSUME NEW t, NEW n \in Nat, NEW c, NEW m \in Nat, NEW o \in Nat, Within(t, n, c, m, o)
    PROVE  \A i \in 1..m : /\ Joined(t, i + o) <=> Joined(c, i)
                           /\ c[i] # Break => Tokenize(t, i + o) = Tokenize(c, i)
  <1>w. /\ DOMAIN t = 1..n /\ DOMAIN c = 1..m /\ o + m <= n
        /\ \A i \in 1..m : t[i + o] = c[i]
        /\ \A j, i \in 1..n : Leads(t[j]) /\ Thousands(t[i]) /\ Follows(t, j, i)
                               => (j \in (o + 1)..(o + m) <=> i \in (o + 1)..(o + m))
    BY Zenon DEF Within
  <1> USE <1>w
  <1>0. \A i \in 1..m : i \in Int /\ i + o \in 1..n /\ i + o \in (o + 1)..(o + m)
    OBVIOUS
  <1>00. \A x \in 1..n : x > o /\ x <= o + m => x - o \in 1..m /\ (x - o) + o = x
    OBVIOUS
  <1>1. ASSUME NEW j \in 1..m, NEW i \in 1..m PROVE Follows(t, j + o, i + o) <=> Follows(c, j, i)
    <2>1. j + o < i + o <=> j < i
      OBVIOUS
    <2>2. t[i + o] = c[i]
      OBVIOUS
    <2>3. ASSUME \A k \in (j + o + 1)..((i + o) - 1) : t[k] = Break, NEW k \in (j + 1)..(i - 1)
          PROVE  c[k] = Break
      <3>1. k \in 1..m /\ k + o \in (j + o + 1)..((i + o) - 1)
        OBVIOUS
      <3> QED
        BY <2>3, <3>1
    <2>4. ASSUME \A k \in (j + 1)..(i - 1) : c[k] = Break, NEW k \in (j + o + 1)..((i + o) - 1)
          PROVE  t[k] = Break
      <3>1. k - o \in 1..m /\ k - o \in (j + 1)..(i - 1) /\ (k - o) + o = k
        OBVIOUS
      <3> QED
        BY <2>4, <3>1
    <2>5. Follows(t, j + o, i + o)
            <=> j + o < i + o /\ t[i + o] # Break /\ \A k \in (j + o + 1)..((i + o) - 1) : t[k] = Break
      BY Zenon DEF Follows
    <2>6. Follows(c, j, i) <=> j < i /\ c[i] # Break /\ \A k \in (j + 1)..(i - 1) : c[k] = Break
      BY Zenon DEF Follows
    <2> QED
      BY <2>1, <2>2, <2>3, <2>4, <2>5, <2>6
  <1>2. ASSUME NEW i \in 1..m PROVE Joined(t, i + o) <=> Joined(c, i)
    <2>1. t[i + o] = c[i] /\ i + o \in 1..n /\ i + o \in (o + 1)..(o + m)
      OBVIOUS
    <2>2. ASSUME Joined(c, i) PROVE Joined(t, i + o)
      <3>1. PICK j \in 1..m : Thousands(c[i]) /\ Leads(c[j]) /\ Follows(c, j, i)
        BY <2>2 DEF Joined
      <3>2. j + o \in 1..n /\ t[j + o] = c[j] /\ Follows(t, j + o, i + o)
        BY <1>0, <1>1, <3>1
      <3> QED
        BY <2>1, <3>1, <3>2 DEF Joined
    <2>3. ASSUME Joined(t, i + o) PROVE Joined(c, i)
      <3>1. PICK p \in 1..n : Thousands(t[i + o]) /\ Leads(t[p]) /\ Follows(t, p, i + o)
        BY <2>3 DEF Joined
      <3>2. p \in (o + 1)..(o + m)
        BY <2>1, <3>1
      <3>3. p - o \in 1..m /\ (p - o) + o = p
        BY <1>00, <3>2
      <3>4. PICK j \in 1..m : j + o = p
        BY <3>3
      <3>5. t[p] = c[j] /\ Follows(c, j, i)
        BY <1>1, <3>1, <3>4
      <3> QED
        BY <2>1, <3>1, <3>5 DEF Joined
    <2> QED
      BY <2>2, <2>3
  <1> DEFINE Run(text, i) == {j \in DOMAIN text : /\ j >= i /\ text[j] # Break
                                                  /\ \A k \in (i + 1)..j : text[k] = Break \/ Joined(text, k)}
  <1>3. ASSUME NEW i \in 1..m, c[i] # Break PROVE Run(t, i + o) = {j + o : j \in Run(c, i)}
    <2>1. ASSUME NEW j \in Run(c, i) PROVE j + o \in Run(t, i + o)
      <3>1. /\ j \in 1..m /\ j >= i /\ c[j] # Break
            /\ \A k \in (i + 1)..j : c[k] = Break \/ Joined(c, k)
        OBVIOUS
      <3>2. ASSUME NEW k \in (i + o + 1)..(j + o) PROVE t[k] = Break \/ Joined(t, k)
        <4>1. k - o \in 1..m /\ k - o \in (i + 1)..j /\ (k - o) + o = k
          BY <3>1
        <4>2. PICK l \in 1..m : l = k - o /\ l \in (i + 1)..j /\ l + o = k
          BY <4>1
        <4>3. t[k] = c[l] /\ (Joined(t, k) <=> Joined(c, l))
          BY <1>2, <4>2
        <4> QED
          BY <3>1, <4>2, <4>3
      <3>3. j + o \in 1..n /\ j + o >= i + o /\ t[j + o] # Break
        BY <3>1
      <3> QED
        BY <3>2, <3>3
    <2>2. ASSUME NEW x \in Run(t, i + o) PROVE \E j \in Run(c, i) : x = j + o
      <3>1. /\ x \in 1..n /\ x >= i + o /\ t[x] # Break
            /\ \A k \in (i + o + 1)..x : t[k] = Break \/ Joined(t, k)
        OBVIOUS
      <3> HIDE DEF Run
      <3>2. x <= o + m
        <4> SUFFICES ASSUME x > o + m PROVE FALSE
          BY <3>1
        <4> DEFINE beyond == {k \in 1..n : k > o + m /\ t[k] # Break}
        <4>1. beyond \in SUBSET Nat /\ beyond # {} /\ x \in beyond
          BY <3>1
        <4>2. PICK y \in beyond : \A k \in beyond : y <= k
          BY <4>1, LeastOf
        <4>3. y \in 1..n /\ y > o + m /\ t[y] # Break /\ y <= x
          BY <4>1, <4>2
        <4>4. y \in (i + o + 1)..x
          BY <3>1, <4>3
        <4>5. Joined(t, y)
          BY <3>1, <4>3, <4>4
        <4>6. PICK p \in 1..n : Thousands(t[y]) /\ Leads(t[p]) /\ Follows(t, p, y)
          BY <4>5 DEF Joined
        <4>7. t[p] # Break
          BY <4>6, BreakPlain
        <4>8. p \notin (o + 1)..(o + m)
          BY <4>3, <4>6
        <4>9. p < y /\ \A k \in (p + 1)..(y - 1) : t[k] = Break
          BY <4>6 DEF Follows
        <4>10. CASE p > o + m
          <5>1. p \in beyond
            BY <4>7, <4>10
          <5> QED
            BY <4>2, <4>3, <4>9, <5>1
        <4>11. CASE p <= o
          <5>1. i + o \in (p + 1)..(y - 1) /\ t[i + o] = c[i]
            BY <4>3, <4>11
          <5> QED
            BY <1>3, <4>9, <5>1
        <4> QED
          BY <4>8, <4>10, <4>11
      <3>3. PICK j \in 1..m : x = j + o
        <4>1. x - o \in 1..m /\ (x - o) + o = x
          BY <1>00, <3>1, <3>2
        <4> QED
          BY <4>1
      <3>4. ASSUME NEW k \in (i + 1)..j PROVE c[k] = Break \/ Joined(c, k)
        <4>1. k \in 1..m /\ k + o \in (i + o + 1)..x
          BY <3>3
        <4>2. t[k + o] = c[k] /\ (Joined(t, k + o) <=> Joined(c, k))
          BY <1>2, <4>1
        <4> QED
          BY <3>1, <4>1, <4>2
      <3>5. j >= i /\ c[j] # Break
        BY <3>1, <3>3
      <3> QED
        BY <3>3, <3>4, <3>5 DEF Run
    <2> HIDE DEF Run
    <2> QED
      BY <2>1, <2>2
  <1>4. ASSUME NEW i \in 1..m, c[i] # Break PROVE Tokenize(t, i + o) = Tokenize(c, i)
    <2>1. Run(t, i + o) = {j + o : j \in Run(c, i)}
      BY <1>3, <1>4
    <2>2. Run(t, i + o) \in SUBSET (1..n) /\ Run(c, i) \in SUBSET (1..m)
      OBVIOUS
    <2>t. /\ Tokenize(t, i + o) = IF IsNumber(t[i + o])
                THEN Number([k \in DOMAIN Taken(t, Run(t, i + o)) |-> Taken(t, Run(t, i + o))[k].groups[1]]) ELSE t[i + o]
          /\ Tokenize(c, i) = IF IsNumber(c[i])
                THEN Number([k \in DOMAIN Taken(c, Run(c, i)) |-> Taken(c, Run(c, i))[k].groups[1]]) ELSE c[i]
      BY Zenon DEF Tokenize
    <2> HIDE DEF Run
    <2>3. PICK from, at : from = Run(c, i) /\ at = Run(t, i + o)
      OBVIOUS
    <2>4. /\ from \in SUBSET (1..m) /\ at \in SUBSET (1..n)
          /\ Shifted(t, at, c, from, o)
      BY <2>1, <2>2, <2>3 DEF Shifted
    <2>5. Taken(t, at) = Taken(c, from)
      <3>1. \A a \in SUBSET (1..n) : \A f \in SUBSET (1..m) : \A p \in Nat : \A s, q :
              Shifted(s, a, q, f, p) => Taken(s, a) = Taken(q, f)
        BY TakenShifted
      <3>2. \A s, q : Shifted(s, at, q, from, o) => Taken(s, at) = Taken(q, from)
        BY <2>4, <3>1
      <3> QED
        BY <2>4, <3>2
    <2>6. Taken(t, Run(t, i + o)) = Taken(c, Run(c, i))
      BY <2>3, <2>5
    <2>7. t[i + o] = c[i]
      OBVIOUS
    <2> QED
      BY <2>t, <2>6, <2>7, SMTT(20)
  <1> QED
    BY <1>2, <1>4

\* What is written in c is what is written in t, o places further.
InkAt(t, c, m, o) ==
    /\ \A i \in 1..m : i \in DOMAIN Ink(c) <=> i + o \in DOMAIN Ink(t)
    /\ \A i \in DOMAIN Ink(c) : i \in 1..m /\ Ink(c)[i] = Ink(t)[i + o]

(* And so is what is written there. *)
LEMMA InkWithin ==
    ASSUME NEW t, NEW n \in Nat, NEW c, NEW m \in Nat, NEW o \in Nat, Within(t, n, c, m, o)
    PROVE  InkAt(t, c, m, o)
  <1>1. \A i \in 1..m : /\ Joined(t, i + o) <=> Joined(c, i)
                        /\ c[i] # Break => Tokenize(t, i + o) = Tokenize(c, i)
    BY TokensWithin, Z3
  <1>2. DOMAIN t = 1..n /\ DOMAIN c = 1..m /\ \A i \in 1..m : i + o \in 1..n /\ t[i + o] = c[i]
    BY DEF Within
  <1>3. /\ \A i : i \in DOMAIN Ink(c) <=> i \in 1..m /\ c[i] # Break /\ ~Joined(c, i)
        /\ \A i : i \in DOMAIN Ink(t) <=> i \in 1..n /\ t[i] # Break /\ ~Joined(t, i)
        /\ \A i \in DOMAIN Ink(c) : Ink(c)[i] = Tokenize(c, i)
        /\ \A i \in DOMAIN Ink(t) : Ink(t)[i] = Tokenize(t, i)
    BY <1>2 DEF Ink
  <1>4. ASSUME NEW i \in 1..m PROVE i \in DOMAIN Ink(c) <=> i + o \in DOMAIN Ink(t)
    BY <1>1, <1>2, <1>3
  <1>5. ASSUME NEW i \in DOMAIN Ink(c) PROVE i \in 1..m /\ Ink(c)[i] = Ink(t)[i + o]
    <2>1. i \in 1..m /\ c[i] # Break
      BY <1>3
    <2>2. i + o \in DOMAIN Ink(t)
      BY <1>4, <2>1
    <2> QED
      BY <1>1, <1>3, <2>1, <2>2
  <1> QED
    BY <1>4, <1>5 DEF InkAt

\* Where each of n lists begins when they are put one after another.
Offsets(at, n, seqs, whole) ==
    /\ at \in [1..(n + 1) -> Nat] /\ at[1] = 0
    /\ \A i \in 1..n : at[i + 1] = at[i] + Len(seqs[i])
    /\ \A i, j \in 1..(n + 1) : i <= j => at[i] <= at[j]
    /\ DOMAIN whole = 1..at[n + 1]
    /\ \A i \in 1..n : \A k \in 1..Len(seqs[i]) : whole[at[i] + k] = seqs[i][k]
    /\ \A x \in 1..at[n + 1] : \E i \in 1..n : at[i] < x /\ x <= at[i + 1]

(* Each of the lists is a part of the whole. *)
LEMMA FlattenOffsets ==
    ASSUME NEW S, NEW n \in Nat \ {0}, NEW seqs \in [1..n -> Seq(S)]
    PROVE  FlattenSeq(seqs) \in Seq(S) /\ \E at : Offsets(at, n, seqs, FlattenSeq(seqs))
  <1>1. PICK f : Joins(f, n, S, seqs) /\ FlattenSeq(seqs) = f[n]
    BY Flattened
  <1>j. /\ f \in [1..n -> Seq(S)] /\ f[1] = seqs[1]
        /\ \A i \in 1..n : i # 1 => f[i] = f[i - 1] \o seqs[i]
    BY <1>1 DEF Joins
  <1> DEFINE at == [i \in 1..(n + 1) |-> IF i = 1 THEN 0 ELSE Len(f[i - 1])]
  <1>2. \A i \in 1..n : /\ f[i] \in Seq(S) /\ Len(f[i]) \in Nat /\ DOMAIN f[i] = 1..Len(f[i])
                        /\ seqs[i] \in Seq(S) /\ Len(seqs[i]) \in Nat /\ DOMAIN seqs[i] = 1..Len(seqs[i])
    <2> TAKE i \in 1..n
    <2>1. f[i] \in Seq(S) /\ seqs[i] \in Seq(S)
      BY <1>j
    <2> QED
      BY <2>1, LenProperties
  <1>3. \A i \in 1..(n + 1) : i # 1 => i - 1 \in 1..n
    OBVIOUS
  <1>4. at \in [1..(n + 1) -> Nat] /\ at[1] = 0 /\ \A i \in 1..n : at[i + 1] = Len(f[i])
    <2>1. \A i \in 1..(n + 1) : at[i] \in Nat
      BY <1>2, <1>3
    <2>2. \A i \in 1..n : i + 1 \in 1..(n + 1) /\ i + 1 # 1 /\ (i + 1) - 1 = i
      OBVIOUS
    <2>3. \A i \in 1..n : at[i + 1] = Len(f[i])
      BY <2>2
    <2>4. 1 \in 1..(n + 1)
      OBVIOUS
    <2> QED
      BY <2>1, <2>3, <2>4
  <1> HIDE DEF at
  <1>5. ASSUME NEW i \in 1..n
        PROVE  /\ at[i + 1] = at[i] + Len(seqs[i])
               /\ \A k \in 1..Len(seqs[i]) : f[i][at[i] + k] = seqs[i][k]
               /\ i # 1 => /\ \A x \in 1..at[i] : f[i][x] = f[i - 1][x]
                           /\ at[i] = Len(f[i - 1])
    <2>1. CASE i = 1
      BY <1>j, <1>2, <1>4, <2>1
    <2>2. CASE i # 1
      <3>1. PICK j \in 1..n : j = i - 1 /\ i = j + 1
        BY <2>2
      <3>2. f[i] = f[j] \o seqs[i] /\ at[i] = Len(f[j])
        BY <1>j, <1>4, <2>2, <3>1
      <3>3. PICK p, q : p = f[j] /\ q = seqs[i]
        OBVIOUS
      <3>4. p \in Seq(S) /\ q \in Seq(S) /\ Len(p) \in Nat /\ Len(q) \in Nat
        BY <1>2, <3>3
      <3>5. /\ Len(p \o q) = Len(p) + Len(q)
            /\ \A k \in 1..Len(p) : (p \o q)[k] = p[k]
            /\ \A k \in 1..Len(q) : (p \o q)[Len(p) + k] = q[k]
        <4>1. /\ Len(p \o q) = Len(p) + Len(q)
              /\ \A k \in 1..(Len(p) + Len(q)) : (p \o q)[k] = IF k <= Len(p) THEN p[k] ELSE q[k - Len(p)]
          BY <3>4, ConcatProperties
        <4>2. \A k \in 1..Len(q) : Len(p) + k \in 1..(Len(p) + Len(q)) /\ ~(Len(p) + k <= Len(p)) /\ (Len(p) + k) - Len(p) = k
          BY <3>4
        <4>3. \A k \in 1..Len(p) : k \in 1..(Len(p) + Len(q)) /\ k <= Len(p)
          BY <3>4
        <4> QED
          BY <4>1, <4>2, <4>3
      <3>6. f[i] = p \o q /\ at[i] = Len(p) /\ at[i + 1] = Len(p \o q) /\ f[i - 1] = p
        BY <1>4, <3>1, <3>2, <3>3
      <3> QED
        BY <3>3, <3>5, <3>6
    <2> QED
      BY <2>1, <2>2
  <1>6. \A i, j \in 1..(n + 1) : i <= j => at[i] <= at[j]
    <2> DEFINE T == {m \in Nat : \A i, j \in 1..(n + 1) : i <= j /\ j <= m => at[i] <= at[j]}
    <2>1. 0 \in T
      OBVIOUS
    <2>2. ASSUME NEW m \in Nat, m \in T PROVE m + 1 \in T
      <3>1. ASSUME NEW i \in 1..(n + 1), NEW j \in 1..(n + 1), i <= j, j <= m + 1 PROVE at[i] <= at[j]
        <4>0. at[i] \in Nat /\ at[j] \in Nat
          BY <1>4
        <4>1. CASE i = j
          BY <4>0, <4>1
        <4>2. CASE i # j
          <5>1. j - 1 \in 1..n /\ j - 1 \in 1..(n + 1) /\ i <= j - 1 /\ j - 1 <= m /\ (j - 1) + 1 = j
            BY <3>1, <4>2
          <5>2. PICK l \in 1..n : l = j - 1
            BY <5>1
          <5>3. at[i] <= at[l]
            BY <2>2, <5>1, <5>2
          <5>4. at[j] = at[l] + Len(seqs[l]) /\ Len(seqs[l]) \in Nat
            BY <1>2, <1>5, <5>1, <5>2
          <5>5. at[l] \in Nat
            BY <1>4
          <5> QED
            BY <4>0, <5>3, <5>4, <5>5
        <4> QED
          BY <4>1, <4>2
      <3> QED
        BY <3>1
    <2>3. n + 1 \in T
      <3> HIDE DEF T
      <3> QED
        BY <2>1, <2>2, InductionOnSet
    <2> QED
      BY <2>3
  <1>7. \A i \in 1..n : \A k \in 1..Len(seqs[i]) : f[n][at[i] + k] = seqs[i][k]
    <2> DEFINE Agrees(j) == \A i \in 1..n : i <= j => \A k \in 1..Len(seqs[i]) : f[j][at[i] + k] = seqs[i][k]
               T == {m \in Nat : \A j \in 1..n : j <= m => Agrees(j)}
    <2>1. 0 \in T
      OBVIOUS
    <2>2. ASSUME NEW m \in Nat, m \in T PROVE m + 1 \in T
      <3>1. ASSUME NEW j \in 1..n, j <= m + 1, NEW i \in 1..n, i <= j, NEW k \in 1..Len(seqs[i])
            PROVE  f[j][at[i] + k] = seqs[i][k]
        <4>1. CASE i = j
          BY <1>5, <4>1
        <4>2. CASE i # j
          <5>1. j # 1 /\ j - 1 \in 1..n /\ i <= j - 1 /\ j - 1 <= m
            BY <3>1, <4>2
          <5>2. PICK l \in 1..n : l = j - 1
            BY <5>1
          <5>3. f[l][at[i] + k] = seqs[i][k]
            BY <2>2, <5>1, <5>2
          <5>4. at[i + 1] <= at[j] /\ at[i + 1] = at[i] + Len(seqs[i]) /\ at[i] \in Nat /\ Len(seqs[i]) \in Nat /\ at[j] \in Nat
            <6>1. i + 1 \in 1..(n + 1) /\ j \in 1..(n + 1) /\ i \in 1..(n + 1) /\ i + 1 <= j
              BY <3>1, <4>2
            <6> QED
              BY <1>2, <1>4, <1>5, <1>6, <6>1
          <5>5. at[i] + k \in 1..at[j]
            BY <5>4
          <5>6. f[j][at[i] + k] = f[j - 1][at[i] + k]
            BY <1>5, <5>1, <5>5
          <5> QED
            BY <5>2, <5>3, <5>6
        <4> QED
          BY <4>1, <4>2
      <3> QED
        BY <3>1
    <2>3. n \in T
      <3> HIDE DEF T
      <3> QED
        BY <2>1, <2>2, InductionOnSet
    <2> QED
      BY <2>3
  <1>8. ASSUME NEW x \in 1..at[n + 1] PROVE \E i \in 1..n : at[i] < x /\ x <= at[i + 1]
    <2> DEFINE past == {i \in 1..n : x <= at[i + 1]}
    <2>0. at[n + 1] \in Nat /\ x \in Nat
      BY <1>4
    <2>1. n \in past /\ past \in SUBSET Nat
      BY <2>0
    <2>2. PICK i \in past : \A j \in past : i <= j
      BY <2>1, LeastOf
    <2>3. i \in 1..n /\ x <= at[i + 1]
      OBVIOUS
    <2>4. CASE i = 1
      BY <1>4, <2>0, <2>3, <2>4
    <2>5. CASE i # 1
      <3>1. i - 1 \in 1..n /\ (i - 1) + 1 = i /\ ~(i <= i - 1)
        BY <2>3, <2>5
      <3>2. i - 1 \notin past
        BY <2>2, <3>1
      <3>3. ~(x <= at[i])
        BY <3>1, <3>2
      <3>4. at[i] \in Nat
        BY <1>4, <2>3
      <3> QED
        BY <2>0, <2>3, <3>3, <3>4
    <2> QED
      BY <2>4, <2>5
  <1>9. f[n] \in Seq(S) /\ DOMAIN f[n] = 1..at[n + 1]
    BY <1>2, <1>4
  <1>10. Offsets(at, n, seqs, f[n])
    <2>1. \A i \in 1..n : at[i + 1] = at[i] + Len(seqs[i])
      BY <1>5
    <2> QED
      BY <1>4, <1>6, <1>7, <1>8, <1>9, <2>1 DEF Offsets
  <1> QED
    BY <1>1, <1>9, <1>10

\* A book: each chapter after the ones before it, with a blank after it.
Laid(book, at, chapters, n) ==
    /\ DOMAIN chapters = 1..n /\ at \in [1..(n + 1) -> Nat]
    /\ \A i \in 1..n : /\ DOMAIN chapters[i] = 1..Len(chapters[i]) /\ Len(chapters[i]) \in Nat
                       /\ at[i + 1] = at[i] + Len(chapters[i]) + 1
                       /\ \A k \in 1..Len(chapters[i]) : book[at[i] + k] = chapters[i][k]
    /\ \A i, j \in 1..(n + 1) : i <= j => at[i] <= at[j]

(* A number that runs on in a book does so within a chapter, unless one runs on over its end. *)
LEMMA RunsWithin ==
    ASSUME NEW chapters, NEW n \in Nat, NEW at, NEW book, Laid(book, at, chapters, n), ~NumberRunsOn(chapters),
           NEW i \in 1..n, NEW l \in 1..n, NEW a \in 1..Len(chapters[i]), NEW b \in 1..Len(chapters[l]),
           Leads(chapters[i][a]), Thousands(chapters[l][b]), Follows(book, at[i] + a, at[l] + b)
    PROVE  i = l
  <1>d. DOMAIN chapters = 1..n
    BY DEF Laid
  <1>c. \A x \in 1..n : /\ DOMAIN chapters[x] = 1..Len(chapters[x]) /\ Len(chapters[x]) \in Nat
                        /\ at[x + 1] = at[x] + Len(chapters[x]) + 1 /\ at[x] \in Nat /\ at[x + 1] \in Nat
    <2>1. \A x \in 1..n : x \in 1..(n + 1) /\ x + 1 \in 1..(n + 1)
      OBVIOUS
    <2>2. \A x \in 1..(n + 1) : at[x] \in Nat
      BY DEF Laid
    <2>3. \A x \in 1..n : /\ DOMAIN chapters[x] = 1..Len(chapters[x]) /\ Len(chapters[x]) \in Nat
                          /\ at[x + 1] = at[x] + Len(chapters[x]) + 1
      BY Zenon DEF Laid
    <2> QED
      BY <2>1, <2>2, <2>3
  <1>p. \A x \in 1..n : \A k \in 1..Len(chapters[x]) : book[at[x] + k] = chapters[x][k]
    BY DEF Laid
  <1>m. ASSUME NEW x \in 1..n, NEW y \in 1..n, x < y PROVE at[x + 1] <= at[y]
    <2>1. \A u, v \in 1..(n + 1) : u <= v => at[u] <= at[v]
      BY DEF Laid
    <2>2. x + 1 \in 1..(n + 1) /\ y \in 1..(n + 1) /\ x + 1 <= y
      BY <1>m
    <2> QED
      BY <2>1, <2>2
  <1>0. PICK u, v, A, B : u = at[i] /\ v = at[l] /\ A = Len(chapters[i]) /\ B = Len(chapters[l])
    OBVIOUS
  <1>n. /\ u \in Nat /\ v \in Nat /\ A \in Nat /\ B \in Nat /\ a \in 1..A /\ b \in 1..B
        /\ at[i + 1] = u + A + 1 /\ at[l + 1] = v + B + 1
        /\ DOMAIN chapters[i] = 1..A /\ DOMAIN chapters[l] = 1..B
    BY <1>0, <1>c
  <1>1. u + a < v + b /\ \A k \in (u + a + 1)..((v + b) - 1) : book[k] = Break
    BY <1>0, Zenon DEF Follows
  <1>2. ~(l < i)
    <2> SUFFICES ASSUME l < i PROVE FALSE
      OBVIOUS
    <2>1. v + B + 1 <= u
      BY <1>m, <1>n, <1>0
    <2> QED
      BY <1>n, <1>1, <2>1
  <1>3. ASSUME i < l PROVE FALSE
    <2>1. u + A + 1 <= v
      BY <1>m, <1>n, <1>0, <1>3
    <2>2. EndsLeading(chapters[i])
      <3>1. ASSUME NEW k \in (a + 1)..A PROVE chapters[i][k] = Break
        <4>1. k \in 1..A /\ u + k \in (u + a + 1)..((v + b) - 1)
          BY <1>n, <2>1
        <4>2. book[u + k] = chapters[i][k]
          BY <1>0, <1>p, <4>1
        <4> QED
          BY <1>1, <4>1, <4>2
      <3> QED
        BY <1>0, <1>n, <3>1 DEF EndsLeading
    <2>3. BeginsThousands(chapters[l])
      <3>1. ASSUME NEW k \in 1..(b - 1) PROVE chapters[l][k] = Break
        <4>1. k \in 1..B /\ v + k \in (u + a + 1)..((v + b) - 1)
          BY <1>n, <2>1
        <4>2. book[v + k] = chapters[l][k]
          BY <1>0, <1>p, <4>1
        <4> QED
          BY <1>1, <4>1, <4>2
      <3> QED
        BY <1>n, <3>1 DEF BeginsThousands
    <2>4. ASSUME NEW k \in (i + 1)..(l - 1) PROVE Blank(chapters[k])
      <3>1. k \in 1..n /\ i < k /\ k < l
        OBVIOUS
      <3>2. PICK w, C : w = at[k] /\ C = Len(chapters[k])
        OBVIOUS
      <3>3. u + A + 1 <= w /\ w + C + 1 <= v /\ w \in Nat /\ C \in Nat /\ DOMAIN chapters[k] = 1..C
        BY <1>0, <1>c, <1>m, <1>n, <3>1, <3>2
      <3>4. ASSUME NEW q \in 1..C PROVE chapters[k][q] = Break
        <4>1. w + q \in (u + a + 1)..((v + b) - 1)
          BY <1>n, <3>3
        <4>2. book[w + q] = chapters[k][q]
          BY <1>p, <3>1, <3>2
        <4> QED
          BY <1>1, <4>1, <4>2
      <3> QED
        BY <3>3, <3>4 DEF Blank
    <2> QED
      BY <1>3, <1>d, <2>2, <2>3, <2>4 DEF NumberRunsOn
  <1> QED
    BY <1>2, <1>3

(* The blank around a text is not written. *)
LEMMA TrimAlike ==
    ASSUME NEW S, NEW text \in Seq(S)
    PROVE  Alike(Ink(TrimSpace(text)), Ink(text))
  <1> DEFINE N == Len(text)  kept == {i \in DOMAIN text : text[i] # Break}
  <1>1. N \in Nat /\ DOMAIN text = 1..N
    BY LenProperties
  <1>2. CASE Blank(text)
    <2>1. TrimSpace(text) = <<>>
      BY <1>2 DEF TrimSpace
    <2>2. DOMAIN Ink(text) = {} /\ DOMAIN Ink(TrimSpace(text)) = {}
      BY <1>2, <2>1 DEF Ink, Blank
    <2>3. Pairs(<<>>, Ink(TrimSpace(text)), Ink(text))
      BY <2>2 DEF Pairs
    <2> QED
      BY <2>3 DEF Alike
  <1>3. CASE ~Blank(text)
    <2>1. kept # {} /\ kept \in SUBSET (1..N)
      BY <1>1, <1>3 DEF Blank
    <2> HIDE DEF kept
    <2>2. PICK a \in kept : \A i \in kept : a <= i
      BY <1>1, <2>1, LeastOf
    <2>3. \E b \in kept : \A i \in kept : i <= b
      <3> DEFINE T == {N - i : i \in kept}
      <3>1. T \in SUBSET Nat /\ T # {}
        BY <1>1, <2>1
      <3>2. PICK x \in T : \A y \in T : x <= y
        BY <3>1, LeastOf
      <3>3. PICK b \in kept : x = N - b
        BY <3>2
      <3>4. \A i \in kept : N - b <= N - i
        BY <3>2, <3>3
      <3>5. \A i \in kept : i \in 1..N
        BY <2>1
      <3> QED
        BY <1>1, <3>3, <3>4, <3>5
    <2>4. PICK b \in kept : \A i \in kept : i <= b
      BY <2>3
    <2>5. Min(kept) = a
      <3>1. Min(kept) \in kept /\ \A i \in kept : Min(kept) <= i
        BY <2>2, Zenon DEF Min
      <3>2. PICK p : p = Min(kept)
        OBVIOUS
      <3>3. p \in 1..N /\ a \in 1..N /\ p <= a /\ a <= p
        BY <2>1, <2>2, <3>1, <3>2
      <3> QED
        BY <1>1, <3>2, <3>3
    <2>6. Max(kept) = b
      <3>0. \A i \in kept : b >= i
        BY <2>1, <2>4
      <3>1. Max(kept) \in kept /\ \A i \in kept : Max(kept) >= i
        BY <3>0, Zenon DEF Max
      <3>2. PICK p : p = Max(kept)
        OBVIOUS
      <3>3. p \in 1..N /\ b \in 1..N /\ p >= b /\ b >= p
        BY <2>1, <3>0, <3>1, <3>2
      <3> QED
        BY <1>1, <3>2, <3>3
    <2> DEFINE t == SubSeq(text, a, b)
    <2>7. TrimSpace(text) = t
      BY <1>3, <2>5, <2>6 DEF TrimSpace, kept
    <2>8. a \in 1..N /\ b \in 1..N /\ a <= b
      BY <2>1, <2>2, <2>4
    <2>9. t \in Seq(S) /\ Len(t) = b - a + 1 /\ \A i \in 1..(b - a + 1) : t[i] = text[a + i - 1]
      BY <1>1, <2>8, SubSeqProperties
    <2>10. DOMAIN t = 1..(b - a + 1)
      BY <2>9, LenProperties
    <2> HIDE DEF t
    <2>11. PICK o, m : o = a - 1 /\ m = b - a + 1
      OBVIOUS
    <2>12. o \in Nat /\ m \in Nat /\ o + 1 = a /\ o + m = b /\ o + m <= N
      BY <1>1, <2>8, <2>11
    <2>13. DOMAIN t = 1..m /\ \A i \in 1..m : t[i] = text[i + o]
      <3>1. \A i \in 1..m : a + i - 1 = i + o
        BY <1>1, <2>8, <2>11
      <3> QED
        BY <2>9, <2>10, <2>11, <3>1
    <2>14. \A i \in 1..N : text[i] # Break => i \in (o + 1)..(o + m)
      <3> SUFFICES ASSUME NEW i \in 1..N, text[i] # Break PROVE i \in (o + 1)..(o + m)
        OBVIOUS
      <3>1. i \in kept
        BY <1>1 DEF kept
      <3> QED
        BY <1>1, <2>2, <2>4, <2>8, <2>12, <3>1
    <2>15. ASSUME NEW j \in 1..N, NEW i \in 1..N, Leads(text[j]), Thousands(text[i])
           PROVE  j \in (o + 1)..(o + m) /\ i \in (o + 1)..(o + m)
      BY <2>14, <2>15, BreakPlain
    <2>16. Within(text, N, t, m, o)
      BY <1>1, <2>12, <2>13, <2>15 DEF Within
    <2>17. /\ \A i \in 1..m : i \in DOMAIN Ink(t) <=> i + o \in DOMAIN Ink(text)
           /\ \A i \in DOMAIN Ink(t) : i \in 1..m /\ Ink(t)[i] = Ink(text)[i + o]
      <3>1. InkAt(text, t, m, o)
        BY <1>1, <2>12, <2>16, InkWithin
      <3> QED
        BY <3>1, Zenon DEF InkAt
    <2>18. ASSUME NEW j \in DOMAIN Ink(text) PROVE \E i \in DOMAIN Ink(t) : i + o = j
      <3>1. j \in 1..N /\ text[j] # Break
        BY <1>1 DEF Ink
      <3>2. j \in (o + 1)..(o + m)
        BY <2>14, <3>1
      <3>3. j - o \in 1..m /\ (j - o) + o = j
        BY <2>12, <3>2
      <3> QED
        BY <2>17, <3>3
    <2> DEFINE h == [i \in DOMAIN Ink(t) |-> i + o]
    <2>19. h \in [DOMAIN Ink(t) -> DOMAIN Ink(text)] /\ \A i \in DOMAIN Ink(t) : h[i] = i + o
      BY <2>17
    <2> HIDE DEF h
    <2>20. \A i, j \in DOMAIN Ink(t) : h[i] = h[j] => i = j
      BY <2>12, <2>17, <2>19
    <2>21. Pairs(h, Ink(t), Ink(text))
      BY <2>17, <2>18, <2>19, <2>20 DEF Pairs
    <2> QED
      BY <2>7, <2>21 DEF Alike
  <1> QED
    BY <1>2, <1>3

(* What is written of a book is what is written of its chapters. *)
LEMMA BookAlike ==
    ASSUME NEW chapters, IsTable(chapters), chapters # <<>>, ~NumberRunsOn(chapters),
           \A i \in DOMAIN chapters : IsTable(chapters[i])
    PROVE  Alike(Ink(TrimSpace(FlattenSeq([i \in DOMAIN chapters |-> Append(chapters[i], Break)]))),
                 Entries([i \in DOMAIN chapters |-> Ink(chapters[i])]))
  <1> DEFINE n == Len(chapters)
             S == (UNION {Distinct(chapters[i]) : i \in DOMAIN chapters}) \cup {Break}
             parts == [i \in DOMAIN chapters |-> Append(chapters[i], Break)]
             book == FlattenSeq(parts)
             F == [i \in DOMAIN chapters |-> Ink(chapters[i])]
  <1>1. n \in Nat \ {0} /\ DOMAIN chapters = 1..n
    BY DEF IsTable
  <1>2. ASSUME NEW i \in 1..n
        PROVE  /\ parts[i] \in Seq(S) /\ DOMAIN parts[i] = 1..(Len(chapters[i]) + 1)
               /\ Len(chapters[i]) \in Nat /\ DOMAIN chapters[i] = 1..Len(chapters[i])
               /\ parts[i][Len(chapters[i]) + 1] = Break
               /\ \A k \in DOMAIN chapters[i] : parts[i][k] = chapters[i][k]
    <2>1. PICK text : text = chapters[i]
      OBVIOUS
    <2>2. IsTable(text)
      BY <1>1, <2>1
    <2>3. text \in Seq(S) /\ Len(text) \in Nat /\ DOMAIN text = 1..Len(text)
      <3>1. text \in Seq(Distinct(text))
        BY <2>2 DEF IsTable, Distinct
      <3>2. Distinct(text) \subseteq S
        BY <1>1, <2>1
      <3> HIDE DEF S
      <3>3. text \in [1..Len(text) -> Distinct(text)] /\ Len(text) \in Nat /\ DOMAIN text = 1..Len(text)
        BY <3>1, LenProperties
      <3>4. text \in [1..Len(text) -> S]
        BY <3>2, <3>3
      <3> QED
        BY <3>3, <3>4, SeqDef
    <2>4. parts[i] = Append(text, Break) /\ Break \in S
      <3>1. Break \in S
        OBVIOUS
      <3> HIDE DEF S
      <3> QED
        BY <1>1, <2>1, <3>1
    <2> HIDE DEF parts, S
    <2>5. Append(text, Break) \in Seq(S) /\ Len(Append(text, Break)) = Len(text) + 1
      BY <2>3, <2>4
    <2>6. DOMAIN parts[i] = 1..(Len(text) + 1)
      BY <2>4, <2>5, LenProperties
    <2>7. parts[i][Len(text) + 1] = Break /\ \A k \in 1..Len(text) : parts[i][k] = text[k]
      BY <2>3, <2>4
    <2> QED
      BY <2>1, <2>3, <2>4, <2>5, <2>6, <2>7
  <1>3. parts \in [1..n -> Seq(S)]
    <2> HIDE DEF S
    <2>1. \A i \in 1..n : parts[i] \in Seq(S)
      BY <1>2
    <2> QED
      BY <1>1, <2>1
  <1>5. DOMAIN F = 1..n /\ \A i \in 1..n : F[i] = Ink(chapters[i])
    BY <1>1
  <1> HIDE DEF parts, S, n, F
  <1>6. book \in Seq(S) /\ \E at : Offsets(at, n, parts, book)
    BY <1>1, <1>3, FlattenOffsets
  <1>7. Alike(Ink(TrimSpace(book)), Ink(book))
    BY <1>6, TrimAlike
  <1>8. PICK at : Offsets(at, n, parts, book)
    BY <1>6
  <1> HIDE DEF book
  <1>9. PICK N : N = at[n + 1]
    OBVIOUS
  <1>10. /\ at \in [1..(n + 1) -> Nat]
         /\ \A i, j \in 1..(n + 1) : i <= j => at[i] <= at[j]
         /\ DOMAIN book = 1..N
    BY <1>8, <1>9, Zenon DEF Offsets
  <1>11. ASSUME NEW i \in 1..n
         PROVE  /\ at[i] \in Nat /\ at[i + 1] = at[i] + Len(chapters[i]) + 1 /\ at[i + 1] <= N
                /\ \A k \in 1..Len(chapters[i]) : book[at[i] + k] = chapters[i][k]
                /\ book[at[i + 1]] = Break
    <2>1. i \in 1..(n + 1) /\ i + 1 \in 1..(n + 1) /\ n + 1 \in 1..(n + 1) /\ i + 1 <= n + 1
      BY <1>1
    <2>2. /\ at[i + 1] = at[i] + Len(parts[i])
          /\ \A k \in 1..Len(parts[i]) : book[at[i] + k] = parts[i][k]
      BY <1>8, Zenon DEF Offsets
    <2>3. PICK p, L : p = parts[i] /\ L = Len(chapters[i])
      OBVIOUS
    <2>4. p \in Seq(S) /\ L \in Nat /\ DOMAIN p = 1..(L + 1) /\ p[L + 1] = Break
          /\ \A k \in 1..L : p[k] = chapters[i][k]
      BY <1>2, <2>3
    <2>5. Len(p) = L + 1
      <3>1. DOMAIN p = 1..Len(p) /\ Len(p) \in Nat
        BY <2>4, LenProperties
      <3> QED
        BY <2>4, <3>1
    <2>6. at[i] \in Nat /\ at[i + 1] <= N
      BY <1>9, <1>10, <2>1
    <2>7. at[i + 1] = at[i] + (L + 1) /\ \A k \in 1..(L + 1) : book[at[i] + k] = p[k]
      BY <2>2, <2>3, <2>5
    <2>8. at[i] + (L + 1) = at[i] + L + 1 /\ L + 1 \in 1..(L + 1) /\ \A k \in 1..L : k \in 1..(L + 1)
      BY <2>4, <2>6
    <2> QED
      BY <2>3, <2>4, <2>6, <2>7, <2>8
  <1>12. Laid(book, at, chapters, n)
    <2>1. \A i \in 1..n : /\ DOMAIN chapters[i] = 1..Len(chapters[i]) /\ Len(chapters[i]) \in Nat
                          /\ at[i + 1] = at[i] + Len(chapters[i]) + 1
                          /\ \A k \in 1..Len(chapters[i]) : book[at[i] + k] = chapters[i][k]
      BY <1>2, <1>11
    <2> QED
      BY <1>1, <1>10, <2>1, Zenon DEF Laid
  <1>13. ASSUME NEW x \in 1..N, book[x] # Break
         PROVE  \E i \in 1..n : \E k \in 1..Len(chapters[i]) : x = at[i] + k /\ book[x] = chapters[i][k]
    <2>1. PICK i \in 1..n : at[i] < x /\ x <= at[i + 1]
      BY <1>8, <1>9, Zenon DEF Offsets
    <2>2. PICK L : L = Len(chapters[i]) /\ L \in Nat
      BY <1>2
    <2>3. at[i] \in Nat /\ at[i + 1] = at[i] + L + 1 /\ book[at[i + 1]] = Break
      BY <1>11, <2>2
    <2>4. x # at[i + 1] /\ x \in Int
      BY <1>13, <2>3
    <2>5. PICK k \in 1..L : x = at[i] + k
      <3>1. x - at[i] \in 1..L /\ x = at[i] + (x - at[i])
        BY <2>1, <2>3, <2>4, <2>2
      <3> QED
        BY <3>1
    <2>6. book[x] = chapters[i][k]
      BY <1>11, <2>2, <2>5
    <2> QED
      BY <2>2, <2>5, <2>6
  <1>14. ASSUME NEW i \in 1..n, NEW l \in 1..n, NEW a \in 1..Len(chapters[i]), NEW b \in 1..Len(chapters[l]),
                at[i] + a = at[l] + b
         PROVE  i = l /\ a = b
    <2>1. PICK u, v, A, B : u = at[i] /\ v = at[l] /\ A = Len(chapters[i]) /\ B = Len(chapters[l])
      OBVIOUS
    <2>2. u \in Nat /\ v \in Nat /\ A \in Nat /\ B \in Nat /\ a \in 1..A /\ b \in 1..B /\ u + a = v + b
      BY <1>2, <1>11, <1>14, <2>1
    <2>3. ASSUME NEW x \in 1..n, NEW y \in 1..n, x < y PROVE at[x] + Len(chapters[x]) + 1 <= at[y]
      <3>1. x + 1 \in 1..(n + 1) /\ y \in 1..(n + 1) /\ x + 1 <= y
        BY <1>1, <2>3
      <3>2. at[x + 1] <= at[y]
        BY <1>10, <3>1
      <3> QED
        BY <1>11, <3>2
    <2>4. i < l => u + A + 1 <= v
      BY <2>1, <2>3
    <2>5. l < i => v + B + 1 <= u
      BY <2>1, <2>3
    <2>6. ~(i < l) /\ ~(l < i)
      BY <2>2, <2>4, <2>5
    <2>7. i = l
      BY <1>1, <2>6
    <2> QED
      BY <2>1, <2>2, <2>7
  <1>15. ASSUME NEW i \in 1..n
         PROVE  Within(book, N, chapters[i], Len(chapters[i]), at[i])
    <2>1. PICK u, L : u = at[i] /\ L = Len(chapters[i])
      OBVIOUS
    <2>2. /\ u \in Nat /\ L \in Nat /\ u + L + 1 <= N /\ DOMAIN chapters[i] = 1..L
          /\ \A k \in 1..L : book[u + k] = chapters[i][k]
      BY <1>2, <1>11, <2>1
    <2>3. u + L <= N /\ \A k \in 1..L : book[k + u] = chapters[i][k]
      <3>1. \A k \in 1..L : k + u = u + k
        BY <2>2
      <3>2. N \in Int
        BY <1>1, <1>9, <1>10
      <3> QED
        BY <2>2, <3>1, <3>2
    <2>4. ASSUME NEW j \in 1..N, NEW x \in 1..N, Leads(book[j]), Thousands(book[x]), Follows(book, j, x)
          PROVE  j \in (u + 1)..(u + L) <=> x \in (u + 1)..(u + L)
      <3>1. book[j] # Break /\ book[x] # Break
        BY <2>4, BreakPlain
      <3>2. PICK p \in 1..n : \E k \in 1..Len(chapters[p]) : j = at[p] + k /\ book[j] = chapters[p][k]
        BY <1>13, <3>1
      <3>3. PICK a \in 1..Len(chapters[p]) : j = at[p] + a /\ book[j] = chapters[p][a]
        BY <3>2
      <3>4. PICK q \in 1..n : \E k \in 1..Len(chapters[q]) : x = at[q] + k /\ book[x] = chapters[q][k]
        BY <1>13, <3>1
      <3>5. PICK b \in 1..Len(chapters[q]) : x = at[q] + b /\ book[x] = chapters[q][b]
        BY <3>4
      <3>6. Leads(chapters[p][a]) /\ Thousands(chapters[q][b]) /\ Follows(book, at[p] + a, at[q] + b)
        BY <2>4, <3>3, <3>5
      <3>7. p = q
        BY <1>1, <1>12, <3>6, RunsWithin, Z3
      <3>8. j \in (u + 1)..(u + L) <=> p = i
        <4>1. ASSUME j \in (u + 1)..(u + L) PROVE p = i
          <5>1. j - u \in 1..L /\ j = u + (j - u)
            BY <2>2, <4>1
          <5> QED
            BY <1>14, <2>1, <3>3, <5>1
        <4>2. ASSUME p = i PROVE j \in (u + 1)..(u + L)
          BY <2>1, <2>2, <3>3, <4>2
        <4> QED
          BY <4>1, <4>2
      <3>9. x \in (u + 1)..(u + L) <=> q = i
        <4>1. ASSUME x \in (u + 1)..(u + L) PROVE q = i
          <5>1. x - u \in 1..L /\ x = u + (x - u)
            BY <2>2, <4>1
          <5> QED
            BY <1>14, <2>1, <3>5, <5>1
        <4>2. ASSUME q = i PROVE x \in (u + 1)..(u + L)
          BY <2>1, <2>2, <3>5, <4>2
        <4> QED
          BY <4>1, <4>2
      <3> QED
        BY <3>7, <3>8, <3>9
    <2> QED
      BY <1>10, <2>1, <2>2, <2>3, <2>4 DEF Within
  <1>16. ASSUME NEW i \in 1..n
         PROVE  /\ \A k \in 1..Len(chapters[i]) : k \in DOMAIN F[i] <=> at[i] + k \in DOMAIN Ink(book)
                /\ \A k \in DOMAIN F[i] : k \in 1..Len(chapters[i]) /\ F[i][k] = Ink(book)[at[i] + k]
    <2>1. PICK u, L, c : u = at[i] /\ L = Len(chapters[i]) /\ c = chapters[i]
      OBVIOUS
    <2>2. u \in Nat /\ L \in Nat /\ N \in Nat
      BY <1>1, <1>2, <1>9, <1>10, <1>11, <2>1
    <2>3. Within(book, N, c, L, u)
      BY <1>15, <2>1
    <2>4. /\ \A k \in 1..L : k \in DOMAIN Ink(c) <=> k + u \in DOMAIN Ink(book)
          /\ \A k \in DOMAIN Ink(c) : k \in 1..L /\ Ink(c)[k] = Ink(book)[k + u]
      <3>1. InkAt(book, c, L, u)
        BY <2>2, <2>3, InkWithin
      <3> QED
        BY <3>1, Zenon DEF InkAt
    <2>5. F[i] = Ink(c) /\ \A k \in 1..L : k + u = u + k
      BY <1>5, <2>1, <2>2
    <2> QED
      BY <2>1, <2>4, <2>5
  <1>17. /\ \A p : p \in DOMAIN Entries(F) <=> \E i \in DOMAIN F : \E k \in DOMAIN F[i] : p = <<i, k>>
         /\ \A p \in DOMAIN Entries(F) : Entries(F)[p] = F[p[1]][p[2]]
    BY EntriesOf, Zenon
  <1>18. ASSUME NEW p \in DOMAIN Entries(F)
         PROVE  /\ p[1] \in 1..n /\ p[2] \in 1..Len(chapters[p[1]]) /\ p = <<p[1], p[2]>>
                /\ at[p[1]] + p[2] \in DOMAIN Ink(book) /\ Entries(F)[p] = Ink(book)[at[p[1]] + p[2]]
    <2>1. PICK i \in 1..n : \E k \in DOMAIN F[i] : p = <<i, k>>
      BY <1>5, <1>17
    <2>2. PICK k \in DOMAIN F[i] : p = <<i, k>>
      BY <2>1
    <2>3. k \in 1..Len(chapters[i]) /\ F[i][k] = Ink(book)[at[i] + k] /\ at[i] + k \in DOMAIN Ink(book)
      BY <1>16
    <2>4. p[1] = i /\ p[2] = k
      BY <2>2
    <2>5. Entries(F)[p] = F[i][k]
      BY <1>17, <2>4
    <2> QED
      BY <2>2, <2>3, <2>4, <2>5
  <1>19. ASSUME NEW x \in DOMAIN Ink(book) PROVE \E p \in DOMAIN Entries(F) : at[p[1]] + p[2] = x
    <2>1. x \in 1..N /\ book[x] # Break
      BY <1>10 DEF Ink
    <2>2. PICK i \in 1..n : \E k \in 1..Len(chapters[i]) : x = at[i] + k
      BY <1>13, <2>1
    <2>3. PICK k \in 1..Len(chapters[i]) : x = at[i] + k
      BY <2>2
    <2>4. k \in DOMAIN F[i]
      BY <1>16, <2>3
    <2>5. <<i, k>> \in DOMAIN Entries(F)
      BY <1>5, <1>17, <2>4
    <2> QED
      BY <2>3, <2>5
  <1> DEFINE h == [p \in DOMAIN Entries(F) |-> at[p[1]] + p[2]]
  <1>20. h \in [DOMAIN Entries(F) -> DOMAIN Ink(book)] /\ \A p \in DOMAIN Entries(F) : h[p] = at[p[1]] + p[2]
    BY <1>18
  <1> HIDE DEF h
  <1>21. ASSUME NEW p \in DOMAIN Entries(F), NEW q \in DOMAIN Entries(F), h[p] = h[q] PROVE p = q
    <2>1. PICK i \in 1..n : i = p[1]
      BY <1>18
    <2>2. PICK l \in 1..n : l = q[1]
      BY <1>18
    <2>3. PICK a \in 1..Len(chapters[i]) : a = p[2] /\ p = <<i, a>>
      BY <1>18, <2>1
    <2>4. PICK b \in 1..Len(chapters[l]) : b = q[2] /\ q = <<l, b>>
      BY <1>18, <2>2
    <2>5. at[i] + a = at[l] + b
      BY <1>20, <1>21, <2>1, <2>2, <2>3, <2>4
    <2>6. i = l /\ a = b
      BY <1>14, <2>5
    <2> QED
      BY <2>3, <2>4, <2>6
  <1>22. Pairs(h, Entries(F), Ink(book))
    <2>1. \A c \in DOMAIN Ink(book) : \E p \in DOMAIN Entries(F) : h[p] = c
      BY <1>19, <1>20
    <2>2. \A p \in DOMAIN Entries(F) : Entries(F)[p] = Ink(book)[h[p]]
      BY <1>18, <1>20
    <2> QED
      BY <1>20, <1>21, <2>1, <2>2 DEF Pairs
  <1>23. Alike(Entries(F), Ink(book))
    BY <1>22 DEF Alike
  <1>24. Alike(Ink(book), Entries(F))
    BY <1>23, AlikeBack, Zenon
  <1>25. Alike(Ink(TrimSpace(book)), Entries(F))
    BY <1>7, <1>24, AlikeThen, Zenon
  <1> QED
    BY <1>25, Zenon DEF book, parts, F

-----------------------------------------------------------------------------
(* What an overview shows: the words of its input, counted.                *)

(* Words counted where the same is read are counted alike. *)
LEMMA TalliesSame ==
    ASSUME NEW a, NEW b, NEW read, Tallies(a, read), Tallies(b, read)
    PROVE  [k \in DOMAIN a |-> a[k].count] = [k \in DOMAIN b |-> b[k].count]
  BY DEF Tallies

(* Their counts add up to what is read. *)
LEMMA TalliesAddUp ==
    ASSUME NEW words, NEW read, Tallies(words, read), IsFiniteSet(DOMAIN read)
    PROVE  SumOf([k \in DOMAIN words |-> words[k].count]) = Cardinality(DOMAIN read)
  <1> DEFINE P == [k \in DOMAIN words |-> {p \in DOMAIN read : read[p] = k}]
             counts == [k \in DOMAIN words |-> words[k].count]
  <1>1. \A k \in DOMAIN P : IsFiniteSet(P[k]) /\ counts[k] = Cardinality(P[k])
    <2> TAKE k \in DOMAIN P
    <2>1. P[k] \in SUBSET (DOMAIN read)
      OBVIOUS
    <2>2. counts[k] = Cardinality(P[k])
      BY DEF Tallies
    <2> HIDE DEF P
    <2> QED
      BY <2>1, <2>2, FS_Subset
  <1>2. DOMAIN counts = DOMAIN P
    OBVIOUS
  <1>3. DOMAIN read = UNION {P[k] : k \in DOMAIN P}
    <2>1. \A p \in DOMAIN read : read[p] \in DOMAIN words
      BY DEF Tallies
    <2>2. \A p \in DOMAIN read : read[p] \in DOMAIN P /\ p \in P[read[p]]
      BY <2>1
    <2>3. \A k \in DOMAIN P : P[k] \subseteq DOMAIN read
      OBVIOUS
    <2> HIDE DEF P
    <2> QED
      BY <2>2, <2>3
  <1>4. \A k, l \in DOMAIN P : k # l => P[k] \cap P[l] = {}
    OBVIOUS
  <1> HIDE DEF P, counts
  <1>5. SumOf(counts) = Cardinality(DOMAIN read)
    BY <1>1, <1>2, <1>3, <1>4, SumOfSizes
  <1> QED
    BY <1>5 DEF counts

\* How often a word is among those counted.
CountIn(words, k) == IF k \in DOMAIN words THEN words[k].count ELSE 0

(* A word occurs in a book as often as in its chapters. *)
LEMMA BookTally ==
    ASSUME NEW chapters, NEW pick, NEW words,
           Tallies(words, WordsIn(Entries([i \in DOMAIN chapters |-> Ink(chapters[i])]), pick)),
           \A i \in DOMAIN chapters : IsFiniteSet(DOMAIN Ink(chapters[i])), IsFiniteSet(DOMAIN chapters),
           NEW own, DOMAIN own = DOMAIN chapters,
           \A i \in DOMAIN chapters : Tallies(own[i], WordsIn(Ink(chapters[i]), pick)),
           NEW k \in DOMAIN words
    PROVE  words[k].count = SumOf([i \in DOMAIN chapters |-> CountIn(own[i], k)])
  <1> DEFINE D == DOMAIN chapters
             F == [i \in D |-> Ink(chapters[i])]
             ink == Entries(F)
             read == WordsIn(ink, pick)
             part == [i \in D |-> WordsIn(F[i], pick)]
             at(i) == {x \in DOMAIN part[i] : part[i][x] = k}
             P == [i \in D |-> {<<i, x>> : x \in at(i)}]
             U == {p \in DOMAIN read : read[p] = k}
             counts == [i \in D |-> CountIn(own[i], k)]
  <1>1. words[k].count = Cardinality(U)
    BY DEF Tallies
  <1>2. /\ \A p : p \in DOMAIN ink <=> \E i \in D : \E x \in DOMAIN F[i] : p = <<i, x>>
        /\ \A p \in DOMAIN ink : ink[p] = F[p[1]][p[2]]
    BY EntriesOf
  <1>3. \A i \in D : /\ DOMAIN part[i] = {x \in DOMAIN F[i] : IsWord(Token(F[i][x], pick))}
                     /\ \A x \in DOMAIN part[i] : part[i][x] = Key(Token(F[i][x], pick))
    BY DEF WordsIn
  <1>4. /\ DOMAIN read = {p \in DOMAIN ink : IsWord(Token(ink[p], pick))}
        /\ \A p \in DOMAIN read : read[p] = Key(Token(ink[p], pick))
    BY DEF WordsIn
  <1>5. IsFiniteSet(DOMAIN ink)
    <2>1. IsFiniteSet(DOMAIN F) /\ \A i \in DOMAIN F : IsFiniteSet(DOMAIN F[i])
      OBVIOUS
    <2> HIDE DEF F
    <2> QED
      BY <2>1, EntriesFinite
  <1>6. \A i \in D : IsFiniteSet(DOMAIN part[i]) /\ Tallies(own[i], part[i])
    <2> TAKE i \in D
    <2>1. IsFiniteSet(DOMAIN F[i]) /\ Tallies(own[i], part[i])
      OBVIOUS
    <2> HIDE DEF F, part
    <2>2. DOMAIN part[i] \in SUBSET (DOMAIN F[i])
      BY <1>3
    <2> QED
      BY <2>1, <2>2, FS_Subset
  <1> HIDE DEF ink, read, part, F
  <1>7. \A i \in D : IsFiniteSet(at(i)) /\ counts[i] = Cardinality(at(i))
    <2> TAKE i \in D
    <2>1. at(i) \in SUBSET (DOMAIN part[i])
      OBVIOUS
    <2>2. IsFiniteSet(at(i))
      BY <1>6, <2>1, FS_Subset
    <2>3. CASE k \in DOMAIN own[i]
      <3>1. counts[i] = own[i][k].count
        BY <2>3 DEF CountIn
      <3> QED
        BY <1>6, <2>2, <2>3, <3>1 DEF Tallies
    <2>4. CASE k \notin DOMAIN own[i]
      <3>1. counts[i] = 0
        BY <2>4 DEF CountIn
      <3>2. at(i) = {}
        BY <1>6, <2>4 DEF Tallies
      <3>3. Cardinality(at(i)) = 0
        BY <3>2, FS_EmptySet
      <3> QED
        BY <2>2, <3>1, <3>3
    <2> QED
      BY <2>3, <2>4
  <1>8. \A p : p \in U <=> \E i \in D : \E x \in at(i) : p = <<i, x>>
    <2>1. ASSUME NEW p \in U PROVE \E i \in D : \E x \in at(i) : p = <<i, x>>
      <3>0. p \in DOMAIN ink /\ IsWord(Token(ink[p], pick)) /\ Key(Token(ink[p], pick)) = k
        BY <1>4
      <3>1. PICK i \in D : \E x \in DOMAIN F[i] : p = <<i, x>>
        BY <1>2, <3>0
      <3>2. PICK x \in DOMAIN F[i] : p = <<i, x>>
        BY <3>1
      <3>3. ink[p] = F[i][x]
        BY <1>2, <3>0, <3>2
      <3>4. x \in at(i)
        BY <1>3, <3>0, <3>3
      <3> QED
        BY <3>2, <3>4
    <2>2. ASSUME NEW i \in D, NEW x \in at(i) PROVE <<i, x>> \in U
      <3>1. x \in DOMAIN F[i] /\ IsWord(Token(F[i][x], pick)) /\ Key(Token(F[i][x], pick)) = k
        BY <1>3
      <3>2. <<i, x>> \in DOMAIN ink /\ ink[<<i, x>>] = F[i][x]
        BY <1>2, <3>1
      <3> QED
        BY <1>4, <3>1, <3>2
    <2> QED
      BY <2>1, <2>2
  <1>9. IsFiniteSet(U)
    <2>1. U \in SUBSET (DOMAIN ink)
      BY <1>4
    <2> QED
      BY <1>5, <2>1, FS_Subset
  <1> HIDE DEF U, counts
  <1>10. \A i \in D : IsFiniteSet(P[i]) /\ Cardinality(P[i]) = Cardinality(at(i))
    <2> TAKE i \in D
    <2> DEFINE A == at(i)
               f == [x \in A |-> <<i, x>>]
    <2>1. IsFiniteSet(A)
      BY <1>7
    <2>2. P[i] = {<<i, x>> : x \in A}
      OBVIOUS
    <2> HIDE DEF A, P, at
    <2>3. f \in Bijection(A, P[i])
      <3>1. f \in [A -> P[i]] /\ \A x \in A : f[x] = <<i, x>>
        BY <2>2
      <3>2. \A x, y \in A : f[x] = f[y] => x = y
        BY <3>1
      <3>3. \A c \in P[i] : \E x \in A : f[x] = c
        BY <2>2, <3>1
      <3> HIDE DEF f
      <3> QED
        BY <3>1, <3>2, <3>3 DEF Bijection, Injection, Surjection, IsInjective
    <2>4. ExistsBijection(A, P[i])
      BY <2>3 DEF ExistsBijection
    <2>5. IsFiniteSet(P[i]) /\ Cardinality(P[i]) = Cardinality(A)
      BY <2>1, <2>4, FS_Bijection, Zenon
    <2> QED
      BY <2>5 DEF A
  <1>11. U = UNION {P[i] : i \in DOMAIN P}
    BY <1>8
  <1>12. \A i, j \in DOMAIN P : i # j => P[i] \cap P[j] = {}
    OBVIOUS
  <1>13. DOMAIN P = D
    OBVIOUS
  <1> HIDE DEF P
  <1>14. DOMAIN counts = DOMAIN P /\ \A i \in DOMAIN P : IsFiniteSet(P[i]) /\ counts[i] = Cardinality(P[i])
    <2>1. DOMAIN counts = D
      BY DEF counts
    <2> QED
      BY <1>7, <1>10, <1>13, <2>1
  <1>15. SumOf(counts) = Cardinality(U)
    BY <1>9, <1>11, <1>12, <1>14, SumOfSizes
  <1> QED
    BY <1>1, <1>15 DEF counts

(* What is shown of some sentences counts their words. *)
LEMMA ShownTallies ==
    ASSUME NEW q, NEW S, NEW pick, NEW gloss, NEW now
    PROVE  LET ss == ResolveSentences(S, pick)
           IN  Tallies(ShownWords(q, ss, EnrichWords(ss, gloss), now), WordsIn(Entries(TextsOf(S)), pick))
  <1> DEFINE ss == ResolveSentences(S, pick)
             read == WordsIn(Entries(TextsOf(S)), pick)
             d == Dictionaries[q.expanded]
             alternatives == Alternatives(ParsedOf(q).sentences, d)
             words == ExpandSentencesToWords(ss, EnrichWords(ss, gloss), alternatives, d)
  <1>1. Tallies(EnrichWords(ss, gloss), read)
    BY EnrichTallies
  <1> HIDE DEF alternatives, d
  <1>2. Tallies(words, read)
    BY <1>1, ExpandTallies
  <1> HIDE DEF read
  <1>3. Tallies(ApplyLemmaStates(words, now.states), read)
    BY <1>2, MarkedTallies, Zenon
  <1>4. \/ ShownWords(q, ss, EnrichWords(ss, gloss), now) = words
        \/ ShownWords(q, ss, EnrichWords(ss, gloss), now) = ApplyLemmaStates(words, now.states)
    BY Zenon DEF ShownWords, alternatives, d
  <1> QED
    BY <1>2, <1>3, <1>4, Zenon DEF read

(* What a parse makes of a request. *)
LEMMA ParseMakes ==
    ASSUME NEW q
    PROVE  LET pick == Dictionaries[q.seen].pick[q.parser]
               gloss == Dictionaries[q.glossed].gloss
               ss == ResolveSentences(AnalyzedSentences(q.input), pick)
               p == ParsedOf(q)
           IN  /\ p.sentences = ss /\ p.words = EnrichWords(ss, gloss)
               /\ p.total = SumOf([k \in DOMAIN p.words |-> p.words[k].count])
               /\ p.chapters = ChapterResults(q.input, ss, gloss)
  BY DEF ParsedOf, Parsed

(* An overview of a text or a book counts its words, and the sums agree. *)
LEMMA OverviewShows ==
    ASSUME NEW q, WellFormed(q.input), ValidInput(q.input), NEW now
    PROVE  LET o == OverviewOf(q, now) IN
           /\ o.input = q.input /\ o.parser = q.parser /\ o.seen = q.seen
           /\ AddsUp(o) /\ Tallies(o.words, WordsIn(InkOf(o.input), PickSeen(o)))
  <1> DEFINE o == OverviewOf(q, now)
             p == ParsedOf(q)
             pick == Dictionaries[q.seen].pick[q.parser]
             gloss == Dictionaries[q.glossed].gloss
             S == AnalyzedSentences(q.input)
             ss == ResolveSentences(S, pick)
             read == WordsIn(InkOf(q.input), pick)
             chapters == q.input.chapters
             D == DOMAIN chapters
             ownOf(i) == Taken(S, {k \in DOMAIN S : S[k].chapter = i})
             part(i) == WordsIn(Ink(chapters[i]), pick)
  <1>1. /\ p.sentences = ss /\ p.words = EnrichWords(ss, gloss)
        /\ p.total = SumOf([k \in DOMAIN p.words |-> p.words[k].count])
        /\ p.chapters = ChapterResults(q.input, ss, gloss)
    BY ParseMakes
  <1>2. /\ o.input = q.input /\ o.parser = q.parser /\ o.seen = q.seen /\ o.total = p.total
        /\ o.words = ShownWords(q, p.sentences, p.words, now) /\ o.chapters = ShownChapters(q, now)
    BY DEF OverviewOf
  <1> HIDE DEF o, p
  <1>3. PickSeen(o) = pick
    BY <1>2 DEF PickSeen
  <1> HIDE DEF pick, gloss
  <1>4. IsText(q.input) \/ chapters # <<>>
    BY DEF ValidInput
  <1>5. Alike(Entries(TextsOf(S)), InkOf(q.input)) /\ IsFiniteSet(DOMAIN InkOf(q.input))
    BY <1>4, InputRead, InputFinite
  <1>6. IsFiniteSet(DOMAIN read)
    <2>1. DOMAIN read \in SUBSET (DOMAIN InkOf(q.input))
      BY DEF WordsIn
    <2> QED
      BY <1>5, <2>1, FS_Subset
  <1> HIDE DEF S
  <1>7. Alike(WordsIn(Entries(TextsOf(S)), pick), read)
    BY <1>5, ReadAlike
  <1>8. Tallies(p.words, read)
    <2>1. Tallies(EnrichWords(ss, gloss), WordsIn(Entries(TextsOf(S)), pick))
      BY EnrichTallies
    <2> HIDE DEF read, ss
    <2>2. Tallies(EnrichWords(ss, gloss), read)
      BY <1>6, <1>7, <2>1, TalliesAlike
    <2> QED
      BY <1>1, <2>2
  <1>9. Tallies(o.words, read)
    <2>1. Tallies(ShownWords(q, ss, EnrichWords(ss, gloss), now), WordsIn(Entries(TextsOf(S)), pick))
      BY ShownTallies
    <2> HIDE DEF read, ss
    <2>2. Tallies(ShownWords(q, ss, EnrichWords(ss, gloss), now), read)
      BY <1>6, <1>7, <2>1, TalliesAlike
    <2> QED
      BY <1>1, <1>2, <2>2
  <1>10. o.total = SumOf([k \in DOMAIN o.words |-> o.words[k].count])
    <2>1. [k \in DOMAIN p.words |-> p.words[k].count] = [k \in DOMAIN o.words |-> o.words[k].count]
      BY <1>8, <1>9, TalliesSame
    <2> QED
      BY <1>1, <1>2, <2>1
  <1>11. ASSUME ~IsText(q.input)
         PROVE  /\ DOMAIN o.chapters = D
                /\ \A i \in D : /\ Tallies(o.chapters[i].words, part(i))
                                /\ o.chapters[i].tokens = Cardinality(DOMAIN part(i))
                                /\ IsFiniteSet(DOMAIN part(i)) /\ IsFiniteSet(DOMAIN Ink(chapters[i]))
    <2> DEFINE own(i) == ResolveSentences(ownOf(i), pick)
               made == ChapterResults(q.input, ss, gloss)
    <2>1. Listed(S)
      BY <1>4, <1>11, ChaptersRead DEF S
    <2>2. \A i \in D : OfChapter(ss, i) = own(i)
      <3>1. ASSUME NEW i
            PROVE  OfChapter(ResolveSentences(S, pick), i)
                     = ResolveSentences(Taken(S, {k \in DOMAIN S : S[k].chapter = i}), pick)
        BY <2>1, OfChapterResolved
      <3> QED
        BY <3>1
    <2> DEFINE tokensOf(x) == Cardinality({y \in Places(x) : IsWord(At(x, y))})
               resolvedOf(x) == Cardinality({y \in {z \in Places(x) : IsWord(At(x, z))} : At(x, y).resolved})
    <2>3. made = [i \in D |->
            [sentences |-> Len(OfChapter(ss, i)), tokens |-> tokensOf(OfChapter(ss, i)),
             resolved |-> resolvedOf(OfChapter(ss, i)), words |-> EnrichWords(OfChapter(ss, i), gloss)]]
      BY <1>11, Zenon DEF ChapterResults
    <2> HIDE DEF tokensOf, resolvedOf, own, made, ss
    <2>4. DOMAIN made = D /\ \A i \in D :
             made[i].tokens = tokensOf(own(i)) /\ made[i].words = EnrichWords(own(i), gloss)
      BY <2>2, <2>3
    <2>5. o.chapters = [i \in DOMAIN made |->
            [sentences |-> made[i].sentences, tokens |-> made[i].tokens, resolved |-> made[i].resolved,
             words |-> ShownWords(q, OfChapter(ss, i), made[i].words, now)]]
      BY <1>1, <1>2, Zenon DEF ShownChapters, p, made, ss
    <2>6. DOMAIN o.chapters = D /\ \A i \in D :
             /\ o.chapters[i].tokens = tokensOf(own(i))
             /\ o.chapters[i].words = ShownWords(q, own(i), EnrichWords(own(i), gloss), now)
      BY <2>2, <2>4, <2>5
    <2>7. ASSUME NEW i \in D
          PROVE  /\ Tallies(o.chapters[i].words, part(i))
                 /\ o.chapters[i].tokens = Cardinality(DOMAIN part(i))
                 /\ IsFiniteSet(DOMAIN part(i)) /\ IsFiniteSet(DOMAIN Ink(chapters[i]))
      <3> DEFINE mine == WordsIn(Entries(TextsOf(ownOf(i))), pick)
                 yours == part(i)
      <3>1. Alike(Entries(TextsOf(ownOf(i))), Ink(chapters[i]))
        BY <1>11, ChapterRead, Zenon DEF S
      <3>2. Alike(mine, yours)
        BY <3>1, ReadAlike, Zenon
      <3>3. IsFiniteSet(DOMAIN Ink(chapters[i]))
        BY <1>11, InkFinite DEF WellFormed
      <3>4. IsFiniteSet(DOMAIN yours)
        <4>1. DOMAIN yours \in SUBSET (DOMAIN Ink(chapters[i]))
          BY DEF WordsIn
        <4> QED
          BY <3>3, <4>1, FS_Subset
      <3>5. Tallies(ShownWords(q, own(i), EnrichWords(own(i), gloss), now), mine)
        BY ShownTallies, Zenon DEF own
      <3>6. DOMAIN mine = {x \in Places(own(i)) : IsWord(At(own(i), x))}
        BY WordsRead, Zenon DEF own
      <3> HIDE DEF mine, yours
      <3>7. Tallies(ShownWords(q, own(i), EnrichWords(own(i), gloss), now), yours)
        BY <3>2, <3>4, <3>5, TalliesAlike, Zenon
      <3>8. Cardinality(DOMAIN mine) = Cardinality(DOMAIN yours)
        <4>1. Alike(yours, mine)
          BY <3>2, AlikeBack, Zenon
        <4> QED
          BY <3>4, <4>1, AlikeSize, Zenon
      <3>9. o.chapters[i].words = ShownWords(q, own(i), EnrichWords(own(i), gloss), now)
        BY <2>6
      <3>10. o.chapters[i].tokens = Cardinality(DOMAIN mine)
        BY <2>6, <3>6 DEF tokensOf
      <3> QED
        BY <3>3, <3>4, <3>7, <3>8, <3>9, <3>10 DEF yours
    <2> QED
      BY <2>6, <2>7
  <1>12. ASSUME ~IsText(q.input)
         PROVE  \A k \in DOMAIN o.words : o.words[k].count =
                   SumOf([i \in D |-> CountIn(o.chapters[i].words, k)])
    <2> DEFINE own == [i \in D |-> o.chapters[i].words]
    <2>1. Tallies(o.words, WordsIn(Entries([i \in DOMAIN chapters |-> Ink(chapters[i])]), pick))
      BY <1>9, <1>12 DEF InkOf
    <2>2. IsFiniteSet(DOMAIN chapters)
      <3>1. PICK c : c = chapters
        OBVIOUS
      <3>2. Len(c) \in Nat /\ DOMAIN c = 1..Len(c)
        BY <1>12, <3>1 DEF WellFormed, IsTable
      <3>3. IsFiniteSet(1..Len(c))
        BY <3>2, FS_Interval
      <3> QED
        BY <3>1, <3>2, <3>3
    <2>3. /\ \A i \in DOMAIN chapters : IsFiniteSet(DOMAIN Ink(chapters[i]))
          /\ \A i \in DOMAIN chapters : Tallies(own[i], WordsIn(Ink(chapters[i]), pick))
          /\ DOMAIN own = DOMAIN chapters
      BY <1>11, <1>12
    <2>4. \A i \in D : own[i] = o.chapters[i].words
      OBVIOUS
    <2> HIDE DEF own
    <2>5. ASSUME NEW k \in DOMAIN o.words
          PROVE  o.words[k].count = SumOf([i \in D |-> CountIn(own[i], k)])
      BY <2>1, <2>2, <2>3, BookTally
    <2> QED
      BY <2>4, <2>5
  <1>13. AddsUp(o)
    <2>1. CASE IsText(q.input)
      <3>1. o.input.kind # "chapters"
        BY <1>2, <2>1 DEF IsText
      <3> QED
        BY <1>10, <3>1 DEF AddsUp
    <2>2. CASE ~IsText(q.input)
      <3>1. DOMAIN o.chapters = DOMAIN o.input.chapters
        BY <1>2, <1>11, <2>2
      <3>2. \A k \in DOMAIN o.words : o.words[k].count =
              SumOf([i \in DOMAIN o.chapters |->
                       IF k \in DOMAIN o.chapters[i].words THEN o.chapters[i].words[k].count ELSE 0])
        BY <1>11, <1>12, <2>2, Zenon DEF CountIn
      <3>3. ASSUME NEW i \in DOMAIN o.chapters
            PROVE  /\ o.chapters[i].tokens = Cardinality(DOMAIN WordsIn(Ink(o.input.chapters[i]), PickSeen(o)))
                   /\ o.chapters[i].tokens =
                        SumOf([k \in DOMAIN o.chapters[i].words |-> o.chapters[i].words[k].count])
        <4>1. /\ Tallies(o.chapters[i].words, part(i)) /\ IsFiniteSet(DOMAIN part(i))
              /\ o.chapters[i].tokens = Cardinality(DOMAIN part(i))
          BY <1>11, <2>2
        <4>2. part(i) = WordsIn(Ink(o.input.chapters[i]), PickSeen(o))
          BY <1>2, <1>3
        <4> HIDE DEF part
        <4>3. SumOf([k \in DOMAIN o.chapters[i].words |-> o.chapters[i].words[k].count]) = Cardinality(DOMAIN part(i))
          BY <4>1, TalliesAddUp
        <4> QED
          BY <4>1, <4>2, <4>3
      <3> QED
        BY <1>10, <3>1, <3>2, <3>3, Zenon DEF AddsUp
    <2> QED
      BY <2>1, <2>2
  <1> QED
    BY <1>2, <1>3, <1>9, <1>13 DEF o, read

-----------------------------------------------------------------------------
(* What a deck contains: the words of its text.                            *)

\* The keys of cards, each at its place.
KeysOf(f) == [p \in DOMAIN f |-> f[p].key]

(* The cards of a deck are those of the sentences parsed. *)
LEMMA DeckAlike ==
    ASSUME NEW ss, Listed(ss), NEW alternatives
    PROVE  Alike(Entries(TokensOf(DeckSentences(ss, alternatives))), Entries(CardsOf(ss)))
  <1> DEFINE all == [k \in DOMAIN ss |-> [text |-> ss[k].text, tokens |-> CardsOf(ss)[k]]]
             kept == {k \in DOMAIN ss : CardsOf(ss)[k] # <<>> \/ ss[k].text # <<>>}
             base == DeckSentences(ss, alternatives)
             F == [k \in kept |-> all[k]]
  <1>1. base = Taken(all, kept)
    BY DeckTaken, Zenon
  <1>2. PICK n \in Nat : DOMAIN ss = 1..n
    BY DEF Listed
  <1>3. kept \in SUBSET (1..n)
    BY <1>2
  <1>4. \A k \in DOMAIN ss : k \notin kept => DOMAIN CardsOf(ss)[k] = {}
    <2>1. DOMAIN <<>> = {}
      OBVIOUS
    <2> QED
      BY <2>1
  <1>5. \A k \in DOMAIN ss : all[k].tokens = CardsOf(ss)[k]
    OBVIOUS
  <1> HIDE DEF all, kept, base
  <1>6. Alike(base, F)
    BY <1>1, <1>2, <1>3, TakenAlike, Zenon
  <1>7. PICK h : Pairs(h, base, F)
    BY <1>6 DEF Alike
  <1>8. Pairs(h, TokensOf(base), TokensOf(F))
    BY <1>7 DEF Pairs, TokensOf
  <1>9. Alike(TokensOf(base), TokensOf(F))
    BY <1>8 DEF Alike
  <1>10. Alike(Entries(TokensOf(base)), Entries(TokensOf(F)))
    BY <1>9, AlikeRows
  <1>11. DOMAIN TokensOf(F) = kept /\ \A k \in kept : TokensOf(F)[k] = CardsOf(ss)[k]
    BY <1>2, <1>3, <1>5 DEF TokensOf
  <1>12. DOMAIN CardsOf(ss) = DOMAIN ss
    BY DEF CardsOf
  <1> DEFINE X == TokensOf(F)  Y == CardsOf(ss)
  <1>13. /\ \A p : p \in DOMAIN Entries(X) <=> \E k \in DOMAIN X : \E i \in DOMAIN X[k] : p = <<k, i>>
         /\ \A p \in DOMAIN Entries(X) : Entries(X)[p] = X[p[1]][p[2]]
    BY EntriesOf, Zenon
  <1>14. /\ \A p : p \in DOMAIN Entries(Y) <=> \E k \in DOMAIN Y : \E i \in DOMAIN Y[k] : p = <<k, i>>
         /\ \A p \in DOMAIN Entries(Y) : Entries(Y)[p] = Y[p[1]][p[2]]
    BY EntriesOf, Zenon
  <1> HIDE DEF X, Y
  <1>15. DOMAIN X = kept /\ DOMAIN Y = DOMAIN ss /\ (\A k \in kept : X[k] = Y[k])
         /\ (\A k \in DOMAIN ss : k \notin kept => DOMAIN Y[k] = {}) /\ kept \subseteq DOMAIN ss
    BY <1>2, <1>3, <1>4, <1>11, <1>12 DEF X, Y
  <1>16. DOMAIN Entries(X) = DOMAIN Entries(Y)
    <2>1. \A p : p \in DOMAIN Entries(X) => p \in DOMAIN Entries(Y)
      BY <1>13, <1>14, <1>15
    <2>2. \A p : p \in DOMAIN Entries(Y) => p \in DOMAIN Entries(X)
      BY <1>13, <1>14, <1>15
    <2> QED
      BY <2>1, <2>2
  <1>17. \A p \in DOMAIN Entries(X) : Entries(X)[p] = Entries(Y)[p]
    <2> TAKE p \in DOMAIN Entries(X)
    <2>1. p[1] \in kept
      BY <1>13, <1>15
    <2> QED
      BY <1>13, <1>14, <1>15, <1>16, <2>1
  <1>18. Alike(Entries(X), Entries(Y))
    BY <1>16, <1>17, AlikeEntries
  <1>19. Alike(Entries(TokensOf(base)), Entries(Y))
    BY <1>10, <1>18, AlikeThen, Zenon DEF X
  <1> QED
    BY <1>19 DEF base, Y

(* The keys of alike cards. *)
LEMMA KeysAlike ==
    ASSUME NEW f, NEW g, Alike(f, g)
    PROVE  Alike(KeysOf(f), KeysOf(g))
  <1>1. PICK h : Pairs(h, f, g)
    BY DEF Alike
  <1>2. Pairs(h, KeysOf(f), KeysOf(g))
    BY <1>1 DEF Pairs, KeysOf
  <1> QED
    BY <1>2 DEF Alike

(* A sentence has a card for each of its words. *)
LEMMA CardsAlike ==
    ASSUME NEW tokens, Listed(tokens)
    PROVE  Alike(SetToSeq(OwnCards(tokens)),
                 [i \in {j \in DOMAIN tokens : IsWord(tokens[j])} |->
                    [ix |-> i, form |-> tokens[i].form, key |-> Key(tokens[i])]])
  <1> DEFINE C == OwnCards(tokens)
             s == SetToSeq(C)
             I == {j \in DOMAIN tokens : IsWord(tokens[j])}
             f == [i \in I |-> [ix |-> i, form |-> tokens[i].form, key |-> Key(tokens[i])]]
             h == [j \in DOMAIN s |-> s[j].ix]
  <1>1. Distinct(s) = C /\ IsInjective(s)
    BY OwnCardsFinite, SetAsList
  <1>2. \A c : c \in C <=> \E i \in I : c = f[i]
    BY DEF OwnCards
  <1>3. \A i \in I : f[i].ix = i
    OBVIOUS
  <1>4. DOMAIN f = I
    OBVIOUS
  <1> HIDE DEF s, C, f, I
  <1>5. \A j \in DOMAIN s : s[j] \in C
    BY <1>1 DEF Distinct
  <1>6. \A j \in DOMAIN s : h[j] = s[j].ix /\ h[j] \in I /\ s[j] = f[h[j]]
    BY <1>2, <1>3, <1>5
  <1>7. h \in [DOMAIN s -> I]
    BY <1>6
  <1> HIDE DEF h
  <1>8. \A j, l \in DOMAIN s : h[j] = h[l] => j = l
    BY <1>1, <1>6 DEF IsInjective
  <1>9. \A i \in I : \E j \in DOMAIN s : h[j] = i
    <2> TAKE i \in I
    <2>1. f[i] \in C
      BY <1>2
    <2>2. PICK j \in DOMAIN s : s[j] = f[i]
      BY <1>1, <2>1 DEF Distinct
    <2>3. h[j] = i
      BY <1>3, <1>6, <2>2
    <2> QED
      BY <2>3
  <1>10. Pairs(h, s, f)
    BY <1>4, <1>6, <1>7, <1>8, <1>9, Zenon DEF Pairs
  <1> QED
    BY <1>10 DEF Alike, s, C, f, I

(* Without senses to inject a deck keeps its cards. *)
LEMMA NothingInjected ==
    ASSUME NEW sentences, NEW d, \A n \in DOMAIN sentences : \E T : sentences[n].tokens \in Seq(T)
    PROVE  Alike(Entries(TokensOf(InjectSelectedSenses(sentences, {}, d))), Entries(TokensOf(sentences)))
  <1> DEFINE deck == InjectSelectedSenses(sentences, {}, d)
  <1>1. SetToSeq({}) = <<>>
    <2> DEFINE e == SetToSeq({})
    <2>1. IsFiniteSet({})
      BY FS_EmptySet
    <2>2. e \in Seq({}) /\ Distinct(e) = {}
      BY <2>1, SetAsList
    <2> HIDE DEF e
    <2>3. Len(e) \in Nat /\ DOMAIN e = 1..Len(e)
      BY <2>2, LenProperties
    <2>4. Len(e) = 0
      BY <2>2, <2>3 DEF Distinct
    <2> QED
      BY <2>2, <2>4 DEF e
  <1>2. deck = [n \in DOMAIN sentences |->
                  [text |-> sentences[n].text, tokens |-> sentences[n].tokens \o <<>>]]
    <2> DEFINE fresh(x) == {t \in {[ix |-> t.ix, form |-> t.form, key |-> s.key] : t \in Range(x.tokens),
                              s \in {v \in {} : v.surface \in DOMAIN d.meanings /\ v.key \in d.meanings[v.surface]}} :
                              [surface |-> t.form, key |-> t.key] \in
                                {v \in {} : v.surface \in DOMAIN d.meanings /\ v.key \in d.meanings[v.surface]}}
                           \ Range(x.tokens)
    <2>1. deck = [n \in DOMAIN sentences |->
                    [text |-> sentences[n].text, tokens |-> sentences[n].tokens \o SetToSeq(fresh(sentences[n]))]]
      BY DEF InjectSelectedSenses
    <2>2. \A x : fresh(x) = {}
      OBVIOUS
    <2> HIDE DEF fresh, deck
    <2> QED
      BY <1>1, <2>1, <2>2
  <1> HIDE DEF deck
  <1>3. \A n \in DOMAIN sentences : sentences[n].tokens \o <<>> = sentences[n].tokens
    <2> TAKE n \in DOMAIN sentences
    <2>1. PICK T : sentences[n].tokens \in Seq(T)
      OBVIOUS
    <2>2. PICK s \in Seq(T) : s = sentences[n].tokens
      BY <2>1
    <2>3. s \o <<>> = s
      OBVIOUS
    <2> QED
      BY <2>2, <2>3
  <1>4. DOMAIN TokensOf(deck) = DOMAIN TokensOf(sentences)
        /\ \A n \in DOMAIN TokensOf(deck) : TokensOf(deck)[n] = TokensOf(sentences)[n]
    BY <1>2, <1>3 DEF TokensOf
  <1> QED
    BY <1>4, AlikeEntries DEF deck

(* The words of a deck without selected senses are those of its text. *)
LEMMA DeckRead ==
    ASSUME NEW q, MadeOfText(q), q.selected = {}
    PROVE  Alike(KeysOf(Entries(TokensOf(Collected(q)))),
                 WordsIn(Ink(q.input.text), Dictionaries[q.seen].pick.custom))
  <1> DEFINE text == q.input.text
             pick == Dictionaries[q.seen].pick.custom
             S == ParsedSentences(text, 0)
             ss == ResolveSentences(S, pick)
             d == Dictionaries[q.offered]
             alternatives == Alternatives(ss, d)
             base == DeckSentences(ss, alternatives)
             deck == InjectSelectedSenses(base, {}, d)
             read == WordsIn(Entries(TextsOf(S)), pick)
             words(k) == [i \in {j \in DOMAIN ss[k].tokens : IsWord(ss[k].tokens[j])} |->
                            [ix |-> i, form |-> ss[k].tokens[i].form, key |-> Key(ss[k].tokens[i])]]
             W == [k \in DOMAIN ss |-> words(k)]
  <1>1. IsTable(text) /\ IsText(q.input) /\ q.parser = "custom"
    BY DEF MadeOfText
  <1>2. Collected(q) = deck
    <2>1. ParsedOf(q).sentences = ss
      BY <1>1 DEF ParsedOf, Parsed, AnalyzedSentences
    <2> HIDE DEF ss
    <2> QED
      BY <2>1 DEF Collected
  <1>3. Listed(S) /\ Alike(Entries(TextsOf(S)), Ink(text))
    BY <1>1, TextRead
  <1>4. DOMAIN ss = DOMAIN S /\ \A k \in DOMAIN S : DOMAIN ss[k].tokens = DOMAIN S[k].text
    BY DEF ResolveSentences
  <1>5. \A k \in DOMAIN S : Listed(S[k].text)
    <2>1. Listed(SplitSentences(text)) /\ \A k \in DOMAIN SplitSentences(text) : Listed(SplitSentences(text)[k])
      BY <1>1, SplitsIntoLists
    <2>2. DOMAIN S = DOMAIN SplitSentences(text) /\ \A k \in DOMAIN S : S[k].text = SplitSentences(text)[k]
      BY DEF ParsedSentences
    <2> QED
      BY <2>1, <2>2
  <1>6. DOMAIN read = {p \in Places(ss) : IsWord(At(ss, p))} /\ \A p \in DOMAIN read : read[p] = Key(At(ss, p))
    BY WordsRead
  <1> HIDE DEF ss, S, text, pick, read
  <1>7. Listed(ss) /\ \A k \in DOMAIN ss : Listed(ss[k].tokens)
    BY <1>3, <1>4, <1>5 DEF Listed
  <1>8. Alike(Entries(TokensOf(base)), Entries(CardsOf(ss)))
    BY <1>7, DeckAlike
  <1>9. \A n \in DOMAIN base : \E T : base[n].tokens \in Seq(T)
    <2> HIDE DEF alternatives
    <2>1. ASSUME NEW n \in DOMAIN base PROVE \E T : base[n].tokens \in Seq(T)
      <3>1. PICK k \in DOMAIN ss : base[n] = [text |-> ss[k].text, tokens |-> SetToSeq(OwnCards(ss[k].tokens))]
        BY <1>7, DeckTokens
      <3>2. IsFiniteSet(OwnCards(ss[k].tokens))
        BY <1>7, OwnCardsFinite
      <3>3. SetToSeq(OwnCards(ss[k].tokens)) \in Seq(OwnCards(ss[k].tokens))
        BY <3>2, SetAsList
      <3>4. base[n].tokens = SetToSeq(OwnCards(ss[k].tokens))
        BY <3>1
      <3> QED
        BY <3>3, <3>4
    <2> QED
      BY <2>1
  <1> HIDE DEF base
  <1>10. Alike(Entries(TokensOf(deck)), Entries(TokensOf(base)))
    BY <1>9, NothingInjected
  <1> HIDE DEF deck
  <1>11. Alike(Entries(TokensOf(deck)), Entries(CardsOf(ss)))
    BY <1>8, <1>10, AlikeThen, Zenon
  <1>12. Alike(Entries(CardsOf(ss)), Entries(W))
    <2>1. DOMAIN CardsOf(ss) = DOMAIN W /\ DOMAIN W = DOMAIN ss
      BY DEF CardsOf
    <2>2. ASSUME NEW k \in DOMAIN ss PROVE Alike(CardsOf(ss)[k], W[k])
      <3>1. CardsOf(ss)[k] = SetToSeq(OwnCards(ss[k].tokens)) /\ W[k] = words(k)
        BY DEF CardsOf
      <3>2. Alike(SetToSeq(OwnCards(ss[k].tokens)), words(k))
        BY <1>7, CardsAlike, Zenon
      <3> QED
        BY <3>1, <3>2, Zenon
    <2> HIDE DEF W
    <2> QED
      BY <2>1, <2>2, AlikeFamilies
  <1>13. /\ \A p : p \in DOMAIN Entries(W) <=> \E k \in DOMAIN W : \E i \in DOMAIN W[k] : p = <<k, i>>
         /\ \A p \in DOMAIN Entries(W) : Entries(W)[p] = W[p[1]][p[2]]
    BY EntriesOf, Zenon
  <1>14. /\ DOMAIN W = DOMAIN ss
         /\ \A k \in DOMAIN ss : DOMAIN W[k] = {j \in DOMAIN ss[k].tokens : IsWord(ss[k].tokens[j])}
         /\ \A k \in DOMAIN ss : \A i \in DOMAIN W[k] : W[k][i].key = Key(ss[k].tokens[i])
    OBVIOUS
  <1> HIDE DEF W
  <1>15. Alike(KeysOf(Entries(W)), read)
    <2>1. \A p : p \in Places(ss) <=> \E k \in DOMAIN ss : \E i \in DOMAIN ss[k].tokens : p = <<k, i>>
      BY DEF Places
    <2>2. DOMAIN KeysOf(Entries(W)) = DOMAIN Entries(W)
          /\ \A p \in DOMAIN Entries(W) : KeysOf(Entries(W))[p] = Entries(W)[p].key
      BY DEF KeysOf
    <2>3. \A p \in DOMAIN Entries(W) : p \in DOMAIN read
      <3> TAKE p \in DOMAIN Entries(W)
      <3>1. PICK k \in DOMAIN W : \E i \in DOMAIN W[k] : p = <<k, i>>
        BY <1>13
      <3>2. PICK i \in DOMAIN W[k] : p = <<k, i>>
        BY <3>1
      <3>3. k \in DOMAIN ss /\ i \in DOMAIN ss[k].tokens /\ IsWord(ss[k].tokens[i])
        BY <1>14
      <3>4. p \in Places(ss) /\ At(ss, p) = ss[k].tokens[i]
        BY <2>1, <3>2, <3>3 DEF At
      <3> QED
        BY <1>6, <3>3, <3>4
    <2>4. \A p \in DOMAIN read : p \in DOMAIN Entries(W)
      <3> TAKE p \in DOMAIN read
      <3>0. p \in Places(ss) /\ IsWord(At(ss, p))
        BY <1>6
      <3>1. PICK k \in DOMAIN ss : \E i \in DOMAIN ss[k].tokens : p = <<k, i>>
        BY <2>1, <3>0
      <3>2. PICK i \in DOMAIN ss[k].tokens : p = <<k, i>>
        BY <3>1
      <3>3. IsWord(ss[k].tokens[i])
        BY <3>0, <3>2 DEF At
      <3>4. k \in DOMAIN W /\ i \in DOMAIN W[k]
        BY <1>14, <3>3
      <3> QED
        BY <1>13, <3>2, <3>4
    <2>5. ASSUME NEW p \in DOMAIN Entries(W) PROVE Entries(W)[p].key = read[p]
      <3>1. PICK k \in DOMAIN W : \E i \in DOMAIN W[k] : p = <<k, i>>
        BY <1>13
      <3>2. PICK i \in DOMAIN W[k] : p = <<k, i>>
        BY <3>1
      <3>3. Entries(W)[p] = W[k][i]
        BY <1>13, <3>2
      <3>4. At(ss, p) = ss[k].tokens[i]
        BY <3>2 DEF At
      <3>5. W[k][i].key = Key(ss[k].tokens[i])
        BY <1>14
      <3> QED
        BY <1>6, <2>3, <3>3, <3>4, <3>5
    <2>6. DOMAIN KeysOf(Entries(W)) = DOMAIN read
      BY <2>2, <2>3, <2>4
    <2>7. \A p \in DOMAIN KeysOf(Entries(W)) : KeysOf(Entries(W))[p] = read[p]
      BY <2>2, <2>5
    <2> QED
      BY <2>6, <2>7, AlikeEntries
  <1>16. Alike(read, WordsIn(Ink(text), pick))
    BY <1>3, ReadAlike DEF read
  <1>17. Alike(Entries(TokensOf(deck)), Entries(W))
    BY <1>11, <1>12, AlikeThen, Zenon
  <1>18. Alike(KeysOf(Entries(TokensOf(deck))), KeysOf(Entries(W)))
    BY <1>17, KeysAlike
  <1>19. Alike(KeysOf(Entries(TokensOf(deck))), read)
    BY <1>15, <1>18, AlikeThen, Zenon
  <1>20. Alike(KeysOf(Entries(TokensOf(deck))), WordsIn(Ink(text), pick))
    BY <1>16, <1>19, AlikeThen, Zenon
  <1> QED
    BY <1>2, <1>20, Zenon DEF text, pick

(* What occurs in a deck is counted there. *)
LEMMA DeckCounts ==
    ASSUME NEW sentences, NEW words, Tallies(words, KeysOf(Entries(TokensOf(sentences))))
    PROVE  /\ DOMAIN words = {t.key : t \in UNION {Range(x.tokens) : x \in Range(sentences)}}
           /\ \A k \in DOMAIN words : words[k].count = OccurrencesOf(k, sentences)
  <1> DEFINE T == TokensOf(sentences)
             E == Entries(T)
             read == KeysOf(E)
  <1>1. DOMAIN T = DOMAIN sentences /\ \A n \in DOMAIN sentences : T[n] = sentences[n].tokens
    BY DEF TokensOf
  <1>2. /\ \A p : p \in DOMAIN E <=> \E n \in DOMAIN T : \E i \in DOMAIN T[n] : p = <<n, i>>
        /\ \A p \in DOMAIN E : E[p] = T[p[1]][p[2]]
    BY EntriesOf, Zenon
  <1> HIDE DEF E, T
  <1>3. DOMAIN read = DOMAIN E /\ \A p \in DOMAIN E : read[p] = E[p].key
    BY DEF KeysOf
  <1> HIDE DEF read
  <1>4. \A p : p \in DOMAIN read <=> \E n \in DOMAIN sentences : \E i \in DOMAIN sentences[n].tokens : p = <<n, i>>
    BY <1>1, <1>2, <1>3
  <1>5. ASSUME NEW n \in DOMAIN sentences, NEW i \in DOMAIN sentences[n].tokens
        PROVE  <<n, i>> \in DOMAIN read /\ read[<<n, i>>] = sentences[n].tokens[i].key
    <2>1. <<n, i>> \in DOMAIN read
      BY <1>4
    <2>2. E[<<n, i>>] = T[n][i]
      BY <1>2, <1>3, <2>1
    <2> QED
      BY <1>1, <1>3, <2>1, <2>2
  <1>6. {read[p] : p \in DOMAIN read} = {t.key : t \in UNION {Range(x.tokens) : x \in Range(sentences)}}
    <2> DEFINE all == UNION {Range(x.tokens) : x \in Range(sentences)}
    <2>1. \A t : t \in all <=> \E n \in DOMAIN sentences : \E i \in DOMAIN sentences[n].tokens : t = sentences[n].tokens[i]
      BY DEF Range
    <2> HIDE DEF all
    <2>2. ASSUME NEW p \in DOMAIN read PROVE \E t \in all : read[p] = t.key
      <3>1. PICK n \in DOMAIN sentences : \E i \in DOMAIN sentences[n].tokens : p = <<n, i>>
        BY <1>4
      <3>2. PICK i \in DOMAIN sentences[n].tokens : p = <<n, i>>
        BY <3>1
      <3> QED
        BY <1>5, <2>1, <3>2
    <2>3. ASSUME NEW t \in all PROVE \E p \in DOMAIN read : read[p] = t.key
      <3>1. PICK n \in DOMAIN sentences : \E i \in DOMAIN sentences[n].tokens : t = sentences[n].tokens[i]
        BY <2>1
      <3>2. PICK i \in DOMAIN sentences[n].tokens : t = sentences[n].tokens[i]
        BY <3>1
      <3> QED
        BY <1>5, <3>2
    <2> QED
      BY <2>2, <2>3 DEF all
  <1>7. ASSUME NEW k
        PROVE  {p \in DOMAIN read : read[p] = k}
                 = UNION {{<<n, i>> : i \in {j \in DOMAIN sentences[n].tokens : sentences[n].tokens[j].key = k}} :
                          n \in DOMAIN sentences}
    <2> DEFINE A == {p \in DOMAIN read : read[p] = k}
               B == UNION {{<<n, i>> : i \in {j \in DOMAIN sentences[n].tokens : sentences[n].tokens[j].key = k}} :
                          n \in DOMAIN sentences}
    <2>1. \A p : p \in B <=> \E n \in DOMAIN sentences : \E i \in DOMAIN sentences[n].tokens :
                                sentences[n].tokens[i].key = k /\ p = <<n, i>>
      OBVIOUS
    <2>2. \A p : p \in A <=> p \in DOMAIN read /\ read[p] = k
      OBVIOUS
    <2> HIDE DEF A, B
    <2>3. ASSUME NEW p \in A PROVE p \in B
      <3>1. PICK n \in DOMAIN sentences : \E i \in DOMAIN sentences[n].tokens : p = <<n, i>>
        BY <1>4, <2>2
      <3>2. PICK i \in DOMAIN sentences[n].tokens : p = <<n, i>>
        BY <3>1
      <3>3. sentences[n].tokens[i].key = k
        BY <1>5, <2>2, <3>2
      <3> QED
        BY <2>1, <3>2, <3>3
    <2>4. ASSUME NEW p \in B PROVE p \in A
      <3>1. PICK n \in DOMAIN sentences : \E i \in DOMAIN sentences[n].tokens :
                                sentences[n].tokens[i].key = k /\ p = <<n, i>>
        BY <2>1
      <3>2. PICK i \in DOMAIN sentences[n].tokens : sentences[n].tokens[i].key = k /\ p = <<n, i>>
        BY <3>1
      <3> QED
        BY <1>5, <2>2, <3>2
    <2> QED
      BY <2>3, <2>4 DEF A, B
  <1>8. /\ DOMAIN words = {read[p] : p \in DOMAIN read}
        /\ \A k \in DOMAIN words : words[k].count = Cardinality({p \in DOMAIN read : read[p] = k})
    BY Zenon DEF Tallies, read, E, T
  <1>9. \A k \in DOMAIN words : words[k].count = OccurrencesOf(k, sentences)
    BY <1>7, <1>8 DEF OccurrencesOf
  <1> QED
    BY <1>6, <1>8, <1>9

-----------------------------------------------------------------------------
(* An overview and a deck of the same text.                                *)

(* The chapters of a book that was loaded, whole or cut. *)
LEMMA BookLoaded ==
    ASSUME NEW file \in Uploads, file.kind = "epub"
    PROVE  LET got == HandleImportExtract(file)
           IN  /\ IsTable(got.chapters) /\ \A i \in DOMAIN got.chapters : IsTable(got.chapters[i])
               /\ got.truncated = TRUE \/
                    got.text = ExtractUploadedContent([kind |-> "epub", chapters |-> got.chapters]).text
  <1> DEFINE c == file.chapters
             text == TrimSpace(FlattenSeq([i \in DOMAIN c |-> Append(c[i], Break)]))
             got == HandleImportExtract(file)
  <1>1. IsTable(c) /\ \A i \in DOMAIN c : IsTable(c[i])
    BY UploadsAssumption
  <1>2. MaxImportChars \in Nat \ {0}
    BY IngestAssumption
  <1>3. ExtractUploadedContent(file) = [text |-> text, chapters |-> c]
    BY DEF ExtractUploadedContent
  <1>4. ExtractUploadedContent([kind |-> "epub", chapters |-> c]) = [text |-> text, chapters |-> c]
    BY DEF ExtractUploadedContent
  <1> HIDE DEF c, text
  <1>5. CASE Len(text) > MaxImportChars
    <2> DEFINE n == Len(c)  len == [i \in 1..n |-> Len(c[i])]
               cut == TruncateImportChapters(c, MaxImportChars)
    <2>1. got = [text |-> TruncateRunes(text, MaxImportChars), chapters |-> cut, truncated |-> TRUE]
      BY <1>3, <1>5 DEF HandleImportExtract
    <2>2. n \in Nat /\ DOMAIN c = 1..n
      BY <1>1 DEF IsTable
    <2> HIDE DEF n, got
    <2>3. got.chapters = cut /\ got.truncated = TRUE
      <3> HIDE DEF cut
      <3>1. got.chapters = cut
        BY <2>1
      <3>2. got.truncated = TRUE
        BY <2>1
      <3> QED
        BY <3>1, <3>2
    <2>4. ASSUME NEW i \in 1..n PROVE Len(c[i]) \in Nat
      <3>1. PICK t : t = c[i]
        OBVIOUS
      <3>2. IsTable(t)
        BY <1>1, <2>2, <3>1
      <3> QED
        BY <3>1, <3>2 DEF IsTable
    <2>5. len \in [1..n -> Nat] /\ \A i \in 1..n : IsTable(c[i]) /\ Len(c[i]) = len[i]
      BY <1>1, <2>2, <2>4
    <2> HIDE DEF len
    <2>6. PICK m \in Nat :
             /\ m <= n /\ (n # 0 => m # 0)
             /\ cut = [i \in 1..m |-> TruncateRunes(c[i], MaxImportChars - CharsBefore(c, i))]
             /\ \A i \in 1..m : MaxImportChars - CharsBefore(c, i) \in Nat
             /\ CharsBefore(cut, m + 1) \in Nat /\ CharsBefore(cut, m + 1) <= MaxImportChars
      BY <1>2, <2>2, <2>5, KeptChapters, Zenon
    <2> HIDE DEF cut
    <2>7. DOMAIN cut = 1..m
      BY <2>6
    <2>8. \A i \in 1..m : IsTable(cut[i])
      <3> TAKE i \in 1..m
      <3>1. i \in 1..n /\ MaxImportChars - CharsBefore(c, i) \in Nat
        BY <2>2, <2>6
      <3>2. IsTable(c[i])
        BY <2>5, <3>1
      <3>3. \E k \in Nat : IsTable(TruncateRunes(c[i], MaxImportChars - CharsBefore(c, i)))
        BY <3>1, <3>2, CutTo, Zenon
      <3> QED
        BY <2>6, <3>3
    <2>9. IsTable(cut)
      <3>1. cut \in [1..m -> Distinct(cut)]
        BY <2>6, <2>7 DEF Distinct
      <3>2. cut \in Seq(Distinct(cut))
        BY <3>1, SeqDef
      <3> QED
        BY <3>2 DEF IsTable, Distinct
    <2> QED
      BY <2>3, <2>7, <2>8, <2>9 DEF got
  <1>6. CASE ~(Len(text) > MaxImportChars)
    <2>1. got = [text |-> text, chapters |-> c, truncated |-> FALSE]
      BY <1>3, <1>6 DEF HandleImportExtract
    <2> HIDE DEF got
    <2>2. got.text = text /\ got.chapters = c
      BY <2>1
    <2> QED
      BY <1>1, <1>4, <2>2 DEF got
  <1> QED
    BY <1>5, <1>6

(* What is loaded of a file is well formed, and its chapters make up the   *)
(* text unless it was cut.                                                 *)
LEMMA LoadedChapters ==
    ASSUME NEW file \in Uploads
    PROVE  LET got == HandleImportExtract(file)
           IN  /\ WellFormed([kind |-> "chapters", chapters |-> got.chapters])
               /\ got.truncated = TRUE \/ got.chapters = <<>> \/
                    got.text = ExtractUploadedContent([kind |-> "epub", chapters |-> got.chapters]).text
  <1> DEFINE got == HandleImportExtract(file)
             input == [kind |-> "chapters", chapters |-> got.chapters]
  <1>1. ~IsText(input) /\ input.kind = "chapters" /\ input.chapters = got.chapters
    BY DEF IsText
  <1> HIDE DEF input
  <1>2. CASE file.kind = "epub"
    <2>1. /\ IsTable(got.chapters) /\ \A i \in DOMAIN got.chapters : IsTable(got.chapters[i])
          /\ got.truncated = TRUE \/
               got.text = ExtractUploadedContent([kind |-> "epub", chapters |-> got.chapters]).text
      BY <1>2, BookLoaded
    <2> HIDE DEF got
    <2>2. WellFormed(input)
      BY <1>1, <2>1 DEF WellFormed
    <2> QED
      BY <2>1, <2>2, Zenon DEF input, got
  <1>3. CASE file.kind # "epub"
    <2>1. got.chapters = <<>>
      BY <1>3, PlainParses
    <2> HIDE DEF got
    <2>2. IsTable(<<>>)
      <3>1. <<>> \in Seq({<<>>[i] : i \in DOMAIN <<>>})
        OBVIOUS
      <3> QED
        BY <3>1 DEF IsTable
    <2>3. WellFormed(input)
      BY <1>1, <2>1, <2>2 DEF WellFormed
    <2> QED
      BY <2>1, <2>3 DEF input, got
  <1> QED
    BY <1>2, <1>3

(* What is written of the text of a deck is written in the input of an     *)
(* overview of it: its own text, or the chapters it was loaded with.       *)
LEMMA SameInk ==
    ASSUME NEW input, WellFormed(input), ValidInput(input), NEW q, MadeOfText(q),
           input.kind = "text" => input = q.input,
           input.kind = "chapters" => ~NumberRunsOn(input.chapters) /\
              q.input.text = ExtractUploadedContent([kind |-> "epub", chapters |-> input.chapters]).text
    PROVE  Alike(Ink(q.input.text), InkOf(input))
  <1>1. CASE IsText(input)
    <2>1. InkOf(input) = Ink(q.input.text)
      BY <1>1 DEF InkOf, IsText
    <2> QED
      BY <2>1, AlikeSelf
  <1>2. CASE ~IsText(input)
    <2> DEFINE c == input.chapters
               book == TrimSpace(FlattenSeq([i \in DOMAIN c |-> Append(c[i], Break)]))
    <2>1. input.kind = "chapters" /\ IsTable(c) /\ \A i \in DOMAIN c : IsTable(c[i])
      BY <1>2 DEF WellFormed
    <2>2. c # <<>>
      BY <1>2 DEF ValidInput
    <2>3. ExtractUploadedContent([kind |-> "epub", chapters |-> c]).text = book
      BY DEF ExtractUploadedContent
    <2>4. q.input.text = book /\ ~NumberRunsOn(c)
      BY <2>1, <2>3
    <2>5. InkOf(input) = Entries([i \in DOMAIN c |-> Ink(c[i])])
      BY <1>2 DEF InkOf
    <2> HIDE DEF c
    <2>6. Alike(Ink(book), Entries([i \in DOMAIN c |-> Ink(c[i])]))
      BY <2>1, <2>2, <2>4, BookAlike
    <2> QED
      BY <2>4, <2>5, <2>6
  <1> QED
    BY <1>1, <1>2

(* So what counts the words of the one counts the occurrences of the other. *)
LEMMA SameCounts ==
    ASSUME NEW input, WellFormed(input), NEW q, MadeOfText(q), q.selected = {},
           Alike(Ink(q.input.text), InkOf(input)),
           NEW words, Tallies(words, WordsIn(InkOf(input), Dictionaries[q.seen].pick.custom))
    PROVE  LET sentences == Collected(q)
           IN  /\ DOMAIN words = {t.key : t \in UNION {Range(x.tokens) : x \in Range(sentences)}}
               /\ \A k \in DOMAIN words : words[k].count = OccurrencesOf(k, sentences)
  <1> DEFINE pick == Dictionaries[q.seen].pick.custom
             mine == KeysOf(Entries(TokensOf(Collected(q))))
             text == WordsIn(Ink(q.input.text), pick)
             read == WordsIn(InkOf(input), pick)
  <1>1. Alike(mine, text)
    BY DeckRead
  <1>2. Alike(text, read)
    BY ReadAlike
  <1>3. IsFiniteSet(DOMAIN read)
    <2>1. DOMAIN read \in SUBSET (DOMAIN InkOf(input))
      BY DEF WordsIn
    <2> QED
      BY <2>1, InputFinite, FS_Subset
  <1> HIDE DEF pick
  <1>4. Tallies(words, read)
    BY DEF pick
  <1> HIDE DEF mine, text, read
  <1>5. Alike(mine, read)
    BY <1>1, <1>2, AlikeThen, Zenon
  <1>6. Alike(read, mine)
    BY <1>5, AlikeBack, Zenon
  <1>7. IsFiniteSet(DOMAIN mine)
    BY <1>3, <1>6, AlikeSize, Zenon
  <1>8. Tallies(words, mine)
    BY <1>4, <1>6, <1>7, TalliesAlike, Zenon
  <1> QED
    BY <1>8, DeckCounts, Zenon DEF mine

(* So an overview of the text of a deck has its words. *)
LEMMA OverviewsMatch == IngestInv /\ OverviewInv => OverviewMatchesDeck
  <1> SUFFICES ASSUME IngestInv, OverviewInv PROVE OverviewMatchesDeck
    OBVIOUS
  <1>1. BookAddsUp
    BY Zenon DEF OverviewInv, BookAddsUp
  <1>2. ASSUME NEW d \in Saved, NEW o \in Overviews,
               d.request.selected = {}, o.parser = "custom", o.seen = d.request.seen,
               o.input.kind = "text" => o.input = d.request.input,
               o.input.kind = "chapters" => ~NumberRunsOn(o.input.chapters) /\
                  \E u \in Users : /\ loaded[u] # Idle /\ ~loaded[u].truncated
                                   /\ loaded[u].chapters = o.input.chapters
                                   /\ loaded[u].text = d.request.input.text
        PROVE  LET sentences == Collected(d.request)
               IN  /\ DOMAIN o.words = {t.key : t \in UNION {Range(x.tokens) : x \in Range(sentences)}}
                   /\ \A k \in DOMAIN o.words : o.words[k].count = OccurrencesOf(k, sentences)
    <2>1. MadeOfText(d.request)
      BY DEF IngestInv, Saved
    <2>2. WellFormed(o.input) /\ ValidInput(o.input) /\ Tallies(o.words, WordsIn(InkOf(o.input), PickSeen(o)))
      BY Zenon DEF OverviewInv
    <2>3. PICK q : q = d.request
      OBVIOUS
    <2>4. PickSeen(o) = Dictionaries[q.seen].pick.custom
      BY <1>2, <2>3 DEF PickSeen
    <2>5. o.input.kind = "chapters" => ~NumberRunsOn(o.input.chapters) /\
            q.input.text = ExtractUploadedContent([kind |-> "epub", chapters |-> o.input.chapters]).text
      <3> SUFFICES ASSUME o.input.kind = "chapters"
                   PROVE  ~NumberRunsOn(o.input.chapters) /\
                          q.input.text = ExtractUploadedContent([kind |-> "epub", chapters |-> o.input.chapters]).text
        OBVIOUS
      <3>1. PICK u \in Users : /\ loaded[u] # Idle /\ ~loaded[u].truncated
                               /\ loaded[u].chapters = o.input.chapters
                               /\ loaded[u].text = d.request.input.text
        BY <1>2, Zenon
      <3>2. o.input.chapters # <<>>
        BY <2>2 DEF ValidInput, IsText
      <3>3. loaded[u].truncated \/ loaded[u].chapters = <<>> \/
              loaded[u].text = ExtractUploadedContent([kind |-> "epub", chapters |-> loaded[u].chapters]).text
        BY <3>1, Zenon DEF OverviewInv, BooksWhole
      <3> QED
        BY <1>2, <2>3, <3>1, <3>2, <3>3, Zenon
    <2>6. Alike(Ink(q.input.text), InkOf(o.input))
      BY <1>2, <2>1, <2>2, <2>3, <2>5, SameInk, Zenon
    <2>7. Tallies(o.words, WordsIn(InkOf(o.input), Dictionaries[q.seen].pick.custom))
      BY <2>2, <2>4
    <2>8. MadeOfText(q) /\ q.selected = {}
      BY <1>2, <2>1, <2>3
    <2>9. PICK input, words : input = o.input /\ words = o.words
      OBVIOUS
    <2>10. /\ WellFormed(input) /\ Alike(Ink(q.input.text), InkOf(input))
           /\ Tallies(words, WordsIn(InkOf(input), Dictionaries[q.seen].pick.custom))
      BY <2>2, <2>6, <2>7, <2>9
    <2>11. LET sentences == Collected(q)
           IN  /\ DOMAIN words = {t.key : t \in UNION {Range(x.tokens) : x \in Range(sentences)}}
               /\ \A k \in DOMAIN words : words[k].count = OccurrencesOf(k, sentences)
      BY <2>8, <2>10, SameCounts
    <2> QED
      BY <2>3, <2>9, <2>11, Zenon
  <1> QED
    BY <1>1, <1>2, Zenon DEF OverviewMatchesDeck

(* A step of one request leaves those that parse well formed.              *)
LEMMA OneParse ==
    ASSUME SessionInv, ParsesMade, NEW r \in Requests, NEW q, req' = [req EXCEPT ![r] = q],
           q.stage \notin {"parse", "show"} \/
             (DOMAIN q = ParseRequest /\ WellFormed(q.input) /\ ValidInput(q.input))
    PROVE  ParsesMade'
  <1>1. DOMAIN req = Requests
    BY DEF SessionInv, TablesOK
  <1>2. req' = [s \in Requests |-> IF s = r THEN q ELSE req[s]]
    BY <1>1
  <1>3. ASSUME NEW s \in Requests, req'[s].stage \in {"parse", "show"}
        PROVE  DOMAIN req'[s] = ParseRequest /\ WellFormed(req'[s].input) /\ ValidInput(req'[s].input)
    <2>1. CASE s = r
      BY <1>2, <1>3, <2>1
    <2>2. CASE s # r
      BY <1>2, <1>3, <2>2 DEF ParsesMade
    <2> QED
      BY <2>1, <2>2
  <1> QED
    BY <1>3 DEF ParsesMade, WellFormed, ValidInput, IsText, CharsOf

(* What a client may send is well formed. *)
LEMMA InputsWellFormed ==
    ASSUME IngestInv, BooksWhole, NEW c \in Users \cup {Anonymous}, NEW input \in Inputs(c)
    PROVE  WellFormed(input)
  <1>1. CASE input \in Payloads
    BY <1>1, IngestAssumption
  <1>2. CASE input \notin Payloads
    <2>1. c \in Users /\ loaded[c] # Idle /\ input \in {[kind |-> "text", text |-> loaded[c].text],
                                                        [kind |-> "chapters", chapters |-> loaded[c].chapters]}
      BY <1>2 DEF Inputs
    <2>2. CASE input = [kind |-> "text", text |-> loaded[c].text]
      <3>1. IsText(input) /\ input.text = loaded[c].text
        BY <2>2 DEF IsText
      <3>2. IsTable(input.text)
        BY <2>1, <3>1 DEF IngestInv
      <3> QED
        BY <3>1, <3>2 DEF WellFormed
    <2>3. CASE input = [kind |-> "chapters", chapters |-> loaded[c].chapters]
      BY <2>1, <2>3, Zenon DEF BooksWhole
    <2> QED
      BY <2>1, <2>2, <2>3
  <1> QED
    BY <1>1, <1>2

(* The steps of a request leave the others as they are, and what is shown  *)
(* is an overview of the input asked for.                                  *)
LEMMA RequestShows ==
    ASSUME SessionInv, OverviewInv, NEW r \in Requests,
           \/ ReadGlosses(r) \/ ExpandParse(r) \/ ShowParse(r) \/ CreateParseSession(r) \/ CollectSentences(r)
           \/ CreateDeck(r) \/ SetDeckParseSession(r) \/ FailRequest(r)
    PROVE  ParsesMade' /\ (shown' = shown \/ \E q, now : /\ WellFormed(q.input) /\ ValidInput(q.input)
                                                         /\ shown' = OverviewOf(q, now))
  <1>1. ParsesMade
    BY DEF OverviewInv
  <1>2. ASSUME NEW q, req' = [req EXCEPT ![r] = q], q.stage \notin {"parse", "show"}
        PROVE  ParsesMade'
    BY <1>1, <1>2, OneParse
  <1>3. CASE ExpandParse(r)
    <2>1. DOMAIN req[r] = ParseRequest /\ WellFormed(req[r].input) /\ ValidInput(req[r].input)
      BY <1>1, <1>3 DEF ExpandParse, ParsesMade
    <2>2. PICK q : q = [req[r] EXCEPT !.stage = "show", !.expanded = dict]
      OBVIOUS
    <2>3. DOMAIN q = ParseRequest /\ q.input = req[r].input
      BY <2>1, <2>2 DEF ParseRequest
    <2>4. req' = [req EXCEPT ![r] = q] /\ shown' = shown
      BY <1>3, <2>2 DEF ExpandParse
    <2>5. WellFormed(q.input) /\ ValidInput(q.input)
      BY <2>1, <2>3
    <2>6. ParsesMade'
      BY <1>1, <2>3, <2>4, <2>5, OneParse
    <2> QED
      BY <2>4, <2>6
  <1>g. CASE ReadGlosses(r)
    <2>1. PICK q : /\ req' = [req EXCEPT ![r] = q] /\ UNCHANGED <<loaded, shown, sessions, decks>>
                   /\ DOMAIN q = DOMAIN req[r]
                   /\ q.stage = req[r].stage /\ q.stage \in {"parse", "session"}
                   /\ \A f \in DOMAIN q : f # "glossed" => q[f] = req[r][f]
      BY <1>g, GlossesRead
    <2>2. CASE q.stage = "session"
      BY <1>2, <2>1, <2>2
    <2>3. CASE q.stage = "parse"
      <3>1. DOMAIN req[r] = ParseRequest /\ WellFormed(req[r].input) /\ ValidInput(req[r].input)
        BY <1>1, <2>1, <2>3 DEF ParsesMade
      <3>2. DOMAIN q = ParseRequest /\ q.input = req[r].input
        BY <2>1, <3>1 DEF ParseRequest
      <3>3. WellFormed(q.input) /\ ValidInput(q.input)
        BY <3>1, <3>2
      <3>4. ParsesMade'
        BY <1>1, <2>1, <3>2, <3>3, OneParse
      <3> QED
        BY <2>1, <3>4
    <2> QED
      BY <2>1, <2>2, <2>3
  <1>4. CASE ShowParse(r)
    <2>1. req' = [req EXCEPT ![r] = Done] /\ Done.stage = "done"
      BY <1>4 DEF ShowParse, Done
    <2>2. ParsesMade'
      BY <1>2, <2>1
    <2>3. WellFormed(req[r].input) /\ ValidInput(req[r].input)
      BY <1>1, <1>4 DEF ShowParse, ParsesMade
    <2>4. PICK q, now : q = req[r] /\ now = Dictionaries[dict]
      OBVIOUS
    <2>5. shown' = OverviewOf(q, now)
      BY <1>4, <2>4, Zenon DEF ShowParse
    <2>6. WellFormed(q.input) /\ ValidInput(q.input)
      BY <2>3, <2>4
    <2> QED
      BY <2>2, <2>5, <2>6, Zenon
  <1>5. CASE CreateParseSession(r)
    <2>1. PICK n : n = Len(sessions')
      OBVIOUS
    <2>2. PICK q : q = [req[r] EXCEPT !.stage = "sentences", !.session = n]
      OBVIOUS
    <2>3. q.stage = "sentences"
      BY <2>2 DEF SessionInv, TablesOK
    <2>4. req' = [req EXCEPT ![r] = q] /\ shown' = shown
      BY <1>5, <2>1, <2>2 DEF CreateParseSession
    <2> QED
      BY <1>2, <2>3, <2>4
  <1>6. CASE CollectSentences(r)
    <2>1. PICK q : q = [req[r] EXCEPT !.stage = "deck", !.offered = dict]
      OBVIOUS
    <2>2. q.stage = "deck"
      BY <2>1 DEF SessionInv, TablesOK
    <2>3. req' = [req EXCEPT ![r] = q] /\ shown' = shown
      BY <1>6, <2>1 DEF CollectSentences
    <2> QED
      BY <1>2, <2>2, <2>3
  <1>7. CASE CreateDeck(r)
    <2>1. PICK n : n = Len(decks')
      OBVIOUS
    <2>2. PICK q : q = [req[r] EXCEPT !.stage = "link", !.deck = n]
      OBVIOUS
    <2>3. q.stage = "link"
      BY <2>2 DEF SessionInv, TablesOK
    <2>4. req' = [req EXCEPT ![r] = q] /\ shown' = shown
      BY <1>7, <2>1, <2>2 DEF CreateDeck
    <2> QED
      BY <1>2, <2>3, <2>4
  <1>8. CASE SetDeckParseSession(r) \/ FailRequest(r)
    <2>1. req' = [req EXCEPT ![r] = Done] /\ shown' = shown
      BY <1>8, Zenon DEF SetDeckParseSession, FailRequest
    <2>2. Done.stage = "done"
      BY DEF Done
    <2> QED
      BY <1>2, <2>1, <2>2
  <1> QED
    BY <1>g, <1>3, <1>4, <1>5, <1>6, <1>7, <1>8

(* What is shown counts the words of its input. *)
LEMMA ShownCounts ==
    ASSUME NEW q, WellFormed(q.input), ValidInput(q.input), NEW now, NEW o, o = OverviewOf(q, now)
    PROVE  /\ WellFormed(o.input) /\ ValidInput(o.input) /\ AddsUp(o)
           /\ Tallies(o.words, WordsIn(InkOf(o.input), PickSeen(o)))
  <1>1. o.input = q.input /\ AddsUp(o) /\ Tallies(o.words, WordsIn(InkOf(o.input), PickSeen(o)))
    BY OverviewShows
  <1> QED
    BY <1>1

(* Every step leaves requests, books and overviews so. *)
LEMMA StepOverview == SessionInv /\ IngestInv /\ OverviewInv /\ [Next]_vars => OverviewInv'
  <1> SUFFICES ASSUME SessionInv, IngestInv, OverviewInv, [Next]_vars PROVE OverviewInv'
    OBVIOUS
  <1> DEFINE Shows == shown' = shown \/ \E q, now : /\ WellFormed(q.input) /\ ValidInput(q.input)
                                                    /\ shown' = OverviewOf(q, now)
  <1>1. ParsesMade /\ BooksWhole
    BY DEF OverviewInv
  <1>2. BooksWhole'
    <2>1. loaded' = loaded \/ \E u \in Users, f \in Uploads : Upload(u, f)
      BY DEF Next, vars, ChangeDictionary, StartParse, StartDeck, ReadGlosses, ExpandParse, ShowParse, CreateParseSession,
             CollectSentences, CreateDeck, SetDeckParseSession, FailRequest, DeleteDeck, DeleteUserParseSession,
             DeleteUserParseSessions, PurgeParseSessionSourceText
    <2>2. CASE loaded' = loaded
      BY <1>1, <2>2, Zenon DEF BooksWhole
    <2>3. ASSUME NEW u \in Users, NEW f \in Uploads, Upload(u, f) PROVE BooksWhole'
      <3>1. PICK got : got = HandleImportExtract(f)
        OBVIOUS
      <3>2. PICK new : new = [stage |-> "loaded", text |-> got.text, chapters |-> got.chapters, truncated |-> got.truncated]
        OBVIOUS
      <3>3. new.text = got.text /\ new.chapters = got.chapters /\ new.truncated = got.truncated
        BY <3>2
      <3>4. loaded' = [loaded EXCEPT ![u] = new]
        BY <2>3, <3>1, <3>2 DEF Upload
      <3>5. /\ WellFormed([kind |-> "chapters", chapters |-> got.chapters])
            /\ got.truncated = TRUE \/ got.chapters = <<>> \/
                 got.text = ExtractUploadedContent([kind |-> "epub", chapters |-> got.chapters]).text
        BY <3>1, LoadedChapters
      <3>6. /\ WellFormed([kind |-> "chapters", chapters |-> new.chapters])
            /\ new.truncated \/ new.chapters = <<>> \/
                 new.text = ExtractUploadedContent([kind |-> "epub", chapters |-> new.chapters]).text
        BY <3>3, <3>5, Zenon
      <3>7. DOMAIN loaded = Users
        BY DEF IngestInv
      <3>8. loaded' = [v \in Users |-> IF v = u THEN new ELSE loaded[v]]
        BY <3>4, <3>7
      <3>9. ASSUME NEW v \in Users, loaded'[v] # Idle
            PROVE  /\ WellFormed([kind |-> "chapters", chapters |-> loaded'[v].chapters])
                   /\ loaded'[v].truncated \/ loaded'[v].chapters = <<>> \/
                        loaded'[v].text = ExtractUploadedContent([kind |-> "epub", chapters |-> loaded'[v].chapters]).text
        <4>1. CASE v = u
          <5>1. loaded'[v] = new
            BY <3>8, <4>1
          <5> QED
            BY <3>6, <5>1, Zenon
        <4>2. CASE v # u
          <5>1. loaded'[v] = loaded[v]
            BY <3>8, <4>2
          <5> QED
            BY <1>1, <3>9, <5>1, Zenon DEF BooksWhole
        <4> QED
          BY <4>1, <4>2
      <3> QED
        BY <3>9, Zenon DEF BooksWhole
    <2> QED
      BY <2>1, <2>2, <2>3
  <1>3. ParsesMade' /\ Shows
    <2>1. CASE UNCHANGED <<req, shown>>
      BY <1>1, <2>1 DEF ParsesMade
    <2>2. CASE ChangeDictionary \/ (\E u \in Users, f \in Uploads : Upload(u, f)) \/ UNCHANGED vars
               \/ (\E n \in DOMAIN sessions : PurgeParseSessionSourceText(n))
               \/ (\E i \in DOMAIN decks : DeleteDeck(i))
      <3>1. UNCHANGED <<req, shown>>
        BY <2>2 DEF ChangeDictionary, Upload, vars, PurgeParseSessionSourceText, DeleteDeck
      <3> QED
        BY <2>1, <3>1
    <2>3. ASSUME NEW r \in Requests, NEW c \in Users \cup {Anonymous}, NEW input \in Inputs(c), NEW p \in Parsers,
                 StartParse(r, c, input, p)
          PROVE  ParsesMade' /\ Shows
      <3>1. PICK q : q = [stage |-> "parse", client |-> c, input |-> input, parser |-> p, seen |-> dict,
                           glossed |-> 0, expanded |-> 0]
        OBVIOUS
      <3>2. DOMAIN q = ParseRequest /\ q.input = input
        BY <3>1 DEF ParseRequest
      <3>3. req' = [req EXCEPT ![r] = q] /\ shown' = shown /\ ValidInput(input)
        BY <2>3, <3>1 DEF StartParse
      <3>4. WellFormed(input)
        BY <1>1, InputsWellFormed
      <3>5. ParsesMade'
        BY <1>1, <3>2, <3>3, <3>4, OneParse
      <3> QED
        BY <3>3, <3>5
    <2>4. ASSUME NEW r \in Requests, NEW u \in Users, NEW input \in Inputs(u), NEW s \in Selections, StartDeck(r, u, input, s)
          PROVE  ParsesMade' /\ Shows
      <3>1. PICK q : q = [stage |-> "session", client |-> u, input |-> input, selected |-> s, parser |-> "custom",
                           seen |-> dict, glossed |-> 0, session |-> 0, offered |-> 0, deck |-> 0]
        OBVIOUS
      <3>2. q.stage = "session"
        BY <3>1
      <3>3. req' = [req EXCEPT ![r] = q] /\ shown' = shown
        BY <2>4, <3>1 DEF StartDeck
      <3>4. ParsesMade'
        BY <1>1, <3>2, <3>3, OneParse
      <3> QED
        BY <3>3, <3>4
    <2>5. ASSUME NEW r \in Requests,
                 \/ ReadGlosses(r) \/ ExpandParse(r) \/ ShowParse(r) \/ CreateParseSession(r) \/ CollectSentences(r)
                 \/ CreateDeck(r) \/ SetDeckParseSession(r) \/ FailRequest(r)
          PROVE  ParsesMade' /\ Shows
      BY <2>5, RequestShows
    <2>6. ASSUME NEW u \in Users,
                 DeleteUserParseSessions(u) \/ (\E i \in DOMAIN sessions : DeleteUserParseSession(u, i))
          PROVE  ParsesMade' /\ Shows
      <3>1. UNCHANGED <<req, shown>>
        BY <2>6 DEF DeleteUserParseSessions, DeleteUserParseSession
      <3> QED
        BY <2>1, <3>1
    <2> HIDE DEF Shows
    <2> QED
      BY <2>2, <2>3, <2>4, <2>5, <2>6 DEF Next
  <1>4. ASSUME NEW o \in Overviews'
        PROVE  /\ WellFormed(o.input) /\ ValidInput(o.input) /\ AddsUp(o)
               /\ Tallies(o.words, WordsIn(InkOf(o.input), PickSeen(o)))
    <2>1. o = shown' /\ o # Idle
      BY DEF Overviews
    <2>2. CASE shown' = shown
      <3>1. o \in Overviews
        BY <2>1, <2>2 DEF Overviews
      <3> QED
        BY <3>1, Zenon DEF OverviewInv
    <2>3. CASE \E q, now : WellFormed(q.input) /\ ValidInput(q.input) /\ shown' = OverviewOf(q, now)
      <3>1. PICK q, now : WellFormed(q.input) /\ ValidInput(q.input) /\ shown' = OverviewOf(q, now)
        BY <2>3
      <3> QED
        BY <2>1, <3>1, ShownCounts
    <2> QED
      BY <1>3, <2>2, <2>3
  <1> QED
    BY <1>2, <1>3, <1>4, Zenon DEF OverviewInv

(* No request parses, nothing is loaded and nothing shown at the start. *)
LEMMA InitOverview == Init => OverviewInv
  <1> SUFFICES ASSUME Init PROVE OverviewInv
    OBVIOUS
  <1>1. \A r \in Requests : req[r].stage = "idle"
    BY DEF Init, Idle
  <1>2. \A u \in Users : loaded[u] = Idle
    BY DEF Init
  <1>3. Overviews = {}
    BY DEF Init, Overviews
  <1>4. ParsesMade /\ BooksWhole
    BY <1>1, <1>2 DEF ParsesMade, BooksWhole
  <1> QED
    BY <1>3, <1>4 DEF OverviewInv

(* With a dictionary, text and parser the same, what a parse shows of a    *)
(* text or a book is what a deck saved of it contains: the same words, as  *)
(* often, and the chapters of the book and the totals add up to them.      *)
THEOREM OverviewAgrees == Spec => []OverviewMatchesDeck
  <1>1. Spec => []OverviewInv
    BY InitOverview, StepOverview, IngestInvariance, PTL DEF Spec
  <1>2. IngestInv /\ OverviewInv => OverviewMatchesDeck
    BY OverviewsMatch
  <1> QED
    BY <1>1, <1>2, IngestInvariance, PTL
=============================================================================
