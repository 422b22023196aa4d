--------------------------- MODULE ThrottleProofs ---------------------------
(***************************************************************************)
(* What is held back: requests by the rate limiter, fetches by the circuit *)
(* breaker of the Ekilex fetcher.                                          *)
(*                                                                         *)
(* For every set of requests, clients, budgets and window: a client that   *)
(* was refused and comes back a window later is let through.  A refusal    *)
(* leaves the window alone and only a request that is let through opens a  *)
(* new one, so the window that is in the way ends at most a window's       *)
(* length after the first refusal (WindowInv), however old the times are   *)
(* that requests read before they got the lock, and whatever is pruned.    *)
(*                                                                         *)
(* For every list of words, number of workers, limit and threshold: a word *)
(* that a later run skips was answered, and an open circuit lets a worker  *)
(* begin at most one fetch.  The files outlive the run, so the argument is *)
(* over one worker: what it is about to record it has itself been told.    *)
(***************************************************************************)
EXTENDS RateLimiter, EkilexFetcher, FiniteSetTheorems, TLAPS

-----------------------------------------------------------------------------
(* The rate limiter.                                                       *)

(* The stages of a request are limiters that are switched on.              *)
LEMMA StagesAreOn ==
    ASSUME NEW a, Stages(a) # <<>>
    PROVE  Head(Stages(a)) \in Limiters /\ limit[Head(Stages(a))] > 0
  <1>1. CASE limit["ip"] > 0
    <2>1. Stages(a) \in {<<"ip">> \o <<>>, <<"ip">> \o <<"account">>}
      BY <1>1, Zenon DEF Stages
    <2>2. Head(Stages(a)) = "ip"
      BY <2>1
    <2> QED
      BY <1>1, <2>2 DEF Limiters
  <1>2. CASE ~(limit["ip"] > 0)
    <2>1. <<>> \o <<>> = <<>>
      OBVIOUS
    <2>2. Stages(a) = <<>> \o <<"account">> /\ limit["account"] > 0
      BY <1>2, <2>1, Zenon DEF Stages
    <2> QED
      BY <2>2 DEF Limiters
  <1> QED
    BY <1>1, <1>2

(* A request goes on to its account only if that limit is switched on.     *)
LEMMA PassedIsOn ==
    ASSUME NEW r, request[r].at \in Limiters, limit[request[r].at] > 0
    PROVE  \/ Passed(r) = Idle
           \/ /\ Passed(r) = [pc |-> "passed", from |-> request[r].from]
              /\ limit["account"] > 0
  <1>1. CASE limit["account"] > 0
    BY <1>1 DEF Passed
  <1>2. CASE ~(limit["account"] > 0)
    <2>1. request[r].at = "ip" /\ limit["ip"] > 0
      BY <1>2 DEF Limiters
    <2>2. Stages(request[r].from) = <<"ip">> \o <<>>
      BY <1>2, <2>1, Zenon DEF Stages
    <2>3. Stages(request[r].from)[Len(Stages(request[r].from))] = "ip"
      BY <2>2
    <2> QED
      BY <2>1, <2>3, Zenon DEF Passed
  <1> QED
    BY <1>1, <1>2

(* Nothing is counted at the start.                                        *)
LEMMA InitInv == Init => Inv
  BY LimiterAssumption DEF Init, Inv, TypeOK, WindowInv, Never, Idle

(* A request presents a key of its limiter.                                *)
LEMMA KeyIsKey ==
    ASSUME NEW a \in Arrivals, NEW m \in Limiters
    PROVE  KeyAt(a, m) \in Keys
  BY DEF KeyAt, Keys, Limiters

(* What a request finds and leaves when it has the lock: the window of its *)
(* key is at an end, and a new one is opened, or has room and counts one   *)
(* more, or is full and stays; the others stay or go.                      *)
LEMMA AllowCases ==
    ASSUME Inv, NEW r \in Requests, Allow(r)
    PROVE  LET m == request[r].at
               k == KeyAt(request[r].from, m)
               t == request[r].read
           IN
           /\ m \in Limiters /\ k \in Keys /\ t \in 0..now /\ limit[m] > 0
           /\ k \in DOMAIN entries'[m] /\ DOMAIN entries'[m] \subseteq DOMAIN entries[m] \cup {k}
           /\ \A x \in DOMAIN entries'[m] \ {k} : entries'[m][x] = entries[m][x]
           /\ DOMAIN entries' = Limiters
           /\ \A l \in Limiters \ {m} : entries'[l] = entries[l]
           /\ UNCHANGED <<now, limit, arrived>>
           /\ \/ /\ entries'[m][k] = [count |-> 1, ends |-> t + Window]
                 /\ turnedAway' = [turnedAway EXCEPT ![m][k] = Never]
              \/ /\ k \in DOMAIN entries[m] /\ entries[m][k].count < limit[m]
                 /\ entries'[m][k] = [count |-> entries[m][k].count + 1, ends |-> entries[m][k].ends]
                 /\ turnedAway' = [turnedAway EXCEPT ![m][k] = Never]
              \/ /\ k \in DOMAIN entries[m] /\ t < entries[m][k].ends
                 /\ entries'[m][k] = entries[m][k]
                 /\ turnedAway' = [turnedAway EXCEPT ![m][k] =
                                      IF turnedAway[m][k] = Never THEN now ELSE turnedAway[m][k]]
  <1> DEFINE m == request[r].at
             k == KeyAt(request[r].from, m)
             t == request[r].read
             kept == Kept(m, t)
             w == IF k \in kept THEN entries[m][k] ELSE NoWindow
             allowed == HasRoom(w, t, m)
  <1>1. request[r].pc = "locking"
    BY DEF Allow
  <1>2. m \in Limiters /\ t \in 0..now /\ limit[m] > 0 /\ request[r].from \in Arrivals
    BY <1>1 DEF Inv, WindowInv, Idle
  <1>3. k \in Keys
    BY <1>2, KeyIsKey
  <1>4. /\ entries' = [entries EXCEPT ![m] =
              [x \in kept \cup {k} |-> IF x = k THEN Counted(w, t, m) ELSE entries[m][x]]]
        /\ turnedAway' = [turnedAway EXCEPT ![m][k] =
              IF allowed THEN Never ELSE IF turnedAway[m][k] = Never THEN now ELSE turnedAway[m][k]]
        /\ UNCHANGED <<now, limit, arrived>>
    BY Zenon DEF Allow
  <1>5. kept \subseteq DOMAIN entries[m]
    BY DEF Kept
  <1> HIDE DEF kept
  <1>6. /\ DOMAIN entries' = Limiters /\ \A l \in Limiters \ {m} : entries'[l] = entries[l]
        /\ DOMAIN entries'[m] = kept \cup {k} /\ entries'[m][k] = Counted(w, t, m)
        /\ \A x \in kept \ {k} : entries'[m][x] = entries[m][x]
    BY <1>2, <1>4 DEF Inv, TypeOK
  <1>7. \/ Ended(w, t) /\ allowed /\ Counted(w, t, m) = [count |-> 1, ends |-> t + Window]
        \/ /\ ~Ended(w, t) /\ allowed /\ w.count < limit[m]
           /\ Counted(w, t, m) = [count |-> w.count + 1, ends |-> w.ends]
        \/ ~Ended(w, t) /\ ~allowed /\ Counted(w, t, m) = w
    BY DEF Counted, HasRoom
  <1>8. ~Ended(w, t) => k \in kept /\ w = entries[m][k]
    BY DEF Ended, NoWindow
  <1>9. ~Ended(w, t) => t < w.ends
    <2> SUFFICES ASSUME ~Ended(w, t) PROVE t < w.ends
      OBVIOUS
    <2>1. w.ends \in Int
      BY <1>2, <1>5, <1>8, LimiterAssumption DEF Inv, TypeOK, WindowInv
    <2> QED
      BY <1>2, <2>1 DEF Ended, Inv, TypeOK
  <1> HIDE DEF w, allowed
  <1> QED
    BY <1>2, <1>3, <1>4, <1>5, <1>6, <1>7, <1>8, <1>9

(* The step under the mutex preserves Inv.                                 *)
LEMMA AllowInv == ASSUME Inv, NEW r \in Requests, Allow(r) PROVE Inv'
  <1> DEFINE m == request[r].at
             k == KeyAt(request[r].from, m)
             t == request[r].read
  <1>1. /\ m \in Limiters /\ k \in Keys /\ t \in 0..now /\ limit[m] > 0
        /\ k \in DOMAIN entries'[m] /\ DOMAIN entries'[m] \subseteq DOMAIN entries[m] \cup {k}
        /\ \A x \in DOMAIN entries'[m] \ {k} : entries'[m][x] = entries[m][x]
        /\ DOMAIN entries' = Limiters
        /\ \A l \in Limiters \ {m} : entries'[l] = entries[l]
        /\ UNCHANGED <<now, limit, arrived>>
    BY AllowCases, Zenon
  <1>2. \/ /\ entries'[m][k] = [count |-> 1, ends |-> t + Window]
           /\ turnedAway' = [turnedAway EXCEPT ![m][k] = Never]
        \/ /\ k \in DOMAIN entries[m] /\ entries[m][k].count < limit[m]
           /\ entries'[m][k] = [count |-> entries[m][k].count + 1, ends |-> entries[m][k].ends]
           /\ turnedAway' = [turnedAway EXCEPT ![m][k] = Never]
        \/ /\ k \in DOMAIN entries[m] /\ t < entries[m][k].ends
           /\ entries'[m][k] = entries[m][k]
           /\ turnedAway' = [turnedAway EXCEPT ![m][k] =
                                IF turnedAway[m][k] = Never THEN now ELSE turnedAway[m][k]]
    BY AllowCases, Zenon
  <1>3. /\ request[r].from \in Arrivals
        /\ lastPrune' \in [Limiters -> Never..now]
        /\ request' = [request EXCEPT ![r] = Idle] \/ request' = [request EXCEPT ![r] = Passed(r)]
    <2>1. request[r].pc = "locking"
      BY DEF Allow
    <2>2. request[r].from \in Arrivals
      BY <2>1 DEF Inv, WindowInv, Idle
    <2>3. lastPrune' = [lastPrune EXCEPT ![m] = IF @ = Never \/ t - @ >= Window THEN t ELSE @]
      BY Zenon DEF Allow
    <2>4. request' = [request EXCEPT ![r] = Idle] \/ request' = [request EXCEPT ![r] = Passed(r)]
      BY Zenon DEF Allow, Become
    <2> QED
      BY <1>1, <2>2, <2>3, <2>4 DEF Inv, TypeOK, Never
  <1>4. Passed(r) = Idle \/ (Passed(r) = [pc |-> "passed", from |-> request[r].from] /\ limit["account"] > 0)
    BY <1>1, PassedIsOn
  <1>5. now \in Nat /\ limit[m] \in Int /\ Window \in Nat \ {0}
    BY <1>1, LimiterAssumption DEF Inv, TypeOK
  <1>6. TypeOK'
    <2>1. entries'[m][k].count \in 1..limit[m]
      BY <1>1, <1>2, <1>5 DEF Inv, TypeOK
    <2>2. \A l \in Limiters : /\ DOMAIN entries'[l] \subseteq Keys
                              /\ \A x \in DOMAIN entries'[l] : entries'[l][x].count \in 1..limit[l]
      BY <1>1, <2>1 DEF Inv, TypeOK
    <2> QED
      BY <1>1, <1>3, <2>2 DEF Inv, TypeOK
  <1>7. /\ turnedAway' \in [Limiters -> [Keys -> Nat \cup {Never}]]
        /\ \A l \in Limiters, x \in Keys : l # m \/ x # k => turnedAway'[l][x] = turnedAway[l][x]
    <2>1. turnedAway \in [Limiters -> [Keys -> Nat \cup {Never}]]
      BY DEF Inv, WindowInv
    <2>2. PICK v \in Nat \cup {Never} : turnedAway' = [turnedAway EXCEPT ![m][k] = v]
      <3>1. turnedAway[m][k] \in Nat \cup {Never}
        BY <1>1, <2>1
      <3> QED
        BY <1>2, <1>5, <3>1, Zenon
    <2> QED
      BY <1>1, <2>1, <2>2
  <1>8. \A q \in Requests :
          \/ request'[q] = Idle
          \/ /\ request'[q].pc = "passed" /\ request'[q].from \in Arrivals
             /\ limit["account"] > 0
          \/ /\ request'[q].pc = "locking" /\ request'[q].from \in Arrivals
             /\ request'[q].at \in Limiters /\ limit[request'[q].at] > 0
             /\ request'[q].read \in 0..now
    <2> SUFFICES ASSUME NEW q \in Requests
                 PROVE  request'[q] = request[q] \/ request'[q] = Idle
                        \/ (/\ request'[q] = [pc |-> "passed", from |-> request[r].from]
                            /\ limit["account"] > 0)
      BY <1>3 DEF Inv, WindowInv
    <2> QED
      BY <1>3, <1>4 DEF Inv, TypeOK
  <1>9. \A l \in Limiters : \A x \in DOMAIN entries'[l] :
          /\ entries'[l][x].ends \in 0..(now + Window)
          /\ turnedAway'[l][x] # Never => entries'[l][x].ends <= turnedAway'[l][x] + Window
    <2> SUFFICES ASSUME NEW l \in Limiters, NEW x \in DOMAIN entries'[l]
                 PROVE  /\ entries'[l][x].ends \in 0..(now + Window)
                        /\ turnedAway'[l][x] # Never => entries'[l][x].ends <= turnedAway'[l][x] + Window
      OBVIOUS
    <2>1. CASE l = m /\ x = k
      <3>1. k \in DOMAIN entries[m] => /\ entries[m][k].ends \in 0..(now + Window)
                                       /\ turnedAway[m][k] # Never => entries[m][k].ends <= turnedAway[m][k] + Window
        BY <1>1 DEF Inv, WindowInv
      <3>2. turnedAway[m] \in [Keys -> Nat \cup {Never}]
        BY <1>1 DEF Inv, WindowInv
      <3>3. \/ turnedAway'[m][k] = Never
            \/ k \in DOMAIN entries[m] /\ entries'[m][k] = entries[m][k]
               /\ turnedAway'[m][k] = IF turnedAway[m][k] = Never THEN now ELSE turnedAway[m][k]
        BY <1>1, <1>2, <3>2 DEF Inv, WindowInv
      <3>4. entries'[m][k].ends \in 0..(now + Window)
        <4>1. CASE entries'[m][k] = [count |-> 1, ends |-> t + Window]
          BY <1>1, <1>5, <4>1
        <4>2. CASE k \in DOMAIN entries[m] /\ entries'[m][k].ends = entries[m][k].ends
          BY <3>1, <4>2
        <4> QED
          BY <1>2, <4>1, <4>2
      <3> QED
        BY <1>5, <2>1, <3>1, <3>3, <3>4
    <2>2. CASE l # m \/ x # k
      <3>1. x \in DOMAIN entries[l] /\ entries'[l][x] = entries[l][x]
        BY <1>1, <2>2
      <3>2. x \in Keys
        BY <3>1 DEF Inv, TypeOK
      <3>3. turnedAway'[l][x] = turnedAway[l][x]
        BY <1>7, <2>2, <3>2
      <3> QED
        BY <3>1, <3>3 DEF Inv, WindowInv
    <2> QED
      BY <2>1, <2>2
  <1> QED
    BY <1>1, <1>6, <1>7, <1>8, <1>9 DEF Inv, WindowInv

(* Every step preserves Inv.                                               *)
LEMMA StepInv == Inv /\ [Next]_vars => Inv'
  <1> SUFFICES ASSUME Inv, [Next]_vars PROVE Inv'
    OBVIOUS
  <1> USE LimiterAssumption DEF Inv
  <1>1. ASSUME NEW r \in Requests, NEW a \in Arrivals, Arrive(r, a) PROVE Inv'
    BY <1>1, StagesAreOn DEF Arrive, Become, TypeOK, WindowInv, Idle
  <1>2. ASSUME NEW r \in Requests, ReadClock(r) PROVE Inv'
    BY <1>2 DEF ReadClock, Become, TypeOK, WindowInv, Idle, Limiters
  <1>3. ASSUME NEW r \in Requests, Allow(r) PROVE Inv'
    BY <1>3, AllowInv
  <1>4. CASE Tick
    BY <1>4 DEF Tick, TypeOK, WindowInv
  <1>5. CASE UNCHANGED vars
    BY <1>5 DEF vars, TypeOK, WindowInv
  <1> QED
    BY <1>1, <1>2, <1>3, <1>4, <1>5 DEF Next, Done

(* Inv is an invariant of the limiters.                                    *)
THEOREM Invariance == Spec => []Inv
  BY InitInv, StepInv, PTL DEF Spec

(* The types are invariant: no window counts more than its limit, and both *)
(* times a limiter keeps are in the past.                                  *)
THEOREM TypeCorrect == Spec => []TypeOK
  BY Invariance, PTL DEF Inv

(* A request that comes a window after the first refusal of its key, with  *)
(* nobody let through meanwhile, is let through.                           *)
LEMMA StepHonest ==
    ASSUME Inv, NEW r \in Requests, Allow(r)
    PROVE  LET m == request[r].at
               k == KeyAt(request[r].from, m)
           IN turnedAway[m][k] # Never /\ request[r].read >= turnedAway[m][k] + Window
                  => turnedAway'[m][k] = Never
  <1> DEFINE m == request[r].at
             k == KeyAt(request[r].from, m)
             t == request[r].read
  <1>1. /\ m \in Limiters /\ k \in Keys /\ t \in 0..now
        /\ \/ turnedAway' = [turnedAway EXCEPT ![m][k] = Never]
           \/ k \in DOMAIN entries[m] /\ t < entries[m][k].ends
    BY AllowCases
  <1>2. k \in DOMAIN entries[m] =>
          /\ entries[m][k].ends \in Int
          /\ turnedAway[m][k] # Never => entries[m][k].ends <= turnedAway[m][k] + Window
    BY <1>1, LimiterAssumption DEF Inv, TypeOK, WindowInv
  <1>3. turnedAway[m][k] \in Nat \cup {Never} /\ now \in Nat /\ Window \in Nat
    BY <1>1, LimiterAssumption DEF Inv, TypeOK, WindowInv
  <1>4. turnedAway' = [turnedAway EXCEPT ![m][k] = Never] => turnedAway'[m][k] = Never
    BY <1>1 DEF Inv, WindowInv
  <1> HIDE DEF m, k, t
  <1>5. turnedAway[m][k] # Never /\ t >= turnedAway[m][k] + Window => turnedAway'[m][k] = Never
    BY <1>1, <1>2, <1>3, <1>4 DEF Never
  <1> QED
    BY <1>5 DEF m, k, t

(* "a minute is the honest worst-case retry signal", for every budget,     *)
(* window and number of requests: Retry-After is never too short.          *)
THEOREM RetryAfterHolds == Spec => RetryAfterIsHonest
  <1>1. Inv /\ [Next]_vars =>
          [\A r \in Requests :
               Allow(r) =>
                   LET m == request[r].at
                       k == KeyAt(request[r].from, m)
                   IN turnedAway[m][k] # Never /\ request[r].read >= turnedAway[m][k] + Window
                          => turnedAway'[m][k] = Never]_vars
    BY StepHonest
  <1> QED
    BY <1>1, Invariance, PTL DEF Spec, RetryAfterIsHonest

-----------------------------------------------------------------------------
(* How many requests a minute sees.                                        *)

(* Ceiling, case by case. *)
LEMMA CeilingValues ==
    ASSUME NEW max \in Nat, NEW w, w.ends \in Int, w.count \in Int,
           NEW pruned \in Int, NEW t \in Int
    PROVE  LET all == Cardinality(Requests)
               value == Ceiling(max, w, pruned, t)
           IN /\ w.ends <= t + 1 /\ pruned <= t => value = all
              /\ w.ends <= t + 1 /\ pruned > t => value = all - 1 + max
              /\ w.ends > t + 1 /\ w.ends <= t + Window /\ pruned <= t => value = all - 1 + w.count
              /\ w.ends > t + 1 /\ w.ends <= t + Window /\ pruned > t => value = all - 2 + max + w.count
              /\ w.ends > t + Window => value = all - 2 + 2 * max + w.count
  <1>1. Window \in Nat \ {0}
    BY LimiterAssumption
  <1>2. w.ends \in (t + 2)..(t + Window) <=> w.ends > t + 1 /\ w.ends <= t + Window
    BY <1>1
  <1>3. CASE w.ends <= t + 1 /\ pruned <= t
    <2>1. /\ ~(pruned > t) /\ ~(w.ends > t + 1) /\ ~(w.ends > t + Window)
          /\ w.ends \notin (t + 2)..(t + Window)
      BY <1>1, <1>2, <1>3
    <2> QED
      BY <1>3, <2>1, Zenon DEF Ceiling
  <1>4. CASE w.ends <= t + 1 /\ pruned > t
    <2>1. /\ ~(pruned <= t) /\ ~(w.ends > t + 1) /\ ~(w.ends > t + Window)
          /\ w.ends \notin (t + 2)..(t + Window)
      BY <1>1, <1>2, <1>4
    <2> QED
      BY <1>4, <2>1, Zenon DEF Ceiling
  <1>5. CASE w.ends > t + 1 /\ w.ends <= t + Window /\ pruned <= t
    <2>1. /\ ~(pruned > t) /\ ~(w.ends <= t + 1) /\ ~(w.ends > t + Window)
          /\ w.ends \in (t + 2)..(t + Window)
      BY <1>1, <1>2, <1>5
    <2> QED
      BY <1>5, <2>1, Zenon DEF Ceiling
  <1>6. CASE w.ends > t + 1 /\ w.ends <= t + Window /\ pruned > t
    <2>1. /\ ~(pruned <= t) /\ ~(w.ends <= t + 1) /\ ~(w.ends > t + Window)
          /\ w.ends \in (t + 2)..(t + Window)
      BY <1>1, <1>2, <1>6
    <2> QED
      BY <1>6, <2>1, Zenon DEF Ceiling
  <1>7. CASE w.ends > t + Window
    <2>1. ~(w.ends <= t + 1) /\ ~(w.ends <= t + Window) /\ w.ends \notin (t + 2)..(t + Window)
      BY <1>1, <1>2, <1>7
    <2> QED
      BY <1>7, <2>1, Zenon DEF Ceiling
  <1> QED
    BY <1>1, <1>3, <1>4, <1>5, <1>6, <1>7

(* The window a request finds is an end, or has its limit's worth at most. *)
LEMMA WindowType ==
    ASSUME Inv, NEW m \in Limiters, NEW k \in Keys, limit[m] > 0
    PROVE  /\ limit[m] \in Nat \ {0} /\ lastPrune[m] \in Never..now
           /\ WindowIn(entries[m], k).ends \in Never..(now + Window)
           /\ WindowIn(entries[m], k).count \in 0..limit[m]
           /\ WindowIn(entries[m], k).ends # Never => WindowIn(entries[m], k).count > 0
  <1>1. limit[m] \in Int /\ Window \in Nat \ {0} /\ now \in Nat
    BY LimiterAssumption DEF Inv, TypeOK
  <1>2. CASE k \in DOMAIN entries[m]
    <2>1. WindowIn(entries[m], k) = entries[m][k]
      BY <1>2 DEF WindowIn
    <2>2. entries[m][k].ends \in 0..(now + Window) /\ entries[m][k].count \in 1..limit[m]
      BY <1>2 DEF Inv, TypeOK, WindowInv
    <2> QED
      BY <1>1, <2>1, <2>2 DEF Inv, TypeOK, Never
  <1>3. CASE k \notin DOMAIN entries[m]
    <2>1. WindowIn(entries[m], k) = NoWindow
      BY <1>3 DEF WindowIn
    <2> QED
      BY <1>1, <2>1 DEF Inv, TypeOK, Never, NoWindow
  <1> QED
    BY <1>2, <1>3

(* What a request with time t does to the window w of its key, ... *)
Opens(w, new, t) == w.ends <= t /\ new = [count |-> 1, ends |-> t + Window]
Counts(m, w, new, t) ==
    t < w.ends /\ w.count < limit[m] /\ new = [count |-> w.count + 1, ends |-> w.ends]

(* ... to the time of the last prune and to another window. *)
Prunes(m, t) ==
    lastPrune'[m] = t /\ (lastPrune[m] = Never \/ t - lastPrune[m] >= Window)
Removes(m, w, new, t) == Prunes(m, t) /\ w.ends <= t /\ new = NoWindow

LetThrough(m, k) ==
    given' = [given EXCEPT ![m][k] = [i \in Times |-> IF i < now THEN @[i] ELSE @[i] + 1]]

Effect(r, m, k, t) ==
    /\ request[r].pc = "locking" /\ request[r].read = t
    /\ \E state : state.pc # "locking" /\ request' = [request EXCEPT ![r] = state]
    /\ UNCHANGED <<now, limit>>
    /\ lastPrune'[m] = lastPrune[m] \/ Prunes(m, t)
    /\ \A l \in Limiters \ {m} : lastPrune'[l] = lastPrune[l]
    /\ LET w == WindowIn(entries[m], k)
           new == WindowIn(entries'[m], k)
       IN \/ (Opens(w, new, t) \/ Counts(m, w, new, t)) /\ LetThrough(m, k)
          \/ new = w /\ given' = given
    /\ \A l \in Limiters, x \in Keys :
          l # m \/ x # k =>
              LET w == WindowIn(entries[l], x)
                  new == WindowIn(entries'[l], x)
              IN new = w \/ (l = m /\ Removes(m, w, new, t))

(* A call of allow checks one key of one limiter that is on, at the time it *)
(* read, and has no other effect than these.                               *)
LEMMA AllowEffect ==
    ASSUME Inv, NEW r \in Requests, Allow(r)
    PROVE  \E m \in Limiters, k \in Keys, t \in 0..now : limit[m] > 0 /\ Effect(r, m, k, t)
  <1>1. PICK m \in Limiters, k \in Keys, t \in 0..now :
            /\ request[r].pc = "locking" /\ limit[m] > 0
            /\ m = request[r].at /\ k = KeyAt(request[r].from, m) /\ t = request[r].read
    <2>1. request[r].pc = "locking"
      BY DEF Allow
    <2>2. /\ request[r].at \in Limiters /\ request[r].read \in 0..now /\ limit[request[r].at] > 0
          /\ request[r].from \in Arrivals
      BY <2>1 DEF Inv, WindowInv, Idle
    <2> QED
      BY <2>1, <2>2, KeyIsKey
  <1> DEFINE kept == Kept(m, t)
             w == IF k \in kept THEN entries[m][k] ELSE NoWindow
             allowed == HasRoom(w, t, m)
             old == WindowIn(entries[m], k)
             pruning == lastPrune[m] = Never \/ t - lastPrune[m] >= Window
  <1>2. /\ entries' = [entries EXCEPT ![m] =
              [x \in kept \cup {k} |-> IF x = k THEN Counted(w, t, m) ELSE entries[m][x]]]
        /\ lastPrune' = [lastPrune EXCEPT ![m] = IF pruning THEN t ELSE @]
        /\ request' = [request EXCEPT ![r] = IF allowed THEN Passed(r) ELSE Idle]
        /\ IF allowed THEN LetThrough(m, k) ELSE given' = given
        /\ UNCHANGED <<now, limit>>
    BY <1>1, Zenon DEF Allow, Become, LetThrough
  <1>3. /\ kept \subseteq DOMAIN entries[m]
        /\ \A x \in DOMAIN entries[m] : x \notin kept => pruning /\ Ended(entries[m][x], t)
    BY DEF Kept
  <1>4. \A x \in DOMAIN entries[m] : entries[m][x].ends \in 0..(now + Window) /\ Window \in Nat
    BY <1>1, LimiterAssumption DEF Inv, WindowInv
  <1>5. now \in Nat /\ t \in Nat
    BY <1>1 DEF Inv, TypeOK
  <1>6. \A x \in DOMAIN entries[m] : Ended(entries[m][x], t) <=> entries[m][x].ends <= t
    BY <1>4, <1>5 DEF Ended, Never
  <1> HIDE DEF kept, pruning
  <1>7. /\ DOMAIN entries' = Limiters /\ \A l \in Limiters \ {m} : entries'[l] = entries[l]
        /\ DOMAIN entries'[m] = kept \cup {k} /\ entries'[m][k] = Counted(w, t, m)
        /\ \A x \in kept \ {k} : entries'[m][x] = entries[m][x]
    BY <1>1, <1>2 DEF Inv, TypeOK
  <1>8. lastPrune'[m] = (IF pruning THEN t ELSE lastPrune[m])
        /\ \A l \in Limiters \ {m} : lastPrune'[l] = lastPrune[l]
    BY <1>1, <1>2 DEF Inv, TypeOK
  <1>9. lastPrune'[m] = lastPrune[m] \/ Prunes(m, t)
    BY <1>8 DEF Prunes, pruning
  <1>10. WindowIn(entries'[m], k) = Counted(w, t, m)
    BY <1>7 DEF WindowIn
  <1>11. old.ends <= t <=> Ended(w, t)
    <2>1. CASE k \in kept
      BY <1>3, <1>6, <2>1 DEF WindowIn
    <2>2. CASE k \notin kept
      <3>1. Ended(w, t)
        BY <2>2 DEF Ended, NoWindow
      <3>2. old.ends <= t
        <4>1. CASE k \in DOMAIN entries[m]
          BY <1>3, <1>6, <2>2, <4>1 DEF WindowIn
        <4>2. CASE k \notin DOMAIN entries[m]
          BY <1>5, <4>2 DEF WindowIn, NoWindow, Never
        <4> QED
          BY <4>1, <4>2
      <3> QED
        BY <3>1, <3>2
    <2> QED
      BY <2>1, <2>2
  <1>12. ~Ended(w, t) => w = old /\ t < old.ends
    <2> SUFFICES ASSUME ~Ended(w, t) PROVE w = old /\ t < old.ends
      OBVIOUS
    <2>1. k \in kept
      BY DEF Ended, NoWindow
    <2>2. k \in DOMAIN entries[m] /\ old = entries[m][k] /\ w = entries[m][k]
      BY <1>3, <2>1 DEF WindowIn
    <2>3. ~(entries[m][k].ends <= t) /\ entries[m][k].ends \in Int
      BY <1>4, <1>6, <2>2
    <2> QED
      BY <1>5, <2>2, <2>3
  <1>13. \/ Ended(w, t) /\ allowed /\ Counted(w, t, m) = [count |-> 1, ends |-> t + Window]
         \/ /\ ~Ended(w, t) /\ allowed /\ w.count < limit[m]
            /\ Counted(w, t, m) = [count |-> w.count + 1, ends |-> w.ends]
         \/ ~Ended(w, t) /\ ~allowed /\ Counted(w, t, m) = w
    BY DEF Counted, HasRoom
  <1> HIDE DEF w, allowed, old
  <1>14. LET new == WindowIn(entries'[m], k)
         IN \/ (Opens(old, new, t) \/ Counts(m, old, new, t)) /\ LetThrough(m, k)
            \/ new = old /\ given' = given
    BY <1>2, <1>10, <1>11, <1>12, <1>13 DEF Opens, Counts
  <1>15. ASSUME NEW l \in Limiters, NEW x \in Keys, l # m \/ x # k
         PROVE  \/ WindowIn(entries'[l], x) = WindowIn(entries[l], x)
                \/ l = m /\ Removes(m, WindowIn(entries[l], x), WindowIn(entries'[l], x), t)
    <2>1. CASE l # m
      BY <1>7, <2>1
    <2>2. CASE l = m /\ x \in kept \cup {k}
      BY <1>3, <1>7, <1>15, <2>2 DEF WindowIn
    <2>3. CASE l = m /\ x \notin kept \cup {k}
      <3>1. WindowIn(entries'[m], x) = NoWindow
        BY <1>7, <2>3 DEF WindowIn
      <3>2. CASE x \in DOMAIN entries[m]
        <4>1. pruning /\ entries[m][x].ends <= t
          BY <1>3, <1>6, <2>3, <3>2
        <4>2. Prunes(m, t)
          BY <1>8, <4>1 DEF Prunes, pruning
        <4> QED
          BY <2>3, <3>1, <3>2, <4>1, <4>2 DEF Removes, WindowIn
      <3>3. CASE x \notin DOMAIN entries[m]
        BY <2>3, <3>1, <3>3 DEF WindowIn
      <3> QED
        BY <3>2, <3>3
    <2> QED
      BY <2>1, <2>2, <2>3
  <1>16. \E state : state.pc # "locking" /\ request' = [request EXCEPT ![r] = state]
    <2>1. Idle.pc # "locking" /\ Passed(r).pc # "locking"
      <3>1. Passed(r) \in {Idle, [pc |-> "passed", from |-> request[r].from]}
        BY Zenon DEF Passed
      <3>2. Idle.pc = "idle" /\ [pc |-> "passed", from |-> request[r].from].pc = "passed"
        BY DEF Idle
      <3> QED
        BY <3>1, <3>2
    <2> QED
      BY <1>2, <2>1
  <1>17. Effect(r, m, k, t)
    BY <1>1, <1>2, <1>8, <1>9, <1>14, <1>15, <1>16, Zenon DEF Effect, old
  <1> QED
    BY <1>1, <1>17

(* The effect of a window's change on its ceiling: one higher for the       *)
(* request that is let through, unless that was a stale one.               *)
LEMMA OwnCeiling ==
    ASSUME Inv, NEW m \in Limiters, NEW k \in Keys, NEW t \in 0..now, limit[m] > 0,
           NEW from \in Times, from < now, now <= from + Window,
           lastPrune'[m] = lastPrune[m] \/ Prunes(m, t),
           NEW new, Opens(WindowIn(entries[m], k), new, t) \/ Counts(m, WindowIn(entries[m], k), new, t)
    PROVE  Ceiling(limit[m], WindowIn(entries[m], k), lastPrune[m], from) + (IF t <= from THEN 0 ELSE 1)
               <= Ceiling(limit[m], new, lastPrune'[m], from)
  <1> DEFINE w == WindowIn(entries[m], k)
             max == limit[m]
             p == lastPrune[m]
             q == lastPrune'[m]
             all == Cardinality(Requests)
  <1>1. /\ max \in Nat \ {0} /\ p \in Never..now /\ w.ends \in Never..(now + Window)
        /\ w.count \in 0..max
    BY WindowType
  <1>2. now \in Nat /\ Window \in Nat \ {0} /\ from \in Int /\ from >= -1 /\ all \in Nat
    BY LimiterAssumption, FS_CardinalityType DEF Inv, TypeOK, Times, Never
  <1>3. q \in Int /\ (q = p \/ (q = t /\ (p = -1 \/ t - p >= Window)))
    BY <1>1, <1>2 DEF Prunes, Never
  <1>4. \/ w.ends <= t /\ new.ends = t + Window /\ new.count = 1
        \/ t < w.ends /\ w.count < max /\ new.ends = w.ends /\ new.count = w.count + 1
    BY DEF Opens, Counts
  <1> HIDE DEF w, max, p, q, all
  <1>5. /\ new.ends \in Int /\ new.count \in Int /\ w.ends \in Int /\ w.count \in Int /\ p \in Int
        /\ t \in Nat /\ t <= now
    <2>1. w.ends \in Int /\ w.count \in Int /\ p \in Int
      BY <1>1, <1>2 DEF Never
    <2>2. t \in Nat /\ t <= now
      BY <1>2
    <2> QED
      BY <1>2, <1>4, <2>1, <2>2
  <1> DEFINE a == Ceiling(max, w, p, from)
             b == Ceiling(max, new, q, from)
  <1>6. /\ w.ends <= from + 1 /\ p <= from => a = all
        /\ w.ends <= from + 1 /\ p > from => a = all - 1 + max
        /\ w.ends > from + 1 /\ w.ends <= from + Window /\ p <= from => a = all - 1 + w.count
        /\ w.ends > from + 1 /\ w.ends <= from + Window /\ p > from => a = all - 2 + max + w.count
        /\ w.ends > from + Window => a = all - 2 + 2 * max + w.count
    BY <1>1, <1>2, <1>5, CeilingValues DEF all
  <1>7. /\ new.ends <= from + 1 /\ q <= from => b = all
        /\ new.ends <= from + 1 /\ q > from => b = all - 1 + max
        /\ new.ends > from + 1 /\ new.ends <= from + Window /\ q <= from => b = all - 1 + new.count
        /\ new.ends > from + 1 /\ new.ends <= from + Window /\ q > from => b = all - 2 + max + new.count
        /\ new.ends > from + Window => b = all - 2 + 2 * max + new.count
    BY <1>1, <1>2, <1>3, <1>5, CeilingValues DEF all
  <1> HIDE DEF a, b
  <1>8. a + (IF t <= from THEN 0 ELSE 1) <= b
    <2>1. CASE t <= from
      BY <1>1, <1>2, <1>3, <1>4, <1>5, <1>6, <1>7, <2>1 DEF Never
    <2>2. CASE ~(t <= from) /\ w.ends <= t /\ new.ends = t + Window /\ new.count = 1
      <3>1. b = all - 1 + 2 * max
        BY <1>1, <1>2, <1>5, <1>7, <2>2
      <3>2. a <= all - 2 + 2 * max
        <4>1. w.ends <= from + Window /\ w.count <= max /\ 1 <= max
          BY <1>1, <1>2, <1>5, <2>2
        <4>2. \/ a = all \/ a = all - 1 + max \/ a = all - 1 + w.count
              \/ a = all - 2 + max + w.count
          BY <1>1, <1>2, <1>5, <1>6, <4>1
        <4> QED
          BY <1>1, <1>2, <1>5, <4>1, <4>2
      <3>3. a \in Int
        BY <1>1, <1>2, <1>5, <1>6
      <3> QED
        BY <1>1, <1>2, <2>2, <3>1, <3>2, <3>3
    <2>3. CASE ~(t <= from) /\ t < w.ends /\ new.ends = w.ends /\ new.count = w.count + 1
      BY <1>1, <1>2, <1>3, <1>5, <1>6, <1>7, <2>3
    <2> QED
      BY <1>4, <2>1, <2>2, <2>3
  <1> QED
    BY <1>8 DEF a, b, w, max, p, q

(* A window that stays, or is removed by another key's prune, does not      *)
(* lower the ceiling.                                                      *)
LEMMA OtherCeiling ==
    ASSUME Inv, NEW l \in Limiters, NEW x \in Keys, NEW t \in 0..now, limit[l] > 0,
           NEW from \in Times, from < now, now <= from + Window,
           lastPrune'[l] = lastPrune[l] \/ Prunes(l, t),
           NEW new, new = WindowIn(entries[l], x) \/ Removes(l, WindowIn(entries[l], x), new, t)
    PROVE  Ceiling(limit[l], WindowIn(entries[l], x), lastPrune[l], from)
               <= Ceiling(limit[l], new, lastPrune'[l], from)
  <1> DEFINE w == WindowIn(entries[l], x)
             max == limit[l]
             p == lastPrune[l]
             q == lastPrune'[l]
             all == Cardinality(Requests)
  <1>1. /\ max \in Nat \ {0} /\ p \in Never..now /\ w.ends \in Never..(now + Window)
        /\ w.count \in 0..max
    BY WindowType
  <1>2. now \in Nat /\ Window \in Nat \ {0} /\ from \in Int /\ from >= -1 /\ all \in Nat
    BY LimiterAssumption, FS_CardinalityType DEF Inv, TypeOK, Times, Never
  <1>3. q \in Int /\ (q = p \/ (q = t /\ (p = -1 \/ t - p >= Window)))
    BY <1>1, <1>2 DEF Prunes, Never
  <1>4. \/ new.ends = w.ends /\ new.count = w.count
        \/ w.ends <= t /\ new.ends = -1 /\ new.count = 0 /\ q = t /\ (p = -1 \/ t - p >= Window)
    BY DEF Removes, Prunes, NoWindow, Never
  <1> HIDE DEF w, max, p, q, all
  <1>5. /\ new.ends \in Int /\ new.count \in Int /\ w.ends \in Int /\ w.count \in Int /\ p \in Int
        /\ t \in Nat /\ t <= now
    <2>1. w.ends \in Int /\ w.count \in Int /\ p \in Int
      BY <1>1, <1>2 DEF Never
    <2>2. t \in Nat /\ t <= now
      BY <1>2
    <2> QED
      BY <1>2, <1>4, <2>1, <2>2
  <1> DEFINE a == Ceiling(max, w, p, from)
             b == Ceiling(max, new, q, from)
  <1>6. /\ w.ends <= from + 1 /\ p <= from => a = all
        /\ w.ends <= from + 1 /\ p > from => a = all - 1 + max
        /\ w.ends > from + 1 /\ w.ends <= from + Window /\ p <= from => a = all - 1 + w.count
        /\ w.ends > from + 1 /\ w.ends <= from + Window /\ p > from => a = all - 2 + max + w.count
        /\ w.ends > from + Window => a = all - 2 + 2 * max + w.count
    BY <1>1, <1>2, <1>5, CeilingValues DEF all
  <1>7. /\ new.ends <= from + 1 /\ q <= from => b = all
        /\ new.ends <= from + 1 /\ q > from => b = all - 1 + max
        /\ new.ends > from + 1 /\ new.ends <= from + Window /\ q <= from => b = all - 1 + new.count
        /\ new.ends > from + 1 /\ new.ends <= from + Window /\ q > from => b = all - 2 + max + new.count
        /\ new.ends > from + Window => b = all - 2 + 2 * max + new.count
    BY <1>1, <1>2, <1>3, <1>5, CeilingValues DEF all
  <1> HIDE DEF a, b
  <1>8. a <= b
    <2>1. CASE new.ends = w.ends /\ new.count = w.count
      BY <1>1, <1>2, <1>3, <1>5, <1>6, <1>7, <2>1
    <2>2. CASE w.ends <= t /\ new.ends = -1 /\ q = t /\ (p = -1 \/ t - p >= Window)
      <3>1. b = IF t <= from THEN all ELSE all - 1 + max
        BY <1>1, <1>2, <1>5, <1>7, <2>2
      <3>2. p <= from
        BY <1>1, <1>2, <1>5, <2>2
      <3> QED
        <4>1. /\ w.ends <= from + Window /\ w.count <= max /\ 1 <= max
              /\ t <= from => w.ends <= from + 1
          BY <1>1, <1>2, <1>5, <2>2
        <4>2. a = all \/ (~(t <= from) /\ a = all - 1 + w.count)
          BY <1>1, <1>2, <1>5, <1>6, <3>2, <4>1
        <4> QED
          BY <1>1, <1>2, <1>5, <3>1, <4>1, <4>2
    <2> QED
      BY <1>4, <2>1, <2>2
  <1> QED
    BY <1>8 DEF a, b, w, max, p, q

(* No ceiling is higher than what a minute may see. *)
LEMMA CeilingBelowBurst ==
    ASSUME NEW m, limit[m] \in Nat \ {0}, NEW w, w.ends \in Int, w.count \in 0..limit[m],
           NEW p \in Int, NEW from \in Int
    PROVE  /\ Ceiling(limit[m], w, p, from) \in Int
           /\ Ceiling(limit[m], w, p, from) <= Burst(m)
  <1> DEFINE max == limit[m]
             all == Cardinality(Requests)
             a == Ceiling(max, w, p, from)
  <1>1. Window \in Nat \ {0} /\ all \in Nat /\ max \in Nat \ {0} /\ w.count \in Int
    BY LimiterAssumption, FS_CardinalityType
  <1>2. /\ w.ends <= from + 1 /\ p <= from => a = all
        /\ w.ends <= from + 1 /\ p > from => a = all - 1 + max
        /\ w.ends > from + 1 /\ w.ends <= from + Window /\ p <= from => a = all - 1 + w.count
        /\ w.ends > from + 1 /\ w.ends <= from + Window /\ p > from => a = all - 2 + max + w.count
        /\ w.ends > from + Window => a = all - 2 + 2 * max + w.count
    BY <1>1, CeilingValues
  <1>3. Burst(m) = 3 * max + all - 2
    BY DEF Burst
  <1> HIDE DEF max, all, a
  <1>4. w.count <= max /\ w.count >= 0
    BY <1>1 DEF max
  <1>5. a \in Int /\ a <= Burst(m)
    BY <1>1, <1>2, <1>3, <1>4
  <1> QED
    BY <1>5 DEF a, max

(* The minutes the property is about lie within the clock's range. *)
LEMMA Minutes ==
    ASSUME Inv, NEW from \in Never..(MaxNow - Window)
    PROVE  /\ from \in Times /\ from + Window \in Times /\ from \in Int
           /\ now \in Times /\ now \in Nat /\ now <= MaxNow /\ MaxNow \in Nat
           /\ Window \in Nat \ {0} /\ from >= -1
  BY LimiterAssumption DEF Inv, TypeOK, Times, Never

(* Of the stale requests only the one that has the lock is one no more.     *)
LEMMA StaleAfterAllow ==
    ASSUME Inv, NEW r \in Requests, NEW m, NEW k, NEW t \in 0..now, Effect(r, m, k, t), NEW from \in Int
    PROVE  /\ Cardinality(Stale(from)) \in Nat
           /\ Cardinality(Stale(from)') =
                  Cardinality(Stale(from)) - (IF t <= from THEN 1 ELSE 0)
  <1>1. PICK state : state.pc # "locking" /\ request' = [request EXCEPT ![r] = state]
    BY DEF Effect
  <1>2. request[r].pc = "locking" /\ request[r].read = t /\ DOMAIN request = Requests
    BY DEF Effect, Inv, TypeOK
  <1>3. IsFiniteSet(Stale(from)) /\ Cardinality(Stale(from)) \in Nat
    <2>1. Stale(from) \in SUBSET Requests
      BY DEF Stale
    <2> QED
      BY <2>1, LimiterAssumption, FS_Subset, FS_CardinalityType
  <1>4. Stale(from)' = Stale(from) \ {r}
    BY <1>1, <1>2 DEF Stale
  <1>5. CASE t <= from
    <2>1. r \in Stale(from)
      BY <1>2, <1>5 DEF Stale
    <2>2. Cardinality(Stale(from) \ {r}) = Cardinality(Stale(from)) - 1
      BY <1>3, <2>1, FS_RemoveElement
    <2> QED
      BY <1>3, <1>4, <1>5, <2>2
  <1>6. CASE ~(t <= from)
    <2>1. r \notin Stale(from)
      BY <1>2, <1>6 DEF Stale
    <2>2. Stale(from)' = Stale(from)
      BY <1>4, <2>1
    <2> QED
      BY <1>3, <1>6, <2>2
  <1> QED
    BY <1>5, <1>6

(* The step under the mutex preserves BurstInv. *)
LEMMA AllowBurst ==
    ASSUME Inv, BurstInv, NEW r \in Requests, Allow(r)
    PROVE  BurstInv'
  <1>1. PICK m \in Limiters, k \in Keys, t \in 0..now : limit[m] > 0 /\ Effect(r, m, k, t)
    BY AllowEffect
  <1>2. /\ UNCHANGED <<now, limit>>
        /\ lastPrune'[m] = lastPrune[m] \/ Prunes(m, t)
        /\ \A l \in Limiters \ {m} : lastPrune'[l] = lastPrune[l]
    BY <1>1 DEF Effect
  <1>3. given \in [Limiters -> [Keys -> [Times -> Nat]]]
    BY DEF BurstInv
  <1>4. now \in 0..MaxNow /\ now \in Times /\ MaxNow \in Nat
    BY LimiterAssumption DEF Inv, TypeOK, Times, Never
  <1> DEFINE more == [i \in Times |-> IF i < now THEN given[m][k][i] ELSE given[m][k][i] + 1]
             old == WindowIn(entries[m], k)
             new == WindowIn(entries'[m], k)
             Passes == /\ Opens(old, new, t) \/ Counts(m, old, new, t)
                       /\ given' = [given EXCEPT ![m][k] = more]
  <1>5. Passes \/ (new = old /\ given' = given)
    BY <1>1, Zenon DEF Effect, LetThrough
  <1>6. more \in [Times -> Nat]
    BY <1>1, <1>3
  <1> HIDE DEF more
  <1>7. /\ given' \in [Limiters -> [Keys -> [Times -> Nat]]]
        /\ \A l \in Limiters, x \in Keys :
              \/ given'[l][x] = given[l][x]
              \/ l = m /\ x = k /\ given'[l][x] = more /\ Passes
    <2>1. CASE Passes
      BY <1>1, <1>3, <1>6, <2>1
    <2>2. CASE given' = given
      BY <1>3, <2>2
    <2> QED
      BY <1>5, <2>1, <2>2
  <1>8. ASSUME NEW l \in Limiters, NEW x \in Keys, NEW i \in now..MaxNow
        PROVE  given'[l][x][i] = given'[l][x][now]
    <2>1. given[l][x][i] = given[l][x][now]
      BY DEF BurstInv
    <2>2. CASE given'[l][x] = given[l][x]
      BY <2>1, <2>2
    <2>3. CASE l = m /\ x = k /\ given'[l][x] = more
      <3>1. i \in Times /\ ~(i < now) /\ ~(now < now)
        BY <1>4 DEF Times, Never
      <3> QED
        BY <1>4, <2>1, <2>3, <3>1 DEF more
    <2> QED
      BY <1>7, <2>2, <2>3
  <1>9. ASSUME NEW l \in Limiters, NEW x \in Keys, NEW from \in Never..(MaxNow - Window),
               limit[l] > 0, from < now, now <= from + Window
        PROVE  /\ given'[l][x][from + Window] - given'[l][x][from] + Cardinality(Stale(from)')
                      <= Ceiling(limit[l], WindowIn(entries'[l], x), lastPrune'[l], from)
               /\ given'[l][x][from + Window] - given'[l][x][from] <= Burst(l)
    <2> DEFINE w == WindowIn(entries[l], x)
               next == WindowIn(entries'[l], x)
               a == Ceiling(limit[l], w, lastPrune[l], from)
               b == Ceiling(limit[l], next, lastPrune'[l], from)
               G == given[l][x][from + Window] - given[l][x][from]
               H == given'[l][x][from + Window] - given'[l][x][from]
               S == Cardinality(Stale(from))
    <2>1. /\ from \in Times /\ from + Window \in Times /\ from \in Int
          /\ Window \in Nat \ {0} /\ now \in Nat
      BY Minutes
    <2>2. G + S <= a
      BY <1>9 DEF BurstInv
    <2>3. S \in Nat /\ Cardinality(Stale(from)') = S - (IF t <= from THEN 1 ELSE 0)
      BY <1>1, <2>1, StaleAfterAllow
    <2>4. G \in Int /\ H \in Int
      BY <1>3, <1>7, <2>1
    <2>5. lastPrune'[l] = lastPrune[l] \/ Prunes(l, t)
      BY <1>2
    <2>6. /\ limit[l] \in Nat \ {0} /\ lastPrune[l] \in Never..now
          /\ w.ends \in Never..(now + Window) /\ w.count \in 0..limit[l]
      BY <1>9, WindowType
    <2>7. w.ends \in Int /\ lastPrune'[l] \in Int /\ lastPrune[l] \in Int
      BY <2>1, <2>5, <2>6 DEF Prunes, Never
    <2>8. a \in Int
      BY <2>1, <2>6, <2>7, CeilingBelowBurst
    <2>9. CASE l = m /\ x = k /\ given'[l][x] = more /\ Passes
      <3>1. H = G + 1
        <4>1. given'[l][x][from] = given[l][x][from]
          BY <1>9, <2>1, <2>9 DEF more
        <4>2. given'[l][x][from + Window] = given[l][x][from + Window] + 1
          BY <1>9, <2>1, <2>9 DEF more
        <4> QED
          BY <1>3, <2>1, <4>1, <4>2
      <3>2. a + (IF t <= from THEN 0 ELSE 1) <= b
        BY <1>1, <1>2, <1>9, <2>1, <2>9, OwnCeiling
      <3>3. next.ends \in Int /\ next.count \in 0..limit[l]
        BY <2>1, <2>6, <2>7, <2>9 DEF Opens, Counts
      <3>4. b \in Int /\ b <= Burst(l)
        BY <2>1, <2>6, <2>7, <3>3, CeilingBelowBurst
      <3> HIDE DEF a, b, G, H, S
      <3>5. H + (S - (IF t <= from THEN 1 ELSE 0)) <= b
        BY <2>2, <2>3, <2>4, <2>8, <3>1, <3>2, <3>4
      <3>6. S - (IF t <= from THEN 1 ELSE 0) >= 0
        <4>1. Cardinality(Stale(from)') \in Nat
          <5>1. Stale(from)' \in SUBSET Requests
            BY DEF Stale
          <5> QED
            BY <5>1, LimiterAssumption, FS_Subset, FS_CardinalityType
        <4> QED
          BY <2>3, <4>1
      <3>7. H <= Burst(l)
        <4>1. Burst(l) \in Int
          BY <2>6, LimiterAssumption, FS_CardinalityType DEF Burst
        <4> QED
          BY <2>3, <2>4, <3>4, <3>5, <3>6, <4>1
      <3> QED
        BY <2>3, <3>5, <3>7 DEF b, H
    <2>10. CASE given'[l][x] = given[l][x]
      <3>1. H = G
        BY <2>10
      <3>2. \/ next = w \/ (l = m /\ Removes(m, w, next, t))
            \/ (l = m /\ x = k /\ Passes)
        <4>1. CASE l = m /\ x = k
          BY <1>5, <4>1
        <4>2. CASE l # m \/ x # k
          BY <1>1, <4>2, Zenon DEF Effect
        <4> QED
          BY <4>1, <4>2
      <3>3. a <= b /\ next.ends \in Int /\ next.count \in 0..limit[l]
        <4>1. CASE next = w \/ Removes(l, w, next, t)
          <5>1. a <= b
            BY <1>9, <2>1, <2>5, <4>1, OtherCeiling
          <5>2. next.ends \in Int /\ next.count \in 0..limit[l]
            BY <2>6, <2>7, <4>1 DEF Removes, NoWindow, Never
          <5> QED
            BY <5>1, <5>2
        <4>2. CASE l = m /\ x = k /\ Passes
          <5>1. a + (IF t <= from THEN 0 ELSE 1) <= b
            BY <1>1, <1>2, <1>9, <2>1, <4>2, OwnCeiling
          <5>2. next.ends \in Int /\ next.count \in 0..limit[l]
            BY <2>1, <2>6, <2>7, <4>2 DEF Opens, Counts
          <5>3. b \in Int
            BY <2>1, <2>6, <2>7, <5>2, CeilingBelowBurst
          <5> HIDE DEF a, b
          <5> QED
            BY <2>8, <5>1, <5>2, <5>3
        <4> QED
          BY <3>2, <4>1, <4>2
      <3>4. b \in Int
        BY <2>1, <2>6, <2>7, <3>3, CeilingBelowBurst
      <3> HIDE DEF a, b, G, H, S
      <3>5. H + (S - (IF t <= from THEN 1 ELSE 0)) <= b
        BY <2>2, <2>3, <2>4, <2>8, <3>1, <3>3, <3>4
      <3>6. H <= Burst(l)
        BY <1>9, <3>1 DEF BurstInv, BurstBounded, H, G
      <3> QED
        BY <2>3, <3>5, <3>6 DEF b, H
    <2> QED
      BY <1>7, <2>9, <2>10
  <1>10. ASSUME NEW l \in Limiters, NEW x \in Keys, NEW from \in Never..(MaxNow - Window), limit[l] > 0
         PROVE  given'[l][x][from + Window] - given'[l][x][from] <= Burst(l)
    <2>1. /\ from \in Times /\ from + Window \in Times /\ from \in Int
          /\ Window \in Nat \ {0} /\ now \in Nat
      BY Minutes
    <2>2. given[l][x][from + Window] - given[l][x][from] <= Burst(l)
      BY <1>10 DEF BurstInv, BurstBounded
    <2>3. CASE from < now /\ now <= from + Window
      BY <1>9, <1>10, <2>3
    <2>4. CASE given'[l][x] = given[l][x]
      BY <2>2, <2>4
    <2>5. CASE ~(from < now /\ now <= from + Window) /\ given'[l][x] = more /\ l = m /\ x = k
      <3>1. CASE from + Window < now
        BY <2>1, <2>2, <2>5, <3>1 DEF more
      <3>2. CASE ~(from < now)
        <4>1. /\ more[from + Window] = given[l][x][from + Window] + 1
              /\ more[from] = given[l][x][from] + 1
          BY <2>1, <2>5, <3>2 DEF more
        <4>2. given[l][x][from + Window] \in Nat /\ given[l][x][from] \in Nat
          BY <1>3, <2>1
        <4> QED
          BY <2>2, <2>5, <4>1, <4>2
      <3> QED
        BY <2>1, <2>5, <3>1, <3>2
    <2> QED
      BY <1>7, <2>3, <2>4, <2>5
  <1>11. BurstBounded'
    BY <1>2, <1>10 DEF BurstBounded, Burst
  <1> QED
    BY <1>2, <1>7, <1>8, <1>9, <1>11 DEF BurstInv

(* Nothing has been let through at the start, and the first minute finds no *)
(* window and nobody with an old time.                                     *)
LEMMA InitBurst == Init => BurstInv
  <1> SUFFICES ASSUME Init PROVE BurstInv
    OBVIOUS
  <1>1. /\ given = [m \in Limiters |-> [k \in Keys |-> [t \in Times |-> 0]]]
        /\ now = 0 /\ request = [r \in Requests |-> Idle]
        /\ entries = [m \in Limiters |-> <<>>] /\ lastPrune = [m \in Limiters |-> Never]
        /\ limit \in Budgets
    BY DEF Init
  <1>2. Window \in Nat \ {0} /\ MaxNow \in Nat /\ Cardinality(Requests) \in Nat /\ limit \in [Limiters -> Int]
    BY <1>1, LimiterAssumption, FS_CardinalityType
  <1>3. \A m \in Limiters, k \in Keys, t \in Times : given[m][k][t] = 0
    BY <1>1
  <1>4. \A t \in Never..(MaxNow - Window) : t \in Times /\ t + Window \in Times
    BY <1>2 DEF Times, Never
  <1>5. \A i \in now..MaxNow : i \in Times
    BY <1>1, <1>2 DEF Times, Never
  <1>6. BurstBounded
    <2> SUFFICES ASSUME NEW m \in Limiters, NEW k \in Keys, NEW t \in Never..(MaxNow - Window), limit[m] > 0
                 PROVE  given[m][k][t + Window] - given[m][k][t] <= Burst(m)
      BY DEF BurstBounded
    <2>1. given[m][k][t + Window] = 0 /\ given[m][k][t] = 0 /\ limit[m] \in Int
      BY <1>2, <1>3, <1>4
    <2> QED
      BY <1>2, <2>1 DEF Burst
  <1>7. ASSUME NEW m \in Limiters, NEW k \in Keys, NEW t \in Never..(MaxNow - Window),
               limit[m] > 0, t < now
        PROVE  given[m][k][t + Window] - given[m][k][t] + Cardinality(Stale(t))
                   <= Ceiling(limit[m], WindowIn(entries[m], k), lastPrune[m], t)
    <2>1. given[m][k][t + Window] = 0 /\ given[m][k][t] = 0 /\ limit[m] \in Nat \ {0}
      BY <1>2, <1>3, <1>4, <1>7
    <2>2. t = -1
      BY <1>1, <1>2, <1>7 DEF Never
    <2>3. Cardinality(Stale(t)) = 0
      <3>1. Stale(t) = {}
        BY <1>1 DEF Stale, Idle
      <3> QED
        BY <3>1, FS_EmptySet
    <2>4. WindowIn(entries[m], k) = NoWindow /\ lastPrune[m] = -1
      BY <1>1 DEF WindowIn, Never
    <2>5. NoWindow.ends = -1 /\ NoWindow.count = 0
      BY DEF NoWindow, Never
    <2>6. Ceiling(limit[m], NoWindow, -1, -1) = Cardinality(Requests)
      BY <2>1, <2>5, CeilingValues
    <2> QED
      BY <1>2, <2>1, <2>2, <2>3, <2>4, <2>6
  <1>8. given \in [Limiters -> [Keys -> [Times -> Nat]]]
    BY <1>1
  <1>9. ASSUME NEW m \in Limiters, NEW k \in Keys, NEW i \in now..MaxNow
        PROVE  given[m][k][i] = given[m][k][now]
    <2>1. i \in Times /\ now \in Times
      BY <1>1, <1>2, <1>5 DEF Times, Never
    <2> QED
      BY <1>3, <2>1
  <1> QED
    BY <1>6, <1>7, <1>8, <1>9 DEF BurstInv

(* A request that arrives, or goes on to its account, reads a time that no  *)
(* minute under way calls old.                                             *)
LEMMA ArriveBurst ==
    ASSUME Inv, BurstInv, NEW r \in Requests, request[r].pc # "locking",
           NEW state, state.pc = "locking", state.read = now,
           request' = [request EXCEPT ![r] = state],
           UNCHANGED <<now, limit, entries, lastPrune, given>>
    PROVE  BurstInv'
  <1>1. now \in Nat /\ DOMAIN request = Requests
    BY DEF Inv, TypeOK
  <1>2. ASSUME NEW t \in Never..(MaxNow - Window), t < now PROVE Stale(t)' = Stale(t)
    <2>1. t \in Int /\ ~(now <= t)
      BY <1>1, <1>2, Minutes
    <2> QED
      BY <1>1, <2>1 DEF Stale
  <1>3. BurstBounded'
    BY DEF BurstInv, BurstBounded, Burst
  <1> QED
    BY <1>2, <1>3 DEF BurstInv

(* The clock moves on: the minute that begins has seen nothing, and every   *)
(* request that is under way may be held up with an old time.              *)
LEMMA TickBurst == ASSUME Inv, BurstInv, Tick PROVE BurstInv'
  <1>1. /\ now \in Nat /\ now' = now + 1 /\ now' <= MaxNow /\ MaxNow \in Nat /\ Window \in Nat \ {0}
        /\ UNCHANGED <<limit, entries, lastPrune, request, given>>
    BY LimiterAssumption DEF Inv, TypeOK, Tick
  <1>2. BurstBounded'
    BY <1>1 DEF BurstInv, BurstBounded, Burst
  <1>3. ASSUME NEW m \in Limiters, NEW k \in Keys, NEW i \in (now + 1)..MaxNow
        PROVE  given[m][k][i] = given[m][k][now + 1]
    <2>1. i \in now..MaxNow /\ now + 1 \in now..MaxNow
      BY <1>1
    <2> QED
      BY <2>1 DEF BurstInv
  <1>4. ASSUME NEW m \in Limiters, NEW k \in Keys, NEW t \in Never..(MaxNow - Window),
               limit[m] > 0, t < now + 1, now + 1 <= t + Window
        PROVE  given[m][k][t + Window] - given[m][k][t] + Cardinality(Stale(t))
                   <= Ceiling(limit[m], WindowIn(entries[m], k), lastPrune[m], t)
    <2>1. t \in Times /\ t + Window \in Times /\ t \in Int
      BY Minutes
    <2>2. CASE t < now
      BY <1>1, <1>4, <2>1, <2>2 DEF BurstInv
    <2>3. CASE t = now
      <3> DEFINE w == WindowIn(entries[m], k)
                 all == Cardinality(Requests)
                 max == limit[m]
                 p == lastPrune[m]
                 a == Ceiling(max, w, p, t)
      <3>1. given[m][k][t + Window] = given[m][k][t] /\ given[m][k][t] \in Nat
        <4>1. t + Window \in now..MaxNow
          BY <1>1, <2>3
        <4> QED
          BY <2>1, <2>3, <4>1 DEF BurstInv
      <3>2. Cardinality(Stale(t)) <= all /\ Cardinality(Stale(t)) \in Nat /\ all \in Nat
        <4>1. Stale(t) \in SUBSET Requests
          BY DEF Stale
        <4> QED
          BY <4>1, LimiterAssumption, FS_Subset, FS_CardinalityType
      <3>3. /\ max \in Nat \ {0} /\ p \in Never..now
            /\ w.ends \in Never..(now + Window) /\ w.count \in 0..max
            /\ w.ends # Never => w.count > 0
        BY <1>4, WindowType
      <3> HIDE DEF w, max, p
      <3>4. /\ w.ends \in Int /\ w.count \in Int /\ p \in Int /\ p <= t /\ w.ends <= t + Window
            /\ w.ends > t + 1 => w.count >= 1
        BY <1>1, <2>3, <3>3 DEF Never
      <3>5. /\ w.ends <= t + 1 => a = all
            /\ w.ends > t + 1 => a = all - 1 + w.count
        BY <2>1, <3>3, <3>4, CeilingValues DEF all
      <3> HIDE DEF a, all
      <3>6. all <= a
        BY <2>1, <3>2, <3>4, <3>5
      <3>7. a \in Int
        BY <2>1, <3>2, <3>4, <3>5
      <3> QED
        BY <3>1, <3>2, <3>6, <3>7 DEF a, w, max, p
    <2> QED
      BY <1>1, <1>4, <2>1, <2>2, <2>3
  <1>5. \A t : Stale(t)' = Stale(t)
    BY <1>1 DEF Stale
  <1> QED
    BY <1>1, <1>2, <1>3, <1>4, <1>5 DEF BurstInv

(* Every step preserves BurstInv. *)
LEMMA StepBurst == ASSUME Inv, BurstInv, [Next]_vars PROVE BurstInv'
  <1>1. ASSUME NEW r \in Requests, NEW a \in Arrivals, Arrive(r, a) PROVE BurstInv'
    <2> DEFINE state == [pc |-> "locking", from |-> a, at |-> Head(Stages(a)), read |-> now]
    <2>1. /\ request[r].pc # "locking" /\ request' = [request EXCEPT ![r] = state]
          /\ UNCHANGED <<now, limit, entries, lastPrune, given>>
      BY <1>1 DEF Arrive, Become, Idle
    <2>2. state.pc = "locking" /\ state.read = now
      OBVIOUS
    <2> HIDE DEF state
    <2> QED
      BY <2>1, <2>2, ArriveBurst
  <1>2. ASSUME NEW r \in Requests, ReadClock(r) PROVE BurstInv'
    <2> DEFINE state == [pc |-> "locking", from |-> request[r].from, at |-> "account", read |-> now]
    <2>1. /\ request[r].pc # "locking" /\ request' = [request EXCEPT ![r] = state]
          /\ UNCHANGED <<now, limit, entries, lastPrune, given>>
      BY <1>2 DEF ReadClock, Become
    <2>2. state.pc = "locking" /\ state.read = now
      OBVIOUS
    <2> HIDE DEF state
    <2> QED
      BY <2>1, <2>2, ArriveBurst
  <1>3. ASSUME NEW r \in Requests, Allow(r) PROVE BurstInv'
    BY <1>3, AllowBurst
  <1>4. CASE Tick
    BY <1>4, TickBurst
  <1>5. CASE UNCHANGED vars
    <2>1. UNCHANGED <<now, limit, entries, lastPrune, given, request>>
      BY <1>5 DEF vars
    <2>2. BurstBounded'
      BY <2>1 DEF BurstInv, BurstBounded, Burst
    <2>3. \A t : Stale(t)' = Stale(t)
      BY <2>1 DEF Stale
    <2> QED
      BY <2>1, <2>2, <2>3 DEF BurstInv
  <1> QED
    BY <1>1, <1>2, <1>3, <1>4, <1>5 DEF Next, Done

(* For every limit, window and number of requests at a time: a minute sees  *)
(* no more of a key than three windows' worth and the requests held up.    *)
THEOREM BurstHolds == Spec => []BurstBounded
  <1>1. Inv /\ BurstInv /\ [Next]_vars => BurstInv'
    BY StepBurst
  <1>2. BurstInv => BurstBounded
    BY DEF BurstInv
  <1> QED
    BY <1>1, <1>2, InitBurst, Invariance, PTL DEF Spec

-----------------------------------------------------------------------------
(* The Ekilex fetcher.                                                     *)

(* A gate is made of its two parts.                                        *)
LEMMA GateParts ==
    ASSUME NEW open \in BOOLEAN, NEW c \in 0..MaxTrips
    PROVE  [paused |-> open, channel |-> c] \in [paused : BOOLEAN, channel : 0..MaxTrips]
  BY Zenon

(* The parts of a gate.                                                    *)
LEMMA GateFields ==
    ASSUME gate \in [paused : BOOLEAN, channel : 0..MaxTrips]
    PROVE  gate.paused \in BOOLEAN /\ gate.channel \in 0..MaxTrips
  OBVIOUS

(* Earlier runs recorded what they were answered.                          *)
LEMMA EarlierAnswered ==
    ASSUME NEW f \in Earlier
    PROVE  \A x \in Words : /\ f.status[x] = "ok" => x \in f.raw
                            /\ f.status[x] = "not_found" => x \in f.gone
  BY FetcherAssumption

(* The files found at the start are ones that earlier runs may have left.  *)
LEMMA FetcherInitInv == FetcherInit => FetcherInv
  <1> SUFFICES ASSUME FetcherInit PROVE FetcherInv
    OBVIOUS
  <1>1. \E f \in Earlier : status = f.status /\ raw = f.raw /\ gone = f.gone
    BY DEF FetcherInit
  <1>2. status \in [Words -> Outcomes] /\ raw \subseteq Words /\ gone \subseteq Words
    BY <1>1, FetcherAssumption, Zenon
  <1>3. SkippedWasAnswered
    <2>1. ASSUME NEW f \in Earlier, status = f.status, raw = f.raw, gone = f.gone
          PROVE  SkippedWasAnswered
      BY <2>1, EarlierAnswered, Zenon DEF SkippedWasAnswered
    <2> QED
      BY <1>1, <2>1
  <1>4. gate \in [paused : BOOLEAN, channel : 0..MaxTrips]
    <2>1. 0 \in 0..MaxTrips
      BY FetcherAssumption
    <2> QED
      BY <2>1, GateParts, Zenon DEF FetcherInit
  <1>5. /\ running \in BOOLEAN /\ cancelled \in BOOLEAN /\ queue \subseteq Words /\ jobs \subseteq Words
        /\ pc = Off /\ job \in [Workers -> Words \cup {NoWord}] /\ result \in [Workers -> Outcomes]
    BY DEF FetcherInit, Outcomes
  <1>6. /\ attempt \in [Workers -> 0..MaxAttempts] /\ channel \in [Workers -> 0..MaxTrips]
        /\ closed \subseteq 0..MaxTrips /\ passed \in [Workers -> Nat] /\ runs \in 0..MaxRuns
        /\ probing \in Nat /\ resuming \in Nat /\ okCount \in Nat /\ consecutive \in Nat
    BY FetcherAssumption DEF FetcherInit
  <1>7. FetcherTypeOK
    BY <1>2, <1>4, <1>5, <1>6 DEF FetcherTypeOK, Off
  <1>8. PausedMeansPaused /\ FetchInv /\ GateInv
    BY FetcherAssumption DEF FetcherInit, PausedMeansPaused, FetchInv, GateInv, Off
  <1> QED
    BY <1>3, <1>7, <1>8 DEF FetcherInv

(* A process that starts, or has ended, holds nothing in memory.           *)
LEMMA FreshInv ==
    ASSUME FetcherInv, Fresh, UNCHANGED <<files, gone>>,
           running' \in BOOLEAN, jobs' \subseteq Words, runs' \in 0..MaxRuns,
           NEW place \in {"off", "receive"}, pc' = [w \in Workers |-> place]
    PROVE  FetcherInv'
  <1> USE FetcherAssumption DEF FetcherInv, Fresh, files
  <1>1. FetcherTypeOK'
    <2>1. 0 \in 0..MaxTrips
      OBVIOUS
    <2>2. gate' \in [paused : BOOLEAN, channel : 0..MaxTrips]
      BY <2>1, GateParts, Zenon
    <2>3. cancelled' \in BOOLEAN
      BY Zenon
    <2>4. pc' \in [Workers -> {"off", "receive", "gate", "wait", "fetch", "record", "count", "trip"}]
      OBVIOUS
    <2>5. /\ job' \in [Workers -> Words \cup {NoWord}]
          /\ result' \in [Workers -> Outcomes] /\ attempt' \in [Workers -> 0..MaxAttempts]
          /\ channel' \in [Workers -> 0..MaxTrips] /\ closed' \subseteq 0..MaxTrips
          /\ probing' \in Nat /\ resuming' \in Nat /\ okCount' \in Nat /\ consecutive' \in Nat
          /\ passed' \in [Workers -> Nat]
      BY <2>1 DEF Outcomes
    <2> QED
      BY <2>2, <2>3, <2>4, <2>5 DEF FetcherTypeOK
  <1>2. SkippedWasAnswered'
    BY DEF SkippedWasAnswered
  <1>3. PausedMeansPaused' /\ FetchInv' /\ GateInv'
    BY DEF PausedMeansPaused, FetchInv, GateInv
  <1> QED
    BY <1>1, <1>2, <1>3

(* A step of a worker preserves FetcherInv.                                       *)
LEMMA WorkerStep == ASSUME FetcherInv, NEW w \in Workers, Step(w) PROVE FetcherInv'
  <1> USE FetcherAssumption DEF FetcherInv, Goto, Return, files, worker, breaker, counters, history
  <1>1. CASE Receive(w)
    <2>1. FetcherTypeOK'
      <3>1. cancelled' \in BOOLEAN
        BY <1>1 DEF Receive, FetcherTypeOK
      <3> QED
        BY <1>1, <3>1 DEF Receive, FetcherTypeOK
    <2>2. SkippedWasAnswered' /\ PausedMeansPaused'
      BY <1>1 DEF Receive, SkippedWasAnswered, PausedMeansPaused
    <2>3. FetchInv' /\ GateInv'
      BY <1>1 DEF Receive, FetcherTypeOK, FetchInv, GateInv
    <2> QED
      BY <2>1, <2>2, <2>3
  <1>2. CASE PickChannel(w)
    <2>1. FetcherTypeOK'
      BY <1>2 DEF PickChannel, FetcherTypeOK
    <2>2. SkippedWasAnswered' /\ PausedMeansPaused'
      BY <1>2 DEF PickChannel, SkippedWasAnswered, PausedMeansPaused
    <2>3. FetchInv' /\ GateInv'
      BY <1>2 DEF PickChannel, FetcherTypeOK, FetchInv, GateInv
    <2> QED
      BY <2>1, <2>2, <2>3
  <1>3. CASE PassGate(w)
    <2>1. FetcherTypeOK'
      BY <1>3 DEF PassGate, FetcherTypeOK
    <2>2. SkippedWasAnswered' /\ FetchInv'
      BY <1>3 DEF PassGate, FetcherTypeOK, SkippedWasAnswered, FetchInv
    <2>3. PausedMeansPaused' /\ GateInv'
      BY <1>3 DEF PassGate, FetcherTypeOK, PausedMeansPaused, GateInv
    <2> QED
      BY <2>1, <2>2, <2>3
  <1>4. ASSUME NEW a \in {"ok", "missing", "denied", "error"}, Attempt(w, a) PROVE FetcherInv'
    <2>1. job[w] \in Words /\ attempt[w] < MaxAttempts
      BY <1>4 DEF Attempt, FetchInv
    <2>2. FetcherTypeOK'
      BY <1>4, <2>1 DEF Attempt, FetcherTypeOK, Outcomes
    <2>3. SkippedWasAnswered' /\ PausedMeansPaused'
      BY <1>4 DEF Attempt, SkippedWasAnswered, PausedMeansPaused
    <2>4. FetchInv'
      BY <1>4, <2>1 DEF Attempt, FetcherTypeOK, FetchInv
    <2>5. GateInv'
      BY <1>4 DEF Attempt, FetcherTypeOK, GateInv
    <2> QED
      BY <2>2, <2>3, <2>4, <2>5
  <1>5. CASE RecordOutcome(w)
    <2>1. FetcherTypeOK'
      BY <1>5 DEF RecordOutcome, FetcherTypeOK
    <2>2. SkippedWasAnswered' /\ PausedMeansPaused'
      BY <1>5 DEF RecordOutcome, FetcherTypeOK, SkippedWasAnswered, PausedMeansPaused, FetchInv
    <2>3. FetchInv' /\ GateInv'
      BY <1>5 DEF RecordOutcome, FetcherTypeOK, FetchInv, GateInv
    <2> QED
      BY <2>1, <2>2, <2>3
  <1>6. CASE Count(w)
    <2>1. FetcherTypeOK'
      <3>1. cancelled' \in BOOLEAN
        BY <1>6 DEF Count, FetcherTypeOK
      <3>2. /\ job' \in [Workers -> Words \cup {NoWord}] /\ attempt' \in [Workers -> 0..MaxAttempts]
            /\ result' \in [Workers -> Outcomes] /\ okCount' \in Nat /\ consecutive' \in Nat
            /\ pc' \in [Workers -> {"off", "receive", "gate", "wait", "fetch", "record", "count", "trip"}]
        BY <1>6 DEF Count, FetcherTypeOK, Outcomes
      <3> QED
        BY <1>6, <3>1, <3>2 DEF Count, FetcherTypeOK
    <2>2. SkippedWasAnswered' /\ PausedMeansPaused'
      BY <1>6 DEF Count, SkippedWasAnswered, PausedMeansPaused
    <2>3. pc'[w] \in {"receive", "off", "trip"} /\ \A v \in Workers \ {w} : pc'[v] = pc[v] /\ job'[v] = job[v] /\ result'[v] = result[v]
      BY <1>6 DEF Count, FetcherTypeOK
    <2>4. FetchInv'
      BY <1>6, <2>3 DEF Count, FetchInv
    <2>5. GateInv'
      BY <1>6, <2>3 DEF Count, GateInv
    <2> QED
      BY <2>1, <2>2, <2>4, <2>5
  <1>7. CASE Trip(w)
    <2>0. /\ pc' \in [Workers -> {"off", "receive", "gate", "wait", "fetch", "record", "count", "trip"}]
          /\ pc'[w] = "receive" /\ \A v \in Workers \ {w} : pc'[v] = pc[v]
      BY <1>7 DEF Trip, FetcherTypeOK
    <2>1. CASE UNCHANGED <<breaker, passed>>
      <3>1. FetcherTypeOK'
        BY <1>7, <2>0, <2>1 DEF Trip, FetcherTypeOK
      <3>2. SkippedWasAnswered' /\ PausedMeansPaused'
        BY <1>7, <2>1 DEF Trip, SkippedWasAnswered, PausedMeansPaused
      <3>3. FetchInv' /\ GateInv'
        BY <1>7, <2>0, <2>1 DEF Trip, FetchInv, GateInv
      <3> QED
        BY <3>1, <3>2, <3>3
    <2>2. CASE TripCircuit /\ gate.channel < MaxTrips /\ ~gate.paused
      <3>1. gate.channel + 1 \in 0..MaxTrips /\ gate.channel \in Nat /\ closed \subseteq Nat
        BY <2>2, GateFields DEF FetcherTypeOK
      <3>2. /\ closed' = closed /\ probing' = probing + 1 /\ resuming' = resuming
            /\ passed' = [v \in Workers |-> 0]
        BY <2>2, Zenon DEF TripCircuit
      <3>3. gate' = [paused |-> TRUE, channel |-> gate.channel + 1]
        BY <2>2, Zenon DEF TripCircuit
      <3>4. gate' \in [paused : BOOLEAN, channel : 0..MaxTrips]
        BY <3>1, <3>3, GateParts, Zenon
      <3>5. FetcherTypeOK'
        BY <1>7, <2>0, <3>2, <3>4 DEF Trip, FetcherTypeOK
      <3>6. SkippedWasAnswered' /\ PausedMeansPaused'
        BY <1>7, <3>2 DEF Trip, SkippedWasAnswered, PausedMeansPaused
      <3>7. FetchInv'
        BY <1>7, <2>0 DEF Trip, FetchInv
      <3>8. gate'.channel = gate.channel + 1 /\ gate'.paused = TRUE
        BY <3>3
      <3>9. GateInv'
        BY <3>1, <3>2, <3>8 DEF GateInv
      <3> QED
        BY <3>5, <3>6, <3>7, <3>9
    <2> QED
      BY <1>7, <2>1, <2>2 DEF Trip, TripCircuit
  <1> QED
    BY <1>1, <1>2, <1>3, <1>4, <1>5, <1>6, <1>7 DEF Step

(* Every step preserves FetcherInv.                                               *)
LEMMA FetcherStepInv == FetcherInv /\ [FetcherNext]_fetcherVars => FetcherInv'
  <1> SUFFICES ASSUME FetcherInv, [FetcherNext]_fetcherVars PROVE FetcherInv'
    OBVIOUS
  <1> USE FetcherAssumption DEF files, worker, breaker, counters, history
  <1>1. ASSUME NEW listed \in SUBSET (Words \cup {Foreign, NoId, NoLemma}), RefreshQueue(listed) PROVE FetcherInv'
    BY <1>1 DEF RefreshQueue, PublicWords, FetcherInv, FetcherTypeOK, SkippedWasAnswered, PausedMeansPaused,
                FetchInv, GateInv
  <1>2. CASE StartRun
    BY <1>2, FreshInv DEF StartRun, Pending, FetcherInv, FetcherTypeOK
  <1>3. CASE Interrupt
    BY <1>3 DEF Interrupt, FetcherInv, FetcherTypeOK, SkippedWasAnswered, PausedMeansPaused, FetchInv, GateInv
  <1>4. CASE EndRun \/ Crash
    BY <1>4, FreshInv DEF EndRun, Crash, Off, FetcherInv, FetcherTypeOK
  <1>5. CASE ProbeAnswers \/ ProbeStops
    <2>1. /\ probing' \in Nat /\ resuming' \in Nat /\ consecutive' \in Nat
          /\ UNCHANGED <<files, running, cancelled, jobs, worker, gate, closed, okCount, history, runs>>
      BY <1>5 DEF ProbeAnswers, ProbeStops, FetcherInv, FetcherTypeOK
    <2> QED
      BY <2>1 DEF FetcherInv, FetcherTypeOK, SkippedWasAnswered, PausedMeansPaused, FetchInv, GateInv
  <1>6. CASE Resume
    <2>1. gate' \in [paused : BOOLEAN, channel : 0..MaxTrips] /\ closed' \subseteq 0..MaxTrips
      <3>1. gate.channel \in 0..MaxTrips /\ gate \in [paused : BOOLEAN, channel : 0..MaxTrips]
        BY GateFields DEF FetcherInv, FetcherTypeOK
      <3>2. gate' \in [paused : BOOLEAN, channel : 0..MaxTrips]
        BY <1>6, <3>1, GateParts, Zenon DEF Resume
      <3> QED
        BY <1>6, <3>1, <3>2 DEF Resume, FetcherInv, FetcherTypeOK
    <2>2. resuming' \in Nat /\ UNCHANGED <<files, running, cancelled, jobs, worker, probing, counters, history, runs>>
      BY <1>6 DEF Resume, FetcherInv, FetcherTypeOK
    <2>5. FetcherTypeOK'
      BY <2>1, <2>2 DEF FetcherInv, FetcherTypeOK
    <2>3. (SkippedWasAnswered /\ PausedMeansPaused /\ FetchInv)'
      BY <1>6 DEF Resume, FetcherInv, SkippedWasAnswered, PausedMeansPaused, FetchInv
    <2>4. GateInv'
      BY <1>6 DEF Resume, FetcherInv, FetcherTypeOK, GateInv
    <2> QED
      BY <2>5, <2>3, <2>4 DEF FetcherInv
  <1>7. CASE UNCHANGED fetcherVars
    BY <1>7 DEF fetcherVars, FetcherInv, FetcherTypeOK, SkippedWasAnswered, PausedMeansPaused, FetchInv, GateInv
  <1> QED
    BY <1>1, <1>2, <1>3, <1>4, <1>5, <1>6, <1>7, WorkerStep DEF FetcherNext

(* FetcherInv is an invariant of the fetcher.                                     *)
THEOREM FetcherInvariance == FetcherSpec => []FetcherInv
  BY FetcherInitInv, FetcherStepInv, PTL DEF FetcherSpec

(* The types are invariant.                                                *)
THEOREM FetcherTypeCorrect == FetcherSpec => []FetcherTypeOK
  BY FetcherInvariance, PTL DEF FetcherInv

(* filterPending skips only words that were answered: whatever failed, was *)
(* cancelled or crashed, a row "ok" has its raw file, and a row            *)
(* "not_found" stands for a 404.                                           *)
THEOREM SkippedAlwaysAnswered == FetcherSpec => []SkippedWasAnswered
  BY FetcherInvariance, PTL DEF FetcherInv

(* A worker begins at most one fetch while the circuit is open, however    *)
(* Pause, Wait and Resume interleave and whichever probe resumes.          *)
THEOREM PauseHolds == FetcherSpec => []PausedMeansPaused
  BY FetcherInvariance, PTL DEF FetcherInv
=============================================================================
