---------------------------- MODULE RateLimiter ----------------------------
(***************************************************************************)
(* The fixed-window rate limits of internal/api/rate_limit.go as the       *)
(* handlers of one route use them (parse; login, registration and feedback *)
(* differ in the name of the second key): first the budget of the client's *)
(* address, then that of the account.  allow() reads the clock before it   *)
(* takes the mutex, so requests may be counted in another order than their *)
(* times, and everything after the lock is one step.                       *)
(***************************************************************************)
EXTENDS Integers, Sequences, FiniteSets

CONSTANTS
    Requests,     \* request goroutines
    Arrivals,     \* what requests carry: remote address, headers, account
    NoAccount,    \* the account of an anonymous request
    Invalid,      \* a header entry that is no IP address
    Trusted,      \* remotes whose forwarding headers are believed
    Budgets,      \* what the environment may set the two limits to
    Window,       \* one minute
    MaxRequests,  \* bound on the requests that arrive
    MaxNow        \* bound on the clock

Limiters == {"ip", "account"}

ASSUME LimiterAssumption ==
    /\ IsFiniteSet(Requests)
    /\ Window \in Nat \ {0}
    /\ Budgets \subseteq [Limiters -> Int]
    /\ \A a \in Arrivals :
        DOMAIN a = {"remote", "forwarded", "real", "account"} /\ a.remote # Invalid
    /\ MaxRequests \in Nat /\ MaxNow \in Nat

VARIABLES
    now,        \* the clock
    limit,      \* limit of each limiter; zero or less switches it off
    entries,    \* its windows: a function from keys to [count, ends]
    lastPrune,  \* when it last removed ended windows, Never before the first
    request,    \* where each request stands
    arrived,    \* requests so far
    given,      \* history: how many requests of a key each limiter let through up to a time
    turnedAway  \* history: the first refusal of a key since it last let one through

vars == <<now, limit, entries, lastPrune, request, arrived, given, turnedAway>>

Never == -1
Idle == [pc |-> "idle"]
NoWindow == [count |-> 0, ends |-> Never]
Times == Never..MaxNow

(* rightmostForwardedIP, then X-Real-IP, then the remote address; headers  *)
(* only count when the remote is trusted.                                  *)
ClientIP(a) ==
    LET valid == {i \in DOMAIN a.forwarded : a.forwarded[i] # Invalid}
        last == CHOOSE i \in valid : \A j \in valid : j <= i
    IN CASE a.remote \in Trusted /\ valid # {}       -> a.forwarded[last]
         [] a.remote \in Trusted /\ valid = {}
                /\ a.real # Invalid                  -> a.real
         [] OTHER                                    -> a.remote

Keys == {ClientIP(a) : a \in Arrivals} \cup {a.account : a \in Arrivals}

TypeOK ==
    /\ now \in 0..MaxNow
    /\ limit \in Budgets
    /\ DOMAIN entries = Limiters /\ DOMAIN request = Requests
    /\ \A m \in Limiters :
        /\ DOMAIN entries[m] \subseteq Keys
        /\ \A k \in DOMAIN entries[m] : entries[m][k].count \in 1..limit[m]
    /\ lastPrune \in [Limiters -> Never..now]
    /\ arrived \in 0..MaxRequests

Init ==
    /\ now = 0
    /\ limit \in Budgets
    /\ entries = [m \in Limiters |-> <<>>]
    /\ lastPrune = [m \in Limiters |-> Never]
    /\ request = [r \in Requests |-> Idle]
    /\ arrived = 0
    /\ given = [m \in Limiters |-> [k \in Keys |-> [t \in Times |-> 0]]]
    /\ turnedAway = [m \in Limiters |-> [k \in Keys |-> Never]]

Become(r, state) == request' = [request EXCEPT ![r] = state]

\* The key a request presents to a limiter.
KeyAt(a, m) == IF m = "ip" THEN ClientIP(a) ELSE a.account

\* The limiters a request passes: its address, then its account if it has one;
\* allow lets everything pass where the limit is switched off.
Stages(a) ==
    (IF limit["ip"] > 0 THEN <<"ip">> ELSE <<>>)
    \o (IF limit["account"] > 0 /\ a.account # NoAccount THEN <<"account">> ELSE <<>>)

(* A request arrives at its first limiter and reads the clock.             *)
Arrive(r, a) ==
    /\ request[r] = Idle
    /\ arrived < MaxRequests
    /\ Stages(a) # <<>>
    /\ arrived' = arrived + 1
    /\ Become(r, [pc |-> "locking", from |-> a, at |-> Head(Stages(a)), read |-> now])
    /\ UNCHANGED <<now, limit, entries, lastPrune, given, turnedAway>>

(* The same at the second limiter. *)
ReadClock(r) ==
    /\ request[r].pc = "passed"
    /\ Become(r, [pc |-> "locking", from |-> request[r].from, at |-> "account", read |-> now])
    /\ UNCHANGED <<now, limit, entries, lastPrune, arrived, given, turnedAway>>

Passed(r) ==
    LET stages == Stages(request[r].from) IN
    IF request[r].at # stages[Len(stages)]
    THEN [pc |-> "passed", from |-> request[r].from] ELSE Idle

(* !now.Before(windowEnds) *)
Ended(w, t) == w.ends = Never \/ t >= w.ends

(* The windows a prune at time t leaves; at most one prune per window. *)
Kept(m, t) ==
    IF lastPrune[m] = Never \/ t - lastPrune[m] >= Window
    THEN {k \in DOMAIN entries[m] : ~Ended(entries[m][k], t)}
    ELSE DOMAIN entries[m]

\* Mutant of HasRoom: one request too many.
HasRoomForOneMore(w, t, m) == Ended(w, t) \/ w.count <= limit[m]

HasRoom(w, t, m) == Ended(w, t) \/ w.count < limit[m]

\* Mutant of Counted: a refused request moves the window on.
CountedSliding(w, t, m) ==
    CASE Ended(w, t)         -> [count |-> 1, ends |-> t + Window]
      [] ~HasRoom(w, t, m)   -> [count |-> w.count, ends |-> t + Window]
      [] OTHER               -> [count |-> w.count + 1, ends |-> w.ends]

(* The window after a request at time t: a new one, the same, or one more. *)
Counted(w, t, m) ==
    CASE Ended(w, t)       -> [count |-> 1, ends |-> t + Window]
      [] ~HasRoom(w, t, m) -> w
      [] OTHER             -> [count |-> w.count + 1, ends |-> w.ends]

(* allow under the mutex, with the time read before it. *)
Allow(r) ==
    /\ request[r].pc = "locking"
    /\ LET m == request[r].at
           k == KeyAt(request[r].from, m)
           t == request[r].read
           kept == Kept(m, t)
           w == IF k \in kept THEN entries[m][k] ELSE NoWindow
           allowed == HasRoom(w, t, m)
       IN
       /\ entries' = [entries EXCEPT ![m] =
              [x \in kept \cup {k} |-> IF x = k THEN Counted(w, t, m) ELSE entries[m][x]]]
       /\ lastPrune' = [lastPrune EXCEPT ![m] =
              IF @ = Never \/ t - @ >= Window THEN t ELSE @]
       /\ Become(r, IF allowed THEN Passed(r) ELSE Idle)
       /\ given' = IF allowed
                    THEN [given EXCEPT ![m][k] =
                              [i \in Times |-> IF i < now THEN @[i] ELSE @[i] + 1]]
                    ELSE given
       /\ turnedAway' = [turnedAway EXCEPT ![m][k] =
              IF allowed THEN Never ELSE IF @ = Never THEN now ELSE @]
    /\ UNCHANGED <<now, limit, arrived>>

Tick ==
    /\ now < MaxNow
    /\ now' = now + 1
    /\ UNCHANGED <<limit, entries, lastPrune, request, arrived, given, turnedAway>>

\* Nobody waits for anything but the next request.
Done ==
    /\ \A r \in Requests : request[r] = Idle
    /\ arrived = MaxRequests
    /\ UNCHANGED vars

Next ==
    \/ \E r \in Requests :
        \/ \E a \in Arrivals : Arrive(r, a)
        \/ ReadClock(r) \/ Allow(r)
    \/ Tick
    \/ Done

Spec == Init /\ [][Next]_vars

-----------------------------------------------------------------------------

\* What a minute after time t may see of one key: three windows' worth and one
\* more of each goroutine but two.
Burst(m) == 3 * limit[m] + Cardinality(Requests) - 2

(* A fixed window lets two windows' worth of requests through in a minute  *)
(* that lies across their border.  Times are read outside the lock, which  *)
(* makes it one more for every goroutine that was held up with an old one, *)
(* and a third window: when another key's request prunes the first, an old *)
(* time opens a window that ends before the minute does, and another is    *)
(* opened when it has ended.                                               *)
BurstBounded ==
    \A m \in Limiters, k \in Keys, t \in Never..(MaxNow - Window) :
        limit[m] > 0 => given[m][k][t + Window] - given[m][k][t] <= Burst(m)

(* "a minute is the honest worst-case retry signal": a client that was     *)
(* refused and comes back a minute later, with nobody let through on its   *)
(* key meanwhile, is not refused again - although times are read outside   *)
(* the lock and another request's prune may come in between.               *)
RetryAfterIsHonest ==
    [][\A r \in Requests :
           Allow(r) =>
               LET m == request[r].at
                   k == KeyAt(request[r].from, m)
               IN turnedAway[m][k] # Never /\ request[r].read >= turnedAway[m][k] + Window
                      => turnedAway'[m][k] = Never]_vars

(* Inductive, and behind it: nobody has read a time that is still to come, *)
(* no window ends later than one opened now, and the window that turned a  *)
(* key away is over a minute after the first refusal.                      *)
WindowInv ==
    /\ \A r \in Requests :
        \/ request[r] = Idle
        \/ /\ request[r].pc = "passed" /\ request[r].from \in Arrivals
           /\ limit["account"] > 0
        \/ /\ request[r].pc = "locking" /\ request[r].from \in Arrivals
           /\ request[r].at \in Limiters /\ limit[request[r].at] > 0
           /\ request[r].read \in 0..now
    /\ turnedAway \in [Limiters -> [Keys -> Nat \cup {Never}]]
    /\ \A m \in Limiters : \A k \in DOMAIN entries[m] :
        /\ entries[m][k].ends \in 0..(now + Window)
        /\ turnedAway[m][k] # Never => entries[m][k].ends <= turnedAway[m][k] + Window

Inv == TypeOK /\ WindowInv

(* The requests held up with a time no later than t. *)
Stale(t) == {r \in Requests : request[r].pc = "locking" /\ request[r].read <= t}

WindowIn(table, k) == IF k \in DOMAIN table THEN table[k] ELSE NoWindow

(* What the minute after t has seen of a key, and may yet see of stale     *)
(* requests, by the window that is open now: one that nobody with a time   *)
(* in this minute is counted in, one that ends within the minute, or one   *)
(* that was opened in it.  A limiter prunes at most once with a time of    *)
(* this minute, and until it has, the first of these windows stays.        *)
Ceiling(max, w, pruned, t) ==
    LET all == Cardinality(Requests) IN
    CASE w.ends <= t + 1 /\ pruned <= t -> all
      [] w.ends <= t + 1 /\ pruned > t  -> all - 1 + max
      [] w.ends \in (t + 2)..(t + Window) /\ pruned <= t -> all - 1 + w.count
      [] w.ends \in (t + 2)..(t + Window) /\ pruned > t  -> all - 2 + max + w.count
      [] w.ends > t + Window -> all - 2 + 2 * max + w.count

(* With Inv inductive, and behind BurstBounded. *)
BurstInv ==
    /\ given \in [Limiters -> [Keys -> [Times -> Nat]]]
    /\ \A m \in Limiters, k \in Keys :
        \A i \in now..MaxNow : given[m][k][i] = given[m][k][now]
    /\ BurstBounded
    /\ \A m \in Limiters, k \in Keys, t \in Never..(MaxNow - Window) :
        limit[m] > 0 /\ t < now /\ now <= t + Window =>
            given[m][k][t + Window] - given[m][k][t] + Cardinality(Stale(t))
                <= Ceiling(limit[m], WindowIn(entries[m], k), lastPrune[m], t)
=============================================================================
