---------------------------- MODULE EkilexFetcher ----------------------------
(***************************************************************************)
(* cmd/fetchekilex: a resumable fetch of Ekilex payloads by several         *)
(* workers, a circuit breaker with a probe, a checkpoint table and raw      *)
(* files, over any number of runs that end, are cancelled or crash.         *)
(*                                                                         *)
(* A word stands for its word_id, which the queue file names once.  The     *)
(* rate ticker and the back-off only delay.  What a request answers is      *)
(* external: "ok", "missing" (404), "denied" (401, 403) or "error".         *)
(***************************************************************************)
EXTENDS Integers, FiniteSets

CONSTANTS
    Words,            \* headwords the public list may name
    Foreign,          \* an entry of the public list in another language
    NoId,             \* one without an id
    NoLemma,          \* one without a lemma
    Workers,
    NoWord,           \* a worker without a job
    Earlier,          \* [status, raw, gone]: what earlier runs and crashes have left
    Limit,            \* -limit: stop after that many fetches, 0 for no limit
    MaxAttempts,      \* -max-attempts
    CircuitFailures,  \* -circuit-failures
    MaxRuns,          \* bound: runs of the program
    MaxTrips          \* bound: times the circuit opens in a run; after that it stays closed

\* What fetch_status records, and what fetchOne returns; "none" for neither.
Outcomes == {"none", "ok", "not_found", "failed", "auth", "canceled"}

ASSUME FetcherAssumption ==
    /\ {NoWord, Foreign, NoId, NoLemma} \cap Words = {}
    /\ \A f \in Earlier :
         /\ f.status \in [Words -> Outcomes]
         /\ f.raw \subseteq Words /\ f.gone \subseteq Words
         /\ \A x \in Words : /\ f.status[x] = "ok" => x \in f.raw
                             /\ f.status[x] = "not_found" => x \in f.gone
    /\ Limit \in Nat /\ MaxAttempts \in Nat \ {0} /\ CircuitFailures \in Nat
    /\ MaxRuns \in Nat /\ MaxTrips \in Nat

VARIABLES
    queue,     \* the queue file
    status,    \* fetch_status: the row of each word, "none" without one
    raw,       \* words with a raw file
    running,   \* a run is going on
    cancelled, \* its context is done
    jobs,      \* words of the run not yet handed to a worker
    pc,        \* what each worker is doing
    job,       \* the word it has
    attempt,   \* attempts of fetchOne made for it
    result,    \* what fetchOne returned
    channel,   \* the resume channel a worker picked up in Wait
    gate,      \* [paused, channel]: the gate's state and its current channel
    closed,    \* channels that have been closed
    probing,   \* probe goroutines that have not got their answer
    resuming,  \* those whose deferred Resume is still to come
    okCount, consecutive,
    passed,    \* history: fetches each worker began since the circuit opened
    gone,      \* history: words the service has answered 404 for
    runs

files == <<queue, status, raw>>
history == <<passed, gone>>
worker == <<pc, job, attempt, result, channel>>
breaker == <<gate, closed, probing, resuming>>
counters == <<okCount, consecutive>>
fetcherVars == <<files, running, cancelled, jobs, worker, breaker, counters, history, runs>>

FetcherTypeOK ==
    /\ queue \subseteq Words /\ raw \subseteq Words /\ jobs \subseteq Words /\ gone \subseteq Words
    /\ status \in [Words -> Outcomes]
    /\ running \in BOOLEAN /\ cancelled \in BOOLEAN
    /\ pc \in [Workers -> {"off", "receive", "gate", "wait", "fetch", "record", "count", "trip"}]
    /\ job \in [Workers -> Words \cup {NoWord}] /\ result \in [Workers -> Outcomes]
    /\ attempt \in [Workers -> 0..MaxAttempts]
    /\ channel \in [Workers -> 0..MaxTrips]
    /\ gate \in [paused : BOOLEAN, channel : 0..MaxTrips]
    /\ closed \subseteq 0..MaxTrips
    /\ probing \in Nat /\ resuming \in Nat /\ okCount \in Nat /\ consecutive \in Nat
    /\ passed \in [Workers -> Nat] /\ runs \in 0..MaxRuns

Off == [w \in Workers |-> "off"]

FetcherInit ==
    /\ queue = {}
    /\ \E files0 \in Earlier : status = files0.status /\ raw = files0.raw /\ gone = files0.gone
    /\ running = FALSE /\ cancelled = FALSE /\ jobs = {}
    /\ pc = Off /\ job = [w \in Workers |-> NoWord] /\ attempt = [w \in Workers |-> 0]
    /\ result = [w \in Workers |-> "none"] /\ channel = [w \in Workers |-> 0]
    /\ gate = [paused |-> FALSE, channel |-> 0] /\ closed = {0} /\ probing = 0 /\ resuming = 0
    /\ okCount = 0 /\ consecutive = 0 /\ passed = [w \in Workers |-> 0] /\ runs = 0

-----------------------------------------------------------------------------
(* The public list names entries in several languages; one without an id    *)
(* makes publicWords fail, as a list without an Estonian word does.        *)
PublicWords(entries) == IF NoId \in entries THEN {} ELSE entries \ {Foreign}

\* refresh-queue: the file is replaced when its set of ids has changed; writeQueue refuses a
\* malformed entry.
RefreshQueue(entries) ==
    /\ ~running
    /\ PublicWords(entries) \notin {{}, queue}
    /\ NoLemma \notin PublicWords(entries)
    /\ queue' = PublicWords(entries)
    /\ UNCHANGED <<status, raw, running, cancelled, jobs, worker, breaker, counters, history, runs>>

\* filterPending
Pending == {x \in queue : status[x] \notin {"ok", "not_found"}}

\* What a process has in memory when it starts.
Fresh ==
    /\ cancelled' = FALSE
    /\ job' = [w \in Workers |-> NoWord] /\ attempt' = [w \in Workers |-> 0]
    /\ result' = [w \in Workers |-> "none"] /\ channel' = [w \in Workers |-> 0]
    /\ gate' = [paused |-> FALSE, channel |-> 0] /\ closed' = {0} /\ probing' = 0 /\ resuming' = 0
    /\ okCount' = 0 /\ consecutive' = 0 /\ passed' = [w \in Workers |-> 0]

\* cmdFetch up to the workers.
StartRun ==
    /\ ~running /\ runs < MaxRuns /\ Pending # {}
    /\ running' = TRUE /\ jobs' = Pending /\ runs' = runs + 1
    /\ pc' = [w \in Workers |-> "receive"]
    /\ Fresh
    /\ UNCHANGED <<files, gone>>

Goto(w, place) == pc' = [pc EXCEPT ![w] = place]
Return(w) == Goto(w, "off")

\* A worker takes the next word and looks at the limit; it also returns when the feeder,
\* which stops at a cancelled context, has closed the channel of jobs.
Receive(w) ==
    /\ pc[w] = "receive"
    /\ \/ \E x \in jobs :
            /\ jobs' = jobs \ {x}
            /\ IF Limit > 0 /\ okCount >= Limit
               THEN Return(w) /\ cancelled' = TRUE /\ UNCHANGED job
               ELSE Goto(w, "gate") /\ job' = [job EXCEPT ![w] = x] /\ UNCHANGED cancelled
       \/ (jobs = {} \/ cancelled) /\ Return(w) /\ UNCHANGED <<jobs, job, cancelled>>
    /\ UNCHANGED <<files, running, attempt, result, channel, breaker, counters, history, runs>>

\* Wait: the channel is picked up under the mutex, and waited on outside of it.
PickChannel(w) ==
    /\ pc[w] = "gate"
    /\ channel' = [channel EXCEPT ![w] = gate.channel] /\ Goto(w, "wait")
    /\ UNCHANGED <<files, running, cancelled, jobs, job, attempt, result, breaker, counters, history, runs>>

PassGate(w) ==
    /\ pc[w] = "wait"
    /\ channel' = [channel EXCEPT ![w] = 0]
    /\ \/ cancelled /\ Return(w) /\ UNCHANGED <<attempt, passed>>
       \/ /\ channel[w] \in closed
          /\ Goto(w, "fetch") /\ attempt' = [attempt EXCEPT ![w] = 0]
          /\ passed' = [passed EXCEPT ![w] = IF gate.paused THEN @ + 1 ELSE @]
    /\ UNCHANGED <<files, running, cancelled, jobs, job, result, breaker, counters, gone, runs>>

\* One attempt of fetchOne.  A context cancelled before it, which is during the back-off after
\* the one before, ends the fetch, and a request under a cancelled context fails; an answer
\* is written to a temporary file that is renamed (writeRawGzip), or that fails.
Attempt(w, answer) ==
    /\ pc[w] = "fetch"
    /\ answer # "error" => ~cancelled
    /\ LET n == attempt[w] + 1
           last == n = MaxAttempts
           give(r) == result' = [result EXCEPT ![w] = r] /\ Goto(w, "record")
       IN  /\ attempt' = [attempt EXCEPT ![w] = n]
           /\ \/ answer = "ok" /\ give("ok") /\ raw' = raw \cup {job[w]}
              \/ answer = "ok" /\ give("failed") /\ UNCHANGED raw
              \/ answer = "missing" /\ give("not_found") /\ UNCHANGED raw
              \/ answer = "denied" /\ give("auth") /\ UNCHANGED raw
              \/ answer = "error" /\ ~last /\ ~cancelled /\ UNCHANGED <<result, pc, raw>>
              \/ answer = "error" /\ cancelled /\ give("canceled") /\ UNCHANGED raw
              \/ answer = "error" /\ last /\ give("failed") /\ UNCHANGED raw
    /\ gone' = IF answer = "missing" THEN gone \cup {job[w]} ELSE gone
    /\ UNCHANGED <<queue, status, running, cancelled, jobs, job, channel, breaker, counters, passed, runs>>

\* Mutant of RecordOutcome: an interrupted fetch is recorded as one that found nothing.
RecordCancelledMissing(w) ==
    /\ pc[w] = "record"
    /\ status' = [status EXCEPT ![job[w]] = IF result[w] = "canceled" THEN "not_found" ELSE result[w]]
    /\ Goto(w, "count")
    /\ UNCHANGED <<queue, raw, running, cancelled, jobs, job, attempt, result, channel, breaker, counters, history, runs>>

\* recordOutcome, whose failure is only logged.
RecordOutcome(w) ==
    /\ pc[w] = "record"
    /\ \/ status' = [status EXCEPT ![job[w]] = result[w]]
       \/ UNCHANGED status
    /\ Goto(w, "count")
    /\ UNCHANGED <<queue, raw, running, cancelled, jobs, job, attempt, result, channel, breaker, counters, history, runs>>

\* Mutant of TripCircuit: an open circuit gets a new channel all the same.
TripAgain ==
    /\ gate' = [paused |-> TRUE, channel |-> gate.channel + 1]
    /\ probing' = probing + 1 /\ passed' = [w \in Workers |-> 0]
    /\ UNCHANGED <<closed, resuming>>

\* Mutant of TripCircuit: workers that are told of the pause keep the old channel.
TripSameChannel ==
    IF gate.paused THEN UNCHANGED <<breaker, passed>>
    ELSE /\ gate' = [paused |-> TRUE, channel |-> gate.channel]
         /\ probing' = probing + 1 /\ passed' = [w \in Workers |-> 0]
         /\ UNCHANGED <<closed, resuming>>

\* Pause and the probe goroutine: only the first of several workers opens the circuit.
TripCircuit ==
    IF gate.paused THEN UNCHANGED <<breaker, passed>>
    ELSE /\ gate' = [paused |-> TRUE, channel |-> gate.channel + 1]
         /\ probing' = probing + 1 /\ passed' = [w \in Workers |-> 0]
         /\ UNCHANGED <<closed, resuming>>

\* The worker's switch on the outcome.
Count(w) ==
    /\ pc[w] = "count"
    /\ job' = [job EXCEPT ![w] = NoWord] /\ result' = [result EXCEPT ![w] = "none"]
    /\ attempt' = [attempt EXCEPT ![w] = 0]
    /\ \/ /\ result[w] = "ok"
          /\ okCount' = okCount + 1 /\ consecutive' = 0 /\ Goto(w, "receive")
          /\ UNCHANGED <<cancelled, breaker, passed>>
       \/ /\ result[w] = "not_found"
          /\ consecutive' = 0 /\ Goto(w, "receive")
          /\ UNCHANGED <<okCount, cancelled, breaker, passed>>
       \/ /\ result[w] = "auth"
          /\ cancelled' = TRUE /\ Return(w) /\ UNCHANGED <<counters, breaker, passed>>
       \/ /\ result[w] = "canceled"
          /\ Return(w) /\ UNCHANGED <<cancelled, counters, breaker, passed>>
       \/ /\ result[w] \notin {"ok", "not_found", "auth", "canceled"}
          /\ consecutive' = consecutive + 1
          /\ Goto(w, IF CircuitFailures > 0 /\ consecutive' >= CircuitFailures THEN "trip" ELSE "receive")
          /\ UNCHANGED <<okCount, cancelled, breaker, passed>>
    /\ UNCHANGED <<files, running, jobs, channel, gone, runs>>

\* The worker whose failure was one too many opens the circuit; others go on meanwhile.
Trip(w) ==
    /\ pc[w] = "trip"
    /\ Goto(w, "receive")
    /\ IF gate.channel < MaxTrips THEN TripCircuit ELSE UNCHANGED <<breaker, passed>>
    /\ UNCHANGED <<files, running, cancelled, jobs, job, attempt, result, channel, counters, gone, runs>>

\* The probe goroutine: a good answer clears the count of failures, and then the deferred
\* Resume closes the gate's channel; it also returns when the context is done.
ProbeAnswers ==
    /\ probing > 0
    /\ consecutive' = 0 /\ probing' = probing - 1 /\ resuming' = resuming + 1
    /\ UNCHANGED <<files, running, cancelled, jobs, worker, gate, closed, okCount, history, runs>>

ProbeStops ==
    /\ probing > 0 /\ cancelled
    /\ probing' = probing - 1 /\ resuming' = resuming + 1
    /\ UNCHANGED <<files, running, cancelled, jobs, worker, gate, closed, counters, history, runs>>

Resume ==
    /\ resuming > 0
    /\ resuming' = resuming - 1
    /\ IF gate.paused THEN gate' = [paused |-> FALSE, channel |-> gate.channel] /\ closed' = closed \cup {gate.channel}
                      ELSE UNCHANGED <<gate, closed>>
    /\ UNCHANGED <<files, running, cancelled, jobs, worker, probing, counters, history, runs>>

Interrupt ==
    /\ running /\ ~cancelled /\ cancelled' = TRUE
    /\ UNCHANGED <<files, running, jobs, worker, breaker, counters, history, runs>>

\* wg.Wait returns; what the probe is still doing ends with the process.
EndRun ==
    /\ running /\ pc = Off
    /\ running' = FALSE /\ jobs' = {} /\ pc' = Off /\ Fresh
    /\ UNCHANGED <<files, gone, runs>>

\* The files survive.
Crash ==
    /\ running /\ pc # Off
    /\ running' = FALSE /\ jobs' = {} /\ pc' = Off /\ Fresh
    /\ UNCHANGED <<files, gone, runs>>

Step(w) ==
    \/ Receive(w) \/ PickChannel(w) \/ PassGate(w)
    \/ \E a \in {"ok", "missing", "denied", "error"} : Attempt(w, a)
    \/ RecordOutcome(w) \/ Count(w) \/ Trip(w)

FetcherNext ==
    \/ \E entries \in SUBSET (Words \cup {Foreign, NoId, NoLemma}) : RefreshQueue(entries)
    \/ StartRun \/ Interrupt \/ EndRun \/ Crash
    \/ running /\ (ProbeAnswers \/ ProbeStops \/ Resume)
    \/ \E w \in Workers : Step(w)

\* The Go scheduler runs every worker that can go on; nothing is assumed of the service
\* that answers the probe.
Fairness == WF_fetcherVars(EndRun) /\ \A w \in Workers : WF_fetcherVars(Step(w))

FetcherSpec == FetcherInit /\ [][FetcherNext]_fetcherVars /\ Fairness

-----------------------------------------------------------------------------
(* Properties.                                                             *)

\* A later run skips only words that were answered: one recorded as fetched has its raw
\* file, one recorded as missing was a 404, whatever failed, was cancelled or crashed.
SkippedWasAnswered ==
    \A x \in Words : /\ status[x] = "ok" => x \in raw
                     /\ status[x] = "not_found" => x \in gone

\* While the circuit is open a worker begins at most the one fetch for which it had
\* passed the gate before.
PausedMeansPaused == \A w \in Workers : passed[w] <= 1

\* Inductive, and implies the two above: a worker in the midst of a fetch has a word and an
\* attempt left, and one about to record an outcome has seen what it records ...
FetchInv ==
    \A w \in Workers :
        /\ pc[w] \in {"gate", "wait", "fetch", "record", "count"} => job[w] \in Words
        /\ pc[w] = "fetch" => attempt[w] < MaxAttempts
        /\ pc[w] = "record" => /\ result[w] = "ok" => job[w] \in raw
                               /\ result[w] = "not_found" => job[w] \in gone

\* ... and the channel of an open circuit is new: nobody has closed it, and a worker that
\* has begun a fetch since waits on one that is open.
GateInv ==
    /\ \A i \in closed : i <= gate.channel
    /\ gate.paused => gate.channel \notin closed
    /\ \A w \in Workers : gate.paused /\ pc[w] = "wait" /\ passed[w] = 1 => channel[w] \notin closed

FetcherInv == FetcherTypeOK /\ SkippedWasAnswered /\ PausedMeansPaused /\ FetchInv /\ GateInv

\* A run ends unless the circuit stays open for ever and nobody interrupts it: no worker
\* is left waiting on a channel that a pause replaced, or on jobs that do not come.
RunsEnd == <>[](gate.paused /\ ~cancelled) \/ (running ~> ~running)
=============================================================================
