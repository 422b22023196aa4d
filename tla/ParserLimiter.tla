--------------------------- MODULE ParserLimiter ---------------------------
(***************************************************************************)
(* The parser concurrency limiter (internal/api/parser_limiter.go) as the  *)
(* two handlers that parse text use it: HandleParse, open to anonymous     *)
(* visitors, and handleCreateDeck, signed-in only.                         *)
(*                                                                         *)
(* Two buffered channels serve as counting semaphores.  An anonymous       *)
(* request first sends into `anon', then into `total'; a signed-in request *)
(* sends into `total' only.  Each send is a Go select against the request's*)
(* deadline, and when both branches are ready the runtime picks either.    *)
(* Giving slots back is one channel receive per step, so every             *)
(* intermediate state of a release is visible to the other requests.       *)
(***************************************************************************)
EXTENDS Integers, FiniteSets

CONSTANTS
    Requests,       \* request goroutines; an answered one may be reused by a retry
    Anonymous,      \* the requests whose getCurrentUser returned no user
    MaxConcurrency  \* FINNESTDB_PARSER_MAX_CONCURRENCY as configured, any integer

ASSUME RequestsAssumption == IsFiniteSet(Requests) /\ Anonymous \subseteq Requests
ASSUME ConfigAssumption == MaxConcurrency \in Int

\* Capacity of the shared channel, after the clamp to at least one slot.
Slots == IF MaxConcurrency < 1 THEN 1 ELSE MaxConcurrency

\* Mutant of AnonSlots: the anonymous share is not halved.
AnonSlotsNotHalved == Slots

\* Capacity of the anonymous channel: half of the total, at least one.
AnonSlots == IF Slots \div 2 < 1 THEN 1 ELSE Slots \div 2

VARIABLES
    pc,      \* where each request stands in its handler
    total,   \* tokens in p.total
    anon,    \* tokens in p.anon
    expired, \* waiting requests whose deadlineCtx is done
    timed    \* FINNESTDB_PARSER_QUEUE_TIMEOUT_MS is positive; read at start

vars == <<pc, total, anon, expired, timed>>

\* idle       not in the handler: not arrived yet, or answered
\* anonWait   in the select on p.anon
\* totalWait  in the select on p.total
\* refund     lost the race for p.total, about to receive from p.anon
\* parsing    acquire returned ok; the parser runs
\* leaveAnon  release has received from p.total, about to receive from p.anon
States == {"idle", "anonWait", "totalWait", "refund", "parsing", "leaveAnon"}

TypeOK ==
    /\ pc \in [Requests -> States]
    /\ total \in 0..Slots
    /\ anon \in 0..AnonSlots
    /\ expired \subseteq Requests
    /\ timed \in BOOLEAN

Init ==
    /\ pc = [r \in Requests |-> "idle"]
    /\ total = 0
    /\ anon = 0
    /\ expired = {}
    /\ timed \in BOOLEAN

-----------------------------------------------------------------------------

(* The handler reaches acquire(ctx, auth == nil); a fresh deadline starts. *)
Arrive(r) ==
    /\ pc[r] = "idle"
    /\ pc' = [pc EXCEPT ![r] = IF r \in Anonymous THEN "anonWait" ELSE "totalWait"]
    /\ expired' = expired \ {r}
    /\ UNCHANGED <<total, anon, timed>>

Waiting(r) == pc[r] \in {"anonWait", "totalWait"}

(* context.WithTimeout fires; without a positive timeout there is no timer. *)
Timeout(r) ==
    /\ timed
    /\ Waiting(r)
    /\ expired' = expired \cup {r}
    /\ UNCHANGED <<pc, total, anon, timed>>

(* The client goes away and net/http cancels the request's context. *)
Disconnect(r) ==
    /\ Waiting(r)
    /\ expired' = expired \cup {r}
    /\ UNCHANGED <<pc, total, anon, timed>>

(* case p.anon <- struct{}{}: *)
AcquireAnon(r) ==
    /\ pc[r] = "anonWait"
    /\ anon < AnonSlots
    /\ anon' = anon + 1
    /\ pc' = [pc EXCEPT ![r] = "totalWait"]
    /\ UNCHANGED <<total, expired, timed>>

(* case <-deadlineCtx.Done() of the first select: 503, nothing was taken. *)
ShedAnon(r) ==
    /\ pc[r] = "anonWait"
    /\ r \in expired
    /\ pc' = [pc EXCEPT ![r] = "idle"]
    /\ UNCHANGED <<total, anon, expired, timed>>

\* Mutant of AcquireTotal: the send does not wait for room.
AcquireTotalUnbounded(r) ==
    /\ pc[r] = "totalWait"
    /\ total' = total + 1
    /\ pc' = [pc EXCEPT ![r] = "parsing"]
    /\ UNCHANGED <<anon, expired, timed>>

(* case p.total <- struct{}{}: *)
AcquireTotal(r) ==
    /\ pc[r] = "totalWait"
    /\ total < Slots
    /\ total' = total + 1
    /\ pc' = [pc EXCEPT ![r] = "parsing"]
    /\ UNCHANGED <<anon, expired, timed>>

\* Mutant of ShedTotal: returns (nil, false) without receiving from p.anon.
ShedTotalNoRefund(r) ==
    /\ pc[r] = "totalWait"
    /\ r \in expired
    /\ pc' = [pc EXCEPT ![r] = "idle"]
    /\ UNCHANGED <<total, anon, expired, timed>>

\* Mutant of ShedTotal: the second send of acquire is outside any select.
ShedTotalSignedInOnly(r) ==
    /\ pc[r] = "totalWait"
    /\ r \in expired \ Anonymous
    /\ pc' = [pc EXCEPT ![r] = "idle"]
    /\ UNCHANGED <<total, anon, expired, timed>>

(* case <-deadlineCtx.Done() of the second select.  An anonymous request   *)
(* still owes its p.anon token; a signed-in one answers 503 at once.       *)
ShedTotal(r) ==
    /\ pc[r] = "totalWait"
    /\ r \in expired
    /\ pc' = [pc EXCEPT ![r] = IF r \in Anonymous THEN "refund" ELSE "idle"]
    /\ UNCHANGED <<total, anon, expired, timed>>

(* <-p.anon of a request that lost the race for p.total, then 503. *)
Refund(r) ==
    /\ pc[r] = "refund"
    /\ anon > 0
    /\ anon' = anon - 1
    /\ pc' = [pc EXCEPT ![r] = "idle"]
    /\ UNCHANGED <<total, expired, timed>>

(* The deferred release(): <-p.total, which is all a signed-in one does. *)
ReleaseTotal(r) ==
    /\ pc[r] = "parsing"
    /\ total > 0
    /\ total' = total - 1
    /\ pc' = [pc EXCEPT ![r] = IF r \in Anonymous THEN "leaveAnon" ELSE "idle"]
    /\ UNCHANGED <<anon, expired, timed>>

(* release() of an anonymous request: the second receive, <-p.anon. *)
ReleaseAnon(r) ==
    /\ pc[r] = "leaveAnon"
    /\ anon > 0
    /\ anon' = anon - 1
    /\ pc' = [pc EXCEPT ![r] = "idle"]
    /\ UNCHANGED <<total, expired, timed>>

Next ==
    \E r \in Requests :
        \/ Arrive(r) \/ Timeout(r) \/ Disconnect(r)
        \/ AcquireAnon(r) \/ ShedAnon(r)
        \/ AcquireTotal(r) \/ ShedTotal(r) \/ Refund(r)
        \/ ReleaseTotal(r) \/ ReleaseAnon(r)

(***************************************************************************)
(* Timers fire, a goroutine that can run does, and a parse ends (its input *)
(* is capped): weak fairness.  Nothing makes a request arrive or a client  *)
(* disconnect.                                                             *)
(***************************************************************************)
Progress ==
    \A r \in Requests :
        /\ WF_vars(Timeout(r))
        /\ WF_vars(ShedAnon(r)) /\ WF_vars(ShedTotal(r)) /\ WF_vars(Refund(r))
        /\ WF_vars(ReleaseTotal(r)) /\ WF_vars(ReleaseAnon(r))

(***************************************************************************)
(* Go parks the senders of a full channel in a FIFO queue and hands a freed*)
(* slot to the head of it, so a parked send is not overtaken for ever:     *)
(* strong fairness of the two sends.  It is assumed only where there is no *)
(* queue timeout to end the wait.                                          *)
(***************************************************************************)
FifoSends ==
    \A r \in Requests :
        SF_vars(~timed /\ AcquireAnon(r)) /\ SF_vars(~timed /\ AcquireTotal(r))

Spec == Init /\ [][Next]_vars
FairSpec == Spec /\ Progress /\ FifoSends

-----------------------------------------------------------------------------

Parsing == {r \in Requests : pc[r] = "parsing"}

(* The limiter implements ParserPool: the queue of two channels, the refund *)
(* of a lost race and the two receives of a release are invisible from      *)
(* outside, and a request enters only when the pool and its share have room.*)
Pool == INSTANCE ParserPool WITH
    stage <- [r \in Requests |->
                 CASE Waiting(r) -> "waiting"
                   [] pc[r] = "parsing" -> "parsing"
                   [] OTHER -> "out"]

ImplementsPool == Pool!Spec

\* Requests that have sent into p.anon and not yet received from it.
AnonHolders ==
    {r \in Anonymous : pc[r] \in {"totalWait", "refund", "parsing", "leaveAnon"}}

(* Every token in the channels belongs to exactly one request that will    *)
(* give it back, whichever branch of the selects it took: no slot leaks on *)
(* a timeout, and no slot is given back twice.                             *)
NoSlotLeak ==
    /\ total = Cardinality(Parsing)
    /\ anon = Cardinality(AnonHolders)

(* Only anonymous requests are in the states of the anonymous path.  With  *)
(* TypeOK and NoSlotLeak this is the inductive invariant.                  *)
AnonymousPath ==
    \A r \in Requests :
        pc[r] \in {"anonWait", "refund", "leaveAnon"} => r \in Anonymous

Inv == TypeOK /\ AnonymousPath /\ NoSlotLeak

(* A flood of anonymous requests alone never makes a signed-in request     *)
(* wait for the parser: when the shared pool is full, a signed-in request  *)
(* is among those parsing.  With a pool of one slot, which is possible by  *)
(* configuration only, the anonymous share is clamped up to the whole pool.*)
AnonymousLeavesRoom ==
    Slots >= 2 /\ total = Slots => \E r \in Parsing : r \notin Anonymous

(* A request that reaches the limiter is eventually answered, parsed or    *)
(* shed, whatever the others do.  With the queue timeout on this needs no  *)
(* fairness of the sends; with it off it rests on the FIFO of the channels *)
(* and on every request giving back all it took, and a request that waits  *)
(* for the shared pool is parsed unless its client goes away.              *)
EveryRequestAnswered ==
    \A r \in Requests :
        /\ pc[r] # "idle" ~> pc[r] = "idle"
        /\ pc[r] = "totalWait" ~> pc[r] = "parsing" \/ r \in expired
=============================================================================
