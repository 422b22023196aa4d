----------------------------- MODULE ParserPool -----------------------------
(***************************************************************************)
(* What the parser limiter promises the rest of the server, without its    *)
(* channels and deadlines: one pool of parsers shared by two classes of    *)
(* requests, each with its share.  A waiting request is either let in or   *)
(* refused; entering, refusing and leaving are one step each.              *)
(***************************************************************************)
EXTENDS Integers, FiniteSets

CONSTANTS
    Requests,   \* request goroutines
    Anonymous,  \* those of visitors who are not signed in
    Slots,      \* how many texts are parsed at once
    AnonSlots   \* how many of them for anonymous visitors

VARIABLE stage  \* where each request stands: outside, waiting, or being parsed

Stages == {"out", "waiting", "parsing"}

Parsed == {r \in Requests : stage[r] = "parsing"}

Init == stage = [r \in Requests |-> "out"]

Moves(r, from, to) ==
    /\ stage[r] = from
    /\ stage' = [stage EXCEPT ![r] = to]

Come(r) == Moves(r, "out", "waiting")

(* There is room in the pool, and in its anonymous share. *)
Enter(r) ==
    /\ Cardinality(Parsed) < Slots
    /\ r \in Anonymous => Cardinality(Parsed \cap Anonymous) < AnonSlots
    /\ Moves(r, "waiting", "parsing")

(* 503 and Retry-After. *)
Refuse(r) == Moves(r, "waiting", "out")

Leave(r) == Moves(r, "parsing", "out")

Next == \E r \in Requests : Come(r) \/ Enter(r) \/ Refuse(r) \/ Leave(r)

Spec == Init /\ [][Next]_stage
=============================================================================
