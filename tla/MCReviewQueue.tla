---------------------------- MODULE MCReviewQueue ----------------------------
(* Instances of ReviewQueue for TLC. *)
EXTENDS ReviewQueue, TLC

CONSTANTS k1, k2

Noon == 10 * Day + 72

Blank == [payload |-> "empty", step |-> 0, due |-> Null, answered |-> Null, introduced |-> Null]

\* A row written before introduced_at existed, and one introduced yesterday.
Legacy == [payload |-> "step", step |-> 2, due |-> Noon, answered |-> Noon - 7 * Day, introduced |-> Null]
Yesterdays == [payload |-> "fsrs", step |-> 0, due |-> Noon, answered |-> Noon - Day,
               introduced |-> Noon - Day]

AllRatings == {"again", "hard", "good", "easy"}

BudgetRows == {Blank, Yesterdays}
BudgetFilters == {{1, 2, 3}, {3}}
LoopSymmetry == Permutations({k1, k2})

QueueDelays == {8 * Day}

\* Bound: one card climbs the ladder of the step scheduler to its third rung,
\* where a week or two separate the rungs, the others stop at the first.
OneCardClimbs == row[1].step <= 3 /\ \A c \in Cards \ {1} : row[c].step <= 1

ScheduleRows == {Blank, Legacy}
ScheduleFilters == {{1}}
ScheduleDelays == {1, 8 * Day, 120 * Day}
ScheduleJumps == {3 * Day, 27 * Day}
ScheduleBound == Noon + 30 * Day
\* Long enough for midnight to pass.
BudgetBound == Noon + 72
=============================================================================
