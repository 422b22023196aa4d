---------------------------- MODULE ReviewQueue ----------------------------
(***************************************************************************)
(* One learner's review queue and schedulers: GetNextReviewCard,           *)
(* RecordReviewAnswer, the dashboard counts and the daily new-card budget  *)
(* of internal/store/db.go, with the FSRS and step schedulers of           *)
(* internal/store/fsrs.go, used by review loops that run at the same time  *)
(* (one per open tab, and one more for a rating clicked twice).            *)
(*                                                                         *)
(* Time is counted in units of ten minutes, the shortest delay of the step *)
(* scheduler; dates are UTC.  Streaks, and the memory state inside an FSRS *)
(* payload, only feed the external FSRS engine and are left out.           *)
(***************************************************************************)
EXTENDS Integers, FiniteSets

CONSTANTS
    Cards,       \* card ids, in AUTOINCREMENT order
    Loops,       \* review loops the learner has open
    Filters,     \* what deck_id and lang may restrict a request to: sets of cards
    NewPerDay,   \* settings.new_per_day
    StartRows,   \* card_state rows the model starts from
    Ratings,     \* the ratings the learner gives, of the four there are
    FsrsDelays,  \* delays the FSRS engine may choose for a rating above Again
    Jumps,       \* by how much time may pass at once
    Today,       \* where the clock starts
    MaxNow       \* bound on the clock

Minutes10 == 1
Hours8 == 48
Day == 144
Null == -1

ASSUME QueueAssumption ==
    /\ Cards \subseteq Nat /\ IsFiniteSet(Cards)
    /\ IsFiniteSet(Loops)
    /\ Filters \subseteq SUBSET Cards
    /\ NewPerDay \in Nat \ {0}
    /\ Ratings \subseteq {"again", "hard", "good", "easy"}
    /\ FsrsDelays \subseteq Nat \ {0}
    /\ Jumps \subseteq Nat \ {0}
    /\ Today \in Nat /\ MaxNow \in Nat

Times == Nat \cup {Null}

\* A card_state row: which payload fsrs_json holds ("empty" for NULL), the
\* step of a step payload, and the three timestamps.
Rows == [payload : {"empty", "step", "fsrs"}, step : 0..5,
         due : Times, answered : Times, introduced : Times]

\* Through every mix of loops and scheduler flips an unanswered row is blank,
\* and an answered one has a payload and a due time; it may lack introduced_at
\* when an older schema wrote it.
RowInvariant(r) ==
    /\ r \in Rows
    /\ r.answered = Null => r.payload = "empty" /\ r.due = Null /\ r.introduced = Null
    /\ r.answered # Null => r.payload # "empty" /\ r.due # Null /\ r.due > r.answered

GoodDays == <<1, 3, 7, 14, 30, 60>>
EasyDays == <<3, 7, 14, 30, 60, 90>>

\* What the step scheduler leaves in a row: a due time no further away than
\* Easy puts a card on that step.
OnLadder(r) == r.payload = "step" => r.due - r.answered <= EasyDays[r.step + 1] * Day

\* The model starts on a day on which no card has been introduced yet.
ASSUME StartAssumption ==
    \A r \in StartRows :
        /\ RowInvariant(r) /\ OnLadder(r)
        /\ r.introduced <= r.answered /\ r.answered <= Today
        /\ r.introduced # Null => r.introduced \div Day < Today \div Day

VARIABLES
    now,     \* the clock
    fsrsOn,  \* FSRSEnabled(), fixed while the server runs
    row,     \* card_state of each card
    hidden,  \* cards whose lemma is known, ignored or quarantined
    loop     \* each loop: where it stands, and the card it shows

vars == <<now, fsrsOn, row, hidden, loop>>

\* idle     nothing on screen
\* reading  HandleReviewNext has read remainingNewCardsToday; `open' says
\*          whether it was positive, `filter' what the request asked for
\* showing  the card is on screen and may be rated
LoopStates ==
    [pc : {"idle"}]
        \cup [pc : {"reading"}, open : BOOLEAN, filter : Filters]
        \cup [pc : {"showing"}, card : Cards]

TypeOK ==
    /\ now \in Nat
    /\ fsrsOn \in BOOLEAN
    /\ row \in [Cards -> Rows] /\ \A c \in Cards : RowInvariant(row[c])
    /\ hidden \subseteq Cards
    /\ loop \in [Loops -> LoopStates]

Idle == [pc |-> "idle"]

Init ==
    /\ now = Today
    /\ fsrsOn \in BOOLEAN
    /\ row \in [Cards -> StartRows]
    /\ hidden = {}
    /\ loop = [k \in Loops |-> Idle]

-----------------------------------------------------------------------------
(* The step scheduler. *)

AtMost5(n) == IF n > 5 THEN 5 ELSE n

(* The step a rating leads to ... *)
NextStep(step, rating) ==
    CASE rating = "again" -> 0
      [] rating = "hard"  -> IF step < 1 THEN 1 ELSE step
      [] rating = "good"  -> AtMost5(step + 1)
      [] rating = "easy"  -> AtMost5(step + 2)

(* ... and the delay until the card is due again. *)
StepDelay(step, rating) ==
    CASE rating = "again" -> Minutes10
      [] rating = "hard"  -> Hours8
      [] rating = "good"  -> GoodDays[NextStep(step, rating) + 1] * Day
      [] rating = "easy"  -> EasyDays[NextStep(step, rating) + 1] * Day

\* Mutant of StepFromInterval: each bucket starts one rung too late.
StepFromIntervalLate(due, t) ==
    IF due = Null THEN 0
    ELSE Cardinality({b \in {5, 10, 22, 45, 90} : due - t >= b * Day})

(* The rung of the ladder nearest to what is left of an interval. *)
StepFromInterval(due, t) ==
    IF due = Null THEN 0
    ELSE Cardinality({b \in {2, 5, 10, 22, 45} : due - t >= b * Day})

(* stepScheduleFromStoredState: a step payload is read as it is, an FSRS   *)
(* payload is bucketed by what is left of its interval, NULL is step 0.    *)
StoredStep(r, t) ==
    CASE r.payload = "step"  -> r.step
      [] r.payload = "fsrs"  -> StepFromInterval(r.due, t)
      [] r.payload = "empty" -> 0

(* Delays of the external go-fsrs engine: minutes after Again, otherwise   *)
(* anything from minutes in its learning states to months in review.       *)
FsrsDelaysFor(rating) == IF rating = "again" THEN {Minutes10} ELSE FsrsDelays

\* Mutant of Answered: introduced_at is set by every answer.
AnsweredIntroducesAgain(r, rating, t, on, delay) ==
    [payload    |-> IF on THEN "fsrs" ELSE "step",
     step       |-> IF on THEN 0 ELSE NextStep(StoredStep(r, t), rating),
     due        |-> t + delay,
     answered   |-> t,
     introduced |-> t]

(* The card_state row after an answer at time t. *)
Answered(r, rating, t, on, delay) ==
    [payload    |-> IF on THEN "fsrs" ELSE "step",
     step       |-> IF on THEN 0 ELSE NextStep(StoredStep(r, t), rating),
     due        |-> t + delay,
     answered   |-> t,
     introduced |-> IF r.introduced = Null /\ r.answered = Null THEN t ELSE r.introduced]

-----------------------------------------------------------------------------
(* The queue. *)

IntroducedToday ==
    {c \in Cards : row[c].introduced # Null /\ row[c].introduced \div Day = now \div Day}

Remaining ==
    IF NewPerDay > Cardinality(IntroducedToday)
    THEN NewPerDay - Cardinality(IntroducedToday) ELSE 0

DueNow(c) == row[c].due = Null \/ row[c].due <= now

(* WHERE of the queue query: with the budget spent, only answered cards. *)
Eligible(open, filter) ==
    {c \in filter \ hidden : DueNow(c) /\ (open \/ row[c].answered # Null)}

\* ORDER BY: unanswered cards first, then by due time, then by id.
SortKey(c) ==
    <<IF row[c].answered = Null THEN 0 ELSE 1, IF row[c].due = Null THEN 0 ELSE row[c].due, c>>

Before(c, d) ==
    LET a == SortKey(c)  b == SortKey(d) IN
    \/ a[1] < b[1]
    \/ a[1] = b[1] /\ a[2] < b[2]
    \/ a[1] = b[1] /\ a[2] = b[2] /\ a[3] < b[3]

\* Mutant of DueCount: no introduced condition, as before new cards were split off.
DueCountWithNew == Cardinality({c \in Cards \ hidden : DueNow(c)})

(* CountDueCards and CountNewCards, over all decks and languages. *)
DueCount ==
    Cardinality({c \in Cards \ hidden :
        DueNow(c) /\ (row[c].introduced # Null \/ row[c].answered # Null)})

NewCount ==
    LET unseen == Cardinality({c \in Cards \ hidden : row[c].answered = Null})
    IN  IF unseen > Remaining THEN Remaining ELSE unseen

-----------------------------------------------------------------------------

(* GET /api/review/next, first statement: remainingNewCardsToday.  A loop  *)
(* that shows a card may also ask for another one without rating it.       *)
BeginNext(k, filter) ==
    /\ loop[k].pc \in {"idle", "showing"}
    /\ loop' = [loop EXCEPT ![k] =
           [pc |-> "reading", filter |-> filter, open |-> Remaining > 0]]
    /\ UNCHANGED <<now, fsrsOn, row, hidden>>

(* Its second statement picks the card, or the answer is 204.  Between the *)
(* two, other requests may have spent the budget.                          *)
FinishNext(k) ==
    LET found == Eligible(loop[k].open, loop[k].filter) IN
    /\ loop[k].pc = "reading"
    /\ \/ /\ found = {}
          /\ loop' = [loop EXCEPT ![k] = Idle]
       \/ \E c \in found :
             /\ \A d \in found \ {c} : Before(c, d)
             /\ loop' = [loop EXCEPT ![k] = [pc |-> "showing", card |-> c]]
    /\ UNCHANGED <<now, fsrsOn, row, hidden>>

(* POST /api/review/answer for the card on screen, in one transaction that *)
(* re-checks neither due time, nor budget, nor the lemma's state.  When    *)
(* the response is lost the card stays on screen and can be rated again.   *)
RecordReviewAnswer(k, rating, lost) ==
    /\ loop[k].pc = "showing"
    /\ LET c == loop[k].card IN
       \E delay \in IF fsrsOn THEN FsrsDelaysFor(rating)
                    ELSE {StepDelay(StoredStep(row[c], now), rating)} :
           row' = [row EXCEPT ![c] = Answered(row[c], rating, now, fsrsOn, delay)]
    /\ loop' = IF lost THEN loop ELSE [loop EXCEPT ![k] = Idle]
    /\ UNCHANGED <<now, fsrsOn, hidden>>

(* The card's lemma is marked known or ignored, quarantined, or released,  *)
(* from the card itself, the reader or the admin console.                  *)
Hide(c) ==
    /\ hidden' = hidden \cup {c}
    /\ UNCHANGED <<now, fsrsOn, row, loop>>

Unhide(c) ==
    /\ hidden' = hidden \ {c}
    /\ UNCHANGED <<now, fsrsOn, row, loop>>

(* Restart with the other value of FINNESTDB_FSRS_ENABLED: the requests in *)
(* flight fail, what is on screen stays there.                             *)
Restart ==
    /\ fsrsOn' = ~fsrsOn
    /\ loop' = [k \in Loops |-> IF loop[k].pc = "reading" THEN Idle ELSE loop[k]]
    /\ UNCHANGED <<now, row, hidden>>

Tick(d) ==
    /\ now + d <= MaxNow
    /\ now' = now + d
    /\ UNCHANGED <<fsrsOn, row, hidden, loop>>

LoopStep(k) ==
    \/ \E filter \in Filters : BeginNext(k, filter)
    \/ FinishNext(k)
    \/ \E rating \in Ratings, lost \in BOOLEAN : RecordReviewAnswer(k, rating, lost)

Next ==
    \/ \E k \in Loops : LoopStep(k)
    \/ \E c \in Cards : Hide(c) \/ Unhide(c)
    \/ Restart
    \/ \E d \in Jumps : Tick(d)

Spec == Init /\ [][Next]_vars

-----------------------------------------------------------------------------

(* The daily budget of new cards holds up to what was already on its way   *)
(* when it ran out: on no day are more than NewPerDay plus one card for    *)
(* each other loop introduced, although the budget is read in one          *)
(* statement and spent in another request.                                 *)
NewCardBudget ==
    Cardinality(IntroducedToday) <= NewPerDay + Cardinality(Loops) - 1

(* What makes it hold: the loops that were let through while the budget    *)
(* lasted, and show or are about to show an unanswered card, count against *)
(* the same bound, and no card is introduced in the future.                *)
Pending ==
    {k \in Loops : \/ loop[k].pc = "reading" /\ loop[k].open
                   \/ loop[k].pc = "showing" /\ row[loop[k].card].answered = Null}

BudgetInv ==
    /\ TypeOK
    /\ \A c \in Cards : row[c].introduced <= now
    /\ Cardinality(IntroducedToday) + Cardinality(Pending) <= NewPerDay + Cardinality(Loops) - 1

(* The dashboard and the queue agree: it announces due or new cards if and *)
(* only if the review page would find one.                                 *)
DashboardMatchesQueue ==
    DueCount + NewCount > 0 <=> Eligible(Remaining > 0, Cards) # {}

(* Under the step scheduler a better rating never means an earlier review, *)
(* whatever the row holds.                                                 *)
RatingsOrdered ==
    \A c \in Cards :
        LET delay(rating) == StepDelay(StoredStep(row[c], now), rating) IN
        /\ delay("again") <= delay("hard")
        /\ delay("hard") <= delay("good")
        /\ delay("good") <= delay("easy")

Earlier(a, b) == IF a < b THEN a ELSE b

(* Good and Easy never pull a card forward: answered by the step scheduler,*)
(* also right after a flip from FSRS and also ahead of time, the card is   *)
(* due no earlier than it was, up to the 60 days at the top of the ladder. *)
GoodNeverPullsForward ==
    [][\A k \in Loops, lost \in BOOLEAN :
           (~fsrsOn /\ \E rating \in {"good", "easy"} : RecordReviewAnswer(k, rating, lost)) =>
               LET c == loop[k].card IN
               row'[c].due >= Earlier(row[c].due, now + 60 * Day)]_vars

(* What makes it hold: a step row keeps to the ladder through every answer *)
(* and flip, and no answer is in the future.                               *)
LadderInv ==
    /\ TypeOK
    /\ \A c \in Cards : OnLadder(row[c]) /\ row[c].answered <= now

(* What the comment on stepScheduleFromStoredState and docs/srs-deck-spec  *)
(* say of the rollback: a card keeps the progress it earned under FSRS     *)
(* instead of snapping back to step 0.  With five days or more of interval *)
(* behind it, a card rated Good lands beyond step 1, where a new card      *)
(* rated Good lands.                                                       *)
RollbackKeepsProgress ==
    [][\A k \in Loops, lost \in BOOLEAN :
           (~fsrsOn /\ RecordReviewAnswer(k, "good", lost)) =>
               LET c == loop[k].card IN
               (row[c].payload = "fsrs" /\ row[c].due - row[c].answered >= 5 * Day) =>
                   row'[c].step > 1]_vars
=============================================================================
