------------------------- MODULE ReviewQueueProofs -------------------------
(***************************************************************************)
(* For every set of cards, loops, filters and delays: the shape of the     *)
(* card_state rows, the order of the ratings under the step scheduler, the *)
(* agreement of dashboard and queue, and the daily budget of new cards.    *)
(* TypeOK is inductive by itself: its RowInvariant says what an answer     *)
(* leaves in a row and what a row never answered may not hold, and the     *)
(* order and the agreement follow from it.  The budget needs BudgetInv,    *)
(* which counts the loops already let through against the same bound.      *)
(***************************************************************************)
EXTENDS ReviewQueue, FiniteSetTheorems, TLAPS

(* The rung read off an interval is a rung of the ladder. *)
LEMMA StepFromIntervalType ==
    ASSUME NEW due, NEW t
    PROVE  StepFromInterval(due, t) \in 0..5
  <1> DEFINE rungs == {2, 5, 10, 22, 45}
             passed == {b \in rungs : due - t >= b * Day}
  <1>1. IsFiniteSet(rungs) /\ Cardinality(rungs) <= 5
    <2>1. IsFiniteSet({2}) /\ Cardinality({2}) = 1
      BY FS_Singleton
    <2>2. IsFiniteSet({2, 5}) /\ Cardinality({2, 5}) = 2
      BY <2>1, FS_AddElement, {2, 5} = {2} \cup {5}
    <2>3. IsFiniteSet({2, 5, 10}) /\ Cardinality({2, 5, 10}) = 3
      BY <2>2, FS_AddElement, {2, 5, 10} = {2, 5} \cup {10}
    <2>4. IsFiniteSet({2, 5, 10, 22}) /\ Cardinality({2, 5, 10, 22}) = 4
      BY <2>3, FS_AddElement, {2, 5, 10, 22} = {2, 5, 10} \cup {22}
    <2> QED
      BY <2>4, FS_AddElement, rungs = {2, 5, 10, 22} \cup {45}
  <1>2. passed \in SUBSET rungs
    OBVIOUS
  <1>3. IsFiniteSet(passed) /\ Cardinality(passed) <= Cardinality(rungs)
    BY <1>1, <1>2, FS_Subset
  <1>4. Cardinality(passed) \in Nat /\ Cardinality(rungs) \in Nat
    BY <1>1, <1>3, FS_CardinalityType
  <1>5. Cardinality(passed) \in 0..5
    BY <1>1, <1>3, <1>4
  <1> QED
    BY <1>5 DEF StepFromInterval

(* So is the step of any stored row. *)
LEMMA StoredStepType ==
    ASSUME NEW r \in Rows, NEW t
    PROVE  StoredStep(r, t) \in 0..5
  BY StepFromIntervalType DEF StoredStep, Rows

(* A rating leads from a rung to a rung. *)
LEMMA NextStepType ==
    ASSUME NEW step \in 0..5, NEW rating \in {"again", "hard", "good", "easy"}
    PROVE  NextStep(step, rating) \in 0..5
  BY DEF NextStep, AtMost5

(* The delays of the four ratings on each rung, in order. *)
LEMMA DelaysOrdered ==
    ASSUME NEW step \in 0..5
    PROVE  /\ StepDelay(step, "again") = Minutes10
           /\ StepDelay(step, "hard") = Hours8
           /\ StepDelay(step, "good") \in Nat /\ StepDelay(step, "good") >= Day
           /\ StepDelay(step, "easy") \in Nat
           /\ StepDelay(step, "good") <= StepDelay(step, "easy")
  <1>1. step = 0 \/ step = 1 \/ step = 2 \/ step = 3 \/ step = 4 \/ step = 5
    OBVIOUS
  <1>2. /\ NextStep(step, "good") = IF step = 5 THEN 5 ELSE step + 1
        /\ NextStep(step, "easy") = IF step >= 4 THEN 5 ELSE step + 2
    BY DEF NextStep, AtMost5
  <1>3. /\ GoodDays[2] = 3 /\ GoodDays[3] = 7 /\ GoodDays[4] = 14 /\ GoodDays[5] = 30
        /\ GoodDays[6] = 60 /\ EasyDays[3] = 14 /\ EasyDays[4] = 30 /\ EasyDays[5] = 60
        /\ EasyDays[6] = 90
    BY DEF GoodDays, EasyDays
  <1>4. /\ StepDelay(step, "good") = GoodDays[NextStep(step, "good") + 1] * 144
        /\ StepDelay(step, "easy") = EasyDays[NextStep(step, "easy") + 1] * 144
        /\ StepDelay(step, "again") = Minutes10 /\ StepDelay(step, "hard") = Hours8
    BY DEF StepDelay, Day
  <1> QED
    BY <1>1, <1>2, <1>3, <1>4 DEF Day

(* Every delay is positive. *)
LEMMA DelayPositive ==
    ASSUME NEW step \in 0..5, NEW rating \in {"again", "hard", "good", "easy"}
    PROVE  StepDelay(step, rating) \in Nat \ {0}
  BY DelaysOrdered DEF Minutes10, Hours8, Day

(* An answer leaves a payload and a due time after it. *)
LEMMA AnsweredRow ==
    ASSUME NEW r, RowInvariant(r), NEW rating \in Ratings, NEW t \in Nat,
           NEW on \in BOOLEAN, NEW delay \in Nat \ {0}
    PROVE  RowInvariant(Answered(r, rating, t, on, delay))
  <1>1. r \in Rows /\ rating \in {"again", "hard", "good", "easy"}
    BY QueueAssumption DEF RowInvariant
  <1>2. NextStep(StoredStep(r, t), rating) \in 0..5
    BY <1>1, StoredStepType, NextStepType
  <1> DEFINE s == NextStep(StoredStep(r, t), rating)
             i == IF r.introduced = Null /\ r.answered = Null THEN t ELSE r.introduced
             a == Answered(r, rating, t, on, delay)
  <1>3. i \in Times
    BY <1>1 DEF Rows, Times
  <1>4. a = [payload |-> IF on THEN "fsrs" ELSE "step", step |-> IF on THEN 0 ELSE s,
             due |-> t + delay, answered |-> t, introduced |-> i]
    BY DEF Answered
  <1> HIDE DEF s, i, a
  <1>5. a \in Rows
    BY <1>2, <1>3, <1>4 DEF Rows, Times, s
  <1> QED
    BY <1>4, <1>5 DEF RowInvariant, Null, a

(* The rows the model starts from are rows of the schema. *)
LEMMA InitType == Init => TypeOK
  BY QueueAssumption, StartAssumption DEF Init, TypeOK, Idle, LoopStates, RowInvariant

(* Every request, restart and passing of time keeps the rows well formed. *)
LEMMA StepType == TypeOK /\ [Next]_vars => TypeOK'
  <1> SUFFICES ASSUME TypeOK, [Next]_vars PROVE TypeOK'
    OBVIOUS
  <1> USE QueueAssumption DEF TypeOK
  <1>1. ASSUME NEW k \in Loops, NEW filter \in Filters, BeginNext(k, filter) PROVE TypeOK'
    <2>1. (Remaining > 0) \in BOOLEAN
      OBVIOUS
    <2>2. [pc |-> "reading", filter |-> filter, open |-> Remaining > 0] \in LoopStates
      BY <2>1 DEF LoopStates
    <2> QED
      BY <1>1, <2>2 DEF BeginNext
  <1>2. ASSUME NEW k \in Loops, FinishNext(k) PROVE TypeOK'
    <2>1. PICK x \in LoopStates : loop' = [loop EXCEPT ![k] = x]
      <3>1. loop[k].filter \subseteq Cards
        BY <1>2 DEF FinishNext, LoopStates
      <3>2. Idle \in LoopStates /\ \A c \in Cards : [pc |-> "showing", card |-> c] \in LoopStates
        BY DEF Idle, LoopStates
      <3> QED
        BY <1>2, <3>1, <3>2 DEF FinishNext, Eligible
    <2> QED
      BY <1>2, <2>1 DEF FinishNext
  <1>3. ASSUME NEW k \in Loops, NEW rating \in Ratings, NEW lost \in BOOLEAN,
               RecordReviewAnswer(k, rating, lost)
        PROVE  TypeOK'
    <2> DEFINE c == loop[k].card
    <2>1. c \in Cards
      BY <1>3 DEF RecordReviewAnswer, LoopStates
    <2>2. PICK delay \in Nat \ {0} : row' = [row EXCEPT ![c] = Answered(row[c], rating, now, fsrsOn, delay)]
      <3>1. FsrsDelaysFor(rating) \subseteq Nat \ {0}
        BY DEF FsrsDelaysFor, Minutes10
      <3>2. StepDelay(StoredStep(row[c], now), rating) \in Nat \ {0}
        BY <2>1, StoredStepType, DelayPositive DEF RowInvariant
      <3> QED
        BY <1>3, <3>1, <3>2 DEF RecordReviewAnswer
    <2>3. RowInvariant(Answered(row[c], rating, now, fsrsOn, delay))
      BY <2>1, AnsweredRow
    <2>4. row' \in [Cards -> Rows] /\ \A d \in Cards : RowInvariant(row'[d])
      BY <2>1, <2>2, <2>3 DEF RowInvariant
    <2>5. loop' \in [Loops -> LoopStates]
      BY <1>3 DEF RecordReviewAnswer, Idle, LoopStates
    <2> QED
      BY <1>3, <2>4, <2>5 DEF RecordReviewAnswer
  <1>4. ASSUME NEW c \in Cards, Hide(c) \/ Unhide(c) PROVE TypeOK'
    BY <1>4 DEF Hide, Unhide
  <1>5. ASSUME Restart PROVE TypeOK'
    BY <1>5 DEF Restart, Idle, LoopStates
  <1>6. ASSUME NEW d \in Jumps, Tick(d) PROVE TypeOK'
    BY <1>6 DEF Tick
  <1>7. CASE UNCHANGED vars
    BY <1>7 DEF vars
  <1> QED
    BY <1>1, <1>2, <1>3, <1>4, <1>5, <1>6, <1>7 DEF Next, LoopStep

(* Whatever the scheduler flag does between answers, an unanswered card's   *)
(* row is blank and an answered one's has a payload and a due time after   *)
(* the answer.                                                             *)
THEOREM TypeCorrect == Spec => []TypeOK
  BY InitType, StepType, PTL DEF Spec

(* The order of the delays needs only that a stored step is a rung. *)
LEMMA TypeGivesOrder == TypeOK => RatingsOrdered
  <1> SUFFICES ASSUME TypeOK, NEW c \in Cards
               PROVE  LET delay(rating) == StepDelay(StoredStep(row[c], now), rating) IN
                      /\ delay("again") <= delay("hard")
                      /\ delay("hard") <= delay("good")
                      /\ delay("good") <= delay("easy")
    BY DEF RatingsOrdered
  <1>1. StoredStep(row[c], now) \in 0..5
    BY StoredStepType DEF TypeOK
  <1> QED
    BY <1>1, DelaysOrdered DEF Minutes10, Hours8, Day

(* nextAlphaStepScheduleForRatingAt: on whatever row it is applied, a       *)
(* better rating never brings the card back sooner than a worse one.       *)
THEOREM BetterIsLater == Spec => []RatingsOrdered
  BY TypeCorrect, TypeGivesOrder, PTL

(* The counts of the dashboard are numbers, and positive when there is a    *)
(* card to count.                                                          *)
LEMMA CountPositive ==
    ASSUME NEW X \in SUBSET Cards
    PROVE  Cardinality(X) \in Nat /\ (Cardinality(X) > 0 <=> X # {})
  <1>1. IsFiniteSet(X)
    BY QueueAssumption, FS_Subset
  <1> QED
    BY <1>1, FS_CardinalityType, FS_EmptySet

(* The three queries agree: those of CountDueCards and CountNewCards, and   *)
(* that of GetNextReviewCard.                                              *)
LEMMA TypeGivesAgreement == TypeOK => DashboardMatchesQueue
  <1> SUFFICES ASSUME TypeOK PROVE DashboardMatchesQueue
    OBVIOUS
  <1> DEFINE due == {c \in Cards \ hidden :
                        DueNow(c) /\ (row[c].introduced # Null \/ row[c].answered # Null)}
             unseen == {c \in Cards \ hidden : row[c].answered = Null}
  <1>1. \A c \in Cards : row[c].answered = Null => row[c].introduced = Null /\ DueNow(c)
    BY DEF TypeOK, RowInvariant, DueNow
  <1>2. Eligible(Remaining > 0, Cards) = due \cup (IF Remaining > 0 THEN unseen ELSE {})
    BY <1>1 DEF Eligible
  <1>3. DueCount \in Nat /\ (DueCount > 0 <=> due # {})
    BY CountPositive DEF DueCount
  <1>4. Cardinality(unseen) \in Nat /\ (Cardinality(unseen) > 0 <=> unseen # {})
    BY CountPositive
  <1>5. Remaining \in Nat
    <2>1. Cardinality(IntroducedToday) \in Nat
      BY CountPositive DEF IntroducedToday
    <2> QED
      BY <2>1, QueueAssumption DEF Remaining
  <1>6. NewCount = IF Cardinality(unseen) > Remaining THEN Remaining ELSE Cardinality(unseen)
    BY DEF NewCount
  <1> HIDE DEF due, unseen
  <1>7. NewCount \in Nat /\ (NewCount > 0 <=> Remaining > 0 /\ unseen # {})
    BY <1>4, <1>5, <1>6
  <1> QED
    BY <1>2, <1>3, <1>7 DEF DashboardMatchesQueue

(* The dashboard announces due or new cards exactly when the review page    *)
(* would find one, for any number of cards and any daily budget.           *)
THEOREM NoEmptyPromise == Spec => []DashboardMatchesQueue
  BY TypeCorrect, TypeGivesAgreement, PTL

-----------------------------------------------------------------------------
(* The daily budget. *)

(* Dates do not run backwards. *)
LEMMA DayMonotone ==
    ASSUME NEW a \in Nat, NEW b \in Nat, a <= b
    PROVE  a \div Day <= b \div Day
  BY DEF Day

(* The sets the budget counts are finite. *)
LEMMA BudgetSets ==
    /\ IsFiniteSet(IntroducedToday) /\ Cardinality(IntroducedToday) \in Nat
    /\ IsFiniteSet(Pending) /\ Cardinality(Pending) \in Nat
    /\ Cardinality(Pending) <= Cardinality(Loops) /\ Cardinality(Loops) \in Nat
  <1>1. IntroducedToday \in SUBSET Cards /\ Pending \in SUBSET Loops
    BY DEF IntroducedToday, Pending
  <1> QED
    BY <1>1, QueueAssumption, FS_Subset, FS_CardinalityType

(* The same in the next state. *)
LEMMA BudgetSetsNext ==
    /\ IsFiniteSet(IntroducedToday') /\ Cardinality(IntroducedToday') \in Nat
    /\ IsFiniteSet(Pending') /\ Cardinality(Pending') \in Nat
    /\ Cardinality(Pending') <= Cardinality(Loops) /\ Cardinality(Loops) \in Nat
  <1>1. IntroducedToday' \in SUBSET Cards /\ Pending' \in SUBSET Loops
    BY DEF IntroducedToday, Pending
  <1> QED
    BY <1>1, QueueAssumption, FS_Subset, FS_CardinalityType

(* The part of BudgetInv that bounds the day's new cards. *)
Bounded == Cardinality(IntroducedToday) + Cardinality(Pending) <= NewPerDay + Cardinality(Loops) - 1

(* A step that introduces no card and lets no loop through keeps the bound. *)
LEMMA NothingPending ==
    ASSUME Bounded, IntroducedToday' \subseteq IntroducedToday, Pending' \subseteq Pending
    PROVE  Bounded'
  <1>1. /\ Cardinality(IntroducedToday') <= Cardinality(IntroducedToday)
        /\ Cardinality(Pending') <= Cardinality(Pending)
    BY BudgetSets, FS_Subset
  <1> QED
    BY <1>1, BudgetSets, BudgetSetsNext, QueueAssumption DEF Bounded

(* No card has been introduced, and no loop is under way, when the model    *)
(* starts.                                                                 *)
LEMMA InitBudget == Init => BudgetInv
  <1> SUFFICES ASSUME Init PROVE BudgetInv
    OBVIOUS
  <1>1. TypeOK
    BY InitType
  <1>2. \A c \in Cards : row[c].introduced <= now /\ c \notin IntroducedToday
    <2> SUFFICES ASSUME NEW c \in Cards PROVE row[c].introduced <= now /\ c \notin IntroducedToday
      OBVIOUS
    <2>1. row[c] \in StartRows /\ row[c] \in Rows
      BY StartAssumption DEF Init, RowInvariant
    <2>2. /\ row[c].introduced <= row[c].answered /\ row[c].answered <= now
          /\ row[c].introduced # Null => row[c].introduced \div Day < now \div Day
      BY <2>1, StartAssumption DEF Init
    <2>3. row[c].introduced \in Int /\ row[c].answered \in Int /\ now \in Int
      BY <2>1, QueueAssumption DEF Init, Rows, Times, Null
    <2>4. row[c].introduced <= now
      BY <2>2, <2>3
    <2>5. row[c].introduced # Null => row[c].introduced \div Day # now \div Day
      BY <2>2, <2>3 DEF Day
    <2> QED
      BY <2>4, <2>5 DEF IntroducedToday
  <1>3. IntroducedToday = {} /\ Pending = {}
    BY <1>2 DEF Init, Idle, Pending, IntroducedToday
  <1>4. Cardinality(Loops) \in Nat
    BY BudgetSets
  <1> QED
    BY <1>1, <1>2, <1>3, <1>4, FS_EmptySet, QueueAssumption DEF BudgetInv

(* A request is let through only while a card is left; a rating turns its   *)
(* pending loop into an introduced card; a new day starts from nothing.    *)
LEMMA StepBudget == BudgetInv /\ [Next]_vars => BudgetInv'
  <1> SUFFICES ASSUME BudgetInv, [Next]_vars PROVE BudgetInv'
    OBVIOUS
  <1>0. TypeOK /\ TypeOK' /\ Bounded /\ \A c \in Cards : row[c].introduced <= now
    BY StepType DEF BudgetInv, Bounded
  <1> SUFFICES (\A c \in Cards : row'[c].introduced <= now') /\ Bounded'
    BY <1>0 DEF BudgetInv, Bounded
  <1> USE <1>0 DEF TypeOK
  <1>1. ASSUME NEW k \in Loops, NEW filter \in Filters, BeginNext(k, filter)
        PROVE  (\A c \in Cards : row'[c].introduced <= now') /\ Bounded'
    <2>1. IntroducedToday' = IntroducedToday /\ row' = row /\ now' = now
      BY <1>1 DEF BeginNext, IntroducedToday
    <2>2. CASE Remaining > 0
      <3>1. Cardinality(IntroducedToday) < NewPerDay
        BY <2>2, BudgetSets, QueueAssumption DEF Remaining
      <3> QED
        BY <2>1, <3>1, BudgetSets, BudgetSetsNext, QueueAssumption DEF Bounded
    <2>3. CASE ~(Remaining > 0)
      <3>1. Pending' \subseteq Pending
        BY <1>1, <2>1, <2>3 DEF BeginNext, Pending
      <3> QED
        BY <2>1, <3>1, NothingPending
    <2> QED
      BY <2>2, <2>3
  <1>2. ASSUME NEW k \in Loops, FinishNext(k)
        PROVE  (\A c \in Cards : row'[c].introduced <= now') /\ Bounded'
    <2>1. IntroducedToday' = IntroducedToday /\ row' = row /\ now' = now
      BY <1>2 DEF FinishNext, IntroducedToday
    <2>2. k \in Pending'=> k \in Pending
      <3> SUFFICES ASSUME k \in Pending', ~loop[k].open PROVE FALSE
        BY <1>2 DEF FinishNext, Pending
      <3>1. PICK c \in Eligible(loop[k].open, loop[k].filter) :
                loop' = [loop EXCEPT ![k] = [pc |-> "showing", card |-> c]]
        BY <1>2 DEF FinishNext, Pending, Idle
      <3>2. row[c].answered # Null
        BY <3>1 DEF Eligible
      <3> QED
        BY <2>1, <3>1, <3>2 DEF Pending
    <2>3. \A j \in Loops \ {k} : loop'[j] = loop[j]
      BY <1>2 DEF FinishNext
    <2>4. Pending' \subseteq Pending
      BY <2>1, <2>2, <2>3 DEF Pending
    <2> QED
      BY <2>1, <2>4, NothingPending
  <1>3. ASSUME NEW k \in Loops, NEW rating \in Ratings, NEW lost \in BOOLEAN,
               RecordReviewAnswer(k, rating, lost)
        PROVE  (\A c \in Cards : row'[c].introduced <= now') /\ Bounded'
    <2> DEFINE c == loop[k].card
    <2>1. c \in Cards /\ k \in Loops /\ loop[k].pc = "showing"
      BY <1>3 DEF RecordReviewAnswer, LoopStates
    <2>2. PICK delay : row' = [row EXCEPT ![c] = Answered(row[c], rating, now, fsrsOn, delay)]
      BY <1>3 DEF RecordReviewAnswer
    <2>3. /\ row'[c].answered = now /\ now # Null /\ now' = now
          /\ row'[c].introduced = IF row[c].introduced = Null /\ row[c].answered = Null
                                  THEN now ELSE row[c].introduced
          /\ \A d \in Cards \ {c} : row'[d] = row[d]
      BY <1>3, <2>1, <2>2 DEF Answered, RecordReviewAnswer, Null
    <2>4. \A d \in Cards : row'[d].introduced <= now'
      BY <2>1, <2>3
    <2>5. IntroducedToday' \subseteq IntroducedToday \cup {c}
      BY <2>3 DEF IntroducedToday
    <2>6. Pending' \subseteq Pending \ {k}
      BY <1>3, <2>1, <2>3 DEF RecordReviewAnswer, Pending, Idle
    <2>7. CASE row[c].answered = Null
      <3>1. k \in Pending
        BY <2>1, <2>7 DEF Pending
      <3>2. Cardinality(Pending') <= Cardinality(Pending) - 1
        <4>1. /\ IsFiniteSet(Pending \ {k})
              /\ Cardinality(Pending \ {k}) = Cardinality(Pending) - 1
          BY <3>1, BudgetSets, FS_RemoveElement
        <4> QED
          BY <2>6, <4>1, FS_Subset
      <3>3. Cardinality(IntroducedToday') <= Cardinality(IntroducedToday) + 1
        <4> HIDE DEF c
        <4>0. /\ IsFiniteSet(IntroducedToday \cup {c})
              /\ Cardinality(IntroducedToday \cup {c}) =
                    IF c \in IntroducedToday THEN Cardinality(IntroducedToday)
                    ELSE Cardinality(IntroducedToday) + 1
          BY BudgetSets, FS_AddElement
        <4>1. /\ IsFiniteSet(IntroducedToday \cup {c})
              /\ Cardinality(IntroducedToday \cup {c}) <= Cardinality(IntroducedToday) + 1
          BY <4>0, BudgetSets
        <4>2. Cardinality(IntroducedToday \cup {c}) \in Nat
          BY <4>1, FS_CardinalityType
        <4>3. Cardinality(IntroducedToday') <= Cardinality(IntroducedToday \cup {c})
          BY <2>5, <4>1, FS_Subset
        <4> QED
          BY <4>1, <4>2, <4>3, BudgetSets, BudgetSetsNext
      <3> QED
        BY <2>4, <3>2, <3>3, BudgetSets, BudgetSetsNext, QueueAssumption DEF Bounded
    <2>8. CASE row[c].answered # Null
      <3>1. IntroducedToday' \subseteq IntroducedToday
        BY <2>1, <2>3, <2>8 DEF IntroducedToday
      <3> QED
        BY <2>4, <2>6, <3>1, NothingPending
    <2> QED
      BY <2>7, <2>8
  <1>4. ASSUME NEW c \in Cards, Hide(c) \/ Unhide(c)
        PROVE  (\A d \in Cards : row'[d].introduced <= now') /\ Bounded'
    BY <1>4 DEF Hide, Unhide, Bounded, IntroducedToday, Pending
  <1>5. ASSUME Restart
        PROVE  (\A c \in Cards : row'[c].introduced <= now') /\ Bounded'
    <2>1. IntroducedToday' = IntroducedToday /\ Pending' \subseteq Pending
      BY <1>5 DEF Restart, Idle, IntroducedToday, Pending
    <2> QED
      BY <1>5, <2>1, NothingPending DEF Restart
  <1>6. ASSUME NEW d \in Jumps, Tick(d)
        PROVE  (\A c \in Cards : row'[c].introduced <= now') /\ Bounded'
    <2>1. now' \in Nat /\ now \in Nat /\ now <= now' /\ row' = row /\ loop' = loop
      BY <1>6, QueueAssumption DEF Tick
    <2>2. Pending' = Pending
      BY <2>1 DEF Pending
    <2>3. \A c \in Cards : row[c].introduced \in Nat \cup {Null}
      BY DEF Rows, Times
    <2>4. \A c \in Cards : row'[c].introduced <= now'
      BY <2>1, <2>3 DEF Null
    <2>5. CASE now' \div Day = now \div Day
      <3>1. IntroducedToday' = IntroducedToday
        BY <2>1, <2>5 DEF IntroducedToday
      <3> QED
        BY <2>2, <2>4, <3>1 DEF Bounded
    <2>6. CASE now' \div Day # now \div Day
      <3>1. now \div Day \in Int /\ now' \div Day \in Int /\ now \div Day < now' \div Day
        <4>1. now \div Day <= now' \div Day
          BY <2>1, DayMonotone
        <4>2. now \div Day \in Int /\ now' \div Day \in Int
          BY <2>1 DEF Day
        <4> QED
          BY <4>1, <4>2, <2>6
      <3>2. \A c \in Cards : row[c].introduced # Null => row[c].introduced \div Day <= now \div Day
        BY <2>1, <2>3, DayMonotone
      <3>3. \A c \in Cards : row[c].introduced # Null => row[c].introduced \div Day \in Int
        BY <2>3 DEF Day
      <3>4. IntroducedToday' = {}
        BY <2>1, <3>1, <3>2, <3>3 DEF IntroducedToday
      <3>5. Cardinality(IntroducedToday') = 0
        BY <3>4, FS_EmptySet
      <3> QED
        BY <2>4, <3>5, BudgetSetsNext, QueueAssumption DEF Bounded
    <2> QED
      BY <2>5, <2>6
  <1>7. CASE UNCHANGED vars
    BY <1>7 DEF vars, Bounded, IntroducedToday, Pending
  <1> QED
    BY <1>1, <1>2, <1>3, <1>4, <1>5, <1>6, <1>7 DEF Next, LoopStep

(* The budget settings.new_per_day promises, for any number of open tabs:   *)
(* each of them but one adds at most one card to a day's new cards.        *)
THEOREM BudgetHolds == Spec => []NewCardBudget
  <1>1. BudgetInv => NewCardBudget
    <2> SUFFICES ASSUME BudgetInv PROVE NewCardBudget
      OBVIOUS
    <2> QED
      BY BudgetSets, QueueAssumption DEF BudgetInv, NewCardBudget
  <1> QED
    BY <1>1, InitBudget, StepBudget, PTL DEF Spec

-----------------------------------------------------------------------------
(* No card is pulled forward. *)

(* The rungs passed are as many as the interval is long. *)
LEMMA RungsPassed ==
    ASSUME NEW due \in Nat, NEW t \in Nat
    PROVE  /\ due - t >= 2 * Day => StepFromInterval(due, t) >= 1
           /\ due - t >= 5 * Day => StepFromInterval(due, t) >= 2
           /\ due - t >= 10 * Day => StepFromInterval(due, t) >= 3
           /\ due - t >= 22 * Day => StepFromInterval(due, t) >= 4
  <1> DEFINE passed == {b \in {2, 5, 10, 22, 45} : due - t >= b * Day}
  <1>1. StepFromInterval(due, t) = Cardinality(passed)
    BY DEF StepFromInterval, Null
  <1>2. IsFiniteSet({2}) /\ Cardinality({2}) = 1
    BY FS_Singleton
  <1>3. IsFiniteSet({2, 5}) /\ Cardinality({2, 5}) = 2
    BY <1>2, FS_AddElement, {2, 5} = {2} \cup {5}
  <1>4. IsFiniteSet({2, 5, 10}) /\ Cardinality({2, 5, 10}) = 3
    BY <1>3, FS_AddElement, {2, 5, 10} = {2, 5} \cup {10}
  <1>5. IsFiniteSet({2, 5, 10, 22}) /\ Cardinality({2, 5, 10, 22}) = 4
    BY <1>4, FS_AddElement, {2, 5, 10, 22} = {2, 5, 10} \cup {22}
  <1>6. IsFiniteSet({2, 5, 10, 22, 45})
    BY <1>5, FS_AddElement, {2, 5, 10, 22, 45} = {2, 5, 10, 22} \cup {45}
  <1>7. IsFiniteSet(passed) /\ Cardinality(passed) \in Nat
    <2>1. passed \in SUBSET {2, 5, 10, 22, 45}
      OBVIOUS
    <2> QED
      BY <1>6, <2>1, FS_Subset, FS_CardinalityType
  <1>8. \A S \in SUBSET passed : Cardinality(S) <= Cardinality(passed)
    BY <1>7, FS_Subset
  <1>9. /\ due - t >= 2 * Day => {2} \in SUBSET passed
        /\ due - t >= 5 * Day => {2, 5} \in SUBSET passed
        /\ due - t >= 10 * Day => {2, 5, 10} \in SUBSET passed
        /\ due - t >= 22 * Day => {2, 5, 10, 22} \in SUBSET passed
    BY DEF Day
  <1> HIDE DEF passed
  <1> QED
    BY <1>1, <1>2, <1>3, <1>4, <1>5, <1>8, <1>9

(* Good and Easy, on each rung, wait at least what Easy waited for it, up   *)
(* to the sixty days of the top.                                           *)
LEMMA GoodWaits ==
    ASSUME NEW step \in 0..5, NEW rating \in {"good", "easy"}
    PROVE  /\ StepDelay(step, rating) \in Nat
           /\ StepDelay(step, rating) >= GoodDays[AtMost5(step + 1) + 1] * Day
           /\ StepDelay(step, rating) >= Earlier(EasyDays[step + 1], 60) * Day
  <1>1. StepDelay(step, "good") = GoodDays[AtMost5(step + 1) + 1] * 144
    BY DEF StepDelay, NextStep, Day
  <1>2. StepDelay(step, "easy") \in Nat /\ StepDelay(step, "good") \in Nat
        /\ StepDelay(step, rating) >= StepDelay(step, "good")
    BY DelaysOrdered
  <1>3. step = 0 \/ step = 1 \/ step = 2 \/ step = 3 \/ step = 4 \/ step = 5
    OBVIOUS
  <1>4. /\ GoodDays[2] = 3 /\ GoodDays[3] = 7 /\ GoodDays[4] = 14 /\ GoodDays[5] = 30
        /\ GoodDays[6] = 60 /\ EasyDays[1] = 3 /\ EasyDays[2] = 7 /\ EasyDays[3] = 14
        /\ EasyDays[4] = 30 /\ EasyDays[5] = 60 /\ EasyDays[6] = 90
    BY DEF GoodDays, EasyDays
  <1>5. GoodDays[AtMost5(step + 1) + 1] >= Earlier(EasyDays[step + 1], 60)
    BY <1>3, <1>4 DEF AtMost5, Earlier
  <1>6. GoodDays[AtMost5(step + 1) + 1] \in Nat /\ Earlier(EasyDays[step + 1], 60) \in Nat
    BY <1>3, <1>4 DEF AtMost5, Earlier
  <1> QED
    BY <1>1, <1>2, <1>5, <1>6 DEF Day

(* Whatever the row holds, Good and Easy wait out what is left of its       *)
(* interval, up to sixty days.                                             *)
LEMMA WaitsOutInterval ==
    ASSUME NEW r, RowInvariant(r), OnLadder(r), NEW t \in Nat, r.answered <= t,
           NEW rating \in {"good", "easy"}
    PROVE  t + StepDelay(StoredStep(r, t), rating) >= Earlier(r.due, t + 60 * Day)
  <1> DEFINE step == StoredStep(r, t)
             delay == StepDelay(step, rating)
  <1>1. r \in Rows /\ r.due \in Times /\ r.answered \in Times /\ r.step \in 0..5
        /\ r.payload \in {"empty", "step", "fsrs"}
    BY DEF RowInvariant, Rows
  <1>2. step \in 0..5
    BY <1>1, StoredStepType
  <1>3. /\ delay \in Nat
        /\ delay >= GoodDays[AtMost5(step + 1) + 1] * Day
        /\ delay >= Earlier(EasyDays[step + 1], 60) * Day
    BY <1>2, GoodWaits
  <1>4. CASE r.payload = "empty"
    <2>1. r.due = Null
      BY <1>4 DEF RowInvariant
    <2> HIDE DEF delay
    <2> QED
      BY <1>3, <2>1 DEF Earlier, Null, Day, delay
  <1>5. CASE r.payload = "step"
    <2>1. step = r.step /\ r.due - r.answered <= EasyDays[step + 1] * Day
      BY <1>5 DEF StoredStep, OnLadder
    <2>2. EasyDays[step + 1] \in Nat
      BY <1>2 DEF EasyDays
    <2>3. r.due \in Int /\ r.answered \in Int
      BY <1>1 DEF Times, Null
    <2> HIDE DEF step, delay
    <2>4. r.due <= t + EasyDays[step + 1] * 144
      BY <2>1, <2>2, <2>3 DEF Day
    <2> QED
      BY <1>3, <2>2, <2>3, <2>4 DEF Earlier, Day, delay, step
  <1>6. CASE r.payload = "fsrs"
    <2>1. r.due \in Nat
      BY <1>1, <1>6 DEF RowInvariant, Times
    <2>2. step = StepFromInterval(r.due, t)
      BY <1>6 DEF StoredStep
    <2>3. /\ r.due - t >= 2 * Day => step >= 1
          /\ r.due - t >= 5 * Day => step >= 2
          /\ r.due - t >= 10 * Day => step >= 3
          /\ r.due - t >= 22 * Day => step >= 4
      BY <2>1, <2>2, RungsPassed
    <2>4. /\ GoodDays[2] = 3 /\ GoodDays[3] = 7 /\ GoodDays[4] = 14 /\ GoodDays[5] = 30
          /\ GoodDays[6] = 60
      BY DEF GoodDays
    <2>5. step = 0 \/ step = 1 \/ step = 2 \/ step = 3 \/ step = 4 \/ step = 5
      BY <1>2
    <2> HIDE DEF step, delay
    <2>6. delay >= (IF step = 0 THEN 3 ELSE IF step = 1 THEN 7 ELSE IF step = 2 THEN 14
                    ELSE IF step = 3 THEN 30 ELSE 60) * 144
      BY <1>3, <2>4, <2>5 DEF AtMost5, Day
    <2>7. t + delay >= Earlier(r.due, t + 60 * Day)
      BY <1>3, <2>1, <2>3, <2>5, <2>6 DEF Earlier, Day
    <2> QED
      BY <2>7 DEF delay, step
  <1> QED
    BY <1>1, <1>4, <1>5, <1>6

(* A row the step scheduler writes keeps to the ladder: Good never waits    *)
(* longer than Easy would have to reach the same rung.                     *)
LEMMA AnsweredOnLadder ==
    ASSUME NEW r \in Rows, NEW rating \in Ratings, NEW t \in Nat, NEW on \in BOOLEAN, NEW delay,
           on \/ delay = StepDelay(StoredStep(r, t), rating)
    PROVE  OnLadder(Answered(r, rating, t, on, delay))
  <1> DEFINE step == StoredStep(r, t)
             next == NextStep(step, rating)
  <1>1. CASE on
    BY <1>1 DEF OnLadder, Answered
  <1>2. CASE ~on
    <2> DEFINE a == Answered(r, rating, t, on, delay)
    <2>1. a.step = next /\ a.due = t + StepDelay(step, rating) /\ a.answered = t
      BY <1>2 DEF Answered
    <2>2. step \in 0..5 /\ rating \in {"again", "hard", "good", "easy"}
      BY StoredStepType, QueueAssumption
    <2>3. next \in 0..5 /\ StepDelay(step, rating) \in Nat
      BY <2>2, NextStepType, DelayPositive
    <2>4. StepDelay(step, rating) <= EasyDays[next + 1] * Day
      <3>1. step = 0 \/ step = 1 \/ step = 2 \/ step = 3 \/ step = 4 \/ step = 5
        BY <2>2
      <3>2. /\ GoodDays[2] = 3 /\ GoodDays[3] = 7 /\ GoodDays[4] = 14 /\ GoodDays[5] = 30
            /\ GoodDays[6] = 60 /\ EasyDays[1] = 3 /\ EasyDays[2] = 7 /\ EasyDays[3] = 14
            /\ EasyDays[4] = 30 /\ EasyDays[5] = 60 /\ EasyDays[6] = 90
        BY DEF GoodDays, EasyDays
      <3>3. CASE rating = "again"
        BY <3>2, <3>3 DEF StepDelay, NextStep, Minutes10, Day
      <3>4. CASE rating = "hard"
        BY <3>1, <3>2, <3>4 DEF StepDelay, NextStep, Hours8, Day
      <3>5. CASE rating = "good"
        BY <3>1, <3>2, <3>5 DEF StepDelay, NextStep, AtMost5, Day
      <3>6. CASE rating = "easy"
        BY <3>1, <3>2, <3>6 DEF StepDelay, NextStep, AtMost5, Day
      <3> QED
        BY <2>2, <3>3, <3>4, <3>5, <3>6
    <2>5. EasyDays[next + 1] \in Nat
      BY <2>3 DEF EasyDays
    <2> HIDE DEF step, next, a
    <2>6. OnLadder(a)
      BY <2>1, <2>3, <2>4, <2>5 DEF OnLadder, Day
    <2> QED
      BY <2>6 DEF a
  <1> QED
    BY <1>1, <1>2

(* The rows the model starts from keep to the ladder. *)
LEMMA InitLadder == Init => LadderInv
  <1> SUFFICES ASSUME Init PROVE LadderInv
    OBVIOUS
  <1>1. \A c \in Cards : row[c] \in StartRows
    BY DEF Init
  <1> QED
    BY <1>1, InitType, StartAssumption DEF Init, LadderInv

(* Only an answer writes rows, and the clock only advances. *)
LEMMA StepLadder == LadderInv /\ [Next]_vars => LadderInv'
  <1> SUFFICES ASSUME LadderInv, [Next]_vars PROVE LadderInv'
    OBVIOUS
  <1>0. TypeOK /\ TypeOK' /\ \A c \in Cards : OnLadder(row[c]) /\ row[c].answered <= now
    BY StepType DEF LadderInv
  <1> SUFFICES \A c \in Cards : OnLadder(row'[c]) /\ row'[c].answered <= now'
    BY <1>0 DEF LadderInv
  <1>1. ASSUME NEW k \in Loops, NEW rating \in Ratings, NEW lost \in BOOLEAN,
               RecordReviewAnswer(k, rating, lost)
        PROVE  \A c \in Cards : OnLadder(row'[c]) /\ row'[c].answered <= now'
    <2> DEFINE c == loop[k].card
    <2>1. c \in Cards /\ row[c] \in Rows /\ now \in Nat /\ fsrsOn \in BOOLEAN /\ now' = now
      BY <1>0, <1>1 DEF RecordReviewAnswer, LoopStates, TypeOK
    <2>2. PICK delay : /\ row' = [row EXCEPT ![c] = Answered(row[c], rating, now, fsrsOn, delay)]
                       /\ fsrsOn \/ delay = StepDelay(StoredStep(row[c], now), rating)
      BY <1>1 DEF RecordReviewAnswer
    <2>3. OnLadder(Answered(row[c], rating, now, fsrsOn, delay))
      BY <2>1, <2>2, AnsweredOnLadder
    <2>4. Answered(row[c], rating, now, fsrsOn, delay).answered = now
      BY DEF Answered
    <2>5. \A d \in Cards : row'[d] = IF d = c THEN Answered(row[c], rating, now, fsrsOn, delay)
                                     ELSE row[d]
      BY <1>0, <2>2 DEF TypeOK
    <2> QED
      BY <1>0, <2>1, <2>3, <2>4, <2>5
  <1>2. ASSUME NEW d \in Jumps, Tick(d)
        PROVE  \A c \in Cards : OnLadder(row'[c]) /\ row'[c].answered <= now'
    <2>1. now \in Nat /\ now' \in Nat /\ now <= now' /\ row' = row
      BY <1>0, <1>2, QueueAssumption DEF Tick, TypeOK
    <2>2. \A c \in Cards : row[c].answered \in Int
      BY <1>0 DEF TypeOK, Rows, Times, Null
    <2> QED
      BY <1>0, <2>1, <2>2
  <1>3. CASE row' = row /\ now' = now
    BY <1>0, <1>3
  <1> QED
    BY <1>1, <1>2, <1>3 DEF Next, LoopStep, BeginNext, FinishNext, Hide, Unhide, Restart, vars

(* RecordReviewAnswer under the step scheduler, on a row of either          *)
(* scheduler and at any time: Good and Easy never bring a card back before *)
(* the time it was due at, nor before sixty days when that was further.    *)
THEOREM NotPulledForward == Spec => GoodNeverPullsForward
  <1>1. ASSUME LadderInv, NEW k \in Loops, NEW lost \in BOOLEAN, ~fsrsOn,
               NEW rating \in {"good", "easy"}, RecordReviewAnswer(k, rating, lost)
        PROVE  row'[loop[k].card].due >= Earlier(row[loop[k].card].due, now + 60 * Day)
    <2> DEFINE c == loop[k].card
    <2>1. c \in Cards /\ now \in Nat /\ RowInvariant(row[c]) /\ OnLadder(row[c])
          /\ row[c].answered <= now /\ row \in [Cards -> Rows]
      BY <1>1 DEF RecordReviewAnswer, LoopStates, TypeOK, LadderInv
    <2>2. row'[c].due = now + StepDelay(StoredStep(row[c], now), rating)
      BY <1>1, <2>1 DEF RecordReviewAnswer, Answered
    <2> QED
      BY <2>1, <2>2, WaitsOutInterval
  <1>2. LadderInv =>
            (\A k \in Loops, lost \in BOOLEAN :
                (~fsrsOn /\ \E rating \in {"good", "easy"} : RecordReviewAnswer(k, rating, lost)) =>
                    LET c == loop[k].card IN
                    row'[c].due >= Earlier(row[c].due, now + 60 * Day))
    BY <1>1
  <1>3. LadderInv /\ [Next]_vars => LadderInv'
    BY StepLadder
  <1> QED
    BY <1>2, <1>3, InitLadder, PTL DEF Spec, GoodNeverPullsForward
=============================================================================
