---------------------------- MODULE LearnerViews ----------------------------
(***************************************************************************)
(* What the pages of internal/api/handlers.go show a learner, computed by  *)
(* the reading queries of internal/store/db.go over the tables of module   *)
(* LearnerStore: the list of decks with its counts, the official decks, a  *)
(* deck's words, its comprehension with the words to learn next, and the   *)
(* totals of the dashboard.  The queries were written one by one, so their *)
(* agreement is what is checked.                                           *)
(*                                                                         *)
(* The store is extended by what these queries read besides: which of the  *)
(* answered cards are not due yet, and the quarantined issues.  An         *)
(* occurrence row is a candidate lemma of a token position; a text is      *)
(* taken to have each of its surfaces at one position, so a surface stands *)
(* for the position (sentence_id, token_ix) and two lemmas with the same   *)
(* surface are homonyms.  Every occurrence has a surface, as those written *)
(* by handleCreateDeck have.                                               *)
(***************************************************************************)
EXTENDS LearnerStore, Integers

CONSTANTS
    Learners,   \* the users who learn here; the others only own decks (a bound)
    Flaggable,  \* scopes that reports may get quarantined: lemmas and folded surfaces
    TopN        \* how many words to learn next a page lists (ten)

ASSUME ViewAssumption ==
    /\ Learners \subseteq Users
    /\ Flaggable \subseteq Lemmas \cup Surfaces
    /\ TopN \in Nat \ {0}
    /\ IsFiniteSet(Lemmas)
    /\ \A text \in Texts : IsFiniteSet(text)

VARIABLES
    resting,     \* answered cards whose next_due lies in the future
    quarantined  \* scopes of the quarantined correction_issues

viewVars == <<vars, resting, quarantined>>

ViewTypeOK ==
    /\ TypeOK
    /\ resting \in [Users -> SUBSET Cards]
    /\ \A u \in Users : resting[u] \subseteq answered[u]
    /\ quarantined \subseteq Flaggable

ViewInit ==
    /\ Init
    /\ resting = [u \in Users |-> {}]
    /\ quarantined = {}

\* An answer sets next_due to a later time; deleted cards take theirs along.
StoreStep ==
    /\ \E u \in Users :
        \/ \E d \in Decks : DeckStep(u, d)
        \/ /\ u \in Learners
           /\ VocabularyStep(u) \/ (\E l \in Lemmas : LemmaStateStep(u, l)) \/ ReviewStep(u)
        \/ DeleteUserCascade(u)
    /\ resting' = [u \in Users |->
           (resting[u] \cup (answered'[u] \ answered[u])) \cap answered'[u]]
    /\ UNCHANGED quarantined

AnswerDueCard(u, c) ==
    /\ c \in answered[u] \ resting[u]
    /\ RecordReviewAnswer(u, c)
    /\ resting' = [resting EXCEPT ![u] = @ \cup {c}]
    /\ UNCHANGED quarantined

ComesDue(u, c) ==
    /\ c \in resting[u]
    /\ resting' = [resting EXCEPT ![u] = @ \ {c}]
    /\ UNCHANGED <<vars, quarantined>>

\* The correction loop, the subject of module CorrectionIssues.
SetQuarantine(scope, on) ==
    /\ quarantined' = IF on THEN quarantined \cup {scope} ELSE quarantined \ {scope}
    /\ UNCHANGED <<vars, resting>>

ViewNext ==
    \/ StoreStep
    \/ \E u \in Learners, c \in Cards : AnswerDueCard(u, c) \/ ComesDue(u, c)
    \/ \E scope \in Flaggable, on \in BOOLEAN : SetQuarantine(scope, on)

ViewSpec == ViewInit /\ [][ViewNext]_viewVars

-----------------------------------------------------------------------------
(* The two suppression predicates: an issue with a sense hides the lemma,   *)
(* one without hides every lemma of its normalised surface.                *)

SuppressedOccurrence(o) == o[2] \in quarantined \/ SqlFold[o[1]] \in quarantined

SuppressedCard(c) == c[2] \in quarantined \/ c[1] \in quarantined

(* Candidates that count: the occurrence rows of a deck not suppressed. *)
CountedRows(d) == {o \in content[d] : ~SuppressedOccurrence(o)}

LemmasIn(rows) == {o[2] : o \in rows}
Positions(rows) == {o[1] : o \in rows}

IsKnown(u, l) == known[u][l] # "none"

(* occurrenceSurfaceNormExpr(o) = c.surface_norm, and the same lemma. *)
CardOf(o) == <<SqlFold[o[1]], o[2]>>

(* Introduced or answered, and due: a new card is not a due one. *)
DueCards(u) == (answered[u] \ resting[u]) \cap cardState[u]

(* The positions of which some candidate is known or ignored. *)
CoveredBy(u, rows) == Positions({o \in rows : ~Neutral(u, o[2])})

Listed(u) == {d \in Decks : owner[d] # NoUser /\ Studies(u, d)}

(* The due lemmas of a deck on the list: an occurrence whose own card is due. *)
DueLemmas(u, d) ==
    {o[2] : o \in {x \in CountedRows(d) : Neutral(u, x[2]) /\ CardOf(x) \in DueCards(u)}}

\* Mutant of GetUserDeckStats: suppressed rows are left in the token counts.
DeckStatsOfAllRows(u, d) ==
    [unique     |-> Cardinality(LemmasIn(CountedRows(d))),
     known      |-> Cardinality({l \in LemmasIn(CountedRows(d)) : IsKnown(u, l)}),
     due        |-> Cardinality(DueLemmas(u, d)),
     total      |-> Cardinality(Positions(content[d])),
     covered    |-> Cardinality(CoveredBy(u, content[d])),
     subscribed |-> u \in subs[d]]

(* One row of GetUserDeckStats: distinct lemmas and distinct positions. *)
GetUserDeckStats(u, d) ==
    [unique     |-> Cardinality(LemmasIn(CountedRows(d))),
     known      |-> Cardinality({l \in LemmasIn(CountedRows(d)) : IsKnown(u, l)}),
     due        |-> Cardinality(DueLemmas(u, d)),
     total      |-> Cardinality(Positions(CountedRows(d))),
     covered    |-> Cardinality(CoveredBy(u, CountedRows(d))),
     subscribed |-> u \in subs[d]]

(* coveragePct, in tenths of a per cent: none for an empty deck, otherwise  *)
(* rounded half away from zero.                                            *)
NoPct == -1
CoveragePct(covered, total) ==
    IF total <= 0 THEN NoPct ELSE (2000 * covered + total) \div (2 * total)

(* handleDecksList, and the deck summaries of HandleMe. *)
DeckList(u) ==
    [d \in Listed(u) |->
        LET s == GetUserDeckStats(u, d) IN
        [known |-> s.known, unique |-> s.unique, due |-> s.due, subscribed |-> s.subscribed,
         public |-> d \in public, pct |-> CoveragePct(s.covered, s.total)]]

(* Every public deck, the learner's own among them, counted with           *)
(* suppressed rows and all.                                                *)
ListPublicDecksForUser(u) ==
    [d \in public |->
        [unique     |-> Cardinality(LemmasIn(content[d])),
         known      |-> Cardinality({l \in LemmasIn(content[d]) : IsKnown(u, l)}),
         owner      |-> owner[d] = u,
         subscribed |-> u \in subs[d]]]

(* HandlePublicDecks shows them as decks with nothing due.                 *)
PublicDecks(u) ==
    LET rows == ListPublicDecksForUser(u) IN
    [d \in public |->
        [unique |-> rows[d].unique, known |-> rows[d].known, due |-> 0, public |-> TRUE,
         owner |-> rows[d].owner, subscribed |-> rows[d].subscribed]]

-----------------------------------------------------------------------------

(* The access rule of GetDeckDetails and DeckComprehension. *)
MayOpen(u, d) == owner[d] # NoUser /\ (owner[d] = u \/ d \in public \/ u \in subs[d])

(* BatchLemmaStates: known wins over ignored. *)
LemmaState(u, l) ==
    CASE IsKnown(u, l)                         -> "known"
      [] ~IsKnown(u, l) /\ l \in ignored[u]    -> "ignored"
      [] ~IsKnown(u, l) /\ l \notin ignored[u] -> "none"

(* handleLemmaStates: the lemmas asked for that have a state. *)
LemmaStates(u, asked) ==
    [l \in {m \in asked : LemmaState(u, m) # "none"} |-> LemmaState(u, l)]

(* GetDeckDetails: one entry per lemma of the deck, suppressed rows        *)
(* included; total counts rows, a homonym once for each candidate.         *)
GetDeckDetails(d) ==
    [words |-> [l \in LemmasIn(content[d]) |->
                   LET own == {o \in content[d] : o[2] = l}
                   IN  [forms |-> Positions(own), count |-> Cardinality(own)]],
     total |-> Cardinality(content[d])]

(* handleGetDeck adds the states of the words; subscribed is only looked   *)
(* up for a public deck.                                                   *)
DeckPage(u, d) ==
    LET details == GetDeckDetails(d) IN
    [words      |-> [l \in DOMAIN details.words |->
                        [state |-> LemmaState(u, l),
                         forms |-> details.words[l].forms, count |-> details.words[l].count]],
     total      |-> details.total,
     owner      |-> owner[d] = u,
     subscribed |-> owner[d] # u /\ d \in public /\ u \in subs[d]]

\* Mutant of UnlockCount: every row of the lemma counts, covered or not.
UnlockCountAllRows(u, d, l) == Cardinality({o \in CountedRows(d) : o[2] = l})

(* The rows of a lemma at positions none of whose candidates is covered. *)
UnlockCount(u, d, l) ==
    Cardinality({o \in CountedRows(d) :
        o[2] = l /\ o[1] \notin CoveredBy(u, CountedRows(d))})

(* The words to learn next: the TopN lemmas with the most such rows; LIMIT *)
(* breaks ties by spelling, here in any way.                               *)
TopUnlocks(u, d) ==
    LET open == {l \in Lemmas : UnlockCount(u, d, l) > 0}
        n == IF Cardinality(open) < TopN THEN Cardinality(open) ELSE TopN
    IN CHOOSE top \in SUBSET open :
           /\ Cardinality(top) = n
           /\ \A l \in top, m \in open \ top : UnlockCount(u, d, l) >= UnlockCount(u, d, m)

(* Coverage over positions, and what each of those words would add to it.  *)
DeckComprehension(u, d) ==
    LET rows == CountedRows(d)
        total == Cardinality(Positions(rows))
        covered == Cardinality(CoveredBy(u, rows))
    IN [total   |-> total,
        covered |-> covered,
        unlocks |-> [l \in IF total = covered THEN {} ELSE TopUnlocks(u, d) |-> UnlockCount(u, d, l)]]

(* handleDeckComprehension: percentages, none for an empty deck shown as 0. *)
ComprehensionPage(u, d) ==
    LET stats == DeckComprehension(u, d) IN
    [pct   |-> IF stats.total = 0 THEN 0 ELSE CoveragePct(stats.covered, stats.total),
     gains |-> [l \in DOMAIN stats.unlocks |-> CoveragePct(stats.unlocks[l], stats.total)]]

-----------------------------------------------------------------------------

(* The totals of HandleMe: CountKnownLemmas, CountDueCards, CardsInReview. *)
KnownCount(u) == Cardinality({l \in Lemmas : IsKnown(u, l)})

DueQueue(u) == {c \in DueCards(u) : Neutral(u, c[2]) /\ ~SuppressedCard(c)}

Dashboard(u) ==
    [known |-> KnownCount(u), due |-> Cardinality(DueQueue(u)),
     inReview |-> Cardinality(answered[u] \cap cardState[u])]

(* The deck filter of GetNextReviewCard. *)
InDeck(c, d) == \E o \in content[d] : CardOf(o) = c

-----------------------------------------------------------------------------

(* The due count of a deck is what the review queue holds for it, although *)
(* one query suppresses occurrences and the other cards.                   *)
DueCountMatchesQueue(u, d) ==
    GetUserDeckStats(u, d).due = Cardinality({c[2] : c \in {x \in DueQueue(u) : InDeck(x, d)}})

(* A deck on the list can be opened, its own pages agree with the list on  *)
(* the coverage and on the words that are known, and the review queue on   *)
(* what is due, through quarantines, homonyms, and lemmas both known and   *)
(* ignored; so does the catalogue while nothing in the deck is quarantined,*)
(* and no deck has more known words than the dashboard.                    *)
ListAgreesWithPage ==
    \A u \in Users, d \in Decks :
        d \in Listed(u) =>
            LET list == DeckList(u)[d]
                s == GetUserDeckStats(u, d)
                c == DeckComprehension(u, d)
                states == LemmaStates(u, DOMAIN DeckPage(u, d).words)
            IN /\ MayOpen(u, d) /\ DueCountMatchesQueue(u, d)
               /\ s.total = c.total /\ s.covered = c.covered
               /\ list.pct # NoPct => list.pct = ComprehensionPage(u, d).pct
               /\ list.known = Cardinality({l \in DOMAIN states :
                                  states[l] = "known" /\ \E o \in CountedRows(d) : o[2] = l})
               /\ list.known <= Dashboard(u).known
               /\ d \in public /\ CountedRows(d) = content[d] =>
                     PublicDecks(u)[d].known = list.known /\ PublicDecks(u)[d].unique = list.unique

(* A word to learn next is worth what the page promises: marking it known  *)
(* covers exactly that many more positions and raises the coverage, also   *)
(* where it shares positions with homonyms, and nothing is promised for a  *)
(* deck that is covered.                                                   *)
UnlocksAreWorthIt ==
    [][\A u \in Users, l \in Lemmas, d \in Decks :
           (MarkLemmaKnown(u, l) /\ d \in Listed(u)) =>
               LET before == DeckComprehension(u, d) IN
               l \in DOMAIN before.unlocks =>
                   DeckComprehension(u, d)'.covered = before.covered + before.unlocks[l]]_viewVars
=============================================================================
