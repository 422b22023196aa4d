---------------------------- MODULE LearnerStore ----------------------------
(***************************************************************************)
(* The learner's side of internal/store/db.go: decks and their occurrence  *)
(* rows, the studying list, known and ignored lemmas, review cards and     *)
(* their card_state rows.  One action is one store call; each runs in one  *)
(* SQLite transaction (or is one autocommitted statement), and SQLite      *)
(* serialises writers, so the calls of concurrent requests interleave as   *)
(* whole actions.                                                          *)
(*                                                                         *)
(* One learning language is modelled: every statement filters by lang.  A  *)
(* "lemma" stands for a (lemma, pos) pair.  Row ids come from AUTOINCREMENT*)
(* and are never reused.                                                   *)
(*                                                                         *)
(* No call looks at the users row: requireAuth does, some time before the  *)
(* call.  An account may therefore be deleted while requests of it are     *)
(* running, and what they write then stays: up to MaxPending calls, however*)
(* delayed, follow for it.  Sessions are the subject of module Accounts.   *)
(***************************************************************************)
EXTENDS FiniteSets, Naturals

CONSTANTS
    Users,          \* registered accounts
    Admins,         \* those with is_admin
    Decks,          \* deck row ids
    Surfaces,       \* word forms as they are written in texts and in card keys
    Lemmas,         \* dictionary entries (lemma, pos)
    Texts,          \* what the analyser can make of a text: sets of occurrences
    GoFold,         \* strings.ToLower(strings.TrimSpace(s)), Unicode-aware
    SqlFold,        \* SQLite's built-in lower(s), which folds ASCII letters only
    LemmaSurface,   \* strings.ToLower(lemma), the key of a card with no surface
    Sources,        \* what an import names as its source, "unset" for none
    Scopes,         \* the scopes of Anki syncs
    NoUser,         \* owner of a deck id with no row
    MaxPending      \* calls of a deleted account's running requests (a bound)

Occurrences == Surfaces \X Lemmas

ASSUME StoreAssumption ==
    /\ Admins \subseteq Users
    /\ NoUser \notin Users
    /\ MaxPending \in Nat
    /\ Sources \subseteq {"unset", "anki", "manual"}
    /\ Scopes \subseteq {"all", "anki"}
    /\ Texts \subseteq SUBSET Occurrences
    /\ LemmaSurface \in [Lemmas -> Surfaces]

\* Folding ASCII first changes nothing for the Unicode fold.
ASSUME FoldAssumption ==
    /\ GoFold \in [Surfaces -> Surfaces]
    /\ SqlFold \in [Surfaces -> Surfaces]
    /\ \A s \in Surfaces : GoFold[SqlFold[s]] = GoFold[s]

VARIABLES
    live,       \* users rows
    pending,    \* the calls that requests of a deleted account have yet to make
    late,       \* history: accounts deleted while such requests were running
    owner,      \* decks.user_id, NoUser where there is no row
    created,    \* deck ids handed out so far
    content,    \* occurrence rows of each deck
    public,     \* decks with is_public = 1
    subs,       \* user_deck_subscriptions: the subscribers of each deck
    known,      \* user_known_lemmas: source of the row, "none" where absent
    ignored,    \* user_ignored_lemmas
    cards,      \* cards rows, keyed by (surface_norm, lemma) per user
    cardState,  \* the cards that have a card_state row
    answered,   \* those whose last_answer_at is set
    confirmed,  \* history: lemmas the learner confirmed and has not withdrawn
    unseeded    \* history: lemmas whose known row was removed without seeding cards

deckVars == <<owner, created, content, public, subs>>
lemmaVars == <<known, ignored, confirmed, unseeded>>
cardVars == <<cards, cardState, answered>>
userVars == <<live, late, pending>>
vars == <<userVars, deckVars, lemmaVars, cardVars>>

Cards == Surfaces \X Lemmas

TypeOK ==
    /\ live \subseteq Users
    /\ late \subseteq Users \ live
    /\ pending \in [Users -> 0..MaxPending]
    /\ \A u \in Users : pending[u] > 0 => u \in late
    /\ owner \in [Decks -> Users \cup {NoUser}]
    /\ created \subseteq Decks
    /\ content \in [Decks -> SUBSET Occurrences]
    /\ public \subseteq Decks
    /\ subs \in [Decks -> SUBSET Users]
    /\ known \in [Users -> [Lemmas -> {"none", "anki", "manual"}]]
    /\ ignored \in [Users -> SUBSET Lemmas]
    /\ cards \in [Users -> SUBSET Cards]
    /\ cardState \in [Users -> SUBSET Cards]
    /\ answered \in [Users -> SUBSET Cards]
    /\ confirmed \in [Users -> SUBSET Lemmas]
    /\ unseeded \in [Users -> SUBSET Lemmas]

Init ==
    /\ live = Users
    /\ late = {}
    /\ pending = [u \in Users |-> 0]
    /\ owner = [d \in Decks |-> NoUser]
    /\ created = {}
    /\ content = [d \in Decks |-> {}]
    /\ public = {}
    /\ subs = [d \in Decks |-> {}]
    /\ known = [u \in Users |-> [l \in Lemmas |-> "none"]]
    /\ ignored = [u \in Users |-> {}]
    /\ cards = [u \in Users |-> {}]
    /\ cardState = [u \in Users |-> {}]
    /\ answered = [u \in Users |-> {}]
    /\ confirmed = [u \in Users |-> {}]
    /\ unseeded = [u \in Users |-> {}]

-----------------------------------------------------------------------------

(* A call runs for an account that its request found signed in: it exists, *)
(* or was deleted while the request was running.                           *)
Acting(u) ==
    \/ u \in live /\ UNCHANGED pending
    \/ pending[u] > 0 /\ pending' = [pending EXCEPT ![u] = @ - 1]

(* isKnownOrIgnored is false: the lemma is still to be learnt. *)
Neutral(u, l) == known[u][l] = "none" /\ l \notin ignored[u]

(* UserCanStudyDeck: the owner, or somebody with a subscription row. *)
Studies(u, d) == owner[d] = u \/ u \in subs[d]

(* The cards of the neutral lemmas among occs, keyed by the fold used. *)
SeedsOf(u, occs, fold) ==
    {<<fold[o[1]], o[2]>> : o \in {x \in occs : Neutral(u, x[2])}}

(* ensureCard for each key: INSERT OR IGNORE the card, then its state. *)
EnsureCards(u, keys) ==
    /\ cards' = [cards EXCEPT ![u] = @ \cup keys]
    /\ cardState' = [cardState EXCEPT ![u] = @ \cup keys]
    /\ UNCHANGED answered

(* CreateDeckWithSentencesOptions behind handleCreateDeck, which lets only  *)
(* an admin publish.  Cards are seeded under the Go fold.                  *)
CreateDeck(u, d, text, pub) ==
    /\ Acting(u)
    /\ d \notin created
    /\ pub => u \in Admins
    /\ EnsureCards(u, SeedsOf(u, text, GoFold))
    /\ owner' = [owner EXCEPT ![d] = u]
    /\ created' = created \cup {d}
    /\ content' = [content EXCEPT ![d] = text]
    /\ public' = IF pub THEN public \cup {d} ELSE public
    /\ UNCHANGED <<live, late, subs, lemmaVars>>

\* Mutant of SubscribeUserToPublicDeck: card_state rows are joined to the deck
\* on the surface as written instead of its normalised form.
SubscribeStateByRawSurface(u, d) ==
    /\ Acting(u)
    /\ d \in public
    /\ owner[d] # u
    /\ subs' = [subs EXCEPT ![d] = @ \cup {u}]
    /\ cards' = [cards EXCEPT ![u] = @ \cup SeedsOf(u, content[d], SqlFold)]
    /\ cardState' = [cardState EXCEPT ![u] = @ \cup (cards'[u] \cap content[d])]
    /\ UNCHANGED <<live, late, owner, created, content, public, lemmaVars, answered>>

(* Two bulk INSERTs seed the cards under the SQL fold, then card_state rows *)
(* for the learner's cards that match an occurrence of the deck.  The owner *)
(* of the deck studies it without a row.                                   *)
SubscribeUserToPublicDeck(u, d) ==
    /\ Acting(u)
    /\ d \in public
    /\ owner[d] # u
    /\ subs' = [subs EXCEPT ![d] = @ \cup {u}]
    /\ cards' = [cards EXCEPT ![u] = @ \cup SeedsOf(u, content[d], SqlFold)]
    /\ cardState' = [cardState EXCEPT ![u] = @ \cup
           {c \in cards'[u] : \E o \in content[d] : c = <<SqlFold[o[1]], o[2]>>}]
    /\ UNCHANGED <<live, late, owner, created, content, public, lemmaVars, answered>>

(* The subscription goes, the cards it seeded stay. *)
UnsubscribeUserFromPublicDeck(u, d) ==
    /\ Acting(u)
    /\ u \in subs[d]
    /\ subs' = [subs EXCEPT ![d] = @ \ {u}]
    /\ UNCHANGED <<live, late, owner, created, content, public, lemmaVars, cardVars>>

(* SetDeckIsPublic on any deck by an admin; UpdateDeckTitleAndPublic is the *)
(* same on the admin's own deck.  Subscriptions are left as they are.      *)
SetDeckIsPublic(u, d, pub) ==
    /\ Acting(u) /\ u \in Admins
    /\ owner[d] # NoUser
    /\ public' = IF pub THEN public \cup {d} ELSE public \ {d}
    /\ UNCHANGED <<live, late, owner, created, content, subs, lemmaVars, cardVars>>

\* Mutant of DeleteDeck: subscriptions of other learners are left behind, as
\* they would be by a DELETE that relies on foreign keys.
DeleteDeckLeavesSubscriptions(u, d) ==
    /\ Acting(u)
    /\ owner[d] = u
    /\ owner' = [owner EXCEPT ![d] = NoUser]
    /\ content' = [content EXCEPT ![d] = {}]
    /\ public' = public \ {d}
    /\ UNCHANGED <<live, late, created, subs, lemmaVars, cardVars>>

\* Mutant of DeleteDeck: the owner's cards of the deck are deleted with it.
DeleteDeckDropsCards(u, d) ==
    LET gone == {<<GoFold[o[1]], o[2]>> : o \in content[d]} IN
    /\ Acting(u)
    /\ owner[d] = u
    /\ owner' = [owner EXCEPT ![d] = NoUser]
    /\ content' = [content EXCEPT ![d] = {}]
    /\ public' = public \ {d}
    /\ subs' = [subs EXCEPT ![d] = {}]
    /\ cards' = [cards EXCEPT ![u] = @ \ gone]
    /\ cardState' = [cardState EXCEPT ![u] = @ \ gone]
    /\ answered' = [answered EXCEPT ![u] = @ \ gone]
    /\ UNCHANGED <<live, late, created, lemmaVars>>

(* Owner only; subscriptions of every learner go with the deck, cards stay. *)
DeleteDeck(u, d) ==
    /\ Acting(u)
    /\ owner[d] = u
    /\ owner' = [owner EXCEPT ![d] = NoUser]
    /\ content' = [content EXCEPT ![d] = {}]
    /\ public' = public \ {d}
    /\ subs' = [subs EXCEPT ![d] = {}]
    /\ UNCHANGED <<live, late, created, lemmaVars, cardVars>>

-----------------------------------------------------------------------------

(* One row of ImportKnownWords: each resolved word is its own autocommitted *)
(* upsert, so an import is a run of these steps, cut short where one fails. *)
(* The source defaults to manual.  A manual row replaces an Anki row, never *)
(* the reverse, and an ignored lemma stays ignored.                        *)
ImportKnownWord(u, l, source) ==
    LET src == IF source = "unset" THEN "manual" ELSE source IN
    /\ Acting(u)
    /\ known' = [known EXCEPT ![u][l] =
           IF @ = "none" \/ src = "manual" THEN src ELSE @]
    /\ confirmed' =
           IF src = "manual" THEN [confirmed EXCEPT ![u] = @ \cup {l}] ELSE confirmed
    /\ UNCHANGED <<live, late, deckVars, cardVars, ignored, unseeded>>

(* The rows a sync removes: not among its targets and within its scope. *)
Dropped(u, target, scope) ==
    {l \in Lemmas \ target :
        known[u][l] = "anki" \/ (scope = "all" /\ known[u][l] = "manual")}

\* Mutant of ReplaceKnownWords: no check that any submitted word resolved.
ReplaceWithoutGuard(u, words, target, scope) ==
    /\ Acting(u)
    /\ words = "none" => target = {}
    /\ known' = [known EXCEPT ![u] = [l \in Lemmas |->
           CASE l \in Dropped(u, target, scope)      -> "none"
             [] l \in target /\ known[u][l] = "none" -> "anki"
             [] OTHER                                -> known[u][l]]]
    /\ confirmed' = [confirmed EXCEPT ![u] =
           IF scope = "all" /\ (target # {} \/ words = "none") THEN @ \cap target ELSE @]
    /\ unseeded' = [unseeded EXCEPT ![u] = @ \cup Dropped(u, target, scope)]
    /\ UNCHANGED <<live, late, deckVars, cardVars, ignored>>

(* ReplaceKnownWords: `words' says whether any were submitted, target what *)
(* they resolved to.  Words of which none resolves are refused; an         *)
(* explicitly empty list clears the scope.  New rows are Anki rows, and    *)
(* rows that exist keep their source.                                      *)
ReplaceKnownWords(u, words, target, scope) ==
    /\ Acting(u)
    /\ (words = "some") <=> (target # {})
    /\ known' = [known EXCEPT ![u] = [l \in Lemmas |->
           CASE l \in Dropped(u, target, scope)      -> "none"
             [] l \in target /\ known[u][l] = "none" -> "anki"
             [] OTHER                                -> known[u][l]]]
    /\ confirmed' =
           IF scope = "all" THEN [confirmed EXCEPT ![u] = @ \cap target] ELSE confirmed
    /\ unseeded' = [unseeded EXCEPT ![u] = @ \cup Dropped(u, target, scope)]
    /\ UNCHANGED <<live, late, deckVars, cardVars, ignored>>

(* DeleteKnownWord and, for all lemmas, DeleteAllKnownWords: the vocabulary *)
(* page removes rows and seeds nothing.                                    *)
DeleteKnownWords(u, gone) ==
    /\ Acting(u)
    /\ known' = [known EXCEPT ![u] =
           [l \in Lemmas |-> IF l \in gone THEN "none" ELSE known[u][l]]]
    /\ confirmed' = [confirmed EXCEPT ![u] = @ \ gone]
    /\ unseeded' = [unseeded EXCEPT ![u] = @ \cup {l \in gone : known[u][l] # "none"}]
    /\ UNCHANGED <<live, late, deckVars, cardVars, ignored>>

DeleteKnownWord(u, l) == DeleteKnownWords(u, {l})
DeleteAllKnownWords(u) == DeleteKnownWords(u, Lemmas)

-----------------------------------------------------------------------------

MarkLemmaKnown(u, l) ==
    /\ Acting(u)
    /\ known' = [known EXCEPT ![u][l] = "manual"]
    /\ ignored' = [ignored EXCEPT ![u] = @ \ {l}]
    /\ confirmed' = [confirmed EXCEPT ![u] = @ \cup {l}]
    /\ UNCHANGED <<live, late, deckVars, cardVars, unseeded>>

MarkLemmaIgnored(u, l) ==
    /\ Acting(u)
    /\ ignored' = [ignored EXCEPT ![u] = @ \cup {l}]
    /\ known' = [known EXCEPT ![u][l] = "none"]
    /\ confirmed' = [confirmed EXCEPT ![u] = @ \ {l}]
    /\ UNCHANGED <<live, late, deckVars, cardVars, unseeded>>

(* getOwnedCardSchedule finds the card only together with its state row. *)
MarkCardKnown(u, c) == c \in cards[u] \cap cardState[u] /\ MarkLemmaKnown(u, c[2])
MarkCardIgnored(u, c) == c \in cards[u] \cap cardState[u] /\ MarkLemmaIgnored(u, c[2])

(* The surfaces of a lemma in the decks the learner studies, SQL-folded. *)
StudiedSurfaces(u, l) ==
    {SqlFold[s] : s \in {t \in Surfaces :
        \E d \in Decks : Studies(u, d) /\ <<t, l>> \in content[d]}}

\* Mutant of ClearLemmaState: subscribed decks are not searched for surfaces.
ClearReseedsOwnDecksOnly(u, l) ==
    LET found == {SqlFold[s] : s \in {t \in Surfaces :
                     \E d \in Decks : owner[d] = u /\ <<t, l>> \in content[d]}}
    IN
    /\ Acting(u)
    /\ known' = [known EXCEPT ![u][l] = "none"]
    /\ ignored' = [ignored EXCEPT ![u] = @ \ {l}]
    /\ confirmed' = [confirmed EXCEPT ![u] = @ \ {l}]
    /\ unseeded' = [unseeded EXCEPT ![u] = @ \ {l}]
    /\ EnsureCards(u, IF found = {} THEN {<<LemmaSurface[l], l>>}
                      ELSE {<<GoFold[s], l>> : s \in found})
    /\ UNCHANGED <<live, late, deckVars>>

(* Both rows go, and one card per surface found is ensured, re-folded by   *)
(* Go; a lemma found nowhere gets a card keyed on itself.                  *)
ClearLemmaState(u, l) ==
    LET found == StudiedSurfaces(u, l) IN
    /\ Acting(u)
    /\ known' = [known EXCEPT ![u][l] = "none"]
    /\ ignored' = [ignored EXCEPT ![u] = @ \ {l}]
    /\ confirmed' = [confirmed EXCEPT ![u] = @ \ {l}]
    /\ unseeded' = [unseeded EXCEPT ![u] = @ \ {l}]
    /\ EnsureCards(u, IF found = {} THEN {<<LemmaSurface[l], l>>}
                      ELSE {<<GoFold[s], l>> : s \in found})
    /\ UNCHANGED <<live, late, deckVars>>

(* RecordReviewAnswer of an owned card, whatever its lemma's state.  Its   *)
(* schedule is the subject of module ReviewQueue.                          *)
RecordReviewAnswer(u, c) ==
    /\ Acting(u)
    /\ c \in cards[u] \cap cardState[u]
    /\ answered' = [answered EXCEPT ![u] = @ \cup {c}]
    /\ UNCHANGED <<live, late, deckVars, lemmaVars, cards, cardState>>

(* DeleteUserCascade as far as these tables go: the learner's decks with   *)
(* everybody's subscriptions to them, then the learner's own rows.         *)
DeleteUserCascade(u) ==
    LET own == {d \in Decks : owner[d] = u} IN
    /\ u \in live
    /\ live' = live \ {u}
    /\ \E n \in 0..MaxPending :
           /\ pending' = [pending EXCEPT ![u] = n]
           /\ late' = IF n > 0 THEN late \cup {u} ELSE late
    /\ subs' = [d \in Decks |-> IF d \in own THEN {} ELSE subs[d] \ {u}]
    /\ content' = [d \in Decks |-> IF d \in own THEN {} ELSE content[d]]
    /\ owner' = [d \in Decks |-> IF d \in own THEN NoUser ELSE owner[d]]
    /\ public' = public \ own
    /\ cards' = [cards EXCEPT ![u] = {}]
    /\ cardState' = [cardState EXCEPT ![u] = {}]
    /\ answered' = [answered EXCEPT ![u] = {}]
    /\ known' = [known EXCEPT ![u] = [l \in Lemmas |-> "none"]]
    /\ ignored' = [ignored EXCEPT ![u] = {}]
    /\ confirmed' = [confirmed EXCEPT ![u] = {}]
    /\ unseeded' = [unseeded EXCEPT ![u] = {}]
    /\ UNCHANGED created

DeckStep(u, d) ==
    \/ \E text \in Texts, pub \in BOOLEAN : CreateDeck(u, d, text, pub)
    \/ SubscribeUserToPublicDeck(u, d)
    \/ UnsubscribeUserFromPublicDeck(u, d)
    \/ \E pub \in BOOLEAN : SetDeckIsPublic(u, d, pub)
    \/ DeleteDeck(u, d)

VocabularyStep(u) ==
    \/ \E l \in Lemmas, source \in Sources : ImportKnownWord(u, l, source)
    \/ \E words \in {"none", "some"}, target \in SUBSET Lemmas, scope \in Scopes :
           ReplaceKnownWords(u, words, target, scope)
    \/ \E l \in Lemmas : DeleteKnownWord(u, l)
    \/ DeleteAllKnownWords(u)

LemmaStateStep(u, l) ==
    MarkLemmaKnown(u, l) \/ MarkLemmaIgnored(u, l) \/ ClearLemmaState(u, l)

ReviewStep(u) ==
    \E c \in cards[u] :
        MarkCardKnown(u, c) \/ MarkCardIgnored(u, c) \/ RecordReviewAnswer(u, c)

Next ==
    \E u \in Users :
        \/ \E d \in Decks : DeckStep(u, d)
        \/ VocabularyStep(u)
        \/ \E l \in Lemmas : LemmaStateStep(u, l)
        \/ ReviewStep(u)
        \/ DeleteUserCascade(u)

Spec == Init /\ [][Next]_vars

-----------------------------------------------------------------------------

(* Foreign keys are off, so the deletes themselves must leave no row       *)
(* behind: a deleted deck has no occurrences and no subscribers, an owner  *)
(* has no subscription row, and an account that is deleted while none of   *)
(* its requests is running leaves no deck, no subscription and no learning *)
(* data, then or later, whatever the calls of other learners and of other  *)
(* deleted accounts.  What a request that outlives its own account writes  *)
(* stays behind.                                                           *)
NoOrphanRows ==
    /\ \A d \in Decks :
        /\ owner[d] = NoUser => content[d] = {} /\ subs[d] = {} /\ d \notin public
        /\ owner[d] # NoUser => owner[d] \in live \cup late /\ d \in created
        /\ subs[d] \subseteq (live \cup late) \ {owner[d]}
    /\ \A u \in Users \ (live \cup late) :
        /\ cards[u] = {} /\ cardState[u] = {} /\ ignored[u] = {}
        /\ \A l \in Lemmas : known[u][l] = "none"

(* Every card can be scheduled: the review queue joins card_state, so a    *)
(* card without its row would never be shown.                              *)
CardsSchedulable ==
    \A u \in Users : cardState[u] = cards[u] /\ answered[u] \subseteq cards[u]

FoldsAgree(s) == GoFold[s] = SqlFold[s]

(* The occurrence has a card under the expression that joins occurrences   *)
(* to cards (occurrenceSurfaceNormExpr), so that review by deck, due and   *)
(* new counts can see it.                                                  *)
Reachable(u, o) == <<SqlFold[o[1]], o[2]>> \in cardState[u]

(* In a deck the learner studies, every occurrence of a lemma that is      *)
(* neither known nor ignored can come up for review, whatever the order in *)
(* which decks were made, shared and dropped and lemmas were marked,       *)
(* unmarked and synced.  Two exceptions: surfaces the two folds disagree   *)
(* on, and lemmas whose known row was removed without seeding.             *)
NeutralLemmasHaveCards ==
    \A u \in Users, d \in Decks :
        Studies(u, d) =>
            \A o \in content[d] :
                (/\ Neutral(u, o[2])
                 /\ FoldsAgree(o[1])
                 /\ o[2] \notin unseeded[u]) => Reachable(u, o)

(* A word the learner confirmed stays a manual row until the learner       *)
(* withdraws it: no Anki import or Anki-scoped sync, and no sync of which  *)
(* nothing resolves, takes it away.                                        *)
ConfirmedIsKnown ==
    \A u \in Users : \A l \in confirmed[u] : known[u][l] = "manual"

(* Learning history outlives decks and subscriptions: as long as the       *)
(* account exists, an answered card keeps its state.                       *)
AnsweredCardsKept ==
    [][\A u \in live' : answered[u] \subseteq answered'[u] \cap cardState'[u]]_vars

=============================================================================
