------------------------- MODULE LearnerViewsProofs -------------------------
(***************************************************************************)
(* Proofs about the learner store and the pages computed from it, for any  *)
(* number of learners, decks, surfaces and lemmas.                         *)
(*                                                                         *)
(* First the store of module LearnerStore.  Coverage (every neutral lemma  *)
(* of a studied deck can come up for review) is inductive only together    *)
(* with the types and with NoOrphanRows: a deck that is created under a    *)
(* learner with stray subscriptions would be studied by somebody nothing   *)
(* was seeded for.                                                         *)
(*                                                                         *)
(* Then module LearnerViews: the extended store implements the store, so   *)
(* what is proved of Spec holds of ViewSpec, and the queries behind the    *)
(* pages agree with each other in every state.                             *)
(***************************************************************************)
EXTENDS LearnerViews, FiniteSetTheorems, WellFoundedInduction, TLAPS

(* The seeded keys are cards of the schema. *)
LEMMA SeedsAreCards ==
    ASSUME NEW u \in Users, NEW occs \in SUBSET Occurrences,
           NEW fold \in [Surfaces -> Surfaces]
    PROVE  SeedsOf(u, occs, fold) \subseteq Cards
  BY DEF SeedsOf, Occurrences, Cards

(* A call of a request counts against those that its account has left. *)
LEMMA ActingType ==
    ASSUME TypeOK, NEW u \in Users, Acting(u), UNCHANGED <<live, late>>
    PROVE  /\ u \in live \cup late
           /\ live' \subseteq Users /\ late' \subseteq Users \ live'
           /\ pending' \in [Users -> 0..MaxPending]
           /\ \A v \in Users : pending'[v] > 0 => v \in late'
  <1>1. CASE UNCHANGED pending /\ u \in live
    BY <1>1 DEF TypeOK
  <1>2. CASE pending[u] > 0 /\ pending' = [pending EXCEPT ![u] = @ - 1]
    <2>1. u \in late
      BY <1>2 DEF TypeOK
    <2>2. pending[u] - 1 \in 0..MaxPending
      BY <1>2, StoreAssumption DEF TypeOK
    <2>3. pending' \in [Users -> 0..MaxPending]
      BY <1>2, <2>2 DEF TypeOK
    <2>4. \A v \in Users : v # u => pending'[v] = pending[v]
      BY <1>2 DEF TypeOK
    <2> QED
      BY <2>1, <2>3, <2>4 DEF TypeOK
  <1> QED
    BY <1>1, <1>2 DEF Acting

(* The empty store is well typed. *)
LEMMA InitType == Init => TypeOK
  BY StoreAssumption DEF Init, TypeOK

(* Every store call writes values of the columns' types. *)
LEMMA StepType == TypeOK /\ [Next]_vars => TypeOK'
  <1> SUFFICES ASSUME TypeOK, [Next]_vars PROVE TypeOK'
    OBVIOUS
  <1> USE StoreAssumption, FoldAssumption
  <1>1. ASSUME NEW u \in Users, NEW d \in Decks, NEW text \in Texts, NEW pub \in BOOLEAN,
               CreateDeck(u, d, text, pub)
        PROVE  TypeOK'
    <2>1. SeedsOf(u, text, GoFold) \subseteq Cards
      BY SeedsAreCards
    <2> QED
      BY <1>1, <2>1, ActingType DEF CreateDeck, EnsureCards, TypeOK, lemmaVars
  <1>2. ASSUME NEW u \in Users, NEW d \in Decks, SubscribeUserToPublicDeck(u, d)
        PROVE  TypeOK'
    <2>1. SeedsOf(u, content[d], SqlFold) \subseteq Cards
      BY SeedsAreCards DEF TypeOK
    <2>2. cards' \in [Users -> SUBSET Cards]
      BY <1>2, <2>1 DEF SubscribeUserToPublicDeck, TypeOK
    <2>3. cardState' \in [Users -> SUBSET Cards]
      BY <1>2, <2>2 DEF SubscribeUserToPublicDeck, TypeOK
    <2> QED
      BY <1>2, <2>2, <2>3, ActingType DEF SubscribeUserToPublicDeck, TypeOK, lemmaVars
  <1>3. ASSUME NEW u \in Users, NEW d \in Decks, UnsubscribeUserFromPublicDeck(u, d)
        PROVE  TypeOK'
    BY <1>3, ActingType DEF UnsubscribeUserFromPublicDeck, TypeOK, lemmaVars, cardVars
  <1>4. ASSUME NEW u \in Users, NEW d \in Decks, NEW pub \in BOOLEAN, SetDeckIsPublic(u, d, pub)
        PROVE  TypeOK'
    BY <1>4, ActingType DEF SetDeckIsPublic, TypeOK, lemmaVars, cardVars
  <1>5. ASSUME NEW u \in Users, NEW d \in Decks, DeleteDeck(u, d)
        PROVE  TypeOK'
    BY <1>5, ActingType DEF DeleteDeck, TypeOK, lemmaVars, cardVars
  <1>6. ASSUME NEW u \in Users, NEW l \in Lemmas, NEW source \in Sources,
               ImportKnownWord(u, l, source)
        PROVE  TypeOK'
    BY <1>6, ActingType DEF ImportKnownWord, TypeOK, deckVars, cardVars
  <1>7. ASSUME NEW u \in Users, NEW words \in {"none", "some"}, NEW target \in SUBSET Lemmas,
               NEW scope \in Scopes, ReplaceKnownWords(u, words, target, scope)
        PROVE  TypeOK'
    BY <1>7, ActingType DEF ReplaceKnownWords, Dropped, TypeOK, deckVars, cardVars
  <1>8. ASSUME NEW u \in Users, NEW gone \in SUBSET Lemmas, DeleteKnownWords(u, gone)
        PROVE  TypeOK'
    BY <1>8, ActingType DEF DeleteKnownWords, TypeOK, deckVars, cardVars
  <1>9. ASSUME NEW u \in Users, NEW l \in Lemmas, MarkLemmaKnown(u, l)
        PROVE  TypeOK'
    BY <1>9, ActingType DEF MarkLemmaKnown, TypeOK, deckVars, cardVars
  <1>10. ASSUME NEW u \in Users, NEW l \in Lemmas, MarkLemmaIgnored(u, l)
        PROVE  TypeOK'
    BY <1>10, ActingType DEF MarkLemmaIgnored, TypeOK, deckVars, cardVars
  <1>11. ASSUME NEW u \in Users, NEW l \in Lemmas, ClearLemmaState(u, l)
        PROVE  TypeOK'
    <2> DEFINE found == StudiedSurfaces(u, l)
               keys == IF found = {} THEN {<<LemmaSurface[l], l>>}
                       ELSE {<<GoFold[s], l>> : s \in found}
    <2>1. found \subseteq Surfaces
      BY DEF StudiedSurfaces
    <2>2. keys \subseteq Cards
      BY <2>1 DEF Cards
    <2>3. EnsureCards(u, keys)
      BY <1>11 DEF ClearLemmaState
    <2> HIDE DEF keys
    <2> QED
      BY <1>11, <2>2, <2>3, ActingType DEF ClearLemmaState, EnsureCards, TypeOK, deckVars
  <1>12. ASSUME NEW u \in Users, NEW c \in cards[u], RecordReviewAnswer(u, c)
        PROVE  TypeOK'
    BY <1>12, ActingType DEF RecordReviewAnswer, TypeOK, deckVars, lemmaVars
  <1>13. ASSUME NEW u \in Users, DeleteUserCascade(u)
        PROVE  TypeOK'
    <2>1. PICK n \in 0..MaxPending :
              /\ pending' = [pending EXCEPT ![u] = n]
              /\ late' = IF n > 0 THEN late \cup {u} ELSE late
      BY <1>13 DEF DeleteUserCascade
    <2>2. /\ live' \subseteq Users /\ late' \subseteq Users \ live'
          /\ pending' \in [Users -> 0..MaxPending]
          /\ \A v \in Users : pending'[v] > 0 => v \in late'
      BY <1>13, <2>1 DEF DeleteUserCascade, TypeOK
    <2> QED
      BY <1>13, <2>2 DEF DeleteUserCascade, TypeOK
  <1>14. CASE UNCHANGED vars
    BY <1>14 DEF vars, userVars, deckVars, lemmaVars, cardVars, TypeOK
  <1>15. ASSUME NEW u \in Users, NEW c \in cards[u], MarkCardKnown(u, c) \/ MarkCardIgnored(u, c)
         PROVE  TypeOK'
    <2>1. c[2] \in Lemmas
      BY DEF TypeOK, Cards
    <2> QED
      BY <1>15, <2>1, <1>9, <1>10 DEF MarkCardKnown, MarkCardIgnored
  <1>16. ASSUME NEW u \in Users, VocabularyStep(u) PROVE TypeOK'
    <2>1. \A l \in Lemmas : {l} \in SUBSET Lemmas
      OBVIOUS
    <2> QED
      BY <1>16, <2>1, <1>6, <1>7, <1>8 DEF VocabularyStep, DeleteKnownWord, DeleteAllKnownWords
  <1>17. ASSUME NEW u \in Users, NEW d \in Decks, DeckStep(u, d) PROVE TypeOK'
    BY <1>17, <1>1, <1>2, <1>3, <1>4, <1>5 DEF DeckStep
  <1>18. ASSUME NEW u \in Users, NEW l \in Lemmas, LemmaStateStep(u, l) PROVE TypeOK'
    BY <1>18, <1>9, <1>10, <1>11 DEF LemmaStateStep
  <1>19. ASSUME NEW u \in Users, ReviewStep(u) PROVE TypeOK'
    BY <1>19, <1>12, <1>15 DEF ReviewStep
  <1> QED
    BY <1>13, <1>14, <1>16, <1>17, <1>18, <1>19 DEF Next

(* Type correctness of the learner tables. *)
THEOREM TypeCorrect == Spec => []TypeOK
  BY InitType, StepType, PTL DEF Spec

-----------------------------------------------------------------------------
(* The invariant.  A deck that has no row must have no subscribers, or     *)
(* creating it would hand them occurrences nobody seeded for them.         *)

IInv == TypeOK /\ NoOrphanRows /\ NeutralLemmasHaveCards

(* Every delete takes along the rows that refer to what it deletes. *)
LEMMA StepNoOrphans == TypeOK /\ NoOrphanRows /\ [Next]_vars => NoOrphanRows'
  <1> SUFFICES ASSUME TypeOK, NoOrphanRows, [Next]_vars PROVE NoOrphanRows'
    OBVIOUS
  <1> USE StoreAssumption
  <1>1. ASSUME NEW u \in Users, NEW d \in Decks, DeckStep(u, d) PROVE NoOrphanRows'
    <2>1. ASSUME NEW text \in Texts, NEW pub \in BOOLEAN, CreateDeck(u, d, text, pub)
          PROVE  NoOrphanRows'
      <3>1. owner[d] = NoUser /\ subs[d] = {}
        BY <2>1 DEF CreateDeck, NoOrphanRows
      <3>2. \A e \in Decks : e # d => (e \in public' <=> e \in public)
        BY <2>1 DEF CreateDeck
      <3>3. \A v \in Users \ (live \cup late) :
                cards'[v] = cards[v] /\ cardState'[v] = cardState[v]
        BY <2>1, ActingType DEF CreateDeck, EnsureCards, TypeOK
      <3>4. ASSUME NEW e \in Decks PROVE
            /\ owner'[e] = NoUser => content'[e] = {} /\ subs'[e] = {} /\ e \notin public'
            /\ owner'[e] # NoUser => owner'[e] \in live' \cup late' /\ e \in created'
            /\ subs'[e] \subseteq (live' \cup late') \ {owner'[e]}
        <4>1. CASE e = d
          BY <4>1, <3>1, <2>1, ActingType DEF CreateDeck, TypeOK
        <4>2. CASE e # d
          BY <4>2, <3>2, <2>1 DEF CreateDeck, NoOrphanRows, TypeOK
        <4> QED
          BY <4>1, <4>2
      <3> QED
        BY <3>3, <3>4, <2>1 DEF CreateDeck, NoOrphanRows, TypeOK, lemmaVars
    <2>2. ASSUME SubscribeUserToPublicDeck(u, d) PROVE NoOrphanRows'
      <3>1. owner[d] # NoUser /\ owner[d] # u
        BY <2>2 DEF SubscribeUserToPublicDeck, NoOrphanRows
      <3>2. \A v \in Users \ (live \cup late) :
                cards'[v] = cards[v] /\ cardState'[v] = cardState[v]
        BY <2>2, ActingType DEF SubscribeUserToPublicDeck, TypeOK
      <3> QED
        BY <2>2, <3>1, <3>2, ActingType DEF SubscribeUserToPublicDeck, NoOrphanRows, TypeOK, lemmaVars
    <2>3. ASSUME UnsubscribeUserFromPublicDeck(u, d) PROVE NoOrphanRows'
      BY <2>3 DEF UnsubscribeUserFromPublicDeck, NoOrphanRows, TypeOK, lemmaVars, cardVars
    <2>4. ASSUME NEW pub \in BOOLEAN, SetDeckIsPublic(u, d, pub) PROVE NoOrphanRows'
      BY <2>4 DEF SetDeckIsPublic, NoOrphanRows, TypeOK, lemmaVars, cardVars
    <2>5. ASSUME DeleteDeck(u, d) PROVE NoOrphanRows'
      BY <2>5 DEF DeleteDeck, NoOrphanRows, TypeOK, lemmaVars, cardVars
    <2> QED
      BY <1>1, <2>1, <2>2, <2>3, <2>4, <2>5 DEF DeckStep
  <1>2. ASSUME NEW u \in live \cup late, UNCHANGED <<live, late, deckVars>>,
               \A v \in Users \ {u} : known'[v] = known[v] /\ ignored'[v] = ignored[v]
                                      /\ cards'[v] = cards[v] /\ cardState'[v] = cardState[v]
        PROVE  NoOrphanRows'
    <2>1. \A v \in Users \ (live \cup late) : v \in Users \ {u}
      BY <1>2
    <2>2. \A v \in Users \ (live \cup late) :
              /\ known'[v] = known[v] /\ ignored'[v] = ignored[v]
              /\ cards'[v] = cards[v] /\ cardState'[v] = cardState[v]
      BY <1>2, <2>1
    <2> HIDE <1>2
    <2>3. UNCHANGED <<live, late, owner, created, content, public, subs>>
      BY <1>2 DEF deckVars
    <2> QED
      BY <2>2, <2>3 DEF NoOrphanRows
  <1>3. ASSUME NEW u \in Users, VocabularyStep(u) PROVE NoOrphanRows'
    <2>1. /\ u \in live \cup late /\ UNCHANGED <<live, late, deckVars, ignored, cards, cardState>>
          /\ \A v \in Users \ {u} : known'[v] = known[v]
      <3>1. ASSUME NEW l \in Lemmas, NEW source \in Sources, ImportKnownWord(u, l, source)
            PROVE  <2>1!1 /\ <2>1!2
        BY <3>1, ActingType DEF ImportKnownWord, TypeOK, cardVars
      <3>2. ASSUME NEW words \in {"none", "some"}, NEW target \in SUBSET Lemmas,
                   NEW scope \in Scopes, ReplaceKnownWords(u, words, target, scope)
            PROVE  <2>1!1 /\ <2>1!2
        BY <3>2, ActingType DEF ReplaceKnownWords, TypeOK, cardVars
      <3>3. ASSUME NEW gone \in SUBSET Lemmas, DeleteKnownWords(u, gone)
            PROVE  <2>1!1 /\ <2>1!2
        BY <3>3, ActingType DEF DeleteKnownWords, TypeOK, cardVars
      <3>4. \A l \in Lemmas : {l} \in SUBSET Lemmas
        OBVIOUS
      <3> QED
        BY <1>3, <3>1, <3>2, <3>3, <3>4 DEF VocabularyStep, DeleteKnownWord, DeleteAllKnownWords
    <2> QED
      BY <2>1, <1>2
  <1>4. ASSUME NEW u \in Users, NEW l \in Lemmas, LemmaStateStep(u, l) PROVE NoOrphanRows'
    <2>1. CASE MarkLemmaKnown(u, l)
      BY <2>1, <1>2, ActingType DEF MarkLemmaKnown, TypeOK, cardVars
    <2>2. CASE MarkLemmaIgnored(u, l)
      BY <2>2, <1>2, ActingType DEF MarkLemmaIgnored, TypeOK, cardVars
    <2>3. CASE ClearLemmaState(u, l)
      BY <2>3, <1>2, ActingType DEF ClearLemmaState, EnsureCards, TypeOK
    <2> QED
      BY <1>4, <2>1, <2>2, <2>3 DEF LemmaStateStep
  <1>5. ASSUME NEW u \in Users, ReviewStep(u) PROVE NoOrphanRows'
    <2>1. ASSUME NEW c \in cards[u], RecordReviewAnswer(u, c) PROVE NoOrphanRows'
      BY <2>1 DEF RecordReviewAnswer, NoOrphanRows, deckVars, lemmaVars
    <2>2. ASSUME NEW c \in cards[u], MarkCardKnown(u, c) \/ MarkCardIgnored(u, c)
          PROVE  NoOrphanRows'
      <3>1. c[2] \in Lemmas
        BY DEF TypeOK, Cards
      <3> QED
        BY <2>2, <3>1, <1>4 DEF MarkCardKnown, MarkCardIgnored, LemmaStateStep
    <2> QED
      BY <1>5, <2>1, <2>2 DEF ReviewStep
  <1>6. ASSUME NEW u \in Users, DeleteUserCascade(u) PROVE NoOrphanRows'
    <2>1. PICK n \in 0..MaxPending :
              late' = IF n > 0 THEN late \cup {u} ELSE late
      BY <1>6 DEF DeleteUserCascade
    <2>2. (live \cup late) \ {u} \subseteq live' \cup late'
      BY <1>6, <2>1 DEF DeleteUserCascade
    <2> QED
      BY <1>6, <2>2 DEF DeleteUserCascade, NoOrphanRows, TypeOK
  <1>7. CASE UNCHANGED vars
    BY <1>7 DEF vars, userVars, deckVars, lemmaVars, cardVars, NoOrphanRows
  <1> QED
    BY <1>1, <1>3, <1>4, <1>5, <1>6, <1>7 DEF Next

(* Every call that adds a card adds its card_state row with it. *)
LEMMA StepSchedulable == TypeOK /\ CardsSchedulable /\ [Next]_vars => CardsSchedulable'
  <1> SUFFICES ASSUME TypeOK, CardsSchedulable, [Next]_vars PROVE CardsSchedulable'
    OBVIOUS
  <1> USE StoreAssumption
  <1>1. ASSUME NEW u \in Users, NEW keys, EnsureCards(u, keys) PROVE CardsSchedulable'
    BY <1>1 DEF EnsureCards, CardsSchedulable, TypeOK
  <1>2. CASE UNCHANGED cardVars
    BY <1>2 DEF cardVars, CardsSchedulable
  <1>3. ASSUME NEW u \in Users, NEW d \in Decks, DeckStep(u, d) PROVE CardsSchedulable'
    <2>1. ASSUME NEW text \in Texts, NEW pub \in BOOLEAN, CreateDeck(u, d, text, pub)
          PROVE  CardsSchedulable'
      BY <2>1, <1>1 DEF CreateDeck
    <2>2. ASSUME SubscribeUserToPublicDeck(u, d) PROVE CardsSchedulable'
      <3> DEFINE seeds == SeedsOf(u, content[d], SqlFold)
                 joined == {c \in cards'[u] : \E o \in content[d] : c = <<SqlFold[o[1]], o[2]>>}
      <3>1. seeds \subseteq joined
        BY <2>2 DEF SubscribeUserToPublicDeck, SeedsOf, TypeOK
      <3>2. /\ cards' = [cards EXCEPT ![u] = @ \cup seeds]
            /\ cardState' = [cardState EXCEPT ![u] = @ \cup joined]
            /\ answered' = answered
            /\ joined \subseteq cards'[u]
        BY <2>2 DEF SubscribeUserToPublicDeck
      <3> HIDE DEF seeds, joined
      <3> QED
        BY <3>1, <3>2 DEF CardsSchedulable, TypeOK
    <2>3. ASSUME NEW pub \in BOOLEAN,
                 \/ UnsubscribeUserFromPublicDeck(u, d)
                 \/ SetDeckIsPublic(u, d, pub)
                 \/ DeleteDeck(u, d)
          PROVE  CardsSchedulable'
      BY <2>3, <1>2 DEF UnsubscribeUserFromPublicDeck, SetDeckIsPublic, DeleteDeck
    <2> QED
      BY <1>3, <2>1, <2>2, <2>3 DEF DeckStep
  <1>4. ASSUME NEW u \in Users, VocabularyStep(u) PROVE CardsSchedulable'
    BY <1>4, <1>2 DEF VocabularyStep, ImportKnownWord, ReplaceKnownWords, DeleteKnownWord,
       DeleteAllKnownWords, DeleteKnownWords
  <1>5. ASSUME NEW u \in Users, NEW l, LemmaStateStep(u, l) PROVE CardsSchedulable'
    BY <1>5, <1>1, <1>2 DEF LemmaStateStep, MarkLemmaKnown, MarkLemmaIgnored, ClearLemmaState
  <1>6. ASSUME NEW u \in Users, ReviewStep(u) PROVE CardsSchedulable'
    <2>1. ASSUME NEW c \in cards[u], RecordReviewAnswer(u, c) PROVE CardsSchedulable'
      BY <2>1 DEF RecordReviewAnswer, CardsSchedulable, TypeOK
    <2> QED
      BY <1>6, <2>1, <1>5 DEF ReviewStep, MarkCardKnown, MarkCardIgnored, LemmaStateStep
  <1>7. ASSUME NEW u \in Users, DeleteUserCascade(u) PROVE CardsSchedulable'
    BY <1>7 DEF DeleteUserCascade, CardsSchedulable, TypeOK
  <1> QED
    BY <1>2, <1>3, <1>4, <1>5, <1>6, <1>7 DEF Next, vars

(* One learner, one deck: what NeutralLemmasHaveCards says of them. *)
Covered(u, d) ==
    Studies(u, d) =>
        \A o \in content[d] :
            (Neutral(u, o[2]) /\ FoldsAgree(o[1]) /\ o[2] \notin unseeded[u]) => Reachable(u, o)

(* Nothing is lost for a learner whose cards stay, whose decks grow no     *)
(* occurrence, and none of whose lemmas turns neutral.                     *)
LEMMA StaysCovered ==
    ASSUME TypeOK, NEW u \in Users, NEW d \in Decks, Covered(u, d),
           Studies(u, d)' => Studies(u, d) /\ content'[d] \subseteq content[d],
           cardState[u] \subseteq cardState'[u],
           \A l \in Lemmas : Neutral(u, l)' /\ l \notin unseeded'[u] =>
               Neutral(u, l) /\ l \notin unseeded[u]
    PROVE  Covered(u, d)'
  <1>1. \A o \in content[d] : o[2] \in Lemmas
    BY DEF TypeOK, Occurrences
  <1> QED
    BY <1>1 DEF Covered, Reachable, FoldsAgree

(* The invariant, one learner and one occurrence at a time. *)
LEMMA CoveredIsNeutral ==
    NeutralLemmasHaveCards <=> \A u \in Users, d \in Decks : Covered(u, d)
  BY DEF NeutralLemmasHaveCards, Covered

(* Seeding for the learner who acts; everybody else keeps what they had. *)
LEMMA CreateDeckCovers ==
    ASSUME TypeOK, NoOrphanRows, NeutralLemmasHaveCards, NEW u \in Users, NEW d \in Decks,
           NEW text \in Texts, NEW pub \in BOOLEAN, CreateDeck(u, d, text, pub)
    PROVE  NeutralLemmasHaveCards'
  <1> USE StoreAssumption
  <1>1. owner[d] = NoUser /\ subs[d] = {}
    BY DEF CreateDeck, NoOrphanRows
  <1>2. SUFFICES ASSUME NEW v \in Users, NEW e \in Decks PROVE Covered(v, e)'
    BY DEF NeutralLemmasHaveCards, Covered
  <1>3. Covered(v, e)
    BY CoveredIsNeutral
  <1>4. cardState[v] \subseteq cardState'[v]
    BY DEF CreateDeck, EnsureCards, TypeOK
  <1>5. UNCHANGED <<subs, known, ignored, unseeded>>
    BY DEF CreateDeck, lemmaVars
  <1>6. CASE e # d
    <2>1. owner'[e] = owner[e] /\ content'[e] = content[e]
      BY <1>6 DEF CreateDeck, TypeOK
    <2> QED
      BY <1>3, <1>4, <1>5, <2>1, StaysCovered DEF Studies, Neutral
  <1>7. CASE e = d /\ v # u
    <2>1. ~Studies(v, e)'
      BY <1>1, <1>5, <1>7 DEF CreateDeck, Studies, TypeOK
    <2> QED
      BY <2>1 DEF Covered
  <1>8. CASE e = d /\ v = u
    <2>1. content'[e] = text
      BY <1>8 DEF CreateDeck, TypeOK
    <2>2. SeedsOf(u, text, GoFold) \subseteq cardState'[u]
      BY DEF CreateDeck, EnsureCards, TypeOK
    <2>3. ASSUME NEW o \in text, Neutral(v, o[2]), FoldsAgree(o[1])
          PROVE  <<SqlFold[o[1]], o[2]>> \in SeedsOf(u, text, GoFold)
      BY <1>8, <2>3 DEF SeedsOf, FoldsAgree
    <2>4. \A o \in text : Neutral(v, o[2])' <=> Neutral(v, o[2])
      BY <1>5 DEF Neutral
    <2> QED
      BY <1>8, <2>1, <2>2, <2>3, <2>4 DEF Covered, FoldsAgree, Reachable
  <1> QED
    BY <1>6, <1>7, <1>8

(* A new subscriber is seeded for all occurrences of the deck. *)
LEMMA SubscribeCovers ==
    ASSUME TypeOK, NeutralLemmasHaveCards, NEW u \in Users, NEW d \in Decks,
           SubscribeUserToPublicDeck(u, d)
    PROVE  NeutralLemmasHaveCards'
  <1>1. SUFFICES ASSUME NEW v \in Users, NEW e \in Decks PROVE Covered(v, e)'
    BY DEF NeutralLemmasHaveCards, Covered
  <1>2. Covered(v, e)
    BY CoveredIsNeutral
  <1>3. cardState[v] \subseteq cardState'[v]
    BY DEF SubscribeUserToPublicDeck, TypeOK
  <1>4. UNCHANGED <<owner, content, known, ignored, unseeded>>
    BY DEF SubscribeUserToPublicDeck, lemmaVars
  <1>5. CASE ~(v = u /\ e = d)
    <2>1. Studies(v, e)' => Studies(v, e)
      BY <1>4, <1>5 DEF SubscribeUserToPublicDeck, Studies, TypeOK
    <2> QED
      BY <1>2, <1>3, <1>4, <2>1, StaysCovered DEF Neutral
  <1>6. CASE v = u /\ e = d
    <2> DEFINE joined == {c \in cards'[u] : \E o \in content[d] : c = <<SqlFold[o[1]], o[2]>>}
    <2>1. joined \subseteq cardState'[u] /\ SeedsOf(u, content[d], SqlFold) \subseteq cards'[u]
      BY DEF SubscribeUserToPublicDeck, TypeOK
    <2>2. ASSUME NEW o \in content[d], Neutral(u, o[2])
          PROVE  <<SqlFold[o[1]], o[2]>> \in joined
      BY <2>1, <2>2 DEF SeedsOf
    <2>3. \A o \in content[d] : Neutral(u, o[2])' <=> Neutral(u, o[2])
      BY <1>4 DEF Neutral
    <2> HIDE DEF joined
    <2> QED
      BY <1>4, <1>6, <2>1, <2>2, <2>3 DEF Covered, Reachable
  <1> QED
    BY <1>5, <1>6

(* The surfaces ClearLemmaState finds are those of the studied decks. *)
LEMMA ClearCovers ==
    ASSUME TypeOK, NeutralLemmasHaveCards, NEW u \in Users, NEW l \in Lemmas,
           ClearLemmaState(u, l)
    PROVE  NeutralLemmasHaveCards'
  <1> USE StoreAssumption, FoldAssumption
  <1> DEFINE found == StudiedSurfaces(u, l)
             keys == IF found = {} THEN {<<LemmaSurface[l], l>>}
                     ELSE {<<GoFold[s], l>> : s \in found}
  <1>1. SUFFICES ASSUME NEW v \in Users, NEW e \in Decks PROVE Covered(v, e)'
    BY DEF NeutralLemmasHaveCards, Covered
  <1>2. Covered(v, e)
    BY CoveredIsNeutral
  <1>3. EnsureCards(u, keys)
    BY DEF ClearLemmaState
  <1>4. cardState[v] \subseteq cardState'[v] /\ keys \subseteq cardState'[u]
    <2> HIDE DEF keys
    <2> QED
      BY <1>3 DEF EnsureCards, TypeOK
  <1>5. UNCHANGED <<owner, content, subs>>
    BY DEF ClearLemmaState, deckVars
  <1>6. \A m \in Lemmas : (v # u \/ m # l) =>
            (Neutral(v, m)' <=> Neutral(v, m)) /\ (m \in unseeded'[v] <=> m \in unseeded[v])
    BY DEF ClearLemmaState, Neutral, TypeOK
  <1>7. CASE v # u
    BY <1>2, <1>4, <1>5, <1>6, <1>7, StaysCovered DEF Studies
  <1>8. CASE v = u
    <2>1. SUFFICES ASSUME Studies(u, e), NEW o \in content[e], Neutral(u, o[2])',
                          FoldsAgree(o[1]), o[2] \notin unseeded'[u]
                   PROVE  <<SqlFold[o[1]], o[2]>> \in cardState'[u]
      BY <1>5, <1>8 DEF Covered, Studies, FoldsAgree, Reachable
    <2>2. o \in Occurrences /\ o[1] \in Surfaces /\ o[2] \in Lemmas /\ o = <<o[1], o[2]>>
      BY DEF TypeOK, Occurrences
    <2>3. CASE o[2] # l
      BY <1>2, <1>4, <1>6, <1>8, <2>1, <2>2, <2>3 DEF Covered, Reachable
    <2>4. CASE o[2] = l
      <3>1. SqlFold[o[1]] \in found
        BY <2>1, <2>2, <2>4 DEF StudiedSurfaces
      <3>2. GoFold[SqlFold[o[1]]] = SqlFold[o[1]]
        BY <2>1, <2>2 DEF FoldsAgree
      <3>3. <<SqlFold[o[1]], l>> \in keys
        BY <3>1, <3>2
      <3> QED
        BY <1>4, <2>4, <3>3
    <2> QED
      BY <2>3, <2>4
  <1> QED
    BY <1>7, <1>8

(* Everything else takes decks away, keeps cards, and either marks a lemma *)
(* or remembers in `unseeded' that it unmarked one.                        *)
LEMMA StepNeutral ==
    TypeOK /\ NoOrphanRows /\ NeutralLemmasHaveCards /\ [Next]_vars => NeutralLemmasHaveCards'
  <1> SUFFICES ASSUME TypeOK, NoOrphanRows, NeutralLemmasHaveCards, [Next]_vars
               PROVE  NeutralLemmasHaveCards'
    OBVIOUS
  <1> USE StoreAssumption
  <1>1. ASSUME \A v \in Users, e \in Decks :
                   Studies(v, e)' => Studies(v, e) /\ content'[e] \subseteq content[e],
               \A v \in Users : cardState[v] \subseteq cardState'[v],
               \A v \in Users, l \in Lemmas : Neutral(v, l)' /\ l \notin unseeded'[v] =>
                   Neutral(v, l) /\ l \notin unseeded[v]
        PROVE  NeutralLemmasHaveCards'
    <2>1. ASSUME NEW v \in Users, NEW e \in Decks PROVE Covered(v, e)'
      BY <1>1, StaysCovered, CoveredIsNeutral
    <2> QED
      BY <2>1 DEF NeutralLemmasHaveCards, Covered
  <1>2. ASSUME NEW u \in Users, NEW d \in Decks, DeckStep(u, d) PROVE NeutralLemmasHaveCards'
    <2>1. CASE UnsubscribeUserFromPublicDeck(u, d)
      BY <2>1, <1>1 DEF UnsubscribeUserFromPublicDeck, Studies, Neutral, TypeOK, lemmaVars, cardVars
    <2>2. ASSUME NEW pub \in BOOLEAN, SetDeckIsPublic(u, d, pub) PROVE NeutralLemmasHaveCards'
      BY <2>2, <1>1 DEF SetDeckIsPublic, Studies, Neutral, TypeOK, lemmaVars, cardVars
    <2>3. CASE DeleteDeck(u, d)
      BY <2>3, <1>1 DEF DeleteDeck, Studies, Neutral, TypeOK, lemmaVars, cardVars
    <2> QED
      BY <1>2, <2>1, <2>2, <2>3, CreateDeckCovers, SubscribeCovers DEF DeckStep
  <1>3. ASSUME NEW u \in Users, VocabularyStep(u) PROVE NeutralLemmasHaveCards'
    <2>1. ASSUME NEW l \in Lemmas, NEW source \in Sources, ImportKnownWord(u, l, source)
          PROVE  NeutralLemmasHaveCards'
      BY <2>1, <1>1 DEF ImportKnownWord, Studies, Neutral, TypeOK, deckVars, cardVars
    <2>2. ASSUME NEW words \in {"none", "some"}, NEW target \in SUBSET Lemmas,
                 NEW scope \in Scopes, ReplaceKnownWords(u, words, target, scope)
          PROVE  NeutralLemmasHaveCards'
      <3>1. UNCHANGED <<owner, content, subs, cardState, ignored>>
        BY <2>2 DEF ReplaceKnownWords, deckVars, cardVars
      <3>2. ASSUME NEW v \in Users, NEW l \in Lemmas, Neutral(v, l)', l \notin unseeded'[v]
            PROVE  Neutral(v, l) /\ l \notin unseeded[v]
        <4>1. unseeded'[v] = IF v = u THEN unseeded[u] \cup Dropped(u, target, scope) ELSE unseeded[v]
          BY <2>2 DEF ReplaceKnownWords, TypeOK
        <4>2. CASE v # u
          BY <4>1, <4>2, <3>1, <3>2, <2>2 DEF ReplaceKnownWords, Neutral, TypeOK
        <4>3. CASE v = u
          <5>1. l \notin Dropped(u, target, scope) /\ l \notin unseeded[u]
            BY <3>2, <4>1, <4>3
          <5>2. known'[u][l] = "none" => known[u][l] = "none"
            BY <2>2, <5>1 DEF ReplaceKnownWords, TypeOK
          <5> QED
            BY <3>1, <3>2, <4>3, <5>1, <5>2 DEF Neutral
        <4> QED
          BY <4>2, <4>3
      <3> QED
        BY <3>1, <3>2, <1>1 DEF Studies
    <2>3. ASSUME NEW gone \in SUBSET Lemmas, DeleteKnownWords(u, gone)
          PROVE  NeutralLemmasHaveCards'
      <3>1. UNCHANGED <<owner, content, subs, cardState, ignored>>
        BY <2>3 DEF DeleteKnownWords, deckVars, cardVars
      <3>2. ASSUME NEW v \in Users, NEW l \in Lemmas, Neutral(v, l)', l \notin unseeded'[v]
            PROVE  Neutral(v, l) /\ l \notin unseeded[v]
        BY <3>1, <3>2, <2>3 DEF DeleteKnownWords, Neutral, TypeOK
      <3> QED
        BY <3>1, <3>2, <1>1 DEF Studies
    <2>4. \A l \in Lemmas : {l} \in SUBSET Lemmas
      OBVIOUS
    <2> QED
      BY <1>3, <2>1, <2>2, <2>3, <2>4 DEF VocabularyStep, DeleteKnownWord, DeleteAllKnownWords
  <1>4. ASSUME NEW u \in Users, NEW l \in Lemmas, LemmaStateStep(u, l)
        PROVE  NeutralLemmasHaveCards'
    <2>1. CASE MarkLemmaKnown(u, l)
      BY <2>1, <1>1 DEF MarkLemmaKnown, Studies, Neutral, TypeOK, deckVars, cardVars
    <2>2. CASE MarkLemmaIgnored(u, l)
      BY <2>2, <1>1 DEF MarkLemmaIgnored, Studies, Neutral, TypeOK, deckVars, cardVars
    <2> QED
      BY <1>4, <2>1, <2>2, ClearCovers DEF LemmaStateStep
  <1>5. ASSUME NEW u \in Users, ReviewStep(u) PROVE NeutralLemmasHaveCards'
    <2>1. ASSUME NEW c \in cards[u], RecordReviewAnswer(u, c) PROVE NeutralLemmasHaveCards'
      BY <2>1, <1>1 DEF RecordReviewAnswer, Studies, Neutral, deckVars, lemmaVars
    <2>2. ASSUME NEW c \in cards[u], MarkCardKnown(u, c) \/ MarkCardIgnored(u, c)
          PROVE  NeutralLemmasHaveCards'
      <3>1. c[2] \in Lemmas
        BY DEF TypeOK, Cards
      <3> QED
        BY <2>2, <3>1, <1>4 DEF MarkCardKnown, MarkCardIgnored, LemmaStateStep
    <2> QED
      BY <1>5, <2>1, <2>2 DEF ReviewStep
  <1>6. ASSUME NEW u \in Users, DeleteUserCascade(u) PROVE NeutralLemmasHaveCards'
    <2>1. ASSUME NEW v \in Users, NEW e \in Decks PROVE Covered(v, e)'
      <3>1. CASE v = u
        <4>1. ~Studies(u, e)'
          BY <1>6 DEF DeleteUserCascade, Studies, TypeOK
        <4> QED
          BY <3>1, <4>1 DEF Covered
      <3>2. CASE v # u
        <4>1. Studies(v, e)' => Studies(v, e) /\ content'[e] \subseteq content[e]
          BY <1>6, <3>2 DEF DeleteUserCascade, Studies, TypeOK
        <4>2. /\ cardState'[v] = cardState[v] /\ unseeded'[v] = unseeded[v]
              /\ known'[v] = known[v] /\ ignored'[v] = ignored[v]
          BY <1>6, <3>2 DEF DeleteUserCascade, TypeOK
        <4> QED
          BY <4>1, <4>2, StaysCovered, CoveredIsNeutral DEF Neutral
      <3> QED
        BY <3>1, <3>2
    <2> QED
      BY <2>1 DEF NeutralLemmasHaveCards, Covered
  <1>7. CASE UNCHANGED vars
    BY <1>7, <1>1 DEF vars, deckVars, lemmaVars, cardVars, Studies, Neutral
  <1> QED
    BY <1>2, <1>3, <1>4, <1>5, <1>6, <1>7 DEF Next

(* Nothing is stored at first. *)
LEMMA InitInvariant == Init => IInv /\ CardsSchedulable
  <1> SUFFICES ASSUME Init PROVE IInv /\ CardsSchedulable
    OBVIOUS
  <1>1. TypeOK
    BY InitType
  <1> QED
    BY <1>1, StoreAssumption DEF Init, IInv, NoOrphanRows, CardsSchedulable,
       NeutralLemmasHaveCards, Studies

(* The rows of decks, subscriptions and accounts stay consistent although  *)
(* SQLite enforces no foreign key.                                         *)
THEOREM NoOrphans == Spec => []NoOrphanRows
  <1>1. Init => TypeOK /\ NoOrphanRows
    BY InitInvariant DEF IInv
  <1>2. TypeOK /\ NoOrphanRows /\ [Next]_vars => (TypeOK /\ NoOrphanRows)'
    BY StepType, StepNoOrphans
  <1> QED
    BY <1>1, <1>2, PTL DEF Spec

(* Every card has a schedule, for any number of learners and decks.        *)
THEOREM Schedulable == Spec => []CardsSchedulable
  <1>1. Init => TypeOK /\ CardsSchedulable
    BY InitInvariant DEF IInv
  <1>2. TypeOK /\ CardsSchedulable /\ [Next]_vars => (TypeOK /\ CardsSchedulable)'
    BY StepType, StepSchedulable
  <1> QED
    BY <1>1, <1>2, PTL DEF Spec

(* Every occurrence of a lemma still to be learnt, in a deck the learner   *)
(* studies, can come up for review.                                        *)
THEOREM Coverage == Spec => []NeutralLemmasHaveCards
  <1>1. Init => IInv
    BY InitInvariant
  <1>2. IInv /\ [Next]_vars => IInv'
    BY StepType, StepNoOrphans, StepNeutral DEF IInv
  <1>3. IInv => NeutralLemmasHaveCards
    BY DEF IInv
  <1> QED
    BY <1>1, <1>2, <1>3, PTL DEF Spec

-----------------------------------------------------------------------------

(* Every step of the extended store is a step of the store or changes none *)
(* of its tables.                                                          *)
LEMMA ViewStepIsStoreStep == [ViewNext]_viewVars => [Next]_vars
  <1> SUFFICES ASSUME [ViewNext]_viewVars PROVE [Next]_vars
    OBVIOUS
  <1>1. CASE StoreStep
    BY <1>1, ViewAssumption DEF StoreStep, Next
  <1>2. ASSUME NEW u \in Learners, NEW c \in Cards, AnswerDueCard(u, c) PROVE Next
    <2>1. u \in Users
      BY ViewAssumption
    <2>2. RecordReviewAnswer(u, c) /\ c \in cards[u]
      BY <1>2 DEF AnswerDueCard, RecordReviewAnswer
    <2>3. ReviewStep(u)
      BY <2>2 DEF ReviewStep
    <2> QED
      BY <2>1, <2>3 DEF Next
  <1>3. ASSUME NEW u \in Learners, NEW c \in Cards, ComesDue(u, c) PROVE UNCHANGED vars
    BY <1>3 DEF ComesDue
  <1>4. ASSUME NEW scope \in Flaggable, NEW on \in BOOLEAN, SetQuarantine(scope, on)
        PROVE UNCHANGED vars
    BY <1>4 DEF SetQuarantine
  <1>5. CASE UNCHANGED viewVars
    BY <1>5 DEF viewVars
  <1> QED
    BY <1>1, <1>2, <1>3, <1>4, <1>5 DEF ViewNext

(* The extended store implements the store of module LearnerStore. *)
THEOREM ViewsRefineStore == ViewSpec => Spec
  <1>1. ViewInit => Init
    BY DEF ViewInit
  <1> QED
    BY <1>1, ViewStepIsStoreStep, PTL DEF ViewSpec, Spec

(* Only answered cards rest, and only such scopes are quarantined as       *)
(* reports may name, whatever is deleted meanwhile.                        *)
THEOREM ViewTypeCorrect == ViewSpec => []ViewTypeOK
  <1>1. ViewInit => ViewTypeOK
    BY InitType DEF ViewInit, ViewTypeOK, Init
  <1>2. ViewTypeOK /\ [ViewNext]_viewVars => ViewTypeOK'
    <2> SUFFICES ASSUME ViewTypeOK, [ViewNext]_viewVars PROVE ViewTypeOK'
      OBVIOUS
    <2>1. TypeOK'
      BY StepType, ViewStepIsStoreStep DEF ViewTypeOK
    <2> USE DEF ViewTypeOK
    <2>2. CASE StoreStep
      <3>1. \A u \in Users : answered'[u] \in SUBSET Cards
        BY <2>1 DEF TypeOK
      <3> QED
        BY <2>1, <2>2, <3>1 DEF StoreStep
    <2>3. ASSUME NEW u \in Learners, NEW c \in Cards, AnswerDueCard(u, c) PROVE ViewTypeOK'
      <3>1. u \in Users /\ c \in answered[u] /\ answered \in [Users -> SUBSET Cards]
        BY <2>3, ViewAssumption DEF AnswerDueCard, TypeOK
      <3>2. answered' = [answered EXCEPT ![u] = @ \cup {c}]
        BY <2>3 DEF AnswerDueCard, RecordReviewAnswer
      <3>3. resting' = [resting EXCEPT ![u] = @ \cup {c}] /\ quarantined' = quarantined
        BY <2>3 DEF AnswerDueCard
      <3> QED
        BY <2>1, <3>1, <3>2, <3>3
    <2>4. ASSUME NEW u \in Learners, NEW c \in Cards, ComesDue(u, c) PROVE ViewTypeOK'
      <3>1. answered' = answered
        BY <2>4 DEF ComesDue, vars, cardVars
      <3> QED
        BY <2>1, <2>4, <3>1 DEF ComesDue
    <2>5. ASSUME NEW scope \in Flaggable, NEW on \in BOOLEAN, SetQuarantine(scope, on)
          PROVE ViewTypeOK'
      <3>1. answered' = answered
        BY <2>5 DEF SetQuarantine, vars, cardVars
      <3> QED
        BY <2>1, <2>5, <3>1 DEF SetQuarantine
    <2>6. CASE UNCHANGED viewVars
      BY <2>1, <2>6 DEF viewVars, vars, cardVars
    <2> QED
      BY <2>2, <2>3, <2>4, <2>5, <2>6 DEF ViewNext
  <1> QED
    BY <1>1, <1>2, PTL DEF ViewSpec

-----------------------------------------------------------------------------

(* Every call keeps what the learner confirmed. *)
LEMMA StepConfirmed == TypeOK /\ ConfirmedIsKnown /\ [Next]_vars => ConfirmedIsKnown'
  <1> SUFFICES ASSUME TypeOK, ConfirmedIsKnown, [Next]_vars PROVE ConfirmedIsKnown'
    OBVIOUS
  <1> USE DEF ConfirmedIsKnown, TypeOK
  <1>1. ASSUME NEW u \in Users, NEW d \in Decks, DeckStep(u, d) PROVE UNCHANGED lemmaVars
    BY <1>1 DEF DeckStep, CreateDeck, SubscribeUserToPublicDeck,
       UnsubscribeUserFromPublicDeck, SetDeckIsPublic, DeleteDeck
  <1>2. ASSUME NEW u \in Users, VocabularyStep(u) PROVE ConfirmedIsKnown'
    <2>1. ASSUME NEW l \in Lemmas, NEW source \in Sources, ImportKnownWord(u, l, source)
          PROVE ConfirmedIsKnown'
      BY <2>1, StoreAssumption DEF ImportKnownWord
    <2>2. ASSUME NEW words \in {"none", "some"}, NEW target \in SUBSET Lemmas,
                 NEW scope \in Scopes, ReplaceKnownWords(u, words, target, scope)
          PROVE ConfirmedIsKnown'
      BY <2>2, StoreAssumption DEF ReplaceKnownWords, Dropped
    <2>3. ASSUME NEW gone \in SUBSET Lemmas, DeleteKnownWords(u, gone)
          PROVE ConfirmedIsKnown'
      BY <2>3 DEF DeleteKnownWords
    <2>4. \A l \in Lemmas : {l} \in SUBSET Lemmas
      OBVIOUS
    <2> QED
      BY <1>2, <2>1, <2>2, <2>3, <2>4 DEF VocabularyStep, DeleteKnownWord, DeleteAllKnownWords
  <1>3. ASSUME NEW u \in Users, NEW l \in Lemmas,
               MarkLemmaKnown(u, l) \/ MarkLemmaIgnored(u, l) \/ ClearLemmaState(u, l)
        PROVE ConfirmedIsKnown'
    <2>1. CASE MarkLemmaKnown(u, l)
      BY <2>1 DEF MarkLemmaKnown
    <2>2. CASE MarkLemmaIgnored(u, l)
      BY <2>2 DEF MarkLemmaIgnored
    <2>3. CASE ClearLemmaState(u, l)
      <3>1. /\ known' = [known EXCEPT ![u][l] = "none"]
            /\ confirmed' = [confirmed EXCEPT ![u] = @ \ {l}]
        BY <2>3 DEF ClearLemmaState
      <3> QED
        BY <3>1
    <2> QED
      BY <1>3, <2>1, <2>2, <2>3
  <1>4. ASSUME NEW u \in Users, ReviewStep(u) PROVE ConfirmedIsKnown'
    <2>1. PICK c \in cards[u] :
              MarkCardKnown(u, c) \/ MarkCardIgnored(u, c) \/ RecordReviewAnswer(u, c)
      BY <1>4 DEF ReviewStep
    <2>2. c[2] \in Lemmas
      BY <2>1 DEF Cards
    <2> QED
      BY <2>1, <2>2, <1>3 DEF MarkCardKnown, MarkCardIgnored, RecordReviewAnswer, lemmaVars
  <1>5. ASSUME NEW u \in Users, DeleteUserCascade(u) PROVE ConfirmedIsKnown'
    BY <1>5 DEF DeleteUserCascade
  <1>6. CASE UNCHANGED vars
    BY <1>6 DEF vars, lemmaVars
  <1> QED
    BY <1>1, <1>2, <1>3, <1>4, <1>5, <1>6 DEF Next, LemmaStateStep, lemmaVars

(* A word the learner confirmed stays a manual row until withdrawn. *)
THEOREM Confirmed == ViewSpec => []ConfirmedIsKnown
  <1>1. Init => TypeOK /\ ConfirmedIsKnown
    BY InitType DEF Init, ConfirmedIsKnown
  <1>2. TypeOK /\ ConfirmedIsKnown /\ [Next]_vars => (TypeOK /\ ConfirmedIsKnown)'
    BY StepType, StepConfirmed
  <1>3. ViewSpec => Spec
    BY ViewsRefineStore
  <1> QED
    BY <1>1, <1>2, <1>3, PTL DEF Spec

-----------------------------------------------------------------------------

(* A call keeps every answer and every schedule, except the deletion of    *)
(* the account they belong to.                                             *)
LEMMA StepKeepsCards ==
    ASSUME TypeOK, [Next]_vars, NEW v \in live'
    PROVE  answered[v] \subseteq answered'[v] /\ cardState[v] \subseteq cardState'[v]
  <1> USE DEF TypeOK
  <1>1. ASSUME UNCHANGED cardVars
        PROVE  answered[v] \subseteq answered'[v] /\ cardState[v] \subseteq cardState'[v]
    BY <1>1 DEF cardVars
  <1>2. ASSUME NEW u \in Users, NEW keys, EnsureCards(u, keys)
        PROVE  answered[v] \subseteq answered'[v] /\ cardState[v] \subseteq cardState'[v]
    BY <1>2 DEF EnsureCards
  <1>3. ASSUME NEW u \in Users, NEW d \in Decks, DeckStep(u, d)
        PROVE  answered[v] \subseteq answered'[v] /\ cardState[v] \subseteq cardState'[v]
    <2>1. CASE SubscribeUserToPublicDeck(u, d)
      BY <2>1 DEF SubscribeUserToPublicDeck
    <2> QED
      BY <1>1, <1>2, <1>3, <2>1 DEF DeckStep, CreateDeck, UnsubscribeUserFromPublicDeck,
         SetDeckIsPublic, DeleteDeck
  <1>4. ASSUME NEW u \in Users, VocabularyStep(u) PROVE UNCHANGED cardVars
    BY <1>4 DEF VocabularyStep, ImportKnownWord, ReplaceKnownWords, DeleteKnownWord,
       DeleteAllKnownWords, DeleteKnownWords
  <1>5. ASSUME NEW u \in Users, NEW l, LemmaStateStep(u, l)
        PROVE  answered[v] \subseteq answered'[v] /\ cardState[v] \subseteq cardState'[v]
    BY <1>1, <1>2, <1>5 DEF LemmaStateStep, MarkLemmaKnown, MarkLemmaIgnored, ClearLemmaState
  <1>6. ASSUME NEW u \in Users, ReviewStep(u)
        PROVE  answered[v] \subseteq answered'[v] /\ cardState[v] \subseteq cardState'[v]
    <2>1. ASSUME NEW c, RecordReviewAnswer(u, c)
          PROVE  answered[v] \subseteq answered'[v] /\ cardState[v] \subseteq cardState'[v]
      BY <2>1 DEF RecordReviewAnswer
    <2> QED
      BY <1>5, <1>6, <2>1 DEF ReviewStep, MarkCardKnown, MarkCardIgnored, LemmaStateStep
  <1>7. ASSUME NEW u \in Users, DeleteUserCascade(u)
        PROVE  answered[v] \subseteq answered'[v] /\ cardState[v] \subseteq cardState'[v]
    <2>1. v # u
      BY <1>7 DEF DeleteUserCascade
    <2> QED
      BY <1>7, <2>1 DEF DeleteUserCascade
  <1> QED
    BY <1>1, <1>3, <1>4, <1>5, <1>6, <1>7 DEF Next, vars

(* Learning history outlives decks and subscriptions: as long as the       *)
(* account exists, an answered card keeps its answer and its schedule.     *)
THEOREM HistoryKept == ViewSpec => AnsweredCardsKept
  <1>1. TypeOK /\ CardsSchedulable /\ [Next]_vars =>
            [\A u \in live' : answered[u] \subseteq answered'[u] \cap cardState'[u]]_vars
    <2> SUFFICES ASSUME TypeOK, CardsSchedulable, [Next]_vars, NEW u \in live'
                 PROVE  answered[u] \subseteq answered'[u] \cap cardState'[u]
      OBVIOUS
    <2>1. answered[u] \subseteq answered'[u] /\ cardState[u] \subseteq cardState'[u]
      BY StepKeepsCards
    <2>2. u \in Users
      BY StepType DEF TypeOK
    <2>3. answered[u] \subseteq cardState[u]
      BY <2>2 DEF CardsSchedulable
    <2> QED
      BY <2>1, <2>3
  <1> QED
    BY <1>1, ViewsRefineStore, TypeCorrect, Schedulable, PTL DEF Spec, AnsweredCardsKept

-----------------------------------------------------------------------------
(* The pages.  They agree in every state the tables can be in: what the     *)
(* queries count are the same sets.                                        *)

(* One query suppresses occurrences, the other cards; a card is the card   *)
(* of an occurrence that is not suppressed exactly if it is not itself.    *)
LEMMA DueAgrees ==
    ASSUME NEW u, NEW d
    PROVE  DueCountMatchesQueue(u, d)
  <1> DEFINE queued == {c[2] : c \in {x \in DueQueue(u) : InDeck(x, d)}}
  <1>1. \A o : CardOf(o)[1] = SqlFold[o[1]] /\ CardOf(o)[2] = o[2]
    BY DEF CardOf
  <1>2. \A o \in content[d] : SuppressedOccurrence(o) <=> SuppressedCard(CardOf(o))
    BY <1>1 DEF SuppressedOccurrence, SuppressedCard
  <1>3. ASSUME NEW l \in DueLemmas(u, d) PROVE l \in queued
    <2>1. PICK o \in CountedRows(d) : l = o[2] /\ Neutral(u, o[2]) /\ CardOf(o) \in DueCards(u)
      BY DEF DueLemmas
    <2>2. CardOf(o) \in DueQueue(u) /\ InDeck(CardOf(o), d)
      BY <1>1, <1>2, <2>1 DEF CountedRows, DueQueue, InDeck
    <2> QED
      BY <1>1, <2>1, <2>2
  <1>4. ASSUME NEW l \in queued PROVE l \in DueLemmas(u, d)
    <2>1. PICK c \in DueQueue(u) : InDeck(c, d) /\ l = c[2]
      OBVIOUS
    <2>2. PICK o \in content[d] : CardOf(o) = c
      BY <2>1 DEF InDeck
    <2>3. o \in CountedRows(d) /\ Neutral(u, o[2]) /\ CardOf(o) \in DueCards(u) /\ l = o[2]
      BY <1>1, <1>2, <2>1, <2>2 DEF CountedRows, DueQueue
    <2> QED
      BY <2>3 DEF DueLemmas
  <1>5. DueLemmas(u, d) = queued
    BY <1>3, <1>4
  <1> QED
    BY <1>5 DEF DueCountMatchesQueue, GetUserDeckStats

(* The known words of a deck as its own page lists them. *)
LEMMA KnownAgrees ==
    ASSUME NEW u, NEW d
    PROVE  LET states == LemmaStates(u, DOMAIN DeckPage(u, d).words) IN
           {l \in LemmasIn(CountedRows(d)) : IsKnown(u, l)} =
               {l \in DOMAIN states : states[l] = "known" /\ \E o \in CountedRows(d) : o[2] = l}
  <1> DEFINE states == LemmaStates(u, DOMAIN DeckPage(u, d).words)
  <1>1. DOMAIN DeckPage(u, d).words = LemmasIn(content[d])
    BY DEF DeckPage, GetDeckDetails
  <1>2. /\ DOMAIN states = {m \in LemmasIn(content[d]) : LemmaState(u, m) # "none"}
        /\ \A l \in DOMAIN states : states[l] = LemmaState(u, l)
    BY <1>1 DEF LemmaStates
  <1>3. ASSUME NEW l PROVE LemmaState(u, l) = "known" <=> IsKnown(u, l)
    <2>1. CASE IsKnown(u, l)
      BY <2>1, Zenon DEF LemmaState
    <2>2. CASE ~IsKnown(u, l) /\ l \in ignored[u]
      <3>1. LemmaState(u, l) = "ignored"
        BY <2>2, Zenon DEF LemmaState
      <3> QED
        BY <2>2, <3>1
    <2>3. CASE ~IsKnown(u, l) /\ l \notin ignored[u]
      <3>1. LemmaState(u, l) = "none"
        BY <2>3, Zenon DEF LemmaState
      <3> QED
        BY <2>3, <3>1
    <2> QED
      BY <2>1, <2>2, <2>3
  <1>4. LemmasIn(CountedRows(d)) \subseteq LemmasIn(content[d])
    BY DEF LemmasIn, CountedRows
  <1>5. \A l : l \in LemmasIn(CountedRows(d)) <=> \E o \in CountedRows(d) : o[2] = l
    BY DEF LemmasIn
  <1> HIDE DEF states
  <1>6. ASSUME NEW l \in LemmasIn(CountedRows(d)), IsKnown(u, l)
        PROVE  l \in DOMAIN states /\ states[l] = "known"
    BY <1>2, <1>3, <1>4, <1>6
  <1>7. {l \in LemmasIn(CountedRows(d)) : IsKnown(u, l)} =
            {l \in DOMAIN states : states[l] = "known" /\ \E o \in CountedRows(d) : o[2] = l}
    BY <1>2, <1>3, <1>5, <1>6
  <1> QED
    BY <1>7 DEF states

(* The agreement of the pages, in any state with well typed tables. *)
LEMMA TypeGivesAgreement == TypeOK => ListAgreesWithPage
  <1> SUFFICES ASSUME TypeOK, NEW u \in Users, NEW d \in Decks, d \in Listed(u)
               PROVE  LET list == DeckList(u)[d]
                          s == GetUserDeckStats(u, d)
                          c == DeckComprehension(u, d)
                          states == LemmaStates(u, DOMAIN DeckPage(u, d).words)
                      IN /\ MayOpen(u, d) /\ DueCountMatchesQueue(u, d)
                         /\ s.total = c.total /\ s.covered = c.covered
                         /\ list.pct # NoPct => list.pct = ComprehensionPage(u, d).pct
                         /\ list.known = Cardinality({l \in DOMAIN states :
                                states[l] = "known" /\ \E o \in CountedRows(d) : o[2] = l})
                         /\ list.known <= Dashboard(u).known
                         /\ d \in public /\ CountedRows(d) = content[d] =>
                               /\ PublicDecks(u)[d].known = list.known
                               /\ PublicDecks(u)[d].unique = list.unique
    BY DEF ListAgreesWithPage
  <1> DEFINE list == DeckList(u)[d]
             s == GetUserDeckStats(u, d)
             c == DeckComprehension(u, d)
             states == LemmaStates(u, DOMAIN DeckPage(u, d).words)
             rows == CountedRows(d)
             knownHere == {l \in LemmasIn(rows) : IsKnown(u, l)}
  <1>1. MayOpen(u, d) /\ DueCountMatchesQueue(u, d)
    BY DueAgrees DEF MayOpen, Listed, Studies
  <1>2. /\ s.total = Cardinality(Positions(rows))
        /\ s.covered = Cardinality(CoveredBy(u, rows))
        /\ s.known = Cardinality(knownHere)
        /\ s.unique = Cardinality(LemmasIn(rows))
    BY DEF GetUserDeckStats
  <1>3. c.total = Cardinality(Positions(rows)) /\ c.covered = Cardinality(CoveredBy(u, rows))
    BY DEF DeckComprehension
  <1>4. /\ list.known = s.known /\ list.unique = s.unique
        /\ list.pct = CoveragePct(s.covered, s.total)
    BY DEF DeckList
  <1>5. list.pct # NoPct => list.pct = ComprehensionPage(u, d).pct
    <2>1. CASE s.total = 0
      BY <1>4, <2>1 DEF CoveragePct
    <2>2. CASE s.total # 0
      BY <1>2, <1>3, <1>4, <2>2 DEF ComprehensionPage
    <2> QED
      BY <2>1, <2>2
  <1>6. list.known = Cardinality({l \in DOMAIN states :
                         states[l] = "known" /\ \E o \in CountedRows(d) : o[2] = l})
    <2>1. knownHere = {l \in DOMAIN states :
                         states[l] = "known" /\ \E o \in CountedRows(d) : o[2] = l}
      BY KnownAgrees, Zenon
    <2> HIDE DEF states, knownHere, list, s
    <2> QED
      BY <1>2, <1>4, <2>1
  <1>7. list.known <= Dashboard(u).known
    <2> DEFINE all == {l \in Lemmas : IsKnown(u, l)}
    <2>1. knownHere \subseteq all
      BY DEF LemmasIn, CountedRows, TypeOK, Occurrences
    <2>2. IsFiniteSet(all)
      BY ViewAssumption, FS_Subset
    <2>3. Cardinality(knownHere) <= Cardinality(all)
      BY <2>1, <2>2, FS_Subset
    <2> QED
      BY <1>2, <1>4, <2>3 DEF Dashboard, KnownCount
  <1>8. ASSUME d \in public, CountedRows(d) = content[d]
        PROVE  PublicDecks(u)[d].known = list.known /\ PublicDecks(u)[d].unique = list.unique
    BY <1>2, <1>4, <1>8 DEF PublicDecks, ListPublicDecksForUser
  <1>9. s.total = c.total /\ s.covered = c.covered
    BY <1>2, <1>3
  <1> HIDE DEF list, s, c, states
  <1> QED
    BY <1>1, <1>5, <1>6, <1>7, <1>8, <1>9 DEF list, s, c, states

(* Whatever decks are shared, lemmas marked and issues quarantined, the    *)
(* deck list, the deck's own pages, the review queue, the catalogue and    *)
(* the dashboard agree with each other.                                    *)
THEOREM PagesAgree == ViewSpec => []ListAgreesWithPage
  BY ViewsRefineStore, TypeCorrect, TypeGivesAgreement, PTL

-----------------------------------------------------------------------------
(* The words to learn next.  TopUnlocks is a CHOOSE, so that there is such  *)
(* a choice has to be shown first, by induction on the number of words.    *)

(* A set of naturals has a least element. *)
LEMMA LeastOf ==
    ASSUME NEW T \in SUBSET Nat, T # {}
    PROVE  \E x \in T : \A y \in T : x <= y
  <1> DEFINE less == {p \in Nat \X Nat : p[1] < p[2]}
  <1>1. less = OpToRel(<, Nat)
    BY DEF OpToRel
  <1>2. IsWellFoundedOn(less, Nat)
    BY <1>1, NatLessThanWellFounded, Zenon
  <1>3. \A a, b \in Nat : a < b => <<a, b>> \in less
    OBVIOUS
  <1> HIDE DEF less
  <1>4. PICK x \in T : \A y \in T : <<y, x>> \notin less
    BY <1>2, WFMin, Zenon
  <1>5. ASSUME NEW y \in T PROVE x <= y
    <2>1. x \in Nat /\ y \in Nat /\ ~(y < x)
      BY <1>3, <1>4
    <2> QED
      BY <2>1
  <1> QED
    BY <1>5

(* Induction on the naturals, stated for sets. *)
LEMMA InductionOnSet ==
    ASSUME NEW T, 0 \in T, \A n \in Nat : n \in T => n + 1 \in T
    PROVE  Nat \subseteq T
  <1> DEFINE rest == Nat \ T
  <1>1. SUFFICES ASSUME rest # {} PROVE FALSE
    OBVIOUS
  <1>2. PICK n \in rest : \A m \in rest : n <= m
    BY <1>1, LeastOf
  <1>3. n # 0 /\ n - 1 \in Nat /\ n - 1 \notin rest
    BY <1>2
  <1>4. n = (n - 1) + 1
    BY <1>2
  <1> QED
    BY <1>2, <1>3, <1>4

(* Of finitely many words some one is worth most. *)
LEMMA BestOf ==
    ASSUME NEW S, IsFiniteSet(S), S # {}, NEW f \in [S -> Nat]
    PROVE  \E x \in S : \A y \in S : f[x] >= f[y]
  <1> DEFINE better(x) == {y \in S : f[y] > f[x]}
             ranks == {Cardinality(better(x)) : x \in S}
  <1>1. \A x \in S : IsFiniteSet(better(x)) /\ Cardinality(better(x)) \in Nat
    BY FS_Subset, FS_CardinalityType
  <1>2. ranks \in SUBSET Nat /\ ranks # {}
    BY <1>1
  <1>3. PICK r \in ranks : \A q \in ranks : r <= q
    BY <1>2, LeastOf
  <1>4. PICK x \in S : r = Cardinality(better(x))
    OBVIOUS
  <1>5. ASSUME NEW y \in S, f[y] > f[x] PROVE FALSE
    <2>1. better(y) \subseteq better(x) /\ y \in better(x) /\ y \notin better(y)
      BY <1>5
    <2>2. Cardinality(better(y)) <= Cardinality(better(x))
      BY <1>1, <2>1, FS_Subset
    <2>3. Cardinality(better(y)) # Cardinality(better(x))
      BY <1>1, <2>1, FS_Subset
    <2>4. Cardinality(better(x)) <= Cardinality(better(y))
      BY <1>3, <1>4
    <2> HIDE DEF better
    <2> QED
      BY <1>1, <2>2, <2>3, <2>4
  <1> QED
    BY <1>5

(* Any number of words, up to all of them, can be the best. *)
LEMMA TopOf ==
    ASSUME NEW S, IsFiniteSet(S), NEW f \in [S -> Nat],
           NEW n \in Nat, n <= Cardinality(S)
    PROVE  \E top \in SUBSET S :
               /\ Cardinality(top) = n
               /\ \A x \in top, y \in S \ top : f[x] >= f[y]
  <1> DEFINE Top(k) == \E top \in SUBSET S :
                          /\ Cardinality(top) = k
                          /\ \A x \in top, y \in S \ top : f[x] >= f[y]
             T == {k \in Nat : k <= Cardinality(S) => Top(k)}
  <1>1. 0 \in T
    <2>1. {} \in SUBSET S /\ Cardinality({}) = 0
      BY FS_EmptySet
    <2> QED
      BY <2>1
  <1>2. ASSUME NEW k \in Nat, k \in T PROVE k + 1 \in T
    <2>1. SUFFICES ASSUME k + 1 <= Cardinality(S) PROVE Top(k + 1)
      OBVIOUS
    <2>2. Cardinality(S) \in Nat
      BY FS_CardinalityType
    <2>3. PICK top \in SUBSET S : /\ Cardinality(top) = k
                                  /\ \A x \in top, y \in S \ top : f[x] >= f[y]
      BY <1>2, <2>1, <2>2
    <2>4. top # S /\ IsFiniteSet(top) /\ IsFiniteSet(S \ top)
      BY <2>1, <2>2, <2>3, FS_Subset
    <2> DEFINE g == [y \in S \ top |-> f[y]]
    <2>5. g \in [S \ top -> Nat] /\ S \ top # {}
      BY <2>4
    <2>6. PICK x \in S \ top : \A y \in S \ top : g[x] >= g[y]
      BY <2>4, <2>5, BestOf
    <2>7. Cardinality(top \cup {x}) = k + 1
      BY <2>3, <2>4, <2>6, FS_AddElement
    <2>8. \A a \in top \cup {x}, b \in S \ (top \cup {x}) : f[a] >= f[b]
      BY <2>3, <2>6
    <2> QED
      BY <2>7, <2>8
  <1> HIDE DEF T
  <1>3. n \in T
    BY <1>1, <1>2, InductionOnSet
  <1> QED
    BY <1>3 DEF T

(* Every call leaves the decks with finitely many occurrences. *)
FiniteDecks == \A d \in Decks : IsFiniteSet(content[d])

(* Content is only ever a text, or nothing. *)
LEMMA StepFinite == TypeOK /\ FiniteDecks /\ [Next]_vars => FiniteDecks'
  <1> SUFFICES ASSUME TypeOK, FiniteDecks, [Next]_vars PROVE FiniteDecks'
    OBVIOUS
  <1>1. IsFiniteSet({})
    BY FS_EmptySet
  <1>2. CASE UNCHANGED content
    BY <1>2 DEF FiniteDecks
  <1>3. ASSUME NEW u \in Users, NEW d \in Decks, DeckStep(u, d) PROVE FiniteDecks'
    <2>1. CASE DeleteDeck(u, d)
      BY <1>1, <2>1 DEF DeleteDeck, FiniteDecks, TypeOK
    <2>2. ASSUME NEW text \in Texts, NEW pub \in BOOLEAN, CreateDeck(u, d, text, pub)
          PROVE  FiniteDecks'
      BY <2>2, ViewAssumption DEF CreateDeck, FiniteDecks, TypeOK
    <2> QED
      BY <1>2, <1>3, <2>1, <2>2 DEF DeckStep, SubscribeUserToPublicDeck,
         UnsubscribeUserFromPublicDeck, SetDeckIsPublic
  <1>4. ASSUME NEW u \in Users, VocabularyStep(u) PROVE UNCHANGED content
    BY <1>4 DEF VocabularyStep, ImportKnownWord, ReplaceKnownWords, DeleteKnownWord,
       DeleteAllKnownWords, DeleteKnownWords, deckVars
  <1>5. ASSUME NEW u \in Users, NEW l, LemmaStateStep(u, l) PROVE UNCHANGED content
    BY <1>5 DEF LemmaStateStep, MarkLemmaKnown, MarkLemmaIgnored, ClearLemmaState, deckVars
  <1>6. ASSUME NEW u \in Users, ReviewStep(u) PROVE UNCHANGED content
    BY <1>6 DEF ReviewStep, MarkCardKnown, MarkCardIgnored, MarkLemmaKnown, MarkLemmaIgnored,
       RecordReviewAnswer, deckVars
  <1>7. ASSUME NEW u \in Users, DeleteUserCascade(u) PROVE FiniteDecks'
    BY <1>1, <1>7 DEF DeleteUserCascade, FiniteDecks, TypeOK
  <1> QED
    BY <1>2, <1>3, <1>4, <1>5, <1>6, <1>7 DEF Next, vars, deckVars

(* The words a page lists are among those that would cover something.      *)
LEMMA UnlocksAreOpen ==
    ASSUME FiniteDecks, NEW u, NEW d \in Decks, NEW l \in TopUnlocks(u, d)
    PROVE  l \in Lemmas /\ UnlockCount(u, d, l) > 0
  <1> DEFINE open == {m \in Lemmas : UnlockCount(u, d, m) > 0}
             n == IF Cardinality(open) < TopN THEN Cardinality(open) ELSE TopN
             worth == [m \in open |-> UnlockCount(u, d, m)]
  <1>1. IsFiniteSet(open)
    BY ViewAssumption, FS_Subset
  <1>2. Cardinality(open) \in Nat
    BY <1>1, FS_CardinalityType
  <1>3. n \in Nat /\ n <= Cardinality(open)
    BY <1>2, ViewAssumption
  <1>4. ASSUME NEW m \in open PROVE UnlockCount(u, d, m) \in Nat
    <2>1. IsFiniteSet({o \in CountedRows(d) :
                           o[2] = m /\ o[1] \notin CoveredBy(u, CountedRows(d))})
      BY FS_Subset DEF CountedRows, FiniteDecks
    <2> QED
      BY <2>1, FS_CardinalityType DEF UnlockCount
  <1>5. worth \in [open -> Nat]
    BY <1>4
  <1>6. \E top \in SUBSET open :
            /\ Cardinality(top) = n
            /\ \A x \in top, y \in open \ top : worth[x] >= worth[y]
    <2> HIDE DEF open, n, worth
    <2> QED
      BY <1>1, <1>3, <1>5, TopOf
  <1>7. \E top \in SUBSET open :
            /\ Cardinality(top) = n
            /\ \A x \in top, y \in open \ top : UnlockCount(u, d, x) >= UnlockCount(u, d, y)
    BY <1>6
  <1>8. TopUnlocks(u, d) \in SUBSET open
    <2> HIDE DEF n
    <2> QED
      BY <1>7, Zenon DEF TopUnlocks, n
  <1> QED
    BY <1>8

(* Marking a word known covers its open rows, each at a position of its    *)
(* own, and nothing else.                                                  *)
LEMMA MarkingCovers ==
    ASSUME TypeOK, FiniteDecks, NEW u \in Users, NEW d \in Decks, NEW l \in Lemmas,
           MarkLemmaKnown(u, l), quarantined' = quarantined
    PROVE  Cardinality(CoveredBy(u, CountedRows(d)))' =
               Cardinality(CoveredBy(u, CountedRows(d))) + UnlockCount(u, d, l)
  <1> DEFINE rows == CountedRows(d)
             covered == CoveredBy(u, rows)
             open == {o \in rows : o[2] = l /\ o[1] \notin covered}
             gained == Positions(open)
  <1>1. CountedRows(d)' = rows
    BY DEF MarkLemmaKnown, CountedRows, SuppressedOccurrence, deckVars
  <1>2. \A o \in rows : o = <<o[1], o[2]>> /\ o[2] \in Lemmas
    BY DEF CountedRows, TypeOK, Occurrences
  <1>3. \A m \in Lemmas : ~Neutral(u, m)' <=> (~Neutral(u, m) \/ m = l)
    BY DEF MarkLemmaKnown, Neutral, TypeOK
  <1>4. CoveredBy(u, CountedRows(d))' = covered \cup gained
    <2>1. CoveredBy(u, CountedRows(d))' = {o[1] : o \in {x \in rows : ~Neutral(u, x[2])'}}
      BY <1>1 DEF CoveredBy, Positions
    <2>2. covered = {o[1] : o \in {x \in rows : ~Neutral(u, x[2])}}
      BY DEF CoveredBy, Positions
    <2>3. gained = {o[1] : o \in {x \in rows : x[2] = l /\ x[1] \notin covered}}
      BY DEF Positions
    <2> HIDE DEF rows, covered, gained
    <2> QED
      BY <1>2, <1>3, <2>1, <2>2, <2>3
  <1>5. covered \cap gained = {}
    BY DEF Positions
  <1>6. IsFiniteSet(rows) /\ IsFiniteSet(open)
    BY FS_Subset DEF CountedRows, FiniteDecks
  <1>7. IsFiniteSet(gained) /\ Cardinality(gained) = Cardinality(open)
    <2> DEFINE f == [o \in open |-> o[1]]
    <2>1. \A o \in open : o = <<o[1], l>>
      BY <1>2
    <2>2. gained = {o[1] : o \in open}
      BY DEF Positions
    <2>3. f \in [open -> gained] /\ \A o \in open : f[o] = o[1]
      BY <2>2
    <2>4. f \in Bijection(open, gained)
      <3> HIDE DEF f, open, gained
      <3>1. \A o, p \in open : f[o] = f[p] => o = p
        BY <2>1, <2>3
      <3>2. \A t \in gained : \E o \in open : f[o] = t
        BY <2>2, <2>3
      <3> QED
        BY <2>3, <3>1, <3>2 DEF Bijection, Injection, IsInjective, Surjection
    <2> HIDE DEF f, open, gained
    <2> QED
      BY <1>6, <2>4, FS_Bijection DEF ExistsBijection
  <1>8. IsFiniteSet(covered)
    <2> DEFINE base == {o \in rows : ~Neutral(u, o[2])}
               f == [o \in base |-> o[1]]
    <2>1. IsFiniteSet(base)
      BY <1>6, FS_Subset
    <2>2. f \in Surjection(base, covered)
      BY DEF Surjection, CoveredBy, Positions
    <2> HIDE DEF base, f, covered
    <2> QED
      BY <2>1, <2>2, FS_Surjection
  <1>9. Cardinality(covered \cup gained) = Cardinality(covered) + Cardinality(gained)
    <2> HIDE DEF covered, gained
    <2>1. Cardinality(covered) \in Nat /\ Cardinality(gained) \in Nat
      BY <1>7, <1>8, FS_CardinalityType
    <2>2. Cardinality(covered \cup gained) =
              Cardinality(covered) + Cardinality(gained) - Cardinality(covered \cap gained)
      BY <1>7, <1>8, FS_Union
    <2>3. Cardinality(covered \cap gained) = 0
      BY <1>5, FS_EmptySet
    <2> QED
      BY <2>1, <2>2, <2>3
  <1>10. Cardinality(open) = UnlockCount(u, d, l)
    BY DEF UnlockCount
  <1> HIDE DEF covered, gained, open
  <1> QED
    BY <1>4, <1>7, <1>9, <1>10 DEF covered

(* A word to learn next is worth what the page promises: marking it known  *)
(* covers exactly that many more positions.                                *)
THEOREM UnlocksWorthIt == ViewSpec => UnlocksAreWorthIt
  <1> DEFINE Worth ==
        \A u \in Users, l \in Lemmas, d \in Decks :
           (MarkLemmaKnown(u, l) /\ d \in Listed(u)) =>
               LET before == DeckComprehension(u, d) IN
               l \in DOMAIN before.unlocks =>
                   DeckComprehension(u, d)'.covered = before.covered + before.unlocks[l]
  <1>1. Init => FiniteDecks
    BY FS_EmptySet DEF Init, FiniteDecks
  <1>2. TypeOK /\ FiniteDecks /\ [ViewNext]_viewVars => [Worth]_viewVars
    <2> SUFFICES ASSUME TypeOK, FiniteDecks, ViewNext,
                        NEW u \in Users, NEW l \in Lemmas, NEW d \in Decks,
                        MarkLemmaKnown(u, l), l \in DOMAIN DeckComprehension(u, d).unlocks
                 PROVE  DeckComprehension(u, d)'.covered =
                            DeckComprehension(u, d).covered + DeckComprehension(u, d).unlocks[l]
      OBVIOUS
    <2>1. l \in TopUnlocks(u, d) /\ DeckComprehension(u, d).unlocks[l] = UnlockCount(u, d, l)
      BY DEF DeckComprehension
    <2>2. known[u][l] = "none"
      <3>1. UnlockCount(u, d, l) > 0
        BY <2>1, UnlocksAreOpen
      <3> DEFINE open == {o \in CountedRows(d) :
                              o[2] = l /\ o[1] \notin CoveredBy(u, CountedRows(d))}
      <3>2. open # {}
        BY <3>1, FS_EmptySet DEF UnlockCount
      <3>3. PICK o \in CountedRows(d) : o[2] = l /\ o[1] \notin CoveredBy(u, CountedRows(d))
        BY <3>2
      <3> QED
        BY <3>3 DEF CoveredBy, Positions, Neutral
    <2>3. known'[u][l] = "manual"
      BY DEF MarkLemmaKnown, TypeOK
    <2>4. quarantined' = quarantined
      BY <2>2, <2>3 DEF ViewNext, StoreStep, AnswerDueCard, ComesDue, SetQuarantine,
         vars, lemmaVars
    <2>5. /\ DeckComprehension(u, d).covered = Cardinality(CoveredBy(u, CountedRows(d)))
          /\ DeckComprehension(u, d)'.covered = Cardinality(CoveredBy(u, CountedRows(d)))'
      BY DEF DeckComprehension
    <2> QED
      BY <2>1, <2>4, <2>5, MarkingCovers
  <1>3. ViewSpec => [][ViewNext]_viewVars
    BY DEF ViewSpec
  <1> QED
    BY <1>1, <1>2, <1>3, ViewsRefineStore, TypeCorrect, StepFinite, PTL
       DEF Spec, UnlocksAreWorthIt
=============================================================================
