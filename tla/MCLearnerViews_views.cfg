SPECIFICATION ViewSpec
CONSTANTS
    admin = admin
    learner = learner
    d1 = d1
    cap = cap
    lower = lower
    word = word
    l1 = l1
    l2 = l2
    nobody = nobody
    Users = {admin, learner}
    Admins = {admin}
    Decks = {d1}
    Sources = {"unset", "anki"}
    Scopes = {"all", "anki"}
    NoUser = nobody
    MaxPending = 1
    Surfaces <- Forms
    Lemmas = {l1, l2}
    Texts <- Homonyms
    GoFold <- Fold
    SqlFold <- Fold
    LemmaSurface <- LemmaForm
    Learners = {learner}
    Flaggable = {lower}
    TopN = 1
CHECK_DEADLOCK FALSE
INVARIANT ListAgreesWithPage
PROPERTY UnlocksAreWorthIt
INVARIANT NoOrphanRows
INVARIANT NeutralLemmasHaveCards
INVARIANT ConfirmedIsKnown
PROPERTY AnsweredCardsKept
