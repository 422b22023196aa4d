SPECIFICATION Spec
CONSTANTS
    NoFeats = "none"
    Repairs = {}
    Words = {"w", "v"}
    Senses <- MCSenses
    NoSense = NoSense
    KaikkiDumps <- MCKaikkiDumps
    Structural <- MCStructural
    BatchSize = 1
    GlossFiles <- MCGlossFiles
    EkilexDrops <- MCEkilexDrops
    SmokeImports <- MCSmokeImports
    SourcePriorities = {10}
    WordLists = {{"w"}}
    KotusLists <- MCKotusLists
    wordClassMap <- MCwordClassMap
    Promoted <- MCPromoted
    r1 = r1
    r2 = r2
    r3 = r3
    Reports = {r1, r2, r3}
    ReporterOf <- MCReporterOf
    SurfaceOf <- MCSurfaceOf
    ProposalOf <- MCProposalOf
    FormOf <- MCFormOf
    LowerOf <- MCFormOf
    GoldSets <- MCGoldSets
    LearnerGloss <- MCLearnerGloss
    goldConflictMinCases = 2
    GoldPromotionThreshold = 2
    MaxRuns = 2
    MaxReviews = 2
    MaxExports = 1
SYMMETRY MCSymmetry
INVARIANT OverrideAnswers
PROPERTY RecordedKaikkiIsFresh
PROPERTY RecordedEkilexAgrees
PROPERTY CandidatesReachReview
INVARIANT ParadigmsKept
