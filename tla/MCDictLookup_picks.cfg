SPECIFICATION LookupSpec
CONSTANTS
    Queries <- MCQueries
    Lexicon <- MCLexicon
    LemmaTable <- MCLemmaTable
    MorphSize <- MCMorphSize
    MorphBytes <- MCMorphBytes
    MaCase <- MCMaCase
    ALongEndings <- MCALong
    PossessiveSuffixes <- MCPossessive
    CaseSuffixes <- MCCaseSuffixes
    StemLemmas <- MCStemLemmas
    BadLemmas <- MCBadLemmas
    BadPairs <- MCBadPairs
    Overlay <- MCOverlay
    NameOrder <- MCNameOrder
    LemmaOrder <- MCLemmaOrder
INVARIANTS
    RankingIsAnOrder
    BasicPickIgnoresRowOrder
    PickIsOffered
CHECK_DEADLOCK FALSE
