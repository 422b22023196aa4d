SPECIFICATION FetcherSpec
CONSTANTS
    a = a
    b = b
    c = c
    Words <- MCWords
    Earlier <- MCEarlier
    Workers = {w1, w2}
    NoWord = NoWord
    Foreign = Foreign
    NoId = NoId
    NoLemma = NoLemma
    Limit = 1
    MaxAttempts = 2
    CircuitFailures = 1
    MaxRuns = 1
    MaxTrips = 2
INVARIANTS SkippedWasAnswered PausedMeansPaused
PROPERTY RunsEnd
CHECK_DEADLOCK FALSE
