SPECIFICATION Spec
CONSTANTS
    k1 = k1
    k2 = k2
    Cards = {1, 2, 3}
    Loops = {k1, k2}
    Filters <- BudgetFilters
    NewPerDay = 1
    StartRows <- BudgetRows
    Ratings = {"good"}
    FsrsDelays <- QueueDelays
    Jumps = {72}
    Today <- Noon
    MaxNow <- BudgetBound
SYMMETRY LoopSymmetry
INVARIANT NewCardBudget
INVARIANT DashboardMatchesQueue
PROPERTY GoodNeverPullsForward
CONSTRAINT OneCardClimbs
