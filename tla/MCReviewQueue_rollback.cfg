SPECIFICATION Spec
CONSTANTS
    k1 = k1
    k2 = k2
    Cards = {1}
    Loops = {k1}
    Filters <- ScheduleFilters
    NewPerDay = 1
    StartRows <- ScheduleRows
    Ratings <- AllRatings
    FsrsDelays <- ScheduleDelays
    Jumps <- ScheduleJumps
    Today <- Noon
    MaxNow <- ScheduleBound
PROPERTY RollbackKeepsProgress
