\* An insight that was claimed is not claimed again before it is found again.
SPECIFICATION GoalsSpec
CONSTANTS
    i1 = i1
    t1 = t1
    Insights <- MCInsights
    Titles <- MCTitles
    RootTitle = RootTitle
    Resembling <- MCResembling
    ActiveLimit = 2
    MaxGoals = 1
    MaxGenerations = 2
    MaxPlanned = 2
    MaxEnded = 2
INVARIANT ClaimedOnce
