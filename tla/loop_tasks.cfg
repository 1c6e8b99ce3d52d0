\* The queue, the loop, cancel, shutdown and the kill switch; three calls into
\* the evolution manager beside one handler of proposals; two generations of goals,
\* with ends and plans.
SPECIFICATION PartsSpec
CONSTANTS
    first = first
    second = second
    Callers <- MCCallers
    Rank <- MCRank
    NoCall = NoCall
    NoTask = NoTask
    Serialised = FALSE
    Tasks <- MCTasks
    MAX_QUEUE_SIZE = 1
    UnloadOnIdle = TRUE
    UnloadMayFail = TRUE
    KillSwitch = TRUE
    auto = auto
    gate = gate
    tick1 = tick1
    h1 = h1
    fx = fx
    Cycles <- MCCycles
    GateCall = gate
    TickCall = tick1
    Handlers <- MCHandlers
    Topic <- MCTopic
    NoTopic = NoTopic
    Targets <- MCTargets
    AutoScope <- MCTargets
    NoTarget = NoTarget
    NoFile = NoFile
    NoProposal = NoProposal
    Original = Original
    MaxCycles = 1
    MaxRetries = 1
    Retries <- MCRetries
    i1 = i1
    t1 = t1
    Insights <- MCInsights
    Titles <- MCTitles
    RootTitle = RootTitle
    Resembling <- MCResembling
    ActiveLimit = 2
    MaxGoals = 1
    MaxGenerations = 2
    MaxPlanned = 2
    MaxEnded = 2
INVARIANT IdleBetweenTasks
INVARIANT NoTaskForgotten
PROPERTY TaskAnswered
INVARIANT OnlyApprovedApplied
INVARIANT WithinDailyLimit
PROPERTY RejectionKept
INVARIANT GoalsNotRepeated
CHECK_DEADLOCK FALSE
