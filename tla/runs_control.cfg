\* Two runs with crashes; four proposals of one tool, one of them made on
\* a running event loop, one by batch_validate, with restarts; the stream of
\* a run's events.
SPECIFICATION PartsSpec
CONSTANTS
    r1 = r1
    r2 = r2
    r3 = r3
    NoRun = NoRun
    NoControl = NoControl
    NoLoop = NoLoop
    Runs <- MCTwo
    MayCrash = TRUE
    asker = asker
    script = script
    worker = worker
    clerk = clerk
    Proposals <- MCProposals
    ToolName <- MCToolName
    RunOf <- MCRunOf
    OnLoop <- MCOnLoop
    Batch <- MCBatch
    Loadable <- MCLoadable
    NoTool = NoTool
    NoContext = NoContext
    NoEntry = NoEntry
    RowLimit = 2
    ForgeMayCrash = TRUE
    MaxEvents = 5
    MaxPolls = 3
INVARIANT LockNotLeaked
INVARIANT Pausable
PROPERTY AbortEndsRun
INVARIANT OnlyAuditedCode
INVARIANT ReportedIsAvailable
PROPERTY ResolutionIsAnswer
PROPERTY ProposalEnds
INVARIANT PolledInOrder
INVARIANT EndIsTold
CHECK_DEADLOCK FALSE
