\* Overlapping requests of the GPU, unloads that may fail: what is left of the
\* contract.  Tasks of every kind with an operator, stops and restarts; two
\* ticks of the autonomous agent and an approval, with rejections and restarts.
SPECIFICATION PartsSpec
CONSTANTS
    c1 = c1
    c2 = c2
    c3 = c3
    Callers <- MCCallers
    NoCall = NoCall
    UnloadOnIdle = TRUE
    UnloadMayFail = TRUE
    Serialised = FALSE
    agent = agent
    async = async
    diagnosis = diagnosis
    Kind <- MCKind
    NoTask = NoTask
    Tasks <- MCTasks
    Periodic <- MCTwo
    FailureLimit = 2
    MaxFailures = 3
    Operator = TRUE
    Interruptible = TRUE
    tick1 = tick1
    tick2 = tick2
    approval = approval
    Ticks <- MCTicks
    Approvals <- MCApprovals
    NoRecord = NoRecord
    NoScript = NoScript
PROPERTY IdleRequestReachesIdle
INVARIANT ViolationStaysDisabled
INVARIANT FailuresDisable
INVARIANT RunningIsCurrent
PROPERTY DueTaskRuns
INVARIANT RunsItsOwnCode
INVARIANT StartedOnce
PROPERTY RejectionHolds
PROPERTY CallEnds
CHECK_DEADLOCK FALSE
