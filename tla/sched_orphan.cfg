\* A task that was running when the loop stopped stays RUNNING.
SPECIFICATION Spec
CONSTANTS
    agent = agent
    async = async
    diagnosis = diagnosis
    Kind <- MCKind
    NoTask = NoTask
    Tasks <- MCTwo
    Periodic <- MCTwo
    FailureLimit = 2
    MaxFailures = 0
    Operator = FALSE
    Interruptible = TRUE
PROPERTY RunningEnds
