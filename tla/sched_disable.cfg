\* A task disabled while it runs or waits in the snapshot comes back.
SPECIFICATION Spec
CONSTANTS
    agent = agent
    async = async
    diagnosis = diagnosis
    Kind <- MCKind
    NoTask = NoTask
    Tasks <- MCTwo
    Periodic <- MCTwo
    FailureLimit = 2
    MaxFailures = 3
    Operator = TRUE
    Interruptible = FALSE
PROPERTY DisabledUntilEnabled
