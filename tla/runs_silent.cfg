\* An execution ends without an event.
SPECIFICATION Spec
CONSTANTS
    r1 = r1
    r2 = r2
    r3 = r3
    NoRun = NoRun
    NoControl = NoControl
    NoLoop = NoLoop
    Runs <- MCTwo
    MayCrash = FALSE
INVARIANT EndedIsFinished
CHECK_DEADLOCK FALSE
