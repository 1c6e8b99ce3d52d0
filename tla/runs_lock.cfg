\* The waiter of another thread is not woken.
SPECIFICATION Spec
CONSTANTS
    r1 = r1
    r2 = r2
    r3 = r3
    NoRun = NoRun
    NoControl = NoControl
    NoLoop = NoLoop
    Runs <- MCTwo
    MayCrash = FALSE
PROPERTY LockServed
CHECK_DEADLOCK FALSE
