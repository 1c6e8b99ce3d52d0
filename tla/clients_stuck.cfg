\* A chat that is over within the cooldown leaves the FSM in TEXT.
SPECIFICATION Spec
CONSTANTS
    a = a
    b = b
    img = img
    Callers <- MCCallers
    Sessions <- MCSessions
    NoSession = NoSession
    NoCall = NoCall
    Serialised = FALSE
    UnloadOnIdle = TRUE
    Chats <- MCOne
    Images <- MCImages
    UnloadMayFail = FALSE
    KillSwitch = FALSE
    MayDisconnect = FALSE
    MayFail = FALSE
INVARIANT QuietMeansIdle
CHECK_DEADLOCK FALSE
