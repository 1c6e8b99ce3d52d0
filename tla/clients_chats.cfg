\* Session lock and gpu lock with failures, disconnects and the kill switch.
SPECIFICATION Spec
CONSTANTS
    a = a
    b = b
    img = img
    Callers <- MCCallers
    Sessions <- MCSessions
    NoSession = NoSession
    NoCall = NoCall
    Serialised = FALSE
    UnloadOnIdle = TRUE
    Chats <- MCChats
    Images <- MCImages
    UnloadMayFail = FALSE
    KillSwitch = TRUE
    MayDisconnect = TRUE
    MayFail = TRUE
INVARIANT SessionExact
INVARIANT LockExact
PROPERTY ChatEnds
CHECK_DEADLOCK FALSE
