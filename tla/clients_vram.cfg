\* An image request and a chat load both models.
SPECIFICATION Spec
CONSTANTS
    a = a
    b = b
    img = img
    Callers <- MCCallers
    Sessions <- MCSessions
    NoSession = NoSession
    NoCall = NoCall
    Serialised = FALSE
    UnloadOnIdle = TRUE
    Chats <- MCOne
    Images <- MCImages
    UnloadMayFail = FALSE
    KillSwitch = FALSE
    MayDisconnect = FALSE
    MayFail = FALSE
INVARIANT OneModel
CHECK_DEADLOCK FALSE
