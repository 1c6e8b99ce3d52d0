\* GPU requests that do not overlap and unloads that work: the documented
\* contract.  Two loops of the first application; two requests of a session
\* with failing writes; three speeches to the avatar, one of them
\* blank; two audits side by side with two units of quota left; two jobs of the
\* studio.
SPECIFICATION PartsSpec
CONSTANTS
    c1 = c1
    c2 = c2
    c3 = c3
    Callers <- MCCallers
    NoCall = NoCall
    UnloadOnIdle = TRUE
    UnloadMayFail = FALSE
    Serialised = TRUE
    l1 = l1
    l2 = l2
    Loops <- MCLoops
    Inputs <- MCInputs
    NoInput = NoInput
    MaxRequests = 2
    AgentTurns = 3
    NoCheckpoint = NoCheckpoint
    WritesMayFail = TRUE
    hi = hi
    bye = bye
    mute = mute
    Speeches <- MCSpeeches
    Sentences <- MCSentences
    CardLimit = 2
    NoSpeech = NoSpeech
    MaxDials = 2
    MaxStarts = 2
    j1 = j1
    j2 = j2
    Jobs <- MCJobs
    MaxPrompts = 2
    MaxTimeline = 2
    s1 = s1
    s2 = s2
    Slots <- MCSlots
    Quota <- MCQuota
    MaxCharge = 2
    UsageCap = 7
INVARIANT PartsTypeOK
PROPERTY Contract
PROPERTY ConfirmedHere
INVARIANT SavedTurnNotRepeated
INVARIANT ClosedNotReopened
INVARIANT FinishIsProven
PROPERTY RequestEnds
INVARIANT SpeechAccountedFor
INVARIANT OvershootBounded
INVARIANT PlanFitsTimeline
INVARIANT SuccessNotLost
PROPERTY RequestAnswered
CHECK_DEADLOCK FALSE
