SPECIFICATION FairSpec
CONSTANTS
    Clients = {c1, c2}
    Prompts <- MCPrompts
    NullMessages = NullMessages
    NoArguments = NoArguments
    CannedAnswer <- MCCannedAnswer
    Seeded = FALSE
    SignsFull = FALSE
    Losses <- MCLosses
    Threshold = 25
    Keys <- MCKeys
    Ids <- MCIds
    Details = {"none", "x"}
    NoDetail = "none"
    NoKey = NoKey
    NoCall = NoCall
    NoAnswer = NoAnswer
    MaxCalls = 2
    MaxTotal = 2
    MaxRestarts = 1
INVARIANTS
    TypeOK
    VerdictsTrackProcess
    AuditsOwnCallsInOrder
    EveryReturnAudited
    RecountsMatchRequest
PROPERTIES
    ImplementsTrail
    CallsEnd
CHECK_DEADLOCK FALSE
