SPECIFICATION Spec
CONSTANTS
    Clients = {c1}
    Prompts <- MCOnePrompt
    NullMessages = NullMessages
    NoArguments = NoArguments
    CannedAnswer <- MCCannedAnswer
    Seeded = TRUE
    SignsFull = FALSE
    Losses <- MCNoneOrAll
    Threshold = 25
    Keys <- MCKeys
    Ids <- MCIds
    Details = {"none", "x"}
    NoDetail = "none"
    NoKey = NoKey
    NoCall = NoCall
    NoAnswer = NoAnswer
    MaxCalls = 1
    MaxTotal = 1
    MaxRestarts = 0
INVARIANT UnverifiedIsError
CHECK_DEADLOCK FALSE
