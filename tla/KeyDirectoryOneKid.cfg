SPECIFICATION Spec
CONSTANTS
    Keys = {k1, k2}
    NoKey = NoKey
    Ids = {"r"}
    Details = {"none"}
    NoDetail = "none"
    Threshold = 5
    Kids = {a}
    NoKid = NoKid
    Note = Note
    Body0 <- MCBody
    Encodings = {"raw"}
    OneKid = TRUE
    MaxReceipts = 2
INVARIANT
    KidIdentifiesKey
