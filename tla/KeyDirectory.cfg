SPECIFICATION Spec
CONSTANTS
    Keys = {k1, k2, k3}
    NoKey = NoKey
    Ids = {"r"}
    Details = {"none"}
    NoDetail = "none"
    Threshold = 5
    Kids = {a, b, c}
    NoKid = NoKid
    Note = Note
    Body0 <- MCBody
    Encodings = {"raw", "spki"}
    OneKid = FALSE
    MaxReceipts = 2
SYMMETRY KeySymmetry
INVARIANTS
    TypeOK
    PinnedAsAnnounced
    VerdictsFollowKids
