SPECIFICATION Spec
CONSTANTS
    Keys = {k1, k2}
    NoKey = NoKey
    Ids = {"r1", "r2"}
    Details = {"none", "x"}
    NoDetail = "none"
    Threshold = 5
    Bodies <- MCBodies
    Recounts <- MCRecounts
    MaxSeals = 1
    MaxVerified = 2
INVARIANT AcceptedOnce
CHECK_DEADLOCK FALSE
