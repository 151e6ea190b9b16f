SPECIFICATION FairSpec
CONSTANTS
    Base = 2
    Bodies <- MCContentBodies
    Content <- MCContent
    Expected = "request"
    MaxFrames = 3
    MaxBreaks = 1
INVARIANTS
    TypeOK
    DecodedInOrder
PROPERTY
    NothingStuck
CHECK_DEADLOCK FALSE
