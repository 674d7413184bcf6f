\* Buffer ownership over every answer of the driver, with a camera that
\* delivers.  The process may end, so a state without successor is no error.
SPECIFICATION LiveSpec
CONSTANTS
    MaxGrant <- MCMaxGrant
    NoFrame = NoFrame
INVARIANTS
    TypeOK
    AppOwnsOnlyFrame
    DriverNeverStarved
    QbufNeverRejected
    FrameIsMapped
PROPERTIES
    FramesKeepComing
CHECK_DEADLOCK FALSE
