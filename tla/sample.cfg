\* The whole program with a camera that delivers.  The process ends, or
\* hangs when a thread could not be created.
SPECIFICATION LiveSpec
CONSTANTS
    MaxGrant <- MCMaxGrant
    NoFrame = NoFrame
    MaxDelay <- MCMaxDelay
    Limit <- MCLimit
INVARIANTS
    TypeOK
    WorksOnOwnFrame
    ServerOutlivesThreads
    CurrentPayloadOnTop
    TestsStillHold
PROPERTIES
    CaptureProtocol
    DequeProtocol
    QuitEnds
CHECK_DEADLOCK FALSE
