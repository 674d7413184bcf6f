\* With a camera that may stall, 'q' does not end the program.
SPECIFICATION ThreadSpec
CONSTANTS
    MaxGrant <- MCMaxGrant
    NoFrame = NoFrame
    MaxDelay <- MCMaxDelay
    Limit <- MCLimit
PROPERTIES
    QuitEnds
CHECK_DEADLOCK FALSE
