\* Payload pointers in the deque.
SPECIFICATION Spec
CONSTANTS
    MaxGrant <- MCMaxGrant
    NoFrame = NoFrame
    MaxDelay <- MCMaxDelay
    Limit <- MCLimit
INVARIANTS
    NoStalePayloadQueued
CHECK_DEADLOCK FALSE
