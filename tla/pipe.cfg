\* Both capturers and every format, until the camera falls silent; the system
\* stops when both programs have ended.
SPECIFICATION LiveSpec
CONSTANTS
    MaxGrant <- MCMaxGrant
    DstFrame <- MCDstFrame
    ChunksPerFrame <- MCChunksPerFrame
    Capacity <- MCCapacity
    MaxRequests <- MCMaxRequests
    Width <- MCWidth
    Height <- MCHeight
    MaxFrames <- MCMaxFrames
INVARIANTS
    TypeOK
    BuffersBack
    FramesIntact
    PictureIsFrame
PROPERTIES
    DrainsAfterSilence
CHECK_DEADLOCK FALSE
