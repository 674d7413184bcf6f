\* The window after a YUYV frame was drawn.
SPECIFICATION Spec
CONSTANTS
    MaxGrant <- MCMaxGrant
    DstFrame <- MCDstFrame
    ChunksPerFrame <- MCChunksPerFrame
    Capacity <- MCCapacity
    MaxRequests <- MCMaxRequests
    Width <- MCWidth
    Height <- MCHeight
    MaxFrames <- MCMaxFrames
INVARIANTS
    PixelsProcessed
CHECK_DEADLOCK FALSE
