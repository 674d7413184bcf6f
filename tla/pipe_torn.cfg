\* The viewer draws after a read that returned part of a frame.
SPECIFICATION Spec
CONSTANTS
    MaxGrant <- MCMaxGrant
    DstFrame <- MCDstFrame
    ChunksPerFrame <- MCChunksPerFrame
    Capacity <- MCCapacity
    MaxRequests <- MCMaxRequests
    Width <- MCWidth
    Height <- MCHeight
    MaxFrames <- MCMaxFrames
INVARIANTS
    EntireFrame
CHECK_DEADLOCK FALSE
