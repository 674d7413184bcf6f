\* Encoder calls with and without eof.  Nothing is called after the close.
SPECIFICATION Spec
CONSTANTS
    MaxDelay <- MCMaxDelay
    Eofs = {0, 1}
    Width <- MCWidth
    Height <- MCHeight
INVARIANTS
    TypeOK
    PacketsFit
    FlushLeavesNothing
    PictureIsFrame
CHECK_DEADLOCK FALSE
