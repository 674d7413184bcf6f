\* The bits left in newByte when the end marker is written.
SPECIFICATION Spec
CONSTANTS
    Jobs <- MCJobs
    PlaneSize <- MCPlaneSize
INVARIANTS
    AllBitsInFile
CHECK_DEADLOCK FALSE
