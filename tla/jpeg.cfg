\* Two macro blocks of every combination of blocks, and every quality; the
\* encoder ends by itself.
SPECIFICATION Spec
CONSTANTS
    Jobs <- MCJobs
    PlaneSize <- MCPlaneSize
INVARIANTS
    TypeOK
    EntriesFit
    HeaderReadsBack
    SamplesOfOwnPixels
    NoMarkerInData
    Decodable
CHECK_DEADLOCK FALSE
