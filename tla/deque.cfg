\* The deque under the unsynchronised threads, up to the first fault or the
\* destruction of the server; the behaviour stops there.
SPECIFICATION LiveSpec
CONSTANTS
    Limit <- MCLimit
    Nalus = {n1, n2}
    Null = Null
    Dangling = Dangling
INVARIANTS
    TypeOK
    CursorInBounds
    IntactUnlessOverlap
    PopsWhatItRead
    NullsAtBottom
PROPERTIES
    FullIsDrained
    StackUntilOverlap
CHECK_DEADLOCK FALSE
