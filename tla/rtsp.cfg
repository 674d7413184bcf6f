\* Streaming rounds without a bound on their number; exit(1) ends the system.
SPECIFICATION LiveSpec
CONSTANTS
    Sources = {s1, s2, s3, s4}
    None = None
    MaxFiles <- MCMaxFiles
    MaxFrames <- MCMaxFrames
INVARIANTS
    TypeOK
    PlaysOpenSource
    NoFileLeftOpen
PROPERTIES
    RoundsGoOn
CHECK_DEADLOCK FALSE
