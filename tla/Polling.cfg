CONSTANTS
    Configs <- MCConfigs
    MaxGet = 2
    MaxOversleep = 1
    MaxCallback = 1
    Async = TRUE
    Never = Never
SPECIFICATION FairSpec
INVARIANTS
    TypeOK
    TimeoutIsHonest
    NoMissedResult
    OverrunBounded
    StopIsPrompt
PROPERTIES
    PollCadence
    CancelEndsTheCall
    Termination
