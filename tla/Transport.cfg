CONSTANTS
    Methods = {"GET", "POST"}
    Answers <- MCAnswers
    MaxRetries = 2
    Second = 1
    InitialBackoff = 1
    MaxBackoff = 3
    NoAnswer = NoAnswer
SPECIFICATION FairSpec
INVARIANTS
    TypeOK
    AtMostOneEffect
    RefusalIsClean
    GivesUpLast
    BackoffBudget
PROPERTIES
    HonoursRetryAfter
    Termination
    ImplementsContract
