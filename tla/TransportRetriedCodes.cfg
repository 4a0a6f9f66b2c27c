CONSTANTS
    Methods = {"GET", "POST"}
    Answers <- MCAnswers
    MaxRetries = 1
    Second = 1
    InitialBackoff = 1
    MaxBackoff = 3
    NoAnswer = NoAnswer
SPECIFICATION Spec
INVARIANT RetriedCodesAreRetryable
