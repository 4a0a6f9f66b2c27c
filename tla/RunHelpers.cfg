CONSTANTS
    w1 = w1
    w2 = w2
    w3 = w3
    j1 = j1
    j2 = j2
    k1 = k1
    k2 = k2
    Callers = {w1, w2, w3}
    Jobs = {j1, j2}
    Keys = {k1, k2}
    JobOf <- MCJobOf
    KeyOf <- MCSameKey
    HelperOf <- MCChatAndWizard
    Misconfigured = {w2}
    MaxFailures = 3
    None = None
SPECIFICATION FairSpec
INVARIANTS
    TypeOK
    OneOperationPerJob
    ResultIsOwn
    PollingErrorLeadsBack
    ConflictIsClean
PROPERTIES
    ImplementsContract
