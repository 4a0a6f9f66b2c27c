CONSTANTS
    t1 = t1
    t2 = t2
    c1 = c1
    c2 = c2
    c3 = c3
    h1 = h1
    h2 = h2
    Tasks = {t1, t2}
    Clients = {c1, c2, c3}
    Https = {h1, h2}
    ClientOf <- MCClientOf
    HttpOf <- MCHttpOf
    Owned <- MCOwned
    Method <- MCMethod
    HasKey <- MCHasKey
    MaxRetries = 2
SPECIFICATION FairSpec
INVARIANT TypeOK
PROPERTIES
    CloseIsLocal
    ClosedIsQuiet
    ImplementsContracts
    Termination
