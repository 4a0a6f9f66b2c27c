CONSTANTS
    Unset = Unset
    BaseURLs <- MCBaseURLs
SPECIFICATION Spec
INVARIANTS
    TypeOK
    KeysStayApart
