CONSTANTS
    c1 = c1
    c2 = c2
    c3 = c3
    Cursors <- MCCursors
    First = First
    None = None
    PageSize <- MCPageSize
    MaxRelinks = 1
SPECIFICATION FairSpec
INVARIANTS
    TypeOK
    NoPageTwice
    NothingSkipped
    ExhaustsTheCollection
    RejectsOnlyCycles
PROPERTY Termination
