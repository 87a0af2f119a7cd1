SPECIFICATION FairSpec
CONSTANTS
    c1 = c1  c2 = c2  id1 = id1  id2 = id2
    Empty = Empty  BadEscape = BadEscape  Nobody = Nobody  NoRef = NoRef
    FolderIds = {id1, id2}
    Names <- AllNames
    WordsIn <- ErrorWords
    Texts <- OnePath
    Contents <- WithUnreadable
    Callers = {c1, c2}
    CacheTTL = 1
    TokenLife = 2
    Transfer = 1
    MaxRetries = 1
    MaxEdits = 1
    MaxFaults = 2
INVARIANTS
    FreshEnough
    NeverBackwards
PROPERTIES
    FetchReturns
    Recovers
