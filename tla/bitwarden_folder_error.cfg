SPECIFICATION Spec
CONSTANTS
    c1 = c1  c2 = c2  id1 = id1  id2 = id2
    Empty = Empty  BadEscape = BadEscape  Nobody = Nobody  NoRef = NoRef
    FolderIds = {id1, id2}
    Names <- AllNames
    WordsIn <- ErrorWords
    Texts <- AllPaths
    Contents <- AllContents
    Callers = {c1}
    CacheTTL = 1
    TokenLife = 1
    Transfer = 0
    MaxRetries = 0
    MaxEdits = 1
    MaxFaults = 0
INVARIANTS
    MissingFolderIsMissing
