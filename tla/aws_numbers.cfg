SPECIFICATION Spec
CONSTANTS
    v1 = v1  v2 = v2  i1 = i1  i2 = i2  k1 = k1
    BadEscape = BadEscape  Gone = Gone  NoRef = NoRef  Absent = Absent
    VaultIds = {v1, v2}
    ItemIds = {i1, i2}
    Keys = {k1}
    Pieces <- AllPieces
    Titles <- SomeTitles
    VaultTitles <- TwoTitles
    ItemTitles <- TwoTitles
    WordsIn <- NoWords
    Texts <- FieldTexts
    Contents <- AllContents
    Documents <- BigNumber
    Refusals <- SdkRefusals
    Failures <- SdkFailures
    MaxEdits = 0
INVARIANTS
    NumbersKeepTheirDigits
