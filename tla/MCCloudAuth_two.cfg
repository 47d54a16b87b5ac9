SPECIFICATION Spec
CONSTANTS
    None = None
    InKeyring = InKeyring
    Proc = {p1, p2}
    Account = {a1}
    MaxKeys = 2
    MaxTokens = 2
    MaxCodes = 0
    MaxEdits = 0
    Rotates = {TRUE}
    SameSecond = FALSE
    Kills = TRUE
SYMMETRY Symmetry
INVARIANTS
    RevokeSparesInUse
    PlaintextMatchesRecord
