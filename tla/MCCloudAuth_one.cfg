SPECIFICATION Spec
CONSTANTS
    None = None
    InKeyring = InKeyring
    Proc = {p1}
    Account = {a1, a2}
    MaxKeys = 2
    MaxTokens = 2
    MaxCodes = 1
    MaxEdits = 1
    Rotates = {TRUE, FALSE}
    SameSecond = FALSE
    Kills = TRUE
SYMMETRY Symmetry
INVARIANTS
    ReplacementWorks
    NoSilentKey
PROPERTIES
    KeyCustodyKept
    SuccessWorks
    OnlyReplacedKeysDie
    LogoutEndsSignIn
    PendingHonoured
