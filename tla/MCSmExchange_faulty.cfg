SPECIFICATION Spec
CONSTANTS
    None = None
    Account = {2, 3}
    MfaAttempts = 3
    NumericIds = FALSE
    Faults = TRUE
    MaxNames = 2
    MaxChanges = 1
INVARIANTS
    TypeOK
    PairBelongsTogether
    AccessOnlyWhereChosen
PROPERTIES
    DeletesTheRecorded
    GrantKept
    ExchangeEnds
