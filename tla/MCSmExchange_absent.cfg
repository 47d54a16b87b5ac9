SPECIFICATION Spec
CONSTANTS
    None = None
    Account = {2, 3}
    MfaAttempts = 3
    NumericIds = TRUE
    Faults = TRUE
    MaxNames = 2
    MaxChanges = 0
PROPERTY
    AbsentIsGone
