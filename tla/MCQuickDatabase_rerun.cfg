SPECIFICATION Spec
CONSTANTS
    None = None
    Sub = {s1, s2}
    Db = {d1, d2, d3}
    LoneHidden = FALSE
    MaxMishaps = 2
    MaxChanges = 2
INVARIANTS
    OneDatabase
    NeverBilled
    OwnNeverRefused
PROPERTY
    RetryDelivers
