SPECIFICATION Spec
CONSTANTS
    Profile = {"prod", "new"}
    Value = {"prod", "new"}
    Var = {"$A", "$B"}
    None = None
    Path = {"config.toml", "export.toml"}
    Home = "config.toml"
    Sources <- MCSources
    Envs <- MCEnvs
    MaxEdits = 2
    MaxOthers = 1
CHECK_DEADLOCK FALSE
INVARIANTS
    TypeOK
    SnapshotAgrees
PROPERTIES
    ReferencesStay
    ResolvedStaysOut
    ObservedKept
