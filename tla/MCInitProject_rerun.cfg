SPECIFICATION Spec
CONSTANTS
    None = None
    Port = {1, 2}
    Choices = {"auto", "later", "docker", "url", "cloud", "complete", "iris"}
    Copies = TRUE
    MaxEdits = 1
INVARIANTS
    TypeOK
PROPERTIES
    SecretsIgnored
    UserValuesKept
    ConnectionAgrees
    RerunQuiet
    NeverInVain
