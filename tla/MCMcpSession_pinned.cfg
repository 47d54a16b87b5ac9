SPECIFICATION Spec
CONSTANTS
    None = None
    Call = {c1, c2}
    Policies <- MCPolicies
    Levels = {"destructive"}
    Offered = {"redis_command", "redis_bulk_load", "redis_alias_set", "redis_alias_run", "redis_alias_delete", "get_subscription", "show_policy"}
    Batches <- MCBatches
    Http = TRUE
INVARIANTS
    ConnectionFree
