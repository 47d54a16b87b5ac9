---------------------------- MODULE MCMcpSession ----------------------------
(* Small instances of McpSession for TLC.                                    *)
EXTENDS McpSession

Open == [enabled |-> TRUE, tier |-> None, allow |-> {}, deny |-> {}]
Base == [tier |-> ReadOnly, allow |-> {}, deny |-> {}, denyDestructive |-> FALSE,
         toolset |-> [k \in Kind |-> Open], preset |-> "all", include |-> {}, exclude |-> {}]

\* A tier with an allow list above it; a narrower toolset with an allow list of its own; presets and
\* a denied category; the full tier with a toolset disabled and a tool excluded.
MCPolicies ==
    {[Base EXCEPT !.tier = Write, !.allow = Surface],
     [Base EXCEPT !.tier = Destructive, !.toolset["database"].tier = ReadOnly, !.deny = {"redis_alias_delete"},
                  !.toolset["database"].allow = {"redis_alias_run", "redis_alias_set"}],
     [Base EXCEPT !.tier = Destructive, !.preset = "essentials", !.denyDestructive = TRUE,
                  !.include = {"redis_alias_run", "redis_alias_set"}, !.allow = {"redis_alias_run"}],
     [Base EXCEPT !.tier = Destructive, !.toolset["cloud"].enabled = FALSE, !.exclude = {"redis_command"}]}

\* Commands that fit no tier together, one that is refused late, and one that occupies the connection
\* before the next of its batch.
MCBatches == {<<>>, <<"xread">>, <<"del">>, <<"set", "xread block">>, <<"xreadgroup streams block", "del">>}
=============================================================================
