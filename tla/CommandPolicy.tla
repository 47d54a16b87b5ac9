--------------------------- MODULE CommandPolicy ---------------------------
(***************************************************************************)
(* What the MCP server permits: the policy that is resolved when it starts, *)
(* and the classification of the commands that a caller supplies to the    *)
(* four surfaces redis_command, redis_bulk_load, redis_alias_set and        *)
(* redis_alias_run.                                                         *)
(*                                                                          *)
(* One tool stands for all tools of a kind: redis_get, redis_set and        *)
(* redis_del for the dedicated tools of the database, get_subscription for  *)
(* those of an API; a command name for all the commands treated like it.    *)
(***************************************************************************)
EXTENDS Naturals, Sequences

CONSTANT None   \* an absent value

\* ToolSafety, and the highest safety that each tier allows: read-only, read-write, full.
ReadOnly == 0
Write == 1
Destructive == 2
Safety == 0..2

Kind == {"database", "cloud"}

Surface == {"redis_command", "redis_bulk_load", "redis_alias_set", "redis_alias_run"}
System == {"show_policy"}
Tool == Surface \cup System \cup
        {"redis_alias_delete", "redis_get", "redis_set", "redis_del", "get_subscription"}

\* The toolset of a tool; the system tools are in none.
Toolset(t) == IF t \in System THEN None ELSE IF t = "get_subscription" THEN "cloud" ELSE "database"

\* The annotations of the tools: what the router and the guard of the handler judge.
Advertised(t) ==
    IF t \in {"redis_get", "get_subscription", "show_policy"} THEN ReadOnly
    ELSE IF t \in {"redis_set", "redis_alias_set", "redis_alias_delete"} THEN Write
    ELSE Destructive

\* What permission to call a surface permits its commands, whatever the tier.
Floor(t) == IF t = "redis_command" THEN ReadOnly ELSE Write

-----------------------------------------------------------------------------
(* The policy.                                                             *)

ToolsetPolicy == [enabled : BOOLEAN, tier : Safety \cup {None}, allow : SUBSET Tool, deny : SUBSET Tool]
Policy ==
    [tier : Safety, allow : SUBSET Tool, deny : SUBSET Tool, denyDestructive : BOOLEAN,
     toolset : [Kind -> ToolsetPolicy],
     preset : {"all", "essentials", "unknown"}, include : SUBSET Tool, exclude : SUBSET Tool]

\* Of the presets: the dedicated tools that read.
Essentials == {"redis_get", "get_subscription"}

\* The tools that are mapped to a toolset: those of an enabled one.
Mapped(p, t) == t \notin System /\ p.toolset[Toolset(t)].enabled

\* resolve_visible_tools: the preset, then what is included, then what is excluded.
Visible(p, t) ==
    /\ Mapped(p, t)
    /\ p.preset = "all" \/ (p.preset = "essentials" /\ t \in Essentials) \/ t \in p.include
    /\ t \notin p.exclude

\* The steps that is_named_tool_allowed and is_dynamic_safety_allowed begin with.
Denied(p, t, safety) ==
    \/ t \notin System /\ ~Mapped(p, t)
    \/ t \in p.deny
    \/ Mapped(p, t) /\ t \in p.toolset[Toolset(t)].deny
    \/ safety = Destructive /\ p.denyDestructive

EffectiveTier(p, t) ==
    IF Mapped(p, t) /\ p.toolset[Toolset(t)].tier # None THEN p.toolset[Toolset(t)].tier ELSE p.tier

Listed(p, t) == t \in p.allow \/ (Mapped(p, t) /\ t \in p.toolset[Toolset(t)].allow)

\* is_named_tool_allowed: a list that allows a tool overrides the tier.
ToolAllowed(p, t, safety) ==
    ~Denied(p, t, safety) /\ (Listed(p, t) \/ safety <= EffectiveTier(p, t))

\* Mutant: a list that allows the tool allows whatever is passed through it.
DynamicByList(p, t, safety) == ToolAllowed(p, t, safety)

\* is_dynamic_safety_allowed: no list raises the ceiling for a command inside a call.
DynamicAllowed(p, t, safety) == ~Denied(p, t, safety) /\ safety <= EffectiveTier(p, t)

\* The filter of the router, for discovery and for calls.
Routed(p, t) == (t \in System \/ Visible(p, t)) /\ ToolAllowed(p, t, Advertised(t))

-----------------------------------------------------------------------------
(* The commands.                                                           *)

Command ==
    {"nothing",                              \* no token
     "get", "set", "del", "my.module",       \* listed as read, as write, and not listed
     "select",                               \* blocked: changes the state of the connection
     "script debug",                         \* refused: so does this one of its family
     "xread", "xread block",                 \* a family; and the variant that waits for data
     "xreadgroup", "xreadgroup block",       \* the same on behalf of a group, ...
     "xreadgroup streams block",             \* ... and of one whose name is "streams"
     "config get", "config set",             \* privileged families
     "slowlog get", "slowlog reset"}         \* other families

BlockedCommand(c) == c = "select"

\* The words of a command after its name, up to the keys: GROUP, its name, BLOCK, STREAMS.
StreamArgs(c) ==
    CASE c = "xread" -> <<"STREAMS">>
      [] c = "xread block" -> <<"BLOCK", "STREAMS">>
      [] c = "xreadgroup" -> <<"GROUP", "one", "STREAMS">>
      [] c = "xreadgroup block" -> <<"GROUP", "one", "BLOCK", "STREAMS">>
      [] c = "xreadgroup streams block" -> <<"GROUP", "STREAMS", "BLOCK", "STREAMS">>
      [] OTHER -> <<>>

\* option_before_streams: the first word STREAMS ends the options, whatever it stands for.
OptionBeforeStreams(args, option) ==
    \E i \in DOMAIN args : args[i] = option /\ \A j \in 1..i : args[j] # "STREAMS"

UnsafeVariant(c) == OptionBeforeStreams(StreamArgs(c), "BLOCK") \/ c = "script debug"

GroupRead == {"xreadgroup", "xreadgroup block", "xreadgroup streams block"}

\* Classify a command, or refuse it (None).  What is not listed is destructive.
Classify(c) ==
    IF c = "nothing" \/ BlockedCommand(c) \/ UnsafeVariant(c) \/ c = "config set" THEN None
    ELSE IF c \in {"config get", "xread", "xread block", "slowlog get", "get"} THEN ReadOnly
    ELSE IF c \in GroupRead \cup {"set"} THEN Write
    ELSE Destructive

Commands(batch) == {batch[i] : i \in DOMAIN batch}

\* classify_batch_safety: the highest safety, or a refusal.
BatchSafety(batch) ==
    LET safeties == {Classify(c) : c \in Commands(batch)} IN
    IF None \in safeties THEN None
    ELSE IF safeties = {} THEN ReadOnly
    ELSE CHOOSE s \in safeties : \A r \in safeties : r <= s

\* preflight_command and preflight_packed_commands: the whole batch is classified, and what it needs
\* above the floor of its surface is judged again.
Preflight(p, t, batch) ==
    IF ~ToolAllowed(p, t, Advertised(t)) THEN "denied"
    ELSE LET required == BatchSafety(batch) IN
         IF required = None THEN "error"
         ELSE IF required <= Floor(t) \/ DynamicAllowed(p, t, required) THEN "allowed" ELSE "denied"

-----------------------------------------------------------------------------
(* What Redis does with a command, whatever it is classified as.           *)

Risk(c) ==
    IF c \in {"get", "xread", "xread block", "config get", "slowlog get"} THEN ReadOnly
    ELSE IF c \in GroupRead \cup {"set", "select", "script debug"} THEN Write ELSE Destructive

\* A connection is shared by all calls: these occupy it until data arrives, and these change what
\* it means for the others.
Occupies(c) == c \in {"xread block", "xreadgroup block", "xreadgroup streams block"}
Disturbs(c) == c \in {"select", "script debug"}

\* Documented: the tier, or what permission for the tool grants by itself; never what is denied.
Granted(p, t, risk) ==
    /\ t \in p.exclude => t \in System
    /\ t \notin p.deny
    /\ Toolset(t) # None =>
          p.toolset[Toolset(t)].enabled /\ t \notin p.toolset[Toolset(t)].deny
    /\ p.denyDestructive => risk # Destructive
    /\ \/ risk <= EffectiveTier(p, t)
       \/ Listed(p, t) /\ risk <= (IF t \in Surface THEN Floor(t) ELSE Advertised(t))
=============================================================================
