----------------------------- MODULE McpSession -----------------------------
(***************************************************************************)
(* The MCP server at work: calls of its tools are handled concurrently and *)
(* share the cache of clients, behind one read-write lock, the connection  *)
(* to the database and the alias.  A call is filtered by the router, judged *)
(* by the guard of its handler, given a connection, and, on the surfaces   *)
(* for arbitrary commands, judged again by what it carries; the audit layer *)
(* around it records the outcome.                                          *)
(*                                                                          *)
(* A step is what a handler does between two awaits.  The connection may    *)
(* break at any time, and with HTTP a call may be dropped wherever it waits. *)
(* There is one database URL, one API profile and one name for an alias.    *)
(***************************************************************************)
EXTENDS CommandPolicy

CONSTANTS
    Call,      \* calls that are handled at the same time
    Policies,  \* the policies that the server may have been started with
    Levels,    \* the levels of its audit log
    Offered,   \* the tools that are called
    Batches,   \* the sequences of commands that are passed
    Http       \* is the transport HTTP, with a timeout on each request?

Level == {"all", "writes", "destructive", "denied"}

ASSUME McpAssumption ==
    /\ Policies \subseteq Policy
    /\ Levels \subseteq Level
    /\ Offered \subseteq Tool
    /\ Batches \subseteq Seq(Command)
    /\ Http \in BOOLEAN

VARIABLES
    policy,   \* the policy and the audit level of this process
    calls,    \* the calls under way
    clients,  \* the cached connection of the database, and the cached API client
    lock,     \* the lock of the cache: who reads, and who waits in line, first come first served
    alias,    \* the commands of the alias, or None
    audit     \* what the audit layer records in this step

vars == <<policy, calls, clients, lock, alias, audit>>

Phase == {"idle", "judge", "cache", "ping", "connect", "insert", "body", "send", "request"}

\* `batch`: the commands, of which `sent` have reached Redis.
CallRecord == [pc : Phase, tool : Tool \cup {None}, batch : Batches \cup Seq(Command), sent : Nat]
Idle == [pc |-> "idle", tool |-> None, batch |-> <<>>, sent |-> 0]

Event == {"none", "invocation", "error", "denied"}

TypeOK ==
    /\ policy.rules \in Policies /\ policy.level \in Levels
    /\ \A c \in Call :
          /\ calls[c] \in CallRecord
          /\ calls[c].sent <= Len(calls[c].batch)
    /\ clients \in [connection : {"none", "live", "broken"}, occupied : BOOLEAN, api : BOOLEAN]
    /\ lock \in [readers : SUBSET Call, queue : Seq(Call)]
    /\ alias \in Batches \cup {None}
    /\ audit \in Event

Init ==
    /\ policy \in [rules : Policies, level : Levels]
    /\ calls = [c \in Call |-> Idle]
    /\ clients = [connection |-> "none", occupied |-> FALSE, api |-> FALSE]
    /\ lock = [readers |-> {}, queue |-> <<>>]
    /\ alias = None
    /\ audit = "none"

rules == policy.rules
At(c, pc) == calls[c].pc = pc
Goto(c, pc) == calls' = [calls EXCEPT ![c].pc = pc]

-----------------------------------------------------------------------------
(* The audit layer.                                                        *)

\* Mutant: a call is recorded by the annotation of its tool, not by what it carries.
AuditAnnotated(t, batch) == IF t \in {"redis_bulk_load", "redis_alias_run"} THEN Write ELSE Advertised(t)

\* audit_safety: the commands of a call are classified, a refused batch is destructive, and so is
\* an alias, whose commands the layer does not see.
AuditSafety(t, batch) ==
    LET classified == IF BatchSafety(batch) = None THEN Destructive ELSE BatchSafety(batch) IN
    IF t \in {"redis_command", "redis_bulk_load"} THEN classified
    ELSE IF t = "redis_alias_set" THEN (IF classified > Write THEN classified ELSE Write)
    ELSE IF t = "redis_alias_run" THEN Destructive
    ELSE Advertised(t)

ShouldLog(event, safety) ==
    \/ event = "denied"
    \/ policy.level = "all"
    \/ policy.level = "writes" /\ safety # ReadOnly
    \/ policy.level = "destructive" /\ safety = Destructive

Unrecorded == audit' = "none"

\* The call returns, and is recorded.
Finish(c, event) ==
    /\ calls' = [calls EXCEPT ![c] = Idle]
    /\ audit' = IF ShouldLog(event, AuditSafety(calls[c].tool, calls[c].batch)) THEN event ELSE "none"

-----------------------------------------------------------------------------
(* A call up to its handler's body.                                        *)

Carries(t, batch) ==
    IF t \in {"redis_command", "redis_bulk_load", "redis_alias_set"} THEN batch
    ELSE IF t = "redis_get" THEN <<"get">>
    ELSE IF t = "redis_set" THEN <<"set">>
    ELSE IF t = "redis_del" THEN <<"del">> ELSE <<>>

Arrive(c) ==
    /\ At(c, "idle")
    /\ \E t \in Offered, b \in Batches :
          /\ t = "redis_command" => Len(b) = 1
          /\ calls' = [calls EXCEPT ![c] = [pc |-> "judge", tool |-> t, batch |-> Carries(t, b), sent |-> 0]]
    /\ Unrecorded
    /\ UNCHANGED <<policy, clients, lock, alias>>

\* The filter of the router, the guard of the handler, and the preflight of redis_command: before
\* the first await, which is for the lock of the cache.
Judge(c) ==
    /\ At(c, "judge")
    /\ LET t == calls[c].tool
           verdict ==
               IF ~Routed(rules, t) \/ ~ToolAllowed(rules, t, Advertised(t)) THEN "denied"
               ELSE IF t = "redis_command" THEN Preflight(rules, t, calls[c].batch) ELSE "allowed"
       IN  \/ /\ verdict = "allowed" /\ t \notin System
              /\ Goto(c, "cache") /\ Unrecorded
              /\ lock' = [lock EXCEPT !.queue = Append(@, c)]
           \/ /\ verdict = "allowed" /\ t \in System \cup {"redis_command"}      \* or only a dry run
              /\ Finish(c, "invocation") /\ UNCHANGED lock
           \/ /\ verdict = "allowed" /\ t \notin System \cup {"get_subscription"} \* no URL to use
              /\ Finish(c, "error") /\ UNCHANGED lock
           \/ verdict # "allowed" /\ Finish(c, verdict) /\ UNCHANGED lock
    /\ UNCHANGED <<policy, clients, alias>>

First(c) == lock.queue # <<>> /\ Head(lock.queue) = c

\* Mutant: the guard of the read lock lives on while the call connects.
GuardOutlives(c) == [lock EXCEPT !.queue = Tail(@), !.readers = @ \cup {c}]

\* The lock after a look at the cache that found nothing.
Released(c) == [lock EXCEPT !.queue = Tail(@)]

\* redis_connection_for_url: a cached connection is pinged under the read lock.
LookUp(c) ==
    /\ At(c, "cache") /\ calls[c].tool # "get_subscription" /\ First(c)
    /\ IF clients.connection = "none"
       THEN Goto(c, "connect") /\ lock' = Released(c)
       ELSE Goto(c, "ping") /\ lock' = [lock EXCEPT !.queue = Tail(@), !.readers = @ \cup {c}]
    /\ UNCHANGED <<policy, clients, alias>> /\ Unrecorded

\* The answer to the PING, or its failure: then a new connection is made.
Ping(c) ==
    /\ At(c, "ping")
    /\ \/ clients.connection = "live" /\ ~clients.occupied /\ Goto(c, "body")
       \/ clients.connection = "broken" /\ Goto(c, "connect")
    /\ lock' = [lock EXCEPT !.readers = @ \ {c}]
    /\ UNCHANGED <<policy, clients, alias>> /\ Unrecorded

Connect(c) ==
    /\ At(c, "connect")
    /\ \/ /\ Goto(c, "insert") /\ Unrecorded
          /\ lock' = [lock EXCEPT !.queue = Append(@, c)]
       \/ Finish(c, "error") /\ UNCHANGED lock
    /\ UNCHANGED <<policy, clients, alias>>

\* cloud_client_for_profile, enterprise_client_for_profile: the client is cached without a check.
LookUpApi(c) ==
    /\ At(c, "cache") /\ calls[c].tool = "get_subscription" /\ First(c)
    /\ \/ clients.api /\ Goto(c, "request") /\ lock' = Released(c) /\ Unrecorded
       \/ /\ ~clients.api /\ Goto(c, "insert") /\ Unrecorded
          /\ lock' = [lock EXCEPT !.queue = Append(Tail(@), c)]
       \/ ~clients.api /\ Finish(c, "error") /\ lock' = Released(c)
    /\ UNCHANGED <<policy, clients, alias>>

\* The write lock, once nobody reads: the last connection that was made stays.  (Two that were made
\* at once are taken for one: what occupies the first seems to occupy the second.)
Insert(c) ==
    /\ At(c, "insert") /\ First(c) /\ lock.readers = {}
    /\ IF calls[c].tool = "get_subscription"
       THEN clients' = [clients EXCEPT !.api = TRUE] /\ Goto(c, "request")
       ELSE /\ clients' = [clients EXCEPT !.connection = "live"]
            /\ Goto(c, "body")
    /\ lock' = [lock EXCEPT !.queue = Tail(@)]
    /\ UNCHANGED <<policy, alias>> /\ Unrecorded

-----------------------------------------------------------------------------
(* The bodies.                                                             *)

Request(c) ==
    /\ At(c, "request")
    /\ Finish(c, "invocation") \/ Finish(c, "error")
    /\ UNCHANGED <<policy, clients, lock, alias>>

\* The dedicated tools, and redis_command, which was judged before.
Dedicated(c) ==
    /\ At(c, "body") /\ calls[c].tool \in {"redis_command", "redis_get", "redis_set", "redis_del"}
    /\ Goto(c, "send")
    /\ UNCHANGED <<policy, clients, lock, alias>> /\ Unrecorded

\* "Preflight the entire batch before running its first command"
BulkLoad(c) ==
    /\ At(c, "body") /\ calls[c].tool = "redis_bulk_load"
    /\ LET verdict == Preflight(rules, "redis_bulk_load", calls[c].batch) IN
       IF calls[c].batch = <<>> THEN Finish(c, "invocation")
       ELSE IF verdict = "allowed" THEN Goto(c, "send") /\ Unrecorded
       ELSE Finish(c, verdict)
    /\ UNCHANGED <<policy, clients, lock, alias>>

AliasSet(c) ==
    /\ At(c, "body") /\ calls[c].tool = "redis_alias_set"
    /\ LET verdict == IF calls[c].batch = <<>> THEN "error"
                      ELSE Preflight(rules, "redis_alias_set", calls[c].batch)
       IN  IF verdict = "allowed"
           THEN alias' = calls[c].batch /\ Finish(c, "invocation")
           ELSE UNCHANGED alias /\ Finish(c, verdict)
    /\ UNCHANGED <<policy, clients, lock>>

\* The commands are those of the alias at this moment, judged again.
AliasRun(c) ==
    /\ At(c, "body") /\ calls[c].tool = "redis_alias_run"
    /\ IF alias = None THEN Finish(c, "error")
       ELSE LET verdict == Preflight(rules, "redis_alias_run", alias) IN
            IF verdict = "allowed"
            THEN Unrecorded /\ calls' = [calls EXCEPT ![c].pc = "send", ![c].batch = alias]
            ELSE Finish(c, verdict)
    /\ UNCHANGED <<policy, clients, lock, alias>>

AliasDelete(c) ==
    /\ At(c, "body") /\ calls[c].tool = "redis_alias_delete"
    /\ alias' = None /\ Finish(c, "invocation")
    /\ UNCHANGED <<policy, clients, lock>>

\* One command reaches Redis: pipelines are not atomic, calls interleave in them.
Deliver(c) ==
    /\ At(c, "send") /\ calls[c].sent < Len(calls[c].batch)
    /\ ~clients.occupied
    /\ calls' = [calls EXCEPT ![c].sent = @ + 1]
    /\ clients' = [clients EXCEPT !.occupied = Occupies(calls[c].batch[calls[c].sent + 1])]
    /\ UNCHANGED <<policy, lock, alias>> /\ Unrecorded

\* The last reply, an error reply, or none because the connection broke.
Reply(c) ==
    /\ At(c, "send") /\ ~clients.occupied
    /\ \/ calls[c].sent = Len(calls[c].batch) /\ Finish(c, "invocation")
       \/ Finish(c, "error")
    /\ UNCHANGED <<policy, clients, lock, alias>>

-----------------------------------------------------------------------------

\* The connection breaks, and what waits on it comes back as an error.
Break ==
    /\ clients.connection = "live"
    /\ clients' = [clients EXCEPT !.connection = "broken", !.occupied = FALSE]
    /\ UNCHANGED <<policy, calls, lock, alias>> /\ Unrecorded

\* The data that a blocking command waits for: it may come, or not.
DataArrives ==
    /\ clients.occupied
    /\ clients' = [clients EXCEPT !.occupied = FALSE]
    /\ UNCHANGED <<policy, calls, lock, alias>> /\ Unrecorded

\* Mutant: a dropped call leaves its place in line behind.
ExpireInLine(c) ==
    /\ Http /\ calls[c].pc \notin {"idle", "judge"}
    /\ lock' = [lock EXCEPT !.readers = @ \ {c}]
    /\ calls' = [calls EXCEPT ![c] = Idle] /\ Unrecorded
    /\ UNCHANGED <<policy, clients, alias>>

\* A call that is dropped gives back its guard, or its place in line.
Leave(c, line) ==
    \/ \E i \in DOMAIN line :
          /\ line[i] = c
          /\ lock' = [readers |-> lock.readers \ {c},
                      queue |-> SubSeq(line, 1, i - 1) \o SubSeq(line, i + 1, Len(line))]
    \/ /\ \A i \in DOMAIN line : line[i] # c
       /\ lock' = [lock EXCEPT !.readers = @ \ {c}]

\* The timeout of the HTTP transport drops a call where it waits, and whatever it held with it.
\* Whether it is recorded depends on the order of the layers.
Expire(c) ==
    /\ Http /\ calls[c].pc \notin {"idle", "judge"}
    /\ Leave(c, lock.queue)
    /\ Finish(c, "error") \/ (calls' = [calls EXCEPT ![c] = Idle] /\ Unrecorded)
    /\ UNCHANGED <<policy, clients, alias>>

Handle(c) ==
    \/ Judge(c) \/ LookUp(c) \/ Ping(c) \/ Connect(c) \/ LookUpApi(c) \/ Insert(c) \/ Request(c)
    \/ Dedicated(c) \/ BulkLoad(c) \/ AliasSet(c) \/ AliasRun(c) \/ AliasDelete(c)
    \/ Deliver(c) \/ Reply(c)

Next == Break \/ DataArrives \/ \E c \in Call : Arrive(c) \/ Handle(c) \/ Expire(c)

\* A handler goes on, and what it waits for answers or breaks, unless a command occupies it.
Spec == Init /\ [][Next]_vars /\ \A c \in Call : WF_vars(Handle(c))

-----------------------------------------------------------------------------
(* Properties.                                                             *)

\* "An explicit allow can expose an arbitrary-command tool below its advertised tier, but it does
\* not raise the runtime safety ceiling", and "a denied command cannot leave earlier batches
\* partially applied": once a command of a call has reached Redis, all it carries is granted by the
\* policy, by what Redis does with it, and none changes what the connection means for the others
\* that share it.  (That none occupies it is not said here: see ConnectionFree.)
CeilingKept ==
    \A c \in Call : calls[c].sent > 0 =>
        \A cmd \in Commands(calls[c].batch) :
            Granted(rules, calls[c].tool, Risk(cmd)) /\ ~Disturbs(cmd)

\* The lock of the cache: none but a call that waits for the answer to its PING holds it to read,
\* and in line is every call that waits for it, once.  No guard outlives its scope, and no call
\* that was dropped stays in the way of those behind it.
LockKept ==
    /\ lock.readers = {c \in Call : At(c, "ping")}
    /\ \A i \in DOMAIN lock.queue : calls[lock.queue[i]].pc \in {"cache", "insert"}
    /\ \A c \in Call : calls[c].pc \in {"cache", "insert"} => \E i \in DOMAIN lock.queue : lock.queue[i] = c
    /\ \A i, j \in DOMAIN lock.queue : lock.queue[i] = lock.queue[j] => i = j

Returns(c) == calls[c].pc # "idle" /\ calls'[c].pc = "idle"

\* "Write and destructive calls, including their errors, plus every policy denial": a call that
\* returns is recorded if anything it did to Redis is of the level, however the call carried it.
AuditComplete ==
    [][ \A c \in Call : Returns(c) /\ Handle(c) =>
          LET did == {Risk(calls[c].batch[i]) : i \in 1..calls[c].sent} IN
          /\ At(c, "judge") /\ ~Routed(rules, calls[c].tool) => audit' = "denied"
          /\ \/ audit' # "none"
             \/ policy.level = "writes" /\ did \subseteq {ReadOnly}
             \/ policy.level = "destructive" /\ Destructive \notin did
             \/ policy.level = "denied" ]_vars

\* Calls share one lock and one connection, and a lookup holds the one while it waits for the
\* other: as long as connections answer or break, every call returns, unless a command that waits
\* for data occupies the connection.
CallsEnd == \A c \in Call : ~At(c, "idle") ~> (At(c, "idle") \/ clients.occupied)

-----------------------------------------------------------------------------
(* What a message of the source claims, and the filter does not keep: it   *)
(* is refuted by a run of its own.                                         *)

\* "command '{command}' with BLOCK is blocked because it can pin the shared connection": no command
\* that waits for data gets past the classification and occupies the connection of all calls.
ConnectionFree == ~clients.occupied
=============================================================================
