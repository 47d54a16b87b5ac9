--------------------------- MODULE McpSessionProofs ---------------------------
(***************************************************************************)
(* What the policy of the MCP server guarantees, for every policy, every    *)
(* number of concurrent calls, and every batch of commands.                 *)
(*                                                                          *)
(* The argument has two parts.  The classification is never below what     *)
(* Redis does with a command, and what a surface permits is never above    *)
(* what the policy grants (BatchGranted).  And a call that sends has been   *)
(* judged by what it sends (SafeCall), though an alias may be changed by    *)
(* others while a call to run it waits for its connection.                  *)
(*                                                                          *)
(* Then the lock: whoever holds it or waits for it, and no one else, is in *)
(* it and in line (LockInv); and the types, which rest on both.            *)
(***************************************************************************)
EXTENDS McpSession, TLAPS

DedicatedTool == {"redis_get", "redis_set", "redis_del"}
CommandTool == {"redis_command", "redis_bulk_load", "redis_alias_run"}

\* A call r under policy p.
SafeCall(p, r) ==
    /\ r \in [pc : Phase, tool : Tool \cup {None}, batch : Seq(Command), sent : Nat]
    /\ r.sent <= Len(r.batch)
    /\ r.pc # "idle" => r.tool \in Tool
    /\ r.pc # "send" => r.sent = 0
    /\ r.pc \notin {"idle", "judge"} => Routed(p, r.tool)
    /\ r.pc # "idle" /\ r.tool \in DedicatedTool => r.batch = Carries(r.tool, <<>>)
    /\ r.tool = "redis_command" /\ r.pc \notin {"idle", "judge"} => Preflight(p, r.tool, r.batch) = "allowed"
    /\ r.pc = "send" =>
          \/ r.tool \in DedicatedTool
          \/ r.tool \in CommandTool /\ Preflight(p, r.tool, r.batch) = "allowed"

IInv ==
    /\ policy.rules \in Policy /\ policy.level \in Level
    /\ calls = [c \in Call |-> calls[c]]
    /\ alias \in Seq(Command) \cup {None}
    /\ \A c \in Call : SafeCall(policy.rules, calls[c])

-----------------------------------------------------------------------------
(* The policy.                                                             *)

LEMMA ToolFacts ==
    /\ DedicatedTool \subseteq Tool /\ CommandTool \subseteq Surface /\ Surface \subseteq Tool
    /\ \A t \in Tool : t \notin System => Toolset(t) \in Kind
    /\ \A t \in System : Toolset(t) = None
    /\ \A t \in Tool : Advertised(t) \in Safety /\ Floor(t) \in Safety
    /\ \A t \in CommandTool : t \notin System /\ Advertised(t) = Destructive
    /\ \A t \in DedicatedTool : t \notin System /\ t \notin Surface
    /\ Floor("redis_alias_set") = Advertised("redis_alias_set")
  BY DEF Tool, Surface, System, Toolset, Kind, DedicatedTool, CommandTool, Advertised, Floor, Safety, ReadOnly,
         Write, Destructive

LEMMA EffectiveTierType ==
    ASSUME NEW p \in Policy, NEW t \in Tool
    PROVE  EffectiveTier(p, t) \in Safety
<1>1. CASE Mapped(p, t) /\ p.toolset[Toolset(t)].tier # None
  <2>1. Toolset(t) \in Kind
    BY <1>1, ToolFacts DEF Mapped
  <2>2. p.toolset[Toolset(t)] \in ToolsetPolicy
    BY <2>1 DEF Policy
  <2>3. QED
    BY <1>1, <2>2 DEF EffectiveTier, ToolsetPolicy
<1>2. CASE ~(Mapped(p, t) /\ p.toolset[Toolset(t)].tier # None)
  BY <1>2 DEF EffectiveTier, Policy
<1>3. QED
  BY <1>1, <1>2

\* What is listed as read or write is no more than that, and what disturbs a connection is refused.
LEMMA ClassifyFacts ==
    ASSUME NEW c \in Command, Classify(c) # None
    PROVE  Classify(c) \in Safety /\ Risk(c) \in Safety /\ Risk(c) <= Classify(c) /\ ~Disturbs(c)
<1>1. c \notin {"nothing", "select", "script debug", "config set"}
  BY DEF Classify, BlockedCommand, UnsafeVariant
<1>2. ~Disturbs(c)
  BY <1>1 DEF Disturbs
<1>a. Classify(c) = IF c \in {"config get", "xread", "xread block", "slowlog get", "get"} THEN 0
                    ELSE IF c \in GroupRead \cup {"set"} THEN 1 ELSE 2
  BY DEF Classify, ReadOnly, Write, Destructive
<1>3. CASE c \in {"config get", "xread", "xread block", "slowlog get", "get"}
  <2>1. Classify(c) = 0 /\ Risk(c) = 0
    BY <1>a, <1>3 DEF Risk, ReadOnly
  <2>2. QED
    BY <2>1, <1>2 DEF Safety
<1>4. CASE c \in GroupRead \cup {"set"}
  <2>1. Classify(c) = 1 /\ Risk(c) = 1
    BY <1>a, <1>4 DEF Risk, GroupRead, Write
  <2>2. QED
    BY <2>1, <1>2 DEF Safety
<1>5. CASE c \in {"del", "my.module", "slowlog reset"}
  <2>1. Classify(c) = 2 /\ Risk(c) = 2
    BY <1>a, <1>5 DEF Risk, GroupRead, Destructive
  <2>2. QED
    BY <2>1, <1>2 DEF Safety
<1>6. QED
  BY <1>1, <1>3, <1>4, <1>5 DEF Command, GroupRead

\* The safety of a batch bounds that of each of its commands.
LEMMA BatchFacts ==
    ASSUME NEW batch \in Seq(Command), BatchSafety(batch) # None
    PROVE  /\ BatchSafety(batch) \in Safety
           /\ \A c \in Commands(batch) :
                 c \in Command /\ Classify(c) # None /\ Classify(c) <= BatchSafety(batch)
<1> DEFINE safeties == {Classify(c) : c \in Commands(batch)}
<1>1. \A c \in Commands(batch) : c \in Command
  BY DEF Commands
<1>2. None \notin safeties
  BY DEF BatchSafety
<1>3. safeties \subseteq Safety
  BY <1>1, <1>2, ClassifyFacts
<1>4. CASE safeties = {}
  <2>1. BatchSafety(batch) = ReadOnly
    BY <1>4 DEF BatchSafety
  <2>2. QED
    BY <1>4, <2>1 DEF Safety, ReadOnly
<1>5. CASE safeties # {}
  <2>1. BatchSafety(batch) = CHOOSE s \in safeties : \A r \in safeties : r <= s
    BY <1>2, <1>5 DEF BatchSafety
  <2> HIDE DEF safeties
  <2>2. \E s \in safeties : \A r \in safeties : r <= s
    <3>0. \A r \in safeties : r = 0 \/ r = 1 \/ r = 2
      BY <1>3 DEF Safety
    <3>1. CASE 2 \in safeties
      BY <3>0, <3>1
    <3>2. CASE 2 \notin safeties /\ 1 \in safeties
      BY <3>0, <3>2
    <3>3. CASE 2 \notin safeties /\ 1 \notin safeties
      <4>1. safeties = {0}
        BY <3>0, <3>3, <1>5
      <4>2. QED
        BY <4>1
    <3>4. QED
      BY <3>1, <3>2, <3>3
  <2>3. BatchSafety(batch) \in safeties /\ \A r \in safeties : r <= BatchSafety(batch)
    BY <2>1, <2>2
  <2> USE DEF safeties
  <2>4. QED
    BY <1>1, <1>2, <1>3, <2>3
<1>6. QED
  BY <1>4, <1>5

\* The part of Granted that no list and no tier can override.
LEMMA DenyWins ==
    ASSUME NEW p \in Policy, NEW t \in Tool, NEW safety, Routed(p, t), ~Denied(p, t, safety)
    PROVE  /\ t \in p.exclude => t \in System
           /\ t \notin p.deny
           /\ Toolset(t) # None =>
                 p.toolset[Toolset(t)].enabled /\ t \notin p.toolset[Toolset(t)].deny
           /\ p.denyDestructive => safety # Destructive
  BY ToolFacts DEF Routed, Visible, Denied, Mapped

\* An allowed batch is granted, command by command.
LEMMA BatchGranted ==
    ASSUME NEW p \in Policy, NEW t \in CommandTool, NEW batch \in Seq(Command),
           Routed(p, t), Preflight(p, t, batch) = "allowed",
           NEW c \in Commands(batch)
    PROVE  Granted(p, t, Risk(c)) /\ ~Disturbs(c)
<1> DEFINE required == BatchSafety(batch)
<1>1. /\ ToolAllowed(p, t, Advertised(t)) /\ required # None
      /\ required <= Floor(t) \/ DynamicAllowed(p, t, required)
  BY DEF Preflight
<1>2. required \in Safety /\ Risk(c) \in Safety /\ Risk(c) <= required /\ ~Disturbs(c)
  <2>1. required \in Safety /\ c \in Command /\ Classify(c) # None /\ Classify(c) <= required
    BY <1>1, BatchFacts
  <2>2. Classify(c) \in Safety /\ Risk(c) \in Safety /\ Risk(c) <= Classify(c) /\ ~Disturbs(c)
    BY <2>1, ClassifyFacts
  <2> HIDE DEF required
  <2>3. QED
    BY <2>1, <2>2 DEF Safety
<1>3. /\ t \in Tool /\ t \in Surface /\ Advertised(t) = Destructive
      /\ Floor(t) \in 0..1 /\ EffectiveTier(p, t) \in Safety
  BY ToolFacts, EffectiveTierType DEF Floor, ReadOnly, Write
<1> HIDE DEF required
<1>4. ~Denied(p, t, Advertised(t))
  BY <1>1 DEF ToolAllowed
<1>5. p.denyDestructive => Risk(c) # Destructive
  <2>1. CASE required <= Floor(t)
    BY <2>1, <1>2, <1>3 DEF Safety, Destructive
  <2>2. CASE DynamicAllowed(p, t, required)
    <3>1. p.denyDestructive => required # Destructive
      BY <2>2 DEF DynamicAllowed, Denied
    <3>2. QED
      BY <3>1, <1>2 DEF Safety, Destructive
  <2>3. QED
    BY <1>1, <2>1, <2>2
<1>6. Risk(c) <= EffectiveTier(p, t) \/ (Listed(p, t) /\ Risk(c) <= Floor(t))
  <2>1. CASE required <= Floor(t)
    <3>1. Listed(p, t) \/ Destructive <= EffectiveTier(p, t)
      BY <1>1, <1>3 DEF ToolAllowed
    <3>2. Risk(c) <= Floor(t) /\ Risk(c) <= Destructive
      BY <2>1, <1>2, <1>3 DEF Safety, Destructive
    <3>3. QED
      BY <3>1, <3>2, <1>2, <1>3 DEF Safety, Destructive
  <2>2. CASE DynamicAllowed(p, t, required)
    BY <2>2, <1>2, <1>3 DEF DynamicAllowed, Safety
  <2>3. QED
    BY <1>1, <2>1, <2>2
<1>7. QED
  BY <1>2, <1>3, <1>4, <1>5, <1>6, DenyWins DEF Granted

\* The command of a dedicated tool is what the tool is annotated as.
LEMMA DedicatedGranted ==
    ASSUME NEW p \in Policy, NEW t \in DedicatedTool, Routed(p, t),
           NEW c \in Commands(Carries(t, <<>>))
    PROVE  Risk(c) = Advertised(t) /\ Granted(p, t, Risk(c)) /\ ~Disturbs(c)
<1>1. Risk(c) = Advertised(t) /\ ~Disturbs(c)
  <2>1. CASE t = "redis_get"
    <3>1. c = "get"
      BY <2>1 DEF Commands, Carries
    <3>2. QED
      BY <2>1, <3>1 DEF Risk, Advertised, GroupRead, Disturbs
  <2>2. CASE t = "redis_set"
    <3>1. c = "set"
      BY <2>2 DEF Commands, Carries
    <3>2. QED
      BY <2>2, <3>1 DEF Risk, Advertised, GroupRead, Disturbs, System
  <2>3. CASE t = "redis_del"
    <3>1. c = "del"
      BY <2>3 DEF Commands, Carries
    <3>2. QED
      BY <2>3, <3>1 DEF Risk, Advertised, GroupRead, Disturbs, System
  <2>4. QED
    BY <2>1, <2>2, <2>3 DEF DedicatedTool
<1>2. t \in Tool /\ t \notin Surface
  BY ToolFacts
<1>3. ~Denied(p, t, Advertised(t)) /\ (Listed(p, t) \/ Advertised(t) <= EffectiveTier(p, t))
  BY DEF Routed, ToolAllowed
<1>4. Advertised(t) <= Advertised(t)
  BY <1>2, ToolFacts DEF Safety
<1>5. QED
  BY <1>1, <1>2, <1>3, <1>4, DenyWins DEF Granted

-----------------------------------------------------------------------------
(* The calls.                                                              *)

LEMMA IdleSafe == ASSUME NEW p PROVE SafeCall(p, Idle)
<1>1. <<>> \in Seq(Command) /\ Len(<<>>) = 0
  OBVIOUS
<1>2. QED
  BY <1>1 DEF SafeCall, Idle, Phase

LEMMA InitInv == Init => IInv
<1> SUFFICES ASSUME Init PROVE IInv
  OBVIOUS
<1>1. policy.rules \in Policy /\ policy.level \in Level
  BY McpAssumption DEF Init
<1>2. calls = [c \in Call |-> Idle] /\ alias = None
  BY DEF Init
<1>3. QED
  BY <1>1, <1>2, IdleSafe DEF IInv

\* A step of one call preserves the invariant if it leaves a safe call.
LEMMA StepInv ==
    ASSUME IInv, NEW c \in Call, NEW r, SafeCall(policy.rules, r),
           calls' = [calls EXCEPT ![c] = r], UNCHANGED policy, alias' \in Seq(Command) \cup {None}
    PROVE  IInv'
<1>1. calls' = [d \in Call |-> calls'[d]] /\ \A d \in Call : calls'[d] = IF d = c THEN r ELSE calls[d]
  BY DEF IInv
<1>2. \A d \in Call : SafeCall(policy.rules, calls'[d])
  BY <1>1 DEF IInv
<1>3. policy'.rules = policy.rules
  OBVIOUS
<1>4. \A d \in Call : SafeCall(policy'.rules, calls'[d])
  BY <1>2, <1>3
<1>5. QED
  BY <1>1, <1>4 DEF IInv

LEMMA IdleInv ==
    ASSUME IInv, NEW c \in Call, calls' = [calls EXCEPT ![c] = Idle], UNCHANGED policy,
           alias' \in Seq(Command) \cup {None}
    PROVE  IInv'
  BY IdleSafe, StepInv

\* A call that was let through may go on to any phase before it sends.
LEMMA GotoInv ==
    ASSUME IInv, NEW c \in Call, NEW pc \in {"cache", "ping", "connect", "insert", "body", "request"},
           calls[c].pc \notin {"idle", "judge", "send"},
           Goto(c, pc), UNCHANGED <<policy, alias>>
    PROVE  IInv'
<1> DEFINE r == [calls[c] EXCEPT !.pc = pc]
<1>1. SafeCall(policy.rules, calls[c])
  BY DEF IInv
<1>2. /\ r.pc = pc /\ r.tool = calls[c].tool /\ r.batch = calls[c].batch /\ r.sent = calls[c].sent
      /\ r \in [pc : Phase, tool : Tool \cup {None}, batch : Seq(Command), sent : Nat]
  BY <1>1 DEF SafeCall, Phase
<1>3. calls' = [calls EXCEPT ![c] = r]
  BY DEF Goto, IInv
<1> HIDE DEF r
<1>4. SafeCall(policy.rules, r)
  BY <1>1, <1>2 DEF SafeCall
<1>5. alias' \in Seq(Command) \cup {None}
  BY DEF IInv
<1>6. QED
  BY <1>3, <1>4, <1>5, StepInv

\* A call that leaves the line, waits elsewhere, or returns: every step of a handler but those that
\* judge, those that send, and AliasSet.
LEMMA WaitInv ==
    ASSUME IInv, NEW c \in Call,
           LookUp(c) \/ Ping(c) \/ Connect(c) \/ LookUpApi(c) \/ Insert(c) \/ Request(c) \/ AliasDelete(c)
    PROVE  IInv'
<1>1. alias \in Seq(Command) \cup {None}
  BY DEF IInv
<1>2. ASSUME NEW event, Finish(c, event), UNCHANGED policy, alias' \in Seq(Command) \cup {None}
      PROVE  IInv'
  BY <1>2, IdleInv DEF Finish
<1>3. CASE LookUp(c)
  BY <1>3, GotoInv DEF LookUp, At
<1>4. CASE Ping(c)
  BY <1>4, GotoInv DEF Ping, At
<1>5. CASE Connect(c)
  BY <1>1, <1>2, <1>5, GotoInv DEF Connect, At
<1>6. CASE LookUpApi(c)
  BY <1>1, <1>2, <1>6, GotoInv DEF LookUpApi, At
<1>7. CASE Insert(c)
  BY <1>7, GotoInv DEF Insert, At
<1>8. CASE Request(c)
  BY <1>1, <1>2, <1>8 DEF Request
<1>9. CASE AliasDelete(c)
  BY <1>2, <1>9 DEF AliasDelete
<1>10. QED
  BY <1>3, <1>4, <1>5, <1>6, <1>7, <1>8, <1>9

LEMMA ArriveInv == ASSUME IInv, NEW c \in Call, Arrive(c) PROVE IInv'
<1>1. PICK t \in Offered, b \in Batches :
         /\ t = "redis_command" => Len(b) = 1
         /\ calls' = [calls EXCEPT ![c] = [pc |-> "judge", tool |-> t, batch |-> Carries(t, b), sent |-> 0]]
  BY DEF Arrive
<1> DEFINE r == [pc |-> "judge", tool |-> t, batch |-> Carries(t, b), sent |-> 0]
<1>2. t \in Tool /\ b \in Seq(Command)
  BY McpAssumption
<1>3. Carries(t, b) \in Seq(Command) /\ (t \in DedicatedTool => Carries(t, b) = Carries(t, <<>>))
  <2>1. "get" \in Command /\ "set" \in Command /\ "del" \in Command
    BY DEF Command
  <2>2. QED
    BY <1>2, <2>1 DEF Carries, DedicatedTool
<1>4. SafeCall(policy.rules, r)
  <2>1. Len(Carries(t, b)) \in Nat
    BY <1>3
  <2>2. QED
    BY <1>2, <1>3, <2>1 DEF SafeCall, Phase
<1>5. UNCHANGED policy /\ alias' \in Seq(Command) \cup {None}
  BY DEF Arrive, IInv
<1> HIDE DEF r
<1>6. QED
  BY <1>1, <1>4, <1>5, StepInv DEF r

LEMMA JudgeInv == ASSUME IInv, NEW c \in Call, Judge(c) PROVE IInv'
<1> DEFINE t == calls[c].tool
           verdict ==
               IF ~Routed(policy.rules, t) \/ ~ToolAllowed(policy.rules, t, Advertised(t)) THEN "denied"
               ELSE IF t = "redis_command" THEN Preflight(policy.rules, t, calls[c].batch) ELSE "allowed"
<1>1. UNCHANGED policy /\ alias' \in Seq(Command) \cup {None}
  BY DEF Judge, IInv
<1>2. ASSUME NEW event, Finish(c, event)
      PROVE  IInv'
  BY <1>1, <1>2, IdleInv DEF Finish
<1>3. ASSUME verdict = "allowed", Goto(c, "cache")
      PROVE  IInv'
  <2> DEFINE r == [calls[c] EXCEPT !.pc = "cache"]
  <2>1. SafeCall(policy.rules, calls[c]) /\ calls[c].pc = "judge"
    BY DEF IInv, Judge, At
  <2>2. Routed(policy.rules, t) /\ (t = "redis_command" => Preflight(policy.rules, t, calls[c].batch) = "allowed")
    BY <1>3
  <2>3. /\ r.pc = "cache" /\ r.tool = t /\ r.batch = calls[c].batch /\ r.sent = calls[c].sent
        /\ r \in [pc : Phase, tool : Tool \cup {None}, batch : Seq(Command), sent : Nat]
    BY <2>1 DEF SafeCall, Phase
  <2>4. calls' = [calls EXCEPT ![c] = r]
    BY <1>3 DEF Goto
  <2> HIDE DEF r
  <2>5. SafeCall(policy.rules, r)
    BY <2>1, <2>2, <2>3 DEF SafeCall
  <2>6. QED
    BY <1>1, <2>4, <2>5, StepInv
<1>4. \/ verdict = "allowed" /\ Goto(c, "cache")
      \/ \E event \in {"invocation", "error", verdict} : Finish(c, event)
  BY DEF Judge, rules
<1>5. QED
  BY <1>2, <1>3, <1>4

\* The bodies send what was judged: redis_command before it waited, the others now.
LEMMA SendInv ==
    ASSUME IInv, NEW c \in Call, Dedicated(c) \/ BulkLoad(c) \/ AliasSet(c) \/ AliasRun(c)
    PROVE  IInv'
<1>1. SafeCall(policy.rules, calls[c]) /\ alias \in Seq(Command) \cup {None}
  BY DEF IInv
<1>2. UNCHANGED policy /\ calls[c].pc = "body"
  BY DEF Dedicated, BulkLoad, AliasSet, AliasRun, At
<1>3. ASSUME NEW event, Finish(c, event), alias' \in Seq(Command) \cup {None}
      PROVE  IInv'
  BY <1>2, <1>3, IdleInv DEF Finish
<1>4. ASSUME NEW batch \in Seq(Command), UNCHANGED alias,
             calls' = [calls EXCEPT ![c] = [calls[c] EXCEPT !.pc = "send", !.batch = batch]],
             \/ calls[c].tool \in DedicatedTool /\ batch = calls[c].batch
             \/ calls[c].tool \in CommandTool /\ Preflight(policy.rules, calls[c].tool, batch) = "allowed"
      PROVE  IInv'
  <2> DEFINE r == [calls[c] EXCEPT !.pc = "send", !.batch = batch]
  <2>1. /\ r.pc = "send" /\ r.tool = calls[c].tool /\ r.batch = batch /\ r.sent = 0
        /\ r \in [pc : Phase, tool : Tool \cup {None}, batch : Seq(Command), sent : Nat]
    BY <1>1, <1>2 DEF SafeCall, Phase
  <2> HIDE DEF r
  <2>2. Len(batch) \in Nat
    OBVIOUS
  <2>3. calls[c].tool \in CommandTool => calls[c].tool \notin DedicatedTool
    BY DEF CommandTool, DedicatedTool
  <2>4. SafeCall(policy.rules, r)
    BY <1>1, <1>2, <1>4, <2>1, <2>2, <2>3 DEF SafeCall
  <2>5. QED
    BY <1>1, <1>2, <1>4, <2>4, StepInv DEF r
<1>5. /\ calls[c].batch \in Seq(Command)
      /\ [calls[c] EXCEPT !.pc = "send"] = [calls[c] EXCEPT !.pc = "send", !.batch = calls[c].batch]
  BY <1>1 DEF SafeCall
<1>6. CASE Dedicated(c)
  <2>1. \/ calls[c].tool \in DedicatedTool
        \/ calls[c].tool \in CommandTool /\ Preflight(policy.rules, calls[c].tool, calls[c].batch) = "allowed"
    BY <1>1, <1>2, <1>6 DEF Dedicated, SafeCall, DedicatedTool, CommandTool
  <2>2. calls' = [calls EXCEPT ![c] = [calls[c] EXCEPT !.pc = "send"]]
    BY <1>6 DEF Dedicated, Goto
  <2>3. QED
    BY <1>4, <1>5, <1>6, <2>1, <2>2 DEF Dedicated
<1>7. CASE BulkLoad(c)
  <2>1. CASE \E event : Finish(c, event)
    BY <1>1, <1>3, <1>7, <2>1 DEF BulkLoad
  <2>2. CASE Preflight(policy.rules, "redis_bulk_load", calls[c].batch) = "allowed" /\ Goto(c, "send")
    <3>1. calls' = [calls EXCEPT ![c] = [calls[c] EXCEPT !.pc = "send"]]
      BY <2>2 DEF Goto
    <3>2. QED
      BY <1>4, <1>5, <1>7, <2>2, <3>1 DEF BulkLoad, CommandTool
  <2>3. QED
    BY <1>7, <2>1, <2>2 DEF BulkLoad, rules
<1>8. CASE AliasSet(c)
  <2>1. (\E event : Finish(c, event)) /\ alias' \in Seq(Command) \cup {None}
    BY <1>1, <1>5, <1>8 DEF AliasSet
  <2>2. QED
    BY <1>3, <2>1
<1>9. CASE AliasRun(c)
  <2>1. CASE \E event : Finish(c, event)
    BY <1>1, <1>3, <1>9, <2>1 DEF AliasRun
  <2>2. CASE /\ alias # None /\ Preflight(policy.rules, "redis_alias_run", alias) = "allowed"
             /\ calls' = [calls EXCEPT ![c].pc = "send", ![c].batch = alias]
    <3>1. calls' = [calls EXCEPT ![c] = [calls[c] EXCEPT !.pc = "send", !.batch = alias]]
      BY <2>2 DEF IInv
    <3>2. QED
      BY <1>1, <1>4, <1>9, <2>2, <3>1 DEF AliasRun, CommandTool
  <2>3. QED
    BY <1>9, <2>1, <2>2 DEF AliasRun, rules
<1>10. QED
  BY <1>6, <1>7, <1>8, <1>9

LEMMA DeliverInv == ASSUME IInv, NEW c \in Call, Deliver(c) \/ Reply(c) PROVE IInv'
<1>1. SafeCall(policy.rules, calls[c]) /\ alias \in Seq(Command) \cup {None}
  BY DEF IInv
<1>2. UNCHANGED <<policy, alias>>
  BY DEF Deliver, Reply
<1>3. CASE Deliver(c)
  <2> DEFINE r == [calls[c] EXCEPT !.sent = @ + 1]
  <2>1. calls' = [calls EXCEPT ![c] = r] /\ calls[c].pc = "send" /\ calls[c].sent < Len(calls[c].batch)
    BY <1>3 DEF Deliver, At
  <2>2. /\ r.pc = "send" /\ r.tool = calls[c].tool /\ r.batch = calls[c].batch /\ r.sent = calls[c].sent + 1
        /\ r \in [pc : Phase, tool : Tool \cup {None}, batch : Seq(Command), sent : Nat]
    BY <1>1, <2>1 DEF SafeCall
  <2>3. Len(calls[c].batch) \in Nat /\ calls[c].sent \in Nat
    BY <1>1 DEF SafeCall
  <2> HIDE DEF r
  <2>4. SafeCall(policy.rules, r)
    BY <1>1, <2>1, <2>2, <2>3 DEF SafeCall
  <2>5. QED
    BY <1>1, <1>2, <2>1, <2>4, StepInv
<1>4. CASE Reply(c)
  BY <1>1, <1>2, <1>4, IdleInv DEF Reply, Finish
<1>5. QED
  BY <1>3, <1>4

LEMMA ExpireInv == ASSUME IInv, NEW c \in Call, Expire(c) PROVE IInv'
<1>1. UNCHANGED policy /\ alias' \in Seq(Command) \cup {None} /\ calls' = [calls EXCEPT ![c] = Idle]
  BY DEF Expire, Finish, IInv
<1>2. QED
  BY <1>1, IdleInv

LEMMA NextInv == IInv /\ [Next]_vars => IInv'
<1> SUFFICES ASSUME IInv, [Next]_vars PROVE IInv'
  OBVIOUS
<1>1. ASSUME UNCHANGED <<policy, calls, alias>> PROVE IInv'
  BY <1>1 DEF IInv
<1>2. CASE Break \/ DataArrives
  BY <1>1, <1>2 DEF Break, DataArrives
<1>3. ASSUME NEW c \in Call, Handle(c) PROVE IInv'
  BY <1>3, JudgeInv, WaitInv, SendInv, DeliverInv DEF Handle
<1>4. CASE UNCHANGED vars
  BY <1>1, <1>4 DEF vars
<1>5. QED
  BY <1>2, <1>3, <1>4, ArriveInv, ExpireInv DEF Next

LEMMA Invariance == Spec => []IInv
  BY InitInv, NextInv, PTL DEF Spec

-----------------------------------------------------------------------------
(* The theorems.                                                           *)

\* A call that has sent a command carries only what the policy grants it.
LEMMA SafeCarries ==
    ASSUME NEW p \in Policy, NEW r, SafeCall(p, r), r.pc = "send", NEW cmd \in Commands(r.batch)
    PROVE  Granted(p, r.tool, Risk(cmd)) /\ ~Disturbs(cmd)
<1>1. /\ r.batch \in Seq(Command) /\ Routed(p, r.tool)
      /\ r.tool \in DedicatedTool => r.batch = Carries(r.tool, <<>>)
      /\ \/ r.tool \in DedicatedTool
         \/ r.tool \in CommandTool /\ Preflight(p, r.tool, r.batch) = "allowed"
  BY DEF SafeCall
<1>2. CASE r.tool \in DedicatedTool
  BY <1>1, <1>2, DedicatedGranted
<1>3. CASE r.tool \in CommandTool /\ Preflight(p, r.tool, r.batch) = "allowed"
  BY <1>1, <1>3, BatchGranted
<1>4. QED
  BY <1>1, <1>2, <1>3

\* Whatever the policy, and whatever calls do to the alias meanwhile, no command reaches Redis that
\* the policy does not grant to the tool of the call, and none after one that is not granted.
THEOREM CeilingIsKept == Spec => []CeilingKept
<1>1. IInv => CeilingKept
  <2> SUFFICES ASSUME IInv, NEW c \in Call, calls[c].sent > 0, NEW cmd \in Commands(calls[c].batch)
               PROVE  Granted(policy.rules, calls[c].tool, Risk(cmd)) /\ ~Disturbs(cmd)
    BY DEF CeilingKept, rules
  <2>1. SafeCall(policy.rules, calls[c]) /\ policy.rules \in Policy
    BY DEF IInv
  <2>2. calls[c].pc = "send"
    BY <2>1 DEF SafeCall
  <2>3. QED
    BY <2>1, <2>2, SafeCarries
<1>2. QED
  BY Invariance, <1>1, PTL

\* What the audit layer takes for the safety of a call is not below what the call has done.
LEMMA AuditCovers ==
    ASSUME NEW p \in Policy, NEW r, SafeCall(p, r), NEW i \in 1..r.sent
    PROVE  /\ Risk(r.batch[i]) \in Safety /\ AuditSafety(r.tool, r.batch) \in Safety
           /\ Risk(r.batch[i]) <= AuditSafety(r.tool, r.batch)
<1> DEFINE c == r.batch[i]
<1>1. /\ r.pc = "send" /\ r.batch \in Seq(Command) /\ i \in DOMAIN r.batch /\ Routed(p, r.tool)
      /\ r.tool \in DedicatedTool => r.batch = Carries(r.tool, <<>>)
      /\ \/ r.tool \in DedicatedTool
         \/ r.tool \in CommandTool /\ Preflight(p, r.tool, r.batch) = "allowed"
  BY DEF SafeCall
<1>2. c \in Commands(r.batch) /\ c \in Command
  BY <1>1 DEF Commands
<1> HIDE DEF c
<1>3. CASE r.tool \in DedicatedTool
  <2>1. Risk(c) = Advertised(r.tool)
    BY <1>1, <1>2, <1>3, DedicatedGranted
  <2>2. AuditSafety(r.tool, r.batch) = Advertised(r.tool)
    BY <1>3 DEF AuditSafety, DedicatedTool
  <2>3. Advertised(r.tool) \in Safety
    BY <1>3, ToolFacts
  <2>4. QED
    BY <2>1, <2>2, <2>3 DEF Safety, c
<1>4. CASE r.tool \in CommandTool /\ Preflight(p, r.tool, r.batch) = "allowed"
  <2>1. BatchSafety(r.batch) # None
    BY <1>4 DEF Preflight
  <2>2. BatchSafety(r.batch) \in Safety /\ Classify(c) # None /\ Classify(c) <= BatchSafety(r.batch)
    BY <1>1, <1>2, <2>1, BatchFacts
  <2>3. Classify(c) \in Safety /\ Risk(c) \in Safety /\ Risk(c) <= Classify(c)
    BY <1>2, <2>2, ClassifyFacts
  <2>4. AuditSafety(r.tool, r.batch) = BatchSafety(r.batch) \/ AuditSafety(r.tool, r.batch) = Destructive
    BY <1>4, <2>1 DEF AuditSafety, CommandTool
  <2>5. QED
    BY <2>2, <2>3, <2>4 DEF Safety, Destructive, c
<1>5. QED
  BY <1>1, <1>3, <1>4

\* A call returns through the audit layer, and as a denial if the router denied it.
LEMMA ReturnFacts ==
    ASSUME IInv, NEW c \in Call, Returns(c), Handle(c)
    PROVE  /\ \E event \in {"invocation", "error", "denied"} : Finish(c, event)
           /\ At(c, "judge") /\ ~Routed(rules, calls[c].tool) => Finish(c, "denied")
<1>1. /\ calls[c] \in [pc : Phase, tool : Tool \cup {None}, batch : Seq(Command), sent : Nat]
      /\ calls[c].pc # "idle" /\ calls'[c].pc = "idle"
  BY DEF IInv, SafeCall, Returns
<1>2. \A pc : Goto(c, pc) => pc = "idle"
  <2> SUFFICES ASSUME NEW pc, Goto(c, pc) PROVE calls'[c].pc = pc
    BY <1>1
  <2>1. calls = [d \in Call |-> calls[d]]
    BY DEF IInv
  <2>2. calls'[c] = [calls[c] EXCEPT !.pc = pc]
    BY <2>1 DEF Goto
  <2>3. QED
    BY <1>1, <2>2
<1>3. ~At(c, "judge") => ~Judge(c)
  BY DEF Judge
<1>4. \A p, t, b : Preflight(p, t, b) \in {"denied", "error", "allowed"}
  BY DEF Preflight
<1>5. CASE Judge(c)
  <2> DEFINE t == calls[c].tool
             verdict ==
                 IF ~Routed(rules, t) \/ ~ToolAllowed(rules, t, Advertised(t)) THEN "denied"
                 ELSE IF t = "redis_command" THEN Preflight(rules, t, calls[c].batch) ELSE "allowed"
  <2>1. verdict \in {"denied", "error", "allowed"} /\ (~Routed(rules, t) => verdict = "denied")
    BY <1>4
  <2>2. \/ verdict = "allowed" /\ \E event \in {"invocation", "error"} : Finish(c, event)
        \/ verdict # "allowed" /\ Finish(c, verdict)
    BY <1>2, <1>5 DEF Judge
  <2> HIDE DEF verdict
  <2>3. QED
    BY <2>1, <2>2
<1>6. CASE ~At(c, "judge")
  <2>1. ~LookUp(c) /\ ~Ping(c) /\ ~Insert(c) /\ ~Dedicated(c)
    BY <1>2 DEF LookUp, Ping, Insert, Dedicated
  <2>2. ASSUME Connect(c) \/ LookUpApi(c) \/ Request(c) \/ AliasDelete(c) \/ Reply(c)
        PROVE  \E event \in {"invocation", "error", "denied"} : Finish(c, event)
    BY <1>2, <2>2 DEF Connect, LookUpApi, Request, AliasDelete, Reply
  <2>3. ASSUME BulkLoad(c) PROVE \E event \in {"invocation", "error", "denied"} : Finish(c, event)
    BY <1>2, <1>4, <2>3 DEF BulkLoad
  <2>4. ASSUME AliasSet(c) PROVE \E event \in {"invocation", "error", "denied"} : Finish(c, event)
    BY <1>4, <2>4 DEF AliasSet
  <2>5. calls = [d \in Call |-> calls[d]]
    BY DEF IInv
  <2>6. ASSUME AliasRun(c) PROVE \E event \in {"invocation", "error", "denied"} : Finish(c, event)
    <3>1. calls' # [calls EXCEPT ![c].pc = "send", ![c].batch = alias]
      <4> SUFFICES ASSUME calls' = [calls EXCEPT ![c].pc = "send", ![c].batch = alias] PROVE FALSE
        OBVIOUS
      <4>1. calls'[c] = [calls[c] EXCEPT !.pc = "send", !.batch = alias]
        BY <2>5
      <4>2. [calls[c] EXCEPT !.pc = "send", !.batch = alias].pc = "send"
        BY <1>1
      <4>3. QED
        BY <1>1, <4>1, <4>2
    <3>2. QED
      BY <1>4, <2>6, <3>1 DEF AliasRun
  <2>7. ~Deliver(c)
    <3> SUFFICES ASSUME Deliver(c) PROVE FALSE
      OBVIOUS
    <3>1. calls'[c] = [calls[c] EXCEPT !.sent = calls[c].sent + 1]
      BY <2>5 DEF Deliver
    <3>2. QED
      BY <1>1, <3>1
  <2>8. QED
    BY <1>3, <1>6, <2>1, <2>2, <2>3, <2>4, <2>6, <2>7 DEF Handle
<1>7. QED
  <2>1. At(c, "judge") => Judge(c)
    BY DEF Handle, At, LookUp, Ping, Connect, LookUpApi, Insert, Request, Dedicated, BulkLoad, AliasSet, AliasRun,
           AliasDelete, Deliver, Reply
  <2>2. QED
    BY <1>5, <1>6, <2>1

\* Whatever the level, no call returns unrecorded after it did to Redis what the level promises to
\* record, and a denial of the router is always recorded.
THEOREM AuditIsComplete == Spec => AuditComplete
<1>1. ASSUME IInv, [Next]_vars, NEW c \in Call, Returns(c), Handle(c)
      PROVE  LET did == {Risk(calls[c].batch[i]) : i \in 1..calls[c].sent} IN
             /\ At(c, "judge") /\ ~Routed(rules, calls[c].tool) => audit' = "denied"
             /\ \/ audit' # "none"
                \/ policy.level = "writes" /\ did \subseteq {ReadOnly}
                \/ policy.level = "destructive" /\ Destructive \notin did
                \/ policy.level = "denied"
  <2> DEFINE did == {Risk(calls[c].batch[i]) : i \in 1..calls[c].sent}
             safety == AuditSafety(calls[c].tool, calls[c].batch)
  <2>1. SafeCall(policy.rules, calls[c]) /\ policy.rules \in Policy /\ policy.level \in Level
    BY <1>1 DEF IInv
  <2>2. \A risk \in did : risk \in Safety /\ safety \in Safety /\ risk <= safety
    BY <2>1, AuditCovers
  <2>3. At(c, "judge") /\ ~Routed(rules, calls[c].tool) => audit' = "denied"
    BY <1>1, ReturnFacts DEF Finish, ShouldLog
  <2>4. PICK event \in {"invocation", "error", "denied"} : Finish(c, event)
    BY <1>1, ReturnFacts
  <2> HIDE DEF did
  <2>5. audit' # "none" \/ ~ShouldLog(event, safety)
    BY <2>4 DEF Finish
  <2> HIDE DEF safety
  <2>6. ASSUME ~ShouldLog(event, safety)
        PROVE  \/ policy.level = "writes" /\ did \subseteq {ReadOnly}
               \/ policy.level = "destructive" /\ Destructive \notin did
               \/ policy.level = "denied"
    <3>1. CASE policy.level = "writes"
      <4>1. safety = ReadOnly
        BY <2>6, <3>1 DEF ShouldLog
      <4>2. QED
        BY <2>2, <3>1, <4>1 DEF Safety, ReadOnly
    <3>2. CASE policy.level = "destructive"
      <4>1. safety # Destructive
        BY <2>6, <3>2 DEF ShouldLog
      <4>2. QED
        BY <2>2, <3>2, <4>1 DEF Safety, Destructive
    <3>3. QED
      BY <2>1, <2>6, <3>1, <3>2 DEF Level, ShouldLog
  <2>7. QED
    BY <2>3, <2>5, <2>6 DEF did
<1>2. IInv /\ [Next]_vars =>
        [\A c \in Call : Returns(c) /\ Handle(c) =>
           LET did == {Risk(calls[c].batch[i]) : i \in 1..calls[c].sent} IN
           /\ At(c, "judge") /\ ~Routed(rules, calls[c].tool) => audit' = "denied"
           /\ \/ audit' # "none"
              \/ policy.level = "writes" /\ did \subseteq {ReadOnly}
              \/ policy.level = "destructive" /\ Destructive \notin did
              \/ policy.level = "denied"]_vars
  BY <1>1
<1>3. QED
  BY Invariance, <1>2, PTL DEF Spec, AuditComplete

-----------------------------------------------------------------------------
(* The lock of the cache.                                                  *)

Waiting(cs) == {d \in Call : cs[d].pc \in {"cache", "insert"}}
Pinging(cs) == {d \in Call : cs[d].pc = "ping"}

\* A line of the calls of W, each once.
LinesUp(line, W) ==
    /\ line \in Seq(Call)
    /\ \A i \in DOMAIN line : line[i] \in W
    /\ \A d \in W : \E i \in DOMAIN line : line[i] = d
    /\ \A i, j \in DOMAIN line : line[i] = line[j] => i = j

LockInv ==
    /\ lock \in [readers : SUBSET Call, queue : Seq(Call)]
    /\ lock.readers = Pinging(calls)
    /\ LinesUp(lock.queue, Waiting(calls))

LEMMA JoinsLine ==
    ASSUME NEW line, NEW W, LinesUp(line, W), NEW c \in Call, c \notin W
    PROVE  LinesUp(Append(line, c), W \cup {c})
<1> DEFINE longer == Append(line, c)
<1>1. /\ longer \in Seq(Call) /\ DOMAIN longer = 1..(Len(line) + 1)
      /\ DOMAIN line = 1..Len(line) /\ Len(line) \in Nat
      /\ \A i \in DOMAIN line : longer[i] = line[i]
      /\ longer[Len(line) + 1] = c
  BY DEF LinesUp
<1> HIDE DEF longer
<1>2. \A i \in DOMAIN longer : i \in DOMAIN line \/ i = Len(line) + 1
  BY <1>1
<1>3. DOMAIN line \subseteq DOMAIN longer /\ Len(line) + 1 \in DOMAIN longer
  BY <1>1
<1>4. \A i \in DOMAIN line : longer[i] \in W /\ longer[i] # c
  BY <1>1 DEF LinesUp
<1>5. LinesUp(longer, W \cup {c})
  BY <1>1, <1>2, <1>3, <1>4 DEF LinesUp
<1>6. QED
  BY <1>5 DEF longer

LEMMA LeavesLine ==
    ASSUME NEW line, NEW W, LinesUp(line, W), NEW i \in DOMAIN line
    PROVE  LinesUp(SubSeq(line, 1, i - 1) \o SubSeq(line, i + 1, Len(line)), W \ {line[i]})
<1> DEFINE shorter == SubSeq(line, 1, i - 1) \o SubSeq(line, i + 1, Len(line))
<1>1. line \in Seq(Call) /\ DOMAIN line = 1..Len(line) /\ Len(line) \in Nat /\ i \in 1..Len(line)
  BY DEF LinesUp
<1>2. /\ SubSeq(line, 1, i - 1) \in Seq(Call) /\ Len(SubSeq(line, 1, i - 1)) = i - 1
      /\ \A k \in 1..(i - 1) : SubSeq(line, 1, i - 1)[k] = line[k]
  BY <1>1
<1>3. /\ SubSeq(line, i + 1, Len(line)) \in Seq(Call) /\ Len(SubSeq(line, i + 1, Len(line))) = Len(line) - i
      /\ \A k \in 1..(Len(line) - i) : SubSeq(line, i + 1, Len(line))[k] = line[k + i]
  BY <1>1
<1>4. /\ shorter \in Seq(Call) /\ DOMAIN shorter = 1..(Len(line) - 1)
      /\ \A k \in DOMAIN shorter : shorter[k] = line[IF k < i THEN k ELSE k + 1]
  <2> DEFINE before == SubSeq(line, 1, i - 1)
             after == SubSeq(line, i + 1, Len(line))
  <2> HIDE DEF before, after
  <2>1. before \in Seq(Call) /\ after \in Seq(Call) /\ Len(before) = i - 1 /\ Len(after) = Len(line) - i
    BY <1>2, <1>3 DEF before, after
  <2>2. before \o after \in Seq(Call) /\ Len(before \o after) = Len(line) - 1
    <3>1. before \o after \in Seq(Call) /\ Len(before \o after) = Len(before) + Len(after)
      BY <2>1
    <3>2. (i - 1) + (Len(line) - i) = Len(line) - 1
      BY <1>1
    <3>3. QED
      BY <2>1, <3>1, <3>2
  <2>3. \A k \in 1..(Len(line) - 1) : (before \o after)[k] = IF k < i THEN before[k] ELSE after[k - (i - 1)]
    BY <1>1, <2>1
  <2>4. \A k \in 1..(Len(line) - 1) : (before \o after)[k] = line[IF k < i THEN k ELSE k + 1]
    <3> SUFFICES ASSUME NEW k \in 1..(Len(line) - 1)
                 PROVE  (before \o after)[k] = line[IF k < i THEN k ELSE k + 1]
      OBVIOUS
    <3>1. CASE k < i
      <4>1. k \in 1..(i - 1)
        BY <1>1, <3>1
      <4>2. QED
        BY <1>2, <2>3, <3>1, <4>1 DEF before
    <3>2. CASE ~(k < i)
      <4>1. k - (i - 1) \in 1..(Len(line) - i) /\ (k - (i - 1)) + i = k + 1
        BY <1>1, <3>2
      <4>2. QED
        BY <1>3, <2>3, <3>2, <4>1 DEF after
    <3>3. QED
      BY <3>1, <3>2
  <2>5. DOMAIN (before \o after) = 1..(Len(line) - 1)
    BY <2>2
  <2>6. QED
    BY <2>2, <2>4, <2>5 DEF before, after
<1> HIDE DEF shorter
<1>5. \A k \in DOMAIN shorter : shorter[k] \in W \ {line[i]}
  <2> SUFFICES ASSUME NEW k \in DOMAIN shorter PROVE shorter[k] \in W \ {line[i]}
    OBVIOUS
  <2> DEFINE from == IF k < i THEN k ELSE k + 1
  <2>1. from \in DOMAIN line /\ from # i /\ shorter[k] = line[from]
    BY <1>1, <1>4
  <2> HIDE DEF from
  <2>2. QED
    BY <2>1 DEF LinesUp
<1>6. \A d \in W \ {line[i]} : \E k \in DOMAIN shorter : shorter[k] = d
  <2> SUFFICES ASSUME NEW d \in W \ {line[i]} PROVE \E k \in DOMAIN shorter : shorter[k] = d
    OBVIOUS
  <2>1. PICK j \in DOMAIN line : line[j] = d
    BY DEF LinesUp
  <2>2. j # i
    BY <2>1
  <2>3. CASE j < i
    <3>1. j \in DOMAIN shorter /\ shorter[j] = line[j]
      BY <1>1, <1>4, <2>3
    <3>2. QED
      BY <2>1, <3>1
  <2>4. CASE j > i
    <3>1. j - 1 \in DOMAIN shorter /\ shorter[j - 1] = line[j]
      BY <1>1, <1>4, <2>4
    <3>2. QED
      BY <2>1, <3>1
  <2>5. QED
    BY <1>1, <2>2, <2>3, <2>4
<1>7. ASSUME NEW j \in DOMAIN shorter, NEW k \in DOMAIN shorter, shorter[j] = shorter[k] PROVE j = k
  <2> DEFINE at(n) == IF n < i THEN n ELSE n + 1
  <2>1. at(j) \in DOMAIN line /\ at(k) \in DOMAIN line /\ line[at(j)] = line[at(k)]
    BY <1>1, <1>4, <1>7
  <2>2. at(j) = at(k)
    BY <2>1 DEF LinesUp
  <2>3. QED
    BY <2>2, <1>1, <1>4
<1>8. LinesUp(shorter, W \ {line[i]})
  BY <1>4, <1>5, <1>6, <1>7 DEF LinesUp
<1>9. QED
  BY <1>8 DEF shorter

LEMMA FirstLeaves ==
    ASSUME NEW line, NEW W, LinesUp(line, W), line # <<>>
    PROVE  Head(line) \in W /\ LinesUp(Tail(line), W \ {Head(line)})
<1>1. line \in Seq(Call) /\ 1 \in DOMAIN line /\ Len(line) \in Nat /\ Head(line) = line[1]
  BY DEF LinesUp
<1>2. /\ Tail(line) \in Seq(Call) /\ DOMAIN Tail(line) = 1..(Len(line) - 1) /\ DOMAIN line = 1..Len(line)
      /\ \A k \in DOMAIN Tail(line) : Tail(line)[k] = line[k + 1]
  BY <1>1
<1> DEFINE rest == Tail(line)
<1> HIDE DEF rest
<1>3. \A k \in DOMAIN rest : rest[k] \in W \ {line[1]}
  <2> SUFFICES ASSUME NEW k \in DOMAIN rest PROVE rest[k] \in W \ {line[1]}
    OBVIOUS
  <2>1. k + 1 \in DOMAIN line /\ k + 1 # 1 /\ rest[k] = line[k + 1]
    BY <1>1, <1>2 DEF rest
  <2>2. QED
    BY <1>1, <2>1 DEF LinesUp
<1>4. \A d \in W \ {line[1]} : \E k \in DOMAIN rest : rest[k] = d
  <2> SUFFICES ASSUME NEW d \in W \ {line[1]} PROVE \E k \in DOMAIN rest : rest[k] = d
    OBVIOUS
  <2>1. PICK j \in DOMAIN line : line[j] = d
    BY DEF LinesUp
  <2>2. j - 1 \in DOMAIN rest /\ rest[j - 1] = line[j]
    BY <1>1, <1>2, <2>1 DEF rest
  <2>3. QED
    BY <2>1, <2>2
<1>5. ASSUME NEW j \in DOMAIN rest, NEW k \in DOMAIN rest, rest[j] = rest[k] PROVE j = k
  <2>1. j + 1 \in DOMAIN line /\ k + 1 \in DOMAIN line /\ line[j + 1] = line[k + 1]
    BY <1>1, <1>2, <1>5 DEF rest
  <2>2. j + 1 = k + 1
    BY <2>1 DEF LinesUp
  <2>3. QED
    BY <2>2, <1>2 DEF rest
<1>6. LinesUp(rest, W \ {line[1]}) /\ line[1] \in W
  BY <1>1, <1>2, <1>3, <1>4, <1>5 DEF LinesUp, rest
<1>7. QED
  BY <1>1, <1>6 DEF rest

\* The part of a step that the lock depends on: call c goes on to phase pc.
Moves(c, pc) == calls'[c].pc = pc /\ \A d \in Call \ {c} : calls'[d] = calls[d]

LEMMA GotoMoves == ASSUME IInv, NEW c \in Call, NEW pc, Goto(c, pc) PROVE Moves(c, pc)
<1>1. calls = [d \in Call |-> calls[d]]
  BY DEF IInv
<1>2. calls'[c] = [calls[c] EXCEPT !.pc = pc] /\ \A d \in Call \ {c} : calls'[d] = calls[d]
  BY <1>1 DEF Goto
<1>3. calls[c] \in [pc : Phase, tool : Tool \cup {None}, batch : Seq(Command), sent : Nat]
  BY DEF IInv, SafeCall
<1>4. QED
  BY <1>2, <1>3 DEF Moves

LEMMA FinishMoves == ASSUME IInv, NEW c \in Call, calls' = [calls EXCEPT ![c] = Idle] PROVE Moves(c, "idle")
<1>1. calls = [d \in Call |-> calls[d]]
  BY DEF IInv
<1>2. calls'[c] = Idle /\ \A d \in Call \ {c} : calls'[d] = calls[d]
  BY <1>1
<1>3. QED
  BY <1>2 DEF Moves, Idle

LEMMA MovedSets ==
    ASSUME NEW c \in Call, NEW pc, Moves(c, pc)
    PROVE  /\ Waiting(calls') =
                 IF pc \in {"cache", "insert"} THEN Waiting(calls) \cup {c} ELSE Waiting(calls) \ {c}
           /\ Pinging(calls') = IF pc = "ping" THEN Pinging(calls) \cup {c} ELSE Pinging(calls) \ {c}
           /\ c \in Waiting(calls) <=> calls[c].pc \in {"cache", "insert"}
           /\ c \in Pinging(calls) <=> calls[c].pc = "ping"
  BY DEF Moves, Waiting, Pinging

\* A call that neither waits for the lock nor holds it, before and after.
LEMMA LockStays ==
    ASSUME LockInv, NEW c \in Call, NEW pc, Moves(c, pc), UNCHANGED lock,
           calls[c].pc \notin {"cache", "insert", "ping"}, pc \notin {"cache", "insert", "ping"}
    PROVE  LockInv'
<1>1. Waiting(calls') = Waiting(calls) /\ Pinging(calls') = Pinging(calls)
  BY MovedSets
<1>2. QED
  BY <1>1 DEF LockInv

LEMMA LockIs ==
    ASSUME NEW readers, NEW queue, lock' = [readers |-> readers, queue |-> queue],
           readers = Pinging(calls'), LinesUp(queue, Waiting(calls'))
    PROVE  LockInv'
<1>1. lock'.queue = queue /\ lock'.readers = readers
  OBVIOUS
<1>2. readers \subseteq Call /\ queue \in Seq(Call)
  BY DEF Pinging, LinesUp
<1>3. lock' \in [readers : SUBSET Call, queue : Seq(Call)]
  BY <1>2
<1>4. lock'.readers = Pinging(calls') /\ LinesUp(lock'.queue, Waiting(calls'))
  BY <1>1
<1>5. QED
  BY <1>3, <1>4 DEF LockInv

LEMMA LockJoined ==
    ASSUME LockInv, NEW c \in Call, NEW pc \in {"cache", "insert"}, Moves(c, pc),
           calls[c].pc \notin {"cache", "insert", "ping"},
           lock' = [lock EXCEPT !.queue = Append(@, c)]
    PROVE  LockInv'
<1>1. Waiting(calls') = Waiting(calls) \cup {c} /\ Pinging(calls') = Pinging(calls) /\ c \notin Waiting(calls)
  BY MovedSets
<1>2. lock' = [readers |-> Pinging(calls), queue |-> Append(lock.queue, c)]
  BY DEF LockInv
<1>3. LinesUp(Append(lock.queue, c), Waiting(calls) \cup {c})
  BY <1>1, JoinsLine DEF LockInv
<1>4. QED
  BY <1>1, <1>2, <1>3, LockIs

\* The first in line takes its turn: it lets go at once, or reads while it pings, or lines up again.
LEMMA LockTaken ==
    ASSUME LockInv, NEW c \in Call, NEW pc, Moves(c, pc), First(c), calls[c].pc \in {"cache", "insert"},
           \/ pc \notin {"cache", "insert", "ping"} /\ lock' = [lock EXCEPT !.queue = Tail(@)]
           \/ pc = "ping" /\ lock' = [lock EXCEPT !.queue = Tail(@), !.readers = @ \cup {c}]
           \/ pc = "insert" /\ lock' = [lock EXCEPT !.queue = Append(Tail(@), c)]
    PROVE  LockInv'
<1> DEFINE rest == Tail(lock.queue)
<1>1. LinesUp(rest, Waiting(calls) \ {c})
  BY FirstLeaves DEF LockInv, First
<1>2. /\ lock \in [readers : SUBSET Call, queue : Seq(Call)]
      /\ lock.readers = Pinging(calls) /\ c \notin Pinging(calls)
  BY DEF LockInv, Pinging
<1> HIDE DEF rest
<1>3. CASE pc \notin {"cache", "insert", "ping"} /\ lock' = [lock EXCEPT !.queue = Tail(@)]
  <2>1. lock' = [readers |-> Pinging(calls), queue |-> rest]
    BY <1>2, <1>3 DEF rest
  <2>2. Waiting(calls') = Waiting(calls) \ {c} /\ Pinging(calls') = Pinging(calls)
    BY <1>2, <1>3, MovedSets
  <2>3. QED
    BY <1>1, <2>1, <2>2, LockIs
<1>4. CASE pc = "ping" /\ lock' = [lock EXCEPT !.queue = Tail(@), !.readers = @ \cup {c}]
  <2>1. lock' = [readers |-> Pinging(calls) \cup {c}, queue |-> rest]
    <3>1. [lock EXCEPT !.queue = rest] = [readers |-> Pinging(calls), queue |-> rest]
      BY <1>2
    <3>2. lock' = [[lock EXCEPT !.queue = rest] EXCEPT !.readers = Pinging(calls) \cup {c}]
      BY <1>2, <1>4 DEF rest
    <3>3. QED
      BY <3>1, <3>2
  <2>2. Waiting(calls') = Waiting(calls) \ {c} /\ Pinging(calls') = Pinging(calls) \cup {c}
    BY <1>2, <1>4, MovedSets
  <2>3. QED
    BY <1>1, <2>1, <2>2, LockIs
<1>5. CASE pc = "insert" /\ lock' = [lock EXCEPT !.queue = Append(Tail(@), c)]
  <2> DEFINE longer == Append(rest, c)
  <2>0. lock' = [lock EXCEPT !.queue = longer]
    BY <1>5 DEF rest
  <2> HIDE DEF longer
  <2>1. lock' = [readers |-> Pinging(calls), queue |-> longer]
    BY <1>2, <2>0
  <2>2. Waiting(calls') = (Waiting(calls) \ {c}) \cup {c} /\ Pinging(calls') = Pinging(calls)
    <3>1. Waiting(calls') = Waiting(calls) \cup {c} /\ Pinging(calls') = Pinging(calls) \ {c}
      BY <1>5, MovedSets
    <3>2. QED
      BY <1>2, <3>1
  <2>3. LinesUp(longer, (Waiting(calls) \ {c}) \cup {c})
    BY <1>1, JoinsLine DEF longer
  <2>4. QED
    BY <2>1, <2>2, <2>3, LockIs
<1>6. QED
  BY <1>3, <1>4, <1>5

\* A call that leaves from wherever it is, with its guard or its place in line.
LEMMA LockLeft ==
    ASSUME LockInv, NEW c \in Call, NEW pc, Moves(c, pc), pc \notin {"cache", "insert", "ping"},
           Leave(c, lock.queue)
    PROVE  LockInv'
<1>1. Waiting(calls') = Waiting(calls) \ {c} /\ Pinging(calls') = Pinging(calls) \ {c}
  BY MovedSets
<1>2. lock.readers = Pinging(calls) /\ lock \in [readers : SUBSET Call, queue : Seq(Call)]
  BY DEF LockInv
<1>3. CASE \E i \in DOMAIN lock.queue :
              /\ lock.queue[i] = c
              /\ lock' = [readers |-> lock.readers \ {c},
                          queue |-> SubSeq(lock.queue, 1, i - 1) \o SubSeq(lock.queue, i + 1, Len(lock.queue))]
  <2>1. PICK i \in DOMAIN lock.queue :
              /\ lock.queue[i] = c
              /\ lock' = [readers |-> lock.readers \ {c},
                          queue |-> SubSeq(lock.queue, 1, i - 1) \o SubSeq(lock.queue, i + 1, Len(lock.queue))]
    BY <1>3
  <2> DEFINE shorter == SubSeq(lock.queue, 1, i - 1) \o SubSeq(lock.queue, i + 1, Len(lock.queue))
  <2>2. LinesUp(shorter, Waiting(calls) \ {c})
    BY <2>1, LeavesLine DEF LockInv
  <2>3. lock' = [readers |-> Pinging(calls) \ {c}, queue |-> shorter]
    BY <1>2, <2>1
  <2> HIDE DEF shorter
  <2>4. QED
    BY <1>1, <2>2, <2>3, LockIs
<1>4. CASE (\A i \in DOMAIN lock.queue : lock.queue[i] # c) /\ lock' = [lock EXCEPT !.readers = @ \ {c}]
  <2>1. c \notin Waiting(calls)
    BY <1>4 DEF LockInv, LinesUp
  <2>2. lock' = [readers |-> Pinging(calls) \ {c}, queue |-> lock.queue]
    BY <1>2, <1>4
  <2>3. Waiting(calls') = Waiting(calls)
    BY <1>1, <2>1
  <2>4. QED
    BY <1>1, <2>2, <2>3, LockIs DEF LockInv
<1>5. QED
  BY <1>3, <1>4 DEF Leave

LEMMA LockAnswered ==
    ASSUME LockInv, NEW c \in Call, NEW pc, Moves(c, pc), calls[c].pc = "ping",
           pc \notin {"cache", "insert", "ping"}, lock' = [lock EXCEPT !.readers = @ \ {c}]
    PROVE  LockInv'
<1>1. Waiting(calls') = Waiting(calls) /\ Pinging(calls') = Pinging(calls) \ {c}
  BY MovedSets
<1>2. lock' = [readers |-> Pinging(calls) \ {c}, queue |-> lock.queue]
  BY DEF LockInv
<1>3. QED
  BY <1>1, <1>2, LockIs DEF LockInv

LEMMA LockInit == Init => LockInv
<1> SUFFICES ASSUME Init PROVE LockInv
  OBVIOUS
<1>1. lock = [readers |-> {}, queue |-> <<>>] /\ \A c \in Call : calls[c].pc = "idle"
  BY DEF Init, Idle
<1>2. Waiting(calls) = {} /\ Pinging(calls) = {}
  BY <1>1 DEF Waiting, Pinging
<1>3. LinesUp(<<>>, {}) /\ lock.queue = <<>> /\ lock.readers = {}
  BY <1>1 DEF LinesUp
<1>4. lock \in [readers : SUBSET Call, queue : Seq(Call)]
  BY <1>1
<1>5. QED
  BY <1>2, <1>3, <1>4 DEF LockInv

LEMMA LockHandle == ASSUME IInv, LockInv, NEW c \in Call, Handle(c) PROVE LockInv'
<1>1. ASSUME NEW event, Finish(c, event) PROVE Moves(c, "idle")
  BY <1>1, FinishMoves DEF Finish
<1>2. ASSUME calls[c].pc \notin {"cache", "insert", "ping"}, UNCHANGED lock,
             NEW pc \in {"idle", "connect", "body", "send", "request"}, Moves(c, pc)
      PROVE  LockInv'
  BY <1>2, LockStays
<1>3. CASE Judge(c)
  <2>1. calls[c].pc = "judge"
    BY <1>3 DEF Judge, At
  <2>2. \/ Goto(c, "cache") /\ lock' = [lock EXCEPT !.queue = Append(@, c)]
        \/ (\E event : Finish(c, event)) /\ UNCHANGED lock
    BY <1>3 DEF Judge
  <2>3. QED
    BY <1>1, <1>2, <2>1, <2>2, GotoMoves, LockJoined
<1>4. CASE LookUp(c)
  <2>1. calls[c].pc = "cache" /\ First(c)
    BY <1>4 DEF LookUp, At
  <2>2. \/ Goto(c, "connect") /\ lock' = [lock EXCEPT !.queue = Tail(@)]
        \/ Goto(c, "ping") /\ lock' = [lock EXCEPT !.queue = Tail(@), !.readers = @ \cup {c}]
    BY <1>4 DEF LookUp, Released
  <2>3. CASE Goto(c, "connect") /\ lock' = [lock EXCEPT !.queue = Tail(@)]
    <3>1. Moves(c, "connect")
      BY <2>3, GotoMoves
    <3>2. QED
      BY <2>1, <2>3, <3>1, LockTaken
  <2>4. CASE Goto(c, "ping") /\ lock' = [lock EXCEPT !.queue = Tail(@), !.readers = @ \cup {c}]
    <3>1. Moves(c, "ping")
      BY <2>4, GotoMoves
    <3>2. QED
      BY <2>1, <2>4, <3>1, LockTaken
  <2>5. QED
    BY <2>2, <2>3, <2>4
<1>5. CASE Ping(c)
  <2>1. calls[c].pc = "ping" /\ lock' = [lock EXCEPT !.readers = @ \ {c}]
    BY <1>5 DEF Ping, At
  <2>2. PICK pc \in {"body", "connect"} : Moves(c, pc)
    BY <1>5, GotoMoves DEF Ping
  <2>3. QED
    BY <2>1, <2>2, LockAnswered
<1>6. CASE Connect(c)
  <2>1. calls[c].pc = "connect"
    BY <1>6 DEF Connect, At
  <2>2. \/ Goto(c, "insert") /\ lock' = [lock EXCEPT !.queue = Append(@, c)]
        \/ Finish(c, "error") /\ UNCHANGED lock
    BY <1>6 DEF Connect
  <2>3. QED
    BY <1>1, <1>2, <2>1, <2>2, GotoMoves, LockJoined
<1>7. CASE LookUpApi(c)
  <2>1. calls[c].pc = "cache" /\ First(c)
    BY <1>7 DEF LookUpApi, At
  <2>2. \/ (Goto(c, "request") \/ Finish(c, "error")) /\ lock' = [lock EXCEPT !.queue = Tail(@)]
        \/ Goto(c, "insert") /\ lock' = [lock EXCEPT !.queue = Append(Tail(@), c)]
    BY <1>7 DEF LookUpApi, Released
  <2>3. CASE (Goto(c, "request") \/ Finish(c, "error")) /\ lock' = [lock EXCEPT !.queue = Tail(@)]
    <3>1. PICK pc \in {"request", "idle"} : Moves(c, pc)
      BY <1>1, <2>3, GotoMoves
    <3>2. QED
      BY <2>1, <2>3, <3>1, LockTaken
  <2>4. CASE Goto(c, "insert") /\ lock' = [lock EXCEPT !.queue = Append(Tail(@), c)]
    <3>1. Moves(c, "insert")
      BY <2>4, GotoMoves
    <3>2. QED
      BY <2>1, <2>4, <3>1, LockTaken
  <2>5. QED
    BY <2>2, <2>3, <2>4
<1>8. CASE Insert(c)
  <2>1. calls[c].pc = "insert" /\ First(c) /\ lock' = [lock EXCEPT !.queue = Tail(@)]
    BY <1>8 DEF Insert, At
  <2>2. PICK pc \in {"request", "body"} : Moves(c, pc)
    BY <1>8, GotoMoves DEF Insert
  <2>3. QED
    BY <2>1, <2>2, LockTaken
<1>9. CASE Request(c) \/ AliasDelete(c) \/ Reply(c)
  <2>1. calls[c].pc \in {"request", "body", "send"} /\ UNCHANGED lock /\ Moves(c, "idle")
    BY <1>1, <1>9 DEF Request, AliasDelete, Reply, At
  <2>2. QED
    BY <1>2, <2>1
<1>10. CASE Dedicated(c) \/ BulkLoad(c) \/ AliasSet(c)
  <2>1. calls[c].pc = "body" /\ UNCHANGED lock /\ (Goto(c, "send") \/ \E event : Finish(c, event))
    BY <1>10 DEF Dedicated, BulkLoad, AliasSet, At
  <2>2. Moves(c, "send") \/ Moves(c, "idle")
    BY <1>1, <2>1, GotoMoves
  <2>3. QED
    BY <1>2, <2>1, <2>2
<1>11. CASE AliasRun(c) \/ Deliver(c)
  <2>1. calls[c].pc \in {"body", "send"} /\ UNCHANGED lock
    BY <1>11 DEF AliasRun, Deliver, At
  <2>2. /\ calls = [d \in Call |-> calls[d]]
        /\ calls[c] \in [pc : Phase, tool : Tool \cup {None}, batch : Seq(Command), sent : Nat]
    BY DEF IInv, SafeCall
  <2>3. ASSUME calls' = [calls EXCEPT ![c].pc = "send", ![c].batch = alias] PROVE Moves(c, "send")
    <3>1. /\ calls'[c] = [calls[c] EXCEPT !.pc = "send", !.batch = alias]
          /\ \A d \in Call \ {c} : calls'[d] = calls[d]
      BY <2>2, <2>3
    <3>2. QED
      BY <2>2, <3>1 DEF Moves
  <2>4. ASSUME Deliver(c) PROVE Moves(c, "send")
    <3>1. /\ calls'[c] = [calls[c] EXCEPT !.sent = @ + 1] /\ calls[c].pc = "send"
          /\ \A d \in Call \ {c} : calls'[d] = calls[d]
      BY <2>2, <2>4 DEF Deliver, At
    <3>2. QED
      BY <2>2, <3>1 DEF Moves
  <2>5. Moves(c, "send") \/ Moves(c, "idle")
    BY <1>1, <1>11, <2>3, <2>4 DEF AliasRun
  <2>6. QED
    BY <1>2, <2>1, <2>5
<1>12. QED
  BY <1>3, <1>4, <1>5, <1>6, <1>7, <1>8, <1>9, <1>10, <1>11 DEF Handle

LEMMA LockNext == IInv /\ LockInv /\ [Next]_vars => LockInv'
<1> SUFFICES ASSUME IInv, LockInv, [Next]_vars PROVE LockInv'
  OBVIOUS
<1>1. CASE Break \/ DataArrives \/ UNCHANGED vars
  <2>1. UNCHANGED <<calls, lock>>
    BY <1>1 DEF Break, DataArrives, vars
  <2>2. QED
    BY <2>1 DEF LockInv
<1>2. ASSUME NEW c \in Call, Arrive(c) PROVE LockInv'
  <2>1. calls[c].pc = "idle" /\ UNCHANGED lock
    BY <1>2 DEF Arrive, At
  <2>2. Moves(c, "judge")
    <3>1. PICK t, batch :
             calls' = [calls EXCEPT ![c] = [pc |-> "judge", tool |-> t, batch |-> batch, sent |-> 0]]
      BY <1>2 DEF Arrive
    <3>2. calls = [d \in Call |-> calls[d]]
      BY DEF IInv
    <3>3. /\ calls'[c] = [pc |-> "judge", tool |-> t, batch |-> batch, sent |-> 0]
          /\ \A d \in Call \ {c} : calls'[d] = calls[d]
      BY <3>1, <3>2
    <3>4. QED
      BY <3>3 DEF Moves
  <2>3. QED
    BY <2>1, <2>2, LockStays
<1>3. ASSUME NEW c \in Call, Expire(c) PROVE LockInv'
  <2>1. Moves(c, "idle") /\ Leave(c, lock.queue)
    BY <1>3, FinishMoves DEF Expire, Finish
  <2>2. QED
    BY <2>1, LockLeft
<1>4. QED
  BY <1>1, <1>2, <1>3, LockHandle DEF Next

LEMMA LockInvariance == Spec => []LockInv
  BY LockInit, LockNext, Invariance, PTL DEF Spec

\* Whatever the calls do and wherever they are dropped, the guard and the line of the lock are
\* those of the calls that hold it and wait for it: no call is behind one that is gone.
THEOREM LockDiscipline == Spec => []LockKept
<1>1. LockInv => LockKept
  <2> SUFFICES ASSUME LockInv PROVE LockKept
    OBVIOUS
  <2>1. lock.readers = {c \in Call : At(c, "ping")}
    BY DEF LockInv, Pinging, At
  <2>2. \A c \in Call : c \in Waiting(calls) <=> calls[c].pc \in {"cache", "insert"}
    BY DEF Waiting
  <2>3. \A i \in DOMAIN lock.queue : lock.queue[i] \in Waiting(calls) /\ lock.queue[i] \in Call
    BY DEF LockInv, LinesUp, Waiting
  <2>4. QED
    BY <2>1, <2>2, <2>3 DEF LockKept, LockInv, LinesUp
<1>2. QED
  BY LockInvariance, <1>1, PTL

-----------------------------------------------------------------------------
(* The types.                                                              *)

\* What an alias may be set to is one of the batches that are passed.
SetsPassed(cs) ==
    \A c \in Call : cs[c].pc # "idle" /\ cs[c].tool = "redis_alias_set" => cs[c].batch \in Batches

TypeInv ==
    /\ policy.rules \in Policies /\ policy.level \in Levels
    /\ clients \in [connection : {"none", "live", "broken"}, occupied : BOOLEAN, api : BOOLEAN]
    /\ alias \in Batches \cup {None}
    /\ audit \in Event
    /\ SetsPassed(calls)

LEMMA TypeInit == Init => TypeInv
<1> SUFFICES ASSUME Init PROVE TypeInv
  OBVIOUS
<1>1. \A c \in Call : calls[c].pc = "idle"
  BY DEF Init, Idle
<1>2. policy.rules \in Policies /\ policy.level \in Levels
  BY DEF Init
<1>3. QED
  BY <1>1, <1>2 DEF TypeInv, SetsPassed, Init, Event

\* A call keeps its tool and its batch while it is handled, or takes those of the alias.
LEMMA HandleKeeps ==
    ASSUME IInv, NEW c \in Call, Handle(c)
    PROVE  /\ \A d \in Call \ {c} : calls'[d] = calls[d]
           /\ \/ calls'[c].pc = "idle"
              \/ /\ calls'[c].tool = calls[c].tool
                 /\ calls'[c].batch = calls[c].batch \/ calls[c].tool = "redis_alias_run"
           /\ calls[c].pc # "idle"
<1>1. /\ calls = [d \in Call |-> calls[d]]
      /\ calls[c] \in [pc : Phase, tool : Tool \cup {None}, batch : Seq(Command), sent : Nat]
  BY DEF IInv, SafeCall
<1> DEFINE Kept ==
        /\ \A d \in Call \ {c} : calls'[d] = calls[d]
        /\ \/ calls'[c].pc = "idle"
           \/ /\ calls'[c].tool = calls[c].tool
              /\ calls'[c].batch = calls[c].batch \/ calls[c].tool = "redis_alias_run"
<1>2. ASSUME NEW event, Finish(c, event) PROVE Kept
  <2>1. calls' = [calls EXCEPT ![c] = Idle]
    BY <1>2 DEF Finish
  <2>2. Moves(c, "idle")
    BY <2>1, FinishMoves
  <2>3. QED
    BY <2>2 DEF Moves
<1>3. ASSUME NEW pc, Goto(c, pc) PROVE Kept
  <2>1. calls'[c] = [calls[c] EXCEPT !.pc = pc] /\ \A d \in Call \ {c} : calls'[d] = calls[d]
    BY <1>1, <1>3 DEF Goto
  <2>2. QED
    BY <1>1, <2>1
<1>4. ASSUME calls' = [calls EXCEPT ![c].pc = "send", ![c].batch = alias], calls[c].tool = "redis_alias_run"
      PROVE  Kept
  <2>1. /\ calls'[c] = [calls[c] EXCEPT !.pc = "send", !.batch = alias]
        /\ \A d \in Call \ {c} : calls'[d] = calls[d]
    BY <1>1, <1>4
  <2>2. QED
    BY <1>1, <1>4, <2>1
<1>5. ASSUME calls' = [calls EXCEPT ![c].sent = @ + 1] PROVE Kept
  <2>1. /\ calls'[c] = [calls[c] EXCEPT !.sent = calls[c].sent + 1]
        /\ \A d \in Call \ {c} : calls'[d] = calls[d]
    BY <1>1, <1>5
  <2>2. QED
    BY <1>1, <2>1
<1> HIDE DEF Kept
<1>6. ASSUME (\E event : Finish(c, event)) \/ (\E pc : Goto(c, pc)) PROVE Kept
  BY <1>2, <1>3, <1>6
<1>7. ASSUME Judge(c) \/ LookUp(c) \/ Ping(c) \/ Connect(c) \/ LookUpApi(c) \/ Insert(c) \/ Request(c)
      PROVE  Kept
  <2>1. (\E event : Finish(c, event)) \/ (\E pc : Goto(c, pc))
    BY <1>7 DEF Judge, LookUp, Ping, Connect, LookUpApi, Insert, Request
  <2>2. QED
    BY <1>6, <2>1
<1>8. ASSUME Dedicated(c) \/ BulkLoad(c) \/ AliasSet(c) \/ AliasDelete(c) \/ Reply(c)
      PROVE  Kept
  <2>1. (\E event : Finish(c, event)) \/ (\E pc : Goto(c, pc))
    BY <1>8 DEF Dedicated, BulkLoad, AliasSet, AliasDelete, Reply
  <2>2. QED
    BY <1>6, <2>1
<1>9. ASSUME AliasRun(c) \/ Deliver(c)
      PROVE  Kept
  <2>1. CASE AliasRun(c)
    <3>1. \/ \E event : Finish(c, event)
          \/ calls' = [calls EXCEPT ![c].pc = "send", ![c].batch = alias] /\ calls[c].tool = "redis_alias_run"
      BY <2>1 DEF AliasRun
    <3>2. QED
      BY <1>4, <1>6, <3>1
  <2>2. CASE Deliver(c)
    <3>1. calls' = [calls EXCEPT ![c].sent = @ + 1]
      BY <2>2 DEF Deliver
    <3>2. QED
      BY <1>5, <3>1
  <2>3. QED
    BY <1>9, <2>1, <2>2
<1>10. calls[c].pc # "idle"
  BY DEF Handle, Judge, LookUp, Ping, Connect, LookUpApi, Insert, Request, Dedicated, BulkLoad, AliasSet,
         AliasRun, AliasDelete, Deliver, Reply, At
<1>11. QED
  BY <1>7, <1>8, <1>9, <1>10 DEF Handle, Kept

\* A call is recorded as an event, or not at all.
LEMMA Recorded ==
    ASSUME NEW c \in Call, Handle(c)
    PROVE  audit' \in Event
<1>1. ASSUME NEW event \in Event, Finish(c, event) PROVE audit' \in Event
  BY <1>1 DEF Finish, Event
<1>2. \A p, t, b : Preflight(p, t, b) \in {"denied", "error", "allowed"}
  BY DEF Preflight
<1>3. ASSUME Unrecorded PROVE audit' \in Event
  BY <1>3 DEF Unrecorded, Event
<1>4. Unrecorded \/ \E event \in {"invocation", "error", "denied"} : Finish(c, event)
  <2>1. CASE Judge(c)
    <3> DEFINE t == calls[c].tool
               verdict ==
                   IF ~Routed(rules, t) \/ ~ToolAllowed(rules, t, Advertised(t)) THEN "denied"
                   ELSE IF t = "redis_command" THEN Preflight(rules, t, calls[c].batch) ELSE "allowed"
    <3>1. verdict \in {"denied", "error", "allowed"}
      BY <1>2
    <3>2. \/ Unrecorded \/ \E event \in {"invocation", "error"} : Finish(c, event)
          \/ verdict # "allowed" /\ Finish(c, verdict)
      BY <2>1 DEF Judge
    <3> HIDE DEF verdict
    <3>3. QED
      BY <3>1, <3>2
  <2>2. CASE LookUp(c) \/ Ping(c) \/ Connect(c) \/ LookUpApi(c) \/ Insert(c) \/ Request(c)
    BY <2>2 DEF LookUp, Ping, Connect, LookUpApi, Insert, Request
  <2>3. CASE Dedicated(c) \/ AliasDelete(c) \/ Deliver(c) \/ Reply(c)
    BY <2>3 DEF Dedicated, AliasDelete, Deliver, Reply
  <2>4. CASE BulkLoad(c) \/ AliasSet(c) \/ AliasRun(c)
    BY <1>2, <2>4 DEF BulkLoad, AliasSet, AliasRun
  <2>5. QED
    BY <2>1, <2>2, <2>3, <2>4 DEF Handle
<1>5. QED
  BY <1>1, <1>3, <1>4 DEF Event

LEMMA TypeHandle == ASSUME IInv, TypeInv, NEW c \in Call, Handle(c) PROVE TypeInv'
<1>1. clients' \in [connection : {"none", "live", "broken"}, occupied : BOOLEAN, api : BOOLEAN]
  <2>1. ASSUME UNCHANGED clients
        PROVE  clients' \in [connection : {"none", "live", "broken"}, occupied : BOOLEAN, api : BOOLEAN]
    BY <2>1 DEF TypeInv
  <2>2. CASE Insert(c)
    BY <2>2 DEF Insert, TypeInv
  <2>3. CASE Deliver(c)
    <3>1. PICK busy \in BOOLEAN : clients' = [clients EXCEPT !.occupied = busy]
      <4>1. \A cmd : Occupies(cmd) \in BOOLEAN
        BY DEF Occupies
      <4>2. QED
        BY <2>3, <4>1 DEF Deliver
    <3>2. QED
      BY <3>1 DEF TypeInv
  <2>4. CASE ~Insert(c) /\ ~Deliver(c)
    <3>1. UNCHANGED clients
      BY <2>4 DEF Handle, Judge, LookUp, Ping, Connect, LookUpApi, Request, Dedicated, BulkLoad, AliasSet,
                  AliasRun, AliasDelete, Reply
    <3>2. QED
      BY <2>1, <3>1
  <2>5. QED
    BY <2>2, <2>3, <2>4
<1>2. alias' \in Batches \cup {None}
  <2>1. \/ UNCHANGED alias \/ alias' = None
        \/ alias' = calls[c].batch /\ calls[c].tool = "redis_alias_set" /\ calls[c].pc = "body"
    BY DEF Handle, Judge, LookUp, Ping, Connect, LookUpApi, Insert, Request, Dedicated, BulkLoad, AliasSet,
           AliasRun, AliasDelete, Deliver, Reply, At
  <2>2. QED
    BY <2>1 DEF TypeInv, SetsPassed
<1>3. UNCHANGED policy
  BY DEF Handle, Judge, LookUp, Ping, Connect, LookUpApi, Insert, Request, Dedicated, BulkLoad, AliasSet,
         AliasRun, AliasDelete, Deliver, Reply
<1>4. SetsPassed(calls')
  BY HandleKeeps DEF TypeInv, SetsPassed
<1>5. audit' \in Event
  BY Recorded
<1>6. QED
  BY <1>1, <1>2, <1>3, <1>4, <1>5 DEF TypeInv

LEMMA TypeNext == IInv /\ TypeInv /\ [Next]_vars => TypeInv'
<1> SUFFICES ASSUME IInv, TypeInv, [Next]_vars PROVE TypeInv'
  OBVIOUS
<1>1. CASE Break \/ DataArrives
  <2>1. /\ \/ clients' = [clients EXCEPT !.connection = "broken", !.occupied = FALSE]
           \/ clients' = [clients EXCEPT !.occupied = FALSE]
        /\ UNCHANGED <<policy, calls, alias>> /\ audit' = "none"
    BY <1>1 DEF Break, DataArrives, Unrecorded
  <2>2. clients' \in [connection : {"none", "live", "broken"}, occupied : BOOLEAN, api : BOOLEAN]
    BY <2>1 DEF TypeInv
  <2>3. QED
    BY <2>1, <2>2 DEF TypeInv, Event
<1>2. ASSUME NEW c \in Call, Arrive(c) PROVE TypeInv'
  <2>1. PICK t \in Offered, b \in Batches :
           calls' = [calls EXCEPT ![c] = [pc |-> "judge", tool |-> t, batch |-> Carries(t, b), sent |-> 0]]
    BY <1>2 DEF Arrive
  <2> DEFINE r == [pc |-> "judge", tool |-> t, batch |-> Carries(t, b), sent |-> 0]
  <2>2. calls'[c] = r /\ \A d \in Call \ {c} : calls'[d] = calls[d]
    BY <2>1 DEF IInv
  <2>3. r.tool = "redis_alias_set" => r.batch \in Batches
    BY DEF Carries
  <2> HIDE DEF r
  <2>4. SetsPassed(calls')
    BY <2>2, <2>3 DEF TypeInv, SetsPassed
  <2>5. UNCHANGED <<policy, clients, alias>> /\ audit' = "none"
    BY <1>2 DEF Arrive, Unrecorded
  <2>6. QED
    BY <2>4, <2>5 DEF TypeInv, Event
<1>3. ASSUME NEW c \in Call, Expire(c) PROVE TypeInv'
  <2>1. Moves(c, "idle") /\ audit' \in Event /\ UNCHANGED <<policy, clients, alias>>
    BY <1>3, FinishMoves DEF Expire, Finish, Unrecorded, Event
  <2>2. SetsPassed(calls')
    BY <2>1 DEF Moves, TypeInv, SetsPassed
  <2>3. QED
    BY <2>1, <2>2 DEF TypeInv
<1>4. CASE UNCHANGED vars
  BY <1>4 DEF vars, TypeInv
<1>5. QED
  BY <1>1, <1>2, <1>3, <1>4, TypeHandle DEF Next

\* The types of the whole state, the alias and the lock among them.
THEOREM TypeCorrect == Spec => []TypeOK
<1>1. Spec => []TypeInv
  BY TypeInit, TypeNext, Invariance, PTL DEF Spec
<1>2. IInv /\ LockInv /\ TypeInv => TypeOK
  BY DEF IInv, SafeCall, LockInv, TypeInv, TypeOK, CallRecord
<1>3. QED
  BY <1>1, <1>2, Invariance, LockInvariance, PTL
=============================================================================
