# A verification development for redisctl

TLA+ modules, TLC configurations and TLAPS proofs for redisctl, the command line tool, core library
and MCP server for Redis Cloud and Redis Enterprise. The paths below start at `src/`, the root of the
repository. The first half of this file surveys the system. The second half says what is modelled,
what the runs check, what is proved, and what is left.

The modules are about the places where redisctl is a protocol and not a renderer of one HTTP answer:
**signing in** (it creates and destroys credentials on a remote account and keeps them in three local
stores), **provisioning by re-running** (it creates things that must not be created twice),
**initialising a project** (it edits files that are the user's), **editing the configuration** (it
keeps references to the environment that it must not resolve for good), **waiting for operations** of
the two APIs, and **serving an agent** (concurrent calls under a policy).

## 1. The system

redisctl is a Rust workspace: `crates/redisctl-core` (configuration, sign-in, polling, workflows),
`crates/redisctl` (the CLI) and `crates/redisctl-mcp` (an MCP server over the same core). The HTTP
clients for most endpoints are crates of other repositories. No part of redisctl is a daemon with
state of its own, except the MCP server: every CLI command is a short process, and commands meet in
files, in the OS keyring and on the servers.

| component | source | state it keeps | operations | what makes it correct |
|---|---|---|---|---|
| Cloud sign-in commands | `redisctl/src/commands/cloud/auth.rs` | none between commands; a snapshot of the config, tokens and the minted key within one | login (browser, device), status --wait, switch, accounts, logout | no command costs the profile its working key; no live key is left unsaid; success means the profile works |
| Session exchange | `redisctl-core/src/auth/authenticator.rs`, `sm_api.rs` | the server-side session and its current account | sign in with MFA, list accounts, mint a key, revoke by name | the key, its access key and the reported account belong together; side effects stay on the account asked for |
| Identity provider client | `redisctl-core/src/auth/oidc.rs`, `device_flow.rs`, `auth_code_loopback.rs` | refresh tokens and device codes at the provider; a one-shot local listener | authorize, poll, refresh, revoke | rotated tokens are not lost; the callback accepted is the one of this attempt |
| Config document | `redisctl-core/src/config/document.rs`, `redisctl/src/connection.rs` | the config file; its text at startup | load, edit, check the source, write, re-read | nothing of another writer is overwritten unnoticed; environment references survive |
| Configuration and profiles | `redisctl-core/src/config/config.rs`, `redisctl/src/commands/profile.rs` | profiles, defaults, the `cloud_auth` record | apply_cloud_login, remove_profile, profile commands | the record describes the credentials next to it |
| Credential store | `redisctl-core/src/config/credential.rs` | keyring entries per profile | store, get, delete, probe | one entry is not mixed with another's |
| Task polling | `redisctl-core/src/progress.rs`, `enterprise/progress.rs`, `redisctl/src/commands/cloud/{async_utils,task}.rs` | none | poll until a task is terminal or a timeout, in eight loops | every wait ends, with what the task came to |
| Free database provisioning | `redisctl-core/src/cloud/quick_database.rs` | none: a re-run goes by what the account lists | find, adopt or create a subscription and a database, deliver its credentials | idempotent; free; resumes |
| Credential delivery | `redisctl-core/src/cloud/env_delivery.rs` | a dotenv file, `.gitignore` | replace or append a variable | other lines survive; what is delivered is what was asked for |
| Cloud and Enterprise workflows | `redisctl-core/src/{cloud,enterprise}/workflows.rs`, `redisctl/src/workflows` | none | create-then-poll, cluster bootstrap | answers are true, nothing is made twice, retries end |
| Project initialiser | `redisctl/src/workflows/init` | project files, a container, a database | inspect, plan, write, validate | secrets stay out of git, what the user configured is kept, a re-run changes nothing |
| MCP policy and audit | `redisctl-mcp/src/policy.rs`, `presets.rs`, `audit.rs`, `tools/redis/command_safety.rs` | a policy loaded once | judge a tool or a raw command | nothing above the policy reaches Redis; what changed data is in the log |
| MCP server, tools, prompts, skills | `redisctl-mcp/src` | a cache of clients, aliases | concurrent calls; one request per tool | every call returns, whatever the others wait for |
| Front end, API commands, support packages, client shims | `redisctl/src/{main,cli,commands,output}`, `redisctl-core/src/clients.rs` | none | parse, one request, print | |

### How the components interact

```
  login / status / switch / accounts / logout            quick-database (CLI and MCP tool)
        |  tokens      |  key by name     |  save               |  HTTP         |  write
        v              v                  v                     v               v
  identity provider  session exchange   config document   Redis Cloud account  dotenv file
  (Okta)             (session API)      + keyring                ^
        ^              |                + pending file           |
        |              v                  ^                     polling
        +---- Redis Cloud API keys        +--- other redisctl commands, editors

  init                              MCP client (agent)                  database create --wait, init-cluster, ..
    |  plan, then apply                |  concurrent calls                 |  post, then status calls
    v                                  v                                   v
  .gitignore .env skills            router -> guard -> lock ->          Redis Cloud tasks, Redis Enterprise
  Docker, Redis Cloud               connection -> preflight -> audit    actions, which go on by themselves
```

A command loads the config once, at startup, and works from that snapshot. Minting a key means a chain
of about ten HTTP calls (`authenticator.rs`), and storing it means up to three keyring writes and then
a config save of three file operations. The replaced key is revoked last, by its *name*. Between any
two of these steps another command may run, the process may be killed, or the step may fail.

### What is hard

- **Partial failure**: keyring entries are written one by one; the config save can fail after them.
- **Interleaving without locks**: several commands over one config file, keyring and pending file.
- **Stale state**: snapshots taken at startup; a server session whose current account must be
  re-confirmed; a refresh token that its own use retires.
- **Lost replies**: a mint or a create that took effect although the caller saw an error.
- **Timeouts**: a poll dropped in flight, a task that goes on after the wait gave up.
- **Identity by name**: keys are named after the second of the clock, databases may be renamed, things
  still being made may be listed without an id.
- **Account-wide side effects**: programmatic access is switched on before the login is certain.
- **Plans made before they are carried out**: `init` fixes what a file will hold before a database has
  started; the user edits meanwhile, and any step may be the last.
- **References that have been resolved**: the document holds a value where the file has `${VAR}`; after
  edits and several saves it must still know which is which.
- **Layers that disagree**: tiers, toolsets, allow and deny lists, presets, tool annotations and the
  commands inside a call; loops that each have their own list of words that end an operation.

`PROJECT.json` lists the hazards at their lines with the properties that cover them. Those that no
property covers, because no document promises otherwise, are in the models as behaviours or named here:

- a pending device authorization is not cleared by a browser login, and `status --wait` may complete it
  much later (`auth.rs:985`, in `CloudAuth`);
- `switch` retires the stored sign-in by refreshing it and stores the rotated token only after the
  exchange: a failed exchange leaves the keyring with a token that no longer works (`auth.rs:425`, in
  `CloudAuth`);
- an `accounts` that began before a logout stores its rotated token after it (`auth.rs:308`, in
  `CloudAuth`, runs with two processes);
- an edit of `.env` between the plan and the write of `init` is lost (`engine/env.rs:44`), and a copy of
  the skills that is interrupted before its marker is taken for the user's from then on
  (`engine/skills.rs:653`; both in `InitProject`);
- a request that the HTTP transport drops at its timeout may have changed data, and whether it is logged
  depends on the order of the library's layers (`redisctl-mcp/src/main.rs:283`, in `McpSession`);
- two runs of `quick-database` at a time both list before either creates (`quick_database.rs:130`), a
  dotenv file that changes between read and write loses the change (`env_delivery.rs:128`), and the
  loopback server may be called by anybody (`auth_code_loopback.rs:136`): not modelled.

## 2. The modules

| module | models | kind |
|---|---|---|
| `CloudAuth` | the sign-in commands as processes over config, keyring, pending file and servers | component |
| `KeyCustody` | what those commands promise about the profile's key | abstract specification |
| `SmExchange` | one exchange with the session API, one HTTP call per step | component |
| `KeyGrant` | what a command may rely on when it asks for a key | abstract specification |
| `QuickDatabase` | `quick-database`, run again and again over one account | component |
| `InitProject` | `redisctl init`, run again and again over one project | component |
| `CommandPolicy` | the policy of the MCP server and the classification of commands | operators |
| `McpSession` | concurrent calls over one lock, connection, alias and audit log; extends `CommandPolicy` | component |
| `ConfigDocument` | the configuration file and the documents through which it is edited | component |
| `PollLoop` | the eight waiting loops and the commands that use them, as records | operators |
| `LongOperation` | these commands against operations that go on by themselves; extends `PollLoop` | component |
| `MC*` | small instances and symmetry for TLC | model checking |
| `CloudAuthProofs`, `KeyCustodyProofs`, `SmExchangeProofs`, `QuickDatabaseProofs`, `ConfigDocumentProofs`, `McpSessionProofs`, `LongOperationProofs`, `InitProjectProofs` | theorems and their proofs | proofs |

`CloudAuth!KeyCustodyKept` and `SmExchange!GrantKept` are the refinements, by `INSTANCE ... WITH`.
`CloudAuth!Mint` is one request of the kind `KeyGrant` describes: it ends in an error that made
nothing, in an error after a key was made whose reply was lost, or in a key on the account wanted.
`SmExchange` shows that the chain of HTTP calls behind it does no more and no less.

### CloudAuth

State: `file` (account and key name recorded, the credentials, and `other` for everything unrelated),
`keyring` (the three entries of the profile), `pending` (the saved device authorization), the servers'
`keys`, `tokens`, `spent` (device codes) and the counters `issued`, and per process the command, its
step `pc`, its startup snapshot, and the tokens and key it holds. `disowned` and `forsaken` are history
variables: which live keys a message told the user about, and which were lost to a kill, an overwrite
or a lost reply.

| actions | code |
|---|---|
| `StartLogin`, `StartDevice`, `StartStatus`, `StartSwitch`, `StartAccounts`, `StartLogout` | the entry of each command, up to its first fallible step |
| `SignIn`, `PollPending`, `Refresh`, `RevokeToken` | the identity provider's flows; `PollPending` includes the `--timeout` that drops a poll in flight |
| `ReadToken`, `KeepToken` | the sign-in kept in the keyring, and `accounts` keeping a rotated one |
| `ChooseStore`, `Mint`, `PutApi`, `PutSecret`, `PutRefresh` | `complete_and_persist` and `apply_cloud_login` |
| `CheckSource`, `WriteFile`, `VerifyFile` | the three file operations of a config save |
| `RevokeSuperseded`, `ClearPending` | the end of a login, status or switch; the pending file may survive its removal |
| `RevokeKey`, `RevokeToken`, `Forget` | logout; each step best effort, as in the code |
| `Crash`, `EditFile` | a kill between two steps; another writer of the config |

### SmExchange

State: the server's `members`, `access` and `keys`, the account its `session` is on, the profile's
`record`, and the exchange under way, with what it was told at each step (`reported`, `chosen`,
`enabled`, `made`, `key`). The server answers every call by `session`, as the code assumes
(`authenticator.rs:512`), and `setcurrent` may be accepted without moving it, which is why the code
reads it back. `PickAccount` includes the prompts of the sign-in commands, with the precedence of a
list position over an id. Others leave accounts, switch access on or off, and add or remove keys in
between.

### QuickDatabase

State: `subs` and `dbs` as the account has them, `elsewhere` (is the free plan held under another
name?), the run, and the database whose credentials the `file` holds. A create has two outcomes that
the caller cannot tell apart, refused and accepted with the reply lost. A task ends by `SettleSub` or
`SettleDb`, independently of the run that waits for it. `ours` marks what the command created and is
read by properties only. `Kill` and the failed calls end a run; `Start` begins the next one, which
remembers nothing.

### InitProject

State: `env` (the lines of each key of `.env`), `git`, `docker` (daemon, container, ports of others),
`cloud`, `skill` (what the generated skill says), `pack` (a directory of an official skill) and the run.
`Start` takes the options, `Preflight` is the read-only plan that comes before Redis Cloud is asked,
`Resolve` and `Await` are the Cloud database, `Plan` fixes every file, and the steps that follow carry
the plan out in its order: `ApplyDatabase`, `Ignore`, `WriteUrl`, `WriteProduct`, `Skills`, `Generate`,
`Validate`. `Stop` ends a run anywhere. `EditEnv`, `EditGit`, `EditDocker`, `EditPack` are the user and
the environment; `run.quiet` says that there were none during the run.

### CommandPolicy and McpSession

`CommandPolicy` has `ToolAllowed` (denials, lists, effective tier, in the order of `policy.rs`), `Visible`
(presets), `Classify` (the safety that the server gives a command) and, external, `Risk`, `Occupies` and
`Disturbs`: what Redis does with it. What the server looks at to refuse a blocking variant
(`OptionBeforeStreams`) and what makes one block (`Occupies`) are separate definitions, and they differ (section 4).
`McpSession` runs calls through `Judge`, the read-write lock (`LookUp`,
`Ping`, `Connect`, `Insert`; first come, first served, so that a writer in line stops later readers), and
the tools themselves. A tool stands for all of its kind. A step is what a handler does between two awaits.

### ConfigDocument

State: the `files`, and one document with its source text, the values that the text resolved to
(`snapshot`), its edited `config`, the slots that were declared (`allowed`). `Load`, the edits of the commands
and MCP tools (`Create`, `Wizard`, `Set`, `Remove`, `SetDefault`) and those that an embedding program may
make (`Change`, `Copy`, `DropTag`); `Check`, `Write`, `WriteFails`, `Verify` are `write_with`; `Other` is another
program. `loaded` and `raced` are history: what the file held at the load, and whether it was written between
check and write.

### PollLoop and LongOperation

A loop is a record: which words end it with success, with failure, or with the operation shown; whether a failed
status call ends it; when it gives up. A command is a record too: for what it posts, whether it waits and in
which loop, whether it goes on after a reply without an id, what it answers of an operation it does not wait for
(`Unwaited`), and what follows. `LongOperation` runs any of them
one after the other: `Start`, the post (`Refused`, `Unheard`, `Accepted`, `Untracked`, and the one repeated post
of `init-cluster`, `Settling`), the wait (`GiveUp`, `StatusFails`, `StatusAnswers`, `Pause`), `Fetch`, and
`ClusterState` and `Discover` of `init-cluster`. `Proceed` is the API: operations go on, end or are cancelled.

## 3. The runs

All bounds are constants: `MaxKeys`, `MaxTokens`, `MaxCodes`, `MaxEdits` (CloudAuth), `MaxNames`,
`MaxChanges` (SmExchange), `MaxMishaps`, `MaxChanges` (QuickDatabase), `MaxEdits` (InitProject), `MaxEdits`,
`MaxOthers` (ConfigDocument), `Op`, `Timeout` (LongOperation). The state counts are distinct states.

| run | instance | shows |
|---|---|---|
| `auth_one` | 1 process, 2 accounts, 2 keys, 2 tokens, 1 device code, 1 edit, refreshes that rotate and that do not, kills; 5.6 M states | commands one after the other: a replacement works before what it replaces is revoked (`ReplacementWorks`); a reported success leaves a working, recorded key (`SuccessWorks`); every live key is recorded, answered for, or named in a message (`NoSilentKey`); only logouts and replacements delete keys (`OnlyReplacedKeysDie`); a logout that reports success retires the rotated token too (`LogoutEndsSignIn`); the two-process device login keeps account and store (`PendingHonoured`); refinement of `KeyCustody` |
| `auth_two` | 2 processes, 1 account, 2 keys, 2 tokens, kills; 1.1 M states | commands interleaved at every call and file operation: `RevokeSparesInUse` and `PlaintextMatchesRecord` |
| `sm_faulty` | accounts {2, 3}, 3 MFA attempts, faults, 2 names, 1 change; 402 k states | the three parts of a key belong together and to the account asked for; access is switched on there only; a revocation deletes what is recorded; every exchange ends; refinement of `KeyGrant` |
| `quick_rerun` | 2 subscriptions, 3 databases, 2 mishaps, 2 changes; 628 k states | `OneDatabase`, `NeverBilled`, `OwnNeverRefused`, and `RetryDelivers` |
| `init_rerun` | 2 ports, every choice of a database, 1 edit or change of the environment; 2.9 M states | secrets land in an ignored, untracked `.env` only (`SecretsIgnored`); what programs load is not replaced unasked (`UserValuesKept`); a success names what will be loaded (`ConnectionAgrees`); a re-run of a success changes nothing (`RerunQuiet`); Redis Cloud is not asked in vain (`NeverInVain`) |
| `mcp_calls` | 2 calls, 4 policies whose layers disagree, 5 batches, HTTP; 269 k states | nothing above the policy reaches Redis, and no batch in part (`CeilingKept`); the lock of the cache and its line are those of the calls that use it, though calls are dropped where they wait (`LockKept`); what changed data is logged (`AuditComplete`); every call returns unless a blocking command occupies the connection (`CallsEnd`) |
| `document_edits` | 2 profiles, 2 references, 2 files, 2 edits, 1 foreign write; 2.1 M states | the baseline agrees with the source after any save (`SnapshotAgrees`); references stay where they are (`ReferencesStay`) and what they resolve to is not written out (`ResolvedStaysOut`); an observed change is not overwritten (`ObservedKept`) |
| `task_waits` | 3 operations, 2 pauses of time; 475 k states | what a command says of the operations it waited for stands (`AnswerHolds`); an end that was read is not waited out (`EndIsSeen`); `init-cluster` makes nothing twice (`MadeOnce`); every command returns (`CommandsReturn`) |
| `auth_disowned`, `sm_absent`, `task_unseen`, `mcp_pinned` | small instances that show it | the four disagreements of section 4 |

The inductive invariants of the proofs were checked by TLC before they were proved; `TypeOK` is part of a run
where it says something of an algorithm (references kept, what a plan holds, what an operation may answer); elsewhere it is a theorem.

Why these bounds are enough to be interesting: two keys let a login replace a key or leave one behind
(for chains of replacements `CloudAuthProofs` and `KeyCustodyProofs` take over: each property of `auth_one` is a theorem for
any number of them); two accounts distinguish "the account asked for" from another; account ids
{2, 3} overlap with list positions 1 and 2, so that typing `2` is ambiguous; two processes with two keys
let one overwrite, revoke or rotate under the other, and `CloudAuthProofs` takes over for more; three
databases are one of the command, one of somebody else and one too many; two mishaps are one failure
while recovering from another. `auth_two` keeps one account, because all of its hazards are about names
and stores. In `init_rerun` runs are unbounded in number, so one edit may fall into the first, a failed or a
repeated run, and two ports are one that is taken and one that is free. In `mcp_calls` two calls are a reader
that waits for a reply and a writer in line behind it, or one that stores an alias and one that runs it; each
policy has two layers that say the opposite. In `document_edits` two edits reuse a slot that the first one
freed, with a save between them, and one foreign write falls before or after the check; `ConfigDocumentProofs` takes over for more. In `task_waits`
three operations are a failed bootstrap, its repetition and a database; a time of two pauses
lets a loop give up before, at and after the status that ends it. Symmetry over accounts and processes is used in
runs without liveness properties only.

Deadlock is checked with the rest, except in `document_edits`: when the edits are used up and the document is
saved nothing is left to do. Elsewhere a command or call can always be started. The
counters' bounds do not make a property hold: where a bound is met, the step that would exceed it is
disabled and the error branch of the same action remains.

### Fairness

- `CloudAuth` states safety only: its commands are sequences of steps whose end would be assumed with the fairness. The
  HTTP clients set no timeout of their own (`oidc.rs`), so a server that neither answers nor closes holds a command for ever.
- `SmExchange`: weak fairness of `Step`. It says that a call is answered or its connection breaks, and that a
  prompt is answered or interrupted; `sm_api.rs` sets no timeout either. None for others.
- `QuickDatabase`: weak fairness of the run's own steps and of the account's tasks (a task ends). There
  is none for `Start`: that a run is repeated until it succeeds is a premise of `RetryDelivers`, next to the
  premise that eventually the account may hold the free subscription and others leave no ambiguity.
- `McpSession`: weak fairness of `Handle` for each call, which says that a connection answers or breaks.
  Over HTTP the server's timeout ends a request whatever Redis does (`Expire`), but that is not assumed to
  happen; over stdio there is none, and a connection that does neither holds its call for ever. That a blocking
  command gets its data (`DataArrives`) is not assumed: `CallsEnd` excepts the time while one occupies the connection.
- `LongOperation`: weak fairness of `Step`: status calls answer or break, pauses pass. Nothing is assumed
  of the operations themselves, so that every wait has to end on its own limit; `task poll` without a limit is
  left out of `CommandsReturn`.
- `InitProject` and `ConfigDocument` state safety only. A run of `init` is a sequence of steps without a loop but
  for the waits for Docker and Redis Cloud, which are bounded in the code.

## 4. Where code and words disagree

Four runs check one property each, a sentence of the source or its docs, and refute it. The exact
quotations are in `PROJECT.json`.

1. `auth_disowned`: `apply_cloud_login` overwrites keyring entries that the saved profile already
   refers to. If a later write fails, the message asks the user to revoke a key "created but not
   stored" that the profile now uses.
2. `sm_absent`: `authed_get` does not look at the HTTP status, so an error reply to the listing of keys
   reads as an empty list, and a live key is reported as not found.
3. `task_unseen`: `cloud task wait`, which the hint of every command without `--wait` recommends, does not know
   "processing-completed" and "processing-error", the words with which a task ends, and polls a finished task
   until its time is out. For the same reason `EndIsSeen` is about the other loops only: `subscription-setup` does
   not know "processing-error", and `init-cluster` does not know "cancelled".
4. `mcp_pinned`: XREAD and XREADGROUP with BLOCK are refused "because it can pin the shared connection", but the search
   for BLOCK ends at the first word STREAMS, and the name of a consumer group may be that word. `CeilingKept` therefore
   speaks of what a command does to the data and to the meaning of the connection, and not of blocking.

Three more disagreements are in the models, and no run refutes them. `Unwaited` and `ClusterState`:
`handle_async_response` without `--wait` prints "Database created successfully" and its like for an operation that
the API has only taken (`async_utils.rs:92`), `subscription-setup` answers success in the same way, a workflow of `init-cluster`
that gets no `action_uid` takes the bootstrap for done after five seconds (`init_cluster.rs:122`), and a later one answers
"Cluster already initialized" over a bootstrap that goes on or went wrong (`init_cluster.rs:94`). `AnswerHolds` is about
the operations that a command waited for, which is all that its answer vouches for. `SameSecond`: the "unique-per-login" key
name is the current second, so that two logins within one second share a name (`auth.rs:1506`); `RevokeSparesInUse`
and its theorem are about unique names. `LoneHidden`: `[only] => Ok(only.database_id)` (`quick_database.rs:341`) takes an only
database that is listed without an id for no database; `quick_rerun` and the theorem `Idempotent` are about the account
that does not list a *renamed* only database without its id.

## 5. The proofs

`tlapm` checks every theorem for all values of the constants that satisfy the modules' assumptions
(`ConstantsAssumption`, `SmAssumption`, `QuickAssumption`, `DocumentAssumption`, `McpAssumption`,
`OperationAssumption`, `InitAssumption`, `NoneAssumption`: the bounds are naturals, ports are positive, the accounts of
a session are finitely many, what other programs write is well formed, `None` is none of the values).

**CloudAuth.** `TypeCorrect` needs more than types: a step that stores `proc[p].key` is well-typed only if
there is a key, so it is proved together with `KeyHeld` (what a run holds agrees with where it is).
`RevokeSafe` (`~SameSecond => []RevokeSparesInUse`) says that revoking what a login replaced never
revokes the key the profile resolves to, for any number of concurrent commands and kills, as long as
the config is the one the login saved. The property itself is far from inductive: that the secret in
the keyring is not the replaced one depends on what every other process put there and when. The
strengthening is `RevokeSafeInv`:

- `KeyHeld`;
- `NamesIssued`: no name anywhere is younger than the last mint, so a new name is new;
- `KeysFresh`: no two runs hold keys of one name; while a run's key is not saved no config and no
  snapshot names it (so nobody can be about to replace it); and once its secret was put into the keyring, the
  secret there is never again that of the key it replaces, because only the run that minted a secret puts it there.

`BeginSafe`, `MintSafe`, `PutSecretSafe`, `WriteFileSafe` are the steps that disturb it, `SafeFrame`
the frame for the rest. `PlaintextRecorded` proves
that plaintext credentials are those of the key recorded next to them, with `KeyHeld`: whoever writes
the config either holds the key whose record it writes, or is logging out and removes both.
`SignInEnds` needs no hypothesis either: what decides is that a token is retired in the refresh that rotates it, so a
logout that holds two holds one that no longer counts (`TokensRetired`, an invariant of the numbers issued so far).
That no two live keys share a name (`KeyNamesUnique`) is what `~SameSecond` assumes, seen from the servers: a lemma of the
proofs below (`NextUnique`) and not a result.

**CloudAuth implements KeyCustody** (`KeyCustodyProofs!Implements`, from `~SameSecond` and one command at a
time). Besides `RevokeSafeInv` it needs `HeldKeyWorks`: the key that a run minted stays live until the
run ends; once its secret is in the keyring it stays there; once the config is saved the profile
resolves to it. Most steps are quiet (`QuietStep`: a logout begins or ends, or nothing changes that
KeyCustody sees). The six others have a lemma each: `Mint` creates, `PutSecret`, `WriteFile` and `Forget` change
what is used, `RevokeSuperseded` and `RevokeKey` revoke. With several commands at once the refinement is
false: a command that checked the source earlier may write over the saved config and bring back a key
that is about to be revoked (the comment at `RevokeSparesInUse`; it takes three keys, so the bounds of the two-command run do not show it).

**What one command at a time promises** is proved in the same module, for any number of keys, tokens, edits and kills.
The invariant is `RunsRecorded`: until a run saves, the file records what its snapshot does, and afterwards the key that
the run minted, on the account that was asked for; what it put into the keyring stays. With `HeldKeyWorks` it gives
`ReplacementInPlace`, `OthersSurvive` and `DeviceLoginHonoured`, which do not depend on the names of keys. `SuccessLasts`
and `EveryKeySaid` do (`~SameSecond`): they need that a live key which the file names is the one it means
(`KeyNamesUnique`), and that a login which dealt with the key it replaced either saw it deleted or named it in a note
(`ReplacedGone`). `EveryKeySaid` goes over every step that changes what is live, recorded, answered for or
named, and shows that a key leaves one of these places only for another. One command at a time is a real hypothesis:
TLC refutes `NoSilentKey` for two, where one writes the config over the other's and the overwritten record is all that
named a key.

**SmExchange.** `PairInv` has two parts. `Purpose` says what is known of the request (until the account is
settled the account reported is where the session is; after a prompt there is a wanted account), and
`Progress` what may have been done: nothing before the account is settled, and from then on every
session call can only resolve to the settled account (`Where \subseteq {run.chosen}`), also when the session
reports none and the user has one account. The four properties follow: `TypeCorrect`, `PairsBelong`,
`AccessConfined`, `DeletionConfined`; and so does `Implements`, that an exchange implements `KeyGrant`:
a step either keeps what the request is about (`GoingOn`), or picks the account (`PickGrant`), or makes
the key (`MintGrant`).

**QuickDatabase.** `TypeCorrect`; then `FreeInv` (free subscriptions are what the command makes, and what a
run has decided about the subscription it is in still holds) gives `FreeOnly` and `OwnAccepted`; and
`OnceInv` gives `Idempotent` (`LoneHidden = FALSE => []OneDatabase`). Its core is that what a run saw is
still so when it acts on it: when it is about to create a subscription none is listed, when it is about to
create a database no database of the command is live, whatever was renamed, added, lost or settled in between;
`OnceRun`, `OnceCreateSub`, `OnceCreateDb` and `OnceAccount` treat the steps.

**ConfigDocument.** The invariant has four parts: the files hold well-formed tables (`FilesOK`); the document is
typed and its profiles are well formed (`DocOK`); its baseline is what its source resolves to in the environment of the
load, it keeps the references of the source slot by slot and no others, and it remembers everything that a reference of
the load resolved to (`DocInv`); and what was checked is still true when it is written, unless another program wrote in
between (`Checked`). A save restores, declares or refuses; which of the
three a slot gets depends on the baseline only, which is why `SnapshotAgrees` carries the other properties:
`ReferencesAreKept`, `ResolvedIsKeptOut` and `ObservedIsKept` are about the step of a save, from `Checked`.

**McpSession.** Two facts about operators come first: the classification of a command is never below what
Redis does with it, and what a surface permits is never above what the policy grants (together `BatchGranted`); a variant that blocks passes for the read or write that it is otherwise. Then
`SafeCall`: a call past the judge is routed; one that sends is of a dedicated tool, or its batch passed the preflight as it is, although
the alias that it came from may be changed by others while it waits for its connection. `CeilingIsKept` and
`AuditIsComplete` follow for every policy, every number of calls and every batch. The lock has an invariant of its own
(`LockInv`: its readers are the calls that ping, and its line is a sequence of the calls that wait, each once), which every
step keeps by one of five lemmas: a call stays away from the lock (`LockStays`), joins the line (`LockJoined`), takes its
turn (`LockTaken`), gives back its guard (`LockAnswered`), or is dropped from the middle of the line (`LockLeft`). Under them
are three facts about sequences (`JoinsLine`, `FirstLeaves`, `LeavesLine`). `LockDiscipline` is that invariant read as a
property; `TypeCorrect` adds that what an alias is set to is a batch that was passed, which the call has carried from its
arrival.

**LongOperation.** The invariant says where a command may be (`Phase`), that what it waited for is done before it
goes on (`Awaited`), that it has not heard of an end while it waits (`Unended`), and that a database exists only where
there is a cluster that was made (`Once`). The commands and loops enter by two facts only, `FlowOK` and `LoopOK`, proved once for every command:
a word that ends a loop with success is the word of an operation that took effect, and a careful loop knows all words of its
API. What the operations do meanwhile is `Forth`: what is over stays as it is. `AnswersHold`, `EndsAreSeen` and `NothingTwice` are parts
of the invariant.

**InitProject.** Three invariants, each of which needs the one before. The first (`World`, `RunOK`, `Quiet`) says what
still holds of a plan while nobody has changed anything since it was made. What decides is `SecretsSeen`: whichever of the
two writes hands a secret to .env, the plan has compared it with the .env that was there and refused, or will have
ignored the file first; the URL of Redis Cloud, which an explicit choice puts over another secret, is nowhere else
(`PlainEnv`). `NotInVain`, `SecretsStayOut` and `ValuesStay` follow, although .env is written in two steps and a kill may
come between. The second (`AInv`) follows the URL, the product and the container from the plan to the validation
(`SuccessAgrees`): it rests on keys being on one line each, which is what a plan that is not refused has seen. The third
(`RInv`) carries `Fixed`, what a success leaves behind: a project over which the same options plan nothing
(`FixedPlan`). A success makes it (`SuccessFixes`), a plan over it is empty, an empty plan keeps it, and so
`RerunChangesNothing` holds wherever the re-runs are stopped and however many there are.

**Model-checked only**: every invariant and every action property of the passing runs is a theorem, and so are the two
refinements, under the hypotheses named above. What is left to TLC is **out of the prover's reach**: liveness
under fairness (`ExchangeEnds`, `RetryDelivers`, `CallsEnd`, `CommandsReturn`), anything with ENABLED, and
induction over data. No module declares a recursive operator.

## 6. Abstractions and assumptions

- A key is its account, its name and an identity; its API key is a function of the account, its secret
  the key itself. Tokens and device codes are numbers. Names are
  seconds of the clock, taken before the exchange; since they are only compared for equality, names of different seconds are
  numbered in the order of the mints.
- One profile. Commands of several profiles meet only in the config file, as `EditFile`.
- A write of a file is atomic: `fs::write` may be torn by a kill, which the code does not address.
- Nobody *joins* an account during an exchange (`SmExchange!Others`): the code reads the membership
  several times and a join between two readings would only widen what is legal.
- The account lists a create that it accepted; at most one free subscription is settled; databases are
  not limited by the server. A subscription is listed once. One run of `quick-database` at a time:
  idempotence is promised to re-runs, and two concurrent runs would list before either creates, and create twice.
- InitProject: one product stands for three, a dotenv file is the lines of three keys, a file that a run writes
  is written in one step. The database answers at its URL if it runs.
- McpSession: one database URL, one API profile, one name of an alias; the policy and the audit level do not
  change while the server runs, as in the code. A command name stands for all that are treated like it.
- ConfigDocument: a profile has one credential and two tags; one field outside of the profiles. A file has an
  identity of two values, so that a replaced file differs from the one that was read. Two documents at a time meet
  in the file only, as `Other`.
- LongOperation: commands run one after the other; two at a time share nothing but the API. Ids are fresh.
  `init-cluster` is run by one user against one cluster, and others neither bootstrap it nor make databases in it.
- Output, wording, JSON, progress callbacks and colours are left out.

### Not modelled

- **The bulk of the repository** is commands and tools of one request and one rendering: the argument definitions
  (`cli/`), `main.rs`, the read-only commands of `commands/` and the generated-looking tools of `redisctl-mcp/src/tools`. They
  keep no state, do not interact, and nothing about them is a question for a model checker. Where they post a long
  operation they are flows of `PollLoop`; where they edit the configuration they are edits of `ConfigDocument`.
- **Support packages and CRDB tasks**: one request each, or a download to a file.
- **Client library shims, prompts, skills and resources** of the MCP server: configuration and static text.
- **The loopback callback server** and the **dotenv writer of `quick-database`** (line replacement, permissions,
  `.gitignore`) are single steps of `CloudAuth` and `QuickDatabase`.
- **`init`**: the entries of MCP clients, installed packages, example programs, telemetry, and the wizard's wording.
- **Parsing** of the policy file, of references and of commands: modelled by what it yields.

## 7. What is left

In the order in which it would be taken up:

1. `EnvDelivery`: the dotenv file of `quick-database` as a sequence of lines, with a concurrent edit.
2. `Loopback`: the one-shot callback listener with unrelated and stale connections.
3. Two runs of `quick-database` at a time: what can still be promised when both list before either creates.
4. What CloudAuth promises of interleaved commands that write the config over one another: which of the properties
   for one command at a time hold when the writes of the config do not overlap.
