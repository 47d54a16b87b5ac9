------------------------------ MODULE CloudAuth ------------------------------
(***************************************************************************)
(* `redisctl cloud auth`: login, device login, status --wait, switch,      *)
(* accounts and logout for one profile.  Every invocation is a process of  *)
(* its own; they meet only in                                              *)
(*   - the config file (the profile and its cloud_auth section),           *)
(*   - the OS keyring (API key, API secret, refresh token),                *)
(*   - the pending device-authorization file, and                          *)
(*   - the servers: Redis Cloud's API keys and the identity provider's     *)
(*     refresh tokens and device codes (external to the repository).       *)
(* A command works from the config document it loaded at startup, and any  *)
(* call, write or prompt of it may fail; it may also be killed between any *)
(* two steps.                                                              *)
(***************************************************************************)
EXTENDS Naturals, FiniteSets

CONSTANTS
    Proc,        \* invocations that may run at the same time
    Account,     \* accounts the signed-in user belongs to
    None,        \* an absent value (Option::None, a missing entry or file)
    InKeyring,   \* a profile whose credentials are references into the keyring
    MaxKeys,     \* bound: API keys minted
    MaxTokens,   \* bound: refresh tokens issued
    MaxCodes,    \* bound: device codes issued
    MaxEdits,    \* bound: edits of the config file by other commands
    Rotates,     \* TRUE in it: a refresh may rotate the refresh token; FALSE in it: it may not
    SameSecond,  \* may two mints fall in one second of the clock?
    Kills        \* may a command be killed?

Key == [id : Nat, acct : Account, name : Nat]

ASSUME ConstantsAssumption ==
    /\ Rotates \subseteq BOOLEAN /\ SameSecond \in BOOLEAN /\ Kills \in BOOLEAN
    /\ MaxKeys \in Nat /\ MaxTokens \in Nat /\ MaxCodes \in Nat /\ MaxEdits \in Nat
    /\ None \notin Account /\ None \notin Nat /\ None \notin Key
    /\ InKeyring \notin Key /\ InKeyring # None

VARIABLES
    file,      \* config file: the recorded account and key name, the credentials, the rest
    keyring,   \* keyring entries <profile>-cloud-api-key, -cloud-api-secret, -okta-refresh
    pending,   \* redisctl-pending-<profile>.json
    keys,      \* live API keys at Redis Cloud
    tokens,    \* refresh tokens the identity provider accepts
    spent,     \* device codes that can no longer be exchanged
    issued,    \* how many keys, tokens and codes were issued, and the clock's second
    proc,      \* the invocations
    disowned,  \* live keys a message called "created but not stored"
    forsaken   \* live keys a note asked the user to revoke, and live keys lost with a killed or
               \* overwritten command or with the reply to their mint

store == <<file, keyring, pending>>
server == <<keys, tokens, spent, issued>>
ghost == <<disowned, forsaken>>
vars == <<store, server, proc, ghost>>

MintingCmd == {"login", "status", "switch"}
Cmd == MintingCmd \cup {"accounts", "logout"}
Ended == {"ok", "failed"}  \* also before the first command, and after a kill
Phase == Ended \cup
    {"signin", "poll", "readToken", "refresh", "keep", "choose", "mint", "putApi", "putSecret",
     "putRefresh", "check", "write", "verify", "revoke", "clear", "revokeKey", "revokeToken",
     "forget"}

Maybe(S) == S \cup {None}

File == [acct : Maybe(Account), key : Maybe(Nat), cred : Maybe(Key \cup {InKeyring}), other : Nat]
Keyring == [api : Maybe(Account), secret : Maybe(Key), refresh : Maybe(Nat)]
Pending == [acct : Maybe(Account), plain : BOOLEAN, code : Nat]
Issued == [keys : Nat, tokens : Nat, codes : Nat, second : Nat]
Process == [pc : Phase, cmd : Maybe(Cmd), snap : File, want : Maybe(Account), plain : BOOLEAN,
            tok : Maybe(Nat), fresh : Maybe(Nat), key : Maybe(Key), code : Nat]

TypeOK ==
    /\ file \in File
    /\ keyring \in Keyring
    /\ pending \in Maybe(Pending)
    /\ keys \subseteq Key
    /\ tokens \subseteq Nat /\ spent \subseteq Nat
    /\ issued \in Issued
    /\ proc \in [Proc -> Process]
    /\ disowned \subseteq Key /\ forsaken \subseteq Key

NoFile == [acct |-> None, key |-> None, cred |-> None, other |-> 0]
Blank == [pc |-> "ok", cmd |-> None, snap |-> NoFile, want |-> None, plain |-> FALSE,
          tok |-> None, fresh |-> None, key |-> None, code |-> 0]

Init ==
    /\ file = NoFile
    /\ keyring = [api |-> None, secret |-> None, refresh |-> None]
    /\ pending = None
    /\ keys = {} /\ tokens = {} /\ spent = {}
    /\ issued = [keys |-> 0, tokens |-> 0, codes |-> 0, second |-> 0]
    /\ proc = [p \in Proc |-> Blank]
    /\ disowned = {} /\ forsaken = {}

-----------------------------------------------------------------------------

At(p, pc) == proc[p].pc = pc
Running(p) == proc[p].pc \notin Ended
Goto(p, pc) == proc' = [proc EXCEPT ![p].pc = pc]
End(p, result) == proc' = [proc EXCEPT ![p] = [Blank EXCEPT !.pc = result]]

\* The live keys that a config (the file, or a startup snapshot) records.
Recorded(config) == {k \in keys : k.acct = config.acct /\ k.name = config.key}

\* The key whose secret the profile's credentials resolve to.
InUse == IF file.cred = InKeyring THEN keyring.secret ELSE file.cred

\* The key a run answers for: the one it minted, and the ones its snapshot records.
Custody(p) == Recorded(proc[p].snap) \cup {k \in keys : k = proc[p].key}

\* Does the profile work: a live key, with an access key of that key's account?
Usable ==
    /\ InUse \in keys
    /\ file.cred = InKeyring => keyring.api = InUse.acct

-----------------------------------------------------------------------------
(* Starting a command: the config document is loaded once, here.           *)

Start(p, cmd, first, want, plain) ==
    /\ ~Running(p)
    /\ proc' = [proc EXCEPT ![p] = [Blank EXCEPT !.pc = first, !.cmd = cmd, !.snap = file,
                                                 !.want = want, !.plain = plain]]

\* `login`, in the browser or with --device --wait.
StartLogin(p) ==
    /\ \E want \in Maybe(Account), plain \in BOOLEAN : Start(p, "login", "signin", want, plain)
    /\ UNCHANGED <<store, server, ghost>>

\* `login --device`: obtain a device code, save it for `status --wait`, and return.
StartDevice(p) ==
    /\ ~Running(p)
    /\ issued.codes < MaxCodes
    /\ issued' = [issued EXCEPT !.codes = @ + 1]
    /\ \E want \in Maybe(Account), plain \in BOOLEAN :
          pending' = [acct |-> want, plain |-> plain, code |-> issued.codes + 1]
    /\ End(p, "ok")
    /\ UNCHANGED <<file, keyring, keys, tokens, spent, ghost>>

\* Mutant: the pending file does not carry the account the login asked for.
StartStatusForgetful(p) ==
    /\ ~Running(p)
    /\ pending # None
    /\ proc' = [proc EXCEPT ![p] = [Blank EXCEPT !.pc = "poll", !.cmd = "status", !.snap = file,
                                       !.plain = pending.plain, !.code = pending.code]]
    /\ UNCHANGED <<store, server, ghost>>

\* `status --wait` with a pending record; without one it only reports.
StartStatus(p) ==
    /\ ~Running(p)
    /\ pending # None
    /\ proc' = [proc EXCEPT ![p] = [Blank EXCEPT !.pc = "poll", !.cmd = "status", !.snap = file,
                                       !.want = pending.acct, !.plain = pending.plain,
                                       !.code = pending.code]]
    /\ UNCHANGED <<store, server, ghost>>

\* `switch`: nothing to do on the account the profile already uses; no id means a prompt.
StartSwitch(p) ==
    /\ \E want \in Maybe(Account) :
          IF want # None /\ want = file.acct
          THEN ~Running(p) /\ End(p, "ok")
          ELSE Start(p, "switch", "readToken", want, FALSE)
    /\ UNCHANGED <<store, server, ghost>>

StartAccounts(p) ==
    /\ Start(p, "accounts", "readToken", None, FALSE)
    /\ UNCHANGED <<store, server, ghost>>

StartLogout(p) ==
    /\ Start(p, "logout", "readToken", None, FALSE)
    /\ UNCHANGED <<store, server, ghost>>

-----------------------------------------------------------------------------
(* Obtaining tokens from the identity provider.                            *)

IssueToken == issued' = [issued EXCEPT !.tokens = @ + 1]

\* The browser or blocking device flow: approved, or denied/expired/unreachable.
SignIn(p) ==
    /\ At(p, "signin")
    /\ \/ /\ issued.tokens < MaxTokens
          /\ IssueToken
          /\ tokens' = tokens \cup {issued'.tokens}
          /\ proc' = [proc EXCEPT ![p].pc = "choose", ![p].fresh = issued'.tokens]
       \/ End(p, "failed") /\ UNCHANGED <<tokens, issued>>
    /\ UNCHANGED <<store, keys, spent, ghost>>

\* The poll loop under the caller's --timeout.  The timeout drops the request in flight, so
\* the code may have been exchanged although no answer was seen.
PollPending(p) ==
    /\ At(p, "poll")
    /\ \/ /\ proc[p].code \notin spent
          /\ issued.tokens < MaxTokens
          /\ IssueToken
          /\ tokens' = tokens \cup {issued'.tokens}
          /\ spent' = spent \cup {proc[p].code}
          /\ \/ proc' = [proc EXCEPT ![p].pc = "choose", ![p].fresh = issued'.tokens]
             \/ End(p, "ok")
       \/ /\ \E result \in {"ok", "failed"} : End(p, result)
          /\ UNCHANGED <<tokens, issued, spent>>
       \/ /\ spent' = spent \cup {proc[p].code}
          /\ End(p, "failed")
          /\ UNCHANGED <<tokens, issued>>
    /\ UNCHANGED <<store, keys, ghost>>

\* switch, accounts and logout reuse the sign-in kept in the keyring.  Logout goes on without.
ReadToken(p) ==
    /\ At(p, "readToken")
    /\ IF keyring.refresh # None
       THEN proc' = [proc EXCEPT ![p].pc = "refresh", ![p].tok = keyring.refresh]
       ELSE IF proc[p].cmd = "logout" THEN Goto(p, "forget") ELSE End(p, "failed")
    /\ UNCHANGED <<store, server, ghost>>

AfterRefresh(cmd) ==
    CASE cmd = "switch" -> "choose" [] cmd = "accounts" -> "keep" [] OTHER -> "revokeKey"

NoRefresh(p) == IF proc[p].cmd = "logout" THEN Goto(p, "forget") ELSE End(p, "failed")

\* Rotation retires the token that was used; without it the answer omits a replacement.
Refresh(p) ==
    /\ At(p, "refresh")
    /\ \/ /\ TRUE \in Rotates
          /\ proc[p].tok \in tokens
          /\ issued.tokens < MaxTokens
          /\ IssueToken
          /\ tokens' = (tokens \ {proc[p].tok}) \cup {issued'.tokens}
          /\ \/ proc' = [proc EXCEPT ![p].pc = AfterRefresh(proc[p].cmd), ![p].fresh = issued'.tokens]
             \/ NoRefresh(p)  \* the answer was lost
       \/ /\ FALSE \in Rotates
          /\ proc[p].tok \in tokens
          /\ Goto(p, AfterRefresh(proc[p].cmd))
          /\ UNCHANGED <<tokens, issued>>
       \/ NoRefresh(p) /\ UNCHANGED <<tokens, issued>>
    /\ UNCHANGED <<store, keys, spent, ghost>>

\* `accounts` keeps a rotated sign-in (or warns that it could not), then lists or fails.
KeepToken(p) ==
    /\ At(p, "keep")
    /\ \/ proc[p].fresh # None /\ keyring' = [keyring EXCEPT !.refresh = proc[p].fresh]
       \/ UNCHANGED keyring
    /\ \E result \in {"ok", "failed"} : End(p, result)
    /\ UNCHANGED <<file, pending, server, ghost>>

-----------------------------------------------------------------------------
(* complete_and_persist: choose a store, mint, store, save, revoke.        *)

\* The store is settled before anything is minted: an unavailable or unwritable keyring
\* refuses here.
ChooseStore(p) ==
    /\ At(p, "choose")
    /\ Goto(p, "mint") \/ (~proc[p].plain /\ End(p, "failed"))
    /\ UNCHANGED <<store, server, ghost>>

\* Mutant: names of a coarser clock, which stands still between two mints.
NextSecondsCoarse == {issued.second}

\* The name is taken from the clock before the exchange, which may stand still: another command
\* may take the same name, or mint under a later one first.  Names are only ever compared for
\* equality, so as long as no two mints share a second they are numbered in the order of the
\* mints; otherwise any earlier name may come again.
NextSeconds == {issued.second + 1} \cup (IF SameSecond THEN 1..issued.second ELSE {})

\* The session exchange (module SmExchange) ends in an error, or in a key named after a
\* second of the clock on the wanted account, or on the session's or the prompt's when none was
\* named.  When the reply is lost the key exists but its secret is gone.
Mint(p) ==
    /\ At(p, "mint")
    /\ \/ /\ issued.keys < MaxKeys
          /\ \E acct \in (IF proc[p].want = None THEN Account ELSE {proc[p].want}),
                now \in NextSeconds :
             LET new == [id |-> issued.keys + 1, acct |-> acct, name |-> now]
             IN  /\ issued' = [issued EXCEPT !.keys = @ + 1,
                                              !.second = IF now > @ THEN now ELSE @]
                 /\ keys' = keys \cup {new}
                 /\ \/ /\ proc' = [proc EXCEPT
                              ![p].pc = IF proc[p].plain THEN "check" ELSE "putApi",
                              ![p].key = new]
                       /\ UNCHANGED forsaken
                    \/ /\ End(p, "failed")
                       /\ forsaken' = forsaken \cup {new}
       \/ /\ End(p, "failed")
          /\ UNCHANGED <<keys, issued, forsaken>>
    /\ UNCHANGED <<store, tokens, spent, disowned>>

\* Mutant: the error does not name the key.
DisownSilently(p) == End(p, "failed") /\ UNCHANGED disowned

\* "The key .. was created but not stored; revoke it in the Redis Cloud console".
Disown(p) ==
    /\ End(p, "failed")
    /\ disowned' = disowned \cup {proc[p].key}

\* One keyring write of apply_cloud_login; any of the three may be refused.
Put(p, pc, entry, value, next) ==
    /\ At(p, pc)
    /\ \/ /\ keyring' = [keyring EXCEPT ![entry] = value]
          /\ Goto(p, next)
          /\ UNCHANGED disowned
       \/ Disown(p) /\ UNCHANGED keyring
    /\ UNCHANGED <<file, pending, server, forsaken>>

PutApi(p) == Put(p, "putApi", "api", proc[p].key.acct, "putSecret")
PutSecret(p) ==
    Put(p, "putSecret", "secret", proc[p].key,
        IF proc[p].fresh = None THEN "check" ELSE "putRefresh")
PutRefresh(p) == Put(p, "putRefresh", "refresh", proc[p].fresh, "check")

-----------------------------------------------------------------------------
(* Saving the config: the startup snapshot, edited.  The source check, the *)
(* write and the re-read are three separate file operations.               *)

\* Mutant: the account and key name recorded at the previous login are kept.
NewFileKeepsRecord(p) ==
    [proc[p].snap EXCEPT
        !.cred = IF proc[p].cmd = "logout" THEN None
                 ELSE IF proc[p].plain THEN proc[p].key ELSE InKeyring]

NewFile(p) ==
    LET base == proc[p].snap
        key == proc[p].key
    IN  IF proc[p].cmd = "logout"
        THEN [base EXCEPT !.acct = None, !.key = None, !.cred = None]
        ELSE [base EXCEPT !.acct = key.acct, !.key = key.name,
                          !.cred = IF proc[p].plain THEN key ELSE InKeyring]

\* A failed save disowns the minted key; a logout's ends in the error alone.
SaveFailed(p) ==
    IF proc[p].cmd = "logout" THEN End(p, "failed") /\ UNCHANGED disowned ELSE Disown(p)

\* Mutant: nothing is written before the replaced key is revoked.
CheckSourceUnwritten(p) ==
    /\ At(p, "check")
    /\ IF file = proc[p].snap THEN Goto(p, "revoke") /\ UNCHANGED disowned ELSE SaveFailed(p)
    /\ UNCHANGED <<store, server, forsaken>>

\* Mutant: the replaced key is revoked before the config is saved.
CheckSourceThenRevoke(p) ==
    /\ At(p, "check")
    /\ IF file = proc[p].snap
       THEN /\ Goto(p, "write")
            /\ keys' = keys \ Recorded(proc[p].snap)
            /\ UNCHANGED <<tokens, spent, issued, disowned>>
       ELSE SaveFailed(p) /\ UNCHANGED server
    /\ UNCHANGED <<store, forsaken>>

\* ConfigDocument refuses to write over a source that changed since startup.
CheckSource(p) ==
    /\ At(p, "check")
    /\ IF file = proc[p].snap THEN Goto(p, "write") /\ UNCHANGED disowned ELSE SaveFailed(p)
    /\ UNCHANGED <<store, server, forsaken>>

WriteFile(p) ==
    /\ At(p, "write")
    /\ \/ file' = NewFile(p) /\ Goto(p, "verify") /\ UNCHANGED disowned
       \/ SaveFailed(p) /\ UNCHANGED file
    /\ UNCHANGED <<keyring, pending, server, forsaken>>

\* The re-read must find what was written.  A logout then prints its notes and is done.  After
\* an overwrite in between no note names the key whose record this command replaced.
VerifyFile(p) ==
    /\ At(p, "verify")
    /\ \/ /\ file # NewFile(p)
          /\ SaveFailed(p)
          /\ forsaken' = forsaken \cup (Custody(p) \ Recorded(file))
       \/ /\ file = NewFile(p) /\ proc[p].cmd = "logout"
          /\ End(p, "ok")
          /\ forsaken' = forsaken \cup Recorded(proc[p].snap)
          /\ UNCHANGED disowned
       \/ /\ file = NewFile(p) /\ proc[p].cmd # "logout"
          /\ Goto(p, "revoke")
          /\ UNCHANGED ghost
    /\ UNCHANGED <<store, server>>

\* DELETE cloudApiKeys/{id}: the key is gone, and nobody has to account for it any more.
Delete(k) ==
    /\ keys' = keys \ {k}
    /\ disowned' = disowned \ {k}
    /\ forsaken' = forsaken \ {k}

\* The replaced key is revoked by its name on its account, once its successor is saved.
RevokeSuperseded(p) ==
    /\ At(p, "revoke")
    /\ \/ \E k \in Recorded(proc[p].snap) : Delete(k)
       \/ /\ forsaken' = forsaken \cup Recorded(proc[p].snap)
          /\ UNCHANGED <<keys, disowned>>
    /\ IF proc[p].cmd = "login" THEN End(p, "ok") ELSE Goto(p, "clear")
    /\ UNCHANGED <<store, tokens, spent, issued>>

\* The pending file is removed if it can be: nobody looks at the result.
DropPending == pending' \in {None, pending}

\* status --wait and switch drop the pending authorization last.
ClearPending(p) ==
    /\ At(p, "clear")
    /\ DropPending
    /\ End(p, "ok")
    /\ UNCHANGED <<file, keyring, server, ghost>>

-----------------------------------------------------------------------------
(* logout: revoke the key, then the sign-in, then forget both locally.     *)

RevokeKey(p) ==
    /\ At(p, "revokeKey")
    /\ \/ \E k \in Recorded(proc[p].snap) : Delete(k)
       \/ UNCHANGED <<keys, ghost>>
    /\ Goto(p, "revokeToken")
    /\ UNCHANGED <<store, tokens, spent, issued>>

\* Mutant: the stored token is revoked rather than the one rotation gave for it.
NewestIsStored(p) == proc[p].tok

Newest(p) == IF proc[p].fresh # None THEN proc[p].fresh ELSE proc[p].tok

\* The sign-in counts as revoked (no token is left to speak of), or a note says that it is not.
RevokeToken(p) ==
    /\ At(p, "revokeToken")
    /\ \/ /\ tokens' = tokens \ {Newest(p)}
          /\ proc' = [proc EXCEPT ![p].pc = "forget", ![p].tok = None]
       \/ Goto(p, "forget") /\ UNCHANGED tokens
    /\ UNCHANGED <<store, keys, spent, issued, ghost>>

\* Each of the three deletions is best effort, and so is that of the pending record.
Forget(p) ==
    /\ At(p, "forget")
    /\ \E gone \in SUBSET DOMAIN keyring :
          keyring' = [e \in DOMAIN keyring |-> IF e \in gone THEN None ELSE keyring[e]]
    /\ DropPending
    /\ Goto(p, "check")
    /\ UNCHANGED <<file, server, ghost>>

-----------------------------------------------------------------------------

\* Killed between two steps: what it answered for and no file records is forsaken.
Crash(p) ==
    /\ Kills
    /\ Running(p)
    /\ End(p, "failed")
    /\ forsaken' = forsaken \cup (Custody(p) \ Recorded(file))
    /\ UNCHANGED <<store, server, disowned>>

\* Another command or an editor changes an unrelated part of the config file.
EditFile ==
    /\ file.other < MaxEdits
    /\ file' = [file EXCEPT !.other = @ + 1]
    /\ UNCHANGED <<keyring, pending, server, proc, ghost>>

Begin(p) ==
    \/ StartLogin(p) \/ StartDevice(p) \/ StartStatus(p)
    \/ StartSwitch(p) \/ StartAccounts(p) \/ StartLogout(p)

Step(p) ==
    \/ SignIn(p) \/ PollPending(p) \/ ReadToken(p) \/ Refresh(p) \/ KeepToken(p)
    \/ ChooseStore(p) \/ Mint(p) \/ PutApi(p) \/ PutSecret(p) \/ PutRefresh(p)
    \/ CheckSource(p) \/ WriteFile(p) \/ VerifyFile(p) \/ RevokeSuperseded(p) \/ ClearPending(p)
    \/ RevokeKey(p) \/ RevokeToken(p) \/ Forget(p)

Next == EditFile \/ \E p \in Proc : Begin(p) \/ Step(p) \/ Crash(p)

Spec == Init /\ [][Next]_vars

-----------------------------------------------------------------------------
(* Properties.                                                             *)

\* Revoking what a login or switch replaced never revokes the key the profile resolves to, as
\* long as the config is the one it saved: complete_and_persist revokes last, so that it
\* "cannot leave this profile without a working key".  It holds for any number of commands at
\* once, provided key names are unique.  (Without the condition it does not: the source check
\* and the write are two operations, so a command that checked earlier may still write over the
\* saved config and bring back a reference to a key that is about to be revoked.)
RevokeSparesInUse ==
    \A p \in Proc : At(p, "revoke") /\ file = NewFile(p) => InUse \notin Recorded(proc[p].snap)

\* Credentials stored in the config file itself are those of the key the file records, however
\* the commands interleave.
PlaintextMatchesRecord ==
    file.cred \in Key => file.acct = file.cred.acct /\ file.key = file.cred.name

\* With one command at a time, the profile already works with the replacement when the replaced
\* key is about to be revoked.
ReplacementWorks ==
    \A p \in Proc : At(p, "revoke") => Usable /\ InUse = proc[p].key

\* A login, status --wait or switch that reports success leaves a profile that works with the
\* key it minted, recorded under its name and account, whatever earlier commands left behind.
SuccessWorks ==
    [][\A p \in Proc :
          Running(p) /\ proc'[p].pc = "ok" /\ proc[p].key # None =>
             /\ Usable' /\ InUse' = proc[p].key
             /\ proc[p].key \in Recorded(file)']_vars

\* A command that fails leaves alive every key that was: only a logout, and a login or switch
\* whose replacement the profile already resolves to, delete keys.
OnlyReplacedKeysDie ==
    [][\A k \in keys \ keys' : \E p \in Proc :
          /\ k \in Recorded(proc[p].snap)
          /\ proc[p].cmd = "logout" \/ InUse = proc[p].key]_vars

\* No key is left behind unsaid: each live key is recorded in the config file, answered for by
\* a running command, named in a message, or was lost to a kill, an overwrite or a lost reply.
NoSilentKey ==
    keys \subseteq Recorded(file) \cup disowned \cup forsaken
                  \cup UNION {Custody(p) : p \in {q \in Proc : Running(q)}}

\* A logout that reports the sign-in revoked has retired both the stored token and the one
\* rotation gave for it, so nothing it held "can mint another key".
LogoutEndsSignIn ==
    [][\A p \in Proc : At(p, "revokeToken") /\ proc'[p].pc = "forget" /\ proc'[p].tok = None =>
          {proc[p].tok, proc[p].fresh} \cap tokens' = {}]_vars

\* status --wait completes the login that was asked for: the account and the store chosen by
\* `login --device` survive into the process that mints and reports success.
PendingHonoured ==
    [][\A p \in Proc : At(p, "clear") /\ proc[p].cmd = "status" /\ proc'[p].pc = "ok" =>
          /\ pending.acct \in {None, file.acct}
          /\ pending.plain <=> file.cred \in Key]_vars

\* What a run holds agrees with where it is: only a minting command has a key, and from its
\* mint on it has one.
Agrees(run) ==
    /\ run.cmd = "logout" => run.key = None
    /\ run.pc \in {"signin", "poll", "choose", "mint"} => run.cmd \in MintingCmd
    /\ run.pc \in {"readToken", "refresh"} => run.cmd \in {"switch", "accounts", "logout"}
    /\ run.pc \in {"revokeKey", "revokeToken", "forget"} => run.cmd = "logout"
    /\ run.pc \in {"putApi", "putSecret", "putRefresh", "revoke", "clear"} => run.key # None
    /\ run.pc \in {"check", "write", "verify"} => run.cmd = "logout" \/ run.key # None

KeyHeld == \A p \in Proc : Agrees(proc[p])

\* No name is younger than the last mint's second.
NamesIssued ==
    /\ file.key # None => file.key <= issued.second
    /\ \A p \in Proc :
          /\ proc[p].snap.key # None => proc[p].snap.key <= issued.second
          /\ proc[p].key # None => proc[p].key.name <= issued.second

\* While a key is not saved no config names it, startup snapshots included; no two runs hold
\* keys of one name, nor a run a key of the name it replaces; and once a run has put its secret
\* into the keyring, the secret there is never again the one of the key it replaces.
Unsaved == {"putApi", "putSecret", "putRefresh", "check", "write"}
Stored == {"putRefresh", "check", "write", "verify", "revoke"}

Fresh(p) ==
    LET name == proc[p].key.name
    IN  /\ name # proc[p].snap.key
        /\ \A q \in Proc \ {p} : proc[q].key # None => proc[q].key.name # name
        /\ proc[p].pc \in Unsaved => name # file.key /\ \A q \in Proc : name # proc[q].snap.key
        /\ proc[p].pc \in Stored /\ ~proc[p].plain /\ keyring.secret # None =>
              keyring.secret.name # proc[p].snap.key

KeysFresh == \A p \in Proc : proc[p].key # None => Fresh(p)

\* Why RevokeSparesInUse holds: inductive, given TypeOK and unique names.
RevokeSafeInv == KeyHeld /\ NamesIssued /\ KeysFresh

\* With one command at a time: the key a run minted is live until the run ends; once stored in
\* the keyring it stays there, and once saved the profile resolves to it.
Saved == {"verify", "revoke"}

HeldKeyWorks ==
    \A p \in Proc : proc[p].key # None =>
        /\ proc[p].pc \in Unsaved \cup Saved => proc[p].key \in keys
        /\ proc[p].pc \in Stored /\ ~proc[p].plain => keyring.secret = proc[p].key
        /\ proc[p].pc \in Saved => file.cred = IF proc[p].plain THEN proc[p].key ELSE InKeyring

\* Every command, however they interleave: no token is younger than the last one issued, and a
\* logout whose refresh rotated the stored token holds a token that is no longer accepted.
RetiresToken(run, last, accepted) ==
    /\ run.tok # None => run.tok <= last
    /\ run.fresh # None => run.fresh <= last
    /\ run.pc \in {"readToken", "refresh"} => run.fresh = None
    /\ run.pc \in {"refresh", "revokeKey", "revokeToken"} => run.tok # None
    /\ run.pc \in {"revokeKey", "revokeToken"} /\ run.fresh # None => run.tok \notin accepted

TokensRetired ==
    /\ keyring.refresh # None => keyring.refresh <= issued.tokens
    /\ \A p \in Proc : RetiresToken(proc[p], issued.tokens, tokens)

\* With one command at a time: until a run saves, the file records what its snapshot does, and
\* from then on the key it minted, on the account it was asked for; its writes to the keyring
\* stay; and a `status --wait` still works on the pending authorization it read.
Written == Saved \cup {"clear"}

RecordsRun(p) ==
    LET run == proc[p]
    IN  /\ Running(p) /\ run.pc \notin Written =>
              file.acct = run.snap.acct /\ file.key = run.snap.key
        /\ run.key # None => run.pc \in Unsaved \cup Written /\ run.want \in {None, run.key.acct}
        /\ run.key # None /\ run.pc \in Written =>
              /\ file.acct = run.key.acct /\ file.key = run.key.name
              /\ file.cred = IF run.plain THEN run.key ELSE InKeyring
        /\ run.key # None /\ run.pc \in Stored \cup {"putSecret"} /\ ~run.plain =>
              keyring.api = run.key.acct
        /\ Running(p) /\ run.cmd = "status" =>
              pending = [acct |-> run.want, plain |-> run.plain, code |-> run.code]

RunsRecorded == \A p \in Proc : RecordsRun(p)

\* No two live keys share a name, and none is named after a second to come.
KeyNamesUnique ==
    /\ \A k \in keys : k.name <= issued.second
    /\ \A k, l \in keys : k.name = l.name => k = l

\* With one command at a time and unique names: once the replaced key was dealt with, the
\* profile works with its replacement, and the replaced key is gone or a note names it.
ReplacedGone ==
    \A p \in Proc : At(p, "clear") =>
        /\ Usable /\ InUse = proc[p].key
        /\ Recorded(proc[p].snap) \subseteq forsaken

\* One command at a time implements KeyCustody, whatever fails and wherever it is killed: the
\* profile comes to use live keys only, and the key in use is revoked by nothing but a logout.
Leaving == \E p \in Proc : Running(p) /\ proc[p].cmd = "logout"
Custodian == INSTANCE KeyCustody WITH live <- keys, used <- InUse, leaving <- Leaving
KeyCustodyKept == Custodian!Spec

-----------------------------------------------------------------------------
(* What a message of the source claims, and the commands do not keep: it   *)
(* is refuted by a run of its own.                                         *)

\* "The key .. was created but not stored; revoke it in the Redis Cloud console": following
\* the advice does not cost the profile the key it uses.
DisownedNotInUse == InUse \notin disowned

=============================================================================
