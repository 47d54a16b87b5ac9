----------------------------- MODULE SmExchange -----------------------------
(***************************************************************************)
(* The token-to-key exchange of redisctl-core's CloudAuthenticator with    *)
(* the Redis Cloud session API: sign in (with multi-factor challenges),    *)
(* settle the account, switch programmatic access on, mint a key, and      *)
(* later revoke the key it replaces; list the accounts; revoke a key by    *)
(* name at logout.                                                         *)
(*                                                                         *)
(* The server resolves every call by the session's current account, which  *)
(* starts on the user's default (or on none) and moves with `setcurrent`.  *)
(* A call may fail before or after it took effect, a `setcurrent` may be   *)
(* accepted without moving the session, and meanwhile others change        *)
(* memberships, programmatic access and keys.                              *)
(***************************************************************************)
EXTENDS Naturals, FiniteSets

CONSTANTS
    Account,     \* account ids
    None,        \* an absent value
    MfaAttempts, \* MFA_MAX_ATTEMPTS
    NumericIds,  \* are user ids always numeric?
    Faults,      \* may calls fail and setcurrent not take?
    MaxNames,    \* bound: key names given
    MaxChanges   \* bound: changes by others

Maybe(S) == S \cup {None}
Key == [acct : Account, name : Nat]
Recorded == [acct : Maybe(Account), name : Nat]

ASSUME SmAssumption ==
    /\ Account \subseteq Nat /\ IsFiniteSet(Account) /\ None \notin Nat
    /\ MfaAttempts \in Nat \ {0} /\ MaxNames \in Nat /\ MaxChanges \in Nat
    /\ None \notin Key /\ None \notin Recorded
    /\ NumericIds \in BOOLEAN /\ Faults \in BOOLEAN

VARIABLES
    members,  \* accounts the user belongs to
    access,   \* accounts whose programmatic access is on
    keys,     \* live API keys
    names,    \* key names given so far, and changes by others
    session,  \* the account the server has the session on
    record,   \* the account and key name the profile recorded last
    run       \* the exchange under way, or the last one

vars == <<members, access, keys, names, session, record, run>>

Ends == {"idle", "failed", "listed", "revoked", "absent"}
Phase == Ends \cup
    {"login", "mfa", "user", "accounts", "pick", "member", "set", "confirm", "settle", "enable",
     "reread", "mint", "granted", "entries", "delete"}

\* How the account to mint for is decided: as the session stands, by id, or by a picker.
Choice == {"current", "id", "login", "switch"}

Run == [pc : Phase, op : {"mint", "list", "revoke"}, choice : Choice, want : Maybe(Account),
        attempt : 0..MfaAttempts, reported : Maybe(Account), chosen : Maybe(Account),
        enabled : Maybe(Account), made : Maybe(Key), key : Maybe(Key), prev : Maybe(Recorded)]

TypeOK ==
    /\ members \subseteq Account /\ access \subseteq Account /\ keys \subseteq Key
    /\ names \in [given : 0..MaxNames, changes : 0..MaxChanges]
    /\ session \in Maybe(Account)
    /\ record \in Maybe(Key)
    /\ run \in Run

Blank == [pc |-> "idle", op |-> "list", choice |-> "current", want |-> None, attempt |-> 0,
          reported |-> None, chosen |-> None, enabled |-> None, made |-> None, key |-> None,
          prev |-> None]

Init ==
    /\ members \in SUBSET Account
    /\ access \in SUBSET Account
    /\ keys = {}
    /\ names = [given |-> 0, changes |-> 0]
    /\ session = None
    /\ record = None
    /\ run = Blank

-----------------------------------------------------------------------------

server == <<members, access, keys, names>>

At(pc) == run.pc = pc
Goto(pc) == run' = [run EXCEPT !.pc = pc]

\* A failed call, a refusal or a declined prompt ends the exchange with an error.
Fail == Goto("failed")

\* Any call may go unanswered.
Unanswered == Faults /\ Fail

\* The account a session call is about: with no current one, any the user belongs to.
Where == IF session # None THEN {session} ELSE members

Begin(op, choice, want, prev) ==
    /\ run.pc \in Ends
    /\ run' = [Blank EXCEPT !.pc = "login", !.op = op, !.choice = choice, !.want = want,
                            !.prev = prev]
    /\ session' = None
    /\ UNCHANGED <<server, record>>

\* complete_login_with_mfa, on behalf of login, status --wait or switch.
StartMint ==
    \E choice \in Choice, want \in Maybe(Account) :
        /\ choice = "id" <=> want # None
        /\ Begin("mint", choice, want, record)

\* list_accounts
StartList == Begin("list", "current", None, None)

\* revoke_capi_key; profiles written by older versions record no account.
StartRevoke ==
    /\ record # None
    /\ \E acct \in {record.acct, None} :
          Begin("revoke", "current", None, [acct |-> acct, name |-> record.name])

-----------------------------------------------------------------------------
(* Signing in.                                                             *)

SignedIn ==
    /\ session' \in Maybe(members)
    /\ Goto(IF run.op # "revoke" THEN "user" ELSE IF run.prev.acct = None THEN "entries" ELSE "set")

\* POST /login and GET /csrf.  Only a revocation cannot answer a challenge.
Login ==
    /\ At("login")
    /\ \/ SignedIn
       \/ /\ run.op # "revoke"
          /\ run' = [run EXCEPT !.pc = "mfa", !.attempt = 1]
          /\ UNCHANGED session
       \/ Fail /\ UNCHANGED session
    /\ UNCHANGED <<server, record>>

\* Mutant: the count starts over when it is spent.
MfaStartsOver ==
    /\ At("mfa")
    /\ \/ SignedIn
       \/ /\ run' = [run EXCEPT !.attempt = (@ % MfaAttempts) + 1]
          /\ UNCHANGED session
       \/ Fail /\ UNCHANGED session
    /\ UNCHANGED <<server, record>>

\* Mutant: one code more than MFA_MAX_ATTEMPTS.
MfaOneMore ==
    /\ At("mfa")
    /\ \/ SignedIn
       \/ /\ run.attempt <= MfaAttempts
          /\ run' = [run EXCEPT !.attempt = @ + 1]
          /\ UNCHANGED session
       \/ Fail /\ UNCHANGED session
    /\ UNCHANGED <<server, record>>

\* satisfy_mfa: a wrong code asks again while attempts are left; a declined prompt and any
\* other error give up.
Mfa ==
    /\ At("mfa")
    /\ \/ SignedIn
       \/ /\ run.attempt < MfaAttempts
          /\ run' = [run EXCEPT !.attempt = @ + 1]
          /\ UNCHANGED session
       \/ Fail /\ UNCHANGED session
    /\ UNCHANGED <<server, record>>

\* GET /users/me
FetchUser ==
    /\ At("user")
    /\ \/ run' = [run EXCEPT !.reported = session,
                             !.pc = IF run.op = "list" THEN "accounts" ELSE "pick"]
       \/ Unanswered
    /\ UNCHANGED <<server, session, record>>

ListAccounts ==
    /\ At("accounts")
    /\ Goto("listed") \/ Unanswered
    /\ UNCHANGED <<server, session, record>>

-----------------------------------------------------------------------------
(* Settling the account.                                                   *)

\* Row i of the listing, which is sorted by id.
Row(i) == {a \in members : Cardinality({b \in members : b < a}) = i - 1}

\* A list position wins over an id.
Resolved(typed) == IF Row(typed) # {} THEN Row(typed) ELSE {typed} \cap members

\* prompt_account: what the user types in up to three attempts, or a refusal.
Prompt ==
    \/ /\ Cardinality(members) >= 2
       /\ \E typed \in 1..Cardinality(members) \cup Account : \E a \in Resolved(typed) :
             run' = [run EXCEPT !.pc = "member", !.want = a]
    \/ Fail

\* account_for_login asks only where the session leaves the account open.
PickForLogin ==
    CASE run.reported \in members -> run' = [run EXCEPT !.pc = "member", !.want = run.reported]
      [] run.reported \notin members /\ Cardinality(members) = 1 ->
            \E a \in members : run' = [run EXCEPT !.pc = "member", !.want = a]
      [] OTHER -> Prompt

PickAccount ==
    /\ At("pick")
    /\ \/ run.choice = "current" /\ Goto("settle")
       \/ run.choice = "id" /\ Goto("member")
       \/ run.choice = "login" /\ PickForLogin
       \/ run.choice = "switch" /\ Prompt
       \/ run.choice \in {"login", "switch"} /\ Unanswered
    /\ UNCHANGED <<server, session, record>>

\* switch_account: membership is checked before setcurrent.
CheckMember ==
    /\ At("member")
    /\ \/ run.reported = run.want /\ Goto("settle")
       \/ /\ run.reported # run.want
          /\ Goto(IF run.want \in members THEN "set" ELSE "failed") \/ Unanswered
    /\ UNCHANGED <<server, session, record>>

Target == IF run.key = None /\ run.op = "mint" THEN run.want ELSE run.prev.acct
Onward == IF run.key = None /\ run.op = "mint" THEN "settle" ELSE "entries"

\* POST /accounts/setcurrent/{id}: accepted or not, it may have moved the session or not.
SetCurrent ==
    /\ At("set")
    /\ \/ session' = Target /\ Goto("confirm")
       \/ UNCHANGED session /\ Faults /\ Goto("confirm")
       \/ session' \in {session, Target} /\ Unanswered
    /\ UNCHANGED <<server, record>>

\* Mutant: a successful setcurrent is taken at its word.
ConfirmTrusting ==
    /\ At("confirm")
    /\ run' = [run EXCEPT !.reported = Target, !.pc = Onward]
    /\ UNCHANGED <<server, session, record>>

\* set_current_account_verified: the session itself has to report the account.
Confirm ==
    /\ At("confirm")
    /\ \/ session = Target /\ run' = [run EXCEPT !.reported = Target, !.pc = Onward]
       \/ session # Target /\ Fail
       \/ Unanswered
    /\ UNCHANGED <<server, session, record>>

\* Mutant: the only account listed is taken, whatever the session reports.
SettleLone ==
    /\ At("settle")
    /\ \/ /\ run.reported \in members
          /\ run' = [run EXCEPT !.pc = "enable", !.chosen = run.reported]
       \/ /\ run.reported \notin members
          /\ IF Cardinality(members) = 1
             THEN run' = [run EXCEPT !.pc = "enable", !.chosen = CHOOSE a \in members : TRUE]
             ELSE Fail
    /\ UNCHANGED <<server, session, record>>

\* resolve_account: the account the session reports, or the only one when it reports none.
Settle ==
    /\ At("settle")
    /\ \/ /\ run.reported \in members
          /\ run' = [run EXCEPT !.pc = "enable", !.chosen = run.reported]
       \/ /\ run.reported \notin members
          /\ IF run.reported = None /\ Cardinality(members) = 1
             THEN run' = [run EXCEPT !.pc = "enable", !.chosen = CHOOSE a \in members : TRUE]
             ELSE Fail
       \/ Unanswered
    /\ UNCHANGED <<server, session, record>>

-----------------------------------------------------------------------------
(* Minting.                                                                *)

\* ensure_capi_enabled: switched on now, already on, refused, or switched on unheard.
Enable ==
    /\ At("enable")
    /\ \/ \E a \in Where \ access :
            /\ access' = access \cup {a}
            /\ \/ run' = [run EXCEPT !.enabled = a, !.pc = "reread"]
               \/ Faults /\ run' = [run EXCEPT !.enabled = a, !.pc = "failed"]
       \/ Where \cap access # {} /\ Goto("reread") /\ UNCHANGED access
       \/ Fail /\ UNCHANGED access
    /\ UNCHANGED <<members, keys, names, session, record>>

\* The access key comes from the settled account's entry, read again.
Reread ==
    /\ At("reread")
    /\ \/ Goto(IF run.chosen \in members \cap access THEN "mint" ELSE "failed")
       \/ Unanswered
    /\ UNCHANGED <<server, session, record>>

\* Mutant: a mint whose reply is lost is tried again.
MintRetried ==
    /\ At("mint")
    /\ names.given < MaxNames
    /\ \E a \in Where :
          LET new == [acct |-> a, name |-> names.given + 1]
          IN  /\ keys' = keys \cup {new}
              /\ names' = [names EXCEPT !.given = @ + 1]
              /\ \/ run' = [run EXCEPT !.pc = "granted", !.made = new, !.key = new]
                 \/ Faults /\ run' = [run EXCEPT !.made = new]
    /\ UNCHANGED <<members, access, session, record>>

\* mint_capi_key, by a numeric user id; the sprawl count after it never fails the exchange.
Mint ==
    /\ At("mint")
    /\ \/ /\ names.given < MaxNames
          /\ \E a \in Where :
             LET new == [acct |-> a, name |-> names.given + 1]
             IN  /\ keys' = keys \cup {new}
                 /\ names' = [names EXCEPT !.given = @ + 1]
                 /\ \/ run' = [run EXCEPT !.pc = "granted", !.made = new, !.key = new]
                    \/ Faults /\ run' = [run EXCEPT !.pc = "failed", !.made = new]
       \/ ~NumericIds /\ Fail /\ UNCHANGED <<keys, names>>
       \/ Unanswered /\ UNCHANGED <<keys, names>>
    /\ UNCHANGED <<members, access, session, record>>

\* The caller stores the key and only then lets the revoker delete the one it replaces; a
\* caller that could not store it drops the revoker.
Deliver ==
    /\ At("granted")
    /\ \/ /\ record' = [acct |-> run.chosen, name |-> run.key.name]
          /\ Goto(IF run.prev = None THEN "idle"
                  ELSE IF run.prev.acct = run.chosen THEN "entries" ELSE "set")
       \/ Goto("idle") /\ UNCHANGED record
    /\ UNCHANGED <<server, session>>

-----------------------------------------------------------------------------
(* Revoking by name.                                                       *)

\* GET cloudApiKeys: the entry of that name among those of the session's account.  An error
\* reply is not told from a list: read as one, it has no entry.
FindEntry ==
    /\ At("entries")
    /\ \/ \E a \in Where :
             Goto(IF [acct |-> a, name |-> run.prev.name] \in keys THEN "delete" ELSE "absent")
       \/ Faults /\ Goto("absent")
       \/ Unanswered
    /\ UNCHANGED <<server, session, record>>

\* DELETE cloudApiKeys/{id}
DeleteKey ==
    /\ At("delete")
    /\ \/ \E a \in Where :
            /\ keys' = keys \ {[acct |-> a, name |-> run.prev.name]}
            /\ Goto("revoked") \/ Unanswered
       \/ Fail /\ UNCHANGED keys
    /\ UNCHANGED <<members, access, names, session, record>>

-----------------------------------------------------------------------------
(* Everyone else: admins, the console, the user's other profiles (whose    *)
(* keys may be named after the same second).  Nobody joins an account.     *)

Others ==
    /\ names.changes < MaxChanges
    /\ names' = [names EXCEPT !.changes = @ + 1]
    /\ \/ \E a \in members : members' = members \ {a} /\ UNCHANGED <<access, keys>>
       \/ \E a \in Account : access' \in {access \cup {a}, access \ {a}} /\ UNCHANGED <<members, keys>>
       \/ \E a \in Account, n \in 1..names.given :
             keys' = keys \cup {[acct |-> a, name |-> n]} /\ UNCHANGED <<members, access>>
       \/ \E k \in keys : keys' = keys \ {k} /\ UNCHANGED <<members, access>>
    /\ UNCHANGED <<session, record, run>>

Start == StartMint \/ StartList \/ StartRevoke

Step ==
    \/ Login \/ Mfa \/ FetchUser \/ ListAccounts
    \/ PickAccount \/ CheckMember \/ SetCurrent \/ Confirm \/ Settle
    \/ Enable \/ Reread \/ Mint \/ Deliver \/ FindEntry \/ DeleteKey

Next == Start \/ Step \/ Others

\* Fairness: calls are answered or break, and prompts are answered or interrupted.
Spec == Init /\ [][Next]_vars /\ WF_vars(Step)

-----------------------------------------------------------------------------
(* Properties.                                                             *)

\* "guessing here pairs two halves that need not belong together": the access key, the secret
\* and the account reported with them are of one account, and it is the one asked for.
PairBelongsTogether ==
    run.key # None => /\ run.key.acct = run.chosen
                      /\ run.want # None => run.chosen = run.want

\* Programmatic access is switched on for the account the key is going to be for, and for no
\* other: whatever refuses the account refuses before.
AccessOnlyWhereChosen == run.enabled # None => run.enabled = run.chosen

\* Why these hold: until the account is settled nothing is made and what the session reports is
\* where it is; from then on every call can only be about the account settled; and a revocation
\* goes on only when the session is on the recorded account.
Early == {"login", "mfa", "user", "accounts", "pick", "member", "settle"}
Unpicked == {"login", "mfa", "user", "pick"}
Settled == {"enable", "reread", "mint", "granted"}
Moving == {"set", "confirm"}
ForMint == run.op = "mint" /\ run.key = None

Purpose ==
    /\ run.op = "revoke" => run.prev # None
    /\ run.choice = "id" => run.want # None
    /\ run.choice = "current" \/ (run.pc \in Unpicked /\ run.choice # "id") => run.want = None
    /\ run.pc \in {"mfa", "user"} => run.op # "revoke"
    /\ run.pc \in {"pick", "member", "settle"} => run.op = "mint" /\ run.reported = session
    /\ At("member") => run.want # None
    /\ At("settle") /\ run.want # None => run.reported = run.want

Progress ==
    /\ run.pc \in Early => run.key = None /\ run.made = None /\ run.enabled = None
    /\ run.pc \in Moving =>
          IF ForMint THEN run.want # None /\ run.made = None /\ run.enabled = None
          ELSE run.prev # None
    /\ run.pc \in Settled =>
          /\ run.op = "mint" /\ Where \subseteq {run.chosen}
          /\ run.want # None => run.chosen = run.want
          /\ run.key # None <=> At("granted")
    /\ run.pc \in {"entries", "delete"} =>
          run.prev # None /\ ~ForMint /\ (run.prev.acct # None => Where \subseteq {run.prev.acct})

PairInv == Purpose /\ Progress /\ PairBelongsTogether /\ AccessOnlyWhereChosen

\* A revocation deletes the key the profile records, on the account it records.
DeletesTheRecorded ==
    [][At("delete") /\ run' # run => \A k \in keys \ keys' :
          k.name = run.prev.name /\ run.prev.acct \in {None, k.acct}]_vars

\* Every exchange ends, however many codes are rejected.
ExchangeEnds == run.pc \notin Ends ~> run.pc \in Ends

\* The exchange implements KeyGrant.
Minting == run.op = "mint" /\ run.pc \notin Ends
Grant == INSTANCE KeyGrant WITH
    open <- Minting /\ run.pc # "granted" /\ run.key = None,
    want <- run.want, made <- run.made, answer <- run.key
GrantKept == Grant!Spec

\* "the key .. was not found on account ..; it may already be revoked" is said of a key that
\* is gone.  Refuted: an error reply to the listing reads as an empty list.
AbsentIsGone ==
    [][At("entries") /\ run'.pc = "absent" /\ run.prev.acct # None =>
          [acct |-> run.prev.acct, name |-> run.prev.name] \notin keys]_vars
=============================================================================
