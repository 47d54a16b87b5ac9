-------------------------- MODULE KeyCustodyProofs --------------------------
(***************************************************************************)
(* One command at a time, whatever fails, wherever it is killed, and for   *)
(* any number of accounts, keys and tokens: CloudAuth implements           *)
(* KeyCustody, a success leaves a profile that works, and no live key is   *)
(* left behind unsaid.                                                     *)
(***************************************************************************)
EXTENDS CloudAuthProofs

Solo == \A p, q \in Proc : p = q

LEMMA InitWorks == Init => HeldKeyWorks
  BY DEF Init, HeldKeyWorks, Blank

\* A run that ends, begins or is where nothing is minted yet has nothing to keep.
LEMMA RestWorks ==
  ASSUME Solo, NEW p \in Proc,
         proc'[p].key = None \/ proc'[p].pc \notin Unsaved \cup Saved \cup Stored
  PROVE  HeldKeyWorks'
  BY DEF Solo, HeldKeyWorks

\* With one command at a time, only the run that steps is to be looked at.
LEMMA SoloWorks ==
  ASSUME Solo, NEW p \in Proc,
         proc'[p].pc \in Unsaved \cup Saved => proc'[p].key \in keys',
         proc'[p].pc \in Stored /\ ~proc'[p].plain => keyring'.secret = proc'[p].key,
         proc'[p].pc \notin Saved
  PROVE  HeldKeyWorks'
  BY DEF Solo, HeldKeyWorks

LEMMA EndWorks ==
  ASSUME TypeOK, Solo, NEW p \in Proc, NEW result, End(p, result)
  PROVE  HeldKeyWorks'
<1>1. proc'[p].key = None
  BY DEF End, TypeOK, Blank
<1> QED BY <1>1, RestWorks

LEMMA GotoRestWorks ==
  ASSUME TypeOK, Solo, NEW p \in Proc, NEW pc, Goto(p, pc), pc \notin Unsaved \cup Saved \cup Stored
  PROVE  HeldKeyWorks'
<1>1. proc'[p].pc = pc
  BY DEF Goto, TypeOK, Process
<1> QED BY <1>1, RestWorks

LEMMA BeginWorks ==
  ASSUME TypeOK, Solo, NEW p \in Proc, Begin(p)
  PROVE  HeldKeyWorks'
<1>1. proc'[p].key = None
  BY DEF Begin, StartLogin, StartDevice, StartStatus, StartSwitch, StartAccounts, StartLogout,
         Start, End, Blank, TypeOK
<1> QED BY <1>1, RestWorks

\* Signing in, refreshing and logging out.
LEMMA TokenWorks ==
  ASSUME TypeOK, KeyHeld, Solo, NEW p \in Proc,
         SignIn(p) \/ PollPending(p) \/ ReadToken(p) \/ Refresh(p) \/ KeepToken(p)
         \/ ChooseStore(p) \/ RevokeSuperseded(p) \/ ClearPending(p) \/ RevokeKey(p)
         \/ RevokeToken(p) \/ Forget(p) \/ Crash(p)
  PROVE  HeldKeyWorks'
<1> USE DEF Unsaved, Saved, Stored
<1>1. ASSUME NEW pc, NEW token, pc \notin Unsaved \cup Saved \cup Stored,
             proc' = [proc EXCEPT ![p].pc = pc, ![p].fresh = token]
      PROVE  HeldKeyWorks'
  <2>1. proc'[p].pc = pc
    BY <1>1 DEF TypeOK, Process
  <2> QED BY <1>1, <2>1, RestWorks
<1>2. CASE SignIn(p) \/ PollPending(p)
  BY <1>1, <1>2, EndWorks DEF SignIn, PollPending
<1>3. CASE ReadToken(p)
  <2>1. proc' = [proc EXCEPT ![p].pc = "refresh", ![p].tok = keyring.refresh] => proc'[p].pc = "refresh"
    BY DEF TypeOK, Process
  <2> QED BY <1>3, <2>1, RestWorks, GotoRestWorks, EndWorks DEF ReadToken
<1>4. CASE Refresh(p)
  <2>1. AfterRefresh(proc[p].cmd) \notin Unsaved \cup Saved \cup Stored
    BY DEF AfterRefresh
  <2>2. NoRefresh(p) => HeldKeyWorks'
    BY GotoRestWorks, EndWorks DEF NoRefresh
  <2> QED BY <1>1, <1>4, <2>1, <2>2, GotoRestWorks DEF Refresh
<1>5. CASE KeepToken(p) \/ ChooseStore(p) \/ RevokeSuperseded(p) \/ ClearPending(p)
  BY <1>5, GotoRestWorks, EndWorks DEF KeepToken, ChooseStore, RevokeSuperseded, ClearPending
<1>6. CASE RevokeKey(p) \/ Crash(p)
  BY <1>6, GotoRestWorks, EndWorks DEF RevokeKey, Crash
<1>7. CASE RevokeToken(p)
  <2>1. proc' = [proc EXCEPT ![p].pc = "forget", ![p].tok = None] => proc'[p].pc = "forget"
    BY DEF TypeOK, Process
  <2> QED BY <1>7, <2>1, RestWorks, GotoRestWorks DEF RevokeToken
<1>8. CASE Forget(p)
  <2>1. proc[p].key = None
    BY <1>8 DEF Forget, At, KeyHeld, Agrees
  <2>2. proc'[p].key = None
    BY <1>8, <2>1 DEF Forget, Goto, TypeOK, Process
  <2> QED BY <2>2, RestWorks
<1> QED BY <1>2, <1>3, <1>4, <1>5, <1>6, <1>7, <1>8

\* Minting, storing and saving.
LEMMA DisownWorks ==
  ASSUME TypeOK, Solo, NEW p \in Proc, Disown(p) \/ SaveFailed(p)
  PROVE  HeldKeyWorks'
  BY EndWorks DEF Disown, SaveFailed

LEMMA StoreWorks ==
  ASSUME TypeOK, KeyHeld, HeldKeyWorks, Solo, NEW p \in Proc,
         Mint(p) \/ PutApi(p) \/ PutSecret(p) \/ PutRefresh(p)
         \/ CheckSource(p) \/ WriteFile(p) \/ VerifyFile(p)
  PROVE  HeldKeyWorks'
<1> USE DEF Unsaved, Saved, Stored
<1>1. ASSUME NEW pc, Goto(p, pc)
      PROVE  proc'[p].pc = pc /\ proc'[p].key = proc[p].key /\ proc'[p].plain = proc[p].plain
  BY <1>1 DEF Goto, TypeOK, Process
<1>2. CASE Mint(p)
  <2>1. ASSUME NEW new, keys' = keys \cup {new},
               proc' = [proc EXCEPT ![p].pc = IF proc[p].plain THEN "check" ELSE "putApi",
                                    ![p].key = new]
        PROVE  HeldKeyWorks'
    <3>1. /\ proc'[p].pc = IF proc[p].plain THEN "check" ELSE "putApi"
          /\ proc'[p].key = new /\ proc'[p].plain = proc[p].plain
      BY <2>1 DEF TypeOK, Process
    <3>4. proc'[p].key \in keys'
      BY <2>1, <3>1
    <3>2. CASE proc[p].plain
      <4>1. proc'[p].pc = "check" /\ proc'[p].plain
        BY <3>1, <3>2
      <4> QED BY <3>4, <4>1, SoloWorks
    <3>3. CASE ~proc[p].plain
      <4>1. proc'[p].pc = "putApi"
        BY <3>1, <3>3
      <4> QED BY <3>4, <4>1, SoloWorks
    <3> QED BY <3>2, <3>3
  <2> QED BY <1>2, <2>1, EndWorks DEF Mint
<1>3. CASE PutApi(p)
  <2>1. CASE Goto(p, "putSecret") /\ keyring' = [keyring EXCEPT !["api"] = proc[p].key.acct]
    <3>1. UNCHANGED keys /\ proc[p].pc = "putApi"
      BY <1>3 DEF PutApi, Put, At, server
    <3> QED BY <1>1, <2>1, <3>1 DEF Solo, HeldKeyWorks
  <2> QED BY <1>3, <2>1, DisownWorks DEF PutApi, Put
<1>4. CASE PutSecret(p)
  <2> DEFINE next == IF proc[p].fresh = None THEN "check" ELSE "putRefresh"
  <2>1. CASE Goto(p, next) /\ keyring' = [keyring EXCEPT !["secret"] = proc[p].key]
    <3>1. UNCHANGED keys /\ proc[p].pc = "putSecret"
      BY <1>4 DEF PutSecret, Put, At, server
    <3>2. keyring'.secret = proc[p].key
      BY <2>1 DEF TypeOK, Keyring
    <3> QED BY <1>1, <2>1, <3>1, <3>2 DEF Solo, HeldKeyWorks
  <2> QED BY <1>4, <2>1, DisownWorks DEF PutSecret, Put
<1>5. CASE PutRefresh(p)
  <2>1. CASE Goto(p, "check") /\ keyring' = [keyring EXCEPT !["refresh"] = proc[p].fresh]
    <3>1. UNCHANGED keys /\ proc[p].pc = "putRefresh"
      BY <1>5 DEF PutRefresh, Put, At, server
    <3>2. keyring'.secret = keyring.secret
      BY <2>1 DEF TypeOK, Keyring
    <3> QED BY <1>1, <2>1, <3>1, <3>2 DEF Solo, HeldKeyWorks
  <2> QED BY <1>5, <2>1, DisownWorks DEF PutRefresh, Put
<1>6. CASE CheckSource(p)
  <2>1. UNCHANGED <<keys, keyring>> /\ proc[p].pc = "check"
    BY <1>6 DEF CheckSource, At, server, store
  <2>2. CASE Goto(p, "write")
    BY <1>1, <2>1, <2>2 DEF Solo, HeldKeyWorks
  <2> QED BY <1>6, <2>2, DisownWorks DEF CheckSource
<1>7. CASE WriteFile(p)
  <2>1. UNCHANGED <<keys, keyring>> /\ proc[p].pc = "write"
    BY <1>7 DEF WriteFile, At, server
  <2>2. CASE file' = NewFile(p) /\ Goto(p, "verify")
    <3>1. proc[p].key # None => file'.cred = IF proc[p].plain THEN proc[p].key ELSE InKeyring
      <4>1. proc[p].key # None => proc[p].cmd # "logout"
        BY DEF KeyHeld, Agrees
      <4>2. proc[p].snap \in File
        BY DEF TypeOK, Process
      <4> QED BY <2>2, <4>1, <4>2 DEF NewFile, File
    <3> QED BY <1>1, <2>1, <2>2, <3>1 DEF Solo, HeldKeyWorks
  <2> QED BY <1>7, <2>2, DisownWorks DEF WriteFile
<1>8. CASE VerifyFile(p)
  <2>1. UNCHANGED <<keys, keyring, file>> /\ proc[p].pc = "verify"
    BY <1>8 DEF VerifyFile, At, server, store
  <2>2. CASE Goto(p, "revoke")
    BY <1>1, <2>1, <2>2 DEF Solo, HeldKeyWorks
  <2> QED BY <1>8, <2>2, DisownWorks, EndWorks DEF VerifyFile
<1> QED BY <1>2, <1>3, <1>4, <1>5, <1>6, <1>7, <1>8

LEMMA NextWorks ==
  TypeOK /\ KeyHeld /\ HeldKeyWorks /\ Solo /\ [Next]_vars => HeldKeyWorks'
<1> SUFFICES ASSUME TypeOK, KeyHeld, HeldKeyWorks, Solo, [Next]_vars PROVE HeldKeyWorks'
  OBVIOUS
<1>1. CASE EditFile \/ UNCHANGED vars
  <2>1. UNCHANGED <<proc, keys, keyring>> /\ file'.cred = file.cred
    BY <1>1 DEF EditFile, vars, store, server, TypeOK, File
  <2> QED BY <2>1 DEF HeldKeyWorks
<1>2. CASE \E p \in Proc : Begin(p) \/ Step(p) \/ Crash(p)
  BY <1>2, BeginWorks, TokenWorks, StoreWorks DEF Step
<1> QED BY <1>1, <1>2 DEF Next

-----------------------------------------------------------------------------
(* Steps map to steps.                                                     *)

LEMMA InitCustody == Init => Custodian!Init
<1> SUFFICES ASSUME Init PROVE Custodian!Init
  OBVIOUS
<1>1. InUse = None
  BY ConstantsAssumption DEF Init, InUse, NoFile
<1> QED BY <1>1 DEF Init, Custodian!Init, Leaving, Running, Blank, Ended

\* A step that neither touches keys nor what the profile uses: at most a logout begins or ends.
LEMMA QuietStep ==
  ASSUME UNCHANGED keys, InUse' = InUse
  PROVE  [Custodian!Next]_(Custodian!vars)
  BY DEF Custodian!Next, Custodian!Leave, Custodian!vars, Leaving

LEMMA NotLeaving ==
  ASSUME Solo, NEW p \in Proc, proc[p].cmd # "logout",
         proc'[p].cmd # "logout" \/ proc'[p].pc \in Ended
  PROVE  ~Leaving /\ Leaving' = Leaving
  BY DEF Solo, Leaving, Running

LEMMA StillLeaving ==
  ASSUME NEW p \in Proc, proc[p].cmd = "logout", proc'[p].cmd = "logout",
         proc[p].pc \notin Ended, proc'[p].pc \notin Ended
  PROVE  Leaving /\ Leaving' = Leaving
  BY DEF Leaving, Running

LEMMA SameUse ==
  ASSUME UNCHANGED file, keyring'.secret = keyring.secret
  PROVE  InUse' = InUse
  BY DEF InUse

LEMMA BeginCustody ==
  ASSUME NEW p \in Proc, Begin(p)
  PROVE  [Custodian!Next]_(Custodian!vars)
<1>1. UNCHANGED <<keys, file, keyring>>
  BY DEF Begin, StartLogin, StartDevice, StartStatus, StartSwitch, StartAccounts, StartLogout,
         store, server
<1> QED BY <1>1, QuietStep, SameUse

LEMMA QuietSteps ==
  ASSUME TypeOK, NEW p \in Proc,
         SignIn(p) \/ PollPending(p) \/ ReadToken(p) \/ Refresh(p) \/ KeepToken(p)
         \/ ChooseStore(p) \/ PutApi(p) \/ PutRefresh(p) \/ CheckSource(p) \/ VerifyFile(p)
         \/ ClearPending(p) \/ RevokeToken(p) \/ Crash(p)
  PROVE  [Custodian!Next]_(Custodian!vars)
<1>1. UNCHANGED <<keys, file>>
  BY DEF SignIn, PollPending, ReadToken, Refresh, KeepToken, ChooseStore, PutApi, PutRefresh, Put,
         CheckSource, VerifyFile, ClearPending, RevokeToken, Crash, store, server
<1>2. CASE SignIn(p) \/ PollPending(p) \/ ReadToken(p) \/ Refresh(p) \/ ChooseStore(p)
           \/ CheckSource(p) \/ VerifyFile(p) \/ ClearPending(p) \/ RevokeToken(p) \/ Crash(p)
  <2>1. UNCHANGED keyring
    BY <1>2 DEF SignIn, PollPending, ReadToken, Refresh, ChooseStore, CheckSource, VerifyFile,
                ClearPending, RevokeToken, Crash, store
  <2> QED BY <1>1, <2>1, QuietStep, SameUse
<1>3. CASE KeepToken(p) \/ PutApi(p) \/ PutRefresh(p)
  <2>1. keyring'.secret = keyring.secret
    BY <1>3 DEF KeepToken, PutApi, PutRefresh, Put, TypeOK, Keyring
  <2> QED BY <1>1, <2>1, QuietStep, SameUse
<1> QED BY <1>2, <1>3

LEMMA MintCustody ==
  ASSUME TypeOK, KeyHeld, Solo, NEW p \in Proc, Mint(p)
  PROVE  [Custodian!Next]_(Custodian!vars)
<1>1. InUse' = InUse
  BY SameUse DEF Mint, store
<1>2. CASE UNCHANGED keys
  BY <1>1, <1>2, QuietStep
<1>3. ASSUME NEW new, keys' = keys \cup {new} PROVE [Custodian!Next]_(Custodian!vars)
  <2>1. proc[p].cmd # "logout" /\ proc[p].pc = "mint"
    BY DEF Mint, At, KeyHeld, Agrees, MintingCmd
  <2>2. proc'[p].cmd # "logout" \/ proc'[p].pc \in Ended
    <3>1. End(p, "failed") => proc'[p].pc \in Ended
      BY DEF End, Blank, TypeOK, Ended
    <3>2. \A pc, key : proc' = [proc EXCEPT ![p].pc = pc, ![p].key = key] =>
                          proc'[p].cmd = proc[p].cmd
      BY DEF TypeOK, Process
    <3>3. End(p, "failed") \/ \E pc, key : proc' = [proc EXCEPT ![p].pc = pc, ![p].key = key]
      BY DEF Mint
    <3> QED BY <2>1, <3>1, <3>2, <3>3
  <2>3. ~Leaving /\ Leaving' = Leaving
    BY <2>1, <2>2, NotLeaving
  <2>4. CASE new \in keys
    BY <1>1, <1>3, <2>4, QuietStep
  <2>5. CASE new \notin keys
    BY <1>1, <1>3, <2>3, <2>5 DEF Custodian!Next, Custodian!Create
  <2> QED BY <2>4, <2>5
<1> QED BY <1>2, <1>3 DEF Mint

LEMMA PutSecretCustody ==
  ASSUME TypeOK, KeyHeld, HeldKeyWorks, Solo, NEW p \in Proc, PutSecret(p)
  PROVE  [Custodian!Next]_(Custodian!vars)
<1>1. UNCHANGED <<keys, file>> /\ proc[p].pc = "putSecret"
  BY DEF PutSecret, Put, At, server
<1>2. CASE UNCHANGED keyring
  BY <1>1, <1>2, QuietStep, SameUse
<1>3. ASSUME NEW next, next \in {"check", "putRefresh"}, Goto(p, next),
             keyring' = [keyring EXCEPT !["secret"] = proc[p].key]
      PROVE  [Custodian!Next]_(Custodian!vars)
  <2>1. proc[p].key \in keys /\ proc[p].cmd # "logout"
    BY <1>1 DEF KeyHeld, Agrees, HeldKeyWorks, Unsaved
  <2>2. proc'[p].cmd = proc[p].cmd
    BY <1>3 DEF Goto, TypeOK, Process
  <2>3. ~Leaving /\ Leaving' = Leaving
    BY <2>1, <2>2, NotLeaving
  <2>4. InUse' \in {InUse, proc[p].key}
    BY <1>1, <1>3 DEF InUse, TypeOK, Keyring
  <2>5. CASE InUse' = InUse
    BY <1>1, <2>5, QuietStep
  <2>6. CASE InUse' = proc[p].key
    BY <1>1, <2>1, <2>3, <2>6 DEF Custodian!Next, Custodian!Use
  <2> QED BY <2>4, <2>5, <2>6
<1> QED BY <1>2, <1>3 DEF PutSecret, Put

LEMMA WriteFileCustody ==
  ASSUME TypeOK, KeyHeld, HeldKeyWorks, Solo, NEW p \in Proc, WriteFile(p)
  PROVE  [Custodian!Next]_(Custodian!vars)
<1>1. UNCHANGED <<keys, keyring>> /\ proc[p].pc = "write"
  BY DEF WriteFile, At, server
<1>2. CASE UNCHANGED file
  BY <1>1, <1>2, QuietStep, SameUse
<1>3. CASE file' = NewFile(p) /\ Goto(p, "verify")
  <2>1. proc'[p].cmd = proc[p].cmd /\ proc'[p].pc = "verify"
    BY <1>3 DEF Goto, TypeOK, Process
  <2>2. Leaving' = Leaving
    BY <1>1, <2>1, StillLeaving, NotLeaving DEF Ended
  <2>3. proc[p].snap \in File
    BY DEF TypeOK, Process
  <2>4. InUse' \in keys \cup {None}
    <3>1. CASE proc[p].cmd = "logout"
      <4>1. file'.cred = None
        BY <1>3, <2>3, <3>1 DEF NewFile, File
      <4> QED BY <4>1, ConstantsAssumption DEF InUse
    <3>2. CASE proc[p].cmd # "logout"
      <4>1. proc[p].key # None /\ proc[p].key \in keys
        BY <1>1, <3>2 DEF KeyHeld, Agrees, HeldKeyWorks, Unsaved
      <4>2. file'.cred = IF proc[p].plain THEN proc[p].key ELSE InKeyring
        BY <1>3, <2>3, <3>2 DEF NewFile, File
      <4>3. CASE proc[p].plain
        <5>1. proc[p].key # InKeyring
          BY <4>1, ConstantsAssumption DEF TypeOK
        <5> QED BY <4>1, <4>2, <4>3, <5>1 DEF InUse
      <4>4. CASE ~proc[p].plain
        <5>1. keyring'.secret = proc[p].key
          BY <1>1, <4>1, <4>4 DEF HeldKeyWorks, Stored
        <5> QED BY <4>1, <4>2, <4>4, <5>1 DEF InUse
      <4> QED BY <4>3, <4>4
    <3> QED BY <3>1, <3>2
  <2> QED BY <1>1, <2>2, <2>4 DEF Custodian!Next, Custodian!Use
<1> QED BY <1>2, <1>3 DEF WriteFile

\* The replaced key has another name than its replacement, which the profile uses by now.
LEMMA SupersededCustody ==
  ASSUME TypeOK, RevokeSafeInv, HeldKeyWorks, Solo, NEW p \in Proc, RevokeSuperseded(p)
  PROVE  [Custodian!Next]_(Custodian!vars)
<1>1. UNCHANGED <<file, keyring>> /\ proc[p].pc = "revoke"
  BY DEF RevokeSuperseded, At, store
<1>2. InUse' = InUse
  BY <1>1, SameUse
<1>3. CASE UNCHANGED keys
  BY <1>2, <1>3, QuietStep
<1>4. ASSUME NEW k \in Recorded(proc[p].snap), Delete(k) PROVE [Custodian!Next]_(Custodian!vars)
  <2>1. proc[p].key # None /\ proc[p].cmd # "logout"
    BY <1>1 DEF RevokeSafeInv, KeyHeld, Agrees
  <2>2. proc'[p].cmd # "logout" \/ proc'[p].pc \in Ended
    <3>1. End(p, "ok") => proc'[p].pc \in Ended
      BY DEF End, Blank, TypeOK, Ended
    <3>2. Goto(p, "clear") => proc'[p].cmd = proc[p].cmd
      BY DEF Goto, TypeOK, Process
    <3> QED BY <2>1, <3>1, <3>2 DEF RevokeSuperseded
  <2>3. ~Leaving /\ Leaving' = Leaving
    BY <2>1, <2>2, NotLeaving
  <2>4. InUse = proc[p].key
    <3>1. CASE proc[p].plain
      <4>1. file.cred = proc[p].key /\ proc[p].key \in keys
        BY <1>1, <2>1, <3>1 DEF HeldKeyWorks, Saved
      <4>2. proc[p].key # InKeyring
        BY <4>1, ConstantsAssumption DEF TypeOK
      <4> QED BY <4>1, <4>2 DEF InUse
    <3>2. CASE ~proc[p].plain
      BY <1>1, <2>1, <3>2 DEF HeldKeyWorks, Saved, Stored, InUse
    <3> QED BY <3>1, <3>2
  <2>5. k \in keys /\ k # InUse
    BY <2>1, <2>4 DEF Recorded, RevokeSafeInv, KeysFresh, Fresh
  <2> QED BY <1>2, <1>4, <2>3, <2>5 DEF Delete, Custodian!Next, Custodian!Revoke
<1> QED BY <1>3, <1>4 DEF RevokeSuperseded

\* A logout may revoke the key in use, and forgets it.
LEMMA LogoutCustody ==
  ASSUME TypeOK, KeyHeld, Solo, NEW p \in Proc, RevokeKey(p) \/ Forget(p)
  PROVE  [Custodian!Next]_(Custodian!vars)
<1>1. proc[p].cmd = "logout" /\ proc[p].pc \notin Ended
  BY DEF RevokeKey, Forget, At, KeyHeld, Agrees, Ended
<1>2. proc'[p].cmd = "logout" /\ proc'[p].pc \notin Ended
  BY <1>1 DEF RevokeKey, Forget, Goto, TypeOK, Process, Ended
<1>3. Leaving /\ Leaving' = Leaving
  BY <1>1, <1>2, StillLeaving
<1>4. CASE RevokeKey(p)
  <2>1. InUse' = InUse
    BY <1>4, SameUse DEF RevokeKey, store
  <2>2. CASE UNCHANGED keys
    BY <2>1, <2>2, QuietStep
  <2>3. ASSUME NEW k \in Recorded(proc[p].snap), Delete(k) PROVE Custodian!Next
    BY <1>3, <2>1, <2>3 DEF Recorded, Delete, Custodian!Next, Custodian!Revoke
  <2> QED BY <1>4, <2>2, <2>3 DEF RevokeKey
<1>5. CASE Forget(p)
  <2>1. UNCHANGED <<keys, file>> /\ keyring'.secret \in {keyring.secret, None}
    BY <1>5 DEF Forget, server, TypeOK, Keyring
  <2>2. InUse' \in {InUse, None}
    BY <2>1 DEF InUse
  <2>3. CASE InUse' = InUse
    BY <2>1, <2>3, QuietStep
  <2>4. CASE InUse' = None
    BY <1>3, <2>1, <2>4 DEF Custodian!Next, Custodian!Use
  <2> QED BY <2>2, <2>3, <2>4
<1> QED BY <1>4, <1>5

LEMMA CustodyStep ==
  TypeOK /\ RevokeSafeInv /\ HeldKeyWorks /\ Solo /\ [Next]_vars => [Custodian!Next]_(Custodian!vars)
<1> SUFFICES ASSUME TypeOK, RevokeSafeInv, KeyHeld, HeldKeyWorks, Solo, [Next]_vars
             PROVE  [Custodian!Next]_(Custodian!vars)
  BY DEF RevokeSafeInv
<1>1. CASE EditFile \/ UNCHANGED vars
  <2>1. UNCHANGED <<keys, keyring>> /\ file'.cred = file.cred
    BY <1>1 DEF EditFile, vars, store, server, TypeOK, File
  <2>2. InUse' = InUse
    BY <2>1 DEF InUse
  <2> QED BY <2>1, <2>2, QuietStep
<1>2. CASE \E p \in Proc : Begin(p) \/ Step(p) \/ Crash(p)
  BY <1>2, BeginCustody, QuietSteps, MintCustody, PutSecretCustody, WriteFileCustody,
     SupersededCustody, LogoutCustody DEF Step
<1> QED BY <1>1, <1>2 DEF Next

\* With one command at a time and unique key names, the commands implement KeyCustody: the
\* profile comes to use live keys only, and nothing but a logout revokes the key in use.
THEOREM Implements ==
  ASSUME ~SameSecond, Solo
  PROVE  Spec => KeyCustodyKept
<1>1. Init => TypeOK /\ RevokeSafeInv /\ HeldKeyWorks
  <2>1. Init => NamesIssued /\ KeysFresh
    BY DEF Init, NamesIssued, KeysFresh, NoFile, Blank
  <2> QED BY <2>1, InitType, InitHeld, InitWorks DEF RevokeSafeInv
<1>2. TypeOK /\ RevokeSafeInv /\ HeldKeyWorks /\ [Next]_vars
        => (TypeOK /\ RevokeSafeInv /\ HeldKeyWorks)'
  BY NextSafe, NextType, NextWorks DEF RevokeSafeInv
<1>3. TypeOK /\ RevokeSafeInv /\ HeldKeyWorks /\ [Next]_vars => [Custodian!Next]_(Custodian!vars)
  BY CustodyStep
<1> QED BY <1>1, <1>2, <1>3, InitCustody, PTL DEF Spec, KeyCustodyKept, Custodian!Spec

-----------------------------------------------------------------------------
(* One command at a time: what the run under way leaves in the file, the   *)
(* keyring and the pending authorization.                                  *)

LEMMA InitRecorded == Init => RunsRecorded
  BY DEF Init, RunsRecorded, RecordsRun, Running, Blank, Ended

LEMMA SoloRecorded ==
  ASSUME Solo, NEW p \in Proc, RecordsRun(p)'
  PROVE  RunsRecorded'
  BY DEF Solo, RunsRecorded

LEMMA EndRecorded ==
  ASSUME TypeOK, Solo, NEW p \in Proc, NEW result \in Ended, End(p, result)
  PROVE  RunsRecorded'
<1>1. proc'[p].pc = result /\ proc'[p].key = None
  BY DEF End, TypeOK, Blank
<1>2. RecordsRun(p)'
  BY <1>1 DEF RecordsRun, Running
<1> QED BY <1>2, SoloRecorded

\* The parts of a run that only its start and its mint set.
SameRun(p) ==
    /\ proc'[p].cmd = proc[p].cmd /\ proc'[p].snap = proc[p].snap
    /\ proc'[p].want = proc[p].want /\ proc'[p].plain = proc[p].plain
    /\ proc'[p].key = proc[p].key /\ proc'[p].code = proc[p].code

\* A step that leaves alone what is recorded, and goes where nothing more is asked of it.
LEMMA FrameRecorded ==
  ASSUME TypeOK, Solo, RunsRecorded, NEW p \in Proc, Running(p), SameRun(p),
         UNCHANGED <<file, pending>>, keyring'.api = keyring.api,
         proc'[p].pc \in Written <=> proc[p].pc \in Written,
         proc[p].key # None => proc'[p].pc \in Unsaved \cup Written,
         proc[p].key # None /\ proc'[p].pc \in Stored \cup {"putSecret"}
            => proc[p].pc \in Stored \cup {"putSecret"}
  PROVE  RunsRecorded'
<1>1. RecordsRun(p)
  BY DEF RunsRecorded
<1>2. RecordsRun(p)'
  BY <1>1 DEF RecordsRun, SameRun
<1> QED BY <1>2, SoloRecorded

LEMMA GotoRun ==
  ASSUME TypeOK, NEW p \in Proc, NEW pc, Goto(p, pc)
  PROVE  SameRun(p) /\ proc'[p].pc = pc
  BY DEF TypeOK, Process, Goto, SameRun

LEMMA GotoRecorded ==
  ASSUME TypeOK, Solo, RunsRecorded, NEW p \in Proc, Running(p), NEW pc, Goto(p, pc),
         UNCHANGED <<file, pending>>, keyring'.api = keyring.api,
         pc \in Written <=> proc[p].pc \in Written,
         proc[p].key # None => pc \in Unsaved \cup Written,
         proc[p].key # None /\ pc \in Stored \cup {"putSecret"}
            => proc[p].pc \in Stored \cup {"putSecret"}
  PROVE  RunsRecorded'
  BY GotoRun, FrameRecorded

LEMMA BeginRecorded ==
  ASSUME TypeOK, Solo, NEW p \in Proc, Begin(p)
  PROVE  RunsRecorded'
<1>1. UNCHANGED file
  BY DEF Begin, StartLogin, StartDevice, StartStatus, StartSwitch, StartAccounts, StartLogout, store
<1>2. ASSUME NEW cmd, cmd # "status", NEW first \in {"signin", "readToken"}, NEW want, NEW plain,
             Start(p, cmd, first, want, plain)
      PROVE  RunsRecorded'
  <2>1. /\ proc'[p].pc = first /\ proc'[p].cmd = cmd /\ proc'[p].snap = file
        /\ proc'[p].key = None
    BY <1>2 DEF Start, TypeOK, Blank
  <2>2. RecordsRun(p)'
    BY <1>1, <1>2, <2>1 DEF RecordsRun, Running, Written, Saved
  <2> QED BY <2>2, SoloRecorded
<1>3. CASE StartStatus(p)
  <2>1. /\ proc'[p].pc = "poll" /\ proc'[p].cmd = "status" /\ proc'[p].snap = file
        /\ proc'[p].want = pending.acct /\ proc'[p].plain = pending.plain
        /\ proc'[p].code = pending.code /\ proc'[p].key = None
    BY <1>3 DEF StartStatus, TypeOK, Blank
  <2>2. pending' = pending /\ pending \in Pending
    BY <1>3 DEF StartStatus, store, TypeOK, Maybe
  <2>3. pending = [acct |-> pending.acct, plain |-> pending.plain, code |-> pending.code]
    BY <2>2 DEF Pending
  <2>4. RecordsRun(p)'
    BY <1>1, <2>1, <2>2, <2>3 DEF RecordsRun, Written, Saved
  <2> QED BY <2>4, SoloRecorded
<1> QED BY <1>2, <1>3, EndRecorded
    DEF Begin, StartLogin, StartDevice, StartSwitch, StartAccounts, StartLogout, Ended

\* Before its mint a run has no key.
LEMMA NoKeyYet ==
  ASSUME RunsRecorded, NEW p \in Proc, proc[p].pc \notin Unsaved \cup Written
  PROVE  proc[p].key = None
  BY DEF RunsRecorded, RecordsRun

LEMMA TokenRecorded ==
  ASSUME TypeOK, KeyHeld, Solo, RunsRecorded, NEW p \in Proc,
         SignIn(p) \/ PollPending(p) \/ ReadToken(p) \/ Refresh(p) \/ KeepToken(p)
         \/ ChooseStore(p) \/ RevokeKey(p) \/ RevokeToken(p) \/ Forget(p)
  PROVE  RunsRecorded'
<1> USE DEF Unsaved, Written, Saved, Stored
<1>0. Running(p) /\ proc[p].key = None /\ proc[p].pc \notin Written
  BY NoKeyYet DEF SignIn, PollPending, ReadToken, Refresh, KeepToken, ChooseStore, RevokeKey,
     RevokeToken, Forget, At, Running, Ended
<1>1. ASSUME UNCHANGED <<file, pending, keyring>>, SameRun(p), proc'[p].pc \notin Written
      PROVE  RunsRecorded'
  BY <1>0, <1>1, FrameRecorded
<1>2. ASSUME UNCHANGED <<file, pending, keyring>>, NEW pc, pc \notin Written,
             NEW tok, NEW fresh,
             \/ proc' = [proc EXCEPT ![p].pc = pc, ![p].fresh = fresh]
             \/ proc' = [proc EXCEPT ![p].pc = pc, ![p].tok = tok]
             \/ Goto(p, pc)
      PROVE  RunsRecorded'
  <2>1. SameRun(p) /\ proc'[p].pc = pc
    BY <1>2, GotoRun DEF TypeOK, Process, SameRun
  <2> QED BY <1>1, <1>2, <2>1
<1>3. CASE SignIn(p) \/ PollPending(p)
  BY <1>2, <1>3, EndRecorded DEF SignIn, PollPending, store, Ended
<1>4. CASE ReadToken(p)
  BY <1>2, <1>4, EndRecorded DEF ReadToken, store, Ended
<1>5. CASE Refresh(p)
  <2>1. AfterRefresh(proc[p].cmd) \notin Written
    BY DEF AfterRefresh
  <2> HIDE DEF AfterRefresh, Written
  <2>2. "forget" \notin Written
    BY DEF Written
  <2> QED BY <1>2, <1>5, <2>1, <2>2, EndRecorded DEF Refresh, NoRefresh, store, Ended
<1>6. CASE KeepToken(p) \/ ChooseStore(p)
  BY <1>2, <1>6, EndRecorded DEF KeepToken, ChooseStore, store, Ended
<1>7. CASE RevokeKey(p) \/ RevokeToken(p)
  BY <1>2, <1>7 DEF RevokeKey, RevokeToken, store
<1>8. CASE Forget(p)
  <2>1. SameRun(p) /\ proc'[p].pc = "check" /\ UNCHANGED file
    BY <1>8, GotoRun DEF Forget
  <2>2. proc[p].cmd = "logout"
    BY <1>8 DEF Forget, At, KeyHeld, Agrees
  <2>3. RecordsRun(p)'
    BY <1>0, <2>1, <2>2 DEF RunsRecorded, RecordsRun, SameRun
  <2> QED BY <2>3, SoloRecorded
<1> QED BY <1>3, <1>4, <1>5, <1>6, <1>7, <1>8

LEMMA DisownRecorded ==
  ASSUME TypeOK, Solo, NEW p \in Proc, Disown(p) \/ SaveFailed(p)
  PROVE  RunsRecorded'
  BY EndRecorded DEF Disown, SaveFailed, Ended

LEMMA MintRecorded ==
  ASSUME TypeOK, KeyHeld, Solo, RunsRecorded, NEW p \in Proc, Mint(p)
  PROVE  RunsRecorded'
<1>1. UNCHANGED <<file, pending, keyring>> /\ At(p, "mint") /\ RecordsRun(p)
  BY DEF Mint, store, RunsRecorded
<1>2. ASSUME NEW acct \in (IF proc[p].want = None THEN Account ELSE {proc[p].want}), NEW new,
             new.acct = acct, NEW pc \in {"check", "putApi"}, pc = "check" => proc[p].plain,
             proc' = [proc EXCEPT ![p].pc = pc, ![p].key = new]
      PROVE  RunsRecorded'
  <2>1. /\ proc'[p].pc = pc /\ proc'[p].key = new
        /\ proc'[p].cmd = proc[p].cmd /\ proc'[p].snap = proc[p].snap
        /\ proc'[p].want = proc[p].want /\ proc'[p].plain = proc[p].plain
        /\ proc'[p].code = proc[p].code
    BY <1>2 DEF TypeOK, Process
  <2>2. proc[p].want \in {None, new.acct}
    BY <1>2
  <2>3. RecordsRun(p)'
    BY <1>1, <1>2, <2>1, <2>2
    DEF RecordsRun, At, Running, Ended, Unsaved, Written, Saved, Stored
  <2> QED BY <2>3, SoloRecorded
<1>3. CASE End(p, "failed")
  BY <1>3, EndRecorded DEF Ended
<1>4. CASE ~End(p, "failed")
  <2>1. PICK acct \in (IF proc[p].want = None THEN Account ELSE {proc[p].want}), now \in NextSeconds :
           proc' = [proc EXCEPT
                        ![p].pc = IF proc[p].plain THEN "check" ELSE "putApi",
                        ![p].key = [id |-> issued.keys + 1, acct |-> acct, name |-> now]]
    BY <1>4 DEF Mint
  <2> DEFINE new == [id |-> issued.keys + 1, acct |-> acct, name |-> now]
             pc == IF proc[p].plain THEN "check" ELSE "putApi"
  <2>2. new.acct = acct /\ pc \in {"check", "putApi"} /\ (pc = "check" => proc[p].plain)
    OBVIOUS
  <2>3. proc' = [proc EXCEPT ![p].pc = pc, ![p].key = new]
    BY <2>1
  <2> HIDE DEF new, pc
  <2> QED BY <1>2, <2>2, <2>3
<1> QED BY <1>3, <1>4

LEMMA StoreRecorded ==
  ASSUME TypeOK, KeyHeld, Solo, RunsRecorded, NEW p \in Proc,
         PutApi(p) \/ PutSecret(p) \/ PutRefresh(p) \/ CheckSource(p) \/ WriteFile(p)
         \/ VerifyFile(p) \/ RevokeSuperseded(p) \/ ClearPending(p)
  PROVE  RunsRecorded'
<1> USE DEF Unsaved, Written, Saved, Stored
<1>0. Running(p) /\ RecordsRun(p) /\ Agrees(proc[p])
  BY DEF PutApi, PutSecret, PutRefresh, Put, CheckSource, WriteFile, VerifyFile, RevokeSuperseded,
     ClearPending, At, Running, Ended, RunsRecorded, KeyHeld
<1>1. CASE PutApi(p)
  <2>1. CASE Goto(p, "putSecret") /\ keyring' = [keyring EXCEPT !["api"] = proc[p].key.acct]
    <3>1. SameRun(p) /\ proc'[p].pc = "putSecret" /\ keyring'.api = proc[p].key.acct
      BY <2>1, GotoRun DEF TypeOK, Keyring
    <3>2. UNCHANGED <<file, pending>> /\ proc[p].pc = "putApi"
      BY <1>1 DEF PutApi, Put, At
    <3>3. RecordsRun(p)'
      BY <1>0, <3>1, <3>2 DEF RecordsRun, SameRun
    <3> QED BY <3>3, SoloRecorded
  <2> QED BY <1>1, <2>1, DisownRecorded DEF PutApi, Put
<1>2. CASE PutSecret(p) \/ PutRefresh(p)
  <2>1. UNCHANGED <<file, pending>> /\ keyring'.api = keyring.api
    BY <1>2 DEF PutSecret, PutRefresh, Put, TypeOK, Keyring
  <2>2. \A pc \in {"check", "putRefresh"} : Goto(p, pc) => RunsRecorded'
    BY <1>0, <1>2, <2>1, GotoRecorded DEF PutSecret, PutRefresh, Put, At
  <2> QED BY <1>2, <2>2, DisownRecorded DEF PutSecret, PutRefresh, Put
<1>3. CASE CheckSource(p)
  <2>1. UNCHANGED <<file, pending, keyring>> /\ At(p, "check")
    BY <1>3 DEF CheckSource, store
  <2>2. Goto(p, "write") => RunsRecorded'
    BY <1>0, <2>1, GotoRecorded DEF At
  <2> QED BY <1>3, <2>2, DisownRecorded DEF CheckSource
<1>4. CASE WriteFile(p)
  <2>1. UNCHANGED <<pending, keyring>> /\ At(p, "write")
    BY <1>4 DEF WriteFile
  <2>2. CASE file' = NewFile(p) /\ Goto(p, "verify")
    <3>1. SameRun(p) /\ proc'[p].pc = "verify"
      BY <2>2, GotoRun
    <3>2. proc[p].snap \in File /\ (proc[p].key # None => proc[p].cmd # "logout")
      BY <1>0 DEF TypeOK, Process, Agrees
    <3>3. proc[p].key # None =>
             /\ file'.acct = proc[p].key.acct /\ file'.key = proc[p].key.name
             /\ file'.cred = IF proc[p].plain THEN proc[p].key ELSE InKeyring
      BY <2>2, <3>2 DEF NewFile, File
    <3>4. RecordsRun(p)'
      BY <1>0, <2>1, <3>1, <3>3 DEF RecordsRun, SameRun, At, Running, Ended
    <3> QED BY <3>4, SoloRecorded
  <2> QED BY <1>4, <2>2, DisownRecorded DEF WriteFile
<1>5. CASE VerifyFile(p)
  <2>1. UNCHANGED <<file, pending, keyring>> /\ At(p, "verify")
    BY <1>5 DEF VerifyFile, store
  <2>2. Goto(p, "revoke") => RunsRecorded'
    BY <1>0, <2>1, GotoRecorded DEF At
  <2> QED BY <1>5, <2>2, DisownRecorded, EndRecorded DEF VerifyFile, Ended
<1>6. CASE RevokeSuperseded(p)
  <2>1. UNCHANGED <<file, pending, keyring>> /\ At(p, "revoke")
    BY <1>6 DEF RevokeSuperseded, store
  <2>2. Goto(p, "clear") => RunsRecorded'
    BY <1>0, <2>1, GotoRecorded DEF At
  <2> QED BY <1>6, <2>2, EndRecorded DEF RevokeSuperseded, Ended
<1>7. CASE ClearPending(p)
  BY <1>7, EndRecorded DEF ClearPending, Ended
<1> QED BY <1>1, <1>2, <1>3, <1>4, <1>5, <1>6, <1>7

LEMMA NextRecorded ==
  TypeOK /\ KeyHeld /\ Solo /\ RunsRecorded /\ [Next]_vars => RunsRecorded'
<1> SUFFICES ASSUME TypeOK, KeyHeld, Solo, RunsRecorded, [Next]_vars PROVE RunsRecorded'
  OBVIOUS
<1>1. CASE EditFile \/ UNCHANGED vars
  <2>1. /\ UNCHANGED <<proc, keyring, pending>>
        /\ file'.acct = file.acct /\ file'.key = file.key /\ file'.cred = file.cred
    BY <1>1 DEF EditFile, vars, store, TypeOK, File
  <2> QED BY <2>1 DEF RunsRecorded, RecordsRun, Running
<1>2. ASSUME NEW p \in Proc, Crash(p) PROVE RunsRecorded'
  BY <1>2, EndRecorded DEF Crash, Ended
<1> QED BY <1>1, <1>2, BeginRecorded, TokenRecorded, MintRecorded, StoreRecorded DEF Next, Step

-----------------------------------------------------------------------------
(* What the profile uses when the replaced key is about to go.             *)

LEMMA WorksReplaced == TypeOK /\ KeyHeld /\ HeldKeyWorks /\ RunsRecorded => ReplacementWorks
<1> SUFFICES ASSUME TypeOK, KeyHeld, HeldKeyWorks, RunsRecorded, NEW p \in Proc, At(p, "revoke")
             PROVE  Usable /\ InUse = proc[p].key
  BY DEF ReplacementWorks
<1>1. proc[p].key # None /\ proc[p].key \in Key
  BY DEF KeyHeld, Agrees, At, TypeOK, Process, Maybe
<1>2. /\ proc[p].key \in keys
      /\ ~proc[p].plain => keyring.secret = proc[p].key
      /\ file.cred = IF proc[p].plain THEN proc[p].key ELSE InKeyring
  BY <1>1 DEF HeldKeyWorks, At, Unsaved, Saved, Stored
<1>3. ~proc[p].plain => keyring.api = proc[p].key.acct
  BY <1>1 DEF RunsRecorded, RecordsRun, At, Stored
<1>4. InUse = proc[p].key
  BY <1>1, <1>2, ConstantsAssumption DEF InUse
<1> QED BY <1>1, <1>2, <1>3, <1>4, ConstantsAssumption DEF Usable

\* What every step keeps when one command runs at a time.
SoloInv == TypeOK /\ KeyHeld /\ HeldKeyWorks /\ RunsRecorded

LEMMA InitSolo == Init => SoloInv
  BY InitType, InitHeld, InitWorks, InitRecorded DEF SoloInv

LEMMA NextSolo == Solo /\ SoloInv /\ [Next]_vars => SoloInv'
  BY NextType, NextHeld, NextWorks, NextRecorded DEF SoloInv

\* With one command at a time, when complete_and_persist is about to revoke the key it replaced,
\* the profile resolves to the new key, alive, together with its account's access key.
THEOREM ReplacementInPlace ==
  ASSUME Solo
  PROVE  Spec => []ReplacementWorks
<1>1. Init => SoloInv
  BY InitSolo
<1>2. SoloInv /\ [Next]_vars => SoloInv'
  BY NextSolo
<1>3. SoloInv => ReplacementWorks
  BY WorksReplaced DEF SoloInv
<1> QED BY <1>1, <1>2, <1>3, PTL DEF Spec

-----------------------------------------------------------------------------
(* OnlyReplacedKeysDie: two steps delete keys.                             *)

LEMMA DeletingSteps ==
  ASSUME TypeOK, [Next]_vars, NEW k \in keys \ keys'
  PROVE  \E p \in Proc : /\ At(p, "revoke") \/ At(p, "revokeKey")
                         /\ k \in Recorded(proc[p].snap)
<1>1. ~UNCHANGED vars /\ ~EditFile
  BY DEF vars, EditFile, server
<1>2. PICK p \in Proc : Begin(p) \/ Step(p) \/ Crash(p)
  BY <1>1 DEF Next
<1>3. ~Begin(p) /\ ~Crash(p)
  BY DEF Begin, StartLogin, StartDevice, StartStatus, StartSwitch, StartAccounts, StartLogout,
         Crash, server
<1>4. RevokeSuperseded(p) \/ RevokeKey(p)
  BY <1>2, <1>3 DEF Step, SignIn, PollPending, ReadToken, Refresh, KeepToken, ChooseStore, Mint, PutApi,
     PutSecret, PutRefresh, Put, CheckSource, WriteFile, VerifyFile, ClearPending, RevokeToken,
     Forget, server
<1> QED BY <1>4 DEF RevokeSuperseded, RevokeKey, Delete

\* With one command at a time, whichever step fails, a key dies only because a logout, or a
\* login or switch whose replacement the profile already resolves to, revoked it by its record.
THEOREM OthersSurvive ==
  ASSUME Solo
  PROVE  Spec => OnlyReplacedKeysDie
<1>1. Init => SoloInv
  BY InitSolo
<1>2. SoloInv /\ [Next]_vars => SoloInv'
  BY NextSolo
<1>3. SoloInv /\ [Next]_vars =>
        [\A k \in keys \ keys' : \E p \in Proc :
          /\ k \in Recorded(proc[p].snap)
          /\ proc[p].cmd = "logout" \/ InUse = proc[p].key]_vars
  <2> SUFFICES ASSUME SoloInv, [Next]_vars, NEW k \in keys \ keys'
               PROVE  \E p \in Proc : /\ k \in Recorded(proc[p].snap)
                                      /\ proc[p].cmd = "logout" \/ InUse = proc[p].key
    OBVIOUS
  <2>1. PICK p \in Proc : /\ At(p, "revoke") \/ At(p, "revokeKey")
                          /\ k \in Recorded(proc[p].snap)
    BY DeletingSteps DEF SoloInv
  <2>2. CASE At(p, "revoke")
    BY <2>1, <2>2, WorksReplaced DEF SoloInv, ReplacementWorks
  <2>3. CASE At(p, "revokeKey")
    BY <2>1, <2>3 DEF SoloInv, KeyHeld, Agrees, At
  <2> QED BY <2>1, <2>2, <2>3
<1> QED BY <1>1, <1>2, <1>3, PTL DEF Spec, OnlyReplacedKeysDie

-----------------------------------------------------------------------------
(* PendingHonoured: what `login --device` was asked for reaches the config.*)

LEMMA StatusHonours ==
  ASSUME SoloInv, NEW p \in Proc, At(p, "clear"), proc[p].cmd = "status"
  PROVE  pending.acct \in {None, file.acct} /\ (pending.plain <=> file.cred \in Key)
<1>1. proc[p].key # None /\ proc[p].key \in Key /\ proc[p].plain \in BOOLEAN
  BY DEF SoloInv, KeyHeld, Agrees, At, TypeOK, Process, Maybe
<1>2. RecordsRun(p) /\ Running(p)
  BY DEF SoloInv, RunsRecorded, At, Running, Ended
<1>3. /\ proc[p].want \in {None, proc[p].key.acct} /\ file.acct = proc[p].key.acct
      /\ file.cred = IF proc[p].plain THEN proc[p].key ELSE InKeyring
  BY <1>1, <1>2 DEF RecordsRun, Written, At
<1>4. pending.acct = proc[p].want /\ pending.plain = proc[p].plain
  BY <1>2 DEF RecordsRun
<1>5. pending.acct \in {None, file.acct}
  BY <1>3, <1>4
<1>6. proc[p].plain <=> file.cred \in Key
  BY <1>1, <1>3, ConstantsAssumption
<1> QED BY <1>4, <1>5, <1>6

\* With one command at a time, `status --wait` completes the login that was asked for: the
\* account and the store chosen by `login --device` are those of the config it leaves.
THEOREM DeviceLoginHonoured ==
  ASSUME Solo
  PROVE  Spec => PendingHonoured
<1>1. Init => SoloInv
  BY InitSolo
<1>2. SoloInv /\ [Next]_vars => SoloInv'
  BY NextSolo
<1>3. SoloInv =>
        [\A p \in Proc : At(p, "clear") /\ proc[p].cmd = "status" /\ proc'[p].pc = "ok" =>
          /\ pending.acct \in {None, file.acct}
          /\ pending.plain <=> file.cred \in Key]_vars
  BY StatusHonours
<1> QED BY <1>1, <1>2, <1>3, PTL DEF Spec, PendingHonoured

-----------------------------------------------------------------------------
(* SuccessWorks and NoSilentKey: the record names one key only, and its    *)
(* replacement has another name.                                           *)

UniqueInv == SoloInv /\ NamesIssued /\ KeysFresh /\ KeyNamesUnique

LEMMA InitUnique == Init => UniqueInv /\ ReplacedGone /\ NoSilentKey
<1> SUFFICES ASSUME Init PROVE UniqueInv /\ ReplacedGone /\ NoSilentKey
  OBVIOUS
<1>1. NamesIssued /\ KeysFresh /\ KeyNamesUnique
  BY DEF Init, NamesIssued, KeysFresh, NoFile, Blank, KeyNamesUnique
<1>2. ReplacedGone /\ NoSilentKey
  BY DEF Init, ReplacedGone, At, Blank, NoSilentKey
<1> QED BY <1>1, <1>2, InitSolo DEF UniqueInv

LEMMA NextUniqueInv == ~SameSecond /\ Solo /\ UniqueInv /\ [Next]_vars => UniqueInv'
  BY NextSolo, NextSafe, NextUnique DEF UniqueInv, SoloInv, RevokeSafeInv

\* The key that is replaced is not the one that replaces it.
LEMMA ReplacedIsOther ==
  ASSUME UniqueInv, NEW p \in Proc, proc[p].key # None, NEW k \in Recorded(proc[p].snap)
  PROVE  k # proc[p].key
  BY DEF UniqueInv, KeysFresh, Fresh, Recorded

\* A revocation that found a key to revoke leaves none under the record it went by.
LEMMA NoneRecorded ==
  ASSUME UniqueInv, NEW p \in Proc, NEW k \in Recorded(proc[p].snap), keys' = keys \ {k}
  PROVE  \A l \in keys' : ~(l.acct = proc[p].snap.acct /\ l.name = proc[p].snap.key)
  BY DEF UniqueInv, KeyNamesUnique, Recorded

LEMMA SupersededGone ==
  ASSUME Solo, UniqueInv, NEW p \in Proc, RevokeSuperseded(p)
  PROVE  /\ Usable' /\ InUse' = proc[p].key
         /\ proc[p].key \in Recorded(file)'
         /\ \A l \in keys' : l.acct = proc[p].snap.acct /\ l.name = proc[p].snap.key => l \in forsaken'
<1>1. At(p, "revoke") /\ UNCHANGED <<file, keyring>>
  BY DEF RevokeSuperseded, store
<1>2. Usable /\ InUse = proc[p].key
  BY <1>1, WorksReplaced DEF UniqueInv, SoloInv, ReplacementWorks
<1>3. proc[p].key # None /\ proc[p].key \in keys
  BY <1>1, <1>2 DEF UniqueInv, SoloInv, KeyHeld, Agrees, At, Usable
<1>4. proc[p].key \in keys'
  BY <1>3, ReplacedIsOther DEF RevokeSuperseded, Delete
<1>5. InUse' = InUse
  BY <1>1 DEF InUse
<1>6. Usable'
  BY <1>1, <1>2, <1>4, <1>5 DEF Usable
<1>7. file.acct = proc[p].key.acct /\ file.key = proc[p].key.name
  BY <1>1, <1>3 DEF UniqueInv, SoloInv, RunsRecorded, RecordsRun, Written, Saved, At
<1>8. proc[p].key \in Recorded(file)'
  BY <1>1, <1>4, <1>7 DEF Recorded
<1>9. ASSUME NEW l \in keys', l.acct = proc[p].snap.acct, l.name = proc[p].snap.key
      PROVE  l \in forsaken'
  BY <1>9, NoneRecorded DEF RevokeSuperseded, Delete, Recorded
<1> QED BY <1>2, <1>5, <1>6, <1>8, <1>9

\* Only a revocation leads to the clearing of the pending authorization.
LEMMA ReachClear ==
  ASSUME TypeOK, NEW p \in Proc, Begin(p) \/ Step(p) \/ Crash(p), proc'[p].pc = "clear"
  PROVE  RevokeSuperseded(p) /\ proc'[p].key = proc[p].key /\ proc'[p].snap = proc[p].snap
<1>1. \A pc : Goto(p, pc) => proc'[p].pc = pc
  BY DEF Goto, TypeOK, Process
<1>2. \A result : End(p, result) => proc'[p].pc = result
  BY DEF End, TypeOK, Blank
<1>3. ~(Begin(p) \/ Crash(p))
  BY <1>2 DEF Begin, StartLogin, StartDevice, StartStatus, StartSwitch, StartAccounts, StartLogout,
     Start, Crash, TypeOK, Blank
<1>4. ~(SignIn(p) \/ PollPending(p) \/ ReadToken(p) \/ Refresh(p) \/ RevokeToken(p))
  <2>1. \A pc, token :
           /\ proc' = [proc EXCEPT ![p].pc = pc, ![p].fresh = token] => proc'[p].pc = pc
           /\ proc' = [proc EXCEPT ![p].pc = pc, ![p].tok = token] => proc'[p].pc = pc
    BY DEF TypeOK, Process
  <2>2. AfterRefresh(proc[p].cmd) # "clear"
    BY DEF AfterRefresh
  <2>3. ~(SignIn(p) \/ PollPending(p) \/ ReadToken(p) \/ RevokeToken(p))
    BY <1>1, <1>2, <2>1 DEF SignIn, PollPending, ReadToken, RevokeToken
  <2>4. ~Refresh(p)
    BY <1>1, <1>2, <2>1, <2>2 DEF Refresh, NoRefresh
  <2> QED BY <2>3, <2>4
<1>5. ~Mint(p)
  <2>1. \A pc, key : proc' = [proc EXCEPT ![p].pc = pc, ![p].key = key] => proc'[p].pc = pc
    BY DEF TypeOK, Process
  <2>2. Mint(p) => \/ End(p, "failed")
                   \/ \E key : proc' = [proc EXCEPT ![p].pc = "check", ![p].key = key]
                   \/ \E key : proc' = [proc EXCEPT ![p].pc = "putApi", ![p].key = key]
    BY DEF Mint
  <2> QED BY <1>2, <2>1, <2>2
<1>6. ~(KeepToken(p) \/ ChooseStore(p) \/ PutApi(p) \/ PutSecret(p) \/ PutRefresh(p) \/ CheckSource(p)
        \/ WriteFile(p) \/ VerifyFile(p) \/ ClearPending(p) \/ RevokeKey(p) \/ Forget(p))
  BY <1>1, <1>2 DEF KeepToken, ChooseStore, PutApi, PutSecret, PutRefresh, Put, Disown, CheckSource,
     WriteFile, VerifyFile, SaveFailed, ClearPending, RevokeKey, Forget
<1>7. RevokeSuperseded(p)
  BY <1>3, <1>4, <1>5, <1>6 DEF Step
<1>8. Goto(p, "clear")
  BY <1>2, <1>7 DEF RevokeSuperseded
<1> QED BY <1>7, <1>8, GotoRun DEF SameRun

LEMMA NextGone ==
  Solo /\ UniqueInv /\ ReplacedGone /\ [Next]_vars => ReplacedGone'
<1> SUFFICES ASSUME Solo, UniqueInv, ReplacedGone, [Next]_vars PROVE ReplacedGone'
  OBVIOUS
<1>1. CASE EditFile \/ UNCHANGED vars
  <2>1. UNCHANGED <<proc, keys, keyring, forsaken>> /\ file'.cred = file.cred
    BY <1>1 DEF EditFile, vars, store, server, ghost, UniqueInv, SoloInv, TypeOK, File
  <2>2. InUse' = InUse
    BY <2>1 DEF InUse
  <2> QED BY <2>1, <2>2 DEF ReplacedGone, At, Usable, Recorded
<1>2. ASSUME NEW p \in Proc, Begin(p) \/ Step(p) \/ Crash(p), proc'[p].pc = "clear"
      PROVE  (Usable /\ InUse = proc[p].key /\ Recorded(proc[p].snap) \subseteq forsaken)'
  <2>1. RevokeSuperseded(p) /\ proc'[p].key = proc[p].key /\ proc'[p].snap = proc[p].snap
    BY <1>2, ReachClear DEF UniqueInv, SoloInv
  <2>2. Usable' /\ InUse' = proc[p].key
        /\ \A l \in keys' : l.acct = proc[p].snap.acct /\ l.name = proc[p].snap.key => l \in forsaken'
    BY <2>1, SupersededGone
  <2> QED BY <2>1, <2>2 DEF Recorded
<1>3. CASE \E p \in Proc : Begin(p) \/ Step(p) \/ Crash(p)
  BY <1>2, <1>3 DEF Solo, ReplacedGone, At
<1> QED BY <1>1, <1>3 DEF Next

-----------------------------------------------------------------------------

LEMMA SuccessStep ==
  ASSUME Solo, UniqueInv, ReplacedGone, [Next]_vars, NEW p \in Proc,
         Running(p), proc'[p].pc = "ok", proc[p].key # None
  PROVE  Usable' /\ InUse' = proc[p].key /\ proc[p].key \in Recorded(file)'
<1>0. TypeOK /\ KeyHeld /\ RunsRecorded
  BY DEF UniqueInv, SoloInv
<1>1. Begin(p) \/ Step(p) \/ Crash(p)
  <2>1. proc'[p] # proc[p]
    BY DEF Running, Ended
  <2> QED BY <1>0, <2>1, OwnStep DEF Next, vars, EditFile
<1>2. ~Begin(p)
  BY DEF Begin, StartLogin, StartDevice, StartStatus, StartSwitch, StartAccounts, StartLogout, Start
<1>3. ~Crash(p)
  BY <1>0 DEF Crash, End, Blank, TypeOK
<1>4. proc[p].pc \in Unsaved \cup Written /\ proc[p].cmd # "logout"
  BY <1>0 DEF RunsRecorded, RecordsRun, KeyHeld, Agrees
<1>5. ~(SignIn(p) \/ PollPending(p) \/ ReadToken(p) \/ Refresh(p) \/ KeepToken(p) \/ ChooseStore(p)
        \/ Mint(p) \/ RevokeKey(p) \/ RevokeToken(p) \/ Forget(p))
  BY <1>4 DEF SignIn, PollPending, ReadToken, Refresh, KeepToken, ChooseStore, Mint, RevokeKey,
     RevokeToken, Forget, At, Unsaved, Written, Saved
<1>6. ~(PutApi(p) \/ PutSecret(p) \/ PutRefresh(p) \/ CheckSource(p) \/ WriteFile(p) \/ VerifyFile(p))
  <2>1. \A pc : Goto(p, pc) => proc'[p].pc = pc
    BY <1>0, GotoRun
  <2>2. ~End(p, "failed")
    BY <1>0 DEF End, TypeOK, Blank
  <2> QED BY <1>4, <2>1, <2>2 DEF PutApi, PutSecret, PutRefresh, Put, Disown, CheckSource, WriteFile,
              VerifyFile, SaveFailed
<1>7. CASE RevokeSuperseded(p)
  BY <1>7, SupersededGone
<1>8. CASE ClearPending(p)
  <2>1. UNCHANGED <<file, keyring, keys>> /\ At(p, "clear")
    BY <1>8 DEF ClearPending, server
  <2>2. Usable /\ InUse = proc[p].key
    BY <2>1 DEF ReplacedGone
  <2>3. InUse' = InUse
    BY <2>1 DEF InUse
  <2>4. Usable'
    BY <2>1, <2>2, <2>3 DEF Usable
  <2>5. file.acct = proc[p].key.acct /\ file.key = proc[p].key.name
    BY <1>0, <2>1 DEF RunsRecorded, RecordsRun, Written, At
  <2> QED BY <2>1, <2>2, <2>3, <2>4, <2>5 DEF Usable, Recorded
<1> QED BY <1>1, <1>2, <1>3, <1>5, <1>6, <1>7, <1>8 DEF Step

\* With one command at a time and unique key names, a login, `status --wait` or switch that
\* reports success leaves a profile that works with the key it minted, recorded under its name
\* and account, whatever the commands before it left behind.
THEOREM SuccessLasts ==
  ASSUME ~SameSecond, Solo
  PROVE  Spec => SuccessWorks
<1>1. Init => UniqueInv /\ ReplacedGone
  BY InitUnique
<1>2. UniqueInv /\ ReplacedGone /\ [Next]_vars => (UniqueInv /\ ReplacedGone)'
  BY NextUniqueInv, NextGone
<1>3. UniqueInv /\ ReplacedGone /\ [Next]_vars =>
        [\A p \in Proc :
          Running(p) /\ proc'[p].pc = "ok" /\ proc[p].key # None =>
             /\ Usable' /\ InUse' = proc[p].key
             /\ proc[p].key \in Recorded(file)']_vars
  BY SuccessStep
<1> QED BY <1>1, <1>2, <1>3, PTL DEF Spec, SuccessWorks

-----------------------------------------------------------------------------
(* NoSilentKey: with one command at a time, its custody is all there is.   *)

Said(p) == Recorded(file) \cup disowned \cup forsaken \cup (IF Running(p) THEN Custody(p) ELSE {})

LEMMA SoloSaid ==
  ASSUME Solo, NEW p \in Proc
  PROVE  NoSilentKey <=> keys \subseteq Said(p)
  BY DEF Solo, NoSilentKey, Said

LEMMA SoloSaidNext ==
  ASSUME Solo, NEW p \in Proc, keys' \subseteq Said(p)'
  PROVE  NoSilentKey'
  BY DEF Solo, NoSilentKey, Said

\* A run that ends has said what it answered for.
LEMMA EndSaid ==
  ASSUME TypeOK, Solo, NoSilentKey, NEW p \in Proc, NEW result \in Ended, End(p, result),
         UNCHANGED file, keys' \subseteq keys,
         \A k \in keys' : k \in disowned \cup forsaken => k \in disowned' \cup forsaken',
         \A k \in keys' : k \in Custody(p) => k \in Recorded(file) \cup disowned' \cup forsaken'
  PROVE  NoSilentKey'
<1>1. keys \subseteq Said(p)
  BY SoloSaid
<1>2. Recorded(file)' = Recorded(file) \cap keys'
  BY DEF Recorded
<1>3. keys' \subseteq Said(p)'
  BY <1>1, <1>2 DEF Said
<1> QED BY <1>3, SoloSaidNext

\* A run that goes on keeps its custody.
LEMMA StaySaid ==
  ASSUME TypeOK, Solo, NoSilentKey, NEW p \in Proc, Running(p), SameRun(p), proc'[p].pc \notin Ended,
         keys' \subseteq keys,
         \A k \in keys' : k \in Recorded(file) =>
            k \in Recorded(file)' \cup disowned' \cup forsaken' \cup Custody(p),
         \A k \in keys' : k \in disowned \cup forsaken => k \in disowned' \cup forsaken'
  PROVE  NoSilentKey'
<1>1. keys \subseteq Said(p)
  BY SoloSaid
<1>2. Custody(p)' = Custody(p) \cap keys' /\ Running(p)'
  BY DEF Custody, Recorded, SameRun, Running
<1>3. keys' \subseteq Said(p)'
  BY <1>1, <1>2 DEF Said
<1> QED BY <1>3, SoloSaidNext

\* The same for the steps that leave keys, config and messages alone.
LEMMA QuietSaid ==
  ASSUME TypeOK, Solo, RunsRecorded, NoSilentKey, NEW p \in Proc, Running(p),
         UNCHANGED <<file, keys, ghost>>,
         \/ SameRun(p) /\ proc'[p].pc \notin Ended
         \/ /\ proc[p].pc \notin Written /\ proc[p].key = None
            /\ \E result \in Ended : End(p, result)
  PROVE  NoSilentKey'
<1>1. CASE SameRun(p) /\ proc'[p].pc \notin Ended
  <2>1. Recorded(file)' = Recorded(file)
    BY DEF Recorded
  <2> QED BY <1>1, <2>1, StaySaid DEF ghost
<1>2. ASSUME NEW result \in Ended, End(p, result), proc[p].pc \notin Written, proc[p].key = None
      PROVE  NoSilentKey'
  <2>1. file.acct = proc[p].snap.acct /\ file.key = proc[p].snap.key
    BY <1>2 DEF RunsRecorded, RecordsRun
  <2>2. Custody(p) \subseteq Recorded(file)
    BY <1>2, <2>1, ConstantsAssumption DEF Custody, Recorded, TypeOK
  <2> QED BY <1>2, <2>2, EndSaid DEF ghost
<1> QED BY <1>1, <1>2

LEMMA BeginSaid ==
  ASSUME TypeOK, Solo, NoSilentKey, NEW p \in Proc, Begin(p)
  PROVE  NoSilentKey'
<1>1. ~Running(p) /\ UNCHANGED <<file, keys, ghost>>
  BY DEF Begin, StartLogin, StartDevice, StartStatus, StartSwitch, StartAccounts, StartLogout, Start,
         store, server
<1>2. keys \subseteq Recorded(file) \cup disowned \cup forsaken
  BY <1>1, SoloSaid DEF Said
<1>3. keys' \subseteq Said(p)'
  BY <1>1, <1>2 DEF Said, Recorded, ghost
<1> QED BY <1>3, SoloSaidNext

LEMMA TokenSaid ==
  ASSUME TypeOK, KeyHeld, Solo, RunsRecorded, NoSilentKey, NEW p \in Proc,
         SignIn(p) \/ PollPending(p) \/ ReadToken(p) \/ Refresh(p) \/ KeepToken(p)
         \/ ChooseStore(p) \/ RevokeToken(p) \/ Forget(p)
  PROVE  NoSilentKey'
<1>0. /\ Running(p) /\ proc[p].key = None /\ proc[p].pc \notin Written
      /\ UNCHANGED <<file, keys, ghost>>
  BY NoKeyYet DEF SignIn, PollPending, ReadToken, Refresh, KeepToken, ChooseStore,
     RevokeToken, Forget, At, Running, Ended, Unsaved, Written, Saved, store, server
<1>1. ASSUME NEW result \in Ended, End(p, result) PROVE NoSilentKey'
  BY <1>0, <1>1, QuietSaid
<1>2. ASSUME NEW pc, pc \notin Ended, NEW token,
             \/ proc' = [proc EXCEPT ![p].pc = pc, ![p].fresh = token]
             \/ proc' = [proc EXCEPT ![p].pc = pc, ![p].tok = token]
             \/ Goto(p, pc)
      PROVE  NoSilentKey'
  <2>1. SameRun(p) /\ proc'[p].pc = pc
    BY <1>2, GotoRun DEF TypeOK, Process, SameRun
  <2> QED BY <1>0, <1>2, <2>1, QuietSaid
<1>3. CASE SignIn(p) \/ PollPending(p)
  BY <1>1, <1>2, <1>3 DEF SignIn, PollPending, Ended
<1>4. CASE ReadToken(p)
  BY <1>1, <1>2, <1>4 DEF ReadToken, Ended
<1>5. CASE Refresh(p)
  <2>1. AfterRefresh(proc[p].cmd) \notin Ended
    BY DEF AfterRefresh, Ended
  <2>2. NoRefresh(p) => NoSilentKey'
    BY <1>1, <1>2 DEF NoRefresh, Ended
  <2> QED BY <1>1, <1>2, <1>5, <2>1, <2>2 DEF Refresh
<1>6. CASE KeepToken(p) \/ ChooseStore(p)
  BY <1>1, <1>2, <1>6 DEF KeepToken, ChooseStore, Ended
<1>7. CASE RevokeToken(p) \/ Forget(p)
  BY <1>2, <1>7 DEF RevokeToken, Forget, Ended
<1> QED BY <1>3, <1>4, <1>5, <1>6, <1>7

\* A failed save or keyring write names the minted key; the config still records the others.
LEMMA DisownSaid ==
  ASSUME TypeOK, KeyHeld, Solo, RunsRecorded, NoSilentKey, NEW p \in Proc, Running(p),
         proc[p].pc \notin Written, UNCHANGED <<file, keys, forsaken>>,
         Disown(p) \/ SaveFailed(p)
  PROVE  NoSilentKey'
<1>1. file.acct = proc[p].snap.acct /\ file.key = proc[p].snap.key
  BY DEF RunsRecorded, RecordsRun
<1>2. End(p, "failed") /\ disowned \subseteq disowned'
      /\ (proc[p].key # None => proc[p].key \in disowned')
  BY DEF SaveFailed, Disown, KeyHeld, Agrees
<1>3. \A k \in keys : k \in Custody(p) => k \in Recorded(file) \cup disowned'
  BY <1>1, <1>2, ConstantsAssumption DEF Custody, Recorded, TypeOK
<1> QED BY <1>2, <1>3, EndSaid DEF Ended

LEMMA MintSaid ==
  ASSUME TypeOK, Solo, RunsRecorded, NoSilentKey, NEW p \in Proc, Mint(p)
  PROVE  NoSilentKey'
<1>1. /\ UNCHANGED <<file, disowned>> /\ Running(p) /\ proc[p].key = None
      /\ file.acct = proc[p].snap.acct /\ file.key = proc[p].snap.key
  <2>1. proc[p].pc \notin Unsaved \cup Written /\ Running(p)
    BY DEF Mint, At, Unsaved, Written, Saved, Running, Ended
  <2>2. proc[p].key = None
    BY <2>1, NoKeyYet
  <2> QED BY <2>1, <2>2 DEF Mint, store, RunsRecorded, RecordsRun
<1>2. keys \subseteq Recorded(file) \cup disowned \cup forsaken
  <2>1. keys \subseteq Said(p)
    BY SoloSaid
  <2> QED BY <1>1, <2>1, ConstantsAssumption DEF Said, Custody, Recorded, TypeOK
<1>3. \/ UNCHANGED <<keys, forsaken>>
      \/ \E new : /\ keys' = keys \cup {new}
                  /\ \/ forsaken' = forsaken \cup {new}
                     \/ /\ UNCHANGED forsaken
                        /\ \E pc \in {"check", "putApi"} :
                              proc' = [proc EXCEPT ![p].pc = pc, ![p].key = new]
  BY DEF Mint
<1>4. CASE UNCHANGED <<keys, forsaken>>
  BY <1>1, <1>2, <1>4, SoloSaidNext DEF Said, Recorded
<1>5. ASSUME NEW new, keys' = keys \cup {new}, forsaken' = forsaken \cup {new}
      PROVE  NoSilentKey'
  BY <1>1, <1>2, <1>5, SoloSaidNext DEF Said, Recorded
<1>6. ASSUME NEW new, keys' = keys \cup {new}, UNCHANGED forsaken, NEW pc \in {"check", "putApi"},
             proc' = [proc EXCEPT ![p].pc = pc, ![p].key = new]
      PROVE  NoSilentKey'
  <2>1. proc'[p].pc = pc /\ proc'[p].key = new
    BY <1>6 DEF TypeOK, Process
  <2>2. Running(p)' /\ new \in Custody(p)'
    BY <1>6, <2>1 DEF Running, Ended, Custody
  <2>3. keys' \subseteq Said(p)'
    BY <1>1, <1>2, <1>6, <2>2 DEF Said, Recorded
  <2> QED BY <2>3, SoloSaidNext
<1> QED BY <1>3, <1>4, <1>5, <1>6

LEMMA SaveSaid ==
  ASSUME TypeOK, KeyHeld, Solo, RunsRecorded, NoSilentKey, NEW p \in Proc,
         PutApi(p) \/ PutSecret(p) \/ PutRefresh(p) \/ CheckSource(p) \/ WriteFile(p)
  PROVE  NoSilentKey'
<1>0. Running(p) /\ proc[p].pc \notin Written /\ UNCHANGED <<keys, forsaken>>
  BY DEF PutApi, PutSecret, PutRefresh, Put, CheckSource, WriteFile, At, Running, Ended,
         Written, Saved, server
<1>1. ASSUME UNCHANGED <<file, disowned>>, NEW pc, pc \notin Ended, Goto(p, pc) PROVE NoSilentKey'
  BY <1>0, <1>1, GotoRun, QuietSaid DEF ghost
<1>2. CASE PutApi(p) \/ PutSecret(p) \/ PutRefresh(p)
  BY <1>0, <1>1, <1>2, DisownSaid DEF PutApi, PutSecret, PutRefresh, Put, Ended
<1>3. CASE CheckSource(p)
  BY <1>0, <1>1, <1>3, DisownSaid DEF CheckSource, store, Ended
<1>4. CASE WriteFile(p)
  <2>1. CASE Goto(p, "verify") /\ UNCHANGED disowned
    <3>1. SameRun(p) /\ proc'[p].pc \notin Ended
      BY <2>1, GotoRun DEF Ended
    <3>2. Recorded(file) \subseteq Custody(p)
      BY <1>0 DEF RunsRecorded, RecordsRun, Recorded, Custody
    <3> QED BY <1>0, <2>1, <3>1, <3>2, StaySaid
  <2> QED BY <1>0, <1>4, <2>1, DisownSaid DEF WriteFile
<1> QED BY <1>2, <1>3, <1>4

LEMMA VerifySaid ==
  ASSUME TypeOK, KeyHeld, Solo, RunsRecorded, NoSilentKey, NEW p \in Proc, VerifyFile(p) \/ Crash(p)
  PROVE  NoSilentKey'
<1>1. UNCHANGED <<file, keys>> /\ Running(p)
  BY DEF VerifyFile, Crash, At, Running, Ended, store, server
<1>2. CASE Goto(p, "revoke") /\ UNCHANGED ghost
  BY <1>1, <1>2, GotoRun, QuietSaid DEF Ended
<1>3. ASSUME forsaken' = forsaken \cup (Custody(p) \ Recorded(file)), disowned \subseteq disowned',
             End(p, "failed")
      PROVE  NoSilentKey'
  BY <1>1, <1>3, EndSaid DEF Ended
<1>4. SaveFailed(p) => disowned \subseteq disowned' /\ End(p, "failed")
  BY DEF SaveFailed, Disown
<1>5. ASSUME forsaken' = forsaken \cup Recorded(proc[p].snap), proc[p].cmd = "logout",
             UNCHANGED disowned, End(p, "ok")
      PROVE  NoSilentKey'
  <2>1. Custody(p) \subseteq Recorded(proc[p].snap)
    BY <1>5, ConstantsAssumption DEF KeyHeld, Agrees, Custody, TypeOK
  <2> QED BY <1>1, <1>5, <2>1, EndSaid DEF Ended
<1>6. CASE VerifyFile(p)
  BY <1>2, <1>3, <1>4, <1>5, <1>6 DEF VerifyFile
<1>7. CASE Crash(p)
  BY <1>3, <1>7 DEF Crash
<1> QED BY <1>6, <1>7

LEMMA RevokeSaid ==
  ASSUME Solo, UniqueInv, ReplacedGone, NoSilentKey, NEW p \in Proc,
         RevokeSuperseded(p) \/ ClearPending(p) \/ RevokeKey(p)
  PROVE  NoSilentKey'
<1>0. TypeOK /\ KeyHeld /\ RunsRecorded
  BY DEF UniqueInv, SoloInv
<1>1. UNCHANGED file /\ Running(p) /\ keys' \subseteq keys
      /\ \A k \in keys' : k \in disowned \cup forsaken => k \in disowned' \cup forsaken'
  BY DEF RevokeSuperseded, ClearPending, RevokeKey, Delete, At, Running, Ended, store, server, ghost
<1>2. ASSUME NEW pc, pc \notin Ended, Goto(p, pc) PROVE NoSilentKey'
  <2>1. \A k \in keys' : k \in Recorded(file) => k \in Recorded(file)'
    BY <1>1 DEF Recorded
  <2> QED BY <1>0, <1>1, <1>2, <2>1, GotoRun, StaySaid
<1>3. ASSUME RevokeSuperseded(p), End(p, "ok") PROVE NoSilentKey'
  <2>1. /\ proc[p].key \in Recorded(file)'
        /\ \A l \in keys' :
              l.acct = proc[p].snap.acct /\ l.name = proc[p].snap.key => l \in forsaken'
    BY <1>3, SupersededGone
  <2>2. \A k \in keys' : k \in Custody(p) => k \in Recorded(file) \cup disowned' \cup forsaken'
    BY <1>1, <2>1 DEF Custody, Recorded
  <2> QED BY <1>0, <1>1, <1>3, <2>2, EndSaid DEF Ended
<1>4. CASE ClearPending(p)
  <2>1. At(p, "clear") /\ End(p, "ok") /\ UNCHANGED <<keys, ghost>>
    BY <1>4 DEF ClearPending, server
  <2>2. Recorded(proc[p].snap) \subseteq forsaken /\ proc[p].key # None
    BY <1>0, <2>1 DEF ReplacedGone, KeyHeld, Agrees, At
  <2>3. file.acct = proc[p].key.acct /\ file.key = proc[p].key.name
    BY <1>0, <2>1, <2>2 DEF RunsRecorded, RecordsRun, Written, At
  <2>4. \A k \in keys : k \in Custody(p) => k \in Recorded(file) \cup forsaken
    BY <2>2, <2>3 DEF Custody, Recorded
  <2> QED BY <1>0, <1>1, <2>1, <2>4, EndSaid DEF Ended, ghost
<1> QED BY <1>2, <1>3, <1>4 DEF RevokeSuperseded, RevokeKey, Ended

LEMMA NextSilent ==
  Solo /\ UniqueInv /\ ReplacedGone /\ NoSilentKey /\ [Next]_vars => NoSilentKey'
<1> SUFFICES ASSUME Solo, UniqueInv, ReplacedGone, NoSilentKey, [Next]_vars PROVE NoSilentKey'
  OBVIOUS
<1>0. TypeOK /\ KeyHeld /\ RunsRecorded
  BY DEF UniqueInv, SoloInv
<1>1. CASE EditFile \/ UNCHANGED vars
  <2>1. /\ UNCHANGED <<proc, keys, ghost>>
        /\ file'.acct = file.acct /\ file'.key = file.key
    BY <1>0, <1>1 DEF EditFile, vars, store, server, TypeOK, File
  <2>2. Recorded(file)' = Recorded(file)
    BY <2>1 DEF Recorded
  <2>3. \A q \in Proc : Custody(q)' = Custody(q) /\ Running(q)' = Running(q)
    BY <2>1 DEF Custody, Recorded, Running
  <2>4. {q \in Proc : Running(q)}' = {q \in Proc : Running(q)}
    BY <2>3
  <2> QED BY <2>1, <2>2, <2>3, <2>4 DEF NoSilentKey, ghost
<1> QED BY <1>0, <1>1, BeginSaid, TokenSaid, MintSaid, SaveSaid, VerifySaid, RevokeSaid DEF Next, Step

\* With one command at a time and unique key names, no live key is left behind unsaid, whichever
\* call fails and wherever a command is killed: the config records it, the command under way
\* answers for it, a message named it, or it went with a kill or a reply that was lost.
THEOREM EveryKeySaid ==
  ASSUME ~SameSecond, Solo
  PROVE  Spec => []NoSilentKey
<1>1. Init => UniqueInv /\ ReplacedGone /\ NoSilentKey
  BY InitUnique
<1>2. UniqueInv /\ ReplacedGone /\ NoSilentKey /\ [Next]_vars
        => (UniqueInv /\ ReplacedGone /\ NoSilentKey)'
  BY NextUniqueInv, NextGone, NextSilent
<1> QED BY <1>1, <1>2, PTL DEF Spec

=============================================================================
