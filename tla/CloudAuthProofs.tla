-------------------------- MODULE CloudAuthProofs --------------------------
(***************************************************************************)
(* Proofs about CloudAuth, for any number of concurrent commands, accounts,*)
(* keys, tokens, device codes and edits.                                   *)
(***************************************************************************)
EXTENDS CloudAuth, TLAPS

USE DEF Maybe

LEMMA BlankIsProcess == \A result \in Ended : [Blank EXCEPT !.pc = result] \in Process
  BY ConstantsAssumption DEF Blank, Process, Phase, Ended, File, NoFile

LEMMA InitType == Init => TypeOK
  BY ConstantsAssumption, BlankIsProcess
  DEF Init, TypeOK, File, NoFile, Keyring, Issued, Blank, Ended, Process, Phase

LEMMA EndType ==
  ASSUME TypeOK, NEW p \in Proc, NEW result \in Ended, End(p, result)
  PROVE  proc' \in [Proc -> Process]
  BY BlankIsProcess DEF TypeOK, End

LEMMA GotoType ==
  ASSUME TypeOK, NEW p \in Proc, NEW pc \in Phase, Goto(p, pc)
  PROVE  proc' \in [Proc -> Process]
  BY DEF TypeOK, Goto, Process

LEMMA FreshType ==
  ASSUME TypeOK, NEW p \in Proc, NEW pc \in Phase, NEW token \in Nat,
         proc' = [proc EXCEPT ![p].pc = pc, ![p].fresh = token]
  PROVE  proc' \in [Proc -> Process]
<1>1. [proc[p] EXCEPT !.pc = pc, !.fresh = token] \in Process
  BY DEF TypeOK, Process
<1>2. proc' = [proc EXCEPT ![p] = [proc[p] EXCEPT !.pc = pc, !.fresh = token]]
  BY DEF TypeOK
<1> QED BY <1>1, <1>2 DEF TypeOK

LEMMA MintedType ==
  ASSUME TypeOK, NEW p \in Proc, NEW pc \in Phase, NEW key \in Key,
         proc' = [proc EXCEPT ![p].pc = pc, ![p].key = key]
  PROVE  proc' \in [Proc -> Process]
<1>1. [proc[p] EXCEPT !.pc = pc, !.key = key] \in Process
  BY DEF TypeOK, Process
<1>2. proc' = [proc EXCEPT ![p] = [proc[p] EXCEPT !.pc = pc, !.key = key]]
  BY DEF TypeOK
<1> QED BY <1>1, <1>2 DEF TypeOK

LEMMA StartType ==
  ASSUME TypeOK, NEW p \in Proc, NEW cmd \in Cmd, NEW first \in Phase,
         NEW want \in Maybe(Account), NEW plain \in BOOLEAN, Start(p, cmd, first, want, plain)
  PROVE  proc' \in [Proc -> Process]
  BY ConstantsAssumption DEF TypeOK, Start, Process, Blank, File, NoFile

LEMMA BeginType ==
  ASSUME TypeOK, NEW p \in Proc, Begin(p)
  PROVE  TypeOK'
<1>1. CASE StartLogin(p)
  <2>1. PICK want \in Maybe(Account), plain \in BOOLEAN : Start(p, "login", "signin", want, plain)
    BY <1>1 DEF StartLogin
  <2>2. proc' \in [Proc -> Process]
    BY <2>1, StartType DEF Cmd, MintingCmd, Phase
  <2> QED BY <1>1, <2>2 DEF TypeOK, StartLogin, store, server, ghost
<1>2. CASE StartDevice(p)
  <2>1. proc' \in [Proc -> Process]
    BY <1>2, EndType DEF StartDevice, Ended
  <2>2. issued' \in Issued /\ pending' \in Maybe(Pending)
    BY <1>2 DEF StartDevice, TypeOK, Issued, Pending
  <2> QED BY <1>2, <2>1, <2>2 DEF TypeOK, StartDevice, ghost
<1>3. CASE StartStatus(p)
  <2>1. proc' \in [Proc -> Process]
    BY <1>3, ConstantsAssumption
    DEF StartStatus, TypeOK, Pending, Process, Blank, Cmd, MintingCmd, Phase
  <2> QED BY <1>3, <2>1 DEF TypeOK, StartStatus, store, server, ghost
<1>4. CASE StartSwitch(p)
  <2>1. proc' \in [Proc -> Process]
    BY <1>4, StartType, EndType DEF StartSwitch, Cmd, MintingCmd, Phase, Ended
  <2> QED BY <1>4, <2>1 DEF TypeOK, StartSwitch, store, server, ghost
<1>5. CASE StartAccounts(p)
  <2>1. proc' \in [Proc -> Process]
    BY <1>5, StartType DEF StartAccounts, Cmd, Phase
  <2> QED BY <1>5, <2>1 DEF TypeOK, StartAccounts, store, server, ghost
<1>6. CASE StartLogout(p)
  <2>1. proc' \in [Proc -> Process]
    BY <1>6, StartType DEF StartLogout, Cmd, Phase
  <2> QED BY <1>6, <2>1 DEF TypeOK, StartLogout, store, server, ghost
<1> QED BY <1>1, <1>2, <1>3, <1>4, <1>5, <1>6 DEF Begin

-----------------------------------------------------------------------------

LEMMA CustodyType ==
  ASSUME TypeOK, NEW p \in Proc
  PROVE  Custody(p) \subseteq Key
  BY DEF TypeOK, Custody, Recorded

LEMMA SignInSteps ==
  ASSUME TypeOK, NEW p \in Proc,
         SignIn(p) \/ PollPending(p) \/ ReadToken(p) \/ Refresh(p) \/ KeepToken(p)
  PROVE  TypeOK'
<1> USE DEF TypeOK
<1>1. CASE SignIn(p)
  <2>1. issued' \in Issued /\ tokens' \subseteq Nat
    BY <1>1 DEF SignIn, IssueToken, Issued
  <2>2. proc' \in [Proc -> Process]
    BY <1>1, EndType DEF SignIn, IssueToken, Issued, Process, Phase, Ended
  <2> QED BY <1>1, <2>1, <2>2 DEF SignIn, store, ghost
<1>2. CASE PollPending(p)
  <2>1. proc[p].code \in Nat
    BY DEF Process
  <2>2. issued' \in Issued /\ tokens' \subseteq Nat /\ spent' \subseteq Nat
    BY <1>2, <2>1 DEF PollPending, IssueToken, Issued
  <2>3. \A result \in Ended : End(p, result) => proc' \in [Proc -> Process]
    BY EndType
  <2>4. ASSUME IssueToken, proc' = [proc EXCEPT ![p].pc = "choose", ![p].fresh = issued'.tokens]
        PROVE  proc' \in [Proc -> Process]
    BY <2>2, <2>4, FreshType DEF Issued, Phase
  <2>5. proc' \in [Proc -> Process]
    BY <1>2, <2>3, <2>4 DEF PollPending, Ended
  <2> QED BY <1>2, <2>2, <2>5 DEF PollPending, store, ghost
<1>3. CASE ReadToken(p)
  <2>1. proc' \in [Proc -> Process]
    BY <1>3, EndType, GotoType DEF ReadToken, Keyring, Process, Phase, Ended
  <2> QED BY <1>3, <2>1 DEF ReadToken, store, server, ghost
<1>4. CASE Refresh(p)
  <2>1. issued' \in Issued /\ tokens' \subseteq Nat
    <3>1. \/ UNCHANGED <<tokens, issued>>
          \/ IssueToken /\ tokens' = (tokens \ {proc[p].tok}) \cup {issued'.tokens}
      BY <1>4 DEF Refresh
    <3> QED BY <3>1 DEF IssueToken, Issued
  <2>2. AfterRefresh(proc[p].cmd) \in Phase
    BY DEF AfterRefresh, Phase
  <2>3. NoRefresh(p) => proc' \in [Proc -> Process]
    BY EndType, GotoType DEF NoRefresh, Phase, Ended
  <2>4. ASSUME Goto(p, AfterRefresh(proc[p].cmd))
        PROVE  proc' \in [Proc -> Process]
    BY <2>2, <2>4, GotoType
  <2>5. ASSUME IssueToken,
               proc' = [proc EXCEPT ![p].pc = AfterRefresh(proc[p].cmd), ![p].fresh = issued'.tokens]
        PROVE  proc' \in [Proc -> Process]
    BY <2>1, <2>2, <2>5, FreshType DEF Issued
  <2>6. proc' \in [Proc -> Process]
    BY <1>4, <2>3, <2>4, <2>5 DEF Refresh
  <2> QED BY <1>4, <2>1, <2>6 DEF Refresh, store, ghost
<1>5. CASE KeepToken(p)
  <2>1. proc' \in [Proc -> Process]
    BY <1>5, EndType DEF KeepToken, Ended
  <2>2. keyring' \in Keyring
    BY <1>5 DEF KeepToken, Keyring, Process
  <2> QED BY <1>5, <2>1, <2>2 DEF KeepToken, server, ghost
<1> QED BY <1>1, <1>2, <1>3, <1>4, <1>5

LEMMA KeyType ==
  ASSUME TypeOK, NEW p \in Proc
  PROVE  /\ proc[p].key \in Maybe(Key)
         /\ proc[p].key # None => /\ proc[p].key.acct \in Account
                                 /\ proc[p].key.name \in Nat
  BY DEF TypeOK, Process, Key

LEMMA DisownType ==
  ASSUME TypeOK, NEW p \in Proc, proc[p].key # None, Disown(p)
  PROVE  proc' \in [Proc -> Process] /\ disowned' \subseteq Key
<1>1. proc' \in [Proc -> Process]
  BY EndType DEF Disown, Ended
<1> QED BY <1>1, KeyType DEF Disown, TypeOK

LEMMA SaveFailedType ==
  ASSUME TypeOK, NEW p \in Proc, proc[p].cmd = "logout" \/ proc[p].key # None, SaveFailed(p)
  PROVE  proc' \in [Proc -> Process] /\ disowned' \subseteq Key
<1>1. CASE proc[p].cmd = "logout"
  BY <1>1, EndType DEF SaveFailed, Ended, TypeOK
<1>2. CASE proc[p].cmd # "logout"
  BY <1>2, DisownType DEF SaveFailed
<1> QED BY <1>1, <1>2

LEMMA NewFileType ==
  ASSUME TypeOK, NEW p \in Proc, proc[p].cmd = "logout" \/ proc[p].key # None
  PROVE  NewFile(p) \in File
<1>1. proc[p].snap \in File
  BY DEF TypeOK, Process
<1> QED BY <1>1, KeyType DEF NewFile, File

LEMMA PutType ==
  ASSUME TypeOK, NEW p \in Proc, NEW pc, NEW entry \in {"api", "secret", "refresh"}, NEW value,
         NEW next \in Phase, proc[p].key # None,
         [keyring EXCEPT ![entry] = value] \in Keyring,
         Put(p, pc, entry, value, next)
  PROVE  TypeOK'
<1>1. CASE Goto(p, next) /\ keyring' = [keyring EXCEPT ![entry] = value] /\ UNCHANGED disowned
  <2>1. proc' \in [Proc -> Process]
    BY <1>1, GotoType
  <2> QED BY <1>1, <2>1 DEF TypeOK, Put, server
<1>2. CASE Disown(p) /\ UNCHANGED keyring
  <2>1. proc' \in [Proc -> Process] /\ disowned' \subseteq Key
    BY <1>2, DisownType
  <2> QED BY <1>2, <2>1 DEF TypeOK, Put, server
<1> QED BY <1>1, <1>2 DEF Put

LEMMA StoreSteps ==
  ASSUME TypeOK, KeyHeld, NEW p \in Proc,
         ChooseStore(p) \/ Mint(p) \/ PutApi(p) \/ PutSecret(p) \/ PutRefresh(p)
  PROVE  TypeOK'
<1>1. CASE ChooseStore(p)
  <2>1. proc' \in [Proc -> Process]
    BY <1>1, EndType, GotoType DEF ChooseStore, Phase, Ended
  <2> QED BY <1>1, <2>1 DEF TypeOK, ChooseStore, store, server, ghost
<1>2. CASE Mint(p)
  <2>1. ASSUME NEW acct \in Account, NEW now \in Nat, NEW new,
               new = [id |-> issued.keys + 1, acct |-> acct, name |-> now],
               issued' = [issued EXCEPT !.keys = @ + 1,
                                        !.second = IF now > @ THEN now ELSE @],
               keys' = keys \cup {new},
               \/ /\ proc' = [proc EXCEPT
                        ![p].pc = IF proc[p].plain THEN "check" ELSE "putApi", ![p].key = new]
                  /\ UNCHANGED forsaken
               \/ End(p, "failed") /\ forsaken' = forsaken \cup {new}
        PROVE  TypeOK'
    <3>1. new \in Key /\ issued' \in Issued
      <4>1. issued \in Issued /\ issued.keys + 1 \in Nat
        BY DEF TypeOK, Issued
      <4>2. new \in Key
        BY <2>1, <4>1 DEF Key
      <4>3. \A i \in Issued : \A n, s \in Nat : [i EXCEPT !.keys = n, !.second = s] \in Issued
        BY DEF Issued
      <4>4. issued' = [issued EXCEPT !.keys = issued.keys + 1,
                                     !.second = IF now > issued.second THEN now ELSE issued.second]
        BY <2>1
      <4>5. (IF now > issued.second THEN now ELSE issued.second) \in Nat
        BY <4>1 DEF Issued
      <4> QED BY <4>5, <4>1, <4>2, <4>3, <4>4
    <3>2. CASE proc' = [proc EXCEPT ![p].pc = IF proc[p].plain THEN "check" ELSE "putApi",
                                    ![p].key = new]
      <4>1. (IF proc[p].plain THEN "check" ELSE "putApi") \in Phase
        BY DEF Phase
      <4>2. proc' \in [Proc -> Process]
        BY <3>1, <3>2, <4>1, MintedType
      <4> QED BY <1>2, <2>1, <3>1, <4>2 DEF TypeOK, Mint, store
    <3>3. CASE End(p, "failed") /\ forsaken' = forsaken \cup {new}
      <4>1. proc' \in [Proc -> Process]
        BY <3>3, EndType DEF Ended
      <4> QED BY <1>2, <2>1, <3>1, <3>3, <4>1 DEF TypeOK, Mint, store
    <3> QED BY <2>1, <3>2, <3>3
  <2>2. CASE End(p, "failed") /\ UNCHANGED <<keys, issued, forsaken>>
    <3>1. proc' \in [Proc -> Process]
      BY <2>2, EndType DEF Ended
    <3> QED BY <1>2, <2>2, <3>1 DEF TypeOK, Mint, store
  <2>3. NextSeconds \subseteq Nat /\ proc[p].want \in Maybe(Account)
    BY DEF NextSeconds, TypeOK, Issued, Process
  <2> QED BY <1>2, <2>1, <2>2, <2>3 DEF Mint
<1>3. ASSUME At(p, "putApi") \/ At(p, "putSecret") \/ At(p, "putRefresh")
      PROVE  proc[p].key # None /\ proc[p].key \in Key /\ proc[p].key.acct \in Account
  BY <1>3, KeyType DEF At, KeyHeld, Agrees
<1>4. CASE PutApi(p)
  <2>1. Put(p, "putApi", "api", proc[p].key.acct, "putSecret")
    BY <1>4 DEF PutApi
  <2>2. [keyring EXCEPT !["api"] = proc[p].key.acct] \in Keyring
    BY <1>3, <2>1 DEF Put, TypeOK, Keyring
  <2> QED BY <1>3, <2>1, <2>2, PutType DEF Put, Phase
<1>5. CASE PutSecret(p)
  <2>1. PICK next \in Phase : Put(p, "putSecret", "secret", proc[p].key, next)
    BY <1>5 DEF PutSecret, Phase
  <2>2. [keyring EXCEPT !["secret"] = proc[p].key] \in Keyring
    BY <1>3, <2>1 DEF Put, TypeOK, Keyring
  <2> QED BY <1>3, <2>1, <2>2, PutType DEF Put
<1>6. CASE PutRefresh(p)
  <2>1. Put(p, "putRefresh", "refresh", proc[p].fresh, "check")
    BY <1>6 DEF PutRefresh
  <2>2. [keyring EXCEPT !["refresh"] = proc[p].fresh] \in Keyring
    BY DEF TypeOK, Keyring, Process
  <2> QED BY <1>3, <2>1, <2>2, PutType DEF Put, Phase
<1> QED BY <1>1, <1>2, <1>4, <1>5, <1>6

LEMMA SaveSteps ==
  ASSUME TypeOK, KeyHeld, NEW p \in Proc,
         CheckSource(p) \/ WriteFile(p) \/ VerifyFile(p) \/ RevokeSuperseded(p) \/ ClearPending(p)
  PROVE  TypeOK'
<1> USE DEF TypeOK
<1>1. CASE CheckSource(p)
  <2>1. proc' \in [Proc -> Process] /\ disowned' \subseteq Key
    BY <1>1, SaveFailedType, GotoType DEF CheckSource, At, KeyHeld, Agrees, Phase
  <2> QED BY <1>1, <2>1 DEF CheckSource, store, server
<1>2. CASE WriteFile(p)
  <2>1. proc' \in [Proc -> Process] /\ disowned' \subseteq Key
    BY <1>2, SaveFailedType, GotoType DEF WriteFile, At, KeyHeld, Agrees, Phase
  <2>2. file' \in File
    BY <1>2, NewFileType DEF WriteFile, At, KeyHeld, Agrees
  <2> QED BY <1>2, <2>1, <2>2 DEF WriteFile, server
<1>3. CASE VerifyFile(p)
  <2>1. proc' \in [Proc -> Process] /\ disowned' \subseteq Key
    BY <1>3, SaveFailedType, GotoType, EndType DEF VerifyFile, At, KeyHeld, Agrees, Phase, Ended, ghost
  <2>2. forsaken' \subseteq Key
    BY <1>3, CustodyType DEF VerifyFile, Recorded, ghost
  <2> QED BY <1>3, <2>1, <2>2 DEF VerifyFile, store, server
<1>4. CASE RevokeSuperseded(p)
  <2>1. proc' \in [Proc -> Process]
    BY <1>4, EndType, GotoType DEF RevokeSuperseded, Phase, Ended
  <2> QED BY <1>4, <2>1 DEF RevokeSuperseded, Delete, Recorded, store
<1>5. CASE ClearPending(p)
  <2>1. proc' \in [Proc -> Process]
    BY <1>5, EndType DEF ClearPending, Ended
  <2> QED BY <1>5, <2>1 DEF ClearPending, DropPending, server, ghost
<1> QED BY <1>1, <1>2, <1>3, <1>4, <1>5

LEMMA LogoutSteps ==
  ASSUME TypeOK, NEW p \in Proc, RevokeKey(p) \/ RevokeToken(p) \/ Forget(p)
  PROVE  TypeOK'
<1> USE DEF TypeOK
<1>1. proc' \in [Proc -> Process]
  <2>1. CASE proc' = [proc EXCEPT ![p].pc = "forget", ![p].tok = None]
    <3>1. [proc[p] EXCEPT !.pc = "forget", !.tok = None] \in Process
      BY DEF Process, Phase, Maybe
    <3>2. proc' = [proc EXCEPT ![p] = [proc[p] EXCEPT !.pc = "forget", !.tok = None]]
      BY <2>1
    <3> QED BY <3>1, <3>2
  <2> QED BY <2>1, GotoType DEF RevokeKey, RevokeToken, Forget, Phase
<1>2. CASE RevokeKey(p)
  BY <1>1, <1>2 DEF RevokeKey, Delete, store, ghost
<1>3. CASE RevokeToken(p)
  BY <1>1, <1>3 DEF RevokeToken, store, ghost
<1>4. CASE Forget(p)
  <2>1. keyring' \in Keyring
    BY <1>4 DEF Forget, Keyring
  <2> QED BY <1>1, <1>4, <2>1 DEF Forget, DropPending, server, ghost
<1> QED BY <1>2, <1>3, <1>4

LEMMA NextType == TypeOK /\ KeyHeld /\ [Next]_vars => TypeOK'
<1> SUFFICES ASSUME TypeOK, KeyHeld, [Next]_vars PROVE TypeOK'
  OBVIOUS
<1>1. CASE UNCHANGED vars
  BY <1>1 DEF vars, store, server, ghost, TypeOK
<1>2. CASE EditFile
  BY <1>2 DEF EditFile, TypeOK, File, server, ghost
<1>3. ASSUME NEW p \in Proc, Begin(p) PROVE TypeOK'
  BY <1>3, BeginType
<1>4. ASSUME NEW p \in Proc, Step(p) PROVE TypeOK'
  BY <1>4, SignInSteps, StoreSteps, SaveSteps, LogoutSteps DEF Step
<1>5. ASSUME NEW p \in Proc, Crash(p) PROVE TypeOK'
  <2>1. proc' \in [Proc -> Process]
    BY <1>5, EndType DEF Crash, Ended
  <2> QED BY <1>5, <2>1, CustodyType DEF Crash, TypeOK, store, server
<1> QED BY <1>1, <1>2, <1>3, <1>4, <1>5 DEF Next

-----------------------------------------------------------------------------

LEMMA InitHeld == Init => KeyHeld
  BY DEF Init, KeyHeld, Agrees, Blank

LEMMA RunHeld ==
  ASSUME TypeOK, KeyHeld, NEW p \in Proc, NEW run, Agrees(run), proc' = [proc EXCEPT ![p] = run]
  PROVE  KeyHeld'
  BY DEF TypeOK, KeyHeld

LEMMA EndHeld ==
  ASSUME TypeOK, KeyHeld, NEW p \in Proc, NEW result \in Ended, End(p, result)
  PROVE  KeyHeld'
<1>1. Agrees([Blank EXCEPT !.pc = result])
  BY DEF Agrees, Blank, Ended
<1> QED BY <1>1, RunHeld DEF End

LEMMA GotoHeld ==
  ASSUME TypeOK, KeyHeld, NEW p \in Proc, NEW pc, Goto(p, pc),
         Agrees([proc[p] EXCEPT !.pc = pc])
  PROVE  KeyHeld'
<1>1. proc' = [proc EXCEPT ![p] = [proc[p] EXCEPT !.pc = pc]]
  BY DEF Goto, TypeOK
<1> QED BY <1>1, RunHeld

LEMMA BeginHeld ==
  ASSUME TypeOK, KeyHeld, NEW p \in Proc, Begin(p)
  PROVE  KeyHeld'
<1>1. ASSUME NEW cmd, NEW first, NEW want, NEW plain, Start(p, cmd, first, want, plain),
             <<cmd, first>> \in {<<"login", "signin">>, <<"switch", "readToken">>,
                                <<"accounts", "readToken">>, <<"logout", "readToken">>}
      PROVE  KeyHeld'
  <2> DEFINE run == [Blank EXCEPT !.pc = first, !.cmd = cmd, !.snap = file,
                                  !.want = want, !.plain = plain]
  <2>1. Agrees(run)
    BY <1>1 DEF Agrees, Blank, MintingCmd
  <2> QED BY <1>1, <2>1, RunHeld DEF Start
<1>2. CASE StartStatus(p)
  <2> DEFINE run == [Blank EXCEPT !.pc = "poll", !.cmd = "status", !.snap = file,
                                  !.want = pending.acct, !.plain = pending.plain,
                                  !.code = pending.code]
  <2>1. Agrees(run)
    BY DEF Agrees, Blank, MintingCmd
  <2> QED BY <1>2, <2>1, RunHeld DEF StartStatus
<1> QED BY <1>1, <1>2, EndHeld
    DEF Begin, StartLogin, StartDevice, StartSwitch, StartAccounts, StartLogout, Ended

LEMMA StepHeld ==
  ASSUME TypeOK, KeyHeld, NEW p \in Proc, Step(p)
  PROVE  KeyHeld'
<1> DEFINE to(pc) == [proc[p] EXCEPT !.pc = pc]
<1>0. proc[p] \in Process /\ Agrees(proc[p])
  BY DEF TypeOK, KeyHeld
<1>1. ASSUME NEW pc \in Phase, NEW token, Agrees(to(pc)),
             proc' = [proc EXCEPT ![p].pc = pc, ![p].fresh = token]
      PROVE  KeyHeld'
  <2>1. Agrees([proc[p] EXCEPT !.pc = pc, !.fresh = token])
    BY <1>0, <1>1 DEF Agrees, Process
  <2>2. proc' = [proc EXCEPT ![p] = [proc[p] EXCEPT !.pc = pc, !.fresh = token]]
    BY <1>1 DEF TypeOK
  <2> QED BY <2>1, <2>2, RunHeld
<1>2. At(p, "signin") \/ At(p, "poll") \/ (At(p, "refresh") /\ proc[p].cmd = "switch")
        => Agrees(to("choose"))
  BY <1>0 DEF At, Agrees, Process, MintingCmd
<1>3. ASSUME At(p, "refresh")
      PROVE  Agrees(to(AfterRefresh(proc[p].cmd))) /\ AfterRefresh(proc[p].cmd) \in Phase
  BY <1>0, <1>3 DEF At, Agrees, Process, AfterRefresh, MintingCmd, Phase
<1>4. CASE SignIn(p) \/ PollPending(p)
  BY <1>1, <1>2, <1>4, EndHeld DEF SignIn, PollPending, Ended, Phase
<1>5. CASE ReadToken(p)
  <2>1. proc' = [proc EXCEPT ![p].pc = "refresh", ![p].tok = keyring.refresh] => KeyHeld'
    <3>1. Agrees([proc[p] EXCEPT !.pc = "refresh", !.tok = keyring.refresh])
      BY <1>0, <1>5 DEF ReadToken, At, Agrees, Process, MintingCmd
    <3>2. [proc EXCEPT ![p].pc = "refresh", ![p].tok = keyring.refresh]
            = [proc EXCEPT ![p] = [proc[p] EXCEPT !.pc = "refresh", !.tok = keyring.refresh]]
      BY DEF TypeOK
    <3> QED BY <3>1, <3>2, RunHeld
  <2>2. proc[p].cmd = "logout" => Agrees(to("forget"))
    BY <1>0 DEF Agrees, Process
  <2> QED BY <1>5, <2>1, <2>2, EndHeld, GotoHeld DEF ReadToken, Ended
<1>6. CASE Refresh(p)
  <2>1. proc[p].cmd = "logout" => Agrees(to("forget"))
    BY <1>0 DEF Agrees, Process
  <2>2. NoRefresh(p) => KeyHeld'
    BY <2>1, EndHeld, GotoHeld DEF NoRefresh, Ended
  <2> QED BY <1>1, <1>3, <1>6, <2>2, GotoHeld DEF Refresh
<1>7. CASE KeepToken(p)
  BY <1>7, EndHeld DEF KeepToken, Ended
<1>8. CASE ChooseStore(p)
  <2>1. Agrees(to("mint"))
    BY <1>0, <1>8 DEF ChooseStore, At, Agrees, Process
  <2> QED BY <1>8, <2>1, EndHeld, GotoHeld DEF ChooseStore, Ended
<1>9. CASE Mint(p)
  <2>1. ASSUME NEW pc \in {"check", "putApi"}, NEW new, new # None,
               proc' = [proc EXCEPT ![p].pc = pc, ![p].key = new]
        PROVE  KeyHeld'
    <3>1. Agrees([proc[p] EXCEPT !.pc = pc, !.key = new])
      BY <1>0, <1>9, <2>1 DEF Mint, At, Agrees, Process, MintingCmd
    <3>2. proc' = [proc EXCEPT ![p] = [proc[p] EXCEPT !.pc = pc, !.key = new]]
      BY <2>1 DEF TypeOK
    <3> QED BY <3>1, <3>2, RunHeld
  <2>2. ASSUME NEW acct \in Account, NEW now \in Nat
        PROVE  [id |-> issued.keys + 1, acct |-> acct, name |-> now] # None
    BY ConstantsAssumption DEF TypeOK, Issued, Key
  <2>3. NextSeconds \subseteq Nat /\ proc[p].want \in Maybe(Account)
    BY <1>0 DEF NextSeconds, TypeOK, Issued, Process
  <2> QED BY <1>9, <2>1, <2>2, <2>3, EndHeld DEF Mint, Ended
<1>10. CASE PutApi(p) \/ PutSecret(p) \/ PutRefresh(p)
  <2>1. \A pc \in {"putSecret", "putRefresh", "check"} : Agrees(to(pc))
    BY <1>0, <1>10 DEF PutApi, PutSecret, PutRefresh, Put, At, Agrees, Process
  <2> QED BY <1>10, <2>1, EndHeld, GotoHeld DEF PutApi, PutSecret, PutRefresh, Put, Disown, Ended
<1>11. SaveFailed(p) => KeyHeld'
  BY EndHeld DEF SaveFailed, Disown, Ended
<1>12. CASE CheckSource(p) \/ WriteFile(p)
  <2>1. \A pc \in {"write", "verify"} : Agrees(to(pc))
    BY <1>0, <1>12 DEF CheckSource, WriteFile, At, Agrees, Process
  <2> QED BY <1>11, <1>12, <2>1, GotoHeld DEF CheckSource, WriteFile
<1>13. CASE VerifyFile(p)
  <2>1. proc[p].cmd # "logout" => Agrees(to("revoke"))
    BY <1>0, <1>13 DEF VerifyFile, At, Agrees, Process
  <2> QED BY <1>11, <1>13, <2>1, EndHeld, GotoHeld DEF VerifyFile, Ended
<1>14. CASE RevokeSuperseded(p) \/ ClearPending(p)
  <2>1. At(p, "revoke") => Agrees(to("clear"))
    BY <1>0 DEF At, Agrees, Process
  <2> QED BY <1>14, <2>1, EndHeld, GotoHeld DEF RevokeSuperseded, ClearPending, Ended
<1>15. CASE RevokeKey(p) \/ RevokeToken(p) \/ Forget(p)
  <2>1. \A pc \in {"revokeToken", "forget", "check"} : Agrees(to(pc))
    BY <1>0, <1>15 DEF RevokeKey, RevokeToken, Forget, At, Agrees, Process
  <2>2. CASE proc' = [proc EXCEPT ![p].pc = "forget", ![p].tok = None]
    <3> DEFINE run == [proc[p] EXCEPT !.pc = "forget", !.tok = None]
    <3>1. Agrees(run)
      BY <1>0, <2>1 DEF Agrees, Process
    <3>2. proc' = [proc EXCEPT ![p] = run]
      BY <2>2 DEF TypeOK
    <3> HIDE DEF run
    <3> QED BY <3>1, <3>2, RunHeld
  <2> QED BY <1>15, <2>1, <2>2, GotoHeld DEF RevokeKey, RevokeToken, Forget
<1> QED BY <1>4, <1>5, <1>6, <1>7, <1>8, <1>9, <1>10, <1>12, <1>13, <1>14, <1>15 DEF Step

LEMMA NextHeld == TypeOK /\ KeyHeld /\ [Next]_vars => KeyHeld'
<1> SUFFICES ASSUME TypeOK, KeyHeld, [Next]_vars PROVE KeyHeld'
  OBVIOUS
<1>1. CASE UNCHANGED vars \/ EditFile
  BY <1>1 DEF vars, EditFile, KeyHeld
<1>2. ASSUME NEW p \in Proc, Crash(p) PROVE KeyHeld'
  BY <1>2, EndHeld DEF Crash, Ended
<1> QED BY <1>1, <1>2, BeginHeld, StepHeld DEF Next

\* Every reachable state of the commands is one the types describe: the credentials, records
\* and tokens that auth.rs, config.rs and the keyring exchange stay what their readers expect.
THEOREM TypeCorrect == Spec => []TypeOK
<1>1. Init => TypeOK /\ KeyHeld
  BY InitType, InitHeld
<1>2. TypeOK /\ KeyHeld /\ [Next]_vars => (TypeOK /\ KeyHeld)'
  BY NextType, NextHeld
<1> QED BY <1>1, <1>2, PTL DEF Spec

-----------------------------------------------------------------------------
(* RevokeSparesInUse: a step of run p either leaves alone the key p holds, *)
(* and the names p and the config record (the frame below), or it mints a  *)
(* key, puts its secret into the keyring or writes the config.             *)

LEMMA SafeFrame ==
  ASSUME TypeOK, TypeOK', NamesIssued, KeysFresh, NEW p \in Proc, NEW run,
         proc' = [proc EXCEPT ![p] = run],
         run.key = None \/ /\ run.key = proc[p].key
                           /\ run.snap = proc[p].snap /\ run.plain = proc[p].plain
                           /\ run.pc \in Unsaved => proc[p].pc \in Unsaved
                           /\ run.pc \in Stored => proc[p].pc \in Stored,
         run.snap.key \in {None, file.key, proc[p].snap.key},
         file'.key = file.key,
         keyring'.secret = keyring.secret \/ keyring'.secret = None,
         issued'.second >= issued.second
  PROVE  NamesIssued' /\ KeysFresh'
<1>1. proc'[p] = run /\ \A q \in Proc \ {p} : proc'[q] = proc[q]
  BY DEF TypeOK
<1>2. NamesIssued'
  <2>1. issued.second \in Nat /\ issued'.second \in Nat
    BY DEF TypeOK, Issued
  <2>2. \A q \in Proc : /\ proc[q].snap.key \in Maybe(Nat)
                        /\ proc[q].key # None => proc[q].key.name \in Nat
    BY DEF TypeOK, Process, File, Key
  <2>3. file.key \in Maybe(Nat)
    BY DEF TypeOK, File
  <2>4. file'.key # None => file'.key <= issued'.second
    BY <2>1, <2>3 DEF NamesIssued
  <2>5. ASSUME NEW q \in Proc
        PROVE  /\ proc'[q].snap.key # None => proc'[q].snap.key <= issued'.second
               /\ proc'[q].key # None => proc'[q].key.name <= issued'.second
    <3>1. CASE q = p
      BY <1>1, <2>1, <2>2, <2>3, <3>1 DEF NamesIssued
    <3>2. CASE q # p
      BY <1>1, <2>1, <2>2, <3>2 DEF NamesIssued
    <3> QED BY <3>1, <3>2
  <2> QED BY <2>4, <2>5 DEF NamesIssued
<1>3. ASSUME NEW q \in Proc, proc'[q].key # None
      PROVE  Fresh(q)'
  <2>1. proc[q].key # None /\ Fresh(q) /\ proc'[q].key = proc[q].key
    BY <1>1, <1>3 DEF KeysFresh
  <2>2. /\ proc'[q].snap = proc[q].snap /\ proc'[q].plain = proc[q].plain
        /\ proc'[q].pc \in Unsaved => proc[q].pc \in Unsaved
        /\ proc'[q].pc \in Stored => proc[q].pc \in Stored
    BY <1>1, <1>3
  <2>3. \A r \in Proc \ {q} : proc'[r].key # None => proc'[r].key.name # proc'[q].key.name
    BY <1>1, <2>1 DEF Fresh
  <2>4. proc'[q].pc \in Unsaved =>
          proc'[q].key.name # file'.key /\ \A r \in Proc : proc'[q].key.name # proc'[r].snap.key
    <3>1. proc[q].key.name # None
      BY <2>1, ConstantsAssumption DEF TypeOK, Process, Key
    <3> QED BY <1>1, <2>1, <2>2, <3>1 DEF Fresh
  <2> QED BY <2>1, <2>2, <2>3, <2>4 DEF Fresh
<1> QED BY <1>2, <1>3 DEF KeysFresh

\* What every step but a put of the secret and a write of the config leaves alone.
Calm ==
    /\ file'.key = file.key
    /\ keyring'.secret = keyring.secret \/ keyring'.secret = None
    /\ issued'.second >= issued.second

LEMMA EndSafe ==
  ASSUME TypeOK, TypeOK', NamesIssued, KeysFresh, Calm,
         NEW p \in Proc, NEW result, End(p, result)
  PROVE  NamesIssued' /\ KeysFresh'
<1> DEFINE run == [Blank EXCEPT !.pc = result]
<1>1. run.key = None /\ run.snap.key = None
  BY DEF Blank, NoFile
<1>2. proc' = [proc EXCEPT ![p] = run]
  BY DEF End
<1> HIDE DEF run
<1> QED BY <1>1, <1>2, SafeFrame DEF Calm

LEMMA GotoSafe ==
  ASSUME TypeOK, TypeOK', NamesIssued, KeysFresh, Calm, NEW p \in Proc, NEW pc, Goto(p, pc),
         pc \in Unsaved => proc[p].key = None \/ proc[p].pc \in Unsaved,
         pc \in Stored => proc[p].key = None \/ proc[p].pc \in Stored
  PROVE  NamesIssued' /\ KeysFresh'
<1> DEFINE run == [proc[p] EXCEPT !.pc = pc]
<1>1. proc' = [proc EXCEPT ![p] = run]
  BY DEF Goto, TypeOK
<1>2. run.key = proc[p].key /\ run.snap = proc[p].snap /\ run.plain = proc[p].plain /\ run.pc = pc
  BY DEF TypeOK, Process
<1> HIDE DEF run
<1> QED BY <1>1, <1>2, SafeFrame DEF Calm

LEMMA FreshTokenSafe ==
  ASSUME TypeOK, TypeOK', NamesIssued, KeysFresh, Calm, NEW p \in Proc,
         NEW pc \in Phase \ (Unsaved \cup Stored), NEW token,
         \/ proc' = [proc EXCEPT ![p].pc = pc, ![p].fresh = token]
         \/ proc' = [proc EXCEPT ![p].pc = pc, ![p].tok = token]
  PROVE  NamesIssued' /\ KeysFresh'
<1>1. CASE proc' = [proc EXCEPT ![p].pc = pc, ![p].fresh = token]
  <2> DEFINE run == [proc[p] EXCEPT !.pc = pc, !.fresh = token]
  <2>1. proc' = [proc EXCEPT ![p] = run]
    BY <1>1 DEF TypeOK
  <2>2. run.key = proc[p].key /\ run.snap = proc[p].snap /\ run.plain = proc[p].plain /\ run.pc = pc
    BY DEF TypeOK, Process
  <2> HIDE DEF run
  <2> QED BY <2>1, <2>2, SafeFrame DEF Calm
<1>2. CASE proc' = [proc EXCEPT ![p].pc = pc, ![p].tok = token]
  <2> DEFINE run == [proc[p] EXCEPT !.pc = pc, !.tok = token]
  <2>1. proc' = [proc EXCEPT ![p] = run]
    BY <1>2 DEF TypeOK
  <2>2. run.key = proc[p].key /\ run.snap = proc[p].snap /\ run.plain = proc[p].plain /\ run.pc = pc
    BY DEF TypeOK, Process
  <2> HIDE DEF run
  <2> QED BY <2>1, <2>2, SafeFrame DEF Calm
<1> QED BY <1>1, <1>2

LEMMA BeginSafe ==
  ASSUME TypeOK, TypeOK', NamesIssued, KeysFresh, NEW p \in Proc, Begin(p)
  PROVE  NamesIssued' /\ KeysFresh'
<1>1. Calm
  <2>1. file' = file /\ keyring' = keyring
    BY DEF Begin, StartLogin, StartDevice, StartStatus, StartSwitch, StartAccounts, StartLogout, store
  <2>2. issued' = issued \/ issued' = [issued EXCEPT !.codes = @ + 1]
    BY DEF Begin, StartLogin, StartDevice, StartStatus, StartSwitch, StartAccounts, StartLogout, server
  <2>3. issued'.second = issued.second /\ issued.second \in Nat
    BY <2>2 DEF TypeOK, Issued
  <2> QED BY <2>1, <2>3 DEF Calm
<1>2. ASSUME NEW cmd, NEW first, NEW want, NEW plain, Start(p, cmd, first, want, plain)
      PROVE  NamesIssued' /\ KeysFresh'
  <2> DEFINE run == [Blank EXCEPT !.pc = first, !.cmd = cmd, !.snap = file,
                                  !.want = want, !.plain = plain]
  <2>1. run.key = None /\ run.snap.key = file.key
    BY DEF Blank
  <2>2. proc' = [proc EXCEPT ![p] = run]
    BY <1>2 DEF Start
  <2> HIDE DEF run
  <2> QED BY <1>1, <2>1, <2>2, SafeFrame DEF Calm
<1>3. CASE StartStatus(p)
  <2> DEFINE run == [Blank EXCEPT !.pc = "poll", !.cmd = "status", !.snap = file,
                                  !.want = pending.acct, !.plain = pending.plain,
                                  !.code = pending.code]
  <2>1. run.key = None /\ run.snap.key = file.key
    BY DEF Blank
  <2>2. proc' = [proc EXCEPT ![p] = run]
    BY <1>3 DEF StartStatus
  <2> HIDE DEF run
  <2> QED BY <1>1, <2>1, <2>2, SafeFrame DEF Calm
<1> QED BY <1>1, <1>2, <1>3, EndSafe
    DEF Begin, StartLogin, StartDevice, StartSwitch, StartAccounts, StartLogout

LEMMA MintSafe ==
  ASSUME ~SameSecond, TypeOK, TypeOK', NamesIssued, KeysFresh, NEW p \in Proc, Mint(p)
  PROVE  NamesIssued' /\ KeysFresh'
<1>0. issued.second \in Nat /\ issued.second + 1 \in Nat
  BY DEF TypeOK, Issued
<1>a. NextSeconds = {issued.second + 1} /\ issued.second + 1 > issued.second
  BY <1>0 DEF NextSeconds
<1>1. Calm
  <2>1. file' = file /\ keyring' = keyring
    BY DEF Mint, store
  <2>2. issued' = issued \/ issued' = [issued EXCEPT !.keys = @ + 1, !.second = issued.second + 1]
    BY <1>a DEF Mint
  <2>3. issued'.second \in {issued.second, issued.second + 1}
    BY <2>2 DEF TypeOK, Issued
  <2> QED BY <1>0, <2>1, <2>3 DEF Calm
<1>2. CASE End(p, "failed")
  BY <1>1, <1>2, EndSafe
<1>3. CASE ~End(p, "failed")
  <2>1. PICK acct, new :
          /\ new = [id |-> issued.keys + 1, acct |-> acct, name |-> issued.second + 1]
          /\ issued' = [issued EXCEPT !.keys = @ + 1, !.second = issued.second + 1]
          /\ proc' = [proc EXCEPT ![p].pc = IF proc[p].plain THEN "check" ELSE "putApi",
                                  ![p].key = new]
    BY <1>a, <1>3 DEF Mint
  <2> DEFINE run == [proc[p] EXCEPT !.pc = IF proc[p].plain THEN "check" ELSE "putApi",
                                    !.key = new]
  <2>2. new.name = issued.second + 1 /\ issued'.second = issued.second + 1
    BY <2>1 DEF TypeOK, Issued
  <2>3. /\ proc'[p] = run
        /\ \A q \in Proc \ {p} : proc'[q] = proc[q]
        /\ \A q \in Proc : proc'[q].snap = proc[q].snap
    BY <2>1 DEF TypeOK, Process
  <2>4. /\ run.key = new /\ run.snap = proc[p].snap /\ run.plain = proc[p].plain
        /\ run.pc = IF proc[p].plain THEN "check" ELSE "putApi"
    BY DEF TypeOK, Process
  <2> HIDE DEF run
  <2>5. /\ file' = file /\ keyring' = keyring
        /\ file.key \in Maybe(Nat)
        /\ \A q \in Proc : /\ proc[q].snap.key \in Maybe(Nat)
                           /\ proc[q].key # None => proc[q].key.name \in Nat
    BY DEF Mint, store, TypeOK, File, Process, Key
  <2>6. /\ file.key # issued.second + 1
        /\ \A q \in Proc : /\ proc[q].snap.key # issued.second + 1
                           /\ proc[q].key # None => proc[q].key.name # issued.second + 1
    BY <1>0, <2>5, ConstantsAssumption DEF NamesIssued
  <2>7. NamesIssued'
    <3>1. file'.key # None => file'.key <= issued'.second
      BY <1>0, <2>2, <2>5 DEF NamesIssued
    <3>2. \A q \in Proc : proc'[q].snap.key # None => proc'[q].snap.key <= issued'.second
      BY <1>0, <2>2, <2>3, <2>5 DEF NamesIssued
    <3>3. \A q \in Proc \ {p} : proc'[q].key # None => proc'[q].key.name <= issued'.second
      BY <1>0, <2>2, <2>3, <2>5 DEF NamesIssued
    <3>4. proc'[p].key.name <= issued'.second
      BY <1>0, <2>2, <2>3, <2>4
    <3> QED BY <3>1, <3>2, <3>3, <3>4 DEF NamesIssued
  <2>8. Fresh(p)'
    BY <2>2, <2>3, <2>4, <2>5, <2>6 DEF Fresh, Stored
  <2>9. ASSUME NEW q \in Proc \ {p}, proc'[q].key # None
        PROVE  Fresh(q)'
    <3>1. Fresh(q) /\ proc'[q] = proc[q] /\ proc[q].key # None
      BY <2>3, <2>9 DEF KeysFresh
    <3>2. \A r \in Proc \ {q} : proc'[r].key # None => proc'[r].key.name # proc[q].key.name
      BY <2>2, <2>3, <2>4, <2>6, <3>1 DEF Fresh
    <3> QED BY <2>3, <2>5, <3>1, <3>2 DEF Fresh
  <2> QED BY <2>7, <2>8, <2>9 DEF KeysFresh
<1> QED BY <1>2, <1>3

LEMMA PutSecretSafe ==
  ASSUME TypeOK, TypeOK', KeyHeld, NamesIssued, KeysFresh, NEW p \in Proc, PutSecret(p)
  PROVE  NamesIssued' /\ KeysFresh'
<1>1. proc[p].key \in Key /\ proc[p].key # None /\ Fresh(p) /\ proc[p].pc = "putSecret"
  BY KeyType DEF PutSecret, Put, At, KeyHeld, Agrees, KeysFresh
<1>2. CASE Disown(p) /\ UNCHANGED keyring
  <2>1. Calm
    BY <1>2 DEF Calm, PutSecret, Put, server, TypeOK, Issued
  <2> QED BY <1>2, <2>1, EndSafe DEF Disown
<1>3. CASE ~(Disown(p) /\ UNCHANGED keyring)
  <2> DEFINE next == IF proc[p].fresh = None THEN "check" ELSE "putRefresh"
  <2>1. Goto(p, next) /\ keyring' = [keyring EXCEPT !["secret"] = proc[p].key]
    BY <1>3 DEF PutSecret, Put
  <2>2. next \in Stored /\ next \in Unsaved
    BY DEF Stored, Unsaved
  <2> HIDE DEF next
  <2>3. file' = file /\ issued' = issued
    BY DEF PutSecret, Put, server
  <2>4. keyring'.secret = proc[p].key
    BY <2>1 DEF TypeOK, Keyring
  <2>5. /\ \A q \in Proc : /\ proc'[q].snap = proc[q].snap /\ proc'[q].key = proc[q].key
                           /\ proc'[q].plain = proc[q].plain
        /\ \A q \in Proc \ {p} : proc'[q].pc = proc[q].pc
        /\ proc'[p].pc = next
    BY <2>1 DEF Goto, TypeOK, Process
  <2>6. NamesIssued'
    BY <2>3, <2>5 DEF NamesIssued
  <2>7. ASSUME NEW q \in Proc, proc'[q].key # None
        PROVE  Fresh(q)'
    <3>1. Fresh(q)
      BY <2>5, <2>7 DEF KeysFresh
    <3>2. proc[p].key.name # proc[q].snap.key
      BY <1>1 DEF Fresh, Unsaved
    <3>3. proc'[q].pc \in Unsaved => proc[q].pc \in Unsaved
      BY <1>1, <2>5 DEF Unsaved
    <3> QED BY <2>3, <2>4, <2>5, <3>1, <3>2, <3>3 DEF Fresh
  <2> QED BY <2>6, <2>7 DEF KeysFresh
<1> QED BY <1>2, <1>3

LEMMA WriteFileSafe ==
  ASSUME TypeOK, TypeOK', KeyHeld, NamesIssued, KeysFresh, NEW p \in Proc, WriteFile(p)
  PROVE  NamesIssued' /\ KeysFresh'
<1>1. CASE SaveFailed(p) /\ UNCHANGED file
  <2>1. Calm
    BY <1>1 DEF Calm, WriteFile, server, TypeOK, Issued
  <2> QED BY <1>1, <2>1, EndSafe DEF SaveFailed, Disown
<1>2. CASE ~(SaveFailed(p) /\ UNCHANGED file)
  <2>1. file' = NewFile(p) /\ Goto(p, "verify") /\ keyring' = keyring /\ issued' = issued
    BY <1>2 DEF WriteFile, server
  <2>2. /\ \A q \in Proc : /\ proc'[q].snap = proc[q].snap /\ proc'[q].key = proc[q].key
                           /\ proc'[q].plain = proc[q].plain
        /\ \A q \in Proc \ {p} : proc'[q].pc = proc[q].pc
        /\ proc'[p].pc = "verify"
    BY <2>1 DEF Goto, TypeOK, Process
  <2>3. /\ proc[p].pc = "write" /\ proc[p].snap \in File
        /\ proc[p].cmd = "logout" \/ proc[p].key # None
    BY DEF WriteFile, At, KeyHeld, Agrees, TypeOK, Process
  <2>4. file'.key = IF proc[p].cmd = "logout" THEN None ELSE proc[p].key.name
    BY <2>1, <2>3 DEF NewFile, File
  <2>5. NamesIssued'
    BY <2>1, <2>2, <2>3, <2>4 DEF NamesIssued
  <2>6. ASSUME NEW q \in Proc, proc'[q].key # None
        PROVE  Fresh(q)'
    <3>1. Fresh(q) /\ proc[q].key # None
      BY <2>2, <2>6 DEF KeysFresh
    <3>2. proc[q].key.name # None
      BY <3>1, KeyType, ConstantsAssumption
    <3>3. q # p => proc[q].key.name # file'.key
      BY <2>3, <2>4, <3>1, <3>2 DEF Fresh
    <3>4. proc'[q].pc \in Unsaved => q # p /\ proc[q].pc \in Unsaved
      BY <2>2 DEF Unsaved
    <3>5. proc'[q].pc \in Stored => proc[q].pc \in Stored
      BY <2>2, <2>3 DEF Stored
    <3> QED BY <2>1, <2>2, <3>1, <3>3, <3>4, <3>5 DEF Fresh
  <2> QED BY <2>5, <2>6 DEF KeysFresh
<1> QED BY <1>1, <1>2

LEMMA StepSafe ==
  ASSUME ~SameSecond, TypeOK, TypeOK', KeyHeld, NamesIssued, KeysFresh, NEW p \in Proc, Step(p)
  PROVE  NamesIssued' /\ KeysFresh'
<1>0. issued.second \in Nat
  BY DEF TypeOK, Issued
<1>1. Agrees(proc[p])
  BY DEF KeyHeld
<1>2. CASE SignIn(p) \/ PollPending(p) \/ Refresh(p)
  <2>1. file' = file /\ keyring' = keyring
    BY <1>2 DEF SignIn, PollPending, Refresh, store
  <2>2. issued' = issued \/ issued' = [issued EXCEPT !.tokens = @ + 1]
    BY <1>2 DEF SignIn, PollPending, Refresh, IssueToken
  <2>3. issued'.second = issued.second
    BY <2>2 DEF TypeOK, Issued
  <2>4. Calm
    BY <1>0, <2>1, <2>3 DEF Calm
  <2>5. /\ AfterRefresh(proc[p].cmd) \in Phase \ (Unsaved \cup Stored)
        /\ "choose" \in Phase \ (Unsaved \cup Stored)
        /\ "forget" \in Phase \ (Unsaved \cup Stored)
    BY DEF AfterRefresh, Phase, Unsaved, Stored
  <2>6. NoRefresh(p) => NamesIssued' /\ KeysFresh'
    BY <2>4, <2>5, EndSafe, GotoSafe DEF NoRefresh
  <2>7. CASE SignIn(p) \/ PollPending(p)
    BY <2>4, <2>5, <2>7, EndSafe, FreshTokenSafe DEF SignIn, PollPending
  <2>8. CASE Refresh(p)
    BY <2>4, <2>5, <2>6, <2>8, GotoSafe, FreshTokenSafe DEF Refresh
  <2> QED BY <1>2, <2>7, <2>8
<1>3. CASE ReadToken(p)
  <2>1. Calm
    BY <1>0, <1>3 DEF Calm, ReadToken, store, server
  <2>2. {"refresh", "forget"} \subseteq Phase \ (Unsaved \cup Stored)
    BY DEF Phase, Unsaved, Stored
  <2> QED BY <1>3, <2>1, <2>2, EndSafe, GotoSafe, FreshTokenSafe DEF ReadToken
<1>4. CASE KeepToken(p)
  <2>1. Calm
    BY <1>0, <1>4 DEF Calm, KeepToken, server, TypeOK, Keyring
  <2> QED BY <1>4, <2>1, EndSafe DEF KeepToken
<1>5. CASE ChooseStore(p)
  <2>1. Calm
    BY <1>0, <1>5 DEF Calm, ChooseStore, store, server
  <2> QED BY <1>5, <2>1, EndSafe, GotoSafe DEF ChooseStore, Unsaved, Stored
<1>6. CASE PutApi(p) \/ PutRefresh(p)
  <2>1. Calm
    BY <1>0, <1>6 DEF Calm, PutApi, PutRefresh, Put, server, TypeOK, Keyring
  <2> QED BY <1>6, <2>1, EndSafe, GotoSafe DEF PutApi, PutRefresh, Put, At, Disown, Unsaved, Stored
<1>7. CASE CheckSource(p) \/ VerifyFile(p)
  <2>1. Calm
    BY <1>0, <1>7 DEF Calm, CheckSource, VerifyFile, store, server
  <2> QED BY <1>7, <2>1, EndSafe, GotoSafe
          DEF CheckSource, VerifyFile, SaveFailed, Disown, At, Unsaved, Stored
<1>8. CASE RevokeSuperseded(p) \/ ClearPending(p) \/ RevokeKey(p) \/ RevokeToken(p)
  <2>1. Calm
    BY <1>0, <1>8 DEF Calm, RevokeSuperseded, ClearPending, RevokeKey, RevokeToken, store, server
  <2>2. "forget" \in Phase \ (Unsaved \cup Stored)
    BY DEF Phase, Unsaved, Stored
  <2>3. CASE RevokeToken(p)
    BY <2>1, <2>2, <2>3, GotoSafe, FreshTokenSafe DEF RevokeToken
  <2> QED BY <1>8, <2>1, <2>3, EndSafe, GotoSafe
          DEF RevokeSuperseded, ClearPending, RevokeKey, Unsaved, Stored
<1>9. CASE Forget(p)
  <2>1. Calm
    BY <1>0, <1>9 DEF Calm, Forget, server, TypeOK, Keyring
  <2>2. proc[p].key = None
    BY <1>1, <1>9 DEF Forget, At, Agrees
  <2> QED BY <1>9, <2>1, <2>2, GotoSafe DEF Forget
<1> QED BY <1>2, <1>3, <1>4, <1>5, <1>6, <1>7, <1>8, <1>9, MintSafe, PutSecretSafe, WriteFileSafe
    DEF Step

LEMMA NextSafe ==
  ~SameSecond /\ TypeOK /\ RevokeSafeInv /\ [Next]_vars => RevokeSafeInv'
<1> SUFFICES ASSUME ~SameSecond, TypeOK, KeyHeld, NamesIssued, KeysFresh, [Next]_vars
             PROVE  KeyHeld' /\ NamesIssued' /\ KeysFresh'
  BY DEF RevokeSafeInv
<1>1. TypeOK' /\ KeyHeld'
  BY NextType, NextHeld
<1>2. CASE UNCHANGED vars \/ EditFile
  <2>1. proc' = proc /\ keyring' = keyring /\ issued' = issued /\ file'.key = file.key
    BY <1>2 DEF vars, EditFile, store, server, TypeOK, File
  <2> QED BY <1>1, <2>1 DEF NamesIssued, KeysFresh, Fresh
<1>3. ASSUME NEW p \in Proc, Crash(p) PROVE NamesIssued' /\ KeysFresh'
  <2>1. Calm
    BY <1>3 DEF Calm, Crash, store, server, TypeOK, Issued
  <2> QED BY <1>1, <1>3, <2>1, EndSafe DEF Crash
<1> QED BY <1>1, <1>2, <1>3, BeginSafe, StepSafe DEF Next

LEMMA SafeRevokes == TypeOK /\ RevokeSafeInv => RevokeSparesInUse
<1> SUFFICES ASSUME TypeOK, RevokeSafeInv, NEW p \in Proc, At(p, "revoke"), file = NewFile(p),
                    InUse \in Recorded(proc[p].snap)
             PROVE  FALSE
  BY DEF RevokeSparesInUse
<1>1. proc[p].key \in Key /\ proc[p].key # None /\ Fresh(p)
  BY KeyType DEF RevokeSafeInv, KeyHeld, KeysFresh, At, Agrees
<1>2. InUse \in Key /\ InUse.name = proc[p].snap.key
  BY DEF Recorded, TypeOK
<1>3. proc[p].snap \in File
  BY DEF TypeOK, Process
<1>4. proc[p].cmd # "logout"
  BY <1>1 DEF RevokeSafeInv, KeyHeld, Agrees
<1>5. file.cred = IF proc[p].plain THEN proc[p].key ELSE InKeyring
  BY <1>3, <1>4 DEF NewFile, File
<1>6. CASE proc[p].plain
  BY <1>1, <1>2, <1>5, <1>6, ConstantsAssumption DEF InUse, Fresh
<1>7. CASE ~proc[p].plain
  BY <1>1, <1>2, <1>5, <1>7, ConstantsAssumption DEF InUse, Fresh, Stored, At
<1> QED BY <1>6, <1>7

\* When no two keys are minted within one second, no interleaving of any number of logins,
\* switches and logouts, kills included, makes complete_and_persist revoke the key that the
\* config it saved resolves to.
THEOREM RevokeSafe ==
  ASSUME ~SameSecond
  PROVE  Spec => []RevokeSparesInUse
<1>1. Init => TypeOK /\ RevokeSafeInv
  <2>1. Init => NamesIssued /\ KeysFresh
    BY DEF Init, NamesIssued, KeysFresh, NoFile, Blank
  <2> QED BY <2>1, InitType, InitHeld DEF RevokeSafeInv
<1>2. TypeOK /\ RevokeSafeInv /\ [Next]_vars => (TypeOK /\ RevokeSafeInv)'
  BY NextSafe, NextType DEF RevokeSafeInv
<1>3. TypeOK /\ RevokeSafeInv => RevokeSparesInUse
  BY SafeRevokes
<1> QED BY <1>1, <1>2, <1>3, PTL DEF Spec

-----------------------------------------------------------------------------

LEMMA NextPlaintext ==
  TypeOK /\ KeyHeld /\ PlaintextMatchesRecord /\ [Next]_vars => PlaintextMatchesRecord'
<1> SUFFICES ASSUME TypeOK, KeyHeld, PlaintextMatchesRecord, [Next]_vars
             PROVE  PlaintextMatchesRecord'
  OBVIOUS
<1>1. CASE file' = file \/ EditFile
  <2>1. file'.cred = file.cred /\ file'.acct = file.acct /\ file'.key = file.key
    BY <1>1 DEF EditFile, TypeOK, File
  <2> QED BY <2>1 DEF PlaintextMatchesRecord
<1>2. ASSUME NEW p \in Proc, WriteFile(p), file' = NewFile(p)
      PROVE  PlaintextMatchesRecord'
  <2>1. proc[p].snap \in File /\ (proc[p].cmd = "logout" \/ proc[p].key # None)
    BY <1>2 DEF WriteFile, At, KeyHeld, Agrees, TypeOK, Process
  <2>2. CASE proc[p].cmd = "logout"
    <3>1. file'.cred = None
      BY <1>2, <2>1, <2>2 DEF NewFile, File
    <3> QED BY <3>1, ConstantsAssumption DEF PlaintextMatchesRecord
  <2>3. CASE proc[p].cmd # "logout"
    <3>1. /\ file'.acct = proc[p].key.acct /\ file'.key = proc[p].key.name
          /\ file'.cred = IF proc[p].plain THEN proc[p].key ELSE InKeyring
      BY <1>2, <2>1, <2>3 DEF NewFile, File
    <3> QED BY <3>1, ConstantsAssumption DEF PlaintextMatchesRecord
  <2> QED BY <2>2, <2>3
<1>3. ASSUME NEW p \in Proc, Begin(p) \/ Step(p) \/ Crash(p)
      PROVE  file' = file \/ (WriteFile(p) /\ file' = NewFile(p))
  BY <1>3 DEF Begin, StartLogin, StartDevice, StartStatus, StartSwitch, StartAccounts, StartLogout,
      Step, SignIn, PollPending, ReadToken, Refresh, KeepToken, ChooseStore, Mint, PutApi, PutSecret,
      PutRefresh, Put, CheckSource, WriteFile, VerifyFile, RevokeSuperseded, ClearPending,
      RevokeKey, RevokeToken, Forget, Crash, store
<1> QED BY <1>1, <1>2, <1>3 DEF Next, vars, store

\* A profile with its credentials in the config file records the name and the account of the
\* very key stored there, however commands interleave, fail or are killed.
THEOREM PlaintextRecorded == Spec => []PlaintextMatchesRecord
<1>1. Init => TypeOK /\ KeyHeld /\ PlaintextMatchesRecord
  <2>1. Init => PlaintextMatchesRecord
    BY ConstantsAssumption DEF Init, NoFile, PlaintextMatchesRecord
  <2> QED BY <2>1, InitType, InitHeld
<1>2. TypeOK /\ KeyHeld /\ PlaintextMatchesRecord /\ [Next]_vars
        => (TypeOK /\ KeyHeld /\ PlaintextMatchesRecord)'
  BY NextType, NextHeld, NextPlaintext
<1> QED BY <1>1, <1>2, PTL DEF Spec

-----------------------------------------------------------------------------
(* LogoutEndsSignIn: tokens are numbered as they are issued, so one that   *)
(* rotation has retired is not accepted again.                             *)

LEMMA InitRetired == Init => TokensRetired
  BY DEF Init, TokensRetired, RetiresToken, Blank

\* A step looks after the run that takes it: new tokens are numbered after the last one.
LEMMA RetiredFrame ==
  ASSUME TypeOK, TypeOK', TokensRetired, NEW p \in Proc, NEW run,
         proc' = [proc EXCEPT ![p] = run], RetiresToken(run, issued'.tokens, tokens'),
         issued'.tokens \in {issued.tokens, issued.tokens + 1},
         tokens' \subseteq tokens \cup {issued.tokens + 1},
         keyring'.refresh \in {None, keyring.refresh, proc[p].fresh}
  PROVE  TokensRetired'
<1>1. issued.tokens \in Nat /\ issued'.tokens \in Nat /\ issued.tokens <= issued'.tokens
  BY DEF TypeOK, Issued
<1>2. keyring'.refresh # None => keyring'.refresh <= issued'.tokens
  <2>1. keyring'.refresh \in Maybe(Nat)
    BY DEF TypeOK, Keyring
  <2>2. keyring'.refresh # None => keyring'.refresh <= issued.tokens
    BY DEF TokensRetired, RetiresToken
  <2> QED BY <1>1, <2>1, <2>2
<1>3. ASSUME NEW q \in Proc, q # p PROVE RetiresToken(proc'[q], issued'.tokens, tokens')
  <2>1. proc'[q] = proc[q] /\ RetiresToken(proc[q], issued.tokens, tokens)
    BY <1>3 DEF TypeOK, TokensRetired
  <2>2. proc[q].tok \in Maybe(Nat) /\ proc[q].fresh \in Maybe(Nat)
    BY DEF TypeOK, Process
  <2>3. proc[q].tok # None => proc[q].tok <= issued'.tokens
    BY <1>1, <2>1, <2>2 DEF RetiresToken
  <2>4. proc[q].fresh # None => proc[q].fresh <= issued'.tokens
    BY <1>1, <2>1, <2>2 DEF RetiresToken
  <2>5. proc[q].tok # None /\ proc[q].tok \notin tokens => proc[q].tok \notin tokens'
    BY <1>1, <2>1, <2>2 DEF RetiresToken
  <2> QED BY <2>1, <2>3, <2>4, <2>5 DEF RetiresToken
<1> QED BY <1>2, <1>3 DEF TypeOK, TokensRetired

LEMMA EndRetired ==
  ASSUME TypeOK, TypeOK', TokensRetired, NEW p \in Proc, NEW result \in Ended, End(p, result),
         issued'.tokens \in {issued.tokens, issued.tokens + 1},
         tokens' \subseteq tokens \cup {issued.tokens + 1},
         keyring'.refresh \in {None, keyring.refresh, proc[p].fresh}
  PROVE  TokensRetired'
<1> DEFINE run == [Blank EXCEPT !.pc = result]
<1>1. RetiresToken(run, issued'.tokens, tokens')
  BY DEF RetiresToken, Blank, Ended
<1>2. proc' = [proc EXCEPT ![p] = run]
  BY DEF End
<1> HIDE DEF run
<1> QED BY <1>1, <1>2, RetiredFrame

LEMMA GotoRetired ==
  ASSUME TypeOK, TypeOK', TokensRetired, NEW p \in Proc, NEW pc, Goto(p, pc),
         issued'.tokens = issued.tokens, tokens' \subseteq tokens,
         keyring'.refresh \in {None, keyring.refresh, proc[p].fresh},
         pc \notin {"readToken", "refresh", "revokeKey"},
         pc = "revokeToken" => proc[p].pc = "revokeKey"
  PROVE  TokensRetired'
<1> DEFINE run == [proc[p] EXCEPT !.pc = pc]
<1>1. proc' = [proc EXCEPT ![p] = run] /\ RetiresToken(proc[p], issued.tokens, tokens)
  BY DEF Goto, TypeOK, TokensRetired
<1>2. run.pc = pc /\ run.tok = proc[p].tok /\ run.fresh = proc[p].fresh
  BY DEF TypeOK, Process
<1> HIDE DEF run
<1>3. RetiresToken(run, issued'.tokens, tokens')
  BY <1>1, <1>2 DEF RetiresToken
<1> QED BY <1>1, <1>3, RetiredFrame

LEMMA BeginRetired ==
  ASSUME TypeOK, TypeOK', TokensRetired, NEW p \in Proc, Begin(p)
  PROVE  TokensRetired'
<1>1. UNCHANGED <<tokens, keyring>> /\ issued'.tokens = issued.tokens
  BY DEF Begin, StartLogin, StartDevice, StartStatus, StartSwitch, StartAccounts, StartLogout,
         store, server, TypeOK, Issued
<1>2. ASSUME NEW run, run.tok = None, run.fresh = None,
             run.pc \notin {"refresh", "revokeKey", "revokeToken"}, proc' = [proc EXCEPT ![p] = run]
      PROVE  TokensRetired'
  <2>1. RetiresToken(run, issued'.tokens, tokens')
    BY <1>2 DEF RetiresToken
  <2> QED BY <1>1, <1>2, <2>1, RetiredFrame
<1>3. ASSUME NEW cmd, NEW first \in {"signin", "readToken"}, NEW want, NEW plain,
             Start(p, cmd, first, want, plain)
      PROVE  TokensRetired'
  <2> DEFINE run == [Blank EXCEPT !.pc = first, !.cmd = cmd, !.snap = file,
                                  !.want = want, !.plain = plain]
  <2>1. /\ run.tok = None /\ run.fresh = None
        /\ run.pc \notin {"refresh", "revokeKey", "revokeToken"}
    BY DEF Blank
  <2>2. proc' = [proc EXCEPT ![p] = run]
    BY <1>3 DEF Start
  <2> HIDE DEF run
  <2> QED BY <1>2, <2>1, <2>2
<1>4. CASE StartStatus(p)
  <2> DEFINE run == [Blank EXCEPT !.pc = "poll", !.cmd = "status", !.snap = file,
                                  !.want = pending.acct, !.plain = pending.plain,
                                  !.code = pending.code]
  <2>1. /\ run.tok = None /\ run.fresh = None
        /\ run.pc \notin {"refresh", "revokeKey", "revokeToken"}
    BY DEF Blank
  <2>2. proc' = [proc EXCEPT ![p] = run]
    BY <1>4 DEF StartStatus
  <2> HIDE DEF run
  <2> QED BY <1>2, <2>1, <2>2
<1> QED BY <1>1, <1>3, <1>4, EndRetired
    DEF Begin, StartLogin, StartDevice, StartSwitch, StartAccounts, StartLogout, Ended

\* The steps that obtain a token or use one.
LEMMA TokenStepRetired ==
  ASSUME TypeOK, TypeOK', TokensRetired, NEW p \in Proc,
         SignIn(p) \/ PollPending(p) \/ ReadToken(p) \/ Refresh(p) \/ RevokeToken(p)
  PROVE  TokensRetired'
<1>0. proc[p] \in Process /\ RetiresToken(proc[p], issued.tokens, tokens) /\ issued.tokens \in Nat
  BY DEF TypeOK, TokensRetired, Issued
<1>a. UNCHANGED keyring
  BY DEF SignIn, PollPending, ReadToken, Refresh, RevokeToken, store
<1>1. ASSUME IssueToken
      PROVE  issued'.tokens = issued.tokens + 1
  BY <1>1 DEF IssueToken, TypeOK, Issued
<1>2. ASSUME IssueToken, tokens' \subseteq tokens \cup {issued'.tokens}, NEW pc,
             pc \notin {"readToken", "refresh"},
             pc = "revokeKey" => proc[p].tok \notin tokens' /\ proc[p].tok # None,
             pc # "revokeToken",
             proc' = [proc EXCEPT ![p].pc = pc, ![p].fresh = issued'.tokens]
      PROVE  TokensRetired'
  <2> DEFINE run == [proc[p] EXCEPT !.pc = pc, !.fresh = issued'.tokens]
  <2>1. proc' = [proc EXCEPT ![p] = run]
    BY <1>2 DEF TypeOK
  <2>2. run.pc = pc /\ run.tok = proc[p].tok /\ run.fresh = issued'.tokens
    BY <1>0 DEF Process
  <2>3. proc[p].tok # None => proc[p].tok <= issued.tokens + 1
    BY <1>0 DEF RetiresToken, Process
  <2> HIDE DEF run
  <2>4. RetiresToken(run, issued'.tokens, tokens')
    BY <1>0, <1>1, <1>2, <2>2, <2>3 DEF RetiresToken
  <2> QED BY <1>1, <1>2, <1>a, <2>1, <2>4, RetiredFrame
<1>3. CASE SignIn(p)
  BY <1>1, <1>2, <1>3, <1>a, EndRetired DEF SignIn, Ended
<1>4. CASE PollPending(p)
  BY <1>1, <1>2, <1>4, <1>a, EndRetired DEF PollPending, Ended
<1>5. CASE ReadToken(p)
  <2>1. UNCHANGED <<issued, tokens>>
    BY <1>5 DEF ReadToken, server
  <2>2. ASSUME keyring.refresh # None,
               proc' = [proc EXCEPT ![p].pc = "refresh", ![p].tok = keyring.refresh]
        PROVE  TokensRetired'
    <3> DEFINE run == [proc[p] EXCEPT !.pc = "refresh", !.tok = keyring.refresh]
    <3>1. proc' = [proc EXCEPT ![p] = run]
      BY <2>2 DEF TypeOK
    <3>2. run.pc = "refresh" /\ run.tok = keyring.refresh /\ run.fresh = proc[p].fresh
      BY <1>0 DEF Process
    <3> HIDE DEF run
    <3>3. RetiresToken(run, issued'.tokens, tokens')
      BY <1>0, <1>5, <2>1, <2>2, <3>2 DEF RetiresToken, TokensRetired, ReadToken, At
    <3> QED BY <1>a, <2>1, <3>1, <3>3, RetiredFrame
  <2> QED BY <1>5, <1>a, <2>1, <2>2, EndRetired, GotoRetired DEF ReadToken, Ended
<1>6. CASE Refresh(p)
  <2>1. At(p, "refresh") /\ proc[p].tok # None /\ proc[p].fresh = None
    BY <1>0, <1>6 DEF Refresh, At, RetiresToken
  <2>2. ASSUME IssueToken, tokens' \subseteq tokens \cup {issued'.tokens}, NoRefresh(p)
        PROVE  TokensRetired'
    <3>1. CASE End(p, "failed")
      BY <1>1, <1>a, <2>2, <3>1, EndRetired DEF Ended
    <3>2. CASE Goto(p, "forget")
      <4> DEFINE run == [proc[p] EXCEPT !.pc = "forget"]
      <4>1. proc' = [proc EXCEPT ![p] = run]
        BY <3>2 DEF TypeOK, Goto
      <4>2. run.pc = "forget" /\ run.tok = proc[p].tok /\ run.fresh = None
        BY <1>0, <2>1 DEF Process
      <4>3. proc[p].tok <= issued.tokens + 1
        BY <1>0, <2>1 DEF RetiresToken, Process
      <4> HIDE DEF run
      <4>4. RetiresToken(run, issued'.tokens, tokens')
        BY <1>1, <2>2, <4>2, <4>3 DEF RetiresToken
      <4> QED BY <1>1, <1>a, <2>2, <4>1, <4>4, RetiredFrame
    <3> QED BY <2>2, <3>1, <3>2 DEF NoRefresh
  <2>3. ASSUME UNCHANGED <<tokens, issued>>, NoRefresh(p)
        PROVE  TokensRetired'
    BY <1>a, <2>3, EndRetired, GotoRetired DEF NoRefresh, Ended
  <2>4. ASSUME UNCHANGED <<tokens, issued>>, Goto(p, AfterRefresh(proc[p].cmd))
        PROVE  TokensRetired'
    <3> DEFINE pc == AfterRefresh(proc[p].cmd)
               run == [proc[p] EXCEPT !.pc = pc]
    <3>1. proc' = [proc EXCEPT ![p] = run]
      BY <2>4 DEF TypeOK, Goto
    <3>2. run.pc = pc /\ run.tok = proc[p].tok /\ run.fresh = None
      BY <1>0, <2>1 DEF Process
    <3>3. RetiresToken(run, issued'.tokens, tokens')
      <4> HIDE DEF run
      <4> QED BY <1>0, <2>1, <2>4, <3>2 DEF RetiresToken
    <3> HIDE DEF run
    <3> QED BY <1>a, <2>4, <3>1, <3>3, RetiredFrame
  <2>5. ASSUME IssueToken, tokens' = (tokens \ {proc[p].tok}) \cup {issued'.tokens},
               proc' = [proc EXCEPT ![p].pc = AfterRefresh(proc[p].cmd),
                                    ![p].fresh = issued'.tokens]
        PROVE  TokensRetired'
    <3>1. proc[p].tok \notin tokens'
      BY <1>0, <1>1, <2>1, <2>5 DEF RetiresToken, Process
    <3>2. AfterRefresh(proc[p].cmd) \in {"choose", "keep", "revokeKey"}
      BY DEF AfterRefresh
    <3> HIDE DEF AfterRefresh
    <3> QED BY <1>2, <2>1, <2>5, <3>1, <3>2
  <2> QED BY <1>6, <2>2, <2>3, <2>4, <2>5 DEF Refresh
<1>7. CASE RevokeToken(p)
  <2>1. UNCHANGED issued /\ tokens' \subseteq tokens
    BY <1>7 DEF RevokeToken
  <2>2. ASSUME proc' = [proc EXCEPT ![p].pc = "forget", ![p].tok = None]
        PROVE  TokensRetired'
    <3> DEFINE run == [proc[p] EXCEPT !.pc = "forget", !.tok = None]
    <3>1. proc' = [proc EXCEPT ![p] = run]
      BY <2>2 DEF TypeOK
    <3>2. run.pc = "forget" /\ run.tok = None /\ run.fresh = proc[p].fresh
      BY <1>0 DEF Process
    <3> HIDE DEF run
    <3>3. RetiresToken(run, issued'.tokens, tokens')
      BY <1>0, <2>1, <3>2 DEF RetiresToken
    <3> QED BY <1>a, <2>1, <3>1, <3>3, RetiredFrame
  <2> QED BY <1>7, <1>a, <2>1, <2>2, GotoRetired DEF RevokeToken
<1> QED BY <1>3, <1>4, <1>5, <1>6, <1>7

\* The others only keep a token, or none.
LEMMA StepRetired ==
  ASSUME TypeOK, TypeOK', TokensRetired, NEW p \in Proc, Step(p)
  PROVE  TokensRetired'
<1>1. CASE SignIn(p) \/ PollPending(p) \/ ReadToken(p) \/ Refresh(p) \/ RevokeToken(p)
  BY <1>1, TokenStepRetired
<1>2. CASE KeepToken(p)
  <2>1. UNCHANGED <<issued, tokens>> /\ keyring'.refresh \in {keyring.refresh, proc[p].fresh}
    BY <1>2 DEF KeepToken, server, TypeOK, Keyring
  <2> QED BY <1>2, <2>1, EndRetired DEF KeepToken, Ended
<1>3. CASE ChooseStore(p) \/ RevokeSuperseded(p) \/ ClearPending(p) \/ CheckSource(p)
           \/ WriteFile(p) \/ VerifyFile(p) \/ RevokeKey(p)
  <2>1. UNCHANGED <<issued, tokens, keyring>>
    BY <1>3 DEF ChooseStore, RevokeSuperseded, ClearPending, CheckSource, WriteFile, VerifyFile,
                RevokeKey, store, server
  <2> QED BY <1>3, <2>1, EndRetired, GotoRetired
          DEF ChooseStore, RevokeSuperseded, ClearPending, CheckSource, WriteFile, VerifyFile,
              RevokeKey, SaveFailed, Disown, At, Ended
<1>4. CASE PutApi(p) \/ PutSecret(p) \/ PutRefresh(p)
  <2>1. UNCHANGED <<issued, tokens>> /\ keyring'.refresh \in {keyring.refresh, proc[p].fresh}
    BY <1>4 DEF PutApi, PutSecret, PutRefresh, Put, server, TypeOK, Keyring
  <2> QED BY <1>4, <2>1, EndRetired, GotoRetired
          DEF PutApi, PutSecret, PutRefresh, Put, Disown, Ended
<1>5. CASE Forget(p)
  <2>1. UNCHANGED <<issued, tokens>> /\ keyring'.refresh \in {None, keyring.refresh}
    BY <1>5 DEF Forget, server, TypeOK, Keyring
  <2> QED BY <1>5, <2>1, GotoRetired DEF Forget
<1>6. CASE Mint(p)
  <2>1. UNCHANGED <<tokens, keyring>> /\ issued'.tokens = issued.tokens
    BY <1>6 DEF Mint, store, TypeOK, Issued
  <2>2. ASSUME NEW pc \in {"check", "putApi"}, NEW new,
               proc' = [proc EXCEPT ![p].pc = pc, ![p].key = new]
        PROVE  TokensRetired'
    <3> DEFINE run == [proc[p] EXCEPT !.pc = pc, !.key = new]
    <3>1. proc' = [proc EXCEPT ![p] = run] /\ RetiresToken(proc[p], issued.tokens, tokens)
      BY <2>2 DEF TypeOK, TokensRetired
    <3>2. run.pc = pc /\ run.tok = proc[p].tok /\ run.fresh = proc[p].fresh
      BY DEF TypeOK, Process
    <3> HIDE DEF run
    <3>3. RetiresToken(run, issued'.tokens, tokens')
      BY <2>1, <3>1, <3>2 DEF RetiresToken
    <3> QED BY <2>1, <3>1, <3>3, RetiredFrame
  <2> QED BY <1>6, <2>1, <2>2, EndRetired DEF Mint, Ended
<1> QED BY <1>1, <1>2, <1>3, <1>4, <1>5, <1>6 DEF Step

LEMMA NextRetired ==
  TypeOK /\ TypeOK' /\ TokensRetired /\ [Next]_vars => TokensRetired'
<1> SUFFICES ASSUME TypeOK, TypeOK', TokensRetired, [Next]_vars PROVE TokensRetired'
  OBVIOUS
<1>1. CASE UNCHANGED vars \/ EditFile
  BY <1>1 DEF vars, EditFile, store, server, TokensRetired, RetiresToken
<1>2. ASSUME NEW p \in Proc, Crash(p) PROVE TokensRetired'
  BY <1>2, EndRetired DEF Crash, store, server, Ended
<1> QED BY <1>1, <1>2, BeginRetired, StepRetired DEF Next

\* A command touches no other command's state.
LEMMA OwnStep ==
  ASSUME TypeOK, NEW q \in Proc, Begin(q) \/ Step(q) \/ Crash(q)
  PROVE  \A r \in Proc \ {q} : proc'[r] = proc[r]
<1>1. \A pc : Goto(q, pc) \/ End(q, pc) => \A r \in Proc \ {q} : proc'[r] = proc[r]
  BY DEF TypeOK, Goto, End
<1>2. CASE Begin(q) \/ Crash(q)
  BY <1>1, <1>2 DEF TypeOK, Begin, StartLogin, StartDevice, StartStatus, StartSwitch, StartAccounts,
     StartLogout, Start, Crash
<1>3. CASE Step(q)
  BY <1>1, <1>3 DEF TypeOK, Step, SignIn, PollPending, ReadToken, Refresh, NoRefresh, KeepToken,
     ChooseStore, Mint, PutApi, PutSecret, PutRefresh, Put, CheckSource, WriteFile, VerifyFile,
     SaveFailed, Disown, RevokeSuperseded, ClearPending, RevokeKey, RevokeToken, Forget
<1> QED BY <1>2, <1>3

LEMMA RetiredLogout ==
  TypeOK /\ TokensRetired /\ [Next]_vars =>
    \A p \in Proc : At(p, "revokeToken") /\ proc'[p].pc = "forget" /\ proc'[p].tok = None =>
        {proc[p].tok, proc[p].fresh} \cap tokens' = {}
<1> SUFFICES ASSUME TypeOK, TokensRetired, [Next]_vars, NEW p \in Proc,
                    At(p, "revokeToken"), proc'[p].pc = "forget", proc'[p].tok = None
             PROVE  {proc[p].tok, proc[p].fresh} \cap tokens' = {}
  OBVIOUS
<1>1. proc[p].tok # None /\ (proc[p].fresh # None => proc[p].tok \notin tokens)
  BY DEF TokensRetired, RetiresToken, At
<1>2. Begin(p) \/ Step(p) \/ Crash(p)
  <2>1. proc'[p] # proc[p]
    BY DEF At
  <2> QED BY <2>1, OwnStep DEF Next, vars, EditFile
<1>3. Running(p)
  BY DEF At, Running, Ended
<1>4. ~Begin(p)
  BY <1>3 DEF Begin, StartLogin, StartDevice, StartStatus, StartSwitch, StartAccounts, StartLogout,
              Start
<1>5. ~Crash(p)
  BY DEF Crash, End, Blank, TypeOK
<1>6. RevokeToken(p)
  BY <1>2, <1>4, <1>5 DEF Step, At, SignIn, PollPending, ReadToken, Refresh, KeepToken, ChooseStore,
     Mint, PutApi, PutSecret, PutRefresh, Put, CheckSource, WriteFile, VerifyFile,
     RevokeSuperseded, ClearPending, RevokeKey, RevokeToken, Forget
<1>7. tokens' = tokens \ {Newest(p)}
  <2>1. Goto(p, "forget") => proc'[p].tok = proc[p].tok
    BY DEF Goto, TypeOK, Process
  <2> QED BY <1>1, <1>6, <2>1 DEF RevokeToken
<1> QED BY <1>1, <1>7, ConstantsAssumption DEF Newest, TypeOK

\* A logout that reports its sign-in revoked leaves neither the stored token nor the one rotation
\* gave for it accepted, however many commands share the keyring and whatever is lost or killed.
THEOREM SignInEnds == Spec => LogoutEndsSignIn
<1>1. Init => TypeOK /\ KeyHeld /\ TokensRetired
  BY InitType, InitHeld, InitRetired
<1>2. TypeOK /\ KeyHeld /\ TokensRetired /\ [Next]_vars => (TypeOK /\ KeyHeld /\ TokensRetired)'
  BY NextType, NextHeld, NextRetired
<1>3. TypeOK /\ TokensRetired /\ [Next]_vars =>
        [\A p \in Proc : At(p, "revokeToken") /\ proc'[p].pc = "forget" /\ proc'[p].tok = None =>
          {proc[p].tok, proc[p].fresh} \cap tokens' = {}]_vars
  BY RetiredLogout
<1> QED BY <1>1, <1>2, <1>3, PTL DEF Spec, LogoutEndsSignIn

-----------------------------------------------------------------------------
(* Keys are named after the second of their mint, so their names differ    *)
(* when no two mints share a second.                                       *)

\* Keys come to live by a mint only, under the name of a second not used before.
LEMMA KeysStep ==
  ASSUME ~SameSecond, TypeOK, [Next]_vars
  PROVE  \/ keys' \subseteq keys /\ issued'.second = issued.second
         \/ \E new \in Key : /\ keys' = keys \cup {new}
                             /\ new.name = issued.second + 1
                             /\ issued'.second = issued.second + 1
<1>0. issued \in Issued /\ issued.second \in Nat
  BY DEF TypeOK, Issued
<1>1. CASE UNCHANGED vars \/ EditFile
  BY <1>0, <1>1 DEF vars, EditFile, server
<1>2. ASSUME NEW p \in Proc, Begin(p) \/ Crash(p) PROVE UNCHANGED keys /\ issued'.second = issued.second
  BY <1>0, <1>2 DEF Begin, StartLogin, StartDevice, StartStatus, StartSwitch, StartAccounts,
     StartLogout, Crash, server, Issued
<1>3. ASSUME NEW p \in Proc, Mint(p), ~UNCHANGED <<keys, issued>>
      PROVE  \E new \in Key : /\ keys' = keys \cup {new}
                              /\ new.name = issued.second + 1
                              /\ issued'.second = issued.second + 1
  <2>1. /\ proc[p].want \in Maybe(Account) /\ NextSeconds = {issued.second + 1}
        /\ issued.second + 1 > issued.second
    BY <1>0 DEF TypeOK, Process, NextSeconds, Issued
  <2>2. PICK acct \in Account :
          /\ issued' = [issued EXCEPT !.keys = @ + 1, !.second = issued.second + 1]
          /\ keys' = keys \cup {[id |-> issued.keys + 1, acct |-> acct, name |-> issued.second + 1]}
    BY <1>3, <2>1 DEF Mint
  <2> DEFINE new == [id |-> issued.keys + 1, acct |-> acct, name |-> issued.second + 1]
  <2>3. new \in Key /\ new.name = issued.second + 1
    BY <1>0 DEF Key, Issued
  <2>4. issued'.second = issued.second + 1
    BY <1>0, <2>2 DEF Issued
  <2> QED BY <2>2, <2>3, <2>4
<1>4. ASSUME NEW p \in Proc, Step(p), ~Mint(p)
      PROVE  keys' \subseteq keys /\ issued'.second = issued.second
  BY <1>0, <1>4 DEF Step, SignIn, PollPending, ReadToken, Refresh, IssueToken, KeepToken, ChooseStore,
     PutApi, PutSecret, PutRefresh, Put, CheckSource, WriteFile, VerifyFile, RevokeSuperseded,
     Delete, ClearPending, RevokeKey, RevokeToken, Forget, server, Issued
<1> QED BY <1>0, <1>1, <1>2, <1>3, <1>4 DEF Next, Step

LEMMA NextUnique ==
  ~SameSecond /\ TypeOK /\ KeyNamesUnique /\ [Next]_vars => KeyNamesUnique'
<1> SUFFICES ASSUME ~SameSecond, TypeOK, KeyNamesUnique, [Next]_vars PROVE KeyNamesUnique'
  OBVIOUS
<1>0. issued.second \in Nat /\ \A k \in keys : k.name \in Nat /\ k.name <= issued.second
  BY DEF TypeOK, Issued, Key, KeyNamesUnique
<1>1. CASE keys' \subseteq keys /\ issued'.second = issued.second
  BY <1>0, <1>1 DEF KeyNamesUnique
<1>2. ASSUME NEW new \in Key, keys' = keys \cup {new}, new.name = issued.second + 1,
             issued'.second = issued.second + 1
      PROVE  KeyNamesUnique'
  <2>1. \A k \in keys : k.name # new.name
    BY <1>0, <1>2
  <2> QED BY <1>0, <1>2, <2>1 DEF KeyNamesUnique
<1> QED BY <1>1, <1>2, KeysStep

=============================================================================
