-------------------------- MODULE SmExchangeProofs --------------------------
(***************************************************************************)
(* Proofs about SmExchange, for any accounts, any number of codes asked    *)
(* for, and any faults and changes by others.                              *)
(***************************************************************************)
EXTENDS SmExchange, FiniteSetTheorems, TLAPS

USE DEF Maybe

LEMMA BlankIsRun == Blank \in Run
  BY SmAssumption DEF Blank, Run, Phase, Ends, Choice

LEMMA InitType == Init => TypeOK
  BY BlankIsRun, SmAssumption DEF Init, TypeOK

LEMMA GotoType ==
  ASSUME TypeOK, NEW pc \in Phase, Goto(pc)
  PROVE  run' \in Run
  BY DEF TypeOK, Goto, Run

LEMMA FailType == ASSUME TypeOK, Fail \/ Unanswered PROVE run' \in Run
  BY GotoType DEF Fail, Unanswered, Phase, Ends

LEMMA SignedInType ==
  ASSUME TypeOK, SignedIn
  PROVE  run' \in Run /\ session' \in Maybe(Account)
<1>1. run' \in Run
  BY GotoType DEF SignedIn, Phase
<1> QED BY <1>1 DEF SignedIn, TypeOK

\* Starting an exchange and signing in.
LEMMA SignInTypes ==
  ASSUME TypeOK, Start \/ Login \/ Mfa \/ FetchUser \/ ListAccounts
  PROVE  TypeOK'
<1>1. CASE Start
  <2>1. ASSUME NEW op \in {"mint", "list", "revoke"}, NEW choice \in Choice,
               NEW want \in Maybe(Account), NEW prev \in Maybe(Recorded), Begin(op, choice, want, prev)
        PROVE  TypeOK'
    <3>1. run' \in Run
      BY <2>1, BlankIsRun DEF Begin, Blank, Run, Phase
    <3> QED BY <2>1, <3>1 DEF Begin, server, TypeOK
  <2>2. CASE StartMint
    <3>1. record \in Maybe(Recorded)
      BY DEF TypeOK, Key, Recorded
    <3> QED BY <2>1, <2>2, <3>1 DEF StartMint
  <2>3. CASE StartList
    BY <2>1, <2>3 DEF StartList, Choice
  <2>4. CASE StartRevoke
    <3>1. PICK acct \in {record.acct, None} :
            Begin("revoke", "current", None, [acct |-> acct, name |-> record.name])
      BY <2>4 DEF StartRevoke
    <3>2. [acct |-> acct, name |-> record.name] \in Recorded
      BY <2>4 DEF StartRevoke, TypeOK, Key, Recorded
    <3> QED BY <2>1, <3>1, <3>2 DEF Choice
  <2> QED BY <1>1, <2>2, <2>3, <2>4 DEF Start
<1>2. CASE Login
  <2>1. run' \in Run /\ session' \in Maybe(Account)
    <3>1. CASE SignedIn
      BY <3>1, SignedInType
    <3>2. CASE run' = [run EXCEPT !.pc = "mfa", !.attempt = 1] /\ UNCHANGED session
      <4>1. "mfa" \in Phase /\ 1 \in 0..MfaAttempts
        BY SmAssumption DEF Phase
      <4> QED BY <3>2, <4>1 DEF TypeOK, Run
    <3> QED BY <1>2, <3>1, <3>2, FailType DEF Login, TypeOK
  <2> QED BY <1>2, <2>1 DEF Login, server, TypeOK
<1>3. CASE Mfa
  <2>1. run' \in Run /\ session' \in Maybe(Account)
    <3>1. CASE SignedIn
      BY <3>1, SignedInType
    <3>2. CASE /\ run.attempt < MfaAttempts
               /\ run' = [run EXCEPT !.attempt = @ + 1]
               /\ UNCHANGED session
      BY <3>2, SmAssumption DEF TypeOK, Run
    <3> QED BY <1>3, <3>1, <3>2, FailType DEF Mfa, TypeOK
  <2> QED BY <1>3, <2>1 DEF Mfa, server, TypeOK
<1>4. CASE FetchUser
  <2>1. ASSUME NEW pc \in Phase, run' = [run EXCEPT !.reported = session, !.pc = pc]
        PROVE  run' \in Run
    BY <2>1 DEF TypeOK, Run
  <2>2. run' \in Run
    BY <1>4, <2>1, FailType DEF FetchUser, Phase
  <2> QED BY <1>4, <2>2 DEF FetchUser, server, TypeOK
<1>5. CASE ListAccounts
  <2>1. run' \in Run
    BY <1>5, GotoType, FailType DEF ListAccounts, Phase, Ends
  <2> QED BY <1>5, <2>1 DEF ListAccounts, server, TypeOK
<1> QED BY <1>1, <1>2, <1>3, <1>4, <1>5

LEMMA PromptType ==
  ASSUME TypeOK, Prompt \/ PickForLogin
  PROVE  run' \in Run
<1>1. ASSUME NEW a \in members, run' = [run EXCEPT !.pc = "member", !.want = a]
      PROVE  run' \in Run
  BY <1>1 DEF TypeOK, Run, Phase
<1>2. CASE Prompt
  <2>1. \A typed : Resolved(typed) \subseteq members
    BY DEF Resolved, Row
  <2> QED BY <1>1, <1>2, <2>1, FailType DEF Prompt
<1>3. CASE PickForLogin
  BY <1>1, <1>2, <1>3 DEF PickForLogin
<1> QED BY <1>2, <1>3

\* Settling the account.
LEMMA ConfirmedType ==
  ASSUME TypeOK, NEW a \in Maybe(Account), NEW pc \in Phase,
         run' = [run EXCEPT !.reported = a, !.pc = pc]
  PROVE  run' \in Run
  BY DEF TypeOK, Run

LEMMA ChosenType ==
  ASSUME TypeOK, NEW a \in Maybe(Account), run' = [run EXCEPT !.pc = "enable", !.chosen = a]
  PROVE  run' \in Run
  BY DEF TypeOK, Run, Phase

LEMMA SettleTypes ==
  ASSUME TypeOK, PairInv, PickAccount \/ CheckMember \/ SetCurrent \/ Confirm \/ Settle
  PROVE  TypeOK'
<1>1. run.pc \in {"set", "confirm"} => Target \in Maybe(Account)
  BY DEF Target, TypeOK, Run, Recorded, PairInv, Progress, Moving, ForMint
<1>2. CASE PickAccount
  <2>1. run' \in Run
    BY <1>2, GotoType, FailType, PromptType DEF PickAccount, Phase
  <2> QED BY <1>2, <2>1 DEF PickAccount, server, TypeOK
<1>3. CASE CheckMember
  <2>1. run' \in Run
    BY <1>3, GotoType, FailType DEF CheckMember, Phase, Ends
  <2> QED BY <1>3, <2>1 DEF CheckMember, server, TypeOK
<1>4. CASE SetCurrent
  <2>1. run' \in Run
    BY <1>4, GotoType, FailType DEF SetCurrent, Phase
  <2>2. session' \in Maybe(Account)
    BY <1>1, <1>4 DEF SetCurrent, At, TypeOK
  <2> QED BY <1>4, <2>1, <2>2 DEF SetCurrent, server, TypeOK
<1>5. CASE Confirm
  <2>1. Onward \in Phase
    BY DEF Onward, Phase
  <2>2. run' \in Run
    BY <1>1, <1>5, <2>1, ConfirmedType, FailType DEF Confirm, At
  <2> QED BY <1>5, <2>2 DEF Confirm, server, TypeOK
<1>6. CASE Settle
  <2>1. Cardinality({}) = 0
    BY FS_EmptySet
  <2>2. ASSUME Cardinality(members) = 1 PROVE (CHOOSE a \in members : TRUE) \in members
    <3>1. members # {}
      BY <2>1, <2>2
    <3> QED BY <3>1
  <2>3. \A a \in members : run' = [run EXCEPT !.pc = "enable", !.chosen = a] => run' \in Run
    BY ChosenType DEF TypeOK
  <2>4. run' \in Run
    BY <1>6, <2>2, <2>3, FailType DEF Settle
  <2> QED BY <1>6, <2>4 DEF Settle, server, TypeOK
<1> QED BY <1>2, <1>3, <1>4, <1>5, <1>6

-----------------------------------------------------------------------------
(* Minting and revoking.                                                   *)

LEMMA MintTypes ==
  ASSUME TypeOK, PairInv, Enable \/ Reread \/ Mint \/ Deliver
  PROVE  TypeOK'
<1>1. Where \subseteq Account
  BY DEF Where, TypeOK
<1>2. CASE Enable
  <2>1. ASSUME NEW a \in Where, NEW pc \in {"reread", "failed"},
               run' = [run EXCEPT !.enabled = a, !.pc = pc]
        PROVE  run' \in Run
    BY <1>1, <2>1 DEF TypeOK, Run, Phase, Ends
  <2>2. run' \in Run
    BY <1>2, <2>1, GotoType, FailType DEF Enable, Phase
  <2>3. access' \subseteq Account
    BY <1>1, <1>2 DEF Enable, TypeOK
  <2> QED BY <1>2, <2>2, <2>3 DEF Enable, TypeOK
<1>3. CASE Reread
  <2>1. run' \in Run
    BY <1>3, GotoType, FailType DEF Reread, Phase, Ends
  <2> QED BY <1>3, <2>1 DEF Reread, server, TypeOK
<1>4. CASE Mint
  <2>1. CASE run' \in Run /\ UNCHANGED <<keys, names>>
    BY <1>4, <2>1 DEF Mint, TypeOK
  <2>2. ASSUME NEW a \in Where, NEW new \in Key, names.given < MaxNames,
               keys' = keys \cup {new},
               names' = [names EXCEPT !.given = @ + 1],
               \/ run' = [run EXCEPT !.pc = "granted", !.made = new, !.key = new]
               \/ run' = [run EXCEPT !.pc = "failed", !.made = new]
        PROVE  TypeOK'
    <3>1. {"granted", "failed"} \subseteq Phase
      BY DEF Phase, Ends
    <3>2. run' \in Run
      BY <2>2, <3>1 DEF TypeOK, Run
    <3>3. names' \in [given : 0..MaxNames, changes : 0..MaxChanges]
      BY <2>2, SmAssumption DEF TypeOK
    <3>4. keys' \subseteq Key
      BY <2>2 DEF TypeOK
    <3> QED BY <1>4, <2>2, <3>2, <3>3, <3>4 DEF Mint, TypeOK
  <2>3. \A a \in Where : [acct |-> a, name |-> names.given + 1] \in Key
    BY <1>1, SmAssumption DEF Key, TypeOK
  <2> QED BY <1>4, <2>1, <2>2, <2>3, FailType DEF Mint
<1>5. CASE Deliver
  <2>1. run' \in Run
    BY <1>5, GotoType DEF Deliver, Phase, Ends
  <2>2. record' \in Maybe(Key)
    BY <1>5 DEF Deliver, TypeOK, Run, Key, PairInv, Progress, Settled, PairBelongsTogether, At
  <2> QED BY <1>5, <2>1, <2>2 DEF Deliver, server, TypeOK
<1> QED BY <1>2, <1>3, <1>4, <1>5

LEMMA RevokeTypes ==
  ASSUME TypeOK, FindEntry \/ DeleteKey \/ Others
  PROVE  TypeOK'
<1>1. CASE FindEntry
  <2>1. run' \in Run
    BY <1>1, GotoType, FailType DEF FindEntry, Phase, Ends
  <2> QED BY <1>1, <2>1 DEF FindEntry, server, TypeOK
<1>2. CASE DeleteKey
  <2>1. run' \in Run
    BY <1>2, GotoType, FailType DEF DeleteKey, Phase, Ends
  <2>2. keys' \subseteq Key
    BY <1>2 DEF DeleteKey, TypeOK
  <2> QED BY <1>2, <2>1, <2>2 DEF DeleteKey, TypeOK
<1>3. CASE Others
  <2>1. names' \in [given : 0..MaxNames, changes : 0..MaxChanges]
    BY <1>3, SmAssumption DEF Others, TypeOK
  <2>2. members' \subseteq Account /\ access' \subseteq Account
    BY <1>3 DEF Others, TypeOK
  <2>3. keys' \subseteq Key
    <3>1. \A a \in Account, n \in 1..names.given : [acct |-> a, name |-> n] \in Key
      BY DEF Key, TypeOK
    <3> QED BY <1>3, <3>1 DEF Others, TypeOK
  <2> QED BY <1>3, <2>1, <2>2, <2>3 DEF Others, TypeOK
<1> QED BY <1>1, <1>2, <1>3

LEMMA TypeStep == TypeOK /\ PairInv /\ [Next]_vars => TypeOK'
<1> SUFFICES ASSUME TypeOK, PairInv, [Next]_vars PROVE TypeOK'
  OBVIOUS
<1>1. CASE UNCHANGED vars
  BY <1>1 DEF vars, TypeOK
<1>2. CASE Next
  BY <1>2, SignInTypes, SettleTypes, MintTypes, RevokeTypes DEF Next, Step
<1> QED BY <1>1, <1>2

-----------------------------------------------------------------------------
(* What is minted, switched on and deleted is on the account asked for.    *)

LEMMA InitPair == Init => PairInv
  BY DEF Init, Blank, PairInv, Purpose, Progress, PairBelongsTogether, AccessOnlyWhereChosen,
         Early, Unpicked, Moving, Settled, At

\* Only where the exchange stands changes: to an end, or to a step that nothing is asked of.
LEMMA GotoPair ==
  ASSUME TypeOK, PairInv, NEW pc \in Ends \cup {"accounts"}, Goto(pc),
         pc = "accounts" => run.pc \in Early
  PROVE  PairInv'
<1>1. run' = [run EXCEPT !.pc = pc] /\ run'.pc = pc
  BY DEF Goto, TypeOK, Run
<1>2. /\ run'.op = run.op /\ run'.prev = run.prev /\ run'.choice = run.choice
      /\ run'.want = run.want /\ run'.key = run.key /\ run'.made = run.made
      /\ run'.enabled = run.enabled /\ run'.chosen = run.chosen
  BY <1>1 DEF TypeOK, Run
<1>3. Purpose'
  BY <1>1, <1>2 DEF PairInv, Purpose, Unpicked, Ends, At
<1>4. Progress'
  BY <1>1, <1>2 DEF PairInv, Progress, Ends, Early, Moving, Settled
<1> QED BY <1>2, <1>3, <1>4 DEF PairInv, PairBelongsTogether, AccessOnlyWhereChosen

LEMMA FailPair == ASSUME TypeOK, PairInv, Fail \/ Unanswered PROVE PairInv'
  BY GotoPair DEF Fail, Unanswered, Ends

LEMMA StartPair ==
  ASSUME TypeOK, Start
  PROVE  PairInv'
<1>1. ASSUME NEW op \in {"mint", "list", "revoke"}, NEW choice \in Choice,
             NEW want \in Maybe(Account), NEW prev, Begin(op, choice, want, prev),
             op = "revoke" => prev # None, choice = "id" <=> want # None
      PROVE  PairInv'
  <2>1. run' = [Blank EXCEPT !.pc = "login", !.op = op, !.choice = choice, !.want = want,
                             !.prev = prev]
    BY <1>1 DEF Begin
  <2>2. /\ run'.pc = "login" /\ run'.op = op /\ run'.choice = choice /\ run'.want = want
        /\ run'.prev = prev /\ run'.key = None /\ run'.made = None /\ run'.enabled = None
    BY <2>1 DEF Blank
  <2> QED BY <1>1, <2>2 DEF PairInv, Purpose, Progress, PairBelongsTogether,
                            AccessOnlyWhereChosen, Early, Unpicked, Moving, Settled, At
<1>2. CASE StartMint
  BY <1>1, <1>2 DEF StartMint
<1>3. CASE StartList
  BY <1>1, <1>3 DEF StartList, Choice
<1>4. CASE StartRevoke
  <2>1. PICK acct \in {record.acct, None} :
          Begin("revoke", "current", None, [acct |-> acct, name |-> record.name])
    BY <1>4 DEF StartRevoke
  <2>2. [acct |-> acct, name |-> record.name] \in Recorded
    BY <1>4 DEF StartRevoke, TypeOK, Key, Recorded
  <2>3. [acct |-> acct, name |-> record.name] # None
    BY <2>2, SmAssumption
  <2> QED BY <1>1, <2>1, <2>3 DEF Choice
<1> QED BY <1>2, <1>3, <1>4 DEF Start

LEMMA SignedInPair ==
  ASSUME TypeOK, PairInv, SignedIn, run.pc \in {"login", "mfa"},
         run.op = "revoke" => run.pc = "login"
  PROVE  PairInv'
<1> DEFINE next == IF run.op # "revoke" THEN "user" ELSE IF run.prev.acct = None THEN "entries" ELSE "set"
<1>1. run' = [run EXCEPT !.pc = next] /\ run'.pc = next
  BY DEF SignedIn, Goto, TypeOK, Run
<1>2. /\ run'.op = run.op /\ run'.prev = run.prev /\ run'.choice = run.choice
      /\ run'.want = run.want /\ run'.key = run.key /\ run'.made = run.made
      /\ run'.enabled = run.enabled /\ run'.chosen = run.chosen
  BY <1>1 DEF TypeOK, Run
<1>3. Purpose'
  BY <1>1, <1>2 DEF PairInv, Purpose, Unpicked, At
<1>4. Progress'
  BY <1>1, <1>2 DEF PairInv, Purpose, Progress, Early, Moving, Settled, ForMint
<1> QED BY <1>2, <1>3, <1>4 DEF PairInv, PairBelongsTogether, AccessOnlyWhereChosen

LEMMA SignInPair ==
  ASSUME TypeOK, PairInv, Login \/ Mfa \/ FetchUser \/ ListAccounts
  PROVE  PairInv'
<1>1. CASE Login
  <2>1. CASE run.op # "revoke" /\ run' = [run EXCEPT !.pc = "mfa", !.attempt = 1] /\ UNCHANGED session
    <3>1. /\ run'.op = run.op /\ run'.prev = run.prev /\ run'.choice = run.choice
          /\ run'.want = run.want /\ run'.key = run.key /\ run'.made = run.made
          /\ run'.enabled = run.enabled /\ run'.chosen = run.chosen /\ run'.pc = "mfa"
      BY <2>1 DEF TypeOK, Run
    <3> QED BY <1>1, <2>1, <3>1 DEF Login, PairInv, Purpose, Progress, PairBelongsTogether,
              AccessOnlyWhereChosen, Early, Unpicked, Moving, Settled, At
  <2> QED BY <1>1, <2>1, FailPair, SignedInPair DEF Login, At
<1>2. CASE Mfa
  <2>1. CASE run' = [run EXCEPT !.attempt = @ + 1] /\ UNCHANGED session
    <3>1. /\ run'.op = run.op /\ run'.prev = run.prev /\ run'.choice = run.choice
          /\ run'.want = run.want /\ run'.key = run.key /\ run'.made = run.made
          /\ run'.enabled = run.enabled /\ run'.chosen = run.chosen /\ run'.pc = run.pc
      BY <2>1 DEF TypeOK, Run
    <3> QED BY <1>2, <2>1, <3>1 DEF Mfa, PairInv, Purpose, Progress, PairBelongsTogether,
              AccessOnlyWhereChosen, Early, Unpicked, Moving, Settled, At
  <2>2. run.op # "revoke"
    BY <1>2 DEF Mfa, At, PairInv, Purpose
  <2> QED BY <1>2, <2>1, <2>2, FailPair, SignedInPair DEF Mfa, At
<1>3. CASE FetchUser
  <2>1. ASSUME NEW pc \in {"accounts", "pick"}, pc = "accounts" <=> run.op = "list",
               run' = [run EXCEPT !.reported = session, !.pc = pc]
        PROVE  PairInv'
    <3>1. /\ run'.op = run.op /\ run'.prev = run.prev /\ run'.choice = run.choice
          /\ run'.want = run.want /\ run'.key = run.key /\ run'.made = run.made
          /\ run'.enabled = run.enabled /\ run'.chosen = run.chosen
          /\ run'.reported = session /\ run'.pc = pc
      BY <2>1 DEF TypeOK, Run
    <3>2. run.op \in {"mint", "list", "revoke"} /\ run.choice \in Choice /\ session' = session
      BY <1>3 DEF TypeOK, Run, FetchUser
    <3> QED BY <1>3, <2>1, <3>1, <3>2 DEF FetchUser, PairInv, Purpose, Progress,
              PairBelongsTogether, AccessOnlyWhereChosen, Early, Unpicked, Moving, Settled, At
  <2> QED BY <1>3, <2>1, FailPair DEF FetchUser
<1>4. CASE ListAccounts
  BY <1>4, FailPair, GotoPair DEF ListAccounts, Ends
<1> QED BY <1>1, <1>2, <1>3, <1>4

\* The prompts, and the account that a login falls on without one.
LEMMA PickPair ==
  ASSUME TypeOK, PairInv, PickAccount
  PROVE  PairInv'
<1>1. run.pc = "pick" /\ run.op = "mint" /\ UNCHANGED <<server, session>>
  BY DEF PickAccount, At, PairInv, Purpose
<1>2. ASSUME NEW a \in members, run.choice \in {"login", "switch"},
             run' = [run EXCEPT !.pc = "member", !.want = a]
      PROVE  PairInv'
  <2>1. /\ run'.op = run.op /\ run'.prev = run.prev /\ run'.choice = run.choice
        /\ run'.want = a /\ run'.key = run.key /\ run'.made = run.made
        /\ run'.enabled = run.enabled /\ run'.chosen = run.chosen
        /\ run'.reported = run.reported /\ run'.pc = "member"
    BY <1>2 DEF TypeOK, Run
  <2>2. a # None
    BY SmAssumption DEF TypeOK
  <2> QED BY <1>1, <1>2, <2>1, <2>2 DEF PairInv, Purpose, Progress, PairBelongsTogether,
            AccessOnlyWhereChosen, Early, Unpicked, Moving, Settled, At
<1>3. ASSUME NEW pc \in {"settle", "member"}, Goto(pc),
             pc = "settle" => run.choice = "current", pc = "member" => run.choice = "id"
      PROVE  PairInv'
  <2>1. /\ run'.op = run.op /\ run'.prev = run.prev /\ run'.choice = run.choice
        /\ run'.want = run.want /\ run'.key = run.key /\ run'.made = run.made
        /\ run'.enabled = run.enabled /\ run'.chosen = run.chosen
        /\ run'.reported = run.reported /\ run'.pc = pc
    BY <1>3 DEF Goto, TypeOK, Run
  <2> QED BY <1>1, <1>3, <2>1 DEF PairInv, Purpose, Progress, PairBelongsTogether,
            AccessOnlyWhereChosen, Early, Unpicked, Moving, Settled, At
<1>4. ASSUME run.choice \in {"login", "switch"}, Prompt PROVE PairInv'
  <2>1. \A typed : Resolved(typed) \subseteq members
    BY DEF Resolved, Row
  <2> QED BY <1>2, <1>4, <2>1, FailPair DEF Prompt
<1>5. ASSUME run.choice = "login", PickForLogin PROVE PairInv'
  BY <1>2, <1>4, <1>5 DEF PickForLogin
<1> QED BY <1>3, <1>4, <1>5, FailPair DEF PickAccount

\* Moving the session to the account asked for, or to the one a recorded key is on.
LEMMA MovePair ==
  ASSUME TypeOK, PairInv, CheckMember \/ SetCurrent \/ Confirm
  PROVE  PairInv'
<1>1. ASSUME NEW pc \in Phase, Goto(pc)
      PROVE  /\ run'.op = run.op /\ run'.prev = run.prev /\ run'.choice = run.choice
             /\ run'.want = run.want /\ run'.key = run.key /\ run'.made = run.made
             /\ run'.enabled = run.enabled /\ run'.chosen = run.chosen
             /\ run'.reported = run.reported /\ run'.pc = pc
  BY <1>1 DEF Goto, TypeOK, Run
<1>2. CASE CheckMember
  <2>1. run.pc = "member" /\ run.op = "mint" /\ UNCHANGED <<server, session>>
    BY <1>2 DEF CheckMember, At, PairInv, Purpose
  <2>2. ASSUME NEW pc \in {"settle", "set"}, Goto(pc), pc = "settle" => run.reported = run.want
        PROVE  PairInv'
    <3>1. pc \in Phase
      BY DEF Phase
    <3> QED BY <1>1, <2>1, <2>2, <3>1 DEF PairInv, Purpose, Progress, PairBelongsTogether,
              AccessOnlyWhereChosen, Early, Unpicked, Moving, Settled, At, ForMint
  <2> QED BY <1>2, <2>2, FailPair DEF CheckMember, Fail
<1>3. CASE SetCurrent
  <2>1. CASE Goto("confirm")
    <3>1. "confirm" \in Phase
      BY DEF Phase
    <3> QED BY <1>1, <1>3, <2>1, <3>1 DEF SetCurrent, PairInv, Purpose, Progress,
              PairBelongsTogether, AccessOnlyWhereChosen, Early, Unpicked, Moving, Settled, At,
              ForMint
  <2> QED BY <1>3, <2>1, FailPair DEF SetCurrent
<1>4. CASE Confirm
  <2>1. CASE session = Target /\ run' = [run EXCEPT !.reported = Target, !.pc = Onward]
    <3>1. /\ run'.op = run.op /\ run'.prev = run.prev /\ run'.choice = run.choice
          /\ run'.want = run.want /\ run'.key = run.key /\ run'.made = run.made
          /\ run'.enabled = run.enabled /\ run'.chosen = run.chosen
          /\ run'.reported = Target /\ run'.pc = Onward
      BY <2>1 DEF TypeOK, Run
    <3>2. run.pc = "confirm" /\ UNCHANGED <<server, session>>
      BY <1>4 DEF Confirm, At
    <3>3. CASE ForMint
      <4>1. Target = run.want /\ Onward = "settle"
        BY <3>3 DEF Target, Onward, ForMint
      <4> QED BY <2>1, <3>1, <3>2, <3>3, <4>1 DEF PairInv, Purpose, Progress, PairBelongsTogether,
                AccessOnlyWhereChosen, Early, Unpicked, Moving, Settled, At, ForMint
    <3>4. CASE ~ForMint
      <4>1. Target = run.prev.acct /\ Onward = "entries"
        BY <3>4 DEF Target, Onward, ForMint
      <4>2. run.prev.acct # None => Where' \subseteq {run.prev.acct}
        BY <2>1, <3>2, <4>1 DEF Where
      <4> QED BY <3>1, <3>2, <3>4, <4>1, <4>2 DEF PairInv, Purpose, Progress, PairBelongsTogether,
                AccessOnlyWhereChosen, Early, Unpicked, Moving, Settled, At, ForMint
    <3> QED BY <3>3, <3>4
  <2> QED BY <1>4, <2>1, FailPair DEF Confirm
<1> QED BY <1>2, <1>3, <1>4

\* The account is settled: from here on no call can be about another one.
LEMMA SettlePair ==
  ASSUME TypeOK, PairInv, Settle
  PROVE  PairInv'
<1>1. run.pc = "settle" /\ run.op = "mint" /\ run.reported = session /\ UNCHANGED <<server, session>>
  BY DEF Settle, At, PairInv, Purpose
<1>2. ASSUME NEW a \in members, run' = [run EXCEPT !.pc = "enable", !.chosen = a],
             Where \subseteq {a}, run.want # None => a = run.want
      PROVE  PairInv'
  <2>1. /\ run'.op = run.op /\ run'.prev = run.prev /\ run'.choice = run.choice
        /\ run'.want = run.want /\ run'.key = run.key /\ run'.made = run.made
        /\ run'.enabled = run.enabled /\ run'.chosen = a /\ run'.pc = "enable"
    BY <1>2 DEF TypeOK, Run
  <2>2. Where' = Where
    BY <1>1 DEF Where, server
  <2> QED BY <1>1, <1>2, <2>1, <2>2 DEF PairInv, Purpose, Progress, PairBelongsTogether,
            AccessOnlyWhereChosen, Early, Unpicked, Moving, Settled, At
<1>3. CASE /\ run.reported \in members
           /\ run' = [run EXCEPT !.pc = "enable", !.chosen = run.reported]
  <2>1. session # None
    BY <1>1, <1>3, SmAssumption DEF TypeOK
  <2> QED BY <1>1, <1>2, <1>3, <2>1 DEF Where, PairInv, Purpose, At
<1>4. CASE /\ run.reported = None /\ Cardinality(members) = 1
           /\ run' = [run EXCEPT !.pc = "enable", !.chosen = CHOOSE a \in members : TRUE]
  <2>1. IsFiniteSet(members)
    BY SmAssumption, FS_Subset DEF TypeOK
  <2>2. PICK a : members = {a}
    BY <1>4, <2>1, FS_Singleton
  <2>3. (CHOOSE b \in members : TRUE) = a
    BY <2>2
  <2>4. Where = {a} /\ run.want = None
    BY <1>1, <1>4, <2>2 DEF Where, PairInv, Purpose, At
  <2> QED BY <1>2, <1>4, <2>2, <2>3, <2>4
<1> QED BY <1>3, <1>4, FailPair DEF Settle

\* Access, the key and its delivery.
LEMMA MintPair ==
  ASSUME TypeOK, PairInv, Enable \/ Reread \/ Mint \/ Deliver
  PROVE  PairInv'
<1>1. Where' = Where
  BY DEF Enable, Reread, Mint, Deliver, server, Where
<1>2. run.pc \in Settled
  BY DEF Enable, Reread, Mint, Deliver, At, Settled
<1>3. run.op = "mint" /\ Where \subseteq {run.chosen} /\ (run.want # None => run.chosen = run.want)
  BY <1>2 DEF PairInv, Progress
<1>4. CASE Enable
  <2>1. ASSUME NEW a \in Where, NEW pc \in {"reread", "failed"},
               run' = [run EXCEPT !.enabled = a, !.pc = pc]
        PROVE  PairInv'
    <3>1. /\ run'.op = run.op /\ run'.prev = run.prev /\ run'.choice = run.choice
          /\ run'.want = run.want /\ run'.key = run.key /\ run'.made = run.made
          /\ run'.enabled = a /\ run'.chosen = run.chosen /\ run'.pc = pc
      BY <2>1 DEF TypeOK, Run
    <3> QED BY <1>1, <1>3, <1>4, <2>1, <3>1 DEF Enable, PairInv, Purpose, Progress,
              PairBelongsTogether, AccessOnlyWhereChosen, Early, Unpicked, Moving, Settled, At
  <2>2. CASE Goto("reread")
    <3>1. /\ run'.op = run.op /\ run'.prev = run.prev /\ run'.choice = run.choice
          /\ run'.want = run.want /\ run'.key = run.key /\ run'.made = run.made
          /\ run'.enabled = run.enabled /\ run'.chosen = run.chosen /\ run'.pc = "reread"
      BY <2>2 DEF Goto, TypeOK, Run
    <3> QED BY <1>1, <1>3, <1>4, <3>1 DEF Enable, PairInv, Purpose, Progress,
              PairBelongsTogether, AccessOnlyWhereChosen, Early, Unpicked, Moving, Settled, At
  <2> QED BY <1>4, <2>1, <2>2, FailPair DEF Enable
<1>5. CASE Reread
  <2>1. CASE Goto("mint")
    <3>1. /\ run'.op = run.op /\ run'.prev = run.prev /\ run'.choice = run.choice
          /\ run'.want = run.want /\ run'.key = run.key /\ run'.made = run.made
          /\ run'.enabled = run.enabled /\ run'.chosen = run.chosen /\ run'.pc = "mint"
      BY <2>1 DEF Goto, TypeOK, Run
    <3> QED BY <1>1, <1>3, <1>5, <3>1 DEF Reread, PairInv, Purpose, Progress,
              PairBelongsTogether, AccessOnlyWhereChosen, Early, Unpicked, Moving, Settled, At
  <2> QED BY <1>5, <2>1, FailPair DEF Reread, Fail
<1>6. CASE Mint
  <2>1. run.pc = "mint" /\ run.key = None
    BY <1>2, <1>6 DEF Mint, At, PairInv, Progress
  <2>2. ASSUME NEW new \in Key, new.acct \in Where,
               run' = [run EXCEPT !.pc = "granted", !.made = new, !.key = new]
        PROVE  PairInv'
    <3>1. /\ run'.op = run.op /\ run'.prev = run.prev /\ run'.choice = run.choice
          /\ run'.want = run.want /\ run'.key = new
          /\ run'.enabled = run.enabled /\ run'.chosen = run.chosen /\ run'.pc = "granted"
      BY <2>2 DEF TypeOK, Run
    <3>2. new # None
      BY <2>2, SmAssumption
    <3> QED BY <1>1, <1>3, <2>2, <3>1, <3>2 DEF PairInv, Purpose, Progress,
              PairBelongsTogether, AccessOnlyWhereChosen, Early, Unpicked, Moving, Settled, At
  <2>3. ASSUME NEW new \in Key, run' = [run EXCEPT !.pc = "failed", !.made = new]
        PROVE  PairInv'
    <3>1. /\ run'.op = run.op /\ run'.prev = run.prev /\ run'.choice = run.choice
          /\ run'.want = run.want /\ run'.key = None
          /\ run'.enabled = run.enabled /\ run'.chosen = run.chosen /\ run'.pc = "failed"
      BY <2>1, <2>3 DEF TypeOK, Run
    <3> QED BY <1>3, <3>1 DEF PairInv, Purpose, Progress, PairBelongsTogether,
              AccessOnlyWhereChosen, Early, Unpicked, Moving, Settled, At
  <2>4. \A a \in Where : [acct |-> a, name |-> names.given + 1] \in Key
    <3>1. Where \subseteq Account
      BY DEF Where, TypeOK
    <3>2. names.given + 1 \in Nat
      BY SmAssumption DEF TypeOK
    <3> QED BY <3>1, <3>2 DEF Key
  <2> QED BY <1>6, <2>2, <2>3, <2>4, FailPair DEF Mint
<1>7. CASE Deliver
  <2>1. run.pc = "granted" /\ run.key # None
    BY <1>2, <1>7 DEF Deliver, At, PairInv, Progress
  <2>2. ASSUME NEW pc \in {"entries", "set"}, Goto(pc), run.prev # None,
               pc = "entries" => run.prev.acct = run.chosen
        PROVE  PairInv'
    <3>1. /\ run'.op = run.op /\ run'.prev = run.prev /\ run'.choice = run.choice
          /\ run'.want = run.want /\ run'.key = run.key /\ run'.made = run.made
          /\ run'.enabled = run.enabled /\ run'.chosen = run.chosen /\ run'.pc = pc
      BY <2>2 DEF Goto, TypeOK, Run
    <3> QED BY <1>1, <1>3, <2>1, <2>2, <3>1 DEF PairInv, Purpose, Progress, PairBelongsTogether,
              AccessOnlyWhereChosen, Early, Unpicked, Moving, Settled, ForMint, At
  <2>3. CASE Goto("idle")
    BY <2>3, GotoPair DEF Ends
  <2> QED BY <1>7, <2>2, <2>3 DEF Deliver
<1> QED BY <1>4, <1>5, <1>6, <1>7

\* Revoking, and what others do meanwhile: accounts are left, never joined.
LEMMA RevokePair ==
  ASSUME TypeOK, PairInv, FindEntry \/ DeleteKey
  PROVE  PairInv'
<1>1. Where' = Where
  BY DEF FindEntry, DeleteKey, server, Where
<1>2. CASE FindEntry /\ Goto("delete")
  <2>1. /\ run'.op = run.op /\ run'.prev = run.prev /\ run'.choice = run.choice
        /\ run'.want = run.want /\ run'.key = run.key /\ run'.made = run.made
        /\ run'.enabled = run.enabled /\ run'.chosen = run.chosen /\ run'.pc = "delete"
    BY <1>2 DEF Goto, TypeOK, Run
  <2> QED BY <1>1, <1>2, <2>1 DEF FindEntry, PairInv, Purpose, Progress, PairBelongsTogether,
            AccessOnlyWhereChosen, Early, Unpicked, Moving, Settled, ForMint, At
<1>3. CASE Goto("absent") \/ Goto("revoked")
  BY <1>3, GotoPair DEF Ends
<1> QED BY <1>2, <1>3, FailPair DEF FindEntry, DeleteKey

LEMMA OthersPair ==
  ASSUME TypeOK, PairInv, Others \/ UNCHANGED vars
  PROVE  PairInv'
<1>1. members' \subseteq members /\ UNCHANGED <<session, run>>
  BY DEF Others, vars
<1>2. Where' \subseteq Where
  BY <1>1 DEF Where
<1> QED BY <1>1, <1>2 DEF PairInv, Purpose, Progress, PairBelongsTogether,
          AccessOnlyWhereChosen, Early, Unpicked, Moving, Settled, ForMint, At

LEMMA PairStep == TypeOK /\ PairInv /\ [Next]_vars => PairInv'
<1> SUFFICES ASSUME TypeOK, PairInv, [Next]_vars PROVE PairInv'
  OBVIOUS
<1> QED BY StartPair, SignInPair, PickPair, MovePair, SettlePair, MintPair, RevokePair, OthersPair
        DEF Next, Step

LEMMA PairAlways == Spec => [](TypeOK /\ PairInv)
<1>1. Init => TypeOK /\ PairInv
  BY InitType, InitPair
<1>2. TypeOK /\ PairInv /\ [Next]_vars => (TypeOK /\ PairInv)'
  BY TypeStep, PairStep
<1> QED BY <1>1, <1>2, PTL DEF Spec

\* Every reachable state is well-typed; the codes asked for never exceed their limit.
THEOREM TypeCorrect == Spec => []TypeOK
  BY PairAlways, PTL

\* The key, its access key and the account reported with them are of one account, the one asked
\* for, whatever calls fail, setcurrents do not take, and others change in between.
THEOREM PairsBelong == Spec => []PairBelongsTogether
<1>1. PairInv => PairBelongsTogether
  BY DEF PairInv
<1> QED BY <1>1, PairAlways, PTL

\* Programmatic access is switched on for the settled account only.
THEOREM AccessConfined == Spec => []AccessOnlyWhereChosen
<1>1. PairInv => AccessOnlyWhereChosen
  BY DEF PairInv
<1> QED BY <1>1, PairAlways, PTL

\* A revocation deletes keys of the recorded name on the recorded account only.
THEOREM DeletionConfined == Spec => DeletesTheRecorded
<1>1. TypeOK /\ PairInv /\ [Next]_vars =>
        [At("delete") /\ run' # run => \A k \in keys \ keys' :
            k.name = run.prev.name /\ run.prev.acct \in {None, k.acct}]_vars
  <2> SUFFICES ASSUME TypeOK, PairInv, Next, At("delete"), run' # run, NEW k \in keys \ keys'
               PROVE  k.name = run.prev.name /\ run.prev.acct \in {None, k.acct}
    OBVIOUS
  <2>1. DeleteKey
    BY DEF Next, Start, StartMint, StartList, StartRevoke, Begin, Step, Others, Ends, server, At,
           Login, Mfa, FetchUser, ListAccounts, PickAccount, CheckMember, SetCurrent, Confirm,
           Settle, Enable, Reread, Mint, Deliver, FindEntry
  <2>2. PICK a \in Where : keys' = keys \ {[acct |-> a, name |-> run.prev.name]}
    BY <2>1 DEF DeleteKey
  <2> QED BY <2>2 DEF PairInv, Progress, At
<1> QED BY <1>1, PairAlways, PTL DEF Spec, DeletesTheRecorded

-----------------------------------------------------------------------------
(* An exchange implements KeyGrant.                                        *)

\* What KeyGrant sees of an exchange.
Open == Minting /\ run.pc # "granted" /\ run.key = None
granting == <<Open, run.want, run.made, run.key>>

LEMMA InitGrant == Init => Grant!Init
  BY DEF Init, Blank, Grant!Init, Minting, Ends

\* Beginning an exchange asks for a key, or for none.
LEMMA StartGrant ==
  ASSUME TypeOK, PairInv, Start
  PROVE  Grant!Next
<1>1. ~Open
  BY DEF Start, StartMint, StartList, StartRevoke, Begin, Open, Minting
<1>2. ASSUME NEW op \in {"mint", "list", "revoke"}, NEW choice, NEW want \in Maybe(Account), NEW prev,
             Begin(op, choice, want, prev)
      PROVE  /\ run'.pc = "login" /\ run'.op = op /\ run'.want = want
             /\ run'.made = None /\ run'.key = None
  BY <1>2 DEF Begin, Blank
<1>3. CASE StartMint
  <2>1. /\ run'.pc = "login" /\ run'.op = "mint" /\ run'.want \in Maybe(Account)
        /\ run'.made = None /\ run'.key = None
    BY <1>2, <1>3 DEF StartMint
  <2> QED BY <1>1, <2>1 DEF Grant!Next, Grant!Ask, Open, Minting, Ends
<1>4. CASE StartList \/ StartRevoke
  <2>1. /\ run'.op # "mint" /\ run'.want = None
        /\ run'.made = None /\ run'.key = None
    BY <1>2, <1>4 DEF StartList, StartRevoke
  <2> QED BY <1>1, <2>1 DEF Grant!Next, Grant!Dismiss, Open, Minting
<1> QED BY <1>3, <1>4 DEF Start

\* What the request is for, and what came of it, stay as they are.
Kept == /\ run'.op = run.op /\ run'.want = run.want
        /\ run'.made = run.made /\ run'.key = run.key

\* Such a step goes on with the request, or refuses it.
LEMMA GoingOn ==
  ASSUME TypeOK, PairInv, run.pc \notin Ends, Kept
  PROVE  [Grant!Next]_granting
<1>1. Open' => Open
  BY DEF PairInv, Progress, Settled, At, Open, Minting, Kept
<1>2. CASE Open = Open'
  BY <1>2 DEF granting, Kept
<1>3. CASE Open /\ ~Open'
  BY <1>3 DEF Grant!Next, Grant!Refuse, Open, Kept
<1> QED BY <1>1, <1>2, <1>3 DEF Open, Minting

LEMMA GotoKept == ASSUME TypeOK, NEW pc, Goto(pc) PROVE Kept
  BY DEF Goto, TypeOK, Run, Kept

LEMMA FailKept == ASSUME TypeOK, Fail \/ Unanswered PROVE Kept
  BY GotoKept DEF Fail, Unanswered

LEMMA StepKept ==
  ASSUME TypeOK, Login \/ Mfa \/ FetchUser \/ ListAccounts \/ CheckMember \/ SetCurrent \/ Confirm
                 \/ Settle \/ Enable \/ Reread \/ Deliver \/ FindEntry \/ DeleteKey
  PROVE  Kept
<1>1. CASE Login \/ Mfa \/ FetchUser \/ ListAccounts
  <2>1. SignedIn => Kept
    BY GotoKept DEF SignedIn
  <2>2. \/ run' = [run EXCEPT !.pc = "mfa", !.attempt = 1]
        \/ run' = [run EXCEPT !.attempt = @ + 1]
        \/ run' = [run EXCEPT !.reported = session,
                              !.pc = IF run.op = "list" THEN "accounts" ELSE "pick"]
        => Kept
    BY DEF TypeOK, Run, Kept
  <2> QED BY <1>1, <2>1, <2>2, GotoKept, FailKept DEF Login, Mfa, FetchUser, ListAccounts
<1>2. CASE CheckMember \/ SetCurrent
  BY <1>2, GotoKept, FailKept DEF CheckMember, SetCurrent
<1>3. CASE Confirm
  <2>1. run' = [run EXCEPT !.reported = Target, !.pc = Onward] => Kept
    BY DEF TypeOK, Run, Kept
  <2> QED BY <1>3, <2>1, FailKept DEF Confirm
<1>4. CASE Settle \/ Enable
  <2>1. \A a : \/ run' = [run EXCEPT !.pc = "enable", !.chosen = a]
               \/ run' = [run EXCEPT !.enabled = a, !.pc = "reread"]
               \/ run' = [run EXCEPT !.enabled = a, !.pc = "failed"]
               => Kept
    BY DEF TypeOK, Run, Kept
  <2> QED BY <1>4, <2>1, GotoKept, FailKept DEF Settle, Enable
<1>5. CASE Reread \/ Deliver \/ FindEntry \/ DeleteKey
  BY <1>5, GotoKept, FailKept DEF Reread, Deliver, FindEntry, DeleteKey
<1> QED BY <1>1, <1>2, <1>3, <1>4, <1>5

\* The prompt names the account, while nothing is made.
LEMMA PickGrant ==
  ASSUME TypeOK, PairInv, PickAccount
  PROVE  [Grant!Next]_granting
<1>1. run.pc = "pick" /\ run.op = "mint" /\ run.key = None /\ run.made = None
  BY DEF PickAccount, At, PairInv, Purpose, Progress, Early
<1>2. ASSUME NEW a \in members, run.choice # "id",
             run' = [run EXCEPT !.pc = "member", !.want = a]
      PROVE  Grant!Next
  <2>1. /\ run'.op = run.op /\ run'.want = a /\ run'.made = run.made /\ run'.key = run.key
        /\ run'.pc = "member"
    BY <1>2 DEF TypeOK, Run
  <2>2. run.want = None /\ a \in Account
    BY <1>1, <1>2 DEF PairInv, Purpose, Unpicked, TypeOK
  <2> QED BY <1>1, <2>1, <2>2 DEF Grant!Next, Grant!Pick, Open, Minting, Ends
<1>3. ASSUME run.choice # "id", Prompt PROVE [Grant!Next]_granting
  <2>1. \A typed : Resolved(typed) \subseteq members
    BY DEF Resolved, Row
  <2>2. CASE Fail
    BY <1>1, <2>2, FailKept, GoingOn DEF Ends
  <2> QED BY <1>2, <1>3, <2>1, <2>2 DEF Prompt
<1>4. ASSUME run.choice # "id", PickForLogin PROVE [Grant!Next]_granting
  BY <1>2, <1>3, <1>4 DEF PickForLogin
<1>5. ASSUME Kept PROVE [Grant!Next]_granting
  BY <1>1, <1>5, GoingOn DEF Ends
<1> QED BY <1>3, <1>4, <1>5, GotoKept, FailKept DEF PickAccount

\* A mint makes the one key of the request, on the account it wants.
LEMMA MintGrant ==
  ASSUME TypeOK, PairInv, Mint
  PROVE  [Grant!Next]_granting
<1>1. run.pc = "mint" /\ run.op = "mint" /\ run.key = None
  BY DEF Mint, At, PairInv, Progress, Settled
<1>2. Where \subseteq {run.chosen} /\ (run.want # None => run.chosen = run.want)
  BY <1>1 DEF PairInv, Progress, Settled
<1>3. ASSUME NEW new \in Key, new.acct \in Where,
             \/ run' = [run EXCEPT !.pc = "granted", !.made = new, !.key = new]
             \/ run' = [run EXCEPT !.pc = "failed", !.made = new]
      PROVE  Grant!Next
  <2>1. /\ run'.op = run.op /\ run'.want = run.want /\ run'.made = new
        /\ run'.key \in {new, None} /\ run'.pc \in {"granted", "failed"}
    BY <1>1, <1>3 DEF TypeOK, Run
  <2>2. new # None
    BY <1>3, SmAssumption
  <2> QED BY <1>1, <1>2, <1>3, <2>1, <2>2 DEF Grant!Next, Grant!Make, Open, Minting, Ends
<1>4. \A a \in Where : [acct |-> a, name |-> names.given + 1] \in Key
  <2>1. Where \subseteq Account
    BY DEF Where, TypeOK
  <2>2. names.given + 1 \in Nat
    BY SmAssumption DEF TypeOK
  <2> QED BY <2>1, <2>2 DEF Key
<1>5. ASSUME Kept PROVE [Grant!Next]_granting
  BY <1>1, <1>5, GoingOn DEF Ends
<1> QED BY <1>3, <1>4, <1>5, FailKept DEF Mint

LEMMA GrantStep == TypeOK /\ PairInv /\ [Next]_vars => [Grant!Next]_granting
<1> SUFFICES ASSUME TypeOK, PairInv, [Next]_vars PROVE [Grant!Next]_granting
  OBVIOUS
<1>1. CASE UNCHANGED run
  BY <1>1 DEF granting, Open, Minting
<1>2. CASE Others \/ UNCHANGED vars
  BY <1>1, <1>2 DEF Others, vars
<1>3. ASSUME Step PROVE run.pc \notin Ends
  BY <1>3 DEF Step, Login, Mfa, FetchUser, ListAccounts, PickAccount, CheckMember, SetCurrent,
         Confirm, Settle, Enable, Reread, Mint, Deliver, FindEntry, DeleteKey, At, Ends
<1>4. CASE Step
  BY <1>3, <1>4, PickGrant, MintGrant, StepKept, GoingOn DEF Step
<1> QED BY <1>2, <1>4, StartGrant DEF Next

\* An exchange makes one key at most, on the account asked for, and answers with that key or
\* fails: SmExchange implements KeyGrant.
THEOREM Implements == Spec => GrantKept
<1>1. Init => Grant!Init
  BY InitGrant
<1>2. TypeOK /\ PairInv /\ [Next]_vars => [Grant!Next]_(Grant!vars)
  BY GrantStep DEF granting, Grant!vars, Open
<1> QED BY <1>1, <1>2, PairAlways, PTL DEF Spec, GrantKept, Grant!Spec
=============================================================================
