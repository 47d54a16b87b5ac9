------------------------ MODULE QuickDatabaseProofs ------------------------
(***************************************************************************)
(* Proofs about QuickDatabase, for any number of subscriptions, databases, *)
(* mishaps and changes by others.                                          *)
(***************************************************************************)
EXTENDS QuickDatabase, TLAPS

USE DEF Maybe

-----------------------------------------------------------------------------

LEMMA InitType == Init => TypeOK
<1> SUFFICES ASSUME Init PROVE TypeOK
  OBVIOUS
<1>1. subs \in [Sub -> Subscription]
  <2>1. NoSub \in Subscription
    BY DEF NoSub, Subscription, Telling
  <2>2. \A price \in {0, 1}, tells \in Telling :
           [state |-> "up", price |-> price, tells |-> tells, ours |-> FALSE] \in Subscription
    BY DEF Subscription
  <2>3. CASE subs = [s \in Sub |-> NoSub]
    BY <2>1, <2>3
  <2>4. ASSUME NEW s \in Sub, NEW price \in {0, 1}, NEW tells \in Telling,
               subs = [[t \in Sub |-> NoSub] EXCEPT
                         ![s] = [state |-> "up", price |-> price, tells |-> tells, ours |-> FALSE]]
        PROVE  subs \in [Sub -> Subscription]
    BY <2>1, <2>2, <2>4
  <2> QED BY <2>3, <2>4 DEF Init
<1>2. dbs \in [Db -> Database]
  BY DEF Init, NoDb, Database
<1>3. elsewhere \in BOOLEAN
  BY DEF Init
<1>4. run \in Run
  BY DEF Init, Blank, Run, Phase, Ends
<1>5. file \in Maybe(Db) /\ count \in [mishaps : 0..MaxMishaps, changes : 0..MaxChanges]
  BY QuickAssumption DEF Init
<1> QED BY <1>1, <1>2, <1>3, <1>4, <1>5 DEF TypeOK

LEMMA GotoType ==
  ASSUME TypeOK, NEW pc \in Phase, Goto(pc)
  PROVE  run' \in Run
  BY DEF TypeOK, Goto, Run

LEMMA MishapType ==
  ASSUME TypeOK, Mishap
  PROVE  count' \in [mishaps : 0..MaxMishaps, changes : 0..MaxChanges]
  BY QuickAssumption DEF TypeOK, Mishap

LEMMA BrokenType ==
  ASSUME TypeOK, Broken
  PROVE  TypeOK'
  BY GotoType, MishapType DEF Broken, Fail, Phase, Ends, TypeOK, account

LEMMA StartTypes ==
  ASSUME TypeOK, Start \/ StartExisting
  PROVE  TypeOK'
  BY DEF Start, StartExisting, TypeOK, Run, Blank, Phase, Database, account

LEMMA FindTypes ==
  ASSUME TypeOK, Find \/ EnsureFree \/ PickPlan
  PROVE  TypeOK'
<1>1. CASE Find
  <2>1. CASE Broken
    BY <2>1, BrokenType
  <2>2. ASSUME UNCHANGED <<account, file, count>>,
               \/ \E s \in Listed : run' = [run EXCEPT !.pc = "price", !.sub = s]
               \/ Goto("plan")
        PROVE  TypeOK'
    <3>1. run' \in Run
      BY <2>2, GotoType DEF TypeOK, Run, Listed, Phase
    <3> QED BY <2>2, <3>1 DEF TypeOK, account
  <2> QED BY <1>1, <2>1, <2>2 DEF Find
<1>2. CASE EnsureFree
  <2>1. run' \in Run
    BY <1>2, GotoType DEF EnsureFree, Phase, Ends
  <2>2. count' \in [mishaps : 0..MaxMishaps, changes : 0..MaxChanges]
    BY <1>2, MishapType DEF EnsureFree, TypeOK
  <2> QED BY <1>2, <2>1, <2>2 DEF EnsureFree, TypeOK, account
<1>3. CASE PickPlan
  <2>1. run' \in Run
    BY <1>3, GotoType DEF PickPlan, Fail, Phase, Ends
  <2>2. count' \in [mishaps : 0..MaxMishaps, changes : 0..MaxChanges]
    BY <1>3, MishapType DEF PickPlan, TypeOK
  <2> QED BY <1>3, <2>1, <2>2 DEF PickPlan, TypeOK, account
<1> QED BY <1>1, <1>2, <1>3

LEMMA ReuseType ==
  ASSUME TypeOK, Reuse
  PROVE  TypeOK'
<1>1. CASE Broken
  BY <1>1, BrokenType
<1>2. ASSUME UNCHANGED <<account, file, count>>,
             (\E d \in Db : Adopt(d)) \/ Fail \/ Goto("createDb")
      PROVE  TypeOK'
  <2>1. run' \in Run
    BY <1>2, GotoType DEF TypeOK, Run, Adopt, Fail, Phase, Ends
  <2> QED BY <1>2, <2>1 DEF TypeOK, account
<1> QED BY <1>1, <1>2 DEF Reuse, Named, DbsOf

LEMMA CreateTypes ==
  ASSUME TypeOK, CreateSub \/ CreateDb
  PROVE  TypeOK'
<1>1. CASE Broken
  BY <1>1, BrokenType
<1>2. ASSUME NEW s \in Sub, NEW tells \in Telling,
             subs' = [subs EXCEPT ![s] = [state |-> "making", price |-> 0, tells |-> tells,
                                          ours |-> TRUE]],
             \/ run' = [run EXCEPT !.pc = "pollSub", !.sub = s] /\ UNCHANGED count
             \/ Mishap /\ Fail,
             UNCHANGED <<dbs, elsewhere, file>>
      PROVE  TypeOK'
  <2>1. subs' \in [Sub -> Subscription]
    BY <1>2 DEF TypeOK, Subscription
  <2>2. run' \in Run
    BY <1>2, GotoType DEF TypeOK, Run, Fail, Phase, Ends
  <2>3. count' \in [mishaps : 0..MaxMishaps, changes : 0..MaxChanges]
    BY <1>2, MishapType DEF TypeOK
  <2> QED BY <1>2, <2>1, <2>2, <2>3 DEF TypeOK
<1>3. ASSUME NEW d \in Db,
             dbs' = [dbs EXCEPT ![d] = [state |-> "making", sub |-> run.sub, named |-> TRUE,
                                        ours |-> TRUE]],
             \/ run' = [run EXCEPT !.pc = "pollDb", !.db = d] /\ UNCHANGED count
             \/ Mishap /\ Fail,
             UNCHANGED <<subs, elsewhere, file>>
      PROVE  TypeOK'
  <2>1. dbs' \in [Db -> Database]
    BY <1>3 DEF TypeOK, Database, Run
  <2>2. run' \in Run
    BY <1>3, GotoType DEF TypeOK, Run, Fail, Phase, Ends
  <2>3. count' \in [mishaps : 0..MaxMishaps, changes : 0..MaxChanges]
    BY <1>3, MishapType DEF TypeOK
  <2> QED BY <1>3, <2>1, <2>2, <2>3 DEF TypeOK
<1>4. ASSUME Fail, UNCHANGED <<account, file, count>>
      PROVE  TypeOK'
  <2>1. run' \in Run
    BY <1>4, GotoType DEF Fail, Phase, Ends
  <2> QED BY <1>4, <2>1 DEF TypeOK, account
<1>5. CASE CreateSub
  BY <1>1, <1>2, <1>5 DEF CreateSub
<1>6. CASE CreateDb
  BY <1>1, <1>3, <1>4, <1>6 DEF CreateDb
<1> QED BY <1>5, <1>6

LEMMA WaitTypes ==
  ASSUME TypeOK, PollSub \/ PollDb \/ Fetch \/ Deliver
  PROVE  TypeOK'
<1>1. CASE Broken
  BY <1>1, BrokenType
<1>2. ASSUME NEW pc \in Phase, Goto(pc), UNCHANGED <<account, file, count>>
      PROVE  TypeOK'
  BY <1>2, GotoType DEF TypeOK, account
<1>3. ASSUME file' = run.db, Goto("done"), UNCHANGED <<account, count>>
      PROVE  TypeOK'
  <2>1. run' \in Run
    BY <1>3, GotoType DEF Phase, Ends
  <2> QED BY <1>3, <2>1 DEF TypeOK, Run, account
<1>4. {"createDb", "fetch", "deliver", "failed"} \subseteq Phase
  BY DEF Phase, Ends
<1> QED BY <1>1, <1>2, <1>3, <1>4 DEF PollSub, PollDb, Fetch, Deliver, Fail

LEMMA AccountTypes ==
  ASSUME TypeOK, SettleSub \/ SettleDb \/ Others
  PROVE  TypeOK'
<1>1. CASE SettleSub
  <2>1. subs' \in [Sub -> Subscription]
    BY <1>1 DEF SettleSub, TypeOK, Subscription
  <2>2. count' \in [mishaps : 0..MaxMishaps, changes : 0..MaxChanges]
    BY <1>1, MishapType DEF SettleSub, TypeOK
  <2> QED BY <1>1, <2>1, <2>2 DEF SettleSub, TypeOK
<1>2. CASE SettleDb
  <2>1. dbs' \in [Db -> Database]
    BY <1>2 DEF SettleDb, TypeOK, Database
  <2>2. count' \in [mishaps : 0..MaxMishaps, changes : 0..MaxChanges]
    BY <1>2, MishapType DEF SettleDb, TypeOK
  <2> QED BY <1>2, <2>1, <2>2 DEF SettleDb, TypeOK
<1>3. CASE Others
  <2>1. dbs' \in [Db -> Database]
    <3>1. ASSUME NEW d \in Db, dbs' = [dbs EXCEPT ![d].named = ~@]
          PROVE  dbs' \in [Db -> Database]
      <4>1. (~dbs[d].named) \in BOOLEAN
        OBVIOUS
      <4>2. [dbs[d] EXCEPT !.named = ~dbs[d].named] \in Database
        BY <4>1 DEF TypeOK, Database
      <4> QED BY <3>1, <4>2 DEF TypeOK
    <3>2. ASSUME NEW s \in Sub, NEW d \in Db,
                 dbs' = [dbs EXCEPT ![d] = [state |-> "up", sub |-> s, named |-> FALSE,
                                            ours |-> FALSE]]
          PROVE  dbs' \in [Db -> Database]
      BY <3>2 DEF TypeOK, Database
    <3>3. CASE UNCHANGED dbs
      BY <3>3 DEF TypeOK
    <3> QED BY <1>3, <3>1, <3>2, <3>3 DEF Others, DbsOf
  <2>2. count' \in [mishaps : 0..MaxMishaps, changes : 0..MaxChanges]
    BY <1>3, QuickAssumption DEF Others, TypeOK
  <2>3. elsewhere' \in BOOLEAN
    BY <1>3 DEF Others, TypeOK, FreeSlot
  <2> QED BY <1>3, <2>1, <2>2, <2>3 DEF Others, TypeOK
<1> QED BY <1>1, <1>2, <1>3

LEMMA TypeStep == TypeOK /\ [Next]_vars => TypeOK'
<1> SUFFICES ASSUME TypeOK, [Next]_vars PROVE TypeOK'
  OBVIOUS
<1>1. CASE UNCHANGED vars
  BY <1>1 DEF TypeOK, vars, account
<1>2. CASE Kill
  BY <1>2, BrokenType DEF Kill
<1>3. CASE Next
  BY <1>2, <1>3, StartTypes, FindTypes, ReuseType, CreateTypes, WaitTypes, AccountTypes
  DEF Next, Provision
<1> QED BY <1>1, <1>3

\* The state stays within its types: no run waits for, or delivers, what is not a database.
THEOREM TypeCorrect == Spec => []TypeOK
<1>1. Init => TypeOK
  BY InitType
<1>2. TypeOK /\ [Next]_vars => TypeOK'
  BY TypeStep
<1> QED BY <1>1, <1>2, PTL DEF Spec

-----------------------------------------------------------------------------
(* What the command knows of prices.                                       *)

Decided == {"reuse", "pollSub", "createDb", "pollDb", "fetch", "deliver", "done"}

\* What the command makes is free; a run that decides about a subscription is in one, and what
\* it was told of its price, or refused it for, stays true.
FreeInv ==
    /\ \A s \in Sub : subs[s].ours \/ subs[s].state = "making" => subs[s].price = 0
    /\ run.status # "existing" /\ run.pc \in Decided \cup {"price"} => run.sub \in Sub
    /\ run.status # "existing" /\ run.pc \in Decided =>
          ~(subs[run.sub].tells = "price" /\ subs[run.sub].price > 0)
    /\ At("notFree") => run.sub \in Sub /\ ~subs[run.sub].ours
    /\ run.pc \notin {"fetch", "deliver", "done", "failed"} => run.status # "existing"

LEMMA FreeInit == Init => FreeInv
<1> SUFFICES ASSUME Init PROVE FreeInv
  OBVIOUS
<1>1. ASSUME NEW s \in Sub PROVE subs[s].ours = FALSE /\ subs[s].state # "making"
  <2>1. CASE subs = [t \in Sub |-> NoSub]
    BY <2>1 DEF NoSub
  <2>2. ASSUME NEW u \in Sub, NEW price \in {0, 1}, NEW tells \in Telling,
               subs = [[t \in Sub |-> NoSub] EXCEPT
                         ![u] = [state |-> "up", price |-> price, tells |-> tells, ours |-> FALSE]]
        PROVE  subs[s].ours = FALSE /\ subs[s].state # "making"
    BY <2>2 DEF NoSub
  <2> QED BY <2>1, <2>2 DEF Init
<1>2. run.pc = "failed"
  BY DEF Init, Blank
<1> QED BY <1>1, <1>2 DEF FreeInv, At, Decided

\* A run that fails, at any point, leaves the account as it is.
LEMMA FreeFail ==
  ASSUME FreeInv, UNCHANGED subs, Fail
  PROVE  FreeInv'
  BY DEF FreeInv, Fail, Goto, At, Decided

LEMMA FreeRun ==
  ASSUME TypeOK, FreeInv, UNCHANGED subs,
         Start \/ StartExisting \/ Find \/ EnsureFree \/ Reuse \/ PickPlan \/ PollSub \/ CreateDb
         \/ PollDb \/ Fetch \/ Deliver \/ Kill
  PROVE  FreeInv'
<1> USE DEF FreeInv, Decided, At, Goto, TypeOK, Run
<1>1. CASE Start
  BY <1>1 DEF Start, Blank, Ends
<1>2. CASE StartExisting
  BY <1>2 DEF StartExisting
<1>3. CASE Fail
  BY <1>3, FreeFail
<1>4. CASE Find
  BY <1>3, <1>4 DEF Find, Broken, Listed
<1>5. CASE EnsureFree
  <2>1. \A s \in Sub : subs[s].price \in {0, 1}
    BY DEF Subscription
  <2>2. run.sub \in Sub /\ run.status # "existing"
    BY <1>5 DEF EnsureFree
  <2>3. run' = [run EXCEPT !.pc = "notFree"] => subs[run.sub].price > 0
    BY <1>5, <2>1, <2>2 DEF EnsureFree, PlanPriced
  <2>4. run' = [run EXCEPT !.pc = "reuse"] =>
           ~(subs[run.sub].tells = "price" /\ subs[run.sub].price > 0)
    BY <1>5, <2>1, <2>2 DEF EnsureFree, PlanPriced
  <2>5. \/ run' = [run EXCEPT !.pc = "notFree"]
        \/ run' = [run EXCEPT !.pc = "reuse"]
    BY <1>5 DEF EnsureFree
  <2> QED BY <2>2, <2>3, <2>4, <2>5
<1>6. CASE Reuse
  <2>1. run.sub \in Sub /\ run.status # "existing" /\ run.pc = "reuse"
    BY <1>6 DEF Reuse
  <2>2. Fail \/ (\E d \in Db : Adopt(d)) \/ Goto("createDb")
    BY <1>6 DEF Reuse, Broken, Named, DbsOf
  <2>3. ASSUME NEW d \in Db, Adopt(d) PROVE FreeInv'
    BY <2>1, <2>3 DEF Adopt
  <2>4. CASE Goto("createDb")
    BY <2>1, <2>4
  <2> QED BY <1>3, <2>2, <2>3, <2>4
<1>7. CASE PickPlan
  BY <1>3, <1>7 DEF PickPlan
<1>8. CASE PollSub
  BY <1>3, <1>8 DEF PollSub, Broken
<1>9. CASE CreateDb
  BY <1>3, <1>9 DEF CreateDb, Broken
<1>10. CASE PollDb
  BY <1>3, <1>10 DEF PollDb, Broken
<1>11. CASE Fetch
  BY <1>3, <1>11 DEF Fetch, Broken
<1>12. CASE Deliver
  BY <1>3, <1>12 DEF Deliver, Broken
<1>13. CASE Kill
  BY <1>3, <1>13 DEF Kill, Broken
<1> QED BY <1>1, <1>2, <1>4, <1>5, <1>6, <1>7, <1>8, <1>9, <1>10, <1>11, <1>12, <1>13

LEMMA FreeStep == TypeOK /\ FreeInv /\ [Next]_vars => FreeInv'
<1> SUFFICES ASSUME TypeOK, FreeInv, [Next]_vars PROVE FreeInv'
  OBVIOUS
<1>1. CASE UNCHANGED <<subs, run>>
  BY <1>1 DEF FreeInv, At
<1>2. CASE CreateSub
  <2>1. Broken => FreeInv'
    BY FreeFail DEF Broken, account
  <2> SUFFICES ASSUME ~Broken PROVE FreeInv'
    BY <2>1
  <2>2. PICK s \in Sub, tells \in Telling :
           /\ subs' = [subs EXCEPT ![s] = [state |-> "making", price |-> 0, tells |-> tells,
                                           ours |-> TRUE]]
           /\ \/ run' = [run EXCEPT !.pc = "pollSub", !.sub = s]
              \/ Fail
    BY <1>2 DEF CreateSub
  <2>3. subs'[s].price = 0 /\ \A t \in Sub \ {s} : subs'[t] = subs[t]
    BY <2>2 DEF TypeOK
  <2>4. CASE run' = [run EXCEPT !.pc = "pollSub", !.sub = s]
    <3>1. run'.pc = "pollSub" /\ run'.sub = s /\ run'.status = run.status
      BY <2>4 DEF TypeOK, Run
    <3>2. run.status # "existing"
      BY <1>2 DEF CreateSub, FreeInv, At
    <3> QED BY <2>3, <3>1, <3>2 DEF FreeInv, At, Decided
  <2>5. CASE Fail
    <3>1. run'.pc = "failed"
      BY <2>5 DEF Fail, Goto, TypeOK, Run
    <3> QED BY <2>3, <3>1 DEF FreeInv, At, Decided
  <2> QED BY <2>2, <2>4, <2>5
<1>3. CASE SettleSub
  <2>1. UNCHANGED run
    BY <1>3 DEF SettleSub
  <2>2. \A s \in Sub : /\ subs'[s].price = subs[s].price /\ subs'[s].tells = subs[s].tells
                       /\ subs'[s].ours = subs[s].ours
                       /\ subs'[s].state = "making" => subs[s].state = "making"
    BY <1>3 DEF SettleSub, TypeOK, Subscription
  <2> QED BY <2>1, <2>2 DEF FreeInv, At
<1>4. CASE UNCHANGED subs /\ ~UNCHANGED run
  BY <1>2, <1>3, <1>4, FreeRun DEF Next, Provision, SettleDb, Others, vars
<1>5. CASE ~UNCHANGED subs
  BY <1>2, <1>3, <1>5
  DEF Next, Provision, Start, StartExisting, Find, EnsureFree, Reuse, PickPlan, PollSub, CreateDb,
      PollDb, Fetch, Deliver, Kill, Broken, SettleDb, Others, vars, account
<1> QED BY <1>1, <1>4, <1>5

LEMMA FreeAlways == Spec => [](TypeOK /\ FreeInv)
<1>1. Init => TypeOK /\ FreeInv
  BY InitType, FreeInit
<1>2. TypeOK /\ FreeInv /\ [Next]_vars => (TypeOK /\ FreeInv)'
  BY TypeStep, FreeStep
<1> QED BY <1>1, <1>2, PTL DEF Spec

\* Whatever fails, no subscription that reports a price is adopted and delivered as free.
THEOREM FreeOnly == Spec => []NeverBilled
<1>1. TypeOK /\ FreeInv => NeverBilled
  BY DEF FreeInv, NeverBilled, Decided
<1> QED BY <1>1, FreeAlways, PTL

\* The command never refuses a subscription of its own making for its price.
THEOREM OwnAccepted == Spec => []OwnNeverRefused
<1>1. TypeOK /\ FreeInv => OwnNeverRefused
  BY DEF FreeInv, OwnNeverRefused, At
<1> QED BY <1>1, FreeAlways, PTL

-----------------------------------------------------------------------------
(* What the command makes, it makes once.                                  *)

\* One subscription of the name is listed at most, and the databases the command made and still
\* has are one at most, in a finished subscription; what a run has seen is still so when it acts
\* on it: nothing is listed that it is about to create, and the subscription it looks into is
\* the only one there is.
OnceInv ==
    /\ \A s, t \in Listed : s = t
    /\ \A d \in Live(dbs) : dbs[d].sub \in Sub /\ subs[dbs[d].sub].state = "up"
    /\ \A d, e \in Live(dbs) : d = e
    /\ At("plan") => \A s \in Listed : subs[s].price = 0
    /\ At("createSub") => Listed = {}
    /\ run.pc \in {"price", "reuse", "createDb", "pollSub"} => Listed \subseteq {run.sub}
    /\ run.pc \in {"pollSub", "createDb"} => Live(dbs) = {}

LEMMA OnceInit == Init => OnceInv
<1> SUFFICES ASSUME Init PROVE OnceInv
  OBVIOUS
<1>1. Live(dbs) = {} /\ run.pc = "failed"
  BY DEF Init, Live, NoDb, Blank
<1>2. ASSUME NEW s \in Listed, NEW t \in Listed PROVE s = t
  <2>1. CASE subs = [u \in Sub |-> NoSub]
    BY <2>1, <1>2 DEF Listed, NoSub
  <2>2. ASSUME NEW u \in Sub, NEW price \in {0, 1}, NEW tells \in Telling,
               subs = [[v \in Sub |-> NoSub] EXCEPT
                         ![u] = [state |-> "up", price |-> price, tells |-> tells, ours |-> FALSE]]
        PROVE  s = t
    <3>1. Listed \subseteq {u}
      BY <2>2 DEF Listed, NoSub
    <3> QED BY <1>2, <3>1
  <2> QED BY <2>1, <2>2 DEF Init
<1> QED BY <1>1, <1>2 DEF OnceInv, At

LEMMA LiveSet == TypeOK => Live(dbs) = {d \in Db : dbs[d].ours /\ dbs[d].state \notin {"none", "failed"}}
  BY DEF Live, TypeOK

\* A run that goes on, or fails, over an account that stays as it is.
LEMMA OnceGoto ==
  ASSUME TypeOK, OnceInv, UNCHANGED <<subs, dbs>>, NEW pc \in Phase, Goto(pc),
         pc \notin {"plan", "createSub", "price", "reuse", "createDb", "pollSub"}
  PROVE  OnceInv'
<1>1. run'.pc = pc
  BY DEF Goto, TypeOK, Run
<1>2. Listed' = Listed /\ Live(dbs)' = Live(dbs)
  BY DEF Listed, Live
<1> QED BY <1>1, <1>2 DEF OnceInv, At

LEMMA OnceFail ==
  ASSUME TypeOK, OnceInv, UNCHANGED <<subs, dbs>>, Fail
  PROVE  OnceInv'
  BY OnceGoto DEF Fail, Phase, Ends

LEMMA OnceRun ==
  ASSUME TypeOK, FreeInv, OnceInv, LoneHidden = FALSE, UNCHANGED <<subs, dbs>>,
         Start \/ StartExisting \/ Find \/ EnsureFree \/ Reuse \/ PickPlan \/ PollSub \/ PollDb
         \/ Fetch \/ Deliver \/ Kill
  PROVE  OnceInv'
<1>1. Listed' = Listed /\ Live(dbs)' = Live(dbs)
  BY DEF Listed, Live
<1>2. CASE Fail
  BY <1>2, OnceFail
<1>3. ASSUME run'.pc \in {"find", "fetch", "deliver", "done", "notFree"} PROVE OnceInv'
  BY <1>1, <1>3 DEF OnceInv, At
<1>4. CASE Start \/ StartExisting
  BY <1>3, <1>4 DEF Start, StartExisting, Blank
<1>5. CASE Find
  <2>1. ASSUME NEW s \in Listed, run' = [run EXCEPT !.pc = "price", !.sub = s] PROVE OnceInv'
    <3>1. run'.pc = "price" /\ run'.sub = s
      BY <2>1 DEF TypeOK, Run
    <3> QED BY <1>1, <2>1, <3>1 DEF OnceInv, At
  <2>2. ASSUME Goto("plan"), NEW s \in Listed, subs[s].state = "making" PROVE OnceInv'
    <3>1. run'.pc = "plan"
      BY <2>2 DEF Goto, TypeOK, Run
    <3>2. \A t \in Listed : subs'[t].price = 0
      BY <2>2 DEF FreeInv, OnceInv, Listed
    <3> QED BY <1>1, <3>1, <3>2 DEF OnceInv, At
  <2>3. ASSUME Goto("plan"), Listed = {} PROVE OnceInv'
    <3>1. run'.pc = "plan"
      BY <2>3 DEF Goto, TypeOK, Run
    <3> QED BY <1>1, <2>3, <3>1 DEF OnceInv, At
  <2> QED BY <1>2, <1>5, <2>1, <2>2, <2>3 DEF Find, Broken
<1>6. CASE EnsureFree
  <2>1. run'.pc \in {"notFree", "reuse"} /\ run'.sub = run.sub /\ run.pc = "price"
    BY <1>6 DEF EnsureFree, Goto, At, TypeOK, Run
  <2> QED BY <1>1, <2>1 DEF OnceInv, At
<1>7. CASE Reuse
  <2>1. run.pc = "reuse" /\ run.sub \in Sub
    BY <1>7 DEF Reuse, At, FreeInv, Decided
  <2>2. ASSUME NEW d \in Db, Adopt(d) PROVE OnceInv'
    <3>1. run'.pc = "fetch"
      BY <2>2 DEF Adopt, TypeOK, Run
    <3> QED BY <1>3, <3>1
  <2>3. ASSUME Goto("createDb"), DbsOf(run.sub) = {} PROVE OnceInv'
    <3>1. run'.pc = "createDb" /\ run'.sub = run.sub
      BY <2>3 DEF Goto, TypeOK, Run
    <3>2. Live(dbs) = {}
      <4>1. SUFFICES ASSUME NEW d \in Live(dbs) PROVE FALSE
        OBVIOUS
      <4>2. dbs[d].sub \in Listed
        BY DEF OnceInv, Listed
      <4>3. dbs[d].sub = run.sub
        BY <2>1, <4>2 DEF OnceInv
      <4>4. d \in Db /\ dbs[d].state \in {"making", "up", "ready"}
        BY LiveSet DEF TypeOK, Database
      <4> QED BY <2>3, <4>3, <4>4 DEF DbsOf
    <3> QED BY <1>1, <2>1, <3>1, <3>2 DEF OnceInv, At
  <2>4. \/ Fail
        \/ \E d \in Db : Adopt(d)
        \/ Goto("createDb") /\ DbsOf(run.sub) = {}
    BY <1>7 DEF Reuse, Broken, Named, DbsOf
  <2> QED BY <1>2, <2>2, <2>3, <2>4
<1>8. CASE PickPlan
  <2>1. ASSUME Goto("createSub"), FreePlanOffered PROVE OnceInv'
    <3>1. run'.pc = "createSub"
      BY <2>1 DEF Goto, TypeOK, Run
    <3>2. Listed = {}
      BY <1>8, <2>1 DEF PickPlan, FreePlanOffered, OnceInv, At
    <3> QED BY <1>1, <3>1, <3>2 DEF OnceInv, At
  <2> QED BY <1>2, <1>8, <2>1 DEF PickPlan, Fail
<1>9. CASE PollSub
  <2>1. ASSUME Goto("createDb"), run.pc = "pollSub" PROVE OnceInv'
    <3>1. run'.pc = "createDb" /\ run'.sub = run.sub
      BY <2>1 DEF Goto, TypeOK, Run
    <3> QED BY <1>1, <2>1, <3>1 DEF OnceInv, At
  <2> QED BY <1>2, <1>9, <2>1 DEF PollSub, Broken, At
<1>10. CASE PollDb \/ Fetch \/ Deliver \/ Kill
  <2>1. Fail \/ run'.pc \in {"fetch", "deliver", "done"}
    BY <1>10 DEF PollDb, Fetch, Deliver, Kill, Broken, Goto, TypeOK, Run
  <2> QED BY <1>2, <1>3, <2>1
<1> QED BY <1>4, <1>5, <1>6, <1>7, <1>8, <1>9, <1>10

LEMMA OnceCreateSub ==
  ASSUME TypeOK, OnceInv, CreateSub
  PROVE  OnceInv'
<1>1. CASE Broken
  BY <1>1, OnceFail DEF Broken, account
<1> SUFFICES ASSUME ~Broken PROVE OnceInv'
  BY <1>1
<1>2. PICK s \in Sub, tells \in Telling :
         /\ subs[s].state \in {"none", "failed"}
         /\ subs' = [subs EXCEPT ![s] = [state |-> "making", price |-> 0, tells |-> tells,
                                         ours |-> TRUE]]
         /\ \/ run' = [run EXCEPT !.pc = "pollSub", !.sub = s]
            \/ Fail
         /\ UNCHANGED dbs
  BY DEF CreateSub
<1>3. Listed = {}
  BY DEF CreateSub, OnceInv, At
<1>4. Live(dbs) = {}
  BY <1>3 DEF OnceInv, Listed
<1>5. Listed' \subseteq {s} /\ Live(dbs)' = {}
  BY <1>2, <1>3, <1>4 DEF Listed, TypeOK, Live
<1>6. \/ run'.pc = "pollSub" /\ run'.sub = s
      \/ run'.pc = "failed"
  BY <1>2 DEF Fail, Goto, TypeOK, Run
<1> QED BY <1>5, <1>6 DEF OnceInv, At

LEMMA OnceCreateDb ==
  ASSUME TypeOK, FreeInv, OnceInv, CreateDb
  PROVE  OnceInv'
<1>1. CASE Fail /\ UNCHANGED <<subs, dbs>>
  BY <1>1, OnceFail
<1> SUFFICES ASSUME ~(Fail /\ UNCHANGED <<subs, dbs>>) PROVE OnceInv'
  BY <1>1
<1>2. PICK d \in Db :
         /\ subs[run.sub].state = "up"
         /\ dbs' = [dbs EXCEPT ![d] = [state |-> "making", sub |-> run.sub, named |-> TRUE,
                                       ours |-> TRUE]]
         /\ (run' = [run EXCEPT !.pc = "pollDb", !.db = d]) \/ Fail
         /\ UNCHANGED subs
  BY DEF CreateDb, Broken, account
<1>3. run.sub \in Sub /\ Live(dbs) = {}
  BY DEF CreateDb, FreeInv, OnceInv, At, Decided
<1>4. Live(dbs)' \subseteq {d} /\ dbs'[d].sub = run.sub /\ Listed' = Listed
  BY <1>2, <1>3 DEF Live, TypeOK, Listed
<1>5. run'.pc \in {"pollDb", "failed"}
  BY <1>2 DEF Fail, Goto, TypeOK, Run
<1> QED BY <1>2, <1>3, <1>4, <1>5 DEF OnceInv, At

\* The account settles what was asked of it, and others change what they may.
LEMMA OnceAccount ==
  ASSUME TypeOK, OnceInv, SettleSub \/ SettleDb \/ Others
  PROVE  OnceInv'
<1>1. UNCHANGED run
  BY DEF SettleSub, SettleDb, Others
<1>2. CASE SettleSub
  <2>1. \A s \in Sub : /\ subs'[s].price = subs[s].price
                       /\ subs[s].state = "up" => subs'[s].state = "up"
    BY <1>2 DEF SettleSub, TypeOK, Subscription
  <2>2. Listed' \subseteq Listed /\ Live(dbs)' = Live(dbs) /\ UNCHANGED dbs
    BY <1>2 DEF SettleSub, TypeOK, Subscription, Listed, Live
  <2>3. Listed \subseteq Sub
    BY DEF Listed
  <2> QED BY <1>1, <2>1, <2>2, <2>3 DEF OnceInv, At
<1>3. CASE SettleDb \/ Others
  <2>1. UNCHANGED subs /\ Listed' = Listed
    BY <1>3 DEF SettleDb, Others, Listed
  <2>2. \A d \in Db : dbs'[d].ours /\ dbs'[d].state \notin {"none", "failed"} =>
           /\ dbs[d].ours /\ dbs[d].state \notin {"none", "failed"}
           /\ dbs'[d].sub = dbs[d].sub
    <3>1. CASE SettleDb
      BY <3>1 DEF SettleDb, TypeOK, Database
    <3>2. ASSUME NEW e \in Db, dbs' = [dbs EXCEPT ![e].named = ~@],
                 NEW d \in Db
          PROVE  dbs'[d].ours = dbs[d].ours /\ dbs'[d].state = dbs[d].state
                 /\ dbs'[d].sub = dbs[d].sub
      BY <3>2 DEF TypeOK, Database
    <3>3. ASSUME NEW s \in Sub, NEW e \in Db,
                 dbs' = [dbs EXCEPT ![e] = [state |-> "up", sub |-> s, named |-> FALSE,
                                            ours |-> FALSE]],
                 NEW d \in Db, dbs'[d].ours
          PROVE  dbs'[d] = dbs[d]
      BY <3>3 DEF TypeOK
    <3>4. CASE Others
      BY <3>2, <3>3, <3>4 DEF Others, DbsOf
    <3> QED BY <1>3, <3>1, <3>4
  <2>3. TypeOK'
    BY AccountTypes
  <2>4. Live(dbs)' = {d \in Db : dbs'[d].ours /\ dbs'[d].state \notin {"none", "failed"}}
    BY <2>3 DEF Live, TypeOK
  <2>5. Live(dbs)' \subseteq Live(dbs) /\ \A d \in Live(dbs)' : dbs'[d].sub = dbs[d].sub
    BY <2>2, <2>4, LiveSet
  <2> QED BY <1>1, <2>1, <2>5 DEF OnceInv, At
<1> QED BY <1>2, <1>3

LEMMA OnceStep == LoneHidden = FALSE /\ TypeOK /\ FreeInv /\ OnceInv /\ [Next]_vars => OnceInv'
<1> SUFFICES ASSUME LoneHidden = FALSE, TypeOK, FreeInv, OnceInv, [Next]_vars PROVE OnceInv'
  OBVIOUS
<1>1. CASE UNCHANGED vars
  BY <1>1 DEF OnceInv, vars, account, Listed, Live, At
<1>2. CASE UNCHANGED <<subs, dbs>> /\ (Start \/ StartExisting \/ Find \/ EnsureFree \/ Reuse
             \/ PickPlan \/ PollSub \/ PollDb \/ Fetch \/ Deliver \/ Kill)
  BY <1>2, OnceRun
<1>3. CASE Next
  <2>1. Start \/ StartExisting \/ Find \/ EnsureFree \/ Reuse \/ PickPlan \/ PollSub \/ PollDb
        \/ Fetch \/ Deliver \/ Kill => UNCHANGED <<subs, dbs>>
    BY DEF Start, StartExisting, Find, EnsureFree, Reuse, PickPlan, PollSub, PollDb, Fetch, Deliver,
           Kill, Broken, account
  <2> QED BY <1>2, <1>3, <2>1, OnceCreateSub, OnceCreateDb, OnceAccount DEF Next, Provision
<1> QED BY <1>1, <1>3

\* A re-run never makes a second database or subscription, whatever failed before: unless an
\* only database of another name may be listed without its id.
THEOREM Idempotent == ASSUME LoneHidden = FALSE PROVE Spec => []OneDatabase
<1>1. Init => TypeOK /\ FreeInv /\ OnceInv
  BY InitType, FreeInit, OnceInit
<1>2. TypeOK /\ FreeInv /\ OnceInv /\ [Next]_vars => (TypeOK /\ FreeInv /\ OnceInv)'
  BY TypeStep, FreeStep, OnceStep
<1>3. TypeOK /\ FreeInv /\ OnceInv => OneDatabase
  <2> SUFFICES ASSUME TypeOK, OnceInv PROVE OneDatabase
    OBVIOUS
  <2>1. Live(subs) \subseteq Listed
    BY DEF Live, Listed, TypeOK, Subscription
  <2> QED BY <2>1 DEF OneDatabase, OnceInv
<1> QED BY <1>1, <1>2, <1>3, PTL DEF Spec
=============================================================================
