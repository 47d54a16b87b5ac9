---------------------------- MODULE QuickDatabase ----------------------------
(***************************************************************************)
(* `redisctl cloud workflow quick-database --name N` (and the MCP tool of  *)
(* that name): find the subscription `redisctl-N` or create it on a free   *)
(* plan, find its database or create it, wait for its endpoint, and write  *)
(* the credentials to a dotenv file.  Nothing about a run is remembered    *)
(* locally: a re-run goes by what the account lists.                       *)
(*                                                                         *)
(* The account is external.  A create that was accepted is listed, and a   *)
(* task makes it or fails; the account holds one free subscription at      *)
(* most, and nothing but the command keeps a subscription to one database. *)
(* What is still being made may be listed without its id.  Calls fail,     *)
(* replies are lost, waits time out, the command is killed, and others     *)
(* rename and add databases.                                               *)
(***************************************************************************)
EXTENDS Naturals, FiniteSets

CONSTANTS
    Sub,         \* subscriptions named redisctl-N that may come to exist
    Db,          \* databases that may come to exist in them
    None,        \* an absent value
    LoneHidden,  \* may an only database of another name be listed without its id?
    MaxMishaps,  \* bound: failed calls, lost replies, timeouts and kills
    MaxChanges   \* bound: renamings and additions by others

ASSUME QuickAssumption ==
    /\ None \notin Sub \cup Db
    /\ LoneHidden \in BOOLEAN /\ MaxMishaps \in Nat /\ MaxChanges \in Nat

VARIABLES
    subs,       \* the subscriptions named redisctl-N
    dbs,        \* their databases
    elsewhere,  \* does a subscription of another name hold the free plan?
    run,        \* the run under way, or the last one
    file,       \* the database whose credentials the dotenv file holds
    count       \* mishaps and changes so far

account == <<subs, dbs, elsewhere>>
vars == <<account, run, file, count>>

Maybe(S) == S \cup {None}

\* What the listing tells of the price: the price itself, the plan's id, or nothing.
Telling == {"price", "plan", "nothing"}
Subscription == [state : {"none", "making", "up", "failed"}, price : {0, 1}, tells : Telling,
                 ours : BOOLEAN]
Database == [state : {"none", "making", "up", "ready", "failed"}, sub : Maybe(Sub),
             named : BOOLEAN, ours : BOOLEAN]

Ends == {"done", "failed", "notFree"}
Phase == Ends \cup
    {"find", "price", "reuse", "plan", "createSub", "pollSub", "createDb", "pollDb", "fetch",
     "deliver"}

\* `status` of the report: fresh or resumed, reused, or an existing database asked for by id.
Run == [pc : Phase, sub : Maybe(Sub), db : Maybe(Db), status : {"ok", "reused", "existing"}]

TypeOK ==
    /\ subs \in [Sub -> Subscription]
    /\ dbs \in [Db -> Database]
    /\ elsewhere \in BOOLEAN
    /\ run \in Run
    /\ file \in Maybe(Db)
    /\ count \in [mishaps : 0..MaxMishaps, changes : 0..MaxChanges]

Blank == [pc |-> "failed", sub |-> None, db |-> None, status |-> "ok"]
NoSub == [state |-> "none", price |-> 0, tells |-> "nothing", ours |-> FALSE]
NoDb == [state |-> "none", sub |-> None, named |-> FALSE, ours |-> FALSE]

\* At the start the account is empty, holds a free subscription of another name, or already
\* has one named redisctl-N that somebody else made.
Init ==
    /\ \/ subs = [s \in Sub |-> NoSub]
       \/ \E s \in Sub, price \in {0, 1}, tells \in Telling :
             subs = [[t \in Sub |-> NoSub] EXCEPT
                       ![s] = [state |-> "up", price |-> price, tells |-> tells, ours |-> FALSE]]
    /\ dbs = [d \in Db |-> NoDb]
    /\ elsewhere \in {FALSE, \A s \in Sub : subs[s].state = "none"}
    /\ run = Blank
    /\ file = None
    /\ count = [mishaps |-> 0, changes |-> 0]

-----------------------------------------------------------------------------

At(pc) == run.pc = pc
Goto(pc) == run' = [run EXCEPT !.pc = pc]
Fail == Goto("failed")
Mishap == count.mishaps < MaxMishaps /\ count' = [count EXCEPT !.mishaps = @ + 1]

\* A call that fails without effect, or a wait that times out while the task goes on.
Broken == Mishap /\ Fail /\ UNCHANGED <<account, file>>

Listed == {s \in Sub : subs[s].state \in {"making", "up"}}
DbsOf(s) == {d \in Db : dbs[d].sub = s /\ dbs[d].state \in {"making", "up", "ready"}}

\* /fixed/plans offers what the account may create: the free plan, until it is held.
FreePlanOffered == ~elsewhere /\ \A s \in Listed : subs[s].price > 0

Start ==
    /\ run.pc \in Ends
    /\ run' = [Blank EXCEPT !.pc = "find"]
    /\ UNCHANGED <<account, file, count>>

\* existing_database_report: the credentials of a database given by its ids.
StartExisting ==
    /\ run.pc \in Ends
    /\ \E d \in Db :
          /\ dbs[d].state # "none"
          /\ run' = [pc |-> "fetch", sub |-> dbs[d].sub, db |-> d, status |-> "existing"]
    /\ UNCHANGED <<account, file, count>>

-----------------------------------------------------------------------------
(* Finding what an earlier run left.                                       *)

\* find_subscription takes the first entry of the name; an entry without an id is no entry.
Find ==
    /\ At("find")
    /\ \/ /\ \/ \E s \in Listed : run' = [run EXCEPT !.pc = "price", !.sub = s]
             \/ \E s \in Listed : subs[s].state = "making" /\ Goto("plan")
             \/ Listed = {} /\ Goto("plan")
          /\ UNCHANGED <<account, file, count>>
       \/ Broken

\* Mutant: a plan that is not on offer is taken to cost money.
PlanPricedUnlessFree(s) == subs[s].tells = "plan" /\ ~(subs[s].price = 0 /\ FreePlanOffered)

\* paid_plan_ids: the list prices the plan above zero.  The free plan is off the list once held.
PlanPriced(s) == subs[s].tells = "plan" /\ subs[s].price > 0

\* Mutant: the price the subscription itself reports is not looked at.
EnsureFreeByPlan ==
    /\ At("price")
    /\ Goto(IF PlanPriced(run.sub) THEN "notFree" ELSE "reuse")
    /\ UNCHANGED <<account, file, count>>

\* ensure_free_plan refuses on positive evidence of a price only; a failed listing is none.
EnsureFree ==
    /\ At("price")
    /\ \/ /\ subs[run.sub].tells = "price"
          /\ Goto(IF subs[run.sub].price = 0 THEN "reuse" ELSE "notFree")
          /\ UNCHANGED count
       \/ /\ subs[run.sub].tells # "price"
          /\ \/ Goto(IF PlanPriced(run.sub) THEN "notFree" ELSE "reuse") /\ UNCHANGED count
             \/ subs[run.sub].tells = "plan" /\ Mishap /\ Goto("reuse")
    /\ UNCHANGED <<account, file>>

Named(s) == {d \in DbsOf(s) : dbs[d].named}
Adopt(d) == run' = [run EXCEPT !.pc = "fetch", !.db = d, !.status = "reused"]
Idless(d) == dbs[d].state = "making"

\* Mutant: only a database of the name is reused.
ReuseNamedOnly ==
    /\ At("reuse")
    /\ IF Named(run.sub) # {} THEN \E d \in Named(run.sub) : Adopt(d) ELSE Goto("createDb")
    /\ UNCHANGED <<account, file, count>>

\* Mutant: a subscription without a database is a conflict.
ReuseOrRefuse ==
    /\ At("reuse")
    /\ IF DbsOf(run.sub) # {} THEN \E d \in DbsOf(run.sub) : Adopt(d) ELSE Fail
    /\ UNCHANGED <<account, file, count>>

\* database_to_reuse: the one of the name, or the only one; several others are a conflict.
Reuse ==
    /\ At("reuse")
    /\ \/ /\ \/ \E d \in Named(run.sub) : Adopt(d) \/ (Idless(d) /\ Fail)
             \/ DbsOf(run.sub) = {} /\ Goto("createDb")
             \/ /\ Named(run.sub) = {}
                /\ \E d \in DbsOf(run.sub) :
                     IF DbsOf(run.sub) = {d}
                     THEN Adopt(d) \/ (LoneHidden /\ Idless(d) /\ Goto("createDb"))
                     ELSE Fail
          /\ UNCHANGED <<account, file, count>>
       \/ Broken

-----------------------------------------------------------------------------
(* Creating: a request, then its task polled until it ends.                *)

PickPlan ==
    /\ At("plan")
    /\ \/ Goto(IF FreePlanOffered THEN "createSub" ELSE "failed") /\ UNCHANGED count
       \/ Mishap /\ Fail
    /\ UNCHANGED <<account, file>>

\* The create is refused, or accepted; the reply with the task id may be lost.
CreateSub ==
    /\ At("createSub")
    /\ \/ \E s \in Sub, tells \in Telling :
            /\ subs[s].state \in {"none", "failed"}
            /\ subs' = [subs EXCEPT ![s] = [state |-> "making", price |-> 0, tells |-> tells,
                                            ours |-> TRUE]]
            /\ \/ run' = [run EXCEPT !.pc = "pollSub", !.sub = s] /\ UNCHANGED count
               \/ Mishap /\ Fail
            /\ UNCHANGED <<dbs, elsewhere, file>>
       \/ Broken

PollSub ==
    /\ At("pollSub")
    /\ \/ subs[run.sub].state = "up" /\ Goto("createDb") /\ UNCHANGED <<account, file, count>>
       \/ subs[run.sub].state = "failed" /\ Fail /\ UNCHANGED <<account, file, count>>
       \/ Broken

CreateDb ==
    /\ At("createDb")
    /\ \/ \E d \in Db :
            /\ subs[run.sub].state = "up"
            /\ dbs[d].state \in {"none", "failed"}
            /\ dbs' = [dbs EXCEPT ![d] = [state |-> "making", sub |-> run.sub, named |-> TRUE,
                                          ours |-> TRUE]]
            /\ \/ run' = [run EXCEPT !.pc = "pollDb", !.db = d] /\ UNCHANGED count
               \/ Mishap /\ Fail
            /\ UNCHANGED <<subs, elsewhere, file>>
       \/ subs[run.sub].state # "up" /\ Fail /\ UNCHANGED <<account, file, count>>
       \/ Broken

PollDb ==
    /\ At("pollDb")
    /\ \/ dbs[run.db].state \in {"up", "ready"} /\ Goto("fetch") /\ UNCHANGED <<account, file, count>>
       \/ dbs[run.db].state = "failed" /\ Fail /\ UNCHANGED <<account, file, count>>
       \/ Broken

-----------------------------------------------------------------------------
(* Delivering.                                                             *)

\* fetch_ready_database reads the database again until its endpoint is there.
Fetch ==
    /\ At("fetch")
    /\ \/ dbs[run.db].state = "ready" /\ Goto("deliver") /\ UNCHANGED <<account, file, count>>
       \/ dbs[run.db].state = "failed" /\ Fail /\ UNCHANGED <<account, file, count>>
       \/ Broken

\* deliver_and_report: no password, or an unwritable file, is an error.
Deliver ==
    /\ At("deliver")
    /\ \/ file' = run.db /\ Goto("done") /\ UNCHANGED <<account, count>>
       \/ Broken

Kill == run.pc \notin Ends /\ Broken

-----------------------------------------------------------------------------
(* The account.                                                            *)

FreeSlot == ~elsewhere /\ \A s \in Sub : subs[s].state = "up" => subs[s].price > 0

\* A task ends: of two free subscriptions the second fails, and any task may.
SettleSub ==
    \E s \in Sub :
        /\ subs[s].state = "making"
        /\ IF FreeSlot
           THEN \/ subs' = [subs EXCEPT ![s].state = "up"] /\ UNCHANGED count
                \/ subs' = [subs EXCEPT ![s].state = "failed"] /\ Mishap
           ELSE subs' = [subs EXCEPT ![s].state = "failed"] /\ UNCHANGED count
        /\ UNCHANGED <<dbs, elsewhere, run, file>>

\* A database is made (or not), and some time later its endpoint is published.
SettleDb ==
    \E d \in Db :
        /\ \/ dbs[d].state = "making" /\ dbs' = [dbs EXCEPT ![d].state = "up"] /\ UNCHANGED count
           \/ dbs[d].state = "making" /\ dbs' = [dbs EXCEPT ![d].state = "failed"] /\ Mishap
           \/ dbs[d].state = "up" /\ dbs' = [dbs EXCEPT ![d].state = "ready"] /\ UNCHANGED count
        /\ UNCHANGED <<subs, elsewhere, run, file>>

\* Somebody renames a database in the console, adds one of another name, or takes up the free
\* plan with a subscription of another name, or gives that one up.
Others ==
    /\ count.changes < MaxChanges
    /\ count' = [count EXCEPT !.changes = @ + 1]
    /\ \/ \E s \in Sub : \E d \in DbsOf(s) :
             dbs' = [dbs EXCEPT ![d].named = ~@] /\ UNCHANGED elsewhere
       \/ \E s \in Sub, d \in Db :
             /\ subs[s].state = "up" /\ dbs[d].state = "none"
             /\ dbs' = [dbs EXCEPT ![d] = [state |-> "up", sub |-> s, named |-> FALSE,
                                           ours |-> FALSE]]
             /\ UNCHANGED elsewhere
       \/ elsewhere' \in {FALSE, FreeSlot} \ {elsewhere} /\ UNCHANGED dbs
    /\ UNCHANGED <<subs, run, file>>

Provision ==
    \/ Find \/ EnsureFree \/ Reuse \/ PickPlan \/ CreateSub \/ PollSub \/ CreateDb \/ PollDb
    \/ Fetch \/ Deliver

Next == Start \/ StartExisting \/ Provision \/ Kill \/ SettleSub \/ SettleDb \/ Others

\* Fairness: calls are answered or break, waits end with the task or time out, and tasks end.
Spec ==
    /\ Init /\ [][Next]_vars
    /\ WF_vars(Provision) /\ WF_vars(SettleSub) /\ WF_vars(SettleDb)

-----------------------------------------------------------------------------
(* Properties.                                                             *)

Live(things) == {x \in DOMAIN things : things[x].ours /\ things[x].state \notin {"none", "failed"}}

\* "re-running with the same --name returns the existing database instead of creating another":
\* whatever failed, timed out or was killed before, and however others renamed what was made,
\* the command never has two databases or two subscriptions to its name.  It is not so on an
\* account that lists a renamed database, still being made, without its id (LoneHidden): the run
\* and the theorem are about the others.
OneDatabase == \A things \in {dbs, subs} : \A x, y \in Live(things) : x = y

\* The report says `plan: "free"`: no subscription that reports a price is ever adopted.
NeverBilled ==
    run.status # "existing" /\ run.pc \in {"fetch", "deliver", "done"} =>
        ~(subs[run.sub].tells = "price" /\ subs[run.sub].price > 0)

\* "Absence is not evidence here": a subscription that the command made is never refused as not
\* free, although its own plan drops off the list of plans once it is held.
OwnNeverRefused == At("notFree") => ~subs[run.sub].ours

\* A run that is repeated until it succeeds resumes whatever an earlier one left half made, and
\* delivers, provided that the account may hold the free subscription, that no other one
\* has the name, and that others do not leave several databases without one of the name.
Welcome ==
    /\ ~elsewhere
    /\ \A s \in Listed :
          /\ subs[s].price = 0
          /\ Named(s) = {} => Cardinality(DbsOf(s)) <= 1
Repeated == \A pc \in {"failed", "notFree"} : []<>~At(pc)
RetryDelivers == Repeated /\ <>[](Welcome /\ run.status # "existing") => <>(file # None)
=============================================================================
