------------------------- MODULE LongOperationProofs --------------------------
(***************************************************************************)
(* What the commands that wait for operations guarantee, for any number of  *)
(* operations and any time to wait: what they say of an operation that they *)
(* waited for stands, no end is overheard, and init-cluster makes nothing   *)
(* twice.                                                                   *)
(*                                                                          *)
(* The argument is by an invariant of four parts: where a command may be    *)
(* (Phase), that what it waited for is done before it goes on (Awaited),    *)
(* that it has not heard of an end while it waits (Unended), and that there *)
(* is a database only where there is a cluster (Once).                      *)
(***************************************************************************)
EXTENDS LongOperation, TLAPS

Wire(api) == IF api = "cloud" THEN TaskStatus ELSE ActionStatus

\* What a loop makes of a word of its API.
LoopOK(api, l) ==
    /\ l.limit \in {"before", "after", "attempts", "polls", "never"}
    /\ l.breaks \in BOOLEAN
    /\ \A s \in Wire(api) :
          /\ s \in l.success => s \in Done
          /\ s \in l.failed => s \in Over \ Done
          /\ s \in l.shown => s \in Over
          /\ l \in Careful /\ s \in Over => s \in l.success \cup l.failed \cup l.shown

\* What all commands have in common.
FlowOK(c) ==
    /\ c.api \in {"cloud", "enterprise"}
    /\ c.for \in {"none", "change", "bootstrap", "create"}
    /\ c.waits \in BOOLEAN /\ c.atOnce \in BOOLEAN
    /\ c.then \in {"report", "fetch", "discover"}
    /\ c.for = "none" => c.api = "cloud" /\ c.then = "report"
    /\ c.atOnce => c.then # "fetch"
    /\ c.then = "discover" => c.for = "bootstrap"
    /\ LoopOK(c.api, c.loop)

-----------------------------------------------------------------------------
(* The loops and the commands.                                             *)

LEMMA StatusFacts ==
    /\ Done \subseteq Over /\ Over \subseteq Status
    /\ TaskStatus \subseteq Status /\ ActionStatus \subseteq Status
    /\ \A s \in Over : Moves(s) = {}
    /\ \A s \in TaskStatus : Moves(s) \subseteq TaskStatus
    /\ \A s \in ActionStatus : Moves(s) \subseteq ActionStatus
BY DEF Done, Over, Status, TaskStatus, ActionStatus, Moves

LEMMA CloudLoops ==
    /\ LoopOK("cloud", PollTask) /\ LoopOK("cloud", WaitForTaskResult)
    /\ LoopOK("cloud", WaitForCloudTask)
<1> USE DEF LoopOK, Wire, TaskStatus, Done, Over, Loop
<1>1. LoopOK("cloud", PollTask)
  BY DEF PollTask
<1>2. LoopOK("cloud", WaitForTaskResult)
  BY DEF WaitForTaskResult
<1>3. LoopOK("cloud", WaitForCloudTask)
  BY DEF WaitForCloudTask
<1> QED BY <1>1, <1>2, <1>3

\* These overhear the end of an operation, and are not among the careful ones.
LEMMA OtherLoops ==
    /\ WaitForTaskCompletion \notin Careful /\ WaitForAction \notin Careful
    /\ TaskWait \notin Careful /\ \A limit \in {"polls", "never"} : TaskPoll(limit) \notin Careful
<1> USE DEF Careful, Loop, PollTask, PollAction, WaitForTaskResult, WaitForCloudTask
<1>1. WaitForTaskCompletion \notin Careful
  BY DEF WaitForTaskCompletion
<1>2. WaitForAction \notin Careful
  BY DEF WaitForAction
<1>3. TaskWait \notin Careful
  BY DEF TaskWait, IsTerminalState
<1>4. ASSUME NEW limit \in {"polls", "never"} PROVE TaskPoll(limit) \notin Careful
  BY DEF TaskPoll
<1> QED BY <1>1, <1>2, <1>3, <1>4

LEMMA LoopFacts ==
    /\ LoopOK("cloud", WaitForTaskCompletion) /\ LoopOK("cloud", TaskWait)
    /\ \A limit \in {"polls", "never"} : LoopOK("cloud", TaskPoll(limit))
    /\ LoopOK("enterprise", PollAction) /\ LoopOK("enterprise", WaitForAction)
<1> USE OtherLoops DEF LoopOK, Wire, TaskStatus, ActionStatus, Done, Over, Loop
<1>1. LoopOK("cloud", WaitForTaskCompletion)
  BY DEF WaitForTaskCompletion
<1>2. LoopOK("cloud", TaskWait)
  BY DEF TaskWait, IsTerminalState
<1>3. ASSUME NEW limit \in {"polls", "never"} PROVE LoopOK("cloud", TaskPoll(limit))
  BY DEF TaskPoll, IsTerminalState
<1>4. LoopOK("enterprise", PollAction)
  BY DEF PollAction
<1>5. LoopOK("enterprise", WaitForAction)
  BY DEF WaitForAction
<1> QED BY <1>1, <1>2, <1>3, <1>4, <1>5

LEMMA FlowBuilt ==
    ASSUME NEW api \in {"cloud", "enterprise"}, NEW for \in {"none", "change", "bootstrap", "create"},
           NEW waits \in BOOLEAN, NEW atOnce \in BOOLEAN, NEW then \in {"report", "fetch", "discover"},
           NEW loop, LoopOK(api, loop),
           for = "none" => api = "cloud" /\ then = "report", atOnce => then # "fetch",
           then = "discover" => for = "bootstrap"
    PROVE FlowOK(Flow(api, for, waits, loop, atOnce, then))
BY DEF Flow, FlowOK

LEMMA CommandFacts == FlowOK(DefaultDatabase) /\ \A c \in Commands : FlowOK(c)
<1> USE CloudLoops, LoopFacts, FlowBuilt
<1>1. \A c \in HandleAsyncResponse : FlowOK(c)
  BY DEF HandleAsyncResponse
<1>2. \A then \in {"report", "fetch"} : FlowOK(CloudWorkflow(then)) /\ FlowOK(ActionWorkflow(then))
  BY DEF CloudWorkflow, ActionWorkflow
<1>3. \A c \in NotWaiting : FlowOK(c)
  BY <1>1 DEF NotWaiting
<1>4. \A c \in SubscriptionSetup : FlowOK(c)
  BY DEF SubscriptionSetup
<1>5. \A c \in ExportCostReport : FlowOK(c)
  BY DEF ExportCostReport
<1>6. \A c \in TaskCommand : FlowOK(c)
  <2>1. ASSUME NEW l \in {TaskWait, TaskPoll("polls"), TaskPoll("never"), WaitForCloudTask}
        PROVE FlowOK(Flow("cloud", "none", TRUE, l, FALSE, "report"))
    <3>1. LoopOK("cloud", l)
      OBVIOUS
    <3> QED BY <3>1
  <2> QED BY <2>1 DEF TaskCommand
<1>7. \A c \in InitCluster \cup {DefaultDatabase} : FlowOK(c)
  BY DEF InitCluster, DefaultDatabase
<1>8. \A c \in EnterpriseBackup \cup EnterpriseImport : FlowOK(c)
  BY DEF EnterpriseBackup, EnterpriseImport
<1> HIDE CloudLoops, LoopFacts, FlowBuilt
<1>9. \A c \in CreateDatabase \cup UpdateDatabase \cup DeleteDatabase \cup BackupDatabase
                  \cup ImportDatabase \cup DeleteSubscription \cup UpdateSubscription
                  \cup CreateSubscription \cup UpgradeDatabase : FlowOK(c)
  BY <1>1, <1>2, <1>3 DEF CreateDatabase, UpdateDatabase, DeleteDatabase, BackupDatabase, ImportDatabase,
       DeleteSubscription, UpdateSubscription, CreateSubscription, UpgradeDatabase
<1> QED BY <1>4, <1>5, <1>6, <1>7, <1>8, <1>9 DEF Commands

\* Only the default database is made as one.
LEMMA CommandsMakeNone == \A c \in Commands : c.for # "create"
<1> USE DEF Flow
<1>1. \A c \in HandleAsyncResponse \cup NotWaiting : c.for # "create"
  BY DEF HandleAsyncResponse, NotWaiting
<1>2. \A then \in {"report", "fetch"} :
         CloudWorkflow(then).for # "create" /\ ActionWorkflow(then).for # "create"
  BY DEF CloudWorkflow, ActionWorkflow
<1>3. \A c \in SubscriptionSetup \cup ExportCostReport \cup TaskCommand \cup InitCluster : c.for # "create"
  BY DEF SubscriptionSetup, ExportCostReport, TaskCommand, InitCluster
<1>4. \A c \in EnterpriseBackup \cup EnterpriseImport : c.for # "create"
  BY DEF EnterpriseBackup, EnterpriseImport
<1>5. \A c \in CreateDatabase \cup UpdateDatabase \cup DeleteDatabase \cup BackupDatabase
                  \cup ImportDatabase \cup DeleteSubscription \cup UpdateSubscription
                  \cup CreateSubscription \cup UpgradeDatabase : c.for # "create"
  BY <1>1, <1>2 DEF CreateDatabase, UpdateDatabase, DeleteDatabase, BackupDatabase, ImportDatabase,
       DeleteSubscription, UpdateSubscription, CreateSubscription, UpgradeDatabase
<1> QED BY <1>3, <1>4, <1>5 DEF Commands

-----------------------------------------------------------------------------
(* The invariant.                                                          *)

\* Where a command may be, given what it is.
Phase ==
    /\ answer # None => pc = "idle"
    /\ pc \in {"state", "discover"} => cmd.for = "bootstrap"
    /\ pc = "post" => cmd.for # "none"
    /\ pc = "pause" /\ cmd.loop.limit # "never" => ticks < Timeout
    /\ answer \in {"failed", "shown"} => task # None
    /\ answer = "timeout" => cmd # None

\* What it waited for is done before it goes on, but for the operation that it waits for, whose API it
\* knows.
Awaited ==
    /\ pc # "idle" => \A o \in waited : ops[o].status \in Done \/ (pc \in {"wait", "pause"} /\ o = task)
    /\ pc \in {"wait", "pause"} => ops[task].status \in Wire(cmd.api)

\* While it waits it has not heard of an end.
Unended == pc \in {"wait", "pause"} /\ cmd.loop \in Careful => ~sawEnd

\* A database is made only where there is a cluster, and only once.
Once ==
    /\ Live("create") # {} => Founded
    /\ pc = "post" /\ cmd.for = "create" => Live("create") = {}
    /\ pc = "post" /\ cmd.for = "bootstrap" => Live("bootstrap") = {}
    /\ pc \in {"post", "wait", "pause", "discover"} /\ cmd.for = "bootstrap" => Live("create") = {}

IInv == TypeOK /\ Phase /\ Awaited /\ Unended /\ Once /\ AnswerHolds /\ EndIsSeen /\ MadeOnce

-----------------------------------------------------------------------------
(* The initial states, and the command under way.                          *)

LEMMA InitHolds == Init => IInv
<1> SUFFICES ASSUME Init PROVE IInv
  OBVIOUS
<1> USE OperationAssumption DEF Init
<1>1. TypeOK
  <2>1. ops \in [Op -> Operation \cup {None}] /\ ticks \in 0..Timeout + 1
    OBVIOUS
  <2> QED BY <2>1 DEF TypeOK, Posted
<1>2. \A for \in {"bootstrap", "create"} : Live(for) = {}
  BY DEF Live, Posted
<1>3. Once /\ MadeOnce
  BY <1>2 DEF Once, MadeOnce
<1>4. answer = None /\ answer \notin Answer
  OBVIOUS
<1>5. Phase /\ Awaited /\ Unended /\ AnswerHolds /\ EndIsSeen
  BY <1>4 DEF Phase, Awaited, Unended, AnswerHolds, EndIsSeen, Answer
<1> QED BY <1>1, <1>3, <1>5 DEF IInv

LEMMA CommandUnderWay ==
    ASSUME TypeOK, pc # "idle"
    PROVE cmd \in Commands \cup {DefaultDatabase} /\ FlowOK(cmd)
BY CommandFacts DEF TypeOK

-----------------------------------------------------------------------------
(* What becomes of operations.                                             *)

\* A posted operation stays posted, for what it was, in the words of its API; and one that is over
\* stays as it is.
Forth ==
    \A o \in Op : Posted(o) =>
        /\ Posted(o)' /\ ops'[o].for = ops[o].for
        /\ ops[o].status \in Over => ops'[o] = ops[o]
        /\ ops[o].status \in TaskStatus => ops'[o].status \in TaskStatus
        /\ ops[o].status \in ActionStatus => ops'[o].status \in ActionStatus
        /\ ops[o].status \in Failed => ops'[o].status \in Failed

LEMMA Stays == ops' = ops => Forth
BY DEF Forth, Posted

LEMMA Proceeds ==
    ASSUME TypeOK, NEW o \in Op, Proceed(o)
    PROVE /\ ops' \in [Op -> Operation \cup {None}] /\ Forth
          /\ \A for \in {"bootstrap", "create"} : Live(for)' \subseteq Live(for)
<1> PICK s \in Moves(ops[o].status) : ops' = [ops EXCEPT ![o].status = s]
  BY DEF Proceed
<1>1. ops \in [Op -> Operation \cup {None}] /\ ops[o] \in Operation /\ Posted(o)
  BY DEF TypeOK, Proceed, Posted
<1>2. ops[o].status \in Status /\ ops[o].status \notin Over /\ s \in Status
  BY <1>1, StatusFacts DEF Operation, Status
<1>3. ops[o].status \in TaskStatus => s \in TaskStatus
  BY StatusFacts
<1>4. ops[o].status \in ActionStatus => s \in ActionStatus
  BY StatusFacts
<1>5. /\ ops'[o] \in Operation /\ ops'[o].for = ops[o].for /\ ops'[o].status = s
      /\ \A p \in Op : p # o => ops'[p] = ops[p]
  BY <1>1, <1>2 DEF Operation
<1>6. ops' \in [Op -> Operation \cup {None}]
  BY <1>1, <1>5
<1>7. ops'[o] # None
  BY <1>5, OperationAssumption
<1>8. Failed \subseteq Over
  BY DEF Failed, Over
<1>9. Forth
  BY <1>2, <1>3, <1>4, <1>5, <1>7, <1>8 DEF Forth, Posted
<1>10. ASSUME NEW for \in {"bootstrap", "create"} PROVE Live(for)' \subseteq Live(for)
  BY <1>1, <1>2, <1>5, <1>8 DEF Live, Posted
<1> QED BY <1>6, <1>9, <1>10

LEMMA Accepts ==
    ASSUME TypeOK, Phase, pc = "post", NEW s \in Status, Accept(s)
    PROVE /\ New \in Op /\ ~Posted(New) /\ Forth
          /\ ops' \in [Op -> Operation \cup {None}]
          /\ ops'[New] \in Operation /\ ops'[New].for = cmd.for /\ ops'[New].status = s
          /\ \A o \in Op : o # New => ops'[o] = ops[o]
<1>1. New \in Op /\ ~Posted(New)
  BY DEF Accept, New
<1>2. cmd.for \in {"change", "bootstrap", "create"}
  BY CommandUnderWay DEF FlowOK, Phase
<1>3. /\ ops \in [Op -> Operation \cup {None}]
      /\ ops' = [ops EXCEPT ![New] = [for |-> cmd.for, status |-> s]]
  BY DEF TypeOK, Accept
<1>4. [for |-> cmd.for, status |-> s] \in Operation
  BY <1>2 DEF Operation
<1>5. ops'[New] = [for |-> cmd.for, status |-> s] /\ \A o \in Op : o # New => ops'[o] = ops[o]
  BY <1>1, <1>3
<1>6. ops' \in [Op -> Operation \cup {None}]
  BY <1>3, <1>4
<1>7. Forth
  BY <1>1, <1>5 DEF Forth, Posted
<1> QED BY <1>1, <1>4, <1>5, <1>6, <1>7 DEF Accept

LEMMA OpsSame ==
    ASSUME ops' = ops
    PROVE /\ \A o \in Op : Posted(o)' = Posted(o)
          /\ \A for \in {"bootstrap", "create"} : Live(for)' = Live(for)
          /\ Founded' = Founded
BY DEF Posted, Live, Founded

LEMMA FoundedStays == Founded /\ Forth => Founded'
<1> SUFFICES ASSUME Founded, Forth PROVE Founded'
  OBVIOUS
<1>1. PICK o \in Op : Posted(o) /\ ops[o].for = "bootstrap" /\ ops[o].status \in Done
  BY DEF Founded
<1>2. Posted(o)' /\ ops'[o] = ops[o]
  BY <1>1, StatusFacts DEF Forth
<1> QED BY <1>1, <1>2 DEF Founded

-----------------------------------------------------------------------------
(* The steps.                                                              *)

\* A command ends, and the operations stay as they are.
LEMMA Ending ==
    ASSUME IInv, pc # "idle", UNCHANGED <<ops, cmd, waited, task, ticks>>, sawEnd' \in BOOLEAN,
           NEW a \in Answer \cup {None}, Ends(a),
           a = "success" => \A o \in waited : ops[o].status \in Done,
           a = "failed" => task # None /\ ops[task].status \in Over \ Done,
           a = "shown" => task # None /\ ops[task].status \in Over,
           a = "timeout" /\ cmd.loop \in Careful => ~sawEnd'
    PROVE IInv'
<1>0. /\ answer' = a /\ pc' = "idle" /\ cmd # None
      /\ TypeOK /\ Phase /\ Awaited /\ Once /\ MadeOnce
  BY DEF IInv, TypeOK, Ends
<1>1. TypeOK'
  BY <1>0, OpsSame DEF TypeOK
<1>2. Phase'
  BY <1>0, OpsSame DEF Phase, Posted
<1>3. Awaited'
  BY <1>0 DEF Awaited
<1>4. Unended' /\ EndIsSeen'
  BY <1>0 DEF Unended, EndIsSeen
<1>5. AnswerHolds'
  BY <1>0 DEF AnswerHolds
<1>6. Once'
  BY <1>0, OpsSame DEF Once
<1>7. MadeOnce'
  BY <1>0, OpsSame DEF MadeOnce
<1> QED BY <1>1, <1>2, <1>3, <1>4, <1>5, <1>6, <1>7 DEF IInv

\* A command goes on to pc', and the operations stay as they are.
LEMMA GoingOn ==
    ASSUME IInv, pc # "idle", UNCHANGED <<ops, cmd, waited, task>>,
           answer' = answer, pc' # "idle", ticks' \in 0..Timeout + 1, sawEnd' \in BOOLEAN,
           TypeOK', Phase', Awaited', Unended', Once'
    PROVE IInv'
<1>1. answer' = None /\ MadeOnce
  BY DEF IInv, Phase
<1>2. answer' \notin Answer
  BY <1>1, OperationAssumption
<1>3. AnswerHolds' /\ EndIsSeen'
  BY <1>2 DEF AnswerHolds, EndIsSeen, Answer
<1>4. MadeOnce'
  BY <1>1, OpsSame DEF MadeOnce
<1> QED BY <1>3, <1>4 DEF IInv

LEMMA ProceedHolds == ASSUME IInv, NEW o \in Op, Proceed(o) PROVE IInv'
<1>0. /\ TypeOK /\ Phase /\ Awaited /\ Unended /\ Once /\ AnswerHolds /\ EndIsSeen /\ MadeOnce
      /\ UNCHANGED <<pc, cmd, waited, task, ticks, sawEnd, answer>>
  BY DEF IInv, Proceed
<1>1. /\ ops' \in [Op -> Operation \cup {None}] /\ Forth
      /\ \A for \in {"bootstrap", "create"} : Live(for)' \subseteq Live(for)
  BY <1>0, Proceeds
<1>2. TypeOK'
  BY <1>0, <1>1 DEF TypeOK, Forth
<1>3. \A p \in waited : p \in Op /\ Posted(p)
  BY <1>0 DEF TypeOK
<1>4. task # None => task \in Op /\ Posted(task)
  BY <1>0, <1>3 DEF TypeOK
<1>5. Phase'
  BY <1>0 DEF Phase
<1>6. Awaited'
  <2>1. pc \in {"wait", "pause"} => task # None
    BY <1>0 DEF TypeOK
  <2> QED BY <1>0, <1>1, <1>3, <1>4, <2>1, StatusFacts DEF Awaited, Forth, Wire
<1>7. Unended' /\ EndIsSeen'
  BY <1>0 DEF Unended, EndIsSeen
<1>8. Founded => Founded'
  BY <1>1, FoundedStays
<1>9. Once'
  BY <1>0, <1>1, <1>8 DEF Once
<1>10. AnswerHolds'
  <2>1. answer = "success" => AnswerHolds'
    <3> SUFFICES ASSUME answer = "success", NEW p \in waited
                 PROVE ops'[p].status \in Done
      BY <1>0 DEF AnswerHolds
    <3>1. p \in Op /\ Posted(p) /\ ops[p].status \in Done
      BY <1>0, <1>3 DEF AnswerHolds
    <3> QED BY <1>1, <3>1, StatusFacts DEF Forth, Posted
  <2>2. answer \in {"failed", "shown"} => AnswerHolds'
    BY <1>0, <1>1, <1>4, StatusFacts DEF AnswerHolds, Phase, Forth
  <2> QED BY <1>0, <2>1, <2>2 DEF AnswerHolds
<1>11. MadeOnce'
  BY <1>0, <1>1 DEF MadeOnce
<1> QED BY <1>2, <1>5, <1>6, <1>7, <1>9, <1>10, <1>11 DEF IInv

\* The steps that start or end a command, or go on within it.

LEMMA StartHolds == ASSUME IInv, NEW c \in Commands, Start(c) PROVE IInv'
<1>0. /\ TypeOK /\ Once /\ MadeOnce /\ pc = "idle"
      /\ cmd' = c /\ ticks' = 0 /\ sawEnd' = FALSE /\ answer' = None /\ ops' = ops
  BY DEF IInv, Start
<1>1. \/ c.for = "none" /\ pc' = "wait" /\ task' \in Tasks /\ waited' = {task'}
      \/ c.for = "bootstrap" /\ pc' = "state" /\ task' = None /\ waited' = {}
      \/ c.for # "none" /\ c.for # "bootstrap" /\ pc' = "post" /\ task' = None /\ waited' = {}
  BY DEF Start
<1>2. FlowOK(c) /\ c \in Commands /\ answer' \notin Answer
  BY <1>0, CommandFacts, OperationAssumption
<1>3. c.for # "create"
  BY CommandsMakeNone
<1>4. \A o \in Tasks : o \in Op /\ o # None /\ Posted(o) /\ ops[o].status \in TaskStatus
  BY OperationAssumption DEF Tasks
<1>5. TypeOK'
  <2>1. 0 \in 0..Timeout + 1 /\ c # None
    BY OperationAssumption
  <2> QED BY <1>0, <1>1, <1>4, <2>1, OpsSame DEF TypeOK
<1>6. Phase'
  BY <1>0, <1>1, <1>2 DEF Phase, Answer
<1>7. Awaited'
  BY <1>0, <1>1, <1>2, <1>4 DEF Awaited, Wire, FlowOK
<1>8. Unended' /\ EndIsSeen' /\ AnswerHolds'
  BY <1>0, <1>2 DEF Unended, EndIsSeen, AnswerHolds, Answer
<1>9. Once'
  BY <1>0, <1>1, <1>3, OpsSame DEF Once
<1>10. MadeOnce'
  BY <1>0, OpsSame DEF MadeOnce
<1> QED BY <1>5, <1>6, <1>7, <1>8, <1>9, <1>10 DEF IInv

LEMMA EndsHold ==
    ASSUME IInv, Refused \/ GiveUp \/ Fetch \/ Interrupt
    PROVE IInv'
<1>0. TypeOK /\ Phase /\ Awaited /\ Unended
  BY DEF IInv
<1>1. CASE Refused
  BY <1>1, Ending, <1>0 DEF Refused, TypeOK, Answer
<1>2. CASE GiveUp
  BY <1>2, Ending, <1>0 DEF GiveUp, TypeOK, Answer, Unended
<1>3. CASE Fetch
  <2>1. \A o \in waited : ops[o].status \in Done
    BY <1>0, <1>3 DEF Fetch, Awaited
  <2> QED BY <1>3, <2>1, Ending, <1>0 DEF Fetch, TypeOK, Answer
<1>4. CASE Interrupt
  BY <1>4, Ending, <1>0, OperationAssumption DEF Interrupt, TypeOK, Answer
<1> QED BY <1>1, <1>2, <1>3, <1>4

LEMMA PauseHolds == ASSUME IInv, Pause PROVE IInv'
<1>0. /\ TypeOK /\ Phase /\ Awaited /\ Unended /\ Once
      /\ pc = "pause" /\ pc' = "wait" /\ UNCHANGED <<ops, cmd, waited, task, sawEnd, answer>>
      /\ ticks' = IF cmd.loop.limit = "never" THEN ticks ELSE ticks + 1
  BY DEF IInv, Pause
<1>1. ticks' \in 0..Timeout + 1
  BY <1>0, OperationAssumption DEF TypeOK, Phase
<1>2. TypeOK'
  BY <1>0, <1>1, OpsSame DEF TypeOK
<1>3. Phase'
  BY <1>0 DEF Phase, Posted
<1>4. Awaited' /\ Unended'
  BY <1>0 DEF Awaited, Unended
<1>5. Once'
  BY <1>0, OpsSame DEF Once
<1> QED BY <1>0, <1>1, <1>2, <1>3, <1>4, <1>5, GoingOn DEF TypeOK

LEMMA ClusterStateHolds == ASSUME IInv, ClusterState PROVE IInv'
<1>0. /\ TypeOK /\ Phase /\ Awaited /\ Once /\ pc = "state"
      /\ UNCHANGED <<ops, cmd, waited, task, ticks, sawEnd>>
  BY DEF IInv, ClusterState
<1>1. CASE Ends("error") \/ Ends("success")
  BY <1>0, <1>1, Ending DEF TypeOK, Answer, Awaited
<1>2. CASE Live("bootstrap") = {} /\ pc' = "post" /\ UNCHANGED answer
  <2>1. TypeOK'
    BY <1>0, <1>2, OpsSame DEF TypeOK
  <2>2. Phase' /\ Awaited' /\ Unended'
    BY <1>0, <1>2 DEF Phase, Posted, Awaited, Unended
  <2>3. ~Founded
    BY <1>2 DEF Founded, Live, Done, Failed
  <2>4. Once'
    BY <1>0, <1>2, <2>3, OpsSame DEF Once, Phase
  <2> QED BY <1>0, <1>2, <2>1, <2>2, <2>4, GoingOn DEF TypeOK
<1> QED BY <1>1, <1>2 DEF ClusterState

LEMMA SettlingHolds == ASSUME IInv, Settling PROVE IInv'
<1>0. /\ TypeOK /\ Phase /\ Awaited /\ Unended /\ Once /\ pc = "post" /\ ticks' = 1
      /\ UNCHANGED <<ops, pc, cmd, waited, task, sawEnd, answer>>
  BY DEF IInv, Settling
<1>1. ticks' \in 0..Timeout + 1
  BY <1>0, OperationAssumption
<1>2. TypeOK'
  BY <1>0, <1>1, OpsSame DEF TypeOK
<1>3. Phase' /\ Awaited' /\ Unended'
  BY <1>0 DEF Phase, Posted, Awaited, Unended
<1>4. Once'
  BY <1>0, OpsSame DEF Once
<1> QED BY <1>0, <1>1, <1>2, <1>3, <1>4, GoingOn DEF TypeOK

LEMMA DiscoverHolds == ASSUME IInv, Discover PROVE IInv'
<1>0. /\ TypeOK /\ Phase /\ Awaited /\ Unended /\ Once /\ pc = "discover"
      /\ UNCHANGED <<ops, waited, task, sawEnd>>
  BY DEF IInv, Discover
<1>1. CASE pc' = "post" /\ cmd' = DefaultDatabase /\ ticks' = 0 /\ UNCHANGED answer
  <2>1. ticks' \in 0..Timeout + 1 /\ cmd'.for = "create" /\ cmd' # None
    BY <1>1, OperationAssumption DEF DefaultDatabase, Flow
  <2>2. TypeOK'
    BY <1>0, <1>1, <2>1, OpsSame DEF TypeOK
  <2>3. Phase' /\ Awaited' /\ Unended'
    BY <1>0, <1>1, <2>1 DEF Phase, Posted, Awaited, Unended
  <2>4. Once'
    BY <1>0, <1>1, <2>1, OpsSame DEF Once, Phase
  <2>5. AnswerHolds' /\ EndIsSeen' /\ MadeOnce'
    <3>1. answer' = None /\ None \notin Answer /\ MadeOnce
      BY <1>0, <1>1, OperationAssumption DEF IInv, Phase
    <3>2. AnswerHolds' /\ EndIsSeen'
      BY <3>1 DEF AnswerHolds, EndIsSeen, Answer
    <3> QED BY <1>0, <3>1, <3>2, OpsSame DEF MadeOnce
  <2> QED BY <2>2, <2>3, <2>4, <2>5 DEF IInv
<1>2. CASE Ends("error") /\ UNCHANGED <<cmd, ticks>>
  BY <1>0, <1>2, Ending DEF TypeOK, Answer
<1>3. CASE ticks + 1 < Timeout /\ ticks' = ticks + 1 /\ UNCHANGED <<pc, cmd, answer>>
  <2>1. ticks' \in 0..Timeout + 1
    BY <1>0, <1>3, OperationAssumption DEF TypeOK
  <2>2. TypeOK'
    BY <1>0, <1>3, <2>1, OpsSame DEF TypeOK
  <2>3. Phase' /\ Awaited' /\ Unended'
    BY <1>0, <1>3 DEF Phase, Posted, Awaited, Unended
  <2>4. Once'
    BY <1>0, <1>3, OpsSame DEF Once
  <2> QED BY <1>0, <1>3, <2>1, <2>2, <2>3, <2>4, GoingOn DEF TypeOK
<1> QED BY <1>1, <1>2, <1>3 DEF Discover

\* The steps that ask for a status.

LEMMA GoesHolds ==
    ASSUME IInv, pc = "wait", OnTime, Goes, UNCHANGED <<ops, cmd, waited, task, ticks>>,
           sawEnd' \in BOOLEAN, cmd.loop \in Careful => ~sawEnd'
    PROVE IInv'
<1>0. TypeOK /\ Phase /\ Awaited /\ Once /\ FlowOK(cmd)
  BY CommandUnderWay DEF IInv
<1>1. CASE pc' = "pause" /\ UNCHANGED answer /\ (cmd.loop.limit = "after" => ~MustBeLate)
           /\ (cmd.loop.limit = "polls" => ticks + 1 < Timeout)
  <2>1. TypeOK'
    BY <1>0, <1>1, OpsSame DEF TypeOK
  <2>2. cmd.loop.limit # "never" => ticks < Timeout
    BY <1>0, <1>1, OperationAssumption DEF OnTime, MustBeLate, FlowOK, LoopOK, TypeOK
  <2>3. Phase'
    BY <1>0, <1>1, <2>2 DEF Phase, Posted
  <2>4. Awaited' /\ Unended'
    BY <1>0, <1>1 DEF Awaited, Unended
  <2>5. Once'
    BY <1>0, <1>1, OpsSame DEF Once
  <2> QED BY <1>0, <1>1, <2>1, <2>3, <2>4, <2>5, GoingOn DEF TypeOK
<1>2. CASE Ends("timeout")
  BY <1>2, Ending DEF Answer
<1>3. CASE Ends("underway")
  BY <1>3, Ending DEF Answer
<1> QED BY <1>1, <1>2, <1>3 DEF Goes

LEMMA StatusFailsHolds == ASSUME IInv, StatusFails PROVE IInv'
<1>0. /\ TypeOK /\ Unended /\ pc = "wait" /\ OnTime
      /\ UNCHANGED <<ops, cmd, waited, task, ticks, sawEnd>>
  BY DEF IInv, StatusFails
<1>1. CASE Ends("error")
  BY <1>0, <1>1, Ending DEF Answer, TypeOK
<1>2. CASE Goes
  BY <1>0, <1>2, GoesHolds DEF Unended, TypeOK
<1> QED BY <1>1, <1>2 DEF StatusFails

LEMMA StatusAnswersHolds == ASSUME IInv, StatusAnswers PROVE IInv'
<1> DEFINE s == ops[task].status
<1>0. /\ TypeOK /\ Phase /\ Awaited /\ Unended /\ Once /\ pc = "wait" /\ OnTime
      /\ UNCHANGED <<ops, cmd, waited, task, ticks>> /\ sawEnd' = (s \in Over)
      /\ CASE Verdict(cmd.loop, s) = "on" -> Goes
           [] Verdict(cmd.loop, s) = "success" -> Succeeds
           [] OTHER -> Ends(Verdict(cmd.loop, s))
  BY DEF IInv, StatusAnswers
<1>1. FlowOK(cmd) /\ task # None /\ s \in Wire(cmd.api)
  BY <1>0, CommandUnderWay DEF TypeOK, Awaited
<1> HIDE DEF s
<1>2. /\ s \in cmd.loop.success => s \in Done
      /\ s \in cmd.loop.failed => s \in Over \ Done
      /\ s \in cmd.loop.shown => s \in Over
      /\ cmd.loop \in Careful /\ s \in Over => s \in cmd.loop.success \cup cmd.loop.failed \cup cmd.loop.shown
  BY <1>1 DEF FlowOK, LoopOK
<1>3. CASE Verdict(cmd.loop, s) = "on"
  <2>1. s \notin cmd.loop.success \cup cmd.loop.failed \cup cmd.loop.shown
    BY <1>3 DEF Verdict
  <2>2. cmd.loop \in Careful => ~sawEnd'
    BY <1>0, <1>2, <2>1
  <2> QED BY <1>0, <1>3, <2>2, GoesHolds
<1>4. CASE Verdict(cmd.loop, s) = "success"
  <2>1. s \in Done
    BY <1>2, <1>4 DEF Verdict
  <2>2. \A o \in waited : ops[o].status \in Done
    BY <1>0, <2>1 DEF Awaited, s
  <2>3. CASE cmd.then = "report"
    BY <1>0, <1>4, <2>2, <2>3, Ending DEF Succeeds, Answer
  <2>4. CASE cmd.then # "report"
    <3>1. pc' = cmd.then /\ cmd.then \in {"fetch", "discover"} /\ UNCHANGED answer
      BY <1>0, <1>1, <1>4, <2>4 DEF Succeeds, FlowOK
    <3>2. cmd.then = "discover" => cmd.for = "bootstrap"
      BY <1>1 DEF FlowOK
    <3>3. TypeOK'
      BY <1>0, <1>1, <3>1, OpsSame DEF TypeOK
    <3>4. Phase'
      BY <1>0, <3>1, <3>2 DEF Phase, Posted
    <3>5. Awaited' /\ Unended'
      BY <1>0, <1>1, <2>2, <3>1 DEF Awaited, Unended, Posted
    <3>7. Once'
      BY <1>0, <3>1, <3>2, OpsSame DEF Once
    <3> QED BY <1>0, <3>1, <3>3, <3>4, <3>5, <3>7, GoingOn DEF TypeOK
  <2> QED BY <2>3, <2>4
<1>5. CASE Verdict(cmd.loop, s) = "failed"
  <2>1. s \in Over \ Done /\ Ends("failed")
    BY <1>0, <1>2, <1>5 DEF Verdict
  <2> QED BY <1>0, <1>1, <2>1, Ending DEF Answer, s
<1>6. CASE Verdict(cmd.loop, s) = "shown"
  <2>1. s \in Over /\ Ends("shown")
    BY <1>0, <1>2, <1>6 DEF Verdict
  <2> QED BY <1>0, <1>1, <2>1, Ending DEF Answer, s
<1> QED BY <1>3, <1>4, <1>5, <1>6 DEF Verdict

-----------------------------------------------------------------------------
(* The posts.                                                              *)

LEMMA StatusOfPost ==
    \A api \in {"cloud", "enterprise"} :
        \A s \in {First(api), AtOnce(api)} : s \in Wire(api) /\ s \in Status
BY DEF First, AtOnce, Wire, Status, TaskStatus, ActionStatus

LEMMA UnwaitedFacts == \A c : Unwaited(c) \subseteq {"success", "underway"}
BY DEF Unwaited

LEMMA AcceptMakesOnce ==
    ASSUME IInv, pc = "post", NEW s \in Status, Accept(s)
    PROVE /\ MadeOnce' /\ (Live("create")' # {} => Founded')
          /\ cmd.for = "bootstrap" => Live("create")' = {}
<1>0. TypeOK /\ Phase /\ Once /\ MadeOnce
  BY DEF IInv
<1>1. /\ New \in Op /\ Forth /\ ops'[New] \in Operation
      /\ ops'[New].for = cmd.for /\ ops'[New].status = s
      /\ \A o \in Op : o # New => ops'[o] = ops[o]
  BY <1>0, Accepts
<1>2. \A for \in {"bootstrap", "create"} :
         /\ for # cmd.for => Live(for)' \subseteq Live(for)
         /\ Live(for)' \subseteq Live(for) \cup {New}
  BY <1>1 DEF Live, Posted
<1>3. Founded => Founded'
  BY <1>1, FoundedStays
<1>4. Live("create")' # {} => Founded'
  <2>1. cmd.for = "create" => Founded
    BY DEF Accept
  <2> QED BY <1>0, <1>2, <1>3, <2>1 DEF Once
<1>5. cmd.for = "bootstrap" => Live("create")' = {}
  BY <1>0, <1>2 DEF Once
<1>6. MadeOnce'
  <2>1. cmd.for = "bootstrap" => Live("bootstrap") = {}
    BY <1>0 DEF Once
  <2>2. cmd.for = "create" => Live("create") = {}
    BY <1>0 DEF Once
  <2>3. ASSUME NEW for \in {"bootstrap", "create"} PROVE \A a, b \in Live(for)' : a = b
    <3>1. CASE for = cmd.for
      BY <1>2, <2>1, <2>2, <3>1
    <3>2. CASE for # cmd.for
      BY <1>0, <1>2, <3>2 DEF MadeOnce
    <3> QED BY <3>1, <3>2
  <2> QED BY <2>3 DEF MadeOnce
<1> QED BY <1>4, <1>5, <1>6

\* What a post leaves of the invariant wherever the command goes from it.
LEMMA PostKeeps ==
    ASSUME IInv, pc = "post", NEW s \in Wire(cmd.api), Accept(s)
    PROVE /\ FlowOK(cmd) /\ cmd # None /\ answer = None /\ None \notin Answer
          /\ New \in Op /\ New # None /\ ~Posted(New) /\ ops'[New] # None /\ ops'[New].status = s
          /\ ops' \in [Op -> Operation \cup {None}]
          /\ \A o \in waited : o \in Op /\ Posted(o)' /\ ops'[o].status \in Done
          /\ MadeOnce' /\ (Live("create")' # {} => Founded')
          /\ cmd.for = "bootstrap" => Live("create")' = {}
<1>1. TypeOK /\ Phase /\ Awaited
  BY DEF IInv
<1>2. FlowOK(cmd) /\ cmd # None /\ answer = None /\ None \notin Answer
  BY <1>1, CommandUnderWay, OperationAssumption DEF Phase, TypeOK
<1>3. s \in Status
  BY <1>2, StatusFacts DEF FlowOK, Wire
<1>4. /\ New \in Op /\ ~Posted(New) /\ Forth /\ ops' \in [Op -> Operation \cup {None}]
      /\ ops'[New] \in Operation /\ ops'[New].status = s
  BY <1>1, <1>3, Accepts
<1>5. New # None /\ ops'[New] # None
  BY <1>4, OperationAssumption
<1>6. \A o \in waited : o \in Op /\ Posted(o) /\ ops[o].status \in Done
  BY <1>1 DEF Awaited, TypeOK
<1>7. \A o \in waited : Posted(o)' /\ ops'[o].status \in Done
  BY <1>4, <1>6, StatusFacts DEF Forth
<1> QED BY <1>2, <1>3, <1>4, <1>5, <1>6, <1>7, AcceptMakesOnce

LEMMA UnheardHolds == ASSUME IInv, Unheard PROVE IInv'
<1> DEFINE s == First(cmd.api)
<1>0. /\ TypeOK /\ Phase /\ pc = "post" /\ Accept(s) /\ pc' = "idle" /\ answer' = "error"
      /\ UNCHANGED <<cmd, waited, task, ticks, sawEnd>>
  BY DEF IInv, Unheard, Ends
<1>1. s \in Wire(cmd.api)
  BY <1>0, CommandUnderWay, StatusOfPost DEF FlowOK
<1> HIDE DEF s
<1>2. /\ ops' \in [Op -> Operation \cup {None}] /\ cmd # None
      /\ \A o \in waited : o \in Op /\ Posted(o)'
      /\ MadeOnce' /\ (Live("create")' # {} => Founded')
  BY <1>0, <1>1, PostKeeps
<1>3. TypeOK'
  BY <1>0, <1>2 DEF TypeOK, Answer
<1>4. Phase' /\ Awaited' /\ Unended' /\ Once'
  BY <1>0, <1>2 DEF Phase, Awaited, Unended, Once
<1>5. AnswerHolds' /\ EndIsSeen'
  BY <1>0 DEF AnswerHolds, EndIsSeen
<1> QED BY <1>2, <1>3, <1>4, <1>5 DEF IInv

LEMMA AcceptedHolds == ASSUME IInv, Accepted PROVE IInv'
<1> DEFINE s == First(cmd.api)
<1>0. /\ TypeOK /\ Phase /\ pc = "post" /\ Accept(s)
      /\ \/ task' = New /\ waited' = waited \cup {New} /\ pc' = "wait" /\ answer' = answer
         \/ /\ task' = None /\ waited' = waited /\ pc' = "idle"
            /\ answer' \in {"success", "underway"}
      /\ ticks' = 0 /\ sawEnd' = FALSE /\ cmd' = cmd
  BY UnwaitedFacts DEF IInv, Accepted, Ends
<1>1. s \in Wire(cmd.api)
  BY <1>0, CommandUnderWay, StatusOfPost DEF FlowOK
<1> HIDE DEF s
<1>2. /\ cmd # None /\ answer = None /\ None \notin Answer
      /\ New \in Op /\ New # None /\ ~Posted(New) /\ ops'[New] # None /\ ops'[New].status = s
      /\ ops' \in [Op -> Operation \cup {None}]
      /\ \A o \in waited : o \in Op /\ Posted(o)' /\ ops'[o].status \in Done
      /\ MadeOnce' /\ (Live("create")' # {} => Founded')
      /\ cmd.for = "bootstrap" => Live("create")' = {}
  BY <1>0, <1>1, PostKeeps
<1>3. 0 \in 0..Timeout + 1
  BY OperationAssumption
<1>4. TypeOK'
  <2>1. \A o \in waited' : o \in Op /\ Posted(o)'
    BY <1>0, <1>2 DEF Posted
  <2>2. task' \in waited' \cup {None} /\ (pc' # "idle" => task' # None)
    BY <1>0, <1>2
  <2>3. pc' \in {"idle", "wait"} /\ answer' \in Answer \cup {None}
    BY <1>0, <1>2 DEF Answer
  <2> QED BY <1>0, <1>2, <1>3, <2>1, <2>2, <2>3 DEF TypeOK
<1>5. Phase'
  BY <1>0, <1>2 DEF Phase, Answer
<1>6. Awaited'
  BY <1>0, <1>1, <1>2 DEF Awaited
<1>7. Unended' /\ EndIsSeen'
  BY <1>0, <1>2 DEF Unended, EndIsSeen, Answer
<1>8. AnswerHolds'
  BY <1>0, <1>2 DEF AnswerHolds, Answer
<1>9. Once'
  BY <1>0, <1>2 DEF Once
<1> QED BY <1>2, <1>4, <1>5, <1>6, <1>7, <1>8, <1>9 DEF IInv

LEMMA UntrackedHolds == ASSUME IInv, Untracked PROVE IInv'
<1>0. /\ TypeOK /\ Phase /\ pc = "post" /\ UNCHANGED <<cmd, waited, task, ticks, sawEnd>>
  BY DEF IInv, Untracked
<1>1. FlowOK(cmd)
  BY <1>0, CommandUnderWay
<1>2. PICK s \in {First(cmd.api), AtOnce(cmd.api)} : Accept(s)
  BY DEF Untracked
<1>3. s \in Wire(cmd.api)
  BY <1>1, StatusOfPost DEF FlowOK
<1>4. \/ pc' = "idle" /\ answer' \in {"success", "underway", "error"}
      \/ pc' = "discover" /\ answer' = answer /\ cmd.for = "bootstrap"
  BY <1>1, UnwaitedFacts DEF Untracked, Ends, FlowOK
<1>5. /\ cmd # None /\ answer = None /\ None \notin Answer
      /\ ops' \in [Op -> Operation \cup {None}]
      /\ \A o \in waited : o \in Op /\ Posted(o)' /\ ops'[o].status \in Done
      /\ MadeOnce' /\ (Live("create")' # {} => Founded')
      /\ cmd.for = "bootstrap" => Live("create")' = {}
  BY <1>0, <1>2, <1>3, PostKeeps
<1>6. TypeOK'
  BY <1>0, <1>4, <1>5 DEF TypeOK, Answer
<1>7. Phase' /\ Awaited' /\ Unended' /\ Once'
  BY <1>0, <1>4, <1>5 DEF Phase, Awaited, Unended, Once, Answer
<1>8. AnswerHolds' /\ EndIsSeen'
  BY <1>0, <1>4, <1>5 DEF AnswerHolds, EndIsSeen, Answer
<1> QED BY <1>5, <1>6, <1>7, <1>8 DEF IInv

-----------------------------------------------------------------------------
(* The theorems.                                                           *)

LEMMA StepHolds == IInv /\ [Next]_vars => IInv'
<1> SUFFICES ASSUME IInv, [Next]_vars PROVE IInv'
  OBVIOUS
<1>1. CASE Post
  BY <1>1, EndsHold, SettlingHolds, UnheardHolds, AcceptedHolds, UntrackedHolds DEF Post
<1>2. CASE GiveUp \/ StatusFails \/ StatusAnswers \/ Pause
  BY <1>2, EndsHold, StatusFailsHolds, StatusAnswersHolds, PauseHolds
<1>3. CASE Fetch \/ ClusterState \/ Discover \/ Interrupt
  BY <1>3, EndsHold, ClusterStateHolds, DiscoverHolds
<1>4. CASE \E c \in Commands : Start(c)
  BY <1>4, StartHolds
<1>5. CASE \E o \in Op : Proceed(o)
  BY <1>5, ProceedHolds
<1>6. CASE UNCHANGED vars
  BY <1>6 DEF vars, IInv, TypeOK, Phase, Awaited, Unended, Once, AnswerHolds, EndIsSeen, MadeOnce,
       Live, Posted, Founded
<1> QED BY <1>1, <1>2, <1>3, <1>4, <1>5, <1>6 DEF Next, Step

LEMMA Invariant == Spec => []IInv
<1>1. Init => IInv
  BY InitHolds
<1>2. IInv /\ [Next]_vars => IInv'
  BY StepHolds
<1> QED BY <1>1, <1>2, PTL DEF Spec

\* Every reachable state is well-typed, for any operations and any time to wait.
THEOREM TypeCorrect == Spec => []TypeOK
<1>1. IInv => TypeOK
  BY DEF IInv
<1> QED BY <1>1, Invariant, PTL

\* What a command says of the operations that it waited for stands: after success all of them have
\* taken effect, after failure the last never will, and what is shown as ended has ended, whatever
\* other users cancel and whatever calls fail.
THEOREM AnswersHold == Spec => []AnswerHolds
<1>1. IInv => AnswerHolds
  BY DEF IInv
<1> QED BY <1>1, Invariant, PTL

\* The loops of the library, of the cost report and of the MCP server never run out of time after
\* they read that the operation was over.
THEOREM EndsAreSeen == Spec => []EndIsSeen
<1>1. IInv => EndIsSeen
  BY DEF IInv
<1> QED BY <1>1, Invariant, PTL

\* Whatever is interrupted, refused or lost, and however often init-cluster is run again, there is at
\* most one cluster and one default database.
THEOREM NothingTwice == Spec => []MadeOnce
<1>1. IInv => MadeOnce
  BY DEF IInv
<1> QED BY <1>1, Invariant, PTL
=============================================================================
