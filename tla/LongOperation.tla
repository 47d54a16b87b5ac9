---------------------------- MODULE LongOperation ----------------------------
(***************************************************************************)
(* The commands of PollLoop, run one after the other by a user who may      *)
(* interrupt them, against the operations of an API that go on meanwhile.   *)
(* One status call, pause or reply is one step.                             *)
(***************************************************************************)
EXTENDS PollLoop, Naturals

CONSTANTS
    None,      \* an absent value
    Op,        \* the operations that the APIs may be given
    Timeout    \* how many pauses fill the time, or the attempts, of a wait

\* An operation of an API: what it is for and how far it is.
Operation == [for : {"change", "bootstrap", "create"}, status : Status]

\* What a command says; "underway" is a reply or a status as it stands.
Answer == {"success", "failed", "shown", "timeout", "error", "underway"}

ASSUME OperationAssumption ==
    /\ Timeout \in Nat
    /\ None \notin Op /\ None \notin Commands /\ None \notin Answer
    /\ None \notin Operation /\ None # DefaultDatabase

VARIABLES
    ops,      \* the operations of the APIs; None is one that was never posted
    pc,       \* where the running command is
    cmd,      \* it, or the last one
    waited,   \* the operations that it waits or waited for
    task,     \* the last of them
    ticks,    \* the pauses it made, or its attempts
    sawEnd,   \* whether a status call of its wait answered that the operation is over
    answer    \* what it answered

vars == <<ops, pc, cmd, waited, task, ticks, sawEnd, answer>>

Init ==
    /\ ops = [o \in Op |-> None]
    /\ pc = "idle" /\ cmd = None
    /\ waited = {} /\ task = None /\ ticks = 0 /\ sawEnd = FALSE /\ answer = None

-----------------------------------------------------------------------------
(* The APIs.                                                               *)

Posted(o) == ops[o] # None
First(api) == IF api = "cloud" THEN "received" ELSE "queued"
AtOnce(api) == IF api = "cloud" THEN "processing-completed" ELSE "completed"

Proceed(o) ==
    /\ Posted(o)
    /\ \E s \in Moves(ops[o].status) : ops' = [ops EXCEPT ![o].status = s]
    /\ UNCHANGED <<pc, cmd, waited, task, ticks, sawEnd, answer>>

-----------------------------------------------------------------------------
(* A command.                                                              *)

\* The command ends with an answer.
Ends(a) == pc' = "idle" /\ answer' = a

\* What success leads to.
Succeeds ==
    IF cmd.then = "report" THEN Ends("success") ELSE pc' = cmd.then /\ UNCHANGED answer

\* The tasks whose ids a user may give: `task list` shows all of them.
Tasks == {o \in Op : Posted(o) /\ ops[o].status \in TaskStatus}

\* It begins with its post, with the task that it is given, or by asking a cluster for its state.
Start(c) ==
    /\ pc = "idle"
    /\ cmd' = c /\ ticks' = 0 /\ sawEnd' = FALSE /\ answer' = None
    /\ IF c.for = "none"
       THEN pc' = "wait" /\ \E o \in Tasks : task' = o /\ waited' = {o}
       ELSE pc' = (IF c.for = "bootstrap" THEN "state" ELSE "post") /\ task' = None /\ waited' = {}
    /\ UNCHANGED ops

\* The operations that took effect, or may.
Failed == {"failed", "cancelled"}
Live(for) == {o \in Op : Posted(o) /\ ops[o].for = for /\ ops[o].status \notin Failed}

\* A cluster that was made.
Founded == \E o \in Op : Posted(o) /\ ops[o].for = "bootstrap" /\ ops[o].status \in Done

\* An operation is brought about, under a fresh id; a database only by a cluster.
New == CHOOSE o \in Op : ~Posted(o)

Accept(s) ==
    /\ \E o \in Op : ~Posted(o)
    /\ cmd.for = "create" => Founded
    /\ ops' = [ops EXCEPT ![New] = [for |-> cmd.for, status |-> s]]

Refused ==
    /\ pc = "post"
    /\ Ends("error")
    /\ UNCHANGED <<ops, cmd, waited, task, ticks, sawEnd>>

\* The reply is lost, or the query given for it is not a valid one.
Unheard ==
    /\ pc = "post"
    /\ Accept(First(cmd.api))
    /\ Ends("error")
    /\ UNCHANGED <<cmd, waited, task, ticks, sawEnd>>

\* The reply has an id: the command waits for the operation, or says that it was taken.
Accepted ==
    /\ pc = "post"
    /\ Accept(First(cmd.api))
    /\ IF cmd.waits
       THEN task' = New /\ waited' = waited \cup {New} /\ pc' = "wait" /\ UNCHANGED answer
       ELSE task' = None /\ UNCHANGED waited /\ \E a \in Unwaited(cmd) : Ends(a)
    /\ ticks' = 0 /\ sawEnd' = FALSE
    /\ UNCHANGED cmd

\* The reply has none, whether the operation was carried out at once or goes on: a command that takes
\* it goes on as if it had waited, init-cluster after a fixed pause.
Untracked ==
    /\ pc = "post"
    /\ \E s \in {First(cmd.api), AtOnce(cmd.api)} : Accept(s)
    /\ \/ ~cmd.atOnce /\ Ends("error")
       \/ cmd.atOnce /\ cmd.then = "report" /\ \E a \in Unwaited(cmd) : Ends(a)
       \/ cmd.atOnce /\ cmd.then # "report" /\ pc' = cmd.then /\ UNCHANGED answer
    /\ UNCHANGED <<cmd, waited, task, ticks, sawEnd>>

-----------------------------------------------------------------------------
(* The wait.  Calls take time of their own, so that the time may have run   *)
(* out before the pauses alone fill it.                                     *)

MayBeLate == ticks >= Timeout \/ ticks > 0
MustBeLate == ticks >= Timeout

GiveUp ==
    /\ pc = "wait"
    /\ \/ cmd.loop.limit = "before" /\ MayBeLate
       \/ cmd.loop.limit = "attempts" /\ MustBeLate
    /\ Ends("timeout")
    /\ UNCHANGED <<ops, cmd, waited, task, ticks, sawEnd>>

\* Mutant: the last attempt is not the last.
OnTimeUnchecked == cmd.loop.limit = "before" => ~MustBeLate

\* Whether another status call may be made.
OnTime == cmd.loop.limit \in {"before", "attempts"} => ~MustBeLate

\* After a status call that ended nothing.
Goes ==
    \/ /\ cmd.loop.limit = "after" => ~MustBeLate
       /\ cmd.loop.limit = "polls" => ticks + 1 < Timeout
       /\ pc' = "pause" /\ UNCHANGED answer
    \/ cmd.loop.limit = "after" /\ MayBeLate /\ Ends("timeout")
    \/ cmd.loop.limit = "polls" /\ ticks + 1 >= Timeout /\ Ends("underway")

StatusFails ==
    /\ pc = "wait" /\ OnTime
    /\ IF cmd.loop.breaks THEN Ends("error") ELSE Goes
    /\ UNCHANGED <<ops, cmd, waited, task, ticks, sawEnd>>

StatusAnswers ==
    /\ pc = "wait" /\ OnTime
    /\ LET s == ops[task].status IN
       /\ sawEnd' = (s \in Over)
       /\ CASE Verdict(cmd.loop, s) = "on" -> Goes
            [] Verdict(cmd.loop, s) = "success" -> Succeeds
            [] OTHER -> Ends(Verdict(cmd.loop, s))
    /\ UNCHANGED <<ops, cmd, waited, task, ticks>>

\* Mutant: a pause is not counted.
PauseUncounted ==
    /\ pc = "pause"
    /\ pc' = "wait"
    /\ UNCHANGED <<ops, cmd, waited, task, ticks, sawEnd, answer>>

\* The pauses of a wait without end are not counted.
Pause ==
    /\ pc = "pause"
    /\ pc' = "wait"
    /\ ticks' = IF cmd.loop.limit = "never" THEN ticks ELSE ticks + 1
    /\ UNCHANGED <<ops, cmd, waited, task, sawEnd, answer>>

\* What the operation made or changed is fetched, or does not come.
Fetch ==
    /\ pc = "fetch"
    /\ Ends("success") \/ Ends("error")
    /\ UNCHANGED <<ops, cmd, waited, task, ticks, sawEnd>>

-----------------------------------------------------------------------------
(* init-cluster.                                                           *)

\* A cluster in any state but idle, unconfigured and new counts as initialised: one whose bootstrap
\* goes on, and one whose bootstrap failed unless the failure made it idle again.
ClusterState ==
    /\ pc = "state"
    /\ \/ Ends("error")
       \/ Live("bootstrap") = {} /\ pc' = "post" /\ UNCHANGED answer
       \/ (\E o \in Op : Posted(o) /\ ops[o].for = "bootstrap") /\ Ends("success")
    /\ UNCHANGED <<ops, cmd, waited, task, ticks, sawEnd>>

\* A version is given, found or not advertised, and the database is made next; the API refuses it
\* for good; or it is not ready yet.
Discover ==
    /\ pc = "discover"
    /\ \/ pc' = "post" /\ cmd' = DefaultDatabase /\ ticks' = 0 /\ UNCHANGED answer
       \/ Ends("error") /\ UNCHANGED <<cmd, ticks>>
       \/ ticks + 1 < Timeout /\ ticks' = ticks + 1 /\ UNCHANGED <<pc, cmd, answer>>
    /\ UNCHANGED <<ops, waited, task, sawEnd>>

\* Mutant: the post is made once more after any error, a lost reply too.
SettlingOnLoss ==
    /\ pc = "post" /\ cmd.for = "create" /\ ticks = 0
    /\ Accept("completed")
    /\ ticks' = 1
    /\ UNCHANGED <<pc, cmd, waited, task, sawEnd, answer>>

\* The cluster takes the version for one that it does not support yet: the post is made once more.
Settling ==
    /\ pc = "post" /\ cmd.for = "create" /\ ticks = 0
    /\ ticks' = 1
    /\ UNCHANGED <<ops, pc, cmd, waited, task, sawEnd, answer>>

-----------------------------------------------------------------------------

Interrupt ==
    /\ pc # "idle"
    /\ Ends(None)
    /\ UNCHANGED <<ops, cmd, waited, task, ticks, sawEnd>>

\* Every step of a command but its start and its interruption.
Post == Refused \/ Settling \/ Unheard \/ Accepted \/ Untracked
Step == Post \/ GiveUp \/ StatusFails \/ StatusAnswers \/ Pause \/ Fetch \/ ClusterState \/ Discover

Next == Step \/ Interrupt \/ (\E c \in Commands : Start(c)) \/ (\E o \in Op : Proceed(o))

\* A command goes on as long as its calls answer or break.
Spec == Init /\ [][Next]_vars /\ WF_vars(Step)

-----------------------------------------------------------------------------
(* Properties.                                                             *)

TypeOK ==
    /\ ops \in [Op -> Operation \cup {None}]
    /\ pc \in {"idle", "state", "post", "wait", "pause", "fetch", "discover"}
    /\ cmd \in Commands \cup {DefaultDatabase, None} /\ (pc # "idle" => cmd # None)
    /\ waited \subseteq {o \in Op : Posted(o)}
    /\ task \in waited \cup {None} /\ (pc \in {"wait", "pause", "fetch"} => task # None)
    /\ ticks \in 0..Timeout + 1
    /\ sawEnd \in BOOLEAN
    /\ answer \in Answer \cup {None}

\* What a command says of the operations that it waited for stands, though another user may cancel
\* one, and a cancelled one may still complete: after success all of them have taken effect (of
\* init-cluster, the cluster and the database), after failure the last never will, and a task shown
\* as ended has ended.  It says nothing of an operation that no command waited for: the message of
\* success that handle_async_response prints without --wait, or without an id, and init-cluster's
\* "Cluster already initialized" only say that the API took one, then or earlier.
AnswerHolds ==
    /\ answer = "success" => \A o \in waited : ops[o].status \in Done
    /\ answer = "failed" => ops[task].status \in Over \ Done
    /\ answer = "shown" => ops[task].status \in Over

\* A wait of the library, of a cost report or of the MCP server never runs out of time after it read
\* that the operation was over: they know every word that ends an operation of their API.
Careful == {PollTask, PollAction, WaitForTaskResult, WaitForCloudTask}
EndIsSeen == answer = "timeout" /\ cmd.loop \in Careful => ~sawEnd

\* However often init-cluster is run, interrupted, refused or left without a reply, it makes at most
\* one cluster and one default database (the state it asks for first, and the one retry, after a 406).
MadeOnce == \A for \in {"bootstrap", "create"} : \A a, b \in Live(for) : a = b

\* Every command returns, whatever becomes of its operation and however many calls fail, once calls
\* answer or break; only task poll without a limit waits for ever.
CommandsReturn == (pc # "idle" /\ cmd.loop.limit # "never") ~> (pc = "idle")

\* What the hint of every command that does not wait says: task wait is how to wait for completion,
\* so that it does not run out of time once it read that the task is over.
TaskWaitSeesEnd == answer = "timeout" /\ cmd.loop = TaskWait => ~sawEnd
=============================================================================
