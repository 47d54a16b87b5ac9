------------------------------ MODULE PollLoop ------------------------------
(***************************************************************************)
(* The loops that wait for an operation of an API, and the commands that    *)
(* use them.  An operation of Redis Cloud is a task, one of Redis           *)
(* Enterprise an action; each answers a status call with a word of its own  *)
(* API, and every loop of the code has its own idea of which words end it.  *)
(***************************************************************************)

\* What the APIs answer ("initialized" stands with "received", "starting" with "queued").
TaskStatus == {"received", "processing-in-progress", "processing-completed", "processing-error"}
ActionStatus == {"queued", "running", "cancelling", "completed", "failed", "cancelled"}
Status == TaskStatus \cup ActionStatus

\* An operation that took effect, and one of which nothing more will come.
Done == {"processing-completed", "completed"}
Over == Done \cup {"processing-error", "failed", "cancelled"}

\* What becomes of an operation; only another user cancels one.
Moves(s) ==
    CASE s = "received" -> {"processing-in-progress", "processing-error"}
      [] s = "processing-in-progress" -> {"processing-completed", "processing-error"}
      [] s = "queued" -> {"running", "cancelling"}
      [] s = "running" -> {"completed", "failed", "cancelling"}
      [] s = "cancelling" -> {"cancelled", "completed"}
      [] OTHER -> {}

-----------------------------------------------------------------------------
(* The loops: the words that end one with success, with failure, or with    *)
(* the operation shown as it is; whether a failed status call ends it; when *)
(* it gives up.                                                             *)
(*   "before"   the time is looked at before each status call               *)
(*   "after"    the time is looked at after a status call that ended nothing *)
(*   "attempts" so many status calls, and a last pause                      *)
(*   "polls"    so many status calls, and the last status is shown          *)
(*   "never"    until it is interrupted                                     *)

Loop(success, failed, shown, breaks, limit) ==
    [success |-> success, failed |-> failed, shown |-> shown, breaks |-> breaks, limit |-> limit]

\* Mutant: the loop takes the words for failure of the commands and not those of the API.
PollTaskDeaf == Loop({"processing-completed"}, {"failed", "error"}, {}, TRUE, "before")
\* Mutant: an action that is being cancelled is taken for a cancelled one.
PollActionEager == Loop({"completed"}, {"failed", "cancelled", "cancelling"}, {}, TRUE, "before")

PollTask == Loop({"processing-completed"}, {"processing-error"}, {}, TRUE, "before")
PollAction == Loop({"completed"}, {"failed", "cancelled"}, {}, TRUE, "before")
WaitForTaskResult ==
    Loop({"completed", "processing-completed", "succeeded", "success"},
         {"failed", "error", "processing-error", "cancelled"}, {}, TRUE, "after")
WaitForCloudTask == Loop({}, {}, {"processing-completed", "processing-error"}, TRUE, "after")
WaitForTaskCompletion ==
    Loop({"completed", "complete", "finished", "succeeded", "success", "processing-completed"},
         {"failed", "error"}, {}, TRUE, "before")
WaitForAction == Loop({"completed", "done"}, {"failed", "error"}, {}, FALSE, "attempts")

IsTerminalState == {"completed", "failed", "error", "success", "cancelled", "aborted"}
TaskWait == Loop({}, {}, IsTerminalState, TRUE, "after")
TaskPoll(limit) == Loop({}, {}, IsTerminalState, TRUE, limit)

\* How a loop takes a word; "on" is to go on.
Verdict(l, s) ==
    IF s \in l.success THEN "success" ELSE IF s \in l.failed THEN "failed"
    ELSE IF s \in l.shown THEN "shown" ELSE "on"

-----------------------------------------------------------------------------
(* The commands: for what one posts an operation ("none" is given the id of *)
(* one), whether it waits and in which loop, whether it goes on after a     *)
(* reply without an id, and what it does with success: it reports it, or    *)
(* first fetches what the operation made or changed.                        *)

Flow(api, for, waits, loop, atOnce, then) ==
    [api |-> api, for |-> for, waits |-> waits, loop |-> loop, atOnce |-> atOnce, then |-> then]

\* The workflows of the library, and handle_async_response with --wait and without.
CloudWorkflow(then) == Flow("cloud", "change", TRUE, PollTask, FALSE, then)
ActionWorkflow(then) == Flow("enterprise", "change", TRUE, PollAction, FALSE, then)
HandleAsyncResponse == {Flow("cloud", "change", w, PollTask, TRUE, "report") : w \in BOOLEAN}
NotWaiting == {f \in HandleAsyncResponse : ~f.waits}

CreateDatabase == {CloudWorkflow("fetch")} \cup HandleAsyncResponse
UpdateDatabase == {CloudWorkflow("fetch")} \cup HandleAsyncResponse
DeleteDatabase == {CloudWorkflow("report")} \cup NotWaiting
BackupDatabase == {CloudWorkflow("report")} \cup NotWaiting
ImportDatabase == {CloudWorkflow("report")} \cup HandleAsyncResponse
DeleteSubscription == {CloudWorkflow("report")} \cup NotWaiting
UpdateSubscription == HandleAsyncResponse
CreateSubscription == {CloudWorkflow("fetch")}
SubscriptionSetup ==
    {Flow("cloud", "change", w, WaitForTaskCompletion, FALSE, "fetch") : w \in BOOLEAN}
ExportCostReport == {Flow("cloud", "change", TRUE, WaitForTaskResult, FALSE, "fetch")}

UpgradeDatabase == {ActionWorkflow("fetch")}
EnterpriseBackup == {Flow("enterprise", "change", w, PollAction, ~w, "report") : w \in BOOLEAN}
EnterpriseImport == {Flow("enterprise", "change", w, PollAction, TRUE, "report") : w \in BOOLEAN}

\* The commands and the tool that wait for a task whose id they are given.
TaskCommand ==
    {Flow("cloud", "none", TRUE, l, FALSE, "report") :
        l \in {TaskWait, TaskPoll("polls"), TaskPoll("never"), WaitForCloudTask}}

\* init-cluster bootstraps, and then makes the default database unless it is told not to.
InitCluster ==
    {Flow("enterprise", "bootstrap", TRUE, WaitForAction, TRUE, t) : t \in {"discover", "report"}}
DefaultDatabase == Flow("enterprise", "create", TRUE, WaitForAction, TRUE, "report")

\* What a command answers of an operation that it does not wait for, because it was not told to or
\* was given no id: the message of success, which handle_async_response prints as soon as the API
\* has taken the operation, or (JSON, and Redis Enterprise) the reply as it stands.
Unwaited(f) ==
    IF f \in HandleAsyncResponse THEN {"success", "underway"}
    ELSE IF f \in EnterpriseBackup \cup EnterpriseImport /\ ~f.waits THEN {"underway"}
    ELSE {"success"}

Commands ==
    CreateDatabase \cup UpdateDatabase \cup DeleteDatabase \cup BackupDatabase \cup ImportDatabase
    \cup DeleteSubscription \cup UpdateSubscription \cup CreateSubscription \cup SubscriptionSetup
    \cup ExportCostReport \cup UpgradeDatabase \cup EnterpriseBackup \cup EnterpriseImport \cup TaskCommand
    \cup InitCluster
=============================================================================
