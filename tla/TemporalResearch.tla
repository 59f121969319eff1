-------------------------- MODULE TemporalResearch --------------------------
(***************************************************************************)
(* One research job under the Temporal backend.  Three parties share it:    *)
(* the gateway process, whose event workers run /research, /cancel, /status *)
(* and /pause (execution/temporal_executor.py) and which reconciles the     *)
(* jobs table when it starts; the ResearchWorkflow kept by the Temporal     *)
(* service (temporal/workflows.py); and the worker process that runs its    *)
(* activities (temporal/activities.py).  Gateway and worker write the same  *)
(* SQLite row.                                                              *)
(*                                                                         *)
(* The Repository lock is a lock of one process, and a SELECT before the    *)
(* first UPDATE runs outside any transaction, so between the two processes  *)
(* only single statements are atomic: cancel_job reads in one step and      *)
(* writes in another.                                                       *)
(*                                                                         *)
(* Jobs do not meet in this mode (the workflow id is made from the job id), *)
(* so one is enough.  The projection columns (workflow_status, stage,       *)
(* progress, paused) feed displays only and are left out; the report        *)
(* activities are module ReportPipeline, here "research".                   *)
(***************************************************************************)
EXTENDS ActivityTasks, Sequences

CONSTANTS Handlers,    \* event worker threads of the gateway
          Stages,      \* gated stages of the workflow before complete_job
          MaxRestarts, \* bound: crashes of the gateway
          MaxRefusals  \* bound: failed calls from the gateway to Temporal

ASSUME StagesAssumption == Stages \in Nat

VARIABLES
    status,    \* the jobs row: status
    bound,     \* temporal_workflow_id IS NOT NULL
    gateway,   \* "down", "list", "inspect", "apply" (TemporalExecutor.recover), "up"
    seen,      \* the workflow state recover() has read
    cmd,       \* cmd[h]: the command handler h executes, where, and the status it read
    told,      \* messages the owner has got; "id" is any that names the job
    wf,        \* execution status of the workflow: "none" before start_workflow,
               \* "missing" when the service no longer knows it
    step,      \* position of the workflow in Plan
    asked,     \* the cancellation request: "no", "pending", "delivered"
    paused,    \* the workflow's self.paused
    says,      \* the workflow's self.status, as get_status answers
    restarts, refusals

row      == <<status, bound>>
gw       == <<gateway, seen, cmd, told, restarts, refusals>>
workflow == <<wf, step, asked, paused, says>>
vars     == <<taskVars, row, gw, workflow>>

Terminal == {"completed", "failed", "cancelled"}
ActiveRow == {"queued", "running", "cancel_requested"}

-----------------------------------------------------------------------------
(* The jobs row. *)

(* Mutant of MayEnd: the UPDATE without its status condition. *)
MayEndAlways(s) == TRUE

(* _set_terminal, one UPDATE with its condition. *)
MayEnd(s) == status \notin Terminal \/ status = s
EndRow(s) == status' = IF MayEnd(s) THEN s ELSE status

-----------------------------------------------------------------------------
(* The gateway's commands. *)

NoCmd == [op |-> "none", at |-> "none", saw |-> "none"]
CmdAt(h, o, p) == cmd[h].op = o /\ cmd[h].at = p
Then(h, p, s) == cmd' = [cmd EXCEPT ![h].at = p, ![h].saw = s]
Begin(h, o, p) == /\ gateway = "up" /\ cmd[h] = NoCmd
                  /\ cmd' = [cmd EXCEPT ![h] = [op |-> o, at |-> p, saw |-> "none"]]
Reply(h, m) == /\ cmd' = [cmd EXCEPT ![h] = NoCmd]
               /\ told' = told \union {m}
Silent(h) == cmd' = [cmd EXCEPT ![h] = NoCmd] /\ UNCHANGED told

(* The owner learns the job id from the reply or from a progress message. *)
Known == "id" \in told

(* /research: create_job, start_workflow, bind_temporal_workflow. *)
CreateJob(h) ==
    /\ status = "absent"
    /\ Begin(h, "research", "start")
    /\ status' = "queued"
    /\ UNCHANGED <<taskVars, bound, gateway, seen, told, restarts, refusals, workflow>>

StartWorkflow(h) ==
    /\ CmdAt(h, "research", "start")
    /\ wf' = "running" /\ step' = 1
    /\ task' = Queued("initialize", 3)
    /\ Then(h, "bind", "none")
    /\ UNCHANGED <<thread, timeouts, losses, row, gateway, seen, told, restarts,
                   refusals, asked, paused, says>>

BindReply(h) ==
    /\ CmdAt(h, "research", "bind")
    /\ bound' = TRUE
    /\ Reply(h, "id")
    /\ UNCHANGED <<taskVars, status, gateway, seen, restarts, refusals, workflow>>

(* No connection: fail_job.  An error later in the call: only "command       *)
(* failed", and the workflow may have been started.                          *)
StartRefused(h) ==
    /\ CmdAt(h, "research", "start") /\ refusals < MaxRefusals
    /\ refusals' = refusals + 1
    /\ \/ EndRow("failed") /\ Reply(h, "rejected") /\ UNCHANGED <<task, wf, step>>
       \/ Silent(h) /\ UNCHANGED <<status, task, wf, step>>
       \/ /\ Silent(h) /\ UNCHANGED status
          /\ wf' = "running" /\ step' = 1 /\ task' = Queued("initialize", 3)
    /\ UNCHANGED <<thread, timeouts, losses, bound, gateway, seen, restarts, asked,
                   paused, says>>

(* /cancel: get_job, cancel the workflow, then cancel_job's SELECT, then its  *)
(* UPDATE.                                                                   *)
CancelAuthorize(h) ==
    /\ Known
    /\ Begin(h, "cancel", IF status \in Terminal THEN "terminal"
                          ELSE IF bound THEN "ask" ELSE "select")
    /\ UNCHANGED <<taskVars, row, gateway, seen, told, restarts, refusals, workflow>>

CancelAsk(h) ==
    /\ CmdAt(h, "cancel", "ask") /\ wf = "running"
    /\ asked' = IF asked = "no" THEN "pending" ELSE asked
    /\ Then(h, "select", "none")
    /\ UNCHANGED <<taskVars, row, gateway, seen, told, restarts, refusals, wf, step,
                   paused, says>>

(* Mutant of CancelNotDelivered: the failure is logged and forgotten. *)
CancelFailureForgotten(h) ==
    /\ CmdAt(h, "cancel", "ask")
    /\ \/ wf # "running" /\ UNCHANGED refusals
       \/ refusals < MaxRefusals /\ refusals' = refusals + 1
    /\ Then(h, "select", "none")
    /\ UNCHANGED <<taskVars, row, gateway, seen, told, restarts, workflow>>

(* The service does not answer, or the workflow is closed already: the owner *)
(* is told that Temporal is unavailable, which promises nothing.             *)
CancelNotDelivered(h) ==
    /\ CmdAt(h, "cancel", "ask")
    /\ \/ wf # "running" /\ UNCHANGED refusals
       \/ refusals < MaxRefusals /\ refusals' = refusals + 1
    /\ Silent(h)
    /\ UNCHANGED <<taskVars, row, gateway, seen, restarts, workflow>>

CancelSelect(h) ==
    /\ CmdAt(h, "cancel", "select")
    /\ Then(h, IF status \in Terminal THEN "terminal"
               ELSE IF status = "cancel_requested" THEN "reply" ELSE "update", status)
    /\ UNCHANGED <<taskVars, row, gateway, seen, told, restarts, refusals, workflow>>

CancelTarget(s) == IF s = "queued" THEN "cancelled" ELSE "cancel_requested"

CancelUpdate(h) ==
    /\ CmdAt(h, "cancel", "update")
    /\ status' = CancelTarget(cmd[h].saw)
    /\ Reply(h, CancelTarget(cmd[h].saw))
    /\ UNCHANGED <<taskVars, bound, gateway, seen, restarts, refusals, workflow>>

CancelReply(h) ==
    /\ \/ CmdAt(h, "cancel", "terminal") /\ Reply(h, "terminal")
       \/ CmdAt(h, "cancel", "reply") /\ Reply(h, "cancel_requested")
    /\ UNCHANGED <<taskVars, row, gateway, seen, restarts, refusals, workflow>>

(* /pause and /resume: the signal; then _set_pause, a projection. *)
SignalPause(h) ==
    /\ Known /\ gateway = "up" /\ cmd[h] = NoCmd
    /\ status \notin Terminal /\ bound /\ wf = "running"
    /\ paused' = ~paused
    /\ UNCHANGED <<taskVars, row, gw, wf, step, asked, says>>

(* /status: get_job, then the query, if the service answers; what it shows may *)
(* end the row.                                                              *)
StatusRead(h) ==
    /\ Known /\ bound
    /\ cmd[h] = NoCmd /\ gateway = "up" /\ status \in ActiveRow
    /\ cmd' = [cmd EXCEPT ![h] = [op |-> "status", at |-> "query", saw |-> status]]
    /\ UNCHANGED <<taskVars, row, gateway, seen, told, restarts, refusals, workflow>>

StatusQuery(h) ==
    /\ CmdAt(h, "status", "query")
    /\ \/ wf = "missing" /\ Then(h, "end", "failed") /\ UNCHANGED told
       \/ /\ wf # "missing" /\ says \in {"failed", "cancelled"}
          /\ Then(h, "end", says) /\ UNCHANGED told
       \/ Silent(h)
    /\ UNCHANGED <<taskVars, row, gateway, seen, restarts, refusals, workflow>>

StatusEnd(h) ==
    /\ CmdAt(h, "status", "end")
    /\ EndRow(cmd[h].saw)
    /\ Silent(h)
    /\ UNCHANGED <<taskVars, bound, gateway, seen, restarts, refusals, workflow>>

-----------------------------------------------------------------------------
(* The gateway's start: TemporalExecutor.recover. *)

RecoverList ==
    /\ gateway = "list"
    /\ gateway' = IF status \in ActiveRow /\ bound THEN "inspect" ELSE "up"
    /\ UNCHANGED <<taskVars, row, seen, cmd, told, restarts, refusals, workflow>>

RecoverInspect ==
    /\ gateway = "inspect"
    /\ \/ seen' = wf /\ gateway' = "apply" /\ UNCHANGED refusals
       \/ /\ refusals < MaxRefusals /\ refusals' = refusals + 1
          /\ gateway' = "up" /\ UNCHANGED seen
    /\ UNCHANGED <<taskVars, row, cmd, told, restarts, workflow>>

(* Mutant of OutcomeOf: a cancelled workflow is not handled. *)
OutcomeOfTwo(w) == IF w = "completed" THEN "completed"
                   ELSE IF w \in {"failed", "missing"} THEN "failed" ELSE "none"

(* The row's outcome for a workflow that is closed (_project_closed_status)    *)
(* or that the service does not know (_mark_workflow_missing).                *)
OutcomeOf(w) == CASE w = "completed" -> "completed"
                  [] w = "canceled"  -> "cancelled"
                  [] w \in {"failed", "missing"} -> "failed"
                  [] OTHER           -> "none"

RecoverApply ==
    /\ gateway = "apply"
    /\ IF OutcomeOf(seen) = "none" THEN UNCHANGED status ELSE EndRow(OutcomeOf(seen))
    /\ gateway' = "up" /\ seen' = "none"
    /\ UNCHANGED <<taskVars, bound, cmd, told, restarts, refusals, workflow>>

GatewayCrash ==
    /\ gateway # "down" /\ restarts < MaxRestarts
    /\ restarts' = restarts + 1
    /\ gateway' = "down" /\ seen' = "none"
    /\ cmd' = [h \in Handlers |-> NoCmd]
    /\ UNCHANGED <<taskVars, row, told, refusals, workflow>>

GatewayStart ==
    /\ gateway = "down"
    /\ gateway' = "list"
    /\ UNCHANGED <<taskVars, row, seen, cmd, told, restarts, refusals, workflow>>

-----------------------------------------------------------------------------
(* The activities. *)

Unmoved == UNCHANGED <<gateway, seen, cmd, restarts, refusals, workflow>>

(* initialize_job: bind, then start_job if the row is queued. *)
InitializeBind(t) ==
    /\ At(t, "initialize", "start")
    /\ bound' = TRUE
    /\ GoTo(t, "begin", {})
    /\ UNCHANGED <<status, told>> /\ Unmoved

InitializeBegin(t) ==
    /\ At(t, "initialize", "begin")
    /\ status' = IF status = "queued" THEN "running" ELSE status
    /\ GoTo(t, "over", {})
    /\ UNCHANGED <<bound, told>> /\ Unmoved

(* project_workflow_status: a progress message with the job id. *)
Project(t) ==
    /\ At(t, "project", "start")
    /\ told' = told \union {"id"}
    /\ GoTo(t, "over", {})
    /\ UNCHANGED row /\ Unmoved

(* The stages of the research, and register_monitoring_schedule: nothing on  *)
(* the row; some errors are not retried.                                     *)
Research(t) ==
    /\ thread[t].act \in {"research", "register"} /\ thread[t].at = "start"
    /\ \/ GoTo(t, "over", {})
       \/ thread[t].act = "research" /\ RaiseFinal(t)
    /\ UNCHANGED <<row, told>> /\ Unmoved

EndingActs == [complete |-> "completed", fail |-> "failed", cancel |-> "cancelled"]

(* complete_job, mark_job_failed, mark_job_cancelled. *)
EndJob(t) ==
    /\ thread[t].act \in DOMAIN EndingActs /\ thread[t].at = "start"
    /\ EndRow(EndingActs[thread[t].act])
    /\ GoTo(t, "over", {})
    /\ UNCHANGED <<bound, told>> /\ Unmoved

(* deliver_artifacts: the completion message. *)
Deliver(t) ==
    /\ At(t, "deliver", "start")
    /\ told' = told \union {"completed"}
    /\ GoTo(t, "over", {})
    /\ UNCHANGED row /\ Unmoved

Finish(t) ==
    /\ thread[t].at = "over"
    /\ Return(t)
    /\ UNCHANGED <<row, told>> /\ Unmoved

-----------------------------------------------------------------------------
(* ResearchWorkflow.run. *)

Plan == <<"initialize">>
        \o [i \in 1..2 * Stages |-> IF i % 2 = 1 THEN "project" ELSE "research"]
        \o <<"complete", "register", "project", "deliver", "project">>

MaxAttempts == [initialize |-> 3, project |-> 3, research |-> 2, complete |-> 3,
                register |-> 1, deliver |-> 3, cancel |-> 3, fail |-> 1]

Await(a) == task' = Queued(a, MaxAttempts[a])
NoTask == [act |-> "closed", left |-> 0, by |-> "closed"]

(* _pause_gate stands before every stage up to generating_artifacts. *)
Gated(i) == Plan[i] = "project" /\ i <= 2 * Stages

Rest == UNCHANGED <<thread, timeouts, losses, row, gw, paused>>

Proceed ==
    /\ wf = "running" /\ task.by = "done" /\ asked # "pending"
    /\ task.act \notin {"cancel", "fail"} /\ step < Len(Plan)
    /\ Gated(step + 1) => ~paused
    /\ step' = step + 1
    /\ Await(Plan[step + 1])
    /\ says' = IF step + 1 = Len(Plan) THEN "completed" ELSE says
    /\ UNCHANGED <<wf, asked>> /\ Rest

Close(s) == wf' = s /\ task' = NoTask

Complete ==
    /\ wf = "running" /\ task.by = "done" /\ asked # "pending"
    /\ task.act \notin {"cancel", "fail"} /\ step = Len(Plan)
    /\ Close("completed")
    /\ UNCHANGED <<step, asked, says>> /\ Rest

(* Mutant of CancelDelivered: the pause gate swallows the cancellation. *)
CancelAwaitsResume ==
    /\ wf = "running" /\ asked = "pending" /\ ~paused
    /\ asked' = "delivered" /\ Await("cancel") /\ says' = "cancelled"
    /\ UNCHANGED <<wf, step>> /\ Rest

(* CancelledError in the try block: _mark_cancelled, shielded. *)
CancelDelivered ==
    /\ wf = "running" /\ asked = "pending"
    /\ asked' = "delivered"
    /\ IF task.act = "fail"
       THEN Close("canceled") /\ UNCHANGED says
       ELSE Await("cancel") /\ says' = "cancelled" /\ UNCHANGED wf
    /\ UNCHANGED step /\ Rest

(* Any other failure: mark_job_failed with one attempt. *)
Failed ==
    /\ wf = "running" /\ task.by \in {"failed", "rejected"} /\ asked # "pending"
    /\ IF task.act \in {"cancel", "fail"}
       THEN Close("failed") /\ UNCHANGED says
       ELSE Await("fail") /\ says' = "failed" /\ UNCHANGED wf
    /\ UNCHANGED <<step, asked>> /\ Rest

Ended ==
    /\ wf = "running" /\ task.by = "done" /\ asked # "pending"
    /\ task.act \in {"cancel", "fail"}
    /\ Close(IF task.act = "cancel" THEN "canceled" ELSE "failed")
    /\ UNCHANGED <<step, asked, says>> /\ Rest

(* The service loses the execution: its retention is over, or its store gone.  *)
Forgotten ==
    /\ wf \notin {"none", "missing"}
    /\ Close("missing")
    /\ UNCHANGED <<step, asked, says>> /\ Rest

-----------------------------------------------------------------------------
Init ==
    /\ task = NoTask /\ thread = [t \in Threads |-> Idle]
    /\ timeouts = 0 /\ losses = 0
    /\ status = "absent" /\ bound = FALSE
    /\ gateway = "down" /\ seen = "none"
    /\ cmd = [h \in Handlers |-> NoCmd] /\ told = {}
    /\ wf = "none" /\ step = 0 /\ asked = "no" /\ paused = FALSE /\ says = "running"
    /\ restarts = 0 /\ refusals = 0

(* The steps a command takes once it is under way. *)
CommandStep(h) ==
    \/ StartWorkflow(h) \/ BindReply(h) \/ CancelAsk(h) \/ CancelSelect(h)
    \/ CancelUpdate(h) \/ CancelReply(h) \/ StatusQuery(h) \/ StatusEnd(h)
    \/ CancelNotDelivered(h)

Command(h) ==
    \/ CreateJob(h) \/ CancelAuthorize(h) \/ StatusRead(h) \/ SignalPause(h)
    \/ StartRefused(h)

Recovery == GatewayStart \/ RecoverList \/ RecoverInspect \/ RecoverApply

Activity(t) ==
    \/ InitializeBind(t) \/ InitializeBegin(t) \/ Project(t) \/ Research(t)
    \/ EndJob(t) \/ Deliver(t) \/ Finish(t)

Workflow == Proceed \/ Complete \/ CancelDelivered \/ Failed \/ Ended

Delivery == /\ LossNoticed \/ \E t \in Threads : Pick(t)
            /\ UNCHANGED <<row, gw, workflow>>

Trouble == /\ TimeOut \/ WorkerCrash \/ \E t \in Threads : Fault(t)
           /\ UNCHANGED <<row, gw, workflow>>

Next ==
    \/ \E h \in Handlers : CommandStep(h) \/ Command(h)
    \/ \E t \in Threads : Activity(t)
    \/ Recovery \/ Workflow \/ Delivery \/ Trouble \/ GatewayCrash \/ Forgotten

Spec == Init /\ [][Next]_vars

(* Every party that can go on does; commands and trouble need not come. *)
FairSpec ==
    /\ Spec
    /\ \A h \in Handlers : WF_vars(CommandStep(h))
    /\ \A t \in Threads : WF_vars(Activity(t))
    /\ WF_vars(Recovery) /\ WF_vars(Workflow) /\ WF_vars(Delivery)

-----------------------------------------------------------------------------
(* Properties. *)

(* An owner who is told that a cancellation was taken has a workflow that    *)
(* was asked to stop: no failed call to Temporal, lost binding or restart of *)
(* the gateway lets the reply go out for a workflow that runs on untouched.  *)
CancelReachesWorkflow ==
    told \intersect {"cancelled", "cancel_requested"} # {} => asked # "no"

(* Two processes race to end the row - activities, late attempts of them,    *)
(* /status and recover() - and the first outcome stands.  The one statement  *)
(* that can break it is the UPDATE of cancel_job.                            *)
FirstOutcomeStands ==
    [][(status \in Terminal /\ status' # status)
          => \E h \in Handlers : CmdAt(h, "cancel", "update")]_vars

(* A gateway that starts and finds the workflow closed, or not at all, leaves  *)
(* no active row.                                                             *)
RecoveryHeals ==
    [][gateway = "apply" /\ seen \notin {"none", "running"} /\ gateway' = "up"
          => status' \in Terminal]_vars

(* A workflow that is not paused comes to an end, whatever is lost or given   *)
(* up, and a cancellation ends a paused one as well.                         *)
WorkflowSettles == wf = "running" ~> (wf # "running" \/ (paused /\ asked = "no"))
=============================================================================
