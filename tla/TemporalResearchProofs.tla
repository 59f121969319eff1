----------------------- MODULE TemporalResearchProofs -----------------------
(***************************************************************************)
(* One job on Temporal, for any number of handlers, threads and stages, any *)
(* number of crashes, refused calls, timeouts and lost attempts.            *)
(***************************************************************************)
EXTENDS TemporalResearch, SequenceTheorems, TLAPS

Acts == {"initialize", "project", "research", "complete", "register", "deliver",
         "cancel", "fail"}
Closings == {"completed", "failed", "canceled", "missing"}

Cmd == [op : {"none", "research", "cancel", "status"},
        at : {"none", "start", "bind", "ask", "select", "update", "reply", "terminal",
              "query", "end"},
        saw : {"none", "absent"} \union ActiveRow \union Terminal]
Attempt == [act : Acts \union {"none"}, at : {"none", "start", "begin", "over"}, read : {{}}]
Task == [act : Acts \union {"closed"}, left : Nat,
         by : Threads \union {"queue", "done", "failed", "rejected", "lost", "closed"}]

-----------------------------------------------------------------------------
(* The invariant. *)

TasksTyped == task \in Task /\ thread \in [Threads -> Attempt]

RowTyped == status \in {"absent"} \union ActiveRow \union Terminal /\ bound \in BOOLEAN

GatewayTyped ==
    /\ gateway \in {"down", "list", "inspect", "apply", "up"}
    /\ seen \in {"none", "running"} \union Closings
    /\ cmd \in [Handlers -> Cmd]
    /\ \A h \in Handlers : cmd[h].at = "end" => cmd[h].saw \in Terminal

WorkflowTyped ==
    /\ wf \in {"none", "running"} \union Closings
    /\ step \in 0 .. Len(Plan) /\ asked \in {"no", "pending", "delivered"}
    /\ paused \in BOOLEAN /\ says \in {"running", "completed", "failed", "cancelled"}

TypeOK == TasksTyped /\ RowTyped /\ GatewayTyped /\ WorkflowTyped

(* The attempt the service listens to is one of the awaited activity, and a  *)
(* workflow that is closed awaits none.                                      *)
Listened ==
    /\ task.by \in Threads => thread[task.by].act = task.act
    /\ task.act = "closed" => task.by = "closed"

(* The job is bound to its workflow before the owner can know it and before  *)
(* any activity behind initialize_job is handed out.                         *)
Early == {"none", "closed", "initialize", "cancel", "fail"}

BoundFirst ==
    /\ Known => bound
    /\ task.act \notin Early => bound
    /\ task.act = "initialize" /\ task.by = "done" => bound
    /\ \A t \in Threads :
          /\ thread[t].act \notin Early => bound
          /\ thread[t].at \in {"begin", "over"} /\ thread[t].act = "initialize" => bound

(* A /cancel that has got past the call to Temporal has asked the workflow.  *)
AskedFirst ==
    \A h \in Handlers :
        cmd[h].op = "cancel" /\ cmd[h].at \in {"select", "update", "reply"} => asked # "no"

IInv == TypeOK /\ Listened /\ BoundFirst /\ AskedFirst /\ CancelReachesWorkflow

-----------------------------------------------------------------------------
(* The activities the workflow awaits are those it knows. *)
LEMMA PlanActs == Plan \in Seq(Acts) /\ Len(Plan) \in Nat /\ Len(Plan) > 0
<1> DEFINE middle == [i \in 1..2 * Stages |-> IF i % 2 = 1 THEN "project" ELSE "research"]
           last == <<"complete", "register", "project", "deliver", "project">>
<1>1. middle \in Seq(Acts)
  BY StagesAssumption DEF Acts
<1>2. <<"initialize">> \in Seq(Acts) /\ last \in Seq(Acts) /\ Len(<<"initialize">>) = 1
  BY DEF Acts
<1> HIDE DEF middle, last
<1>3. /\ <<"initialize">> \o middle \in Seq(Acts)
      /\ Len(<<"initialize">> \o middle) = 1 + Len(middle)
  BY <1>1, <1>2, ConcatProperties
<1>4. /\ (<<"initialize">> \o middle) \o last \in Seq(Acts)
      /\ Len((<<"initialize">> \o middle) \o last) = 1 + Len(middle) + Len(last)
  BY <1>2, <1>3, ConcatProperties
<1>5. Len(middle) \in Nat /\ Len(last) \in Nat
  BY <1>1, <1>2, LenProperties
<1>6. Plan = (<<"initialize">> \o middle) \o last
  BY DEF Plan, middle, last
<1> QED BY <1>4, <1>5, <1>6

LEMMA PlanStep ==
    ASSUME NEW i \in 1 .. Len(Plan)
    PROVE  Plan[i] \in Acts
BY PlanActs

-----------------------------------------------------------------------------
(* The parts of the invariant by what they read. *)

TaskPart == TasksTyped /\ Listened

(* The operations of ActivityTasks keep the types and the listening.         *)
LEMMA PickKeeps ==
    ASSUME TaskPart, NEW t \in Threads, Pick(t)
    PROVE  TaskPart'
BY ThreadsAssumption DEF TaskPart, TasksTyped, Listened, Task, Attempt, Acts, Pick, Idle

LEMMA GoToKeeps ==
    ASSUME TaskPart, NEW t \in Threads, NEW p \in {"start", "begin", "over"}, GoTo(t, p, {})
    PROVE  TaskPart'
<1> DEFINE n == [thread[t] EXCEPT !.at = p, !.read = {}]
<1>1. thread' = [thread EXCEPT ![t] = n] /\ task' = task
  BY DEF TaskPart, TasksTyped, GoTo
<1>2. n \in Attempt /\ n.act = thread[t].act /\ n.at = p
  BY DEF TaskPart, TasksTyped, Attempt
<1> HIDE DEF n
<1>3. TasksTyped'
  BY <1>1, <1>2 DEF TaskPart, TasksTyped
<1>4. Listened'
  BY <1>1, <1>2 DEF TaskPart, TasksTyped, Listened
<1> QED BY <1>3, <1>4 DEF TaskPart

(* An attempt that is over leaves its thread idle and the task where the      *)
(* service has put it.                                                       *)
LEMMA GivenUpTyped ==
    ASSUME TaskPart, task.by # "closed"
    PROVE  GivenUp \in Task /\ GivenUp.by \in {"queue", "failed"} /\ GivenUp.act = task.act
<1>1. CASE task.left > 1
  <2>1. GivenUp = [act |-> task.act, left |-> task.left - 1, by |-> "queue"]
    BY <1>1 DEF TaskPart, TasksTyped, Task, GivenUp
  <2> QED BY <1>1, <2>1 DEF TaskPart, TasksTyped, Task
<1>2. CASE ~(task.left > 1)
  <2>1. GivenUp = [act |-> task.act, left |-> 0, by |-> "failed"]
    BY <1>2 DEF TaskPart, TasksTyped, Task, GivenUp
  <2> QED BY <2>1 DEF TaskPart, TasksTyped, Task
<1> QED BY <1>1, <1>2

LEMMA OverKeeps ==
    ASSUME TaskPart, NEW t \in Threads,
           \/ Return(t) \/ RaiseFinal(t) \/ Fault(t)
    PROVE  TaskPart'
<1>1. CASE Return(t)
  BY <1>1, ThreadsAssumption
  DEF TaskPart, TasksTyped, Listened, Task, Attempt, Acts, Return, Idle
<1>2. CASE RaiseFinal(t)
  BY <1>2, ThreadsAssumption
  DEF TaskPart, TasksTyped, Listened, Task, Attempt, Acts, RaiseFinal, Idle
<1>3. CASE Fault(t)
  BY <1>3, ThreadsAssumption, GivenUpTyped
  DEF TaskPart, TasksTyped, Listened, Task, Attempt, Acts, Fault, Idle
<1> QED BY <1>1, <1>2, <1>3

LEMMA TroubleKeeps ==
    ASSUME TaskPart, TimeOut \/ WorkerCrash \/ LossNoticed
    PROVE  TaskPart'
<1>1. CASE TimeOut
  BY <1>1, ThreadsAssumption, GivenUpTyped
  DEF TaskPart, TasksTyped, Listened, TimeOut
<1>2. CASE WorkerCrash
  BY <1>2, ThreadsAssumption
  DEF TaskPart, TasksTyped, Listened, Task, Attempt, Acts, WorkerCrash, Idle
<1>3. CASE LossNoticed
  BY <1>3, ThreadsAssumption, GivenUpTyped
  DEF TaskPart, TasksTyped, Listened, LossNoticed
<1> QED BY <1>1, <1>2, <1>3

LEMMA AwaitKeeps ==
    ASSUME TaskPart, NEW a \in Acts, Await(a) \/ task' = NoTask, UNCHANGED thread
    PROVE  TaskPart'
BY ThreadsAssumption
DEF TaskPart, TasksTyped, Listened, Task, Attempt, Acts, Await, Queued, MaxAttempts,
    NoTask

(* The next step of a command leaves the commands of the others alone.        *)
LEMMA ThenKeeps ==
    ASSUME cmd \in [Handlers -> Cmd], NEW h \in Handlers, NEW p, NEW s,
           [op |-> "none", at |-> p, saw |-> s] \in Cmd, Then(h, p, s)
    PROVE  /\ cmd' \in [Handlers -> Cmd]
           /\ cmd'[h].op = cmd[h].op /\ cmd'[h].at = p /\ cmd'[h].saw = s
           /\ \A k \in Handlers \ {h} : cmd'[k] = cmd[k]
<1> DEFINE n == [cmd[h] EXCEPT !.at = p, !.saw = s]
<1>1. cmd' = [cmd EXCEPT ![h] = n]
  BY DEF Then
<1>2. n \in Cmd /\ n.op = cmd[h].op /\ n.at = p /\ n.saw = s
  BY DEF Cmd
<1> HIDE DEF n
<1> QED BY <1>1, <1>2

-----------------------------------------------------------------------------
(* The steps of the gateway. *)

LEMMA CommandKeeps ==
    ASSUME IInv, NEW h \in Handlers, CommandStep(h) \/ Command(h)
    PROVE  IInv'
<1> USE DEF IInv, TypeOK, Begin, CmdAt, Reply, Silent, NoCmd
<1>1. CASE CreateJob(h)
  <2>1. TaskPart'
    BY <1>1 DEF TaskPart, TasksTyped, Listened, CreateJob, taskVars
  <2>2. RowTyped' /\ GatewayTyped' /\ WorkflowTyped'
    BY <1>1, PlanActs
    DEF RowTyped, GatewayTyped, WorkflowTyped, Cmd, CreateJob, Terminal, ActiveRow,
        workflow, Closings
  <2>3. BoundFirst'
    BY <1>1
    DEF BoundFirst, Known, Early, TasksTyped, CreateJob, taskVars
  <2>4. AskedFirst' /\ CancelReachesWorkflow'
    BY <1>1
    DEF AskedFirst, CancelReachesWorkflow, BoundFirst, GatewayTyped, Cmd, CreateJob,
        Known, workflow
  <2> QED BY <2>1, <2>2, <2>3, <2>4 DEF TaskPart
<1>2. CASE StartWorkflow(h)
  <2>1. TaskPart'
    BY <1>2, AwaitKeeps DEF TaskPart, StartWorkflow, Await, MaxAttempts, Acts
  <2>2. RowTyped' /\ GatewayTyped' /\ WorkflowTyped'
    <3>1. RowTyped' /\ WorkflowTyped'
      BY <1>2, PlanActs
      DEF RowTyped, WorkflowTyped, StartWorkflow, Terminal, ActiveRow, row
    <3>2. GatewayTyped'
      BY <1>2, ThenKeeps
      DEF GatewayTyped, RowTyped, WorkflowTyped, Cmd, StartWorkflow, ActiveRow, Terminal
    <3> QED BY <3>1, <3>2
  <2>3. BoundFirst'
    BY <1>2
    DEF BoundFirst, Known, Early, TasksTyped, StartWorkflow, Queued, Then, row
  <2>4. AskedFirst' /\ CancelReachesWorkflow'
    BY <1>2
    DEF AskedFirst, CancelReachesWorkflow, BoundFirst, GatewayTyped, Cmd, StartWorkflow,
        Then, Known
  <2> QED BY <2>1, <2>2, <2>3, <2>4 DEF TaskPart
<1>3. CASE BindReply(h)
  <2>1. TaskPart'
    BY <1>3 DEF TaskPart, TasksTyped, Listened, BindReply, taskVars
  <2>2. RowTyped' /\ GatewayTyped' /\ WorkflowTyped'
    BY <1>3, PlanActs
    DEF RowTyped, GatewayTyped, WorkflowTyped, Cmd, BindReply, Terminal, ActiveRow,
        workflow, Closings
  <2>3. BoundFirst'
    BY <1>3
    DEF BoundFirst, Known, Early, TasksTyped, BindReply, taskVars
  <2>4. AskedFirst' /\ CancelReachesWorkflow'
    BY <1>3
    DEF AskedFirst, CancelReachesWorkflow, BoundFirst, GatewayTyped, Cmd, BindReply,
        Known, workflow
  <2> QED BY <2>1, <2>2, <2>3, <2>4 DEF TaskPart
<1>4. CASE StartRefused(h)
  <2>1. TaskPart'
    <3>1. CASE task' = task
      BY <1>4, <3>1 DEF TaskPart, TasksTyped, Listened, StartRefused
    <3>2. CASE task' = Queued("initialize", 3)
      BY <1>4, <3>2, AwaitKeeps DEF TaskPart, StartRefused, Await, MaxAttempts, Acts
    <3> QED BY <1>4, <3>1, <3>2 DEF StartRefused
  <2>2. RowTyped' /\ GatewayTyped' /\ WorkflowTyped'
    BY <1>4, PlanActs
    DEF RowTyped, GatewayTyped, WorkflowTyped, Cmd, StartRefused, EndRow, MayEnd,
        Terminal, ActiveRow, Closings
  <2>3. BoundFirst'
    BY <1>4
    DEF BoundFirst, Known, Early, TasksTyped, StartRefused, Queued
  <2>4. AskedFirst' /\ CancelReachesWorkflow'
    BY <1>4
    DEF AskedFirst, CancelReachesWorkflow, BoundFirst, GatewayTyped, Cmd, StartRefused,
        Known
  <2> QED BY <2>1, <2>2, <2>3, <2>4 DEF TaskPart
<1>5. CASE CancelAuthorize(h)
  <2>1. TaskPart'
    BY <1>5 DEF TaskPart, TasksTyped, Listened, CancelAuthorize, taskVars
  <2>2. RowTyped' /\ GatewayTyped' /\ WorkflowTyped'
    BY <1>5, PlanActs
    DEF RowTyped, GatewayTyped, WorkflowTyped, Cmd, CancelAuthorize, Terminal,
        ActiveRow, row, workflow, Closings
  <2>3. BoundFirst'
    BY <1>5
    DEF BoundFirst, Known, Early, TasksTyped, CancelAuthorize, Queued, taskVars, row
  <2>4. AskedFirst' /\ CancelReachesWorkflow'
    BY <1>5
    DEF AskedFirst, CancelReachesWorkflow, BoundFirst, GatewayTyped, Cmd,
        CancelAuthorize, Known, workflow
  <2> QED BY <2>1, <2>2, <2>3, <2>4 DEF TaskPart
<1>6. CASE CancelAsk(h)
  <2>1. TaskPart'
    BY <1>6 DEF TaskPart, TasksTyped, Listened, CancelAsk, taskVars
  <2>2. RowTyped' /\ GatewayTyped' /\ WorkflowTyped'
    <3>1. RowTyped' /\ WorkflowTyped'
      BY <1>6, PlanActs
      DEF RowTyped, WorkflowTyped, CancelAsk, Terminal, ActiveRow, row
    <3>2. GatewayTyped'
      BY <1>6, ThenKeeps
      DEF GatewayTyped, RowTyped, WorkflowTyped, Cmd, CancelAsk, ActiveRow, Terminal
    <3> QED BY <3>1, <3>2
  <2>3. BoundFirst'
    BY <1>6
    DEF BoundFirst, Known, Early, TasksTyped, CancelAsk, Queued, Then, taskVars, row
  <2>4. AskedFirst' /\ CancelReachesWorkflow'
    BY <1>6
    DEF AskedFirst, CancelReachesWorkflow, BoundFirst, GatewayTyped, Cmd, CancelAsk,
        Then, Known
  <2> QED BY <2>1, <2>2, <2>3, <2>4 DEF TaskPart
<1>7. CASE CancelNotDelivered(h)
  <2>1. TaskPart'
    BY <1>7 DEF TaskPart, TasksTyped, Listened, CancelNotDelivered, taskVars
  <2>2. RowTyped' /\ GatewayTyped' /\ WorkflowTyped'
    BY <1>7, PlanActs
    DEF RowTyped, GatewayTyped, WorkflowTyped, Cmd, CancelNotDelivered, Terminal,
        ActiveRow, row, workflow, Closings
  <2>3. BoundFirst'
    BY <1>7
    DEF BoundFirst, Known, Early, TasksTyped, CancelNotDelivered, Queued, taskVars, row
  <2>4. AskedFirst' /\ CancelReachesWorkflow'
    BY <1>7
    DEF AskedFirst, CancelReachesWorkflow, BoundFirst, GatewayTyped, Cmd,
        CancelNotDelivered, Known, workflow
  <2> QED BY <2>1, <2>2, <2>3, <2>4 DEF TaskPart
<1>8. CASE CancelSelect(h)
  <2>1. TaskPart'
    BY <1>8 DEF TaskPart, TasksTyped, Listened, CancelSelect, taskVars
  <2>2. RowTyped' /\ GatewayTyped' /\ WorkflowTyped'
    <3>1. RowTyped' /\ WorkflowTyped'
      BY <1>8, PlanActs
      DEF RowTyped, WorkflowTyped, CancelSelect, Terminal, ActiveRow, row, workflow
    <3>2. GatewayTyped'
      BY <1>8, ThenKeeps
      DEF GatewayTyped, RowTyped, WorkflowTyped, Cmd, CancelSelect, ActiveRow, Terminal,
          workflow
    <3> QED BY <3>1, <3>2
  <2>3. BoundFirst'
    BY <1>8
    DEF BoundFirst, Known, Early, TasksTyped, CancelSelect, Queued, Then, taskVars, row
  <2>4. AskedFirst' /\ CancelReachesWorkflow'
    BY <1>8
    DEF AskedFirst, CancelReachesWorkflow, BoundFirst, GatewayTyped, Cmd, CancelSelect,
        Then, Known, workflow
  <2> QED BY <2>1, <2>2, <2>3, <2>4 DEF TaskPart
<1>9. CASE CancelUpdate(h)
  <2>1. TaskPart'
    BY <1>9 DEF TaskPart, TasksTyped, Listened, CancelUpdate, taskVars
  <2>2. RowTyped' /\ GatewayTyped' /\ WorkflowTyped'
    BY <1>9, PlanActs
    DEF RowTyped, GatewayTyped, WorkflowTyped, Cmd, CancelUpdate, CancelTarget,
        Terminal, ActiveRow, workflow, Closings
  <2>3. BoundFirst'
    BY <1>9
    DEF BoundFirst, Known, Early, TasksTyped, CancelUpdate, CancelTarget, Queued,
        taskVars
  <2>4. AskedFirst' /\ CancelReachesWorkflow'
    BY <1>9
    DEF AskedFirst, CancelReachesWorkflow, BoundFirst, GatewayTyped, Cmd, CancelUpdate,
        CancelTarget, Known, workflow
  <2> QED BY <2>1, <2>2, <2>3, <2>4 DEF TaskPart
<1>10. CASE CancelReply(h)
  <2>1. TaskPart'
    BY <1>10 DEF TaskPart, TasksTyped, Listened, CancelReply, taskVars
  <2>2. RowTyped' /\ GatewayTyped' /\ WorkflowTyped'
    <3>1. RowTyped' /\ WorkflowTyped'
      BY <1>10, PlanActs DEF RowTyped, WorkflowTyped, CancelReply, row, workflow
    <3>2. GatewayTyped'
      BY <1>10 DEF GatewayTyped, Cmd, CancelReply, Terminal, ActiveRow
    <3> QED BY <3>1, <3>2
  <2>3. BoundFirst'
    BY <1>10
    DEF BoundFirst, Known, Early, TasksTyped, CancelReply, Queued, taskVars, row
  <2>4. AskedFirst' /\ CancelReachesWorkflow'
    BY <1>10
    DEF AskedFirst, CancelReachesWorkflow, BoundFirst, GatewayTyped, Cmd, CancelReply,
        Known, workflow
  <2> QED BY <2>1, <2>2, <2>3, <2>4 DEF TaskPart
<1>11. CASE SignalPause(h)
  <2>1. TaskPart'
    BY <1>11 DEF TaskPart, TasksTyped, Listened, SignalPause, taskVars
  <2>2. RowTyped' /\ GatewayTyped' /\ WorkflowTyped'
    BY <1>11, PlanActs
    DEF RowTyped, GatewayTyped, WorkflowTyped, Cmd, SignalPause, Terminal, ActiveRow,
        row, gw, Closings
  <2>3. BoundFirst'
    BY <1>11
    DEF BoundFirst, Known, Early, TasksTyped, SignalPause, Queued, taskVars, row, gw
  <2>4. AskedFirst' /\ CancelReachesWorkflow'
    BY <1>11
    DEF AskedFirst, CancelReachesWorkflow, BoundFirst, GatewayTyped, Cmd, SignalPause,
        Known, gw
  <2> QED BY <2>1, <2>2, <2>3, <2>4 DEF TaskPart
<1>12. CASE StatusRead(h)
  <2>1. TaskPart'
    BY <1>12 DEF TaskPart, TasksTyped, Listened, StatusRead, taskVars
  <2>2. RowTyped' /\ GatewayTyped' /\ WorkflowTyped'
    BY <1>12, PlanActs
    DEF RowTyped, GatewayTyped, WorkflowTyped, Cmd, StatusRead, Terminal, ActiveRow,
        row, workflow, Closings
  <2>3. BoundFirst'
    BY <1>12
    DEF BoundFirst, Known, Early, TasksTyped, StatusRead, Queued, taskVars, row
  <2>4. AskedFirst' /\ CancelReachesWorkflow'
    BY <1>12
    DEF AskedFirst, CancelReachesWorkflow, BoundFirst, GatewayTyped, Cmd, StatusRead,
        Known, workflow
  <2> QED BY <2>1, <2>2, <2>3, <2>4 DEF TaskPart
<1>13. CASE StatusQuery(h)
  <2>1. TaskPart'
    BY <1>13 DEF TaskPart, TasksTyped, Listened, StatusQuery, taskVars
  <2>2. RowTyped' /\ GatewayTyped' /\ WorkflowTyped'
    BY <1>13, PlanActs
    DEF RowTyped, GatewayTyped, WorkflowTyped, Cmd, StatusQuery, Then, Terminal,
        ActiveRow, row, workflow, Closings
  <2>3. BoundFirst'
    BY <1>13
    DEF BoundFirst, Known, Early, TasksTyped, StatusQuery, Queued, Then, taskVars, row
  <2>4. AskedFirst' /\ CancelReachesWorkflow'
    BY <1>13
    DEF AskedFirst, CancelReachesWorkflow, BoundFirst, GatewayTyped, Cmd, StatusQuery,
        Then, Known, workflow
  <2> QED BY <2>1, <2>2, <2>3, <2>4 DEF TaskPart
<1>14. CASE StatusEnd(h)
  <2>1. TaskPart'
    BY <1>14 DEF TaskPart, TasksTyped, Listened, StatusEnd, taskVars
  <2>2. RowTyped' /\ GatewayTyped' /\ WorkflowTyped'
    <3>1. cmd[h].saw \in Terminal
      BY <1>14 DEF GatewayTyped, StatusEnd, CmdAt
    <3> QED
      BY <1>14, <3>1
      DEF RowTyped, GatewayTyped, WorkflowTyped, Cmd, StatusEnd, EndRow, ActiveRow,
          workflow, MayEnd, Terminal
  <2>3. BoundFirst'
    BY <1>14
    DEF BoundFirst, Known, Early, TasksTyped, StatusEnd, Queued, taskVars
  <2>4. AskedFirst' /\ CancelReachesWorkflow'
    BY <1>14
    DEF AskedFirst, CancelReachesWorkflow, BoundFirst, GatewayTyped, Cmd, StatusEnd,
        Known, workflow
  <2> QED BY <2>1, <2>2, <2>3, <2>4 DEF TaskPart
<1> QED
  BY <1>1, <1>2, <1>3, <1>4, <1>5, <1>6, <1>7, <1>8, <1>9, <1>10, <1>11, <1>12, <1>13, <1>14
  DEF CommandStep, Command

(* The steps of the gateway's recovery, and its crash.                        *)
LEMMA RecoveryKeeps ==
    ASSUME IInv, Recovery \/ GatewayCrash
    PROVE  IInv'
<1> USE DEF IInv, TypeOK
<1>1. UNCHANGED <<taskVars, bound, told, workflow>>
  BY DEF Recovery, GatewayCrash, GatewayStart, RecoverList, RecoverInspect,
         RecoverApply, row
<1>2. RowTyped'
  <2>1. CASE RecoverApply
    BY <2>1 DEF RowTyped, RecoverApply, OutcomeOf, EndRow, Terminal
  <2>2. CASE ~RecoverApply
    BY <2>2 DEF RowTyped, Recovery, GatewayCrash, GatewayStart, RecoverList,
                RecoverInspect, row
  <2> QED BY <2>1, <2>2
<1>3. GatewayTyped' /\ AskedFirst'
  <2>1. CASE GatewayCrash
    BY <2>1 DEF GatewayTyped, AskedFirst, GatewayCrash, NoCmd, Cmd, workflow
  <2>2. CASE Recovery
    BY <2>2 DEF GatewayTyped, WorkflowTyped, AskedFirst, Recovery, GatewayStart,
                RecoverList, RecoverInspect, RecoverApply, workflow
  <2> QED BY <2>1, <2>2
<1> QED
  BY <1>1, <1>2, <1>3
  DEF TasksTyped, Listened, WorkflowTyped, BoundFirst, Known, CancelReachesWorkflow,
      taskVars, workflow

(* The steps of an attempt.                                                   *)
LEMMA ActivityKeeps ==
    ASSUME IInv, NEW t \in Threads, Activity(t)
    PROVE  IInv'
<1> USE DEF IInv, TypeOK
<1>1. UNCHANGED <<gateway, seen, cmd, restarts, refusals, workflow>>
  BY DEF Activity, InitializeBind, InitializeBegin, Project, Research, EndJob, Deliver,
         Finish, Unmoved
<1>2. TaskPart'
  BY GoToKeeps, OverKeeps
  DEF TaskPart, Activity, InitializeBind, InitializeBegin, Project, Research, EndJob,
      Deliver, Finish
<1>3. RowTyped'
  <2>1. CASE EndJob(t)
    <3>1. EndingActs[thread[t].act] \in Terminal
      BY <2>1 DEF EndJob, EndingActs, Terminal
    <3> QED BY <2>1, <3>1 DEF RowTyped, EndJob, EndRow
  <2>2. CASE ~EndJob(t)
    BY <2>2
    DEF RowTyped, Activity, InitializeBind, InitializeBegin, Project, Research, Deliver,
        Finish, ActiveRow, row
  <2> QED BY <2>1, <2>2
<1>4. BoundFirst'
  <2> USE DEF BoundFirst, Known, Early, TaskPart, TasksTyped, At, GoTo
  <2>1. CASE InitializeBind(t)
    BY <2>1 DEF InitializeBind
  <2>2. CASE InitializeBegin(t)
    BY <2>2 DEF InitializeBegin
  <2>3. CASE Project(t)
    BY <2>3 DEF Project, row
  <2>4. CASE Research(t)
    BY <2>4 DEF Research, RaiseFinal, row, Idle
  <2>5. CASE EndJob(t)
    BY <2>5 DEF EndJob, EndingActs
  <2>6. CASE Deliver(t)
    BY <2>6 DEF Deliver, row
  <2>7. CASE Finish(t)
    BY <2>7 DEF Finish, Return, Listened, row, Idle
  <2> QED BY <2>1, <2>2, <2>3, <2>4, <2>5, <2>6, <2>7 DEF Activity
<1>5. CancelReachesWorkflow'
  BY <1>1
  DEF CancelReachesWorkflow, Activity, InitializeBind, InitializeBegin, Project,
      Research, EndJob, Deliver, Finish, workflow
<1> QED
  BY <1>1, <1>2, <1>3, <1>4, <1>5
  DEF TaskPart, GatewayTyped, WorkflowTyped, AskedFirst, workflow

(* The steps of the service's clock, of its queue and of the worker process.  *)
LEMMA ServiceKeeps ==
    ASSUME IInv, Delivery \/ Trouble
    PROVE  IInv'
<1> USE DEF IInv, TypeOK
<1>1. UNCHANGED <<row, gw, workflow>>
  BY DEF Delivery, Trouble
<1>2. TaskPart'
  BY PickKeeps, OverKeeps, TroubleKeeps DEF TaskPart, Delivery, Trouble
<1>3. BoundFirst'
  <2> USE <1>1 DEF BoundFirst, Known, Early, TaskPart, TasksTyped, row, gw
  <2>1. ASSUME NEW t \in Threads, Pick(t)
        PROVE  BoundFirst'
    <3> DEFINE n == [Idle EXCEPT !.act = task.act, !.at = "start"]
    <3>1. thread' = [thread EXCEPT ![t] = n] /\ task' = [task EXCEPT !.by = t]
      BY <2>1 DEF Pick
    <3>2. n.act = task.act /\ n.at = "start"
      BY DEF Idle
    <3>3. task'.act = task.act /\ task'.by # "done"
      BY <3>1, ThreadsAssumption DEF Task
    <3> HIDE DEF n
    <3> QED BY <3>1, <3>2, <3>3
  <2>2. ASSUME NEW t \in Threads, Fault(t)
        PROVE  BoundFirst'
    <3>1. thread' = [thread EXCEPT ![t] = Idle] /\ task'.act = task.act
      BY <2>2, GivenUpTyped, ThreadsAssumption DEF Fault
    <3>2. task'.by = "done" => task.by = "done"
      BY <2>2, GivenUpTyped, ThreadsAssumption DEF Fault
    <3> QED BY <3>1, <3>2 DEF Idle
  <2>3. CASE TimeOut
    BY <2>3, GivenUpTyped, ThreadsAssumption DEF TimeOut
  <2>4. CASE WorkerCrash
    BY <2>4 DEF WorkerCrash, Idle
  <2>5. CASE LossNoticed
    BY <2>5, GivenUpTyped DEF LossNoticed
  <2> QED BY <2>1, <2>2, <2>3, <2>4, <2>5 DEF Delivery, Trouble
<1> QED
  BY <1>1, <1>2, <1>3
  DEF TaskPart, RowTyped, GatewayTyped, WorkflowTyped, AskedFirst,
      CancelReachesWorkflow, row, gw, workflow

(* The steps of the workflow.                                                 *)
LEMMA WorkflowKeeps ==
    ASSUME IInv, Workflow \/ Forgotten
    PROVE  IInv'
<1> USE DEF IInv, TypeOK
<1>1. UNCHANGED <<thread, row, gw, paused>>
  BY DEF Workflow, Proceed, Complete, CancelDelivered, Failed, Ended, Forgotten, Rest
<1>2. CASE Proceed
  <2>1. step + 1 \in 1 .. Len(Plan) /\ Plan[step + 1] \in Acts
    BY <1>2, PlanActs, PlanStep DEF Proceed, WorkflowTyped
  <2>2. TaskPart'
    BY <1>1, <1>2, <2>1, AwaitKeeps DEF TaskPart, Proceed
  <2>3. WorkflowTyped'
    BY <1>1, <1>2, <2>1, PlanActs DEF WorkflowTyped, Proceed
  <2>4. BoundFirst'
    BY <1>1, <1>2, <2>1
    DEF BoundFirst, Known, Early, Listened, TasksTyped, Task, Acts, Proceed, Await,
        Queued, row, gw
  <2> QED
    BY <1>1, <1>2, <2>2, <2>3, <2>4
    DEF TaskPart, RowTyped, GatewayTyped, AskedFirst, CancelReachesWorkflow, Proceed,
        row, gw
<1>3. CASE Complete \/ CancelDelivered \/ Failed \/ Ended \/ Forgotten
  <2> USE DEF Complete, CancelDelivered, Failed, Ended, Forgotten, Close
  <2>1. TaskPart' /\ BoundFirst'
    <3>1. Await("cancel") \/ Await("fail") \/ task' = NoTask
      BY <1>3
    <3>2. TaskPart'
      BY <1>1, <3>1, AwaitKeeps DEF TaskPart, Acts
    <3>3. BoundFirst'
      BY <1>1, <3>1 DEF BoundFirst, Known, Early, Await, Queued, NoTask, row, gw
    <3> QED BY <3>2, <3>3
  <2>2. WorkflowTyped'
    BY <1>1, <1>3 DEF WorkflowTyped, Closings
  <2>3. asked' # "no" \/ asked' = asked
    BY <1>3
  <2> QED
    BY <1>1, <2>1, <2>2, <2>3
    DEF TaskPart, RowTyped, GatewayTyped, AskedFirst, CancelReachesWorkflow, row, gw
<1> QED BY <1>2, <1>3 DEF Workflow

LEMMA InitHolds == Init => IInv
<1> SUFFICES ASSUME Init
             PROVE  IInv
  OBVIOUS
<1> USE DEF Init
<1>1. TasksTyped /\ Listened
  BY ThreadsAssumption DEF TasksTyped, Listened, Task, Attempt, NoTask, Idle
<1>2. RowTyped /\ GatewayTyped
  BY DEF RowTyped, GatewayTyped, Cmd, NoCmd
<1>3. WorkflowTyped
  <2>1. step \in 0 .. Len(Plan)
    BY PlanActs
  <2> QED BY <2>1 DEF WorkflowTyped
<1>4. BoundFirst /\ AskedFirst /\ CancelReachesWorkflow
  BY DEF BoundFirst, Known, AskedFirst, CancelReachesWorkflow, NoCmd, NoTask, Idle,
         Early
<1> QED BY <1>1, <1>2, <1>3, <1>4 DEF IInv, TypeOK

LEMMA NextKeeps == IInv /\ [Next]_vars => IInv'
<1> SUFFICES ASSUME IInv, [Next]_vars
             PROVE  IInv'
  OBVIOUS
<1>1. CASE UNCHANGED vars
  BY <1>1
  DEF vars, taskVars, row, gw, workflow, IInv, TypeOK, TasksTyped, RowTyped,
      GatewayTyped, WorkflowTyped, Listened, BoundFirst, Known, AskedFirst,
      CancelReachesWorkflow
<1>2. CASE Next
  BY <1>2, CommandKeeps, RecoveryKeeps, ActivityKeeps, ServiceKeeps, WorkflowKeeps
  DEF Next
<1> QED BY <1>1, <1>2

LEMMA Invariance == Spec => []IInv
BY InitHolds, NextKeeps, PTL DEF Spec

-----------------------------------------------------------------------------
(* What the job's parties may hold at any time has its type: the row, the    *)
(* command each handler is in, what recover() has read, the workflow's state *)
(* and every attempt on a thread.                                            *)
THEOREM TypeCorrect == Spec => []TypeOK
<1>1. IInv => TypeOK
  BY DEF IInv
<1> QED BY <1>1, Invariance, PTL

(* No owner is told that a cancellation was taken of a workflow that was not *)
(* asked to stop, however many calls to Temporal fail, gateways crash and    *)
(* attempts are lost.                                                        *)
THEOREM CancellationsAsked == Spec => []CancelReachesWorkflow
<1>1. IInv => CancelReachesWorkflow
  BY DEF IInv
<1> QED BY <1>1, Invariance, PTL

(* The first outcome of the row stands against the activities, the attempts  *)
(* that were given up, /status and recover(); only the UPDATE of a /cancel   *)
(* that read the row before can replace it.                                  *)
THEOREM OutcomesStand == Spec => FirstOutcomeStands
<1> DEFINE Stands == (status \in Terminal /\ status' # status)
                         => \E h \in Handlers : CmdAt(h, "cancel", "update")
<1>1. [Next]_vars => [Stands]_vars
  <2> SUFFICES ASSUME Next, status \in Terminal, status' # status
               PROVE  \E h \in Handlers : CmdAt(h, "cancel", "update")
    BY DEF vars
  <2> USE DEF Terminal, EndRow, MayEnd, row
  <2>1. CASE \E h \in Handlers : CommandStep(h) \/ Command(h)
    BY <2>1
    DEF CommandStep, Command, CreateJob, StartWorkflow, BindReply, StartRefused,
        CancelAuthorize, CancelAsk, CancelNotDelivered, CancelSelect, CancelUpdate,
        CancelReply, SignalPause, StatusRead, StatusQuery, StatusEnd
  <2>2. CASE \E t \in Threads : Activity(t)
    BY <2>2
    DEF Activity, InitializeBind, InitializeBegin, Project, Research, EndJob, Deliver,
        Finish
  <2>3. CASE Recovery \/ GatewayCrash
    BY <2>3
    DEF Recovery, GatewayStart, RecoverList, RecoverInspect, RecoverApply, GatewayCrash
  <2>4. CASE Workflow \/ Forgotten
    BY <2>4 DEF Workflow, Proceed, Complete, CancelDelivered, Failed, Ended, Forgotten, Rest
  <2>5. CASE Delivery \/ Trouble
    BY <2>5 DEF Delivery, Trouble
  <2> QED BY <2>1, <2>2, <2>3, <2>4, <2>5 DEF Next
<1> QED BY <1>1, PTL DEF Spec, FirstOutcomeStands

(* A gateway that starts and reads that the workflow is closed, or unknown   *)
(* to the service, leaves a terminal row behind, whatever the worker writes  *)
(* in between.                                                               *)
THEOREM RecoveryEnds == Spec => RecoveryHeals
<1> DEFINE Heals == gateway = "apply" /\ seen \notin {"none", "running"} /\ gateway' = "up"
                        => status' \in Terminal
<1>1. IInv /\ [Next]_vars => [Heals]_vars
  <2> SUFFICES ASSUME IInv, Next, gateway = "apply", seen \notin {"none", "running"},
                      gateway' = "up"
               PROVE  status' \in Terminal
    BY DEF vars
  <2>1. RecoverApply
    <3>1. ~(\E h \in Handlers : CommandStep(h) \/ Command(h))
      BY DEF CommandStep, Command, CreateJob, StartWorkflow, BindReply, StartRefused,
             CancelAuthorize, CancelAsk, CancelNotDelivered, CancelSelect, CancelUpdate,
             CancelReply, SignalPause, StatusRead, StatusQuery, StatusEnd, gw
    <3>2. ~(\E t \in Threads : Activity(t))
      BY DEF Activity, InitializeBind, InitializeBegin, Project, Research, EndJob,
             Deliver, Finish, Unmoved
    <3>3. ~Workflow /\ ~Forgotten /\ ~Delivery /\ ~Trouble
      BY DEF Workflow, Proceed, Complete, CancelDelivered, Failed, Ended, Forgotten, Rest,
             Delivery, Trouble, gw
    <3> QED
      BY <3>1, <3>2, <3>3
      DEF Next, Recovery, GatewayStart, RecoverList, RecoverInspect, GatewayCrash
  <2>2. seen \in Closings
    BY DEF IInv, TypeOK, GatewayTyped
  <2> QED
    BY <2>1, <2>2 DEF RecoverApply, OutcomeOf, Closings, EndRow, MayEnd, Terminal
<1> QED BY <1>1, Invariance, PTL DEF Spec, RecoveryHeals
=============================================================================
