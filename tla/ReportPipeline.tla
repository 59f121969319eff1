--------------------------- MODULE ReportPipeline ---------------------------
(***************************************************************************)
(* The part of a research workflow that turns evidence into a report:       *)
(* synthesize claims, generate the draft, validate it, and on a validation  *)
(* error notify, reset and start over, until complete_job; then the calls   *)
(* that close the workflow: register the monitoring, deliver the artifacts, *)
(* project two stages (workflows.py run and _synthesize_report_until_valid, *)
(* the activities of temporal/activities.py and the claims and              *)
(* report_versions tables they write).                                      *)
(*                                                                         *)
(* What a claim says is abstract; a report is the set of claims it cites.   *)
(* The analysis and artifact activities in between read these tables and    *)
(* are left out, as are pause, cancellation and the projections of the job  *)
(* row (module TemporalResearch).  The workflow has run the activities of   *)
(* ResearchSources before; the two modules can be extended together.        *)
(***************************************************************************)
EXTENDS ActivityTasks

CONSTANTS Claims,      \* the factual claims a model may find in the evidence
          AutoRetry,   \* ResearchWorkflowInput.auto_retry_validation
          MaxRounds    \* MAX_VALIDATION_ATTEMPTS

ASSUME RoundsAssumption == MaxRounds \in Nat \ {0} /\ AutoRetry \in BOOLEAN

VARIABLES claims,     \* the claims table of the job
          row,        \* its row in report_versions: "none", "draft", "published"
          file,       \* report_v1.md, the claims the text cites
          completed,  \* status = 'completed'
          round,      \* validation_attempt
          lastError   \* last_error_summary: the activity whose error it quotes

reportVars == <<taskVars, claims, row, file, completed, round, lastError>>
reportTables == <<claims, row, file, completed>>

-----------------------------------------------------------------------------
(* synthesize_claims: nothing to do if there are claims; otherwise the model *)
(* is asked and add_claim stores each claim in a transaction of its own.     *)
Synthesize(t) ==
    /\ At(t, "synthesize", "start")
    /\ IF claims # {} THEN Return(t)
       ELSE \E found \in SUBSET Claims \ {{}} : GoTo(t, "add", found)
    /\ UNCHANGED <<reportTables, round, lastError>>

AddClaim(t) ==
    /\ At(t, "synthesize", "add")
    /\ \E c \in thread[t].read :
         /\ claims' = claims \union {c}
         /\ GoTo(t, IF thread[t].read = {c} THEN "over" ELSE "add", thread[t].read \ {c})
    /\ UNCHANGED <<row, file, completed, round, lastError>>

(* generate_report: an existing version is kept; otherwise the text is made  *)
(* from the claims read now, written to the file of version 1 and inserted   *)
(* as a draft.                                                               *)
Generate(t) ==
    /\ At(t, "generate", "start")
    /\ IF row # "none" THEN Return(t) ELSE GoTo(t, "write", claims)
    /\ UNCHANGED <<reportTables, round, lastError>>

WriteReport(t) ==
    /\ At(t, "generate", "write")
    /\ file' = thread[t].read
    /\ GoTo(t, "insert", {})
    /\ UNCHANGED <<claims, row, completed, round, lastError>>

(* UNIQUE(job_id, version): a second row of version 1 raises. *)
InsertReport(t) ==
    /\ At(t, "generate", "insert")
    /\ IF row = "none" THEN row' = "draft" /\ GoTo(t, "over", {})
       ELSE UNCHANGED row /\ Raise(t)
    /\ UNCHANGED <<claims, file, completed, round, lastError>>

(* The validator wants every claim cited in the text; it may object to other *)
(* things as well.                                                           *)
Valid(text, stored) == stored \subseteq text

(* validate_report: the row and the file, then the claims, then the verdict. *)
Validate(t) ==
    /\ At(t, "validate", "start")
    /\ IF row = "none" THEN Raise(t) ELSE GoTo(t, "judge", file)
    /\ UNCHANGED <<reportTables, round, lastError>>

Judge(t) ==
    /\ At(t, "validate", "judge")
    /\ \/ Valid(thread[t].read, claims) /\ GoTo(t, "publish", {})
       \/ GoTo(t, "refuse", {})
    /\ UNCHANGED <<reportTables, round, lastError>>

(* publish_report_version. *)
Publish(t) ==
    /\ At(t, "validate", "publish")
    /\ IF row = "none" THEN UNCHANGED row /\ Raise(t)
       ELSE row' = "published" /\ GoTo(t, "over", {})
    /\ UNCHANGED <<claims, file, completed, round, lastError>>

(* mark_report_validation_failed, then ReportValidationError. *)
Refuse(t) ==
    /\ At(t, "validate", "refuse")
    /\ row' = IF row = "none" THEN "none" ELSE "draft"
    /\ GoTo(t, "invalid", {})
    /\ UNCHANGED <<claims, file, completed, round, lastError>>

RaiseInvalid(t) ==
    /\ At(t, "validate", "invalid")
    /\ RaiseFinal(t)
    /\ UNCHANGED <<reportTables, round, lastError>>

(* notify_validation_failed swallows the errors of the messenger. *)
NotifyRefused(t) ==
    /\ At(t, "notify", "start")
    /\ Return(t)
    /\ UNCHANGED <<reportTables, round, lastError>>

(* clear_claims_and_reports: one transaction; the file stays. *)
Reset(t) ==
    /\ At(t, "reset", "start")
    /\ claims' = {} /\ row' = "none"
    /\ GoTo(t, "over", {})
    /\ UNCHANGED <<file, completed, round, lastError>>

(* Mutant of Complete: a job that is already completed is refused. *)
CompleteOnce(t) ==
    /\ At(t, "complete", "start")
    /\ IF row = "published" /\ ~completed THEN completed' = TRUE /\ GoTo(t, "over", {})
       ELSE UNCHANGED completed /\ Raise(t)
    /\ UNCHANGED <<claims, row, file, round, lastError>>

(* complete_job reads the latest published version, and without one fails. *)
Complete(t) ==
    /\ At(t, "complete", "start")
    /\ IF row = "published" THEN completed' = TRUE /\ GoTo(t, "over", {})
       ELSE UNCHANGED completed /\ Raise(t)
    /\ UNCHANGED <<claims, row, file, round, lastError>>

(* The activities after complete_job write nothing of the tables above: the  *)
(* registration of the monitoring (module MonitorSchedule) and the delivery  *)
(* (module ReportDelivery) keep their own, and project_workflow_status       *)
(* leaves an ended row.                                                      *)
Closing == {"register", "announce", "deliver", "finish"}

CloseStep(t) ==
    /\ \E a \in Closing : At(t, a, "start")
    /\ Return(t)
    /\ UNCHANGED <<reportTables, round, lastError>>

(* The delivery raises when a message or a file was not taken. *)
DeliveryRefused(t) ==
    /\ At(t, "deliver", "start")
    /\ Raise(t)
    /\ UNCHANGED <<reportTables, round, lastError>>

(* mark_job_failed leaves a job that has completed as it is. *)
MarkFailed(t) ==
    /\ At(t, "fail", "start")
    /\ Return(t)
    /\ UNCHANGED <<reportTables, round, lastError>>

(* The result of an attempt whose writes are committed reaches the service. *)
Conclude(t) ==
    /\ thread[t].at = "over"
    /\ Return(t)
    /\ UNCHANGED <<reportTables, round, lastError>>

-----------------------------------------------------------------------------
(* The workflow, once the awaited activity is over. *)

(* Mutant of AttemptsOf: a validation is retried like the other activities. *)
AttemptsAlike(a) == 2

(* maximum_attempts of each activity's retry policy. *)
AttemptsOf(a) ==
    CASE a \in {"synthesize", "generate"}         -> 2
      [] a \in {"validate", "register", "fail"}  -> 1
      [] a \in {"notify", "reset", "complete", "announce", "deliver", "finish"} -> 3

Await(a) == task' = Queued(a, AttemptsOf(a))

(* Mutant of MayRetry: the rounds are not counted. *)
MayRetryForever == AutoRetry

MayRetry == AutoRetry /\ round < MaxRounds

Successor(a) ==
    CASE a = "synthesize" -> "generate"
      [] a = "generate"   -> "validate"
      [] a = "validate"   -> "complete"
      [] a = "notify"     -> IF MayRetry THEN "reset" ELSE "fail"
      [] a = "reset"      -> "synthesize"
      [] a = "complete"   -> "register"
      [] a = "register"   -> "announce"
      [] a = "announce"   -> "deliver"
      [] a = "deliver"    -> "finish"

Closed(result) == [act |-> "closed", left |-> 0, by |-> result]

Proceed ==
    /\ task.by = "done" /\ task.act # "closed"
    /\ CASE task.act = "finish" -> task' = Closed("done")
         [] task.act = "fail"   -> task' = Closed("failed")
         [] OTHER                 -> Await(Successor(task.act))
    /\ round' = IF task.act = "reset" /\ round <= MaxRounds THEN round + 1 ELSE round
    /\ UNCHANGED <<thread, timeouts, losses, reportTables, lastError>>

(* A ReportValidationError is handled, any other failure ends the workflow   *)
(* through mark_job_failed, itself an attempt that may be lost.              *)
ValidationFailed ==
    /\ task.by = "rejected"
    /\ Await("notify")
    /\ lastError' = "validate"
    /\ UNCHANGED <<thread, timeouts, losses, reportTables, round>>

ActivityFailed ==
    /\ task.by = "failed" /\ task.act # "closed"
    /\ IF task.act = "fail" THEN task' = Closed("failed") /\ UNCHANGED lastError
       ELSE Await("fail") /\ lastError' = task.act
    /\ UNCHANGED <<thread, timeouts, losses, reportTables, round>>

-----------------------------------------------------------------------------
ReportInit ==
    /\ task = Queued("synthesize", AttemptsOf("synthesize"))
    /\ thread = [t \in Threads |-> Idle]
    /\ timeouts = 0 /\ losses = 0
    /\ claims = {} /\ row = "none" /\ file = {} /\ completed = FALSE
    /\ round = 1 /\ lastError = "none"

(* What a thread does on its own once it has an attempt. *)
Body(t) ==
    \/ Synthesize(t) \/ AddClaim(t)
    \/ Generate(t) \/ WriteReport(t) \/ InsertReport(t)
    \/ Validate(t) \/ Judge(t) \/ Publish(t) \/ Refuse(t) \/ RaiseInvalid(t)
    \/ NotifyRefused(t) \/ Reset(t) \/ Complete(t) \/ CloseStep(t) \/ DeliveryRefused(t)
    \/ MarkFailed(t) \/ Conclude(t)

Workflow == Proceed \/ ValidationFailed \/ ActivityFailed

ReportService ==
    /\ TimeOut \/ WorkerCrash \/ \E t \in Threads : Fault(t)
    /\ UNCHANGED <<reportTables, round, lastError>>

ReportDispatch ==
    /\ LossNoticed \/ \E t \in Threads : Pick(t)
    /\ UNCHANGED <<reportTables, round, lastError>>

ReportNext == Workflow \/ ReportDispatch \/ ReportService \/ \E t \in Threads : Body(t)

ReportSpec == ReportInit /\ [][ReportNext]_reportVars

(* The service delivers, the workflow reacts and threads run; timeouts and   *)
(* failures need not come.                                                   *)
FairSpec ==
    /\ ReportSpec
    /\ WF_reportVars(Workflow) /\ WF_reportVars(ReportDispatch)
    /\ \A t \in Threads : WF_reportVars(Body(t))

-----------------------------------------------------------------------------
(* Properties. *)

(* A published version is never withdrawn or deleted by the workflow that    *)
(* published it, whatever attempts are lost and repeated, as long as none of *)
(* them runs on after its timeout.                                           *)
PublishedStays ==
    [][row = "published" /\ timeouts = 0 => row' = "published"]_reportVars

(* A workflow that fails and leaves a completed job behind (workflows.py     *)
(* 71-110) failed in one of the calls that follow complete_job, and quotes   *)
(* the error of that call; or each of the three attempts of complete_job was *)
(* lost after its commit; or an attempt ran on after its timeout.  No error  *)
(* of the making of the report, and no retry of complete_job, ends so.       *)
OutcomesAgree ==
    completed /\ (task.act = "fail" \/ task = Closed("failed"))
        => \/ lastError \in Closing
           \/ lastError = "complete" /\ losses > 2
           \/ timeouts > 0

(* Every workflow comes to an end, however often validation fails. *)
EndsEventually == <>(task.act = "closed")
=============================================================================
