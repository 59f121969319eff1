---------------------------- MODULE ReportDelivery ----------------------------
(***************************************************************************)
(* What ResearchWorkflow does with the profiled tables and the report: the  *)
(* analysis by tools and, next to it, by skills; the files made of the      *)
(* results, some next to each other; the end of the job; and the message    *)
(* and files sent to the chat.  Between the analysis and the files the      *)
(* report is generated and validated (module ReportPipeline).               *)
(*                                                                         *)
(* A result stands for the analysis of one tool or skill, the content of a  *)
(* file for the results it shows.  Everything else the files are made of is *)
(* fixed when the report is published.  Every transaction and every file    *)
(* written is a step, between which an attempt may fail, die or be given    *)
(* up.  Left out: workflows begun before the activities were split, and the *)
(* project_workflow_status before every activity but the last two, which    *)
(* fails the workflow as the activity after it may.                         *)
(***************************************************************************)
EXTENDS ParallelActivities, FiniteSets

CONSTANTS Plans,          \* the plans select_analysis_skills may make
          Options         \* the research options: which deliverables are wanted

ASSUME PlanAssumption == \A p \in Plans : DOMAIN p = {"tools", "skills"}
ASSUME OptionsAssumption == Options \subseteq (SUBSET {"pdf", "xlsx", "json"}) \ {{}}

Kinds == {"json", "charts", "latex", "pdf", "xlsx"}
Items == {"text", "markdown", "pdf", "xlsx"}

(* register_monitoring_schedule, and project_workflow_status on either side   *)
(* of the delivery: none writes a table of this module.                       *)
Closing == {"register", "announce", "finish"}

ASSUME AttemptsAssumption ==
    \A a \in Kinds \union Closing
             \union {"select", "tools", "skills", "validate", "complete", "deliver", "fail"} :
        Attempts[a] \in Nat \ {0}

VARIABLES plan,      \* AnalysisPlan, handed to both analysis activities
          result,    \* analysis_results: the tasks with a row
          runs,      \* analysis_runs: status of the run of either activity
          file,      \* the files, each by what it was made of
          stamp,     \* report.pdf.input.sha256
          row,       \* report_artifacts: status and content_hash by type
          delivery,  \* notification_deliveries and artifact_deliveries
          told,      \* jobs.notification_status
          job,       \* jobs.status
          deliverables,
          sent,      \* history: how often the chat got each item
          doubled,   \* history: items sent although the request failed
          cut        \* history: items whose maker was given up, or sender cut short

analysis == <<plan, result, runs>>
files == <<file, stamp, row>>
messages == <<delivery, told, sent, doubled, cut>>
jobRow == <<job, deliverables>>
vars == <<taskVars, analysis, files, messages, jobRow>>

NoFile == <<None, None>>
NoRow == [status |-> "none", made |-> NoFile]

-----------------------------------------------------------------------------
(* select_analysis_skills, execute_analysis_tools, generate_business_analysis. *)
PlanMade(t) ==
    /\ At(t, "select", "start")
    /\ IF Heard(t) THEN plan' \in Plans ELSE UNCHANGED plan
    /\ Return(t)
    /\ UNCHANGED <<result, runs, files, messages, jobRow>>

Selected(act) == plan[act]
Results == plan["tools"] \union plan["skills"]
Analyzing(t, p) == thread[t].act \in {"tools", "skills"} /\ thread[t].at = p

(* start_analysis_run; a completed run is not started again. *)
RunStarted(t) ==
    /\ Analyzing(t, "start")
    /\ runs' = [runs EXCEPT ![thread[t].act] = IF @ = "completed" THEN @ ELSE "running"]
    /\ GoTo(t, "plan")
    /\ UNCHANGED <<plan, result, files, messages, jobRow>>

(* The results there are already are not computed again. *)
CacheRead(t) ==
    /\ Analyzing(t, "plan")
    /\ Set(t, [thread[t] EXCEPT !.at = "task", !.todo = Selected(thread[t].act) \ result])
    /\ UNCHANGED <<analysis, files, messages, jobRow>>

(* The tasks run next to each other; a result is saved as it comes. *)
ResultSaved(t) ==
    /\ Analyzing(t, "task")
    /\ \E k \in thread[t].todo :
         /\ result' = result \union {k}
         /\ Set(t, [thread[t] EXCEPT !.todo = @ \ {k}])
    /\ UNCHANGED <<plan, runs, files, messages, jobRow>>

TaskRaised(t) ==
    /\ Analyzing(t, "task") /\ thread[t].todo # {} /\ Trouble
    /\ thread' = [thread EXCEPT ![t].at = "raised"]
    /\ UNCHANGED <<task, analysis, files, messages, jobRow>>

RunFailed(t) ==
    /\ Analyzing(t, "raised")
    /\ runs' = [runs EXCEPT ![thread[t].act] = IF @ = "completed" THEN @ ELSE "failed"]
    /\ Raise(t)
    /\ UNCHANGED <<plan, result, files, messages, jobRow>>

RunCompleted(t) ==
    /\ Analyzing(t, "task") /\ thread[t].todo = {}
    /\ runs' = [runs EXCEPT ![thread[t].act] = "completed"]
    /\ Return(t)
    /\ UNCHANGED <<plan, result, files, messages, jobRow>>

-----------------------------------------------------------------------------
(* The artifact activities.  Each builds its own ReportIR from the tables.    *)
Rendering(t, p) == thread[t].act \in Kinds /\ thread[t].at = p

Skipped(kind) == kind \in {"latex", "pdf", "xlsx"}
                 /\ (IF kind = "latex" THEN "pdf" ELSE kind) \notin deliverables

ContextRead(t) ==
    /\ Rendering(t, "start")
    /\ IF Skipped(thread[t].act) THEN Return(t)
       ELSE Set(t, [thread[t] EXCEPT !.at = "write", !.made = <<result, None>>])
    /\ UNCHANGED <<analysis, files, messages, jobRow>>

Written(kind, made) == file' = [file EXCEPT ![kind] = made]

(* The kind is rendered anew, or kept as it is. *)
Render(t, kind, made) ==
    /\ At(t, kind, "write")
    /\ Written(kind, made)
    /\ Set(t, [thread[t] EXCEPT !.at = "row", !.made = made])
    /\ UNCHANGED <<stamp, row, analysis, messages, jobRow>>

JsonWritten(t) == Render(t, "json", thread[t].made)
ChartsRendered(t) == Render(t, "charts", thread[t].made)
LatexRendered(t) == Render(t, "latex", thread[t].made)

(* The workbook that is there is kept if it has the numbers of all results.   *)
Sufficient(t) == file["xlsx"] # NoFile /\ thread[t].made[1] \subseteq file["xlsx"][1]

WorkbookRendered(t) ==
    Render(t, "xlsx", IF Sufficient(t) THEN file["xlsx"] ELSE thread[t].made)

(* compile_pdf: the PDF that is there is kept if it has the same input,       *)
(* charts included.                                                           *)
PdfBegin(t) ==
    /\ Rendering(t, "write") /\ thread[t].act = "pdf"
    /\ LET input == <<thread[t].made[1], file["charts"][1]>>
       IN  Set(t, [thread[t] EXCEPT !.made = input,
                     !.at = IF file["pdf"] # NoFile /\ stamp = input THEN "row" ELSE "compile"])
    /\ UNCHANGED <<analysis, files, messages, jobRow>>

(* PDFCompiler.compile does not raise what goes wrong, it says so.            *)
PdfCompiled(t) ==
    /\ Rendering(t, "compile")
    /\ \/ Written("pdf", thread[t].made) /\ GoTo(t, "stamp")
       \/ GoTo(t, "unavailable") /\ UNCHANGED file
    /\ UNCHANGED <<stamp, row, analysis, messages, jobRow>>

PdfStamped(t) ==
    /\ Rendering(t, "stamp")
    /\ stamp' = thread[t].made
    /\ GoTo(t, "row")
    /\ UNCHANGED <<file, row, analysis, messages, jobRow>>

(* add_report_artifact. *)
RowSaved(t) ==
    /\ Rendering(t, "row") \/ Rendering(t, "unavailable")
    /\ row' = [row EXCEPT ![thread[t].act] =
                 IF thread[t].at = "row" THEN [status |-> "ready", made |-> thread[t].made]
                 ELSE [status |-> "failed", made |-> NoFile]]
    /\ Return(t)
    /\ UNCHANGED <<file, stamp, analysis, messages, jobRow>>

(* validate_artifacts; the manifest it writes is read by no other step. *)
Missing == {kind \in {"json", "xlsx"} \intersect (deliverables \union {"json"}) :
              row[kind].status # "ready"}
           \union {kind \in {"pdf"} \intersect deliverables : row[kind].status = "none"}

Validated(t) ==
    /\ At(t, "validate", "start")
    /\ IF Missing = {} THEN Return(t) ELSE Raise(t)
    /\ UNCHANGED <<analysis, files, messages, jobRow>>

(* complete_job and fail_job leave a job that the other one has ended. *)
Completed(t) ==
    /\ At(t, "complete", "start")
    /\ job' = IF job = "failed" THEN "failed" ELSE "completed"
    /\ Return(t)
    /\ UNCHANGED <<deliverables, analysis, files, messages>>

MarkFailed(t) ==
    /\ At(t, "fail", "start")
    /\ job' = IF job = "completed" THEN "completed" ELSE "failed"
    /\ Return(t)
    /\ UNCHANGED <<deliverables, analysis, files, messages>>

CloseStep(t) ==
    /\ \E a \in Closing : At(t, a, "start")
    /\ Return(t)
    /\ UNCHANGED <<analysis, files, messages, jobRow>>

-----------------------------------------------------------------------------
(* deliver_artifacts is notify_completion: the text, then the files.          *)
Delivering(t, p) == At(t, "deliver", p) /\ thread[t].todo # {}
Item(t) == CHOOSE i \in thread[t].todo : TRUE

DeliverBegin(t) ==
    /\ At(t, "deliver", "start")
    /\ Set(t, [thread[t] EXCEPT !.at = "item", !.todo = {"text"}])
    /\ UNCHANGED <<analysis, files, messages, jobRow>>

(* The PDF and the workbook of the version, or else the Markdown report. *)
ReadyFiles == {kind \in {"pdf", "xlsx"} : row[kind].status = "ready"}

FilesListed(t) ==
    /\ At(t, "deliver", "listing")
    /\ Set(t, [thread[t] EXCEPT !.at = "item",
                 !.todo = IF ReadyFiles = {} THEN {"markdown"} ELSE ReadyFiles])
    /\ UNCHANGED <<analysis, files, messages, jobRow>>

ItemDone(t) == IF Item(t) = "text" THEN [thread[t] EXCEPT !.at = "listing", !.todo = {}]
            ELSE [thread[t] EXCEPT !.at = "item", !.todo = @ \ {Item(t)}]

(* Mutant of MayStart: a delivery that is under way is taken over. *)
MayStartAgain(i) == delivery[i] # "sent"

(* try_start_notification_delivery, try_start_artifact_delivery.              *)
MayStart(i) == delivery[i] \in {"none", "failed"}

DeliveryStarted(t) ==
    /\ Delivering(t, "item")
    /\ IF MayStart(Item(t))
       THEN /\ delivery' = [delivery EXCEPT ![Item(t)] = "sending"]
            /\ GoTo(t, "send")
       ELSE Set(t, ItemDone(t)) /\ UNCHANGED delivery
    /\ UNCHANGED <<told, sent, doubled, cut, analysis, files, jobRow>>

(* A file that is gone or too large is not sent, now or later. *)
Rejected(t) ==
    /\ Delivering(t, "send") /\ Item(t) \in {"pdf", "xlsx"}
    /\ delivery' = [delivery EXCEPT ![Item(t)] = "rejected"]
    /\ Set(t, ItemDone(t))
    /\ UNCHANGED <<told, sent, doubled, cut, analysis, files, jobRow>>

Sent(t) ==
    /\ Delivering(t, "send")
    /\ sent' = [sent EXCEPT ![Item(t)] = @ + 1]
    /\ GoTo(t, "sent")
    /\ UNCHANGED <<delivery, told, doubled, cut, analysis, files, jobRow>>

(* The request fails, and the chat has the item, or a part of it, or not: the *)
(* messenger tries again (FeishuMessenger._execute) or raises.                *)
SendRaised(t) ==
    /\ Delivering(t, "send") /\ Trouble
    /\ \/ UNCHANGED <<sent, doubled>>
       \/ sent' = [sent EXCEPT ![Item(t)] = @ + 1] /\ doubled' = doubled \union {Item(t)}
    /\ \E p \in {"send", "unsent"} : thread' = [thread EXCEPT ![t].at = p]
    /\ UNCHANGED <<task, delivery, told, cut, analysis, files, jobRow>>

MarkedSent(t) ==
    /\ Delivering(t, "sent")
    /\ delivery' = [delivery EXCEPT ![Item(t)] = "sent"]
    /\ Set(t, ItemDone(t))
    /\ UNCHANGED <<told, sent, doubled, cut, analysis, files, jobRow>>

MarkedFailed(t) ==
    /\ Delivering(t, "unsent")
    /\ delivery' = [delivery EXCEPT ![Item(t)] = "failed"]
    /\ GoTo(t, "except")
    /\ UNCHANGED <<told, sent, doubled, cut, analysis, files, jobRow>>

(* Mutant of GaveUp: what could not be told counts as told. *)
GaveUpTold(t) ==
    /\ At(t, "deliver", "except")
    /\ IF thread[t].nth < Attempts["deliver"] THEN Raise(t) /\ UNCHANGED told
       ELSE told' = "sent" /\ Return(t)
    /\ UNCHANGED <<delivery, sent, doubled, cut, analysis, files, jobRow>>

(* All attempts but the last raise, the last records that it could not tell.  *)
(* (The activity knows the last by its number, 3, as the workflow does.)      *)
GaveUp(t) ==
    /\ At(t, "deliver", "except")
    /\ IF thread[t].nth < Attempts["deliver"] THEN Raise(t) /\ UNCHANGED told
       ELSE told' = "failed" /\ Return(t)
    /\ UNCHANGED <<delivery, sent, doubled, cut, analysis, files, jobRow>>

Told(t) ==
    /\ At(t, "deliver", "item") /\ thread[t].todo = {}
    /\ told' = "sent"
    /\ Return(t)
    /\ UNCHANGED <<delivery, sent, doubled, cut, analysis, files, jobRow>>

-----------------------------------------------------------------------------
(* The order of the workflow. *)
Follows(acts) ==
    CASE acts = {"select"} -> {"tools", "skills"}
      [] acts = {"tools", "skills"} -> {"json"}
      [] acts = {"json"} -> {"charts", "latex"}
      [] acts = {"charts", "latex"} -> {"pdf", "xlsx"}
      [] acts = {"pdf", "xlsx"} -> {"validate"}
      [] acts = {"validate"} -> {"complete"}
      [] acts = {"complete"} -> {"register"}
      [] acts = {"register"} -> {"announce"}
      [] acts = {"announce"} -> {"deliver"}
      [] acts = {"deliver"} -> {"finish"}
      [] OTHER -> {}

(* Mutant of Gathered: the first that is done counts for all. *)
GatheredFirst == Awaited("done") # {}

(* asyncio.gather. *)
Gathered == Awaited("done") = DOMAIN task

Advance ==
    /\ Gathered /\ Follows(DOMAIN task) # {}
    /\ task' = Queued(Follows(DOMAIN task))
    /\ UNCHANGED <<thread, troubles, analysis, files, messages, jobRow>>

(* Mutant of WorkflowFailed: a failure waits for the other branch to fail. *)
WorkflowFailedLate ==
    /\ Awaited("failed") = DOMAIN task /\ DOMAIN task # {"fail"}
    /\ task' = Queued({"fail"})
    /\ UNCHANGED <<thread, troubles, analysis, files, messages, jobRow>>

(* The workflow awaits mark_job_failed before it raises, and nothing after    *)
(* that, be it done or failed.                                                *)
WorkflowFailed ==
    /\ Awaited("failed") # {} /\ DOMAIN task # {"fail"}
    /\ task' = Queued({"fail"})
    /\ UNCHANGED <<thread, troubles, analysis, files, messages, jobRow>>

Init ==
    /\ deliverables \in Options
    /\ task = Queued({"select"}) /\ plan = [tools |-> {}, skills |-> {}]
    /\ thread = [t \in Threads |-> Idle] /\ troubles = 0
    /\ result = {} /\ runs = [a \in {"tools", "skills"} |-> "none"]
    /\ file = [k \in Kinds |-> NoFile] /\ stamp = NoFile
    /\ row = [k \in Kinds |-> NoRow]
    /\ delivery = [i \in Items |-> "none"] /\ told = "none" /\ job = "running"
    /\ sent = [i \in Items |-> 0] /\ doubled = {} /\ cut = {}

Activity(t) ==
    \/ PlanMade(t) \/ RunStarted(t) \/ CacheRead(t) \/ ResultSaved(t) \/ TaskRaised(t) \/ RunFailed(t) \/ RunCompleted(t)
    \/ ContextRead(t) \/ JsonWritten(t) \/ ChartsRendered(t) \/ LatexRendered(t)
    \/ WorkbookRendered(t) \/ PdfBegin(t) \/ PdfCompiled(t) \/ PdfStamped(t) \/ RowSaved(t)
    \/ Validated(t) \/ Completed(t) \/ CloseStep(t) \/ MarkFailed(t)
    \/ DeliverBegin(t) \/ FilesListed(t) \/ DeliveryStarted(t) \/ Rejected(t) \/ Sent(t)
    \/ SendRaised(t) \/ MarkedSent(t) \/ MarkedFailed(t) \/ GaveUp(t) \/ Told(t)

(* A worker thread is given a task. *)
Dispatch == /\ \E t \in Threads : Pick(t)
            /\ UNCHANGED <<analysis, files, messages, jobRow>>

(* The item t is sending, or has sent and not marked. *)
Underway(t) == IF thread[t].act = "deliver" /\ thread[t].at \in {"send", "sent", "unsent"}
               THEN {Item(t)} ELSE {}

Service ==
    /\ \E t \in Threads :
         \/ Die(t) /\ cut' = cut \union Underway(t)
         \/ TimeOut(t) /\ cut' = IF thread[t].act = "deliver" THEN Items
                                   ELSE cut \union ({thread[t].act} \intersect Items)
    /\ UNCHANGED <<analysis, files, delivery, told, sent, doubled, jobRow>>

Next == Advance \/ WorkflowFailed \/ Dispatch \/ Service \/ \E t \in Threads : Activity(t)

Spec == Init /\ [][Next]_vars

FairSpec == /\ Spec
            /\ WF_vars(Advance) /\ WF_vars(WorkflowFailed) /\ WF_vars(Dispatch)
            /\ \A t \in Threads : WF_vars(Activity(t))

-----------------------------------------------------------------------------

(* The files of a completed job show one and the same analysis, with all the  *)
(* results of both branches, and the PDF its charts.                          *)
OneAnalysis ==
    job = "completed" =>
      \A k \in Kinds : row[k].status = "ready" =>
        /\ row[k].made = file[k] /\ file[k][1] = Results
        /\ k = "pdf" => file[k][2] = Results

(* What the chat gets it gets once: no attempt repeats what another one has   *)
(* sent, is sending, or has had refused, be it given up and still running.    *)
(* (Unless a request failed after it had sent.)                               *)
SentOnce == \A i \in Items \ doubled : sent[i] <= 1

(* A job that counts as notified was: the chat has the text, and every ready  *)
(* file that could be sent, or else a file.  (An attempt cut short in sending  *)
(* leaves a delivery nobody takes up again; a compilation given up may have   *)
(* its PDF ready after the delivery.)                                         *)
DoneWith(i) == sent[i] > 0 \/ delivery[i] = "rejected" \/ i \in cut

ToldTheTruth ==
    told = "sent" =>
      /\ \A i \in {"text"} \union ReadyFiles : DoneWith(i)
      /\ \E i \in Items \ {"text"} : DoneWith(i)

(* However the attempts go, the job ends: the chat was told, it could not be  *)
(* told, or the job has failed.  (But a workflow that fails behind a job that  *)
(* has completed leaves it completed and untold, and one whose only attempt   *)
(* at mark_job_failed is lost leaves it as it was.)                           *)
Settled ==
    <>(\/ told # "none" \/ job = "failed"
       \/ DOMAIN task = {"fail"} /\ (job = "completed" \/ Awaited("failed") # {}))
=============================================================================
