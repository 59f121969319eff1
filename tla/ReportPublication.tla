-------------------------- MODULE ReportPublication --------------------------
(***************************************************************************)
(* How a finished report is updated: the monitoring cycle, run by the       *)
(* Temporal worker, turns change events into a patch of the current report  *)
(* and publishes it itself (auto_patch), records the events only            *)
(* (evidence_only) or leaves the patch for the owner (review_required), who *)
(* answers /update approve or /update reject in the gateway process.        *)
(*                                                                         *)
(* The two processes share the SQLite file and nothing else.  The lock of   *)
(* Repository keeps the threads of one process apart; between processes a   *)
(* SELECT is a transaction of its own until the first INSERT opens one.     *)
(* Report texts, validation messages and the legacy draft revisions, which  *)
(* nothing creates any more, are left out; so are timeouts of activities    *)
(* (module ReportPipeline has them), but not their crashes and retries.     *)
(***************************************************************************)
EXTENDS ActivityTasks, Sequences

CONSTANTS Handlers,   \* worker threads of the gateway's EventQueue
          Events,     \* the change events the monitoring may detect
          MaxCycles   \* bound: monitoring cycles

ASSUME PublicationAssumption == MaxCycles \in Nat

VARIABLES versions,  \* published report_versions of the job; version n is versions[n]
          patches,   \* report_patches in the order of created_at
          event,     \* change_events: event[e] is the status of e
          cmd,       \* cmd[h]: the /update command handler h is in the middle of
          cycle,     \* the monitoring run, 0 before the first
          draft,     \* draft_patch_id of the run in stage patch_created, or 0
          decision,  \* what update_monitoring_report_activity answered
          work       \* work[t]: what the attempt on thread t has read

vars == <<taskVars, versions, patches, event, cmd, cycle, draft, decision, work>>
tables == <<versions, patches, event>>
run == <<cycle, draft, decision>>

Kinds == {"evidence_only", "review_required", "auto_patch"}

NoCmd == [at |-> "idle", patch |-> 0, number |-> 0]
NoWork == [base |-> 0, events |-> {}, kind |-> "none", patch |-> 0, number |-> 0]

Open == {e \in Events : event[e] = "open"}
Applied(es) == event' = [e \in Events |-> IF e \in es THEN "applied" ELSE event[e]]

-----------------------------------------------------------------------------
(* publish_pending_report_patch, in its three accesses to the tables.        *)

(* get_latest_report: the newest published version. *)
Current == Len(versions)

Unpublished(p) == patches[p].status \in {"pending", "not_required"}

(* Mutant of MayPublish: the base of the patch is not checked.                *)
MayPublishStale(p) == Unpublished(p) /\ patches[p].version = 0

(* "report patch is ...", "already has report version", "base report version *)
(* changed".                                                                 *)
MayPublish(p) ==
    Unpublished(p) /\ patches[p].version = 0 /\ Current = patches[p].base

(* UNIQUE(job_id, version). *)
Taken(n) == n <= Len(versions)

(* The transaction: version, revision and patch row together. *)
PublishRow(p, n, who) ==
    /\ versions' = Append(versions, [parent |-> patches[p].base, patch |-> p, by |-> who])
    /\ patches' = [patches EXCEPT ![p].status = "published", ![p].version = n]

-----------------------------------------------------------------------------
(* The gateway. *)

(* Mutant of GatewayFree: publishing takes no lock. *)
GatewayFreeAlways(h) == TRUE

(* publish_pending_report_patch holds the lock of the gateway's Repository   *)
(* from its first SELECT to its commit.                                      *)
GatewayFree(h) ==
    \A g \in Handlers \ {h} : cmd[g].at \notin {"number", "insert"}

CmdGoTo(h, p, n, pos) == cmd' = [cmd EXCEPT ![h] = [at |-> pos, patch |-> p, number |-> n]]
CmdEnds(h) == cmd' = [cmd EXCEPT ![h] = NoCmd]

(* /update approve up to the validation: the patch is pending, its base is   *)
(* the current report and the validator, whose verdict is open, accepts it.  *)
(* Any other patch gets a reply and changes nothing.                         *)
Approve(h, p) ==
    /\ cmd[h] = NoCmd
    /\ patches[p].status = "pending" /\ Current = patches[p].base
    /\ CmdGoTo(h, p, 0, "check")
    /\ UNCHANGED <<taskVars, tables, run, work>>

(* A patch that is published already answers with its version, and its       *)
(* events are marked again.                                                  *)
PublishCheck(h) ==
    /\ cmd[h].at = "check"
    /\ LET p == cmd[h].patch
       IN IF patches[p].status = "published" THEN CmdGoTo(h, p, 0, "mark")
          ELSE IF MayPublish(p) THEN CmdGoTo(h, p, 0, "number")
          ELSE CmdEnds(h)
    /\ UNCHANGED <<taskVars, tables, run, work>>

PublishNumber(h) ==
    /\ cmd[h].at = "number"
    /\ CmdGoTo(h, cmd[h].patch, Len(versions) + 1, "insert")
    /\ UNCHANGED <<taskVars, tables, run, work>>

PublishInsert(h) ==
    /\ cmd[h].at = "insert"
    /\ IF Taken(cmd[h].number)
       THEN CmdEnds(h) /\ UNCHANGED <<versions, patches>>
       ELSE PublishRow(cmd[h].patch, cmd[h].number, "gateway")
            /\ CmdGoTo(h, cmd[h].patch, 0, "mark")
    /\ UNCHANGED <<taskVars, event, run, work>>

(* mark_change_events_applied. *)
MarkApplied(h) ==
    /\ cmd[h].at = "mark"
    /\ Applied(patches[cmd[h].patch].events)
    /\ CmdEnds(h)
    /\ UNCHANGED <<taskVars, versions, patches, run, work>>

(* /update reject, and /update approve of a patch past its days of validity: *)
(* a pending patch is read ...                                               *)
Reject(h, p) ==
    /\ cmd[h] = NoCmd
    /\ patches[p].status = "pending"
    /\ CmdGoTo(h, p, 0, "reject")
    /\ UNCHANGED <<taskVars, tables, run, work>>

(* ... and reject_report_patch writes where it still is. *)
RejectWrite(h) ==
    /\ cmd[h].at = "reject"
    /\ patches' = IF patches[cmd[h].patch].status = "pending"
                  THEN [patches EXCEPT ![cmd[h].patch].status = "rejected"]
                  ELSE patches
    /\ CmdEnds(h)
    /\ UNCHANGED <<taskVars, versions, event, run, work>>

GatewayCrash ==
    /\ losses < MaxLosses /\ \E h \in Handlers : cmd[h] # NoCmd
    /\ losses' = losses + 1
    /\ cmd' = [h \in Handlers |-> NoCmd]
    /\ UNCHANGED <<task, thread, timeouts, tables, run, work>>

-----------------------------------------------------------------------------
(* The worker: the activities of a monitoring cycle that touch these tables. *)

(* detect_monitoring_changes: evidence of this run becomes open events.      *)
Detect(t) ==
    /\ At(t, "detect", "start")
    /\ \E es \in SUBSET {e \in Events : event[e] = "none"} :
         event' = [e \in Events |-> IF e \in es THEN "open" ELSE event[e]]
    /\ Return(t)
    /\ UNCHANGED <<versions, patches, cmd, run, work>>

(* The result of an attempt the workflow waits for. *)
Answer(t, d) == Return(t) /\ decision' = IF task.by = t THEN d ELSE decision

(* Mutant of UpdateRead: the update takes some of the open events only.      *)
UpdateReadSome(t) ==
    /\ At(t, "update", "start") /\ Open # {}
    /\ \E es \in SUBSET Open \ {{}}, k \in Kinds :
         work' = [work EXCEPT ![t] = [NoWork EXCEPT !.base = Current, !.events = es, !.kind = k]]
    /\ GoTo(t, "store", {})
    /\ UNCHANGED <<tables, cmd, run>>

(* Without open events, or with a patch of this run left by an earlier        *)
(* attempt, there is nothing to make.                                         *)
UpdateReuses(t) ==
    /\ At(t, "update", "start")
    /\ \/ Open = {} /\ Answer(t, "no_change")
       \/ Open # {} /\ draft # 0 /\ Unpublished(draft) /\ Answer(t, patches[draft].kind)
    /\ UNCHANGED <<tables, cmd, cycle, draft, work>>

(* The open events and the base are read, the model is asked, the decider     *)
(* decides; a publication in between the two reads shows the same as one      *)
(* whose events are not marked yet.                                           *)
UpdateRead(t) ==
    /\ At(t, "update", "start")
    /\ Open # {} /\ ~(draft # 0 /\ Unpublished(draft))
    /\ \E k \in Kinds :
         work' = [work EXCEPT ![t] =
                     [NoWork EXCEPT !.base = Current, !.events = Open, !.kind = k]]
    /\ GoTo(t, "store", {})
    /\ UNCHANGED <<tables, cmd, run>>

UpdateEvidenceOnly(t) ==
    /\ At(t, "update", "store") /\ work[t].kind = "evidence_only"
    /\ Answer(t, "evidence_only")
    /\ work' = [work EXCEPT ![t] = NoWork]
    /\ UNCHANGED <<tables, cmd, cycle, draft>>

(* patch_id is a digest of run, base, decision and events ... *)
SamePatch(p, w) ==
    /\ patches[p].cycle = cycle /\ patches[p].base = w.base
    /\ patches[p].kind = w.kind /\ patches[p].events = w.events
    /\ patches[p].status # "deleted"

(* ... so add_pending_report_patch finds the row of an earlier attempt and    *)
(* makes it unpublished again.                                                *)
UpdateStore(t) ==
    /\ At(t, "update", "store") /\ work[t].kind # "evidence_only"
    /\ LET w == work[t]
           unpublished == IF w.kind = "review_required" THEN "pending" ELSE "not_required"
           old == {p \in DOMAIN patches : SamePatch(p, w)}
       IN /\ \/ \E p \in old :
                  /\ patches' = [patches EXCEPT ![p].status = unpublished]
                  /\ work' = [work EXCEPT ![t].patch = p]
             \/ /\ old = {}
                /\ patches' = Append(patches, [cycle |-> cycle, base |-> w.base, kind |-> w.kind,
                                       events |-> w.events, status |-> unpublished, version |-> 0])
                /\ work' = [work EXCEPT ![t].patch = Len(patches) + 1]
    /\ GoTo(t, "record", {})
    /\ UNCHANGED <<versions, event, cmd, run>>

(* update_monitoring_run_stats(stage="patch_created", draft_patch_id=...). *)
UpdateRecord(t) ==
    /\ At(t, "update", "record")
    /\ draft' = work[t].patch
    /\ Answer(t, work[t].kind)
    /\ work' = [work EXCEPT ![t] = NoWork]
    /\ UNCHANGED <<tables, cmd, cycle>>

(* validate_monitoring_report: evidence_only applies every open event; a      *)
(* patch for review is only validated; ...                                    *)
ValidateNoPatch(t) ==
    /\ At(t, "validate", "start") /\ decision # "auto_patch"
    /\ IF decision = "evidence_only" THEN Applied(Open) ELSE UNCHANGED event
    /\ Return(t)
    /\ UNCHANGED <<versions, patches, cmd, run, work>>

NotRequired == {p \in DOMAIN patches : patches[p].status = "not_required"}

(* ... and the newest patch that needs no approval is published, ...         *)
AutoPick(t) ==
    /\ At(t, "validate", "start") /\ decision = "auto_patch"
    /\ IF NotRequired = {} THEN Raise(t) /\ UNCHANGED work
       ELSE \E p \in NotRequired :
              /\ \A q \in NotRequired : q <= p
              /\ work' = [work EXCEPT ![t] = [NoWork EXCEPT !.patch = p]]
              /\ GoTo(t, "check", {})
    /\ UNCHANGED <<tables, cmd, run>>

AutoCheck(t) ==
    /\ At(t, "validate", "check") /\ MayPublish(work[t].patch)
    /\ GoTo(t, "number", {})
    /\ UNCHANGED <<tables, cmd, run, work>>

(* ... or, when the validator or publish_pending_report_patch refuses it,     *)
(* deleted: the cycle fails and the report stays as it is.                    *)
AutoRefused(t) ==
    /\ At(t, "validate", "check")
    /\ patches' = IF Unpublished(work[t].patch)
                  THEN [patches EXCEPT ![work[t].patch].status = "deleted"]
                  ELSE patches
    /\ Raise(t)
    /\ work' = [work EXCEPT ![t] = NoWork]
    /\ UNCHANGED <<versions, event, cmd, run>>

AutoNumber(t) ==
    /\ At(t, "validate", "number")
    /\ work' = [work EXCEPT ![t].number = Len(versions) + 1]
    /\ GoTo(t, "insert", {})
    /\ UNCHANGED <<tables, cmd, run>>

(* A number taken meanwhile is an IntegrityError, which nothing catches. *)
AutoInsert(t) ==
    /\ At(t, "validate", "insert")
    /\ IF Taken(work[t].number)
       THEN Raise(t) /\ UNCHANGED <<versions, patches>>
       ELSE PublishRow(work[t].patch, work[t].number, "worker") /\ GoTo(t, "mark", {})
    /\ UNCHANGED <<event, cmd, run, work>>

(* Mutant of AutoMark: the activity returns without marking.                  *)
AutoMarkNothing(t) ==
    /\ At(t, "validate", "mark")
    /\ Return(t)
    /\ work' = [work EXCEPT ![t] = NoWork]
    /\ UNCHANGED <<tables, cmd, run>>

(* All open events are marked, not those of the patch alone. *)
AutoMark(t) ==
    /\ At(t, "validate", "mark")
    /\ Applied(Open)
    /\ Return(t)
    /\ work' = [work EXCEPT ![t] = NoWork]
    /\ UNCHANGED <<versions, patches, cmd, run>>

-----------------------------------------------------------------------------
(* MonitoringCycleWorkflow: the activities in order, each with its retries.   *)
Advance ==
    /\ task.by = "done" /\ task.act \in {"detect", "update"}
    /\ task' = IF task.act = "detect" THEN Queued("update", 2) ELSE Queued("validate", 1)
    /\ UNCHANGED <<thread, timeouts, losses, tables, cmd, run, work>>

(* BUFFER_ONE: a cycle starts when the one before is over, well or badly.     *)
StartCycle ==
    /\ \/ task.act = "none" \/ task.by = "failed"
       \/ task.act = "validate" /\ task.by = "done"
    /\ cycle < MaxCycles /\ cycle' = cycle + 1
    /\ draft' = 0 /\ decision' = "none"
    /\ task' = Queued("detect", 2)
    /\ UNCHANGED <<thread, timeouts, losses, tables, cmd, work>>

Init ==
    /\ task = [act |-> "none", left |-> 0, by |-> "done"]
    /\ thread = [t \in Threads |-> Idle] /\ timeouts = 0 /\ losses = 0
    /\ versions = <<[parent |-> 0, patch |-> 0, by |-> "research"]>>
    /\ patches = <<>> /\ event = [e \in Events |-> "none"]
    /\ cmd = [h \in Handlers |-> NoCmd]
    /\ cycle = 0 /\ draft = 0 /\ decision = "none"
    /\ work = [t \in Threads |-> NoWork]

(* What a command does once it is under way. *)
CommandStep(h) ==
    /\ GatewayFree(h)
    /\ \/ PublishCheck(h) \/ PublishNumber(h) \/ PublishInsert(h)
       \/ MarkApplied(h) \/ RejectWrite(h)

Command(h) ==
    /\ GatewayFree(h)
    /\ \E p \in DOMAIN patches : Approve(h, p) \/ Reject(h, p)

Activity(t) ==
    \/ Detect(t)
    \/ UpdateReuses(t) \/ UpdateRead(t) \/ UpdateEvidenceOnly(t)
    \/ UpdateStore(t) \/ UpdateRecord(t)
    \/ ValidateNoPatch(t) \/ AutoPick(t) \/ AutoCheck(t) \/ AutoRefused(t)
    \/ AutoNumber(t) \/ AutoInsert(t) \/ AutoMark(t)

Delivery == /\ LossNoticed \/ \E t \in Threads : Pick(t)
            /\ UNCHANGED <<tables, cmd, run, work>>

(* The SQLite write locks, files and models an attempt meets may fail it. *)
Trouble ==
    /\ WorkerCrash \/ \E t \in Threads : Fault(t)
    /\ work' = [t \in Threads |-> IF thread'[t] = Idle THEN NoWork ELSE work[t]]
    /\ UNCHANGED <<tables, cmd, run>>

Next ==
    \/ \E h \in Handlers : CommandStep(h) \/ Command(h)
    \/ \E t \in Threads : Activity(t)
    \/ Delivery \/ Trouble \/ GatewayCrash \/ Advance \/ StartCycle

Spec == Init /\ [][Next]_vars

(* Commands that were taken and activities that were handed out go on. *)
FairSpec ==
    /\ Spec
    /\ \A h \in Handlers : WF_vars(CommandStep(h))
    /\ \A t \in Threads : WF_vars(Activity(t))
    /\ WF_vars(Delivery) /\ WF_vars(Advance)

-----------------------------------------------------------------------------
(* Properties. *)

(* However often a patch is approved, at the same time or again after a       *)
(* crash, the report gets at most one version of it.                          *)
PublishedOnce ==
    \A m, n \in DOMAIN versions : versions[m].patch = versions[n].patch => m = n

(* What the tables show of the updates of the report: the patches behind its  *)
(* versions and, of each patch, whether it is published, can be or cannot.    *)
Carried == [n \in 1 .. Len(versions) - 1 |-> versions[n + 1].patch]
Fate == [p \in DOMAIN patches |-> IF patches[p].version # 0 THEN "published"
                                  ELSE IF Unpublished(p) THEN "offered" ELSE "withdrawn"]
OfThisCycle == {p \in DOMAIN patches : patches[p].cycle = cycle}

History == INSTANCE ReportHistory WITH
    history <- Carried, fate <- Fate, running <- OfThisCycle

(* Handlers, worker, crashes and retries together keep the promise of         *)
(* ReportHistory: a patch gets one version at most, and none once the owner   *)
(* or the validator has turned it down, between the check and the insertion   *)
(* included, unless a retry of the cycle that made it offers it again.        *)
KeepsHistory == History!ReportedHistory

(* Within a process the check of the base and the insertion are one critical  *)
(* section: a version that does not build on its predecessor was published by *)
(* the other process.                                                         *)
LinearPerProcess ==
    \A n \in DOMAIN versions \ {1} :
        versions[n].parent # n - 1 => versions[n].by # versions[n - 1].by

(* No change is dropped on the way: an event counts as applied only when a    *)
(* version carries it or a cycle recorded it as evidence.                     *)
AppliedIsReported ==
    [][\A e \in Open : event'[e] = "applied"
         => \/ decision = "evidence_only"
            \/ \E n \in DOMAIN versions \ {1} : e \in patches[versions[n].patch].events]_vars

(* A published patch does not leave its events open, to be patched in again   *)
(* by every later cycle; a crash between publishing and marking may.  (Without *)
(* a crash a cycle makes at most one patch.)                                  *)
PublishedIsApplied ==
    \A p \in 1..MaxCycles :
        (losses = 0 /\ p \in DOMAIN patches /\ patches[p].status = "published")
          ~> (\/ losses > 0
              \/ p \in DOMAIN patches /\ \A e \in patches[p].events : event[e] = "applied")

(* "base report version changed": every version builds on the one before. *)
LinearHistory == \A n \in DOMAIN versions \ {1} : versions[n].parent = n - 1
=============================================================================
