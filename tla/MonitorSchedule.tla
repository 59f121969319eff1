-------------------------- MODULE MonitorSchedule --------------------------
(***************************************************************************)
(* The periodic monitoring of one finished job.  It is described twice: by  *)
(* a row of monitoring_configs and by a Temporal schedule, which nothing    *)
(* keeps equal but the order of the calls.  Three kinds of callers change   *)
(* both, one after the other: the chat handlers of the gateway              *)
(* (event_handler.py), the operator's command line (cli.py), and the worker *)
(* (registration after a research job; the pause after repeated failures).  *)
(* The schedule starts MonitoringCycleWorkflow (temporal/workflows.py),     *)
(* whose activities write monitoring_runs and the counters of the row.      *)
(* What a cycle does with sources and reports is one step here.             *)
(*                                                                         *)
(* One cycle runs at a time, as BUFFER_ONE has it; not modelled is the      *)
(* second one there may be when a monitor is deleted and created again while *)
(* a cycle of the former schedule runs.                                     *)
(*                                                                         *)
(* Left out: next_run_at and the other columns that are only displayed, and *)
(* the ownership checks (the callers are the owner and the operator).       *)
(***************************************************************************)
EXTENDS ScheduleSpecs, Sequences, FiniteSets

CONSTANTS Handlers,     \* event worker threads of the gateway
          Requests,     \* the schedules the owner asks for
          Saved,        \* the one saved with /research, for the registration
          Compared,     \* requests whose way to a schedule and back is compared:
                        \* far more than the commands of a run can ask for
          Threshold,    \* settings.monitor_max_consecutive_failures
          Attempts,     \* maximum_attempts of start, complete and notify
          MaxCommands,  \* bound: commands given
          MaxCycles,    \* bound: cycles started
          MaxTroubles,  \* bound: attempts whose answer is lost, failing calls to
                        \* Temporal or SQLite, and crashes
          MaxEvents     \* bound: commands and troubles together

ASSUME RequestsAssumption == Requests \subseteq {r \in Words : Legal(r)}
ASSUME SavedAssumption == Saved \in Requests
ASSUME ComparedAssumption == Compared \subseteq Words
ASSUME HandlersAssumption == IsFiniteSet(Handlers) /\ Handlers \cap {"cli", "worker"} = {}

Callers == Handlers \union {"cli", "worker"}

VARIABLES
    config,     \* the monitoring_configs row: status, stored words, failure count
    sched,      \* the schedule at Temporal, and the start it has buffered
    caller,     \* caller[c]: the command c executes and where
    token,      \* the delete token the gateway keeps in memory: "none" or "valid"
    request,    \* monitor_registration_requests: status; "lost": pending, but the
                \* one attempt to register is over
    cycle,      \* the running MonitoringCycleWorkflow
    late,       \* an attempt to complete a cycle nobody waits for any more
    runs,       \* monitoring_runs: status of each row, oldest first
    strays,     \* history: rows no workflow answers for
    failed,     \* history: rows recorded as failed since a success or a creation
    rivals,     \* history: did commands overlap, and did a delete overlap anything
    commands, losses, faults

vars == <<config, sched, caller, token, request, cycle, late, runs, strays, failed,
          rivals, commands, losses, faults>>
cycleVars == <<cycle, late, runs, strays, failed, losses>>

NoWords == [kind |-> "none"]
NoSpec == [every |-> 0]
NoSched == [exists |-> FALSE, paused |-> FALSE, spec |-> NoSpec, buffer |-> "none"]
NewSched(r) == [exists |-> TRUE, paused |-> FALSE, spec |-> SpecOf(r), buffer |-> "none"]
NoCycle == [at |-> "none", from |-> 0, run |-> 0, tries |-> 1, result |-> "none", cancel |-> FALSE]
(* The rows of monitoring_runs after the first "from" are those of the cycle.*)
NewCycle == [NoCycle EXCEPT !.at = "start", !.from = Len(runs)]
NoLate == [at |-> "none"]
Idle == [at |-> "idle"]

Init ==
    /\ config = [status |-> "none", words |-> NoWords, failures |-> 0]
    /\ sched = NoSched /\ caller = [c \in Callers |-> Idle]
    /\ token = "none" /\ request \in {"none", "pending"}
    /\ cycle = NoCycle /\ late = NoLate /\ runs = <<>> /\ strays = {} /\ failed = {}
    /\ rivals = "none" /\ commands = 0 /\ losses = 0 /\ faults = 0

(* Every command but create wants a row that is there and not deleted.       *)
Live == config.status \notin {"none", "deleted"}

-----------------------------------------------------------------------------
(* A command: read the row, call Temporal, write the row.                    *)

At(c, op, p) == caller[c].at = p /\ caller[c].op = op
Goto(c, p) == caller' = [caller EXCEPT ![c].at = p]
Done(c) == caller' = [caller EXCEPT ![c] = Idle]

Left == commands + losses + faults < MaxEvents

Begin(c, op, r) ==
    /\ caller[c] = Idle /\ commands < MaxCommands /\ Left
    /\ caller' = [caller EXCEPT ![c] = [at |-> "call", op |-> op, ask |-> r, made |-> FALSE]]
    /\ commands' = commands + 1
    /\ UNCHANGED <<config, sched, token, request, faults, cycleVars>>

(* create and update say which schedule; the job has a published report.     *)
AskCreate(c, r) == ~Live /\ Begin(c, "create", r)
Ask(c, op, r) == Live /\ Begin(c, op, r)

MonitorCreate(h, r) == AskCreate(h, r)
MonitorUpdate(h, r) == Ask(h, "update", r)
MonitorPause(h) == Ask(h, "pause", NoWords)
MonitorResume(h) == Ask(h, "resume", NoWords)
MonitorRun(h) == Ask(h, "run", NoWords)
MonitorCancelCurrent(h) == Ask(h, "cancel", NoWords)

(* /monitor delete only hands out a token, kept in the process; with it,     *)
(* delete-confirm deletes.                                                   *)
MonitorDelete(h) ==
    /\ caller[h] = Idle /\ Live /\ commands < MaxCommands /\ Left
    /\ token' = "valid" /\ commands' = commands + 1
    /\ UNCHANGED <<config, sched, caller, request, faults, cycleVars>>

MonitorDeleteConfirm(h) == token = "valid" /\ Ask(h, "delete", NoWords)

(* The command line; it deletes at once. *)
CliCreate(r) == AskCreate("cli", r)
CliUpdate(r) == Ask("cli", "update", r)
CliScheduleAction == \E op \in {"pause", "resume", "run"} : Ask("cli", op, NoWords)
CliCancelCurrent == Ask("cli", "cancel", NoWords)
CliDelete == Ask("cli", "delete", NoWords)

TokenExpires ==
    /\ token = "valid" /\ token' = "none"
    /\ UNCHANGED <<config, sched, caller, request, commands, faults, cycleVars>>

(* register_monitoring_schedule, once, when the workflow of the job ends:    *)
(* a request saved with /research.                                           *)
Register ==
    /\ request = "pending" /\ caller["worker"] = Idle
    /\ IF Live
       THEN request' = "registered" /\ UNCHANGED caller
       ELSE /\ caller' = [caller EXCEPT !["worker"] =
                  [at |-> "call", op |-> "create", ask |-> Saved, made |-> FALSE]]
            /\ UNCHANGED request
    /\ UNCHANGED <<config, sched, token, commands, faults, cycleVars>>

(* Temporal starts a cycle, or keeps one start (BUFFER_ONE) while one runs.  *)
Start(kind) ==
    IF cycle = NoCycle
    THEN cycle' = NewCycle /\ UNCHANGED sched
    ELSE /\ sched' = [sched EXCEPT !.buffer = IF @ = "none" THEN kind ELSE @]
         /\ UNCHANGED cycle

Started == Len(runs) + (IF cycle.at = "start" THEN 1 ELSE 0) + (IF sched.buffer # "none" THEN 1 ELSE 0)

CallCreate(c) ==
    /\ At(c, "create", "call")
    /\ IF ~sched.exists
       THEN sched' = NewSched(caller[c].ask) /\ caller' = [caller EXCEPT ![c].at = "row", ![c].made = TRUE]
       ELSE /\ UNCHANGED sched
            /\ IF c = "worker" THEN Goto(c, "row") ELSE Done(c)  \* "已经存在" is an answer there
    /\ UNCHANGED <<config, token, request, commands, faults, cycleVars>>

CallPause(c, p) ==
    /\ At(c, IF p THEN "pause" ELSE "resume", "call")
    /\ IF sched.exists
       THEN sched' = [sched EXCEPT !.paused = p] /\ Goto(c, "row")
       ELSE UNCHANGED sched /\ Done(c)
    /\ UNCHANGED <<config, token, request, commands, faults, cycleVars>>

CallRun(c) ==
    /\ At(c, "run", "call") /\ Done(c)
    /\ IF sched.exists /\ Started < MaxCycles THEN Start("manual") ELSE UNCHANGED <<sched, cycle>>
    /\ UNCHANGED <<config, token, request, late, runs, strays, failed, commands, losses, faults>>

(* _update replaces the spec and keeps the state, paused or not. *)
CallUpdate(c) ==
    /\ At(c, "update", "call")
    /\ IF sched.exists
       THEN sched' = [sched EXCEPT !.spec = SpecOf(caller[c].ask)] /\ Goto(c, "row")
       ELSE UNCHANGED sched /\ Done(c)
    /\ UNCHANGED <<config, token, request, commands, faults, cycleVars>>

CallDelete(c) ==
    /\ At(c, "delete", "call")
    /\ IF sched.exists THEN sched' = NoSched /\ Goto(c, "row") ELSE UNCHANGED sched /\ Done(c)
    /\ UNCHANGED <<config, token, request, commands, faults, cycleVars>>

(* By the workflow id of the newest running row, which may be a row left by   *)
(* a cycle that closed: its id is that of no running workflow.  Without a    *)
(* running row, the running action of the schedule.                          *)
Running == {r \in 1..Len(runs) : runs[r] = "running"}

CallCancel(c) ==
    /\ At(c, "cancel", "call") /\ Done(c)
    /\ cycle' = IF /\ cycle # NoCycle
                   /\ IF Running = {} THEN sched.exists ELSE \E r \in Running : r > cycle.from
                THEN [cycle EXCEPT !.cancel = TRUE] ELSE cycle
    /\ UNCHANGED <<config, sched, token, request, late, runs, strays, failed, commands, losses, faults>>

(* Mutant of FreshRow: the upsert keeps the failures of the former monitor.  *)
FreshRowKeeps(r) == [config EXCEPT !.status = "active", !.words = RowOf(r)]

(* Mutant of FreshRow: INSERT OR IGNORE. *)
FreshRowIgnored(r) ==
    IF config.status = "none" THEN [status |-> "active", words |-> RowOf(r), failures |-> 0] ELSE config

(* create_monitoring_config, over a deleted row or the row of a rival. *)
FreshRow(r) == [status |-> "active", words |-> RowOf(r), failures |-> 0]

RowCreate(c) ==
    /\ At(c, "create", "row")
    /\ config' = FreshRow(caller[c].ask) /\ failed' = {}
    /\ Goto(c, IF c = "worker" THEN "mark" ELSE "next")
    /\ UNCHANGED <<sched, token, request, cycle, late, runs, strays, commands, losses, faults>>

(* mark_monitor_registration ends the registration. *)
Mark(c) ==
    /\ caller[c].at = "mark" /\ Done(c)
    /\ request' = "registered"
    /\ UNCHANGED <<config, sched, token, commands, faults, cycleVars>>

RowStatus(c, op, s) ==
    /\ At(c, op, "row") /\ Done(c)
    /\ config' = [config EXCEPT !.status = s]
    /\ UNCHANGED <<sched, token, request, commands, faults, cycleVars>>

(* upsert_monitoring_schedule(status="active") *)
RowUpdate(c) ==
    /\ At(c, "update", "row") /\ Goto(c, "next")
    /\ config' = [config EXCEPT !.status = "active", !.words = RowOf(caller[c].ask)]
    /\ UNCHANGED <<sched, token, request, commands, faults, cycleVars>>

RowDelete(c) ==
    /\ At(c, "delete", "row") /\ Done(c)
    /\ config' = [config EXCEPT !.status = "deleted"]
    /\ token' = IF c \in Handlers THEN "none" ELSE token
    /\ UNCHANGED <<sched, request, commands, faults, cycleVars>>

(* update_monitoring_next_run ends create and update. *)
RowNext(c) ==
    /\ caller[c].at = "next" /\ Done(c)
    /\ UNCHANGED <<config, sched, token, request, commands, faults, cycleVars>>

-----------------------------------------------------------------------------
(* Failures.  A call to Temporal may fail before or after it took effect.    *)

Failing == losses + faults < MaxTroubles /\ Left /\ faults' = faults + 1

(* The worker records the failure, which may fail as well.                   *)
RegistrationFailed(c) ==
    IF c = "worker" THEN request' \in {"failed", "lost"} ELSE UNCHANGED request

(* run and cancel end with their call: there is no other outcome to tell     *)
(* when it fails after its effect.                                           *)
CallFails(c) ==
    /\ caller[c].at = "call" /\ Failing /\ Done(c) /\ RegistrationFailed(c)
    /\ \/ UNCHANGED sched
       \/ caller[c].op = "create" /\ ~sched.exists /\ sched' = NewSched(caller[c].ask)
       \/ caller[c].op = "delete" /\ sched.exists /\ sched' = NoSched
       \/ /\ caller[c].op \in {"pause", "resume"} /\ sched.exists
          /\ sched' = [sched EXCEPT !.paused = (caller[c].op = "pause")]
       \/ /\ caller[c].op = "update" /\ sched.exists
          /\ sched' = [sched EXCEPT !.spec = SpecOf(caller[c].ask)]
    /\ UNCHANGED <<config, token, commands, cycleVars>>

(* Only create undoes its call, the worker only when it made the schedule     *)
(* and has not written the row.                                              *)
RowFails(c) ==
    /\ caller[c].at \in {"row", "next", "mark"} /\ Failing
    /\ IF caller[c].op = "create" /\ caller[c].made /\ caller[c].at # "mark"
       THEN Goto(c, "undo") /\ UNCHANGED request
       ELSE Done(c) /\ RegistrationFailed(c)
    /\ UNCHANGED <<config, sched, token, commands, cycleVars>>

Undo(c) ==
    /\ caller[c].at = "undo" /\ Done(c) /\ RegistrationFailed(c)
    /\ sched' = NoSched
    /\ UNCHANGED <<config, token, commands, faults, cycleVars>>

UndoFails(c) ==
    /\ caller[c].at = "undo" /\ Failing /\ Done(c) /\ RegistrationFailed(c)
    /\ UNCHANGED sched \/ sched' = NoSched
    /\ UNCHANGED <<config, token, commands, cycleVars>>

(* The gateway dies, and the token with it; or the command line does; or the *)
(* worker, whose activity has a single attempt.                              *)
Crash(P) ==
    /\ \E c \in P : caller[c] # Idle
    /\ Failing
    /\ caller' = [c \in Callers |-> IF c \in P THEN Idle ELSE caller[c]]
    /\ token' = IF P = Handlers THEN "none" ELSE token
    /\ request' = IF P = {"worker"} THEN "lost" ELSE request
    /\ UNCHANGED <<config, sched, commands, cycleVars>>

(* The same for a registration that finds the monitor there, or starts.      *)
RegisterFails ==
    /\ request = "pending" /\ caller["worker"] = Idle /\ Failing
    /\ request' = "lost"
    /\ UNCHANGED <<config, sched, caller, token, commands, cycleVars>>

-----------------------------------------------------------------------------
(* monitor reconcile --repair.  The rows are read first, then each schedule. *)

Reconcile ==
    /\ caller["cli"] = Idle /\ Live /\ commands < MaxCommands /\ Left
    /\ commands' = commands + 1
    /\ caller' = [caller EXCEPT !["cli"] =
                     [at |-> "describe", op |-> "reconcile", row |-> config, saw |-> NoSched]]
    /\ UNCHANGED <<config, sched, token, request, faults, cycleVars>>

Describe ==
    /\ At("cli", "reconcile", "describe")
    /\ caller' = [caller EXCEPT !["cli"].saw = sched,
                                !["cli"].at = IF sched.exists THEN "flag" ELSE "missing"]
    /\ UNCHANGED <<config, sched, token, request, commands, faults, cycleVars>>

(* Any exception of the call is taken for a schedule that is missing. *)
DescribeFails ==
    /\ At("cli", "reconcile", "describe") /\ Failing
    /\ Goto("cli", "unreachable")
    /\ UNCHANGED <<config, sched, token, request, commands, cycleVars>>

RepairMissing ==
    /\ At("cli", "reconcile", "missing") \/ At("cli", "reconcile", "unreachable")
    /\ Done("cli")
    /\ config' = [config EXCEPT !.status = "registration_failed"]
    /\ UNCHANGED <<sched, token, request, commands, faults, cycleVars>>

RepairFlag ==
    /\ At("cli", "reconcile", "flag") /\ Goto("cli", "spec")
    /\ LET me == caller["cli"] IN
       config' = IF me.saw.paused # (me.row.status = "paused")
                 THEN [config EXCEPT !.status = IF me.saw.paused THEN "paused" ELSE "active"]
                 ELSE config
    /\ UNCHANGED <<sched, token, request, commands, faults, cycleVars>>

(* Mutant of Differs: intervals are not compared. *)
DiffersUnlessEvery(words, spec) == words.kind # "every" /\ Summary(spec) # words

(* reconcile compares words: an "every" of the row in days differs from the  *)
(* hours of the summary although both mean the same.                         *)
Differs(words, spec) == Summary(spec) # words

RepairSpec ==
    /\ At("cli", "reconcile", "spec") /\ Done("cli")
    /\ LET me == caller["cli"] IN
       sched' = IF Differs(me.row.words, me.saw.spec) /\ sched.exists
                THEN [sched EXCEPT !.spec = SpecOf(me.row.words)] ELSE sched
    /\ UNCHANGED <<config, token, request, commands, faults, cycleVars>>

(* Another exception ends the command; that of update may come late.         *)
RepairFails ==
    LET me == caller["cli"] IN
    /\ me.at \in {"missing", "unreachable", "flag", "spec"} /\ Failing /\ Done("cli")
    /\ \/ UNCHANGED sched
       \/ /\ me.at = "spec" /\ Differs(me.row.words, me.saw.spec) /\ sched.exists
          /\ sched' = [sched EXCEPT !.spec = SpecOf(me.row.words)]
    /\ UNCHANGED <<config, token, request, commands, cycleVars>>

-----------------------------------------------------------------------------
(* The schedule of Temporal, as _schedule configures it: BUFFER_ONE and      *)
(* pause_on_failure.  A buffered timer start is dropped when the schedule is *)
(* paused meanwhile, a triggered one is not.                                 *)

Tick ==
    /\ sched.exists /\ ~sched.paused /\ Started < MaxCycles
    /\ Start("timer")
    /\ UNCHANGED <<config, caller, token, request, late, runs, strays, failed, commands, losses, faults>>

StartBuffered ==
    /\ cycle = NoCycle /\ sched.buffer # "none"
    /\ sched' = [sched EXCEPT !.buffer = "none"]
    /\ IF sched.buffer = "manual" \/ ~sched.paused
       THEN cycle' = NewCycle
       ELSE UNCHANGED cycle
    /\ UNCHANGED <<config, caller, token, request, late, runs, strays, failed, commands, losses, faults>>

(* The workflow closes; a failed one pauses the schedule it came from.       *)
Close(how) ==
    /\ cycle' = NoCycle
    /\ sched' = IF how = "failed" /\ sched.exists THEN [sched EXCEPT !.paused = TRUE] ELSE sched

-----------------------------------------------------------------------------
(* MonitoringCycleWorkflow.run.                                              *)

Losing == losses + faults < MaxTroubles /\ Left /\ losses' = losses + 1
cmdVars == <<caller, token, request, commands, faults>>

(* An attempt of complete_monitoring_cycle nobody waits for runs on in its    *)
(* thread; at most one such attempt is followed.  (One of start only inserts  *)
(* its row later.)                                                           *)
Completing == {"complete", "threshold", "pause", "pauseRow"}
RunsOn ==
    /\ cycle.at \in Completing /\ late = NoLate
    /\ late' = [at |-> cycle.at, run |-> cycle.run, result |-> cycle.result]

(* start_monitoring_cycle inserts a row of its own on every attempt; it does *)
(* not look at the status of the config.                                     *)
StartRun ==
    /\ cycle.at = "start" /\ config.status # "none"
    /\ runs' = Append(runs, "running")
    /\ cycle' = [cycle EXCEPT !.at = "work", !.run = Len(runs) + 1, !.tries = 1]
    /\ UNCHANGED <<config, sched, late, strays, failed, losses, cmdVars>>

(* The attempt has inserted its row and its answer is lost.                  *)
StartLost ==
    /\ cycle.at = "start" /\ config.status # "none" /\ Losing
    /\ runs' = Append(runs, "running") /\ strays' = strays \union {Len(runs) + 1}
    /\ IF cycle.tries < Attempts
       THEN cycle' = [cycle EXCEPT !.tries = @ + 1] /\ UNCHANGED sched
       ELSE Close("failed")
    /\ UNCHANGED <<config, late, failed, cmdVars>>

(* "monitoring config not found": the schedule has no row at all.            *)
StartRefused ==
    /\ cycle.at = "start" /\ config.status = "none" /\ Close("failed")
    /\ UNCHANGED <<config, late, runs, strays, failed, losses, cmdVars>>

(* Everything between start and complete: load_monitor_context to the        *)
(* artifacts of an automatic patch.                                          *)
Work(result) ==
    /\ cycle.at = "work"
    /\ cycle' = [cycle EXCEPT !.at = "complete", !.result = result, !.tries = 1]
    /\ UNCHANGED <<config, sched, late, runs, strays, failed, losses, cmdVars>>

(* The request to cancel reaches the workflow.  In the try block it shows as *)
(* CancelledError, or as the failure of the activity that was cancelled, by  *)
(* the moment of its arrival; before the try block and in the handlers it    *)
(* ends the workflow at once.  The activity does not hear of it.             *)
Cancelled(result) ==
    /\ cycle.cancel
    /\ \/ /\ \/ cycle.at = "work"
             \/ cycle.at \in {"complete", "threshold", "notify"} /\ cycle.result = "completed"
          /\ cycle' = [cycle EXCEPT !.at = "complete", !.result = result, !.tries = 1, !.cancel = FALSE]
          /\ UNCHANGED <<sched, runs, strays>>
       \/ /\ cycle.result \in {"failed", "cancelled"} /\ Close("cancelled")
          /\ strays' = strays \union {cycle.run} /\ UNCHANGED runs
       \/ /\ cycle.at = "start" /\ Close("cancelled")
          /\ \/ UNCHANGED <<runs, strays>>
             \/ runs' = Append(runs, "running") /\ strays' = strays \union {Len(runs) + 1}
    /\ UNCHANGED <<late, losses>> \/ (Losing /\ RunsOn)
    /\ UNCHANGED <<config, failed, cmdVars>>

(* complete_monitoring_run: no error, whatever the decision, is a success.   *)
Counted(result) == IF result = "failed" THEN config.failures + 1 ELSE 0

(* Mutant of CompleteRun: a cancelled cycle needs no completion.             *)
CompleteUnlessCancelled ==
    /\ cycle.at = "complete"
    /\ runs' = IF cycle.result = "cancelled" THEN runs ELSE [runs EXCEPT ![cycle.run] = cycle.result]
    /\ config' = [config EXCEPT !.failures = Counted(cycle.result)]
    /\ failed' = IF cycle.result = "failed" THEN failed \union {cycle.run} ELSE {}
    /\ cycle' = [cycle EXCEPT !.at = "threshold"]
    /\ UNCHANGED <<sched, late, strays, losses, cmdVars>>

Completes(me) ==
    /\ me.at = "complete"
    /\ runs' = [runs EXCEPT ![me.run] = me.result]
    /\ config' = [config EXCEPT !.failures = Counted(me.result)]
    /\ failed' = IF me.result = "failed" THEN failed \union {me.run} ELSE {}
    /\ UNCHANGED <<sched, strays, losses, cmdVars>>

CompleteRun ==
    /\ Completes(cycle)
    /\ cycle' = [cycle EXCEPT !.at = "threshold"] /\ UNCHANGED late

(* _pause_monitoring_if_failure_threshold_reached: reads the row ...         *)
MustPause(result) ==
    /\ result = "failed" /\ config.status = "active"
    /\ Threshold > 0 /\ config.failures >= Threshold

(* The activity is over: notify_monitoring_cycle has attempts of its own.    *)
Notifies == [cycle EXCEPT !.at = "notify", !.tries = 1]

CheckThreshold ==
    /\ cycle.at = "threshold"
    /\ cycle' = IF MustPause(cycle.result) THEN [cycle EXCEPT !.at = "pause"] ELSE Notifies
    /\ UNCHANGED <<config, sched, late, runs, strays, failed, losses, cmdVars>>

(* ... pauses the schedule ... *)
PauseSchedule ==
    /\ cycle.at = "pause"
    /\ sched' = IF sched.exists THEN [sched EXCEPT !.paused = TRUE] ELSE sched
    /\ cycle' = IF sched.exists THEN [cycle EXCEPT !.at = "pauseRow"] ELSE Notifies
    /\ UNCHANGED <<config, late, runs, strays, failed, losses, cmdVars>>

(* ... and writes the row it has read. *)
PauseRow ==
    /\ cycle.at = "pauseRow"
    /\ config' = [config EXCEPT !.status = "paused"]
    /\ cycle' = Notifies
    /\ UNCHANGED <<sched, late, runs, strays, failed, losses, cmdVars>>

(* A pause that fails, having paused the schedule or not, is only logged.    *)
PauseFails ==
    /\ Failing
    /\ \/ cycle.at \in {"pause", "pauseRow"} /\ cycle' = Notifies /\ UNCHANGED late
       \/ late.at \in {"pause", "pauseRow"} /\ late' = NoLate /\ UNCHANGED cycle
    /\ \/ UNCHANGED sched
       \/ /\ "pause" \in {cycle.at, late.at} /\ sched.exists
          /\ sched' = [sched EXCEPT !.paused = TRUE]
    /\ UNCHANGED <<config, caller, token, request, runs, strays, failed, commands, losses>>

(* The attempt that runs on does the same, and its answer nobody hears.      *)
LateCompletes ==
    /\ Completes(late)
    /\ late' = [late EXCEPT !.at = "threshold"] /\ UNCHANGED cycle

LateChecks ==
    /\ late.at = "threshold"
    /\ late' = IF MustPause(late.result) THEN [late EXCEPT !.at = "pause"] ELSE NoLate
    /\ UNCHANGED <<config, sched, cycle, runs, strays, failed, losses, cmdVars>>

LatePauses ==
    /\ late.at = "pause"
    /\ sched' = IF sched.exists THEN [sched EXCEPT !.paused = TRUE] ELSE sched
    /\ late' = IF sched.exists THEN [late EXCEPT !.at = "pauseRow"] ELSE NoLate
    /\ UNCHANGED <<config, cycle, runs, strays, failed, losses, cmdVars>>

LatePausesRow ==
    /\ late.at = "pauseRow"
    /\ config' = [config EXCEPT !.status = "paused"]
    /\ late' = NoLate
    /\ UNCHANGED <<sched, cycle, runs, strays, failed, losses, cmdVars>>

LateStep == LateCompletes \/ LateChecks \/ LatePauses \/ LatePausesRow

(* What happened in the activity stays, its answer is lost, or it runs into   *)
(* its timeout and runs on, and it is run again.  The last attempt lost is an *)
(* exception of the try block, or, in a handler, the end: a cancelled cycle   *)
(* that cannot be recorded closes as failed.                                 *)
CompleteLost ==
    /\ cycle.at \in Completing \/ (cycle.at = "notify" /\ cycle.result # "cancelled")
    /\ Losing /\ (UNCHANGED late \/ RunsOn)
    /\ IF cycle.tries < Attempts
       THEN /\ cycle' = [cycle EXCEPT !.at = IF @ = "notify" THEN @ ELSE "complete", !.tries = @ + 1]
            /\ UNCHANGED <<sched, strays>>
       ELSE IF cycle.result = "completed"
       THEN /\ cycle' = [cycle EXCEPT !.at = "complete", !.result = "failed", !.tries = 1]
            /\ UNCHANGED <<sched, strays>>
       ELSE /\ Close("failed") /\ strays' = strays \union {cycle.run}
    /\ UNCHANGED <<config, runs, failed, cmdVars>>

(* notify_monitoring_cycle, not for a cancelled cycle; the workflow returns   *)
(* or raises.                                                                *)
Notify ==
    /\ cycle.at = "notify"
    /\ Close(cycle.result)
    /\ UNCHANGED <<config, late, runs, strays, failed, losses, cmdVars>>

-----------------------------------------------------------------------------
ChatCommand(h) ==
    \/ \E r \in Requests : MonitorCreate(h, r) \/ MonitorUpdate(h, r)
    \/ MonitorPause(h) \/ MonitorResume(h) \/ MonitorRun(h) \/ MonitorCancelCurrent(h)
    \/ MonitorDelete(h) \/ MonitorDeleteConfirm(h)

CliCommand ==
    \/ \E r \in Requests : CliCreate(r) \/ CliUpdate(r)
    \/ CliScheduleAction \/ CliCancelCurrent \/ CliDelete \/ Reconcile

Step(c) ==
    \/ CallCreate(c) \/ CallPause(c, TRUE) \/ CallPause(c, FALSE) \/ CallRun(c)
    \/ CallUpdate(c) \/ CallDelete(c) \/ CallCancel(c)
    \/ RowCreate(c) \/ RowStatus(c, "pause", "paused") \/ RowStatus(c, "resume", "active")
    \/ RowUpdate(c) \/ RowDelete(c) \/ RowNext(c) \/ Mark(c) \/ Undo(c)

Trouble ==
    \/ \E c \in Callers : CallFails(c) \/ RowFails(c) \/ UndoFails(c)
    \/ Crash(Handlers) \/ Crash({"cli"}) \/ Crash({"worker"})
    \/ RegisterFails \/ DescribeFails \/ RepairFails \/ PauseFails

Repair == Describe \/ RepairMissing \/ RepairFlag \/ RepairSpec

CycleStep ==
    \/ StartRun \/ StartRefused \/ Work("completed") \/ Work("failed")
    \/ Cancelled("cancelled") \/ Cancelled("failed")
    \/ CompleteRun \/ CheckThreshold \/ PauseSchedule \/ PauseRow \/ Notify

(* Which steps of different parties are under way at the same time.          *)
Busy == {c \in Callers : caller[c] # Idle}
Pausing == {cycle.at, late.at} \cap {"pause", "pauseRow"} # {}
Rivals ==
    IF Cardinality(Busy) + (IF Pausing THEN 1 ELSE 0) < 2 THEN "none"
    ELSE IF \E c \in Busy : caller[c].op = "delete" THEN "delete" ELSE "some"

Steps ==
    \/ \E h \in Handlers : ChatCommand(h)
    \/ CliCommand \/ TokenExpires \/ Register \/ Repair
    \/ \E c \in Callers : Step(c)
    \/ Trouble
    \/ Tick \/ StartBuffered \/ CycleStep \/ LateStep \/ StartLost \/ CompleteLost

Watch == rivals' = IF rivals = "delete" \/ Rivals' = "none" THEN rivals ELSE Rivals'

Next == Steps /\ Watch

Spec == Init /\ [][Next]_vars

-----------------------------------------------------------------------------

Quiet == Busy = {} /\ ~Pausing /\ faults = 0

(* Chat, command line and worker create, register, pause, resume, update and *)
(* repair one monitor in any order of their calls: when all have finished,   *)
(* there is a schedule exactly when the row names one, it runs at the times  *)
(* the words of the row say, and what the row shows as paused does not run.  *)
(* Exempt are failing calls, a delete that overlaps another command, and, for *)
(* times and pause, commands that overlap.  (A schedule may be paused and the *)
(* row active: pause_on_failure and an update of a paused monitor do that.)   *)
StoresAgree ==
    Quiet =>
        /\ rivals # "delete" => (Live <=> sched.exists)
        /\ rivals = "none" /\ sched.exists => sched.spec = SpecOf(config.words)
        /\ rivals = "none" /\ config.status = "paused" => sched.paused

(* consecutive_failure_count counts the failed cycles since the last one     *)
(* that was not, each once; a lost answer of complete_monitoring_cycle may   *)
(* count one twice, so the threshold comes early by at most the lost ones.   *)
CountsFailures ==
    /\ config.failures <= Cardinality(failed) + losses
    /\ losses = 0 => config.failures = Cardinality(failed)

(* A row of monitoring_runs is not left running by a cycle that closed,      *)
(* whatever ended it, unless an attempt was lost or the owner cancelled a    *)
(* cycle that was starting or already ending.                                *)
RunRowsEnd ==
    \A r \in 1..Len(runs) : runs[r] = "running" => r = cycle.run \/ r \in strays

(* monitor reconcile --repair on a monitor nobody touches meanwhile, however  *)
(* row and schedule came to differ, leaves the row paused exactly when the    *)
(* schedule is, and the schedule running at the times of the row - or the     *)
(* row marked as not registered, because there is no schedule, or because    *)
(* its description failed, which the command cannot tell apart.  Exempt is a  *)
(* repair that ends in an exception, and a schedule that a failed cycle       *)
(* pauses after it was described.                                            *)
RepairEnds(me) ==
    \/ me.at \in {"missing", "unreachable"}
    \/ me.at = "spec" /\ sched.paused = me.saw.paused

RepairAgrees ==
    [][\A me \in {caller["cli"]} :
        (RepairEnds(me) /\ caller'["cli"] = Idle /\ rivals' = "none" /\ faults' = faults)
        => \/ /\ sched'.exists /\ ((config'.status = "paused") <=> sched'.paused)
              /\ sched'.spec = SpecOf(config'.words)
           \/ /\ config'.status = "registration_failed"
              /\ ~sched'.exists \/ me.at = "unreachable"]_vars

(* The words of the row mean the schedule they came from, and so do the      *)
(* words _spec_summary makes of it: parsing either again gives the same      *)
(* schedule, and the summary of it is a fixed point.  12am is midnight and   *)
(* 12pm is noon.                                                             *)
WordsMean(R) ==
    \A r \in {q \in R : Legal(q)} :
        /\ Legal(RowOf(r)) /\ SpecOf(RowOf(r)) = SpecOf(r)
        /\ SpecOf(Summary(SpecOf(r))) = SpecOf(r)
        /\ RowOf(Summary(SpecOf(r))) = Summary(SpecOf(r))
        /\ r.kind # "every" /\ r.clock.half # "" =>
              SpecOf(r).hour = (r.clock.h % 12) + (IF r.clock.half = "pm" THEN 12 ELSE 0)

(* The way from words to a schedule and back loses nothing, for every        *)
(* request a monitor can have been created with, and these are all.          *)
ComparedMean == WordsMean(Compared)
ConversionsAgree == Live => ComparedMean
=============================================================================
