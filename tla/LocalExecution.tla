--------------------------- MODULE LocalExecution ---------------------------
(***************************************************************************)
(* The local execution backend: one gateway process that keeps research    *)
(* jobs in SQLite, hands their ids to a bounded in-memory queue and runs    *)
(* them on worker threads (job_queue.py, execution/local_executor.py, the   *)
(* jobs table of repository.py), fed by the event workers that execute      *)
(* chat commands (event_handler.py) and driven through start, recovery,     *)
(* graceful shutdown and crash by main.py.                                  *)
(*                                                                          *)
(* Every Repository method holds the process-wide RLock for its whole       *)
(* transaction, so here each is one atomic step; what interleaves is the    *)
(* code between two calls.                                                  *)
(*                                                                          *)
(* Jobs are numbered in order of creation (created_at), 0 is "no job" in a  *)
(* worker or handler and the stop marker None in the queue.                 *)
(***************************************************************************)
EXTENDS Naturals, Sequences, FiniteSets

CONSTANTS NumJobs,      \* bound: /research commands that create a job
          Workers,      \* research worker threads (settings.worker_count)
          Handlers,     \* event worker threads (EventQueue.worker_count)
          QueueSize,    \* capacity of the job queue (settings.queue_size)
          Stages,       \* stages of the backend before the report exists
          MaxRestarts,  \* bound: crashes plus graceful stops
          MaxFaults     \* bound: repository calls that raise

ASSUME SizesAssumption ==
    /\ NumJobs \in Nat /\ Stages \in Nat
    /\ QueueSize \in Nat \ {0}
    /\ MaxRestarts \in Nat /\ MaxFaults \in Nat
    /\ IsFiniteSet(Workers)

Jobs == 1..NumJobs
Pill == 0
Terminal == {"completed", "failed", "cancelled"}
Statuses == {"absent", "queued", "running", "cancel_requested"} \union Terminal

VARIABLES
    \* the jobs table
    status,      \* status[j]
    cancelReq,   \* cancel_requested[j]
    paused,      \* paused[j]
    published,   \* number of published report versions of j
    \* the gateway process
    phase,       \* where main.run is
    queue,       \* JobQueue.queue
    pills,       \* stop markers JobQueue.shutdown has still to put
    recovering,  \* jobs JobQueue.recover has read and not yet enqueued
    \* the research worker threads
    pc,          \* where the thread is in _worker/_run_job
    held,        \* the job it took from the queue
    at,          \* stages of the backend it has entered
    claim,       \* the outcome it is about to announce
    \* the event worker threads
    hpc,         \* "idle", or the rest of a /research command
    hjob,        \* the job that command created
    \* history and bounds
    told,        \* told[j]: messages sent about j
    restarts, faults

db     == <<status, cancelReq, paused, published>>
proc   == <<phase, queue, pills, recovering>>
worker == <<pc, held, at, claim>>
handler == <<hpc, hjob>>
vars   == <<db, proc, worker, handler, told, restarts, faults>>

-----------------------------------------------------------------------------
(* The jobs table. *)

(* create_job: a new row, status queued. *)
InsertJob(j) ==
    /\ status' = [status EXCEPT ![j] = "queued"]
    /\ UNCHANGED <<cancelReq, paused, published>>

(* start_job: compare-and-set from queued. *)
MayStart(j) == status[j] = "queued" /\ ~cancelReq[j]

(* Mutant of MayEnd: the UPDATE without its status condition. *)
MayEndAlways(j, s) == TRUE

(* _set_terminal: a job that has ended keeps its outcome. *)
MayEnd(j, s) == status[j] \notin Terminal \/ status[j] = s

SetTerminal(j, s) ==
    /\ status' = [status EXCEPT ![j] = IF MayEnd(j, s) THEN s ELSE @]
    /\ cancelReq' = [cancelReq EXCEPT ![j] =
                        IF MayEnd(j, s) THEN s = "cancelled" ELSE @]
    /\ UNCHANGED <<paused, published>>

Tell(j, m) == told' = [told EXCEPT ![j] = @ \union {m}]

-----------------------------------------------------------------------------
(* Chat commands, run by the event workers while events are handled. *)

Serving == phase \in {"up", "draining"}

(* /research, first half: _submit_research creates the row. *)
CreateJob(h) ==
    /\ Serving /\ hpc[h] = "idle"
    /\ \E j \in Jobs : /\ status[j] = "absent"
                       /\ \A i \in Jobs : i < j => status[i] # "absent"
                       /\ InsertJob(j)
                       /\ hjob' = [hjob EXCEPT ![h] = j]
    /\ hpc' = [hpc EXCEPT ![h] = "submit"]
    /\ UNCHANGED <<proc, worker, told, restarts, faults>>

(* enqueue: put_nowait, refused when the queue is full. *)
HasRoom == Len(queue) < QueueSize

(* LocalExecutor.submit, the job fits. *)
SubmitJob(h) ==
    /\ hpc[h] = "submit" /\ HasRoom
    /\ queue' = Append(queue, hjob[h])
    /\ hpc' = [hpc EXCEPT ![h] = "idle"]
    /\ hjob' = [hjob EXCEPT ![h] = 0]
    /\ UNCHANGED <<db, phase, pills, recovering, worker, told, restarts, faults>>

(* Mutant of SubmitRefused: the result of enqueue is ignored. *)
SubmitRefusedUnnoticed(h) ==
    /\ hpc[h] = "submit" /\ ~HasRoom
    /\ hpc' = [hpc EXCEPT ![h] = "idle"]
    /\ hjob' = [hjob EXCEPT ![h] = 0]
    /\ UNCHANGED <<db, proc, worker, told, restarts, faults>>

(* LocalExecutor.submit, the queue is full: what follows is fail_job. *)
SubmitRefused(h) ==
    /\ hpc[h] = "submit" /\ ~HasRoom
    /\ hpc' = [hpc EXCEPT ![h] = "reject"]
    /\ UNCHANGED <<db, proc, worker, hjob, told, restarts, faults>>

RejectJob(h) ==
    /\ hpc[h] = "reject"
    /\ SetTerminal(hjob[h], "failed")
    /\ Tell(hjob[h], "rejected")
    /\ hpc' = [hpc EXCEPT ![h] = "idle"]
    /\ hjob' = [hjob EXCEPT ![h] = 0]
    /\ UNCHANGED <<proc, worker, restarts, faults>>

(* That fail_job raises: _route answers "command failed" and moves on. *)
RejectFaults(h) ==
    /\ hpc[h] = "reject" /\ faults < MaxFaults
    /\ faults' = faults + 1
    /\ hpc' = [hpc EXCEPT ![h] = "idle"]
    /\ hjob' = [hjob EXCEPT ![h] = 0]
    /\ UNCHANGED <<db, proc, worker, told, restarts>>

(* /cancel by the owner: cancel_job, one transaction, and its reply. *)
CancelReply(s) ==
    CASE s = "queued"                          -> "cancelled"
      [] s \in {"running", "cancel_requested"} -> "cancel_requested"
      [] s \in Terminal                        -> "terminal"

(* The owner learns the id of a job from the reply to the /research that     *)
(* created it, so a job still in a handler's hands is named by no command.   *)
Known(j) == status[j] # "absent" /\ \A h \in Handlers : hjob[h] # j

CancelJob(h, j) ==
    /\ Serving /\ hpc[h] = "idle" /\ Known(j)
    /\ LET reply == CancelReply(status[j]) IN
         /\ status' = [status EXCEPT ![j] = IF reply = "terminal" THEN @ ELSE reply]
         /\ cancelReq' = [cancelReq EXCEPT ![j] = @ \/ reply # "terminal"]
         /\ Tell(j, reply)
    /\ UNCHANGED <<paused, published, proc, worker, handler, restarts, faults>>

(* /pause and /resume by the owner: _set_pause. *)
SetPause(h, j) ==
    /\ Serving /\ hpc[h] = "idle" /\ Known(j)
    /\ status[j] \notin Terminal
    /\ paused' = [paused EXCEPT ![j] = ~@]
    /\ UNCHANGED <<status, cancelReq, published, proc, worker, handler, told,
                   restarts, faults>>

-----------------------------------------------------------------------------
(* The research worker threads. *)

Becomes(w, p) == pc' = [pc EXCEPT ![w] = p]

Release(w, p) ==
    /\ Becomes(w, p)
    /\ held' = [held EXCEPT ![w] = 0]
    /\ at' = [at EXCEPT ![w] = 0]
    /\ claim' = [claim EXCEPT ![w] = "none"]

(* queue.get: a stop marker ends the thread. *)
TakeJob(w) ==
    /\ pc[w] = "idle" /\ queue # <<>>
    /\ Becomes(w, IF Head(queue) = Pill THEN "stopped" ELSE "taken")
    /\ held' = [held EXCEPT ![w] = Head(queue)]
    /\ queue' = Tail(queue)
    /\ UNCHANGED <<db, phase, pills, recovering, at, claim, handler, told,
                   restarts, faults>>

StartJob(w) ==
    /\ pc[w] = "taken" /\ MayStart(held[w])
    /\ status' = [status EXCEPT ![held[w]] = "running"]
    /\ Becomes(w, "running")
    /\ UNCHANGED <<cancelReq, paused, published, proc, held, at, claim, handler,
                   told, restarts, faults>>

(* start_job changed no row: the job was cancelled while it waited. *)
SkipJob(w) ==
    /\ pc[w] = "taken" /\ ~MayStart(held[w])
    /\ Release(w, "idle")
    /\ UNCHANGED <<db, proc, handler, told, restarts, faults>>

(* stage(): the backend enters its next stage unless cancellation was asked. *)
EnterStage(w) ==
    /\ pc[w] = "running" /\ at[w] < Stages
    /\ ~cancelReq[held[w]]
    /\ at' = [at EXCEPT ![w] = @ + 1]
    /\ UNCHANGED <<db, proc, pc, held, claim, handler, told, restarts, faults>>

(* The last stage ends with the report validated and its version published. *)
PublishReport(w) ==
    /\ pc[w] = "running" /\ at[w] = Stages
    /\ published' = [published EXCEPT ![held[w]] = @ + 1]
    /\ Becomes(w, "reported")
    /\ UNCHANGED <<status, cancelReq, paused, proc, held, at, claim, handler,
                   told, restarts, faults>>

(* stage("completed") and the check after backend.run, nothing asked. *)
LastCheck(w) ==
    /\ pc[w] = "reported" /\ ~cancelReq[held[w]]
    /\ Becomes(w, "finishing")
    /\ UNCHANGED <<db, proc, held, at, claim, handler, told, restarts, faults>>

(* Mutant of SeeCancel: the check at the end of the run only guards          *)
(* complete_job, it does not raise.                                          *)
SeeCancelInStages(w) ==
    /\ pc[w] = "running" /\ cancelReq[held[w]]
    /\ Becomes(w, "cancelling")
    /\ UNCHANGED <<db, proc, held, at, claim, handler, told, restarts, faults>>

(* Any check that finds the flag raises AgentCancelled. *)
SeeCancel(w) ==
    /\ pc[w] \in {"running", "reported"} /\ cancelReq[held[w]]
    /\ Becomes(w, "cancelling")
    /\ UNCHANGED <<db, proc, held, at, claim, handler, told, restarts, faults>>

(* Any other exception of the backend. *)
BackendFails(w) ==
    /\ pc[w] \in {"running", "reported"}
    /\ Becomes(w, "failing")
    /\ UNCHANGED <<db, proc, held, at, claim, handler, told, restarts, faults>>

(* complete_job, mark_cancelled or fail_job, each followed by _notify. *)
OutcomeOf(p) == CASE p = "finishing"  -> "completed"
                  [] p = "cancelling" -> "cancelled"
                  [] p = "failing"    -> "failed"

EndJob(w) ==
    /\ pc[w] \in {"finishing", "cancelling", "failing"}
    /\ SetTerminal(held[w], OutcomeOf(pc[w]))
    /\ claim' = [claim EXCEPT ![w] = OutcomeOf(pc[w])]
    /\ Becomes(w, "notifying")
    /\ UNCHANGED <<proc, held, at, handler, told, restarts, faults>>

Notify(w) ==
    /\ pc[w] = "notifying"
    /\ Tell(held[w], claim[w])
    /\ Release(w, "idle")
    /\ UNCHANGED <<db, proc, handler, restarts, faults>>

(* A repository call of the thread raises.  complete_job runs inside the     *)
(* try of _run_job, whose handler calls fail_job; start_job, get_job and the *)
(* calls of the handlers reach _worker's own handler; one raised there ends  *)
(* the thread.                                                               *)
AfterFault(p) == CASE p = "finishing" -> "failing"
                   [] p = "fault"     -> "dead"
                   [] OTHER           -> "fault"

WorkerFaults(w) ==
    /\ faults < MaxFaults
    /\ \/ pc[w] \in {"taken", "finishing", "cancelling", "failing", "fault"}
       \/ pc[w] = "running" /\ at[w] = 0
    /\ faults' = faults + 1
    /\ IF pc[w] = "fault" THEN Release(w, "dead")
       ELSE Becomes(w, AfterFault(pc[w])) /\ UNCHANGED <<held, at, claim>>
    /\ UNCHANGED <<db, proc, handler, told, restarts>>

(* _worker's handler: fail_job, and no message. *)
FailUnhandled(w) ==
    /\ pc[w] = "fault"
    /\ SetTerminal(held[w], "failed")
    /\ Release(w, "idle")
    /\ UNCHANGED <<proc, handler, told, restarts, faults>>

-----------------------------------------------------------------------------
(* The life of the process. *)

AllWorkers(p) == pc' = [w \in Workers |-> p]

ForgetThreads ==
    /\ held' = [w \in Workers |-> 0]
    /\ at' = [w \in Workers |-> 0]
    /\ claim' = [w \in Workers |-> "none"]
    /\ hpc' = [h \in Handlers |-> "idle"]
    /\ hjob' = [h \in Handlers |-> 0]

(* Mutant of Requeued: running jobs are not returned to the queue. *)
RequeuedNever(s) == s

(* main.run up to the query of recover(): the workers start, every running   *)
(* job becomes queued again and the queued ones without a cancellation are   *)
(* read.                                                                     *)
Requeued(s) == IF s = "running" THEN "queued" ELSE s

Start ==
    /\ phase \in {"down", "exited"}
    /\ phase' = "starting"
    /\ AllWorkers("idle")
    /\ status' = [j \in Jobs |-> Requeued(status[j])]
    /\ recovering' = {j \in Jobs : Requeued(status[j]) = "queued" /\ ~cancelReq[j]}
    /\ UNCHANGED <<cancelReq, paused, published, queue, pills, held, at, claim,
                   handler, told, restarts, faults>>

(* Mutant of RecoverJob: the job is queued again on the next turn. *)
RecoverJobTwice ==
    /\ phase = "starting"
    /\ \E j \in recovering :
         /\ \A i \in recovering : j <= i
         /\ HasRoom
         /\ queue' = Append(queue, j)
    /\ UNCHANGED <<db, phase, pills, recovering, worker, handler, told, restarts, faults>>

(* recover(): oldest first; a job that does not fit is failed. *)
RecoverJob ==
    /\ phase = "starting"
    /\ \E j \in recovering :
         /\ \A i \in recovering : j <= i
         /\ recovering' = recovering \ {j}
         /\ \/ /\ HasRoom
               /\ queue' = Append(queue, j)
               /\ UNCHANGED db
            \/ /\ ~HasRoom
               /\ SetTerminal(j, "failed")
               /\ UNCHANGED queue
    /\ UNCHANGED <<phase, pills, worker, handler, told, restarts, faults>>

(* A call of recover() raises: the query, or the fail_job of a job that does  *)
(* not fit.  main.run ends there, before the event workers exist, and nobody *)
(* enqueues the rest of the list; the research workers are no daemon threads *)
(* and keep the process alive with what is in the queue.                     *)
QueryFaults ==
    /\ phase \in {"down", "exited"} /\ faults < MaxFaults
    /\ faults' = faults + 1
    /\ phase' = "stranded"
    /\ AllWorkers("idle")
    /\ UNCHANGED <<db, queue, pills, recovering, held, at, claim, handler, told, restarts>>

RecoverFaults ==
    /\ phase = "starting" /\ recovering # {} /\ ~HasRoom /\ faults < MaxFaults
    /\ faults' = faults + 1
    /\ phase' = "stranded"
    /\ recovering' = {}
    /\ UNCHANGED <<db, queue, pills, worker, handler, told, restarts>>

Recovered ==
    /\ phase = "starting" /\ recovering = {}
    /\ phase' = "up"
    /\ UNCHANGED <<db, queue, pills, recovering, worker, handler, told,
                   restarts, faults>>

(* SIGTERM: EventQueue.shutdown refuses new events and joins the queue. *)
BeginShutdown ==
    /\ phase = "up" /\ restarts < MaxRestarts
    /\ phase' = "draining"
    /\ restarts' = restarts + 1
    /\ UNCHANGED <<db, queue, pills, recovering, worker, handler, told, faults>>

(* Then JobQueue.shutdown: one stop marker per worker, at the queue's end. *)
EventsDrained ==
    /\ phase = "draining" /\ \A h \in Handlers : hpc[h] = "idle"
    /\ phase' = "stopping"
    /\ pills' = Cardinality(Workers)
    /\ UNCHANGED <<db, queue, recovering, worker, handler, told, restarts, faults>>

(* Mutant of PutPill: stop markers are put until the queue is full. *)
PutPillForever ==
    /\ phase = "stopping" /\ HasRoom
    /\ queue' = Append(queue, Pill)
    /\ pills' = pills - 1
    /\ UNCHANGED <<db, phase, recovering, worker, handler, told, restarts, faults>>

PutPill ==
    /\ phase = "stopping" /\ pills > 0 /\ HasRoom
    /\ queue' = Append(queue, Pill)
    /\ pills' = pills - 1
    /\ UNCHANGED <<db, phase, recovering, worker, handler, told, restarts, faults>>

(* The workers are joined, the repository is closed, the process exits. *)
Exit ==
    /\ phase = "stopping" /\ pills = 0
    /\ \A w \in Workers : pc[w] \in {"stopped", "dead"}
    /\ phase' = "exited"
    /\ AllWorkers("off")
    /\ queue' = <<>>
    /\ ForgetThreads
    /\ UNCHANGED <<db, pills, recovering, told, restarts, faults>>

(* The process dies anywhere: only the database is left.  One whose main     *)
(* thread has ended is killed some day, or hangs.                            *)
Crash ==
    /\ \/ /\ phase \in {"starting", "up", "draining", "stopping"}
          /\ restarts < MaxRestarts
          /\ restarts' = restarts + 1
       \/ phase = "stranded" /\ UNCHANGED restarts
    /\ phase' = "down"
    /\ AllWorkers("off")
    /\ queue' = <<>> /\ pills' = 0 /\ recovering' = {}
    /\ ForgetThreads
    /\ UNCHANGED <<db, told, faults>>

-----------------------------------------------------------------------------
Init ==
    /\ status = [j \in Jobs |-> "absent"]
    /\ cancelReq = [j \in Jobs |-> FALSE]
    /\ paused = [j \in Jobs |-> FALSE]
    /\ published = [j \in Jobs |-> 0]
    /\ phase = "down"
    /\ queue = <<>> /\ pills = 0 /\ recovering = {}
    /\ pc = [w \in Workers |-> "off"]
    /\ held = [w \in Workers |-> 0]
    /\ at = [w \in Workers |-> 0]
    /\ claim = [w \in Workers |-> "none"]
    /\ hpc = [h \in Handlers |-> "idle"]
    /\ hjob = [h \in Handlers |-> 0]
    /\ told = [j \in Jobs |-> {}]
    /\ restarts = 0 /\ faults = 0

(* The steps a thread takes on its own, without a new command or a failure. *)
WorkerStep(w) ==
    \/ TakeJob(w) \/ StartJob(w) \/ SkipJob(w) \/ EnterStage(w)
    \/ PublishReport(w) \/ LastCheck(w) \/ SeeCancel(w) \/ EndJob(w)
    \/ Notify(w) \/ FailUnhandled(w)

HandlerStep(h) == SubmitJob(h) \/ SubmitRefused(h) \/ RejectJob(h)

MainStep == Start \/ RecoverJob \/ Recovered \/ EventsDrained \/ PutPill \/ Exit

Command(h) == CreateJob(h) \/ \E j \in Jobs : CancelJob(h, j) \/ SetPause(h, j)

Next ==
    \/ \E w \in Workers : WorkerStep(w) \/ BackendFails(w) \/ WorkerFaults(w)
    \/ \E h \in Handlers : HandlerStep(h) \/ Command(h) \/ RejectFaults(h)
    \/ MainStep \/ QueryFaults \/ RecoverFaults \/ BeginShutdown \/ Crash

Spec == Init /\ [][Next]_vars

(* Every thread that can step eventually does, and a service that died is    *)
(* started again (Restart=on-failure in deploy/feishu-agent-bot.service); one *)
(* that was stopped, commands, faults, crashes and SIGTERM may never come.   *)
Fairness ==
    /\ \A w \in Workers : WF_vars(WorkerStep(w))
    /\ \A h \in Handlers : WF_vars(HandlerStep(h))
    /\ WF_vars(phase # "exited" /\ MainStep)

FairSpec == Spec /\ Fairness

-----------------------------------------------------------------------------
(* Properties. *)

Pcs == {"off", "idle", "taken", "running", "reported", "finishing", "cancelling",
        "failing", "notifying", "fault", "dead", "stopped"}

TypeOK ==
    /\ status \in [Jobs -> Statuses]
    /\ cancelReq \in [Jobs -> BOOLEAN]
    /\ paused \in [Jobs -> BOOLEAN]
    /\ published \in [Jobs -> Nat]
    /\ phase \in {"down", "starting", "up", "draining", "stopping", "exited", "stranded"}
    /\ queue \in Seq(Jobs \union {Pill})
    /\ pills \in Nat
    /\ recovering \in SUBSET Jobs
    /\ pc \in [Workers -> Pcs]
    /\ held \in [Workers -> Jobs \union {0}]
    /\ at \in [Workers -> 0..Stages]
    /\ claim \in [Workers -> Terminal \union {"none"}]
    /\ hpc \in [Handlers -> {"idle", "submit", "reject"}]
    /\ hjob \in [Handlers -> Jobs \union {0}]
    /\ told \in [Jobs -> SUBSET (Terminal \union
                                {"rejected", "cancel_requested", "terminal"})]
    /\ restarts \in Nat /\ faults \in Nat

Contract == INSTANCE JobContract

(* The local backend keeps the contract of JobContract: an ended job keeps   *)
(* its outcome whatever is cancelled, retried or recovered around it, and no *)
(* message of a handler or a worker is ever contradicted by the jobs table.  *)
Implements == Contract!Contract

(* A job id is in one place at a time - the queue, one worker, one handler,  *)
(* or the list recover() is working through - so no job is run by two        *)
(* threads and none is run again while an earlier run is being wound up.     *)
InQueue == {queue[i] : i \in 1..Len(queue)}
Held == {held[w] : w \in Workers}
Submitted == {hjob[h] : h \in Handlers}

OnePlace ==
    /\ \A i, k \in 1..Len(queue) : queue[i] = queue[k] => i = k \/ queue[i] = Pill
    /\ \A v, w \in Workers : held[v] = held[w] => v = w \/ held[v] = 0
    /\ \A g, h \in Handlers : hjob[g] = hjob[h] => g = h \/ hjob[g] = 0
    /\ \A j \in Jobs :
          /\ j \in InQueue => j \notin Held \union Submitted \union recovering
          /\ j \in Held => j \notin Submitted \union recovering
          /\ j \in Submitted => j \notin recovering

(* A job the table calls queued or running is known to the process that must *)
(* finish it: each failed repository call loses at most one - but for those   *)
(* of recover(), after which all jobs it had not enqueued wait for the next   *)
(* start of a process that does not end by itself.  A worker that stops has   *)
(* seen the queue's jobs taken, all of them, so a graceful stop leaves queued *)
(* jobs to the next start only if every worker died before.                  *)
Lost == {j \in Jobs : /\ status[j] \in {"queued", "running"}
                      /\ j \notin InQueue \union Held \union Submitted \union recovering}

NoJobLost ==
    /\ phase \notin {"down", "exited", "stranded"} => Cardinality(Lost) <= faults
    /\ (\E w \in Workers : pc[w] = "stopped") => InQueue \intersect Jobs = {}

(* Once queued a job reaches an outcome, or a cancellation request, whatever *)
(* crashes come in between.                                                  *)
EveryJobSettles ==
    \A j \in Jobs : (status[j] = "queued" /\ phase # "exited")
        ~> (status[j] \in Terminal \union {"cancel_requested"} \/ phase = "exited")

(* "The cancellation was submitted, the task will be cancelled after the     *)
(* current stage": a requested cancellation comes to an end, in a process    *)
(* that lives long enough.                                                   *)
CancelEnds ==
    \A j \in Jobs : status[j] = "cancel_requested"
        ~> (status[j] \in Terminal \/ restarts > 0)
=============================================================================
