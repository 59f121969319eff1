---------------------------- MODULE ActivityTasks ----------------------------
(***************************************************************************)
(* How Temporal runs the activities of one workflow, as temporal/workflows  *)
(* and temporal/worker.py use it: the workflow awaits one activity at a     *)
(* time, the service hands each attempt to a thread of the worker's pool,   *)
(* and an attempt that is not heard of in time is given up and retried up   *)
(* to the maximum_attempts of its retry policy.                             *)
(*                                                                         *)
(* Activities are synchronous functions on threads, so an attempt that was  *)
(* given up is not interrupted: it goes on next to its own retry, and what  *)
(* it still writes to SQLite is written.  Only its result is ignored.       *)
(***************************************************************************)
EXTENDS Naturals

CONSTANTS Threads,      \* the worker's activity threads (settings.worker_count)
          MaxTimeouts,  \* bound: attempts given up while their thread goes on
          MaxLosses     \* bound: attempts that raise, and worker crashes

(* A thread is none of the other places a task may be at. *)
ASSUME ThreadsAssumption ==
    Threads \cap {"queue", "done", "failed", "rejected", "lost", "closed"} = {}

VARIABLES task,    \* the activity the workflow awaits, its attempts left, and
                   \* who has it: the queue, a thread, or nobody any more
          thread,  \* thread[t]: the attempt t executes, where it is, and what
                   \* it has read
          timeouts, losses

taskVars == <<task, thread, timeouts, losses>>

Idle == [act |-> "none", at |-> "none", read |-> {}]

(* The workflow calls execute_activity with a retry policy of n attempts. *)
Queued(a, n) == [act |-> a, left |-> n, by |-> "queue"]

(* A free thread takes the task from the queue. *)
Pick(t) ==
    /\ task.by = "queue" /\ thread[t] = Idle
    /\ thread' = [thread EXCEPT ![t] = [Idle EXCEPT !.act = task.act, !.at = "start"]]
    /\ task' = [task EXCEPT !.by = t]
    /\ UNCHANGED <<timeouts, losses>>

At(t, a, p) == thread[t].act = a /\ thread[t].at = p

(* The attempt goes on, knowing what it read. *)
GoTo(t, p, read) ==
    /\ thread' = [thread EXCEPT ![t].at = p, ![t].read = read]
    /\ UNCHANGED <<task, timeouts, losses>>

(* The attempt returns; only the attempt the service waits for is heard. *)
Return(t) ==
    /\ thread' = [thread EXCEPT ![t] = Idle]
    /\ task' = IF task.by = t THEN [task EXCEPT !.by = "done"] ELSE task
    /\ UNCHANGED <<timeouts, losses>>

(* One attempt of the awaited task is over without a result. *)
GivenUp == IF task.left > 1 THEN [task EXCEPT !.left = @ - 1, !.by = "queue"]
           ELSE [task EXCEPT !.left = 0, !.by = "failed"]

(* The attempt raises an error the retry policy retries. *)
Raise(t) ==
    /\ thread' = [thread EXCEPT ![t] = Idle]
    /\ task' = IF task.by = t THEN GivenUp ELSE task
    /\ UNCHANGED <<timeouts, losses>>

(* The attempt raises one of NON_RETRYABLE_ERRORS. *)
RaiseFinal(t) ==
    /\ thread' = [thread EXCEPT ![t] = Idle]
    /\ task' = IF task.by = t THEN [task EXCEPT !.left = 0, !.by = "rejected"] ELSE task
    /\ UNCHANGED <<timeouts, losses>>

(* A repository, model or network error anywhere in an attempt. *)
Fault(t) ==
    /\ thread[t] # Idle /\ losses < MaxLosses
    /\ losses' = losses + 1
    /\ thread' = [thread EXCEPT ![t] = Idle]
    /\ task' = IF task.by = t THEN GivenUp ELSE task
    /\ UNCHANGED timeouts

(* start_to_close_timeout or heartbeat_timeout: the thread goes on. *)
TimeOut ==
    /\ task.by \in Threads /\ timeouts < MaxTimeouts
    /\ timeouts' = timeouts + 1
    /\ task' = GivenUp
    /\ UNCHANGED <<thread, losses>>

(* The worker process dies and is started again; the attempt it had is given *)
(* up when its timeout passes.                                               *)
WorkerCrash ==
    /\ losses < MaxLosses
    /\ losses' = losses + 1
    /\ thread' = [t \in Threads |-> Idle]
    /\ task' = IF task.by \in Threads THEN [task EXCEPT !.by = "lost"] ELSE task
    /\ UNCHANGED timeouts

LossNoticed ==
    /\ task.by = "lost"
    /\ task' = GivenUp
    /\ UNCHANGED <<thread, timeouts, losses>>
=============================================================================
