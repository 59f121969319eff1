-------------------------- MODULE ParallelActivities --------------------------
(***************************************************************************)
(* ActivityTasks for a workflow that awaits several activities at once with *)
(* asyncio.gather: each has its own attempts, the first that fails for good *)
(* fails the gather, and nobody stops the others.  Attempts run on threads  *)
(* and go on when they are given up; their results are ignored.             *)
(***************************************************************************)
EXTENDS Integers

CONSTANTS Threads,      \* the worker's activity threads
          Attempts,     \* Attempts[a]: maximum_attempts of activity a
          MaxTroubles   \* bound: attempts that raise, die or are given up

(* A thread is none of the other places a task may be at. *)
ASSUME ThreadsAssumption == Threads \cap {"queue", "done", "failed"} = {}

VARIABLES task,     \* the awaited activities: attempts left, and who has each
          thread,   \* what each thread executes, where it is, its locals
          troubles

taskVars == <<task, thread, troubles>>

None == {"none"}   \* no content

(* nth is activity.info().attempt; todo and made are locals of the attempt. *)
Idle == [act |-> "none", at |-> "none", nth |-> 0, todo |-> {}, made |-> <<None, None>>]

Queued(acts) == [a \in acts |-> [left |-> Attempts[a], by |-> "queue"]]

At(t, act, p) == thread[t].act = act /\ thread[t].at = p

Pick(t) ==
    /\ thread[t] = Idle
    /\ \E a \in DOMAIN task :
         /\ task[a].by = "queue"
         /\ thread' = [thread EXCEPT ![t] = [Idle EXCEPT !.act = a, !.at = "start",
                                             !.nth = Attempts[a] - task[a].left + 1]]
         /\ task' = [task EXCEPT ![a].by = t]
    /\ UNCHANGED troubles

(* The service listens to t. *)
Heard(t) == thread[t].act \in DOMAIN task /\ task[thread[t].act].by = t

Resolved(t, outcome) == [task EXCEPT ![thread[t].act].by = outcome]

GivenUp(a) == IF task[a].left > 1 THEN [task EXCEPT ![a] = [left |-> @.left - 1, by |-> "queue"]]
              ELSE [task EXCEPT ![a].by = "failed"]

Set(t, attempt) == thread' = [thread EXCEPT ![t] = attempt] /\ UNCHANGED <<task, troubles>>
GoTo(t, p) == Set(t, [thread[t] EXCEPT !.at = p])

Return(t) ==
    /\ thread' = [thread EXCEPT ![t] = Idle]
    /\ task' = IF Heard(t) THEN Resolved(t, "done") ELSE task
    /\ UNCHANGED troubles

Raise(t) ==
    /\ thread' = [thread EXCEPT ![t] = Idle]
    /\ task' = IF Heard(t) THEN GivenUp(thread[t].act) ELSE task
    /\ UNCHANGED troubles

Trouble == troubles < MaxTroubles /\ troubles' = troubles + 1

(* The attempt is cut short: an error nothing in it handles, or a crash. *)
Die(t) ==
    /\ thread[t] # Idle /\ Trouble
    /\ thread' = [thread EXCEPT ![t] = Idle]
    /\ task' = IF Heard(t) THEN GivenUp(thread[t].act) ELSE task

(* A timeout: the thread goes on. *)
TimeOut(t) ==
    /\ Heard(t) /\ Trouble
    /\ task' = GivenUp(thread[t].act)
    /\ UNCHANGED thread

Awaited(outcome) == {a \in DOMAIN task : task[a].by = outcome}
=============================================================================
