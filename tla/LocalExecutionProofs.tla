------------------------ MODULE LocalExecutionProofs ------------------------
(***************************************************************************)
(* That the local backend keeps JobContract, for any number of jobs,       *)
(* workers, handlers, crashes and repository failures.                     *)
(***************************************************************************)
EXTENDS LocalExecution, FiniteSetTheorems, TLAPS

Empty  == {"off", "idle", "dead", "stopped"}
Active == {"running", "reported", "finishing", "cancelling", "failing"}

(* A process that is not running holds nothing. *)
DownIsClean ==
    phase \in {"down", "exited"} =>
        /\ queue = <<>> /\ recovering = {}
        /\ \A w \in Workers : pc[w] = "off"
        /\ \A h \in Handlers : hpc[h] = "idle"

(* A thread has a job in hand exactly while it works on one. *)
HandsFull ==
    /\ \A w \in Workers : pc[w] \in Empty <=> held[w] = 0
    /\ \A h \in Handlers : hpc[h] = "idle" <=> hjob[h] = 0
    /\ recovering # {} => phase = "starting"

(* What the jobs table says of a job, by the place the job is in. *)
RowOfWorker(w) ==
    /\ pc[w] = "taken" => status[held[w]] \in {"queued", "cancelled"}
    /\ pc[w] \in Active => status[held[w]] \in {"running", "cancel_requested"}
    /\ pc[w] = "notifying" => claim[w] \in Terminal /\ status[held[w]] = claim[w]
    /\ pc[w] = "fault" => status[held[w]] # "absent"

RowsMatchPlaces ==
    /\ \A i \in 1..Len(queue) :
          queue[i] # Pill => status[queue[i]] \in {"queued", "cancelled"}
    /\ \A j \in recovering : status[j] = "queued"
    /\ \A h \in Handlers : hjob[h] # 0 => status[hjob[h]] = "queued"
    /\ \A w \in Workers : RowOfWorker(w)

IInv == TypeOK /\ OnePlace /\ DownIsClean /\ HandsFull /\ RowsMatchPlaces
-----------------------------------------------------------------------------
(* The invariant holds of an installation that has never run. *)
LEMMA InitInv == Init => IInv
  BY SizesAssumption
  DEF Init, IInv, TypeOK, OnePlace, DownIsClean, HandsFull, RowsMatchPlaces,
      RowOfWorker, InQueue, Held, Submitted, Jobs, Pill, Statuses, Terminal,
      Pcs, Empty, Active

(* An UPDATE to a terminal status keeps the columns typed. *)
LEMMA TerminalTypes ==
    ASSUME TypeOK, NEW j, NEW s \in Terminal, SetTerminal(j, s)
    PROVE  status' \in [Jobs -> Statuses] /\ cancelReq' \in [Jobs -> BOOLEAN]
  <1>1. status' \in [Jobs -> Statuses]
    BY DEF TypeOK, SetTerminal, Statuses
  <1>2. (s = "cancelled") \in BOOLEAN
    OBVIOUS
  <1>3. cancelReq' \in [Jobs -> BOOLEAN]
    BY <1>2 DEF TypeOK, SetTerminal
  <1>. QED BY <1>1, <1>3

(* A thread that works has a job in hand. *)
LEMMA BusyHoldsJob ==
    ASSUME TypeOK, HandsFull, NEW w \in Workers, pc[w] \notin Empty
    PROVE  held[w] \in Jobs
  BY DEF TypeOK, HandsFull

(* Every step keeps the types. *)
LEMMA TypeStep == IInv /\ [Next]_vars => TypeOK'
  <1> SUFFICES ASSUME IInv, [Next]_vars PROVE TypeOK'
    OBVIOUS
  <1> USE SizesAssumption
      DEF IInv, TypeOK, Statuses, Terminal, Pcs, Pill, db, proc, worker, handler
  <1>1. ASSUME NEW h \in Handlers, CreateJob(h) PROVE TypeOK'
    BY <1>1 DEF CreateJob, InsertJob
  <1>2. ASSUME NEW h \in Handlers, SubmitJob(h) PROVE TypeOK'
    BY <1>2 DEF SubmitJob
  <1>3. ASSUME NEW h \in Handlers, SubmitRefused(h) PROVE TypeOK'
    BY <1>3 DEF SubmitRefused
  <1>4. ASSUME NEW h \in Handlers, RejectJob(h) PROVE TypeOK'
    BY <1>4 DEF RejectJob, SetTerminal, Tell
  <1>5. ASSUME NEW h \in Handlers, RejectFaults(h) PROVE TypeOK'
    BY <1>5 DEF RejectFaults
  <1>6. ASSUME NEW h \in Handlers, NEW j \in Jobs, CancelJob(h, j) PROVE TypeOK'
    BY <1>6 DEF CancelJob, CancelReply, Tell, Known
  <1>7. ASSUME NEW h \in Handlers, NEW j \in Jobs, SetPause(h, j) PROVE TypeOK'
    BY <1>7 DEF SetPause
  <1>8. ASSUME NEW w \in Workers, TakeJob(w) PROVE TypeOK'
    BY <1>8 DEF TakeJob, Becomes
  <1>9. ASSUME NEW w \in Workers, StartJob(w) PROVE TypeOK'
    BY <1>9 DEF StartJob, Becomes
  <1>10. ASSUME NEW w \in Workers, SkipJob(w) PROVE TypeOK'
    BY <1>10 DEF SkipJob, Release, Becomes
  <1>11. ASSUME NEW w \in Workers, EnterStage(w) PROVE TypeOK'
    BY <1>11 DEF EnterStage
  <1>12. ASSUME NEW w \in Workers, PublishReport(w) PROVE TypeOK'
    <2>1. held[w] \in Jobs
      BY <1>12, BusyHoldsJob DEF PublishReport, Empty
    <2>2. published' \in [Jobs -> Nat]
      BY <1>12, <2>1 DEF PublishReport
    <2>. QED BY <1>12, <2>2 DEF PublishReport, Becomes
  <1>13. ASSUME NEW w \in Workers, LastCheck(w) PROVE TypeOK'
    BY <1>13 DEF LastCheck, Becomes
  <1>14. ASSUME NEW w \in Workers, SeeCancel(w) PROVE TypeOK'
    BY <1>14 DEF SeeCancel, Becomes
  <1>15. ASSUME NEW w \in Workers, BackendFails(w) PROVE TypeOK'
    BY <1>15 DEF BackendFails, Becomes
  <1>16. ASSUME NEW w \in Workers, EndJob(w) PROVE TypeOK'
    BY <1>16 DEF EndJob, Becomes, SetTerminal, OutcomeOf
  <1>17. ASSUME NEW w \in Workers, Notify(w) PROVE TypeOK'
    <2>1. held[w] \in Jobs /\ claim[w] \in Terminal
      BY <1>17, BusyHoldsJob DEF Notify, Empty, RowsMatchPlaces, RowOfWorker
    <2>2. told' \in [Jobs -> SUBSET (Terminal \union
                            {"rejected", "cancel_requested", "terminal"})]
      BY <1>17, <2>1 DEF Notify, Tell
    <2>. QED BY <1>17, <2>2 DEF Notify, Release, Becomes
  <1>18. ASSUME NEW w \in Workers, WorkerFaults(w) PROVE TypeOK'
    <2>0. faults' \in Nat /\ UNCHANGED <<db, proc, handler, told, restarts>>
      BY <1>18 DEF WorkerFaults
    <2>1. CASE pc[w] = "fault"
      <3>1. Release(w, "dead")
        BY <1>18, <2>1 DEF WorkerFaults
      <3>. QED BY <2>0, <3>1 DEF Release, Becomes
    <2>2. CASE pc[w] # "fault"
      <3>1. AfterFault(pc[w]) \in Pcs
        BY <2>2 DEF AfterFault
      <3>2. pc' = [pc EXCEPT ![w] = AfterFault(pc[w])] /\ UNCHANGED <<held, at, claim>>
        BY <1>18, <2>2 DEF WorkerFaults, Becomes
      <3>. QED BY <2>0, <3>1, <3>2
    <2>. QED BY <2>1, <2>2
  <1>19. ASSUME NEW w \in Workers, FailUnhandled(w) PROVE TypeOK'
    <2>1. SetTerminal(held[w], "failed") /\ Release(w, "idle")
      BY <1>19 DEF FailUnhandled
    <2>2. status' \in [Jobs -> Statuses] /\ cancelReq' \in [Jobs -> BOOLEAN]
      BY <2>1, TerminalTypes
    <2>. QED BY <1>19, <2>1, <2>2 DEF FailUnhandled, SetTerminal, Release, Becomes
  <1>20. ASSUME Start PROVE TypeOK'
    BY <1>20 DEF Start, AllWorkers, Requeued
  <1>21. ASSUME RecoverJob PROVE TypeOK'
    <2>1. ASSUME NEW j \in recovering, queue' = Append(queue, j), UNCHANGED db
          PROVE  TypeOK'
      BY <1>21, <2>1 DEF RecoverJob
    <2>2. ASSUME NEW j \in recovering, SetTerminal(j, "failed"), UNCHANGED queue
          PROVE  TypeOK'
      <3>1. status' \in [Jobs -> Statuses] /\ cancelReq' \in [Jobs -> BOOLEAN]
        BY <2>2, TerminalTypes
      <3>. QED BY <1>21, <2>2, <3>1 DEF RecoverJob, SetTerminal
    <2>. QED BY <1>21, <2>1, <2>2 DEF RecoverJob
  <1>22. ASSUME Recovered PROVE TypeOK'
    BY <1>22 DEF Recovered
  <1>23. ASSUME BeginShutdown PROVE TypeOK'
    BY <1>23 DEF BeginShutdown
  <1>24. ASSUME EventsDrained PROVE TypeOK'
    BY <1>24, FS_CardinalityType DEF EventsDrained
  <1>25. ASSUME PutPill PROVE TypeOK'
    BY <1>25 DEF PutPill
  <1>26. ASSUME Exit PROVE TypeOK'
    BY <1>26 DEF Exit, AllWorkers, ForgetThreads
  <1>27. ASSUME Crash PROVE TypeOK'
    BY <1>27 DEF Crash, AllWorkers, ForgetThreads
  <1>29. ASSUME QueryFaults PROVE TypeOK'
    BY <1>29 DEF QueryFaults, AllWorkers
  <1>30. ASSUME RecoverFaults PROVE TypeOK'
    BY <1>30 DEF RecoverFaults
  <1>28. CASE UNCHANGED vars
    BY <1>28 DEF vars
  <1>. QED
    BY <1>1, <1>2, <1>3, <1>4, <1>5, <1>6, <1>7, <1>8, <1>9, <1>10,
         <1>11, <1>12, <1>13, <1>14, <1>15, <1>16, <1>17, <1>18,
         <1>19, <1>20, <1>21, <1>22, <1>23, <1>24, <1>25, <1>26,
         <1>27, <1>28, <1>29, <1>30
    DEF Next, WorkerStep, HandlerStep, Command, MainStep

(* Every step keeps the hands of the threads in order. *)
LEMMA HandsStep == IInv /\ [Next]_vars => DownIsClean' /\ HandsFull'
  <1> SUFFICES ASSUME IInv, [Next]_vars PROVE DownIsClean' /\ HandsFull'
    OBVIOUS
  <1> USE DEF IInv, TypeOK, DownIsClean, HandsFull, Empty, Pcs, Jobs, Pill,
              db, proc, worker, handler
  <1>1. ASSUME NEW h \in Handlers, CreateJob(h) PROVE DownIsClean' /\ HandsFull'
    BY <1>1 DEF CreateJob, Serving
  <1>2. ASSUME NEW h \in Handlers, SubmitJob(h) PROVE DownIsClean' /\ HandsFull'
    BY <1>2 DEF SubmitJob
  <1>3. ASSUME NEW h \in Handlers, SubmitRefused(h) PROVE DownIsClean' /\ HandsFull'
    BY <1>3 DEF SubmitRefused
  <1>4. ASSUME NEW h \in Handlers, RejectJob(h) PROVE DownIsClean' /\ HandsFull'
    BY <1>4 DEF RejectJob
  <1>5. ASSUME NEW h \in Handlers, RejectFaults(h) PROVE DownIsClean' /\ HandsFull'
    BY <1>5 DEF RejectFaults
  <1>6. ASSUME NEW h \in Handlers, NEW j \in Jobs, CancelJob(h, j) PROVE DownIsClean' /\ HandsFull'
    BY <1>6 DEF CancelJob
  <1>7. ASSUME NEW h \in Handlers, NEW j \in Jobs, SetPause(h, j) PROVE DownIsClean' /\ HandsFull'
    BY <1>7 DEF SetPause
  <1>8. ASSUME NEW w \in Workers, TakeJob(w) PROVE DownIsClean' /\ HandsFull'
    BY <1>8 DEF TakeJob, Becomes
  <1>9. ASSUME NEW w \in Workers, StartJob(w) PROVE DownIsClean' /\ HandsFull'
    BY <1>9 DEF StartJob, Becomes
  <1>10. ASSUME NEW w \in Workers, SkipJob(w) PROVE DownIsClean' /\ HandsFull'
    BY <1>10 DEF SkipJob, Release, Becomes
  <1>11. ASSUME NEW w \in Workers, EnterStage(w) PROVE DownIsClean' /\ HandsFull'
    BY <1>11 DEF EnterStage
  <1>12. ASSUME NEW w \in Workers, PublishReport(w) PROVE DownIsClean' /\ HandsFull'
    BY <1>12 DEF PublishReport, Becomes
  <1>13. ASSUME NEW w \in Workers, LastCheck(w) PROVE DownIsClean' /\ HandsFull'
    BY <1>13 DEF LastCheck, Becomes
  <1>14. ASSUME NEW w \in Workers, SeeCancel(w) PROVE DownIsClean' /\ HandsFull'
    BY <1>14 DEF SeeCancel, Becomes
  <1>15. ASSUME NEW w \in Workers, BackendFails(w) PROVE DownIsClean' /\ HandsFull'
    BY <1>15 DEF BackendFails, Becomes
  <1>16. ASSUME NEW w \in Workers, EndJob(w) PROVE DownIsClean' /\ HandsFull'
    BY <1>16 DEF EndJob, Becomes
  <1>17. ASSUME NEW w \in Workers, Notify(w) PROVE DownIsClean' /\ HandsFull'
    BY <1>17 DEF Notify, Release, Becomes
  <1>18. ASSUME NEW w \in Workers, WorkerFaults(w) PROVE DownIsClean' /\ HandsFull'
    <2>3. /\ pc[w] \notin Empty
          /\ UNCHANGED <<db, proc, handler, told, restarts>>
      BY <1>18 DEF WorkerFaults
    <2>1. CASE pc[w] = "fault"
      <3>1. Release(w, "dead")
        BY <1>18, <2>1 DEF WorkerFaults
      <3>. QED BY <2>3, <3>1 DEF Release, Becomes
    <2>2. CASE pc[w] # "fault"
      <3>1. AfterFault(pc[w]) \in Pcs \ Empty
        BY <2>2 DEF AfterFault
      <3>2. pc' = [pc EXCEPT ![w] = AfterFault(pc[w])] /\ UNCHANGED held
        BY <1>18, <2>2 DEF WorkerFaults, Becomes
      <3>. QED BY <2>3, <3>1, <3>2
    <2>. QED BY <2>1, <2>2
  <1>19. ASSUME NEW w \in Workers, FailUnhandled(w) PROVE DownIsClean' /\ HandsFull'
    BY <1>19 DEF FailUnhandled, Release, Becomes
  <1>20. ASSUME Start PROVE DownIsClean' /\ HandsFull'
    BY <1>20 DEF Start, AllWorkers
  <1>21. ASSUME RecoverJob PROVE DownIsClean' /\ HandsFull'
    BY <1>21 DEF RecoverJob
  <1>22. ASSUME Recovered PROVE DownIsClean' /\ HandsFull'
    BY <1>22 DEF Recovered
  <1>23. ASSUME BeginShutdown PROVE DownIsClean' /\ HandsFull'
    BY <1>23 DEF BeginShutdown
  <1>24. ASSUME EventsDrained PROVE DownIsClean' /\ HandsFull'
    BY <1>24 DEF EventsDrained
  <1>25. ASSUME PutPill PROVE DownIsClean' /\ HandsFull'
    BY <1>25 DEF PutPill
  <1>26. ASSUME Exit PROVE DownIsClean' /\ HandsFull'
    BY <1>26 DEF Exit, AllWorkers, ForgetThreads
  <1>27. ASSUME Crash PROVE DownIsClean' /\ HandsFull'
    BY <1>27 DEF Crash, AllWorkers, ForgetThreads
  <1>29. ASSUME QueryFaults PROVE DownIsClean' /\ HandsFull'
    BY <1>29 DEF QueryFaults, AllWorkers
  <1>30. ASSUME RecoverFaults PROVE DownIsClean' /\ HandsFull'
    BY <1>30 DEF RecoverFaults
  <1>28. CASE UNCHANGED vars
    BY <1>28 DEF vars
  <1>. QED
    BY <1>1, <1>2, <1>3, <1>4, <1>5, <1>6, <1>7, <1>8, <1>9, <1>10,
         <1>11, <1>12, <1>13, <1>14, <1>15, <1>16, <1>17, <1>18,
         <1>19, <1>20, <1>21, <1>22, <1>23, <1>24, <1>25, <1>26,
         <1>27, <1>28, <1>29, <1>30
    DEF Next, WorkerStep, HandlerStep, Command, MainStep

-----------------------------------------------------------------------------
(* What appending to the queue and taking its head do to its contents.       *)
LEMMA AppendContents ==
    ASSUME TypeOK, NEW j \in Jobs \union {Pill}, queue' = Append(queue, j)
    PROVE  /\ Len(queue') = Len(queue) + 1
           /\ \A i \in 1..Len(queue) : queue'[i] = queue[i]
           /\ queue'[Len(queue) + 1] = j
           /\ InQueue' = InQueue \union {j}
  <1>1. /\ Len(queue') = Len(queue) + 1 /\ Len(queue) \in Nat
        /\ \A i \in 1..Len(queue) : queue'[i] = queue[i]
        /\ queue'[Len(queue) + 1] = j
    BY DEF TypeOK
  <1>2. InQueue' = InQueue \union {j}
    BY <1>1 DEF InQueue
  <1>. QED BY <1>1, <1>2

LEMMA TailContents ==
    ASSUME TypeOK, queue # <<>>, queue' = Tail(queue)
    PROVE  /\ Len(queue) \in Nat /\ Len(queue) > 0
           /\ Head(queue) = queue[1] /\ Head(queue) \in Jobs \union {Pill}
           /\ Len(queue') = Len(queue) - 1
           /\ \A i \in 1..Len(queue') : queue'[i] = queue[i + 1]
           /\ InQueue = InQueue' \union {Head(queue)}
  <1>1. /\ Len(queue) \in Nat /\ Len(queue) > 0
        /\ Head(queue) = queue[1] /\ Head(queue) \in Jobs \union {Pill}
        /\ Len(queue') = Len(queue) - 1
        /\ \A i \in 1..Len(queue') : queue'[i] = queue[i + 1]
    BY DEF TypeOK
  <1>2. ASSUME NEW x \in InQueue PROVE x \in InQueue' \union {Head(queue)}
    <2>1. PICK i \in 1..Len(queue) : x = queue[i]
      BY DEF InQueue
    <2>2. CASE i = 1
      BY <1>1, <2>1, <2>2
    <2>3. CASE i # 1
      <3>1. i - 1 \in 1..Len(queue') /\ queue'[i - 1] = x
        BY <1>1, <2>1, <2>3
      <3>. QED BY <3>1 DEF InQueue
    <2>. QED BY <2>2, <2>3
  <1>3. ASSUME NEW x \in InQueue' PROVE x \in InQueue
    <2>1. PICK i \in 1..Len(queue') : x = queue'[i]
      BY <1>3 DEF InQueue
    <2>2. i + 1 \in 1..Len(queue) /\ queue[i + 1] = x
      BY <1>1, <2>1
    <2>. QED BY <2>2 DEF InQueue
  <1>4. Head(queue) \in InQueue
    BY <1>1 DEF InQueue
  <1>. QED BY <1>1, <1>2, <1>3, <1>4

(* A job that does not exist yet is in no place. *)
LEMMA AbsentIsNowhere ==
    ASSUME IInv, NEW j \in Jobs, status[j] = "absent"
    PROVE  j \notin InQueue \union Held \union Submitted \union recovering
  <1> USE DEF IInv, RowsMatchPlaces
  <1>1. j \notin InQueue
    <2> SUFFICES ASSUME NEW i \in 1..Len(queue), queue[i] = j PROVE FALSE
      BY DEF InQueue
    <2>1. j # Pill
      BY DEF Jobs, Pill
    <2>. QED BY <2>1
  <1>2. j \notin Submitted
    <2> SUFFICES ASSUME NEW h \in Handlers, hjob[h] = j PROVE FALSE
      BY DEF Submitted
    <2>1. hjob[h] # 0
      BY DEF Jobs
    <2>. QED BY <2>1 DEF TypeOK
  <1>3. j \notin Held
    <2> SUFFICES ASSUME NEW w \in Workers, held[w] = j PROVE FALSE
      BY DEF Held
    <2>1. pc[w] \notin Empty
      BY DEF HandsFull, Jobs
    <2>2. RowOfWorker(w) /\ pc[w] \in Pcs
      BY DEF TypeOK
    <2>. QED BY <2>1, <2>2 DEF RowOfWorker, Empty, Active, Pcs, Terminal
  <1>. QED BY <1>1, <1>2, <1>3

(* A thread that gives its job up disturbs no other place. *)
LEMMA HandsBack ==
    ASSUME TypeOK, OnePlace, UNCHANGED <<queue, recovering>>,
           \/ UNCHANGED hjob /\ \E w \in Workers : held' = [held EXCEPT ![w] = 0]
           \/ UNCHANGED held /\ \E h \in Handlers : hjob' = [hjob EXCEPT ![h] = 0]
    PROVE  OnePlace'
  <1>1. Held' \subseteq Held \union {0} /\ Submitted' \subseteq Submitted \union {0}
    BY DEF TypeOK, Held, Submitted
  <1>2. InQueue' = InQueue /\ 0 \notin Jobs
    BY DEF InQueue, Jobs
  <1>3. \A v, w \in Workers : held'[v] = held'[w] => v = w \/ held'[v] = 0
    BY DEF TypeOK, OnePlace
  <1>4. \A g, h \in Handlers : hjob'[g] = hjob'[h] => g = h \/ hjob'[g] = 0
    BY DEF TypeOK, OnePlace
  <1>. QED BY <1>1, <1>2, <1>3, <1>4 DEF OnePlace

(* Every step keeps each job in one place. *)
LEMMA PlaceStep == IInv /\ [Next]_vars => OnePlace'
  <1> SUFFICES ASSUME IInv, [Next]_vars PROVE OnePlace'
    OBVIOUS
  <1> USE DEF IInv, db, proc, worker, handler
  <1>1. ASSUME NEW h \in Handlers, CreateJob(h) PROVE OnePlace'
    <2>1. PICK j \in Jobs : status[j] = "absent" /\ hjob' = [hjob EXCEPT ![h] = j]
      BY <1>1 DEF CreateJob
    <2>2. UNCHANGED <<queue, held, recovering>>
      BY <1>1 DEF CreateJob
    <2>3. j \notin InQueue \union Held \union Submitted \union recovering
      BY <2>1, AbsentIsNowhere
    <2>4. InQueue' = InQueue /\ Held' = Held /\ Submitted' \subseteq Submitted \union {j}
      BY <2>1, <2>2 DEF TypeOK, InQueue, Held, Submitted
    <2>5. \A f, g \in Handlers : hjob'[f] = hjob'[g] => f = g \/ hjob'[f] = 0
      BY <2>1, <2>3 DEF TypeOK, OnePlace, Submitted
    <2>. QED BY <2>2, <2>3, <2>4, <2>5 DEF OnePlace
  <1>2. ASSUME NEW h \in Handlers, SubmitJob(h) PROVE OnePlace'
    <2> DEFINE j == hjob[h]
    <2>1. /\ j \in Jobs /\ j \in Submitted
          /\ queue' = Append(queue, j) /\ hjob' = [hjob EXCEPT ![h] = 0]
          /\ UNCHANGED <<held, recovering>>
      BY <1>2 DEF SubmitJob, TypeOK, HandsFull, Submitted
    <2>2. j \notin InQueue \union Held \union recovering
      BY <2>1 DEF OnePlace
    <2>3. /\ Held' = Held /\ InQueue' = InQueue \union {j}
          /\ Submitted' \subseteq (Submitted \ {j}) \union {0} /\ 0 \notin Jobs
      <3>1. InQueue' = InQueue \union {j}
        BY <2>1, AppendContents
      <3>2. \A g \in Handlers : hjob[g] = j => g = h
        BY <2>1 DEF OnePlace, Jobs
      <3>. QED BY <2>1, <3>1, <3>2 DEF TypeOK, Held, Submitted, Jobs
    <2>4. \A g, f \in Handlers : hjob'[g] = hjob'[f] => g = f \/ hjob'[g] = 0
      BY <2>1 DEF TypeOK, OnePlace
    <2>5. \A i, k \in 1..Len(queue') :
              queue'[i] = queue'[k] => i = k \/ queue'[i] = Pill
      <3>1. /\ Len(queue') = Len(queue) + 1 /\ Len(queue) \in Nat
            /\ \A i \in 1..Len(queue) : queue'[i] = queue[i] /\ queue[i] # j
            /\ queue'[Len(queue) + 1] = j
        BY <2>1, <2>2, AppendContents DEF InQueue, TypeOK
      <3>. QED BY <3>1 DEF OnePlace
    <2>. QED BY <2>1, <2>2, <2>3, <2>4, <2>5 DEF OnePlace
  <1>3. ASSUME NEW h \in Handlers, SubmitRefused(h) PROVE OnePlace'
    BY <1>3 DEF SubmitRefused, OnePlace, InQueue, Held, Submitted
  <1>4. ASSUME NEW h \in Handlers, RejectJob(h) PROVE OnePlace'
    BY <1>4, HandsBack DEF RejectJob
  <1>5. ASSUME NEW h \in Handlers, RejectFaults(h) PROVE OnePlace'
    BY <1>5, HandsBack DEF RejectFaults
  <1>6. ASSUME NEW h \in Handlers, NEW j \in Jobs, CancelJob(h, j) PROVE OnePlace'
    BY <1>6 DEF CancelJob, OnePlace, InQueue, Held, Submitted
  <1>7. ASSUME NEW h \in Handlers, NEW j \in Jobs, SetPause(h, j) PROVE OnePlace'
    BY <1>7 DEF SetPause, OnePlace, InQueue, Held, Submitted
  <1>8. ASSUME NEW w \in Workers, TakeJob(w) PROVE OnePlace'
    <2>1. /\ queue # <<>> /\ queue' = Tail(queue) /\ held[w] = 0
          /\ held' = [held EXCEPT ![w] = Head(queue)]
          /\ UNCHANGED <<hjob, recovering>>
      BY <1>8 DEF TakeJob, HandsFull, Empty
    <2> DEFINE j == Head(queue)
    <2>2. /\ j = queue[1] /\ j \in Jobs \union {Pill} /\ Len(queue) \in Nat
          /\ Len(queue') = Len(queue) - 1 /\ Len(queue) > 0
          /\ \A i \in 1..Len(queue') : queue'[i] = queue[i + 1]
          /\ InQueue = InQueue' \union {j}
      BY <2>1, TailContents
    <2>3. j \notin InQueue' \/ j = Pill
      BY <2>2 DEF OnePlace, InQueue
    <2>4. j \notin Held \union Submitted \union recovering \/ j = Pill
      BY <2>2 DEF OnePlace
    <2>5. Held' \subseteq Held \union {j} /\ Submitted' = Submitted /\ Pill \notin Jobs
      BY <2>1 DEF TypeOK, Held, Submitted, Jobs, Pill
    <2>6. \A i, k \in 1..Len(queue') :
              queue'[i] = queue'[k] => i = k \/ queue'[i] = Pill
      BY <2>2 DEF OnePlace
    <2>7. \A u, v \in Workers : held'[u] = held'[v] => u = v \/ held'[u] = 0
      BY <2>1, <2>4 DEF TypeOK, OnePlace, Held, Pill
    <2>. QED BY <2>1, <2>2, <2>3, <2>4, <2>5, <2>6, <2>7 DEF OnePlace
  <1>9. ASSUME NEW w \in Workers, StartJob(w) PROVE OnePlace'
    BY <1>9 DEF StartJob, OnePlace, InQueue, Held, Submitted
  <1>10. ASSUME NEW w \in Workers, SkipJob(w) PROVE OnePlace'
    BY <1>10, HandsBack DEF SkipJob, Release
  <1>11. ASSUME NEW w \in Workers, EnterStage(w) PROVE OnePlace'
    BY <1>11 DEF EnterStage, OnePlace, InQueue, Held, Submitted
  <1>12. ASSUME NEW w \in Workers, PublishReport(w) PROVE OnePlace'
    BY <1>12 DEF PublishReport, OnePlace, InQueue, Held, Submitted
  <1>13. ASSUME NEW w \in Workers, LastCheck(w) PROVE OnePlace'
    BY <1>13 DEF LastCheck, OnePlace, InQueue, Held, Submitted
  <1>14. ASSUME NEW w \in Workers, SeeCancel(w) PROVE OnePlace'
    BY <1>14 DEF SeeCancel, OnePlace, InQueue, Held, Submitted
  <1>15. ASSUME NEW w \in Workers, BackendFails(w) PROVE OnePlace'
    BY <1>15 DEF BackendFails, OnePlace, InQueue, Held, Submitted
  <1>16. ASSUME NEW w \in Workers, EndJob(w) PROVE OnePlace'
    BY <1>16 DEF EndJob, OnePlace, InQueue, Held, Submitted
  <1>17. ASSUME NEW w \in Workers, Notify(w) PROVE OnePlace'
    BY <1>17, HandsBack DEF Notify, Release
  <1>18. ASSUME NEW w \in Workers, WorkerFaults(w) PROVE OnePlace'
    <2>1. CASE pc[w] = "fault"
      BY <1>18, <2>1, HandsBack DEF WorkerFaults, Release
    <2>2. CASE pc[w] # "fault"
      BY <1>18, <2>2 DEF WorkerFaults, OnePlace, InQueue, Held, Submitted
    <2>. QED BY <2>1, <2>2
  <1>19. ASSUME NEW w \in Workers, FailUnhandled(w) PROVE OnePlace'
    BY <1>19, HandsBack DEF FailUnhandled, Release
  <1>20. ASSUME Start PROVE OnePlace'
    <2>1. /\ queue = <<>> /\ UNCHANGED <<queue, held, hjob>>
          /\ \A w \in Workers : held[w] = 0
          /\ \A h \in Handlers : hjob[h] = 0
      BY <1>20 DEF Start, DownIsClean, HandsFull, Empty
    <2>2. InQueue' = {} /\ Held' \subseteq {0} /\ Submitted' \subseteq {0} /\ 0 \notin Jobs
      BY <2>1 DEF InQueue, Held, Submitted, Jobs
    <2>3. /\ \A i, k \in 1..Len(queue') :
                queue'[i] = queue'[k] => i = k \/ queue'[i] = Pill
          /\ \A v, w \in Workers : held'[v] = held'[w] => v = w \/ held'[v] = 0
          /\ \A g, h \in Handlers : hjob'[g] = hjob'[h] => g = h \/ hjob'[g] = 0
      <3>. HIDE <1>20
      <3>. QED BY <2>1
    <2>4. \A j \in Jobs : j \notin InQueue' /\ j \notin Held' /\ j \notin Submitted'
      BY <2>2, Zenon
    <2>. QED BY <2>3, <2>4 DEF OnePlace
  <1>21. ASSUME RecoverJob PROVE OnePlace'
    <2>1. PICK j \in recovering :
             /\ recovering' = recovering \ {j}
             /\ queue' = Append(queue, j) \/ UNCHANGED queue
      BY <1>21 DEF RecoverJob
    <2>2. j \in Jobs /\ UNCHANGED <<held, hjob>> /\ Held' = Held /\ Submitted' = Submitted
      BY <1>21 DEF RecoverJob, TypeOK, Held, Submitted
    <2>3. j \notin InQueue \union Held \union Submitted
      BY <2>2 DEF OnePlace
    <2>4. CASE UNCHANGED queue
      BY <2>1, <2>2, <2>4 DEF OnePlace, InQueue
    <2>5. CASE queue' = Append(queue, j)
      <3>1. /\ Len(queue') = Len(queue) + 1 /\ Len(queue) \in Nat
            /\ \A i \in 1..Len(queue) : queue'[i] = queue[i] /\ queue[i] # j
            /\ queue'[Len(queue) + 1] = j /\ InQueue' = InQueue \union {j}
        BY <2>2, <2>3, <2>5, AppendContents DEF InQueue, TypeOK
      <3>2. \A i, k \in 1..Len(queue') :
                queue'[i] = queue'[k] => i = k \/ queue'[i] = Pill
        BY <3>1 DEF OnePlace
      <3>. QED BY <2>1, <2>2, <2>3, <3>1, <3>2 DEF OnePlace
    <2>. QED BY <2>1, <2>4, <2>5
  <1>22. ASSUME Recovered PROVE OnePlace'
    BY <1>22 DEF Recovered, OnePlace, InQueue, Held, Submitted
  <1>23. ASSUME BeginShutdown PROVE OnePlace'
    BY <1>23 DEF BeginShutdown, OnePlace, InQueue, Held, Submitted
  <1>24. ASSUME EventsDrained PROVE OnePlace'
    BY <1>24 DEF EventsDrained, OnePlace, InQueue, Held, Submitted
  <1>25. ASSUME PutPill PROVE OnePlace'
    <2>1. queue' = Append(queue, Pill) /\ UNCHANGED <<held, hjob, recovering>>
      BY <1>25 DEF PutPill
    <2>2. /\ Len(queue') = Len(queue) + 1 /\ Len(queue) \in Nat
          /\ \A i \in 1..Len(queue) : queue'[i] = queue[i]
          /\ queue'[Len(queue) + 1] = Pill /\ InQueue' = InQueue \union {Pill}
      BY <2>1, AppendContents DEF TypeOK
    <2>3. \A i, k \in 1..Len(queue') :
              queue'[i] = queue'[k] => i = k \/ queue'[i] = Pill
      BY <2>2 DEF OnePlace
    <2>4. Held' = Held /\ Submitted' = Submitted /\ Pill \notin Jobs
      BY <2>1 DEF Held, Submitted, Jobs, Pill
    <2>. QED BY <2>1, <2>2, <2>3, <2>4 DEF OnePlace
  <1>26. ASSUME Exit PROVE OnePlace'
    <2>1. /\ queue' = <<>> /\ \A w \in Workers : held'[w] = 0
          /\ \A h \in Handlers : hjob'[h] = 0
      BY <1>26 DEF Exit, ForgetThreads
    <2>2. /\ 1..Len(queue') = {} /\ InQueue' = {} /\ 0 \notin Jobs
          /\ Held' \subseteq {0} /\ Submitted' \subseteq {0}
      BY <2>1 DEF InQueue, Held, Submitted, Jobs
    <2>. QED BY <2>1, <2>2 DEF OnePlace
  <1>27. ASSUME Crash PROVE OnePlace'
    <2>1. /\ queue' = <<>> /\ \A w \in Workers : held'[w] = 0
          /\ \A h \in Handlers : hjob'[h] = 0
      BY <1>27 DEF Crash, ForgetThreads
    <2>2. /\ 1..Len(queue') = {} /\ InQueue' = {} /\ 0 \notin Jobs
          /\ Held' \subseteq {0} /\ Submitted' \subseteq {0}
      BY <2>1 DEF InQueue, Held, Submitted, Jobs
    <2>. QED BY <2>1, <2>2 DEF OnePlace
  <1>29. ASSUME QueryFaults PROVE OnePlace'
    BY <1>29 DEF QueryFaults, OnePlace, InQueue, Held, Submitted
  <1>30. ASSUME RecoverFaults PROVE OnePlace'
    BY <1>30 DEF RecoverFaults, OnePlace, InQueue, Held, Submitted
  <1>28. CASE UNCHANGED vars
    BY <1>28 DEF vars, OnePlace, InQueue, Held, Submitted
  <1>. QED
    BY <1>1, <1>2, <1>3, <1>4, <1>5, <1>6, <1>7, <1>8, <1>9, <1>10,
         <1>11, <1>12, <1>13, <1>14, <1>15, <1>16, <1>17, <1>18,
         <1>19, <1>20, <1>21, <1>22, <1>23, <1>24, <1>25, <1>26,
         <1>27, <1>28, <1>29, <1>30
    DEF Next, WorkerStep, HandlerStep, Command, MainStep

(* A row a step leaves alone keeps matching the places of its job.           *)
LEMMA EndKeepsOthers ==
    ASSUME TypeOK, NEW j \in Jobs, NEW s \in Terminal, SetTerminal(j, s)
    PROVE  /\ \A i \in Jobs : i # j => status'[i] = status[i]
           /\ status[j] \notin Terminal => status'[j] = s
           /\ status[j] \in Terminal => status'[j] = status[j]
  BY DEF TypeOK, SetTerminal, MayEnd, Terminal

(* What does not involve the one row a step changes stays as it was.         *)
LEMMA OtherQueued ==
    ASSUME IInv, NEW j \in Jobs, j \notin InQueue, UNCHANGED queue,
           \A i \in Jobs : i # j => status'[i] = status[i]
    PROVE  \A i \in 1..Len(queue') :
              queue'[i] # Pill => status'[queue'[i]] \in {"queued", "cancelled"}
  <1> SUFFICES ASSUME NEW i \in 1..Len(queue), queue[i] # Pill
               PROVE  status'[queue[i]] \in {"queued", "cancelled"}
    OBVIOUS
  <1>1. queue[i] \in Jobs /\ queue[i] \in InQueue
    BY DEF IInv, TypeOK, InQueue
  <1>. QED BY <1>1 DEF IInv, RowsMatchPlaces

LEMMA OtherWorkers ==
    ASSUME IInv, NEW j \in Jobs, NEW v \in Workers, held[v] # j,
           pc'[v] = pc[v], held'[v] = held[v], claim'[v] = claim[v],
           \A i \in Jobs : i # j => status'[i] = status[i]
    PROVE  RowOfWorker(v)'
  <1>1. CASE pc[v] \in Empty
    BY <1>1 DEF RowOfWorker, Empty, Active
  <1>2. CASE pc[v] \notin Empty
    <2>1. held[v] \in Jobs /\ RowOfWorker(v)
      BY <1>2, BusyHoldsJob DEF IInv, RowsMatchPlaces
    <2>. QED BY <2>1 DEF RowOfWorker
  <1>. QED BY <1>1, <1>2

(* Every step keeps the rows in agreement with the places of the jobs.       *)
LEMMA RowStep == IInv /\ [Next]_vars => RowsMatchPlaces'
  <1> SUFFICES ASSUME IInv, [Next]_vars PROVE RowsMatchPlaces'
    OBVIOUS
  <1> USE DEF IInv, TypeOK, Pill, db, proc, worker, handler
  <1>1. ASSUME NEW h \in Handlers, CreateJob(h) PROVE RowsMatchPlaces'
    <2>1. PICK j \in Jobs : /\ status[j] = "absent" /\ hjob' = [hjob EXCEPT ![h] = j]
                             /\ status' = [status EXCEPT ![j] = "queued"]
      BY <1>1 DEF CreateJob, InsertJob
    <2>2. UNCHANGED <<queue, recovering, pc, held, claim>>
      BY <1>1 DEF CreateJob
    <2>3. j \notin InQueue \union Held \union Submitted \union recovering
      BY <2>1, AbsentIsNowhere
    <2>4. \A i \in Jobs : i # j => status'[i] = status[i]
      BY <2>1
    <2>5. \A i \in 1..Len(queue') :
              queue'[i] # Pill => status'[queue'[i]] \in {"queued", "cancelled"}
      BY <2>1, <2>2, <2>3, <2>4, OtherQueued
    <2>6. \A i \in recovering' : status'[i] = "queued"
      BY <2>1, <2>2, <2>3, <2>4 DEF RowsMatchPlaces
    <2>7. \A g \in Handlers : hjob'[g] # 0 => status'[hjob'[g]] = "queued"
      BY <2>1, <2>2, <2>3, <2>4 DEF RowsMatchPlaces, Submitted
    <2>8. \A v \in Workers : RowOfWorker(v)'
      BY <2>1, <2>2, <2>3, <2>4, OtherWorkers DEF Held
    <2>. QED BY <2>5, <2>6, <2>7, <2>8 DEF RowsMatchPlaces
  <1>2. ASSUME NEW h \in Handlers, SubmitJob(h) PROVE RowsMatchPlaces'
    BY <1>2 DEF SubmitJob, RowsMatchPlaces, RowOfWorker
  <1>3. ASSUME NEW h \in Handlers, SubmitRefused(h) PROVE RowsMatchPlaces'
    BY <1>3 DEF SubmitRefused, RowsMatchPlaces, RowOfWorker
  <1>4. ASSUME NEW h \in Handlers, RejectJob(h) PROVE RowsMatchPlaces'
    <2> DEFINE j == hjob[h]
    <2>1. j \in Jobs /\ j \in Submitted /\ SetTerminal(j, "failed")
          /\ hjob' = [hjob EXCEPT ![h] = 0]
      BY <1>4 DEF RejectJob, HandsFull, Submitted
    <2>2. UNCHANGED <<queue, recovering, pc, held, claim>>
      BY <1>4 DEF RejectJob
    <2>3. j \notin InQueue \union Held \union recovering
          /\ \A g \in Handlers : hjob[g] = j => g = h
      BY <2>1 DEF OnePlace, Jobs
    <2>4. \A i \in Jobs : i # j => status'[i] = status[i]
      BY <2>1, EndKeepsOthers DEF Terminal
    <2>5. \A i \in 1..Len(queue') :
              queue'[i] # Pill => status'[queue'[i]] \in {"queued", "cancelled"}
      BY <2>1, <2>2, <2>3, <2>4, OtherQueued
    <2>6. \A i \in recovering' : status'[i] = "queued"
      BY <2>1, <2>2, <2>3, <2>4 DEF RowsMatchPlaces
    <2>7. \A g \in Handlers : hjob'[g] # 0 => status'[hjob'[g]] = "queued"
      BY <2>1, <2>2, <2>3, <2>4 DEF RowsMatchPlaces, Submitted
    <2>8. \A v \in Workers : RowOfWorker(v)'
      BY <2>1, <2>2, <2>3, <2>4, OtherWorkers DEF Held
    <2>. QED BY <2>5, <2>6, <2>7, <2>8 DEF RowsMatchPlaces
  <1>5. ASSUME NEW h \in Handlers, RejectFaults(h) PROVE RowsMatchPlaces'
    BY <1>5 DEF RejectFaults, RowsMatchPlaces, RowOfWorker
  <1>6. ASSUME NEW h \in Handlers, NEW j \in Jobs, CancelJob(h, j) PROVE RowsMatchPlaces'
    <2>1. /\ recovering = {} /\ j \notin Submitted /\ status[j] # "absent"
          /\ UNCHANGED <<proc, worker, handler>>
      BY <1>6 DEF CancelJob, Serving, Known, HandsFull, Submitted
    <2>2. /\ \A i \in Jobs : i # j => status'[i] = status[i]
          /\ status[j] = "queued" => status'[j] = "cancelled"
          /\ status[j] \in {"running", "cancel_requested"} => status'[j] = "cancel_requested"
          /\ status[j] \in Terminal => status'[j] = status[j]
      BY <1>6 DEF CancelJob, CancelReply, Terminal, Statuses
    <2>3. status[j] \in Statuses
      OBVIOUS
    <2>5. \A i \in 1..Len(queue') :
              queue'[i] # Pill => status'[queue'[i]] \in {"queued", "cancelled"}
      <3> SUFFICES ASSUME NEW i \in 1..Len(queue), queue[i] # Pill
                   PROVE  status'[queue[i]] \in {"queued", "cancelled"}
        BY <2>1
      <3>1. queue[i] \in Jobs /\ status[queue[i]] \in {"queued", "cancelled"}
        BY DEF RowsMatchPlaces
      <3>. QED BY <2>2, <3>1 DEF Terminal
    <2>6. \A i \in recovering' : status'[i] = "queued"
      BY <2>1, <2>2, <2>3 DEF RowsMatchPlaces
    <2>7. \A g \in Handlers : hjob'[g] # 0 => status'[hjob'[g]] = "queued"
      BY <2>1, <2>2, <2>3 DEF RowsMatchPlaces, Submitted
    <2>8. \A v \in Workers : RowOfWorker(v)'
      <3> TAKE v \in Workers
      <3>1. CASE held[v] # j
        BY <2>1, <2>2, <3>1, OtherWorkers
      <3>2. CASE held[v] = j
        <4>1. RowOfWorker(v)
          BY DEF RowsMatchPlaces
        <4>. QED BY <2>1, <2>2, <2>3, <3>2, <4>1
             DEF RowOfWorker, Active, Terminal, Statuses
      <3>. QED BY <3>1, <3>2
    <2>. QED BY <2>5, <2>6, <2>7, <2>8 DEF RowsMatchPlaces
  <1>7. ASSUME NEW h \in Handlers, NEW j \in Jobs, SetPause(h, j) PROVE RowsMatchPlaces'
    BY <1>7 DEF SetPause, RowsMatchPlaces, RowOfWorker
  <1>8. ASSUME NEW w \in Workers, TakeJob(w) PROVE RowsMatchPlaces'
    BY <1>8 DEF TakeJob, RowsMatchPlaces, RowOfWorker, Becomes, Active
  <1>9. ASSUME NEW w \in Workers, StartJob(w) PROVE RowsMatchPlaces'
    <2> DEFINE j == held[w]
    <2>1. /\ pc[w] = "taken" /\ j \in Jobs /\ status' = [status EXCEPT ![j] = "running"]
          /\ pc' = [pc EXCEPT ![w] = "running"]
      BY <1>9, BusyHoldsJob DEF StartJob, Becomes, Empty
    <2>2. UNCHANGED <<queue, recovering, held, claim, hjob>>
      BY <1>9 DEF StartJob
    <2>3. /\ j \notin InQueue \union Submitted \union recovering
          /\ \A v \in Workers : held[v] = j => v = w
      BY <2>1 DEF OnePlace, Held, Jobs
    <2>4. \A i \in Jobs : i # j => status'[i] = status[i]
      BY <2>1
    <2>5. \A i \in 1..Len(queue') :
              queue'[i] # Pill => status'[queue'[i]] \in {"queued", "cancelled"}
      BY <2>1, <2>2, <2>3, <2>4, OtherQueued
    <2>6. \A i \in recovering' : status'[i] = "queued"
      BY <2>1, <2>2, <2>3, <2>4 DEF RowsMatchPlaces
    <2>7. \A g \in Handlers : hjob'[g] # 0 => status'[hjob'[g]] = "queued"
      BY <2>1, <2>2, <2>3, <2>4 DEF RowsMatchPlaces, Submitted
    <2>8. \A v \in Workers : RowOfWorker(v)'
      <3>1. ASSUME NEW v \in Workers, v # w, held[v] # j PROVE RowOfWorker(v)'
        BY <2>1, <2>2, <2>3, <2>4, <3>1, OtherWorkers
      <3>2. RowOfWorker(w)'
        BY <2>1, <2>2, <2>3, <2>4 DEF RowOfWorker, Active
      <3>. QED BY <2>1, <2>2, <2>3, <2>4, <3>1, <3>2
    <2>. QED BY <2>5, <2>6, <2>7, <2>8 DEF RowsMatchPlaces
  <1>10. ASSUME NEW w \in Workers, SkipJob(w) PROVE RowsMatchPlaces'
    BY <1>10 DEF SkipJob, RowsMatchPlaces, RowOfWorker, Release, Becomes, Active
  <1>11. ASSUME NEW w \in Workers, EnterStage(w) PROVE RowsMatchPlaces'
    BY <1>11 DEF EnterStage, RowsMatchPlaces, RowOfWorker, Release, Becomes, Active
  <1>12. ASSUME NEW w \in Workers, PublishReport(w) PROVE RowsMatchPlaces'
    BY <1>12 DEF PublishReport, RowsMatchPlaces, RowOfWorker, Becomes, Active
  <1>13. ASSUME NEW w \in Workers, LastCheck(w) PROVE RowsMatchPlaces'
    BY <1>13 DEF LastCheck, RowsMatchPlaces, RowOfWorker, Becomes, Active
  <1>14. ASSUME NEW w \in Workers, SeeCancel(w) PROVE RowsMatchPlaces'
    BY <1>14 DEF SeeCancel, RowsMatchPlaces, RowOfWorker, Becomes, Active
  <1>15. ASSUME NEW w \in Workers, BackendFails(w) PROVE RowsMatchPlaces'
    BY <1>15 DEF BackendFails, RowsMatchPlaces, RowOfWorker, Becomes, Active
  <1>16. ASSUME NEW w \in Workers, EndJob(w) PROVE RowsMatchPlaces'
    <2> DEFINE j == held[w]
               s == OutcomeOf(pc[w])
    <2>1. /\ pc[w] \in Active /\ j \in Jobs /\ s \in Terminal /\ SetTerminal(j, s)
          /\ pc' = [pc EXCEPT ![w] = "notifying"] /\ claim' = [claim EXCEPT ![w] = s]
      BY <1>16, BusyHoldsJob DEF EndJob, Becomes, Empty, Active, OutcomeOf, Terminal
    <2>2. UNCHANGED <<queue, recovering, held, hjob>>
      BY <1>16 DEF EndJob
    <2>3. /\ j \notin InQueue \union Submitted \union recovering
          /\ \A v \in Workers : held[v] = j => v = w
      BY <2>1 DEF OnePlace, Held, Jobs
    <2>4. /\ \A i \in Jobs : i # j => status'[i] = status[i]
          /\ status'[j] = s
      <3>1. status[j] \notin Terminal
        BY <2>1 DEF RowsMatchPlaces, RowOfWorker, Terminal
      <3> HIDE DEF j, s
      <3>. QED BY <2>1, <3>1, EndKeepsOthers
    <2> HIDE DEF s
    <2>5. \A i \in 1..Len(queue') :
              queue'[i] # Pill => status'[queue'[i]] \in {"queued", "cancelled"}
      BY <2>1, <2>2, <2>3, <2>4, OtherQueued
    <2>6. \A i \in recovering' : status'[i] = "queued"
      BY <2>1, <2>2, <2>3, <2>4 DEF RowsMatchPlaces
    <2>7. \A g \in Handlers : hjob'[g] # 0 => status'[hjob'[g]] = "queued"
      BY <2>1, <2>2, <2>3, <2>4 DEF RowsMatchPlaces, Submitted
    <2>8. \A v \in Workers : RowOfWorker(v)'
      <3>1. ASSUME NEW v \in Workers, v # w, held[v] # j PROVE RowOfWorker(v)'
        BY <2>1, <2>2, <2>3, <2>4, <3>1, OtherWorkers
      <3>2. RowOfWorker(w)'
        BY <2>1, <2>2, <2>3, <2>4 DEF RowOfWorker, Active
      <3>. QED BY <2>1, <2>2, <2>3, <2>4, <3>1, <3>2
    <2>. QED BY <2>5, <2>6, <2>7, <2>8 DEF RowsMatchPlaces
  <1>17. ASSUME NEW w \in Workers, Notify(w) PROVE RowsMatchPlaces'
    BY <1>17 DEF Notify, RowsMatchPlaces, RowOfWorker, Release, Becomes, Active
  <1>18. ASSUME NEW w \in Workers, WorkerFaults(w) PROVE RowsMatchPlaces'
    <2>1. UNCHANGED <<db, proc, handler>>
      BY <1>18 DEF WorkerFaults
    <2>2. CASE pc[w] = "fault"
      <3>1. /\ pc' = [pc EXCEPT ![w] = "dead"] /\ held' = [held EXCEPT ![w] = 0]
            /\ claim' = [claim EXCEPT ![w] = "none"]
        BY <1>18, <2>2 DEF WorkerFaults, Release, Becomes
      <3>2. RowOfWorker(w)'
        BY <3>1 DEF RowOfWorker, Active
      <3>3. ASSUME NEW v \in Workers, v # w PROVE RowOfWorker(v)'
        BY <2>1, <3>1, <3>3 DEF RowsMatchPlaces, RowOfWorker
      <3>. QED BY <2>1, <3>2, <3>3 DEF RowsMatchPlaces
    <2>3. CASE pc[w] # "fault"
      <3>1. /\ pc' = [pc EXCEPT ![w] = AfterFault(pc[w])] /\ UNCHANGED <<held, claim>>
            /\ pc[w] \in {"taken", "finishing", "cancelling", "failing", "running"}
        BY <1>18, <2>3 DEF WorkerFaults, Becomes
      <3>2. /\ pc[w] = "finishing" => AfterFault(pc[w]) = "failing"
            /\ pc[w] # "finishing" => AfterFault(pc[w]) = "fault"
        BY <2>3 DEF AfterFault
      <3>. QED BY <2>1, <3>1, <3>2 DEF RowsMatchPlaces, RowOfWorker, Active
    <2>. QED BY <2>2, <2>3
  <1>19. ASSUME NEW w \in Workers, FailUnhandled(w) PROVE RowsMatchPlaces'
    <2> DEFINE j == held[w]
    <2>1. /\ pc[w] = "fault" /\ j \in Jobs /\ SetTerminal(j, "failed")
          /\ pc' = [pc EXCEPT ![w] = "idle"] /\ held' = [held EXCEPT ![w] = 0]
          /\ claim' = [claim EXCEPT ![w] = "none"]
      BY <1>19, BusyHoldsJob DEF FailUnhandled, Release, Becomes, Empty
    <2>2. UNCHANGED <<queue, recovering, hjob>>
      BY <1>19 DEF FailUnhandled
    <2>3. /\ j \notin InQueue \union Submitted \union recovering
          /\ \A v \in Workers : held[v] = j => v = w
      BY <2>1 DEF OnePlace, Held, Jobs
    <2>4. \A i \in Jobs : i # j => status'[i] = status[i]
      BY <2>1, EndKeepsOthers DEF Terminal
    <2>5. \A i \in 1..Len(queue') :
              queue'[i] # Pill => status'[queue'[i]] \in {"queued", "cancelled"}
      BY <2>1, <2>2, <2>3, <2>4, OtherQueued
    <2>6. \A i \in recovering' : status'[i] = "queued"
      BY <2>1, <2>2, <2>3, <2>4 DEF RowsMatchPlaces
    <2>7. \A g \in Handlers : hjob'[g] # 0 => status'[hjob'[g]] = "queued"
      BY <2>1, <2>2, <2>3, <2>4 DEF RowsMatchPlaces, Submitted
    <2>8. \A v \in Workers : RowOfWorker(v)'
      <3>1. ASSUME NEW v \in Workers, v # w, held[v] # j PROVE RowOfWorker(v)'
        BY <2>1, <2>2, <2>3, <2>4, <3>1, OtherWorkers
      <3>2. RowOfWorker(w)'
        BY <2>1, <2>2, <2>3, <2>4 DEF RowOfWorker, Active
      <3>. QED BY <2>1, <2>2, <2>3, <2>4, <3>1, <3>2
    <2>. QED BY <2>5, <2>6, <2>7, <2>8 DEF RowsMatchPlaces
  <1>20. ASSUME Start PROVE RowsMatchPlaces'
    <2>1. /\ queue' = <<>> /\ \A w \in Workers : pc'[w] = "idle"
          /\ \A h \in Handlers : hjob'[h] = 0
      BY <1>20 DEF Start, AllWorkers, DownIsClean, HandsFull
    <2>2. \A j \in recovering' : status'[j] = "queued"
      BY <1>20 DEF Start, Requeued
    <2>3. 1..Len(queue') = {}
      BY <2>1
    <2>. QED BY <2>1, <2>2, <2>3 DEF RowsMatchPlaces, RowOfWorker, Active
  <1>21. ASSUME RecoverJob PROVE RowsMatchPlaces'
    <2>1. PICK j \in recovering :
             /\ recovering' = recovering \ {j}
             /\ \/ queue' = Append(queue, j) /\ UNCHANGED db
                \/ SetTerminal(j, "failed") /\ UNCHANGED queue
      BY <1>21 DEF RecoverJob
    <2>2. j \in Jobs /\ status[j] = "queued" /\ UNCHANGED <<pc, held, claim, hjob>>
      BY <1>21 DEF RecoverJob, RowsMatchPlaces
    <2>3. CASE queue' = Append(queue, j) /\ UNCHANGED db
      <3>1. /\ Len(queue') = Len(queue) + 1 /\ Len(queue) \in Nat
            /\ \A i \in 1..Len(queue) : queue'[i] = queue[i]
            /\ queue'[Len(queue) + 1] = j
        BY <2>2, <2>3, AppendContents
      <3>. QED BY <2>1, <2>2, <2>3, <3>1 DEF RowsMatchPlaces, RowOfWorker
    <2>4. CASE SetTerminal(j, "failed") /\ UNCHANGED queue
      <3>1. j \notin InQueue \union Held \union Submitted
        BY <2>1, <2>2 DEF OnePlace
      <3>2. \A i \in Jobs : i # j => status'[i] = status[i]
        BY <2>2, <2>4, EndKeepsOthers DEF Terminal
      <3>5. \A i \in 1..Len(queue') :
              queue'[i] # Pill => status'[queue'[i]] \in {"queued", "cancelled"}
        BY <2>1, <2>2, <2>4, <3>1, <3>2, OtherQueued
      <3>6. \A i \in recovering' : status'[i] = "queued"
        BY <2>1, <2>2, <2>4, <3>1, <3>2 DEF RowsMatchPlaces
      <3>7. \A g \in Handlers : hjob'[g] # 0 => status'[hjob'[g]] = "queued"
        BY <2>1, <2>2, <2>4, <3>1, <3>2 DEF RowsMatchPlaces, Submitted
      <3>8. \A v \in Workers : RowOfWorker(v)'
        BY <2>1, <2>2, <2>4, <3>1, <3>2, OtherWorkers DEF Held
      <3>. QED BY <3>5, <3>6, <3>7, <3>8 DEF RowsMatchPlaces
    <2>. QED BY <2>1, <2>3, <2>4
  <1>22. ASSUME Recovered PROVE RowsMatchPlaces'
    BY <1>22 DEF Recovered, RowsMatchPlaces, RowOfWorker
  <1>23. ASSUME BeginShutdown PROVE RowsMatchPlaces'
    BY <1>23 DEF BeginShutdown, RowsMatchPlaces, RowOfWorker
  <1>24. ASSUME EventsDrained PROVE RowsMatchPlaces'
    BY <1>24 DEF EventsDrained, RowsMatchPlaces, RowOfWorker
  <1>25. ASSUME PutPill PROVE RowsMatchPlaces'
    BY <1>25 DEF PutPill, RowsMatchPlaces, RowOfWorker
  <1>26. ASSUME Exit PROVE RowsMatchPlaces'
    BY <1>26 DEF Exit, RowsMatchPlaces, RowOfWorker, AllWorkers, ForgetThreads, Active
  <1>27. ASSUME Crash PROVE RowsMatchPlaces'
    BY <1>27 DEF Crash, RowsMatchPlaces, RowOfWorker, AllWorkers, ForgetThreads, Active
  <1>29. ASSUME QueryFaults PROVE RowsMatchPlaces'
    BY <1>29 DEF QueryFaults, AllWorkers, DownIsClean, HandsFull, RowsMatchPlaces, RowOfWorker, Active
  <1>30. ASSUME RecoverFaults PROVE RowsMatchPlaces'
    BY <1>30 DEF RecoverFaults, RowsMatchPlaces, RowOfWorker
  <1>28. CASE UNCHANGED vars
    BY <1>28 DEF vars, RowsMatchPlaces, RowOfWorker
  <1>. QED
    BY <1>1, <1>2, <1>3, <1>4, <1>5, <1>6, <1>7, <1>8, <1>9, <1>10,
         <1>11, <1>12, <1>13, <1>14, <1>15, <1>16, <1>17, <1>18,
         <1>19, <1>20, <1>21, <1>22, <1>23, <1>24, <1>25, <1>26,
         <1>27, <1>28, <1>29, <1>30
    DEF Next, WorkerStep, HandlerStep, Command, MainStep
-----------------------------------------------------------------------------
(* The invariant, and the properties it was strengthened from. *)
THEOREM Invariance == Spec => []IInv
  <1>1. IInv /\ [Next]_vars => IInv'
    BY TypeStep, HandsStep, PlaceStep, RowStep DEF IInv
  <1>. QED BY InitInv, <1>1, PTL DEF Spec

(* Type correctness of the tables, the queue and the threads. *)
THEOREM TypeCorrect == Spec => []TypeOK
  <1>1. IInv => TypeOK
    BY DEF IInv
  <1>. QED BY Invariance, <1>1, PTL

(* No job is ever in two places, so none is run twice at once. *)
THEOREM JobsInOnePlace == Spec => []OnePlace
  <1>1. IInv => OnePlace
    BY DEF IInv
  <1>. QED BY Invariance, <1>1, PTL

-----------------------------------------------------------------------------
(* Every step is a step of the contract, or shows nothing of it. *)

(* A status change the contract permits, with nothing said. *)
LEMMA SilentMove ==
    ASSUME NEW j \in Jobs, NEW s \in Statuses,
           <<status[j], s>> \in Contract!Moves,
           status' = [status EXCEPT ![j] = s], UNCHANGED told
    PROVE  Contract!ContractNext
  <1>1. s \in Contract!Statuses
    BY DEF Statuses, Terminal, Contract!Statuses, Contract!Terminal
  <1>. QED BY <1>1 DEF Contract!ContractNext, Contract!Move

(* The same, announced truthfully. *)
LEMMA SpokenMove ==
    ASSUME NEW j \in Jobs, NEW s \in Statuses, NEW m \in Contract!Messages,
           <<status[j], s>> \in Contract!Moves, Contract!True(m, s),
           status' = [status EXCEPT ![j] = s], Tell(j, m)
    PROVE  Contract!ContractNext
  <1>1. s \in Contract!Statuses
    BY DEF Statuses, Terminal, Contract!Statuses, Contract!Terminal
  <1>. QED BY <1>1 DEF Contract!ContractNext, Contract!Move, Tell

(* A true message about a status that stays. *)
LEMMA Announcement ==
    ASSUME NEW j \in Jobs, NEW m \in Contract!Messages,
           Contract!True(m, status[j]), Tell(j, m), UNCHANGED status
    PROVE  Contract!ContractNext
  BY DEF Contract!ContractNext, Contract!Announce, Tell

(* _set_terminal on a job that has not ended. *)
LEMMA EndIsMove ==
    ASSUME TypeOK, NEW j \in Jobs, NEW s \in Terminal, SetTerminal(j, s),
           status[j] \in {"queued", "running", "cancel_requested"}
    PROVE  status' = [status EXCEPT ![j] = s]
  BY DEF SetTerminal, MayEnd, Terminal, TypeOK

(* A step the contract allows. *)
Kept == [Contract!ContractNext]_<<status, told>>

LEMMA ContractStep ==
    ASSUME IInv, [Next]_vars
    PROVE  Kept
  <1> USE DEF Kept, Contract!Moves, Contract!Messages, Contract!Terminal,
              Contract!True
  <1>1. ASSUME NEW h \in Handlers, CreateJob(h) PROVE Kept
    <2>1. PICK j \in Jobs : status[j] = "absent" /\ InsertJob(j)
      BY <1>1 DEF CreateJob
    <2>. QED BY <1>1, <2>1, SilentMove DEF CreateJob, InsertJob, Statuses
  <1>2. ASSUME NEW h \in Handlers,
               SubmitJob(h) \/ SubmitRefused(h) \/ RejectFaults(h)
        PROVE Kept
    BY <1>2 DEF SubmitJob, SubmitRefused, RejectFaults, db
  <1>3. ASSUME NEW h \in Handlers, RejectJob(h) PROVE Kept
    <2>1. hjob[h] \in Jobs /\ status[hjob[h]] = "queued"
      BY <1>3 DEF RejectJob, IInv, HandsFull, RowsMatchPlaces, TypeOK
    <2>2. status' = [status EXCEPT ![hjob[h]] = "failed"]
      BY <1>3, <2>1, EndIsMove DEF RejectJob, IInv, Terminal
    <2>. QED BY <1>3, <2>1, <2>2, SpokenMove DEF RejectJob, Statuses, Terminal
  <1>4. ASSUME NEW h \in Handlers, NEW j \in Jobs, CancelJob(h, j) PROVE Kept
    <2>1. status[j] \in Statuses \ {"absent"} /\ status \in [Jobs -> Statuses]
      BY <1>4 DEF CancelJob, Known, IInv, TypeOK
    <2>2. CASE status[j] \in Terminal
      <3>1. CancelReply(status[j]) = "terminal"
        BY <2>2 DEF CancelReply, Terminal
      <3>2. status' = status /\ Tell(j, "terminal")
        BY <1>4, <2>1, <3>1 DEF CancelJob
      <3>. QED BY <2>2, <3>2, Announcement DEF Terminal
    <2>3. CASE status[j] = "queued"
      <3>1. CancelReply(status[j]) = "cancelled"
        BY <2>3 DEF CancelReply, Terminal
      <3>2. status' = [status EXCEPT ![j] = "cancelled"] /\ Tell(j, "cancelled")
        BY <1>4, <3>1 DEF CancelJob
      <3>. QED BY <2>3, <3>2, SpokenMove DEF Statuses, Terminal
    <2>4. CASE status[j] \in {"running", "cancel_requested"}
      <3>1. CancelReply(status[j]) = "cancel_requested"
        BY <2>4 DEF CancelReply, Terminal
      <3>2. /\ status' = [status EXCEPT ![j] = "cancel_requested"]
            /\ Tell(j, "cancel_requested")
        BY <1>4, <3>1 DEF CancelJob
      <3>3. CASE status[j] = "running"
        BY <3>2, <3>3, SpokenMove DEF Statuses
      <3>4. CASE status[j] = "cancel_requested"
        BY <2>1, <3>2, <3>4, Announcement
      <3>. QED BY <2>4, <3>3, <3>4
    <2>. QED BY <2>1, <2>2, <2>3, <2>4 DEF Statuses
  <1>5. ASSUME NEW h \in Handlers, NEW j \in Jobs, SetPause(h, j) PROVE Kept
    BY <1>5 DEF SetPause
  <1>6. ASSUME NEW w \in Workers, StartJob(w) PROVE Kept
    <2>1. held[w] \in Jobs
      BY <1>6, BusyHoldsJob DEF StartJob, IInv, Empty
    <2>. QED BY <1>6, <2>1, SilentMove DEF StartJob, MayStart, Statuses
  <1>7. ASSUME NEW w \in Workers,
               TakeJob(w) \/ SkipJob(w) \/ EnterStage(w) \/ PublishReport(w)
               \/ LastCheck(w) \/ SeeCancel(w) \/ BackendFails(w) \/ WorkerFaults(w)
        PROVE Kept
    BY <1>7 DEF TakeJob, SkipJob, EnterStage, PublishReport, LastCheck, SeeCancel,
                BackendFails, WorkerFaults, db
  <1>8. ASSUME NEW w \in Workers, EndJob(w) PROVE Kept
    <2> DEFINE s == OutcomeOf(pc[w])
    <2>1. /\ held[w] \in Jobs
          /\ status[held[w]] \in {"running", "cancel_requested"}
      BY <1>8, BusyHoldsJob
      DEF EndJob, IInv, RowsMatchPlaces, RowOfWorker, Empty, Active
    <2>2. s \in Terminal /\ SetTerminal(held[w], s)
      BY <1>8 DEF EndJob, OutcomeOf, Terminal
    <2>3. status' = [status EXCEPT ![held[w]] = s]
      BY <2>1, <2>2, EndIsMove DEF IInv
    <2>. QED BY <1>8, <2>1, <2>2, <2>3, SilentMove DEF EndJob, Statuses, Terminal
  <1>9. ASSUME NEW w \in Workers, Notify(w) PROVE Kept
    <2>1. /\ held[w] \in Jobs
          /\ claim[w] \in Terminal /\ status[held[w]] = claim[w]
      BY <1>9, BusyHoldsJob
      DEF Notify, IInv, RowsMatchPlaces, RowOfWorker, Empty
    <2>. QED BY <1>9, <2>1, Announcement DEF Notify, Terminal, db
  <1>10. ASSUME NEW w \in Workers, FailUnhandled(w) PROVE Kept
    <2>1. pc[w] = "fault" /\ SetTerminal(held[w], "failed") /\ UNCHANGED told
      BY <1>10 DEF FailUnhandled
    <2>2. held[w] \in Jobs
      BY <2>1, BusyHoldsJob DEF IInv, Empty
    <2>3. status[held[w]] \in Statuses \ {"absent"}
      BY <2>1, <2>2 DEF IInv, TypeOK, RowsMatchPlaces, RowOfWorker
    <2>4. CASE status[held[w]] \in Terminal
      <3>1. status' = status
        BY <2>1, <2>2, <2>4 DEF SetTerminal, MayEnd, IInv, TypeOK
      <3>. QED BY <2>1, <3>1
    <2>5. CASE status[held[w]] \notin Terminal
      <3>1. status' = [status EXCEPT ![held[w]] = "failed"]
        BY <2>1, <2>2, <2>3, <2>5, EndIsMove DEF IInv, Statuses, Terminal
      <3>. QED BY <2>1, <2>2, <2>3, <2>5, <3>1, SilentMove DEF Statuses, Terminal
    <2>. QED BY <2>4, <2>5
  <1>11. CASE Start
    <2>1. Contract!Requeue
      BY <1>11 DEF Start, Requeued, Contract!Requeue
    <2>. QED BY <2>1 DEF Contract!ContractNext
  <1>12. CASE RecoverJob
    <2>1. PICK j \in recovering :
             \/ UNCHANGED db
             \/ SetTerminal(j, "failed")
      BY <1>12 DEF RecoverJob
    <2>2. j \in Jobs /\ status[j] = "queued" /\ UNCHANGED told
      BY <1>12, <2>1 DEF RecoverJob, IInv, TypeOK, RowsMatchPlaces
    <2>3. CASE UNCHANGED db
      BY <2>2, <2>3 DEF db
    <2>4. CASE SetTerminal(j, "failed")
      <3>1. status' = [status EXCEPT ![j] = "failed"]
        BY <2>2, <2>4, EndIsMove DEF IInv, Terminal
      <3>. QED BY <2>2, <3>1, SilentMove DEF Statuses, Terminal
    <2>. QED BY <2>1, <2>3, <2>4
  <1>13. CASE \/ Recovered \/ QueryFaults \/ RecoverFaults
              \/ BeginShutdown \/ EventsDrained \/ PutPill \/ Exit \/ Crash
    BY <1>13 DEF Recovered, QueryFaults, RecoverFaults, BeginShutdown, EventsDrained,
                 PutPill, Exit, Crash, db
  <1>14. CASE UNCHANGED vars
    BY <1>14 DEF vars, db
  <1>. QED
    BY <1>1, <1>2, <1>3, <1>4, <1>5, <1>6, <1>7, <1>8, <1>9, <1>10, <1>11, <1>12,
       <1>13, <1>14
    DEF Next, WorkerStep, HandlerStep, Command, MainStep

(* The local backend implements the job contract: whatever is cancelled,     *)
(* refused, crashed or recovered, an ended job keeps its outcome and the bot  *)
(* never says what the jobs table contradicts.                               *)
THEOREM LocalImplementsContract == Spec => Implements
  <1>1. Init => Contract!ContractInit
    BY DEF Init, Contract!ContractInit
  <1>2. IInv /\ [Next]_vars => [Contract!ContractNext]_(Contract!contractVars)
    BY ContractStep DEF Kept, Contract!contractVars
  <1>. QED BY Invariance, <1>1, <1>2, PTL DEF Spec, Implements, Contract!Contract
-----------------------------------------------------------------------------
(* What follows from the job contract alone, whichever backend keeps it: its *)
(* variables are the two an owner sees.                                      *)
CInv == Contract!ContractTypes /\ Contract!Truthful

(* A permitted move never leaves an ended job and never falsifies a message. *)
LEMMA MovesKeepTruth ==
    ASSUME NEW s \in Contract!Statuses, NEW t \in Contract!Statuses, <<s, t>> \in Contract!Moves
    PROVE  /\ s \notin Contract!Terminal
           /\ \A m \in Contract!Messages : Contract!True(m, s) => Contract!True(m, t)
  BY DEF Contract!Moves, Contract!Statuses, Contract!Terminal, Contract!Messages, Contract!True

(* Neither does the requeueing of a restart. *)
LEMMA RequeueKeepsTruth ==
    \A m \in Contract!Messages : Contract!True(m, "running") => Contract!True(m, "queued")
  BY DEF Contract!Terminal, Contract!Messages, Contract!True

LEMMA CInvInductive ==
    ASSUME CInv, [Contract!ContractNext]_(Contract!contractVars)
    PROVE  /\ CInv'
           /\ \A j \in Jobs : status[j] \in Contract!Terminal => status'[j] = status[j]
  <1>. USE DEF CInv, Contract!ContractTypes, Contract!Truthful
  <1>1. CASE Contract!Requeue
    <2>1. /\ told' = told /\ status' \in [Jobs -> Contract!Statuses]
          /\ \A j \in Jobs : status'[j] = IF status[j] = "running" THEN "queued"
                                          ELSE status[j]
      BY <1>1 DEF Contract!Requeue, Contract!Statuses
    <2>2. \A j \in Jobs : \A m \in told[j] : Contract!True(m, status'[j])
      BY <2>1, RequeueKeepsTruth
    <2>. QED BY <2>1, <2>2 DEF Contract!Terminal
  <1>2. ASSUME NEW j \in Jobs, Contract!Move(j)
        PROVE  /\ CInv'
               /\ \A i \in Jobs : status[i] \in Contract!Terminal => status'[i] = status[i]
    <2>1. PICK s \in Contract!Statuses :
             /\ <<status[j], s>> \in Contract!Moves
             /\ status' = [status EXCEPT ![j] = s]
             /\ \/ UNCHANGED told
                \/ \E m \in Contract!Messages : /\ Contract!True(m, s)
                                                /\ told' = [told EXCEPT ![j] = @ \union {m}]
      BY <1>2 DEF Contract!Move
    <2>2. /\ status[j] \notin Contract!Terminal
          /\ \A m \in Contract!Messages : Contract!True(m, status[j]) => Contract!True(m, s)
      BY <2>1, MovesKeepTruth
    <2>3. Contract!ContractTypes'
      BY <2>1
    <2>4. \A m \in told'[j] : Contract!True(m, s)
      BY <2>1, <2>2
    <2>5. \A i \in Jobs : i # j => told'[i] = told[i] /\ status'[i] = status[i]
      BY <2>1
    <2>6. Contract!Truthful'
      BY <2>1, <2>4, <2>5
    <2>. QED BY <2>2, <2>3, <2>5, <2>6
  <1>3. ASSUME NEW j \in Jobs, Contract!Announce(j)
        PROVE  /\ CInv'
               /\ \A i \in Jobs : status[i] \in Contract!Terminal => status'[i] = status[i]
    BY <1>3 DEF Contract!Announce
  <1>4. CASE UNCHANGED Contract!contractVars
    BY <1>4 DEF Contract!contractVars
  <1>. QED BY <1>1, <1>2, <1>3, <1>4 DEF Contract!ContractNext

(* Under the contract no message is ever contradicted by the jobs table. *)
THEOREM ContractTruthful == Contract!Contract => []Contract!Truthful
  <1>1. Contract!ContractInit => CInv
    BY DEF Contract!ContractInit, CInv, Contract!ContractTypes, Contract!Truthful, Contract!Statuses
  <1>2. CInv /\ [Contract!ContractNext]_(Contract!contractVars) => CInv'
    BY CInvInductive
  <1>3. CInv => Contract!Truthful
    BY DEF CInv
  <1>. QED BY <1>1, <1>2, <1>3, PTL DEF Contract!Contract

(* Under the contract an ended job keeps its outcome. *)
THEOREM ContractFinality == Contract!Contract => Contract!EndedStaysEnded
  <1>1. Contract!ContractInit => CInv
    BY DEF Contract!ContractInit, CInv, Contract!ContractTypes, Contract!Truthful, Contract!Statuses
  <1>2. CInv /\ [Contract!ContractNext]_(Contract!contractVars) => CInv'
    BY CInvInductive
  <1>3. CInv /\ [Contract!ContractNext]_(Contract!contractVars)
          => [\A j \in Jobs : status[j] \in Contract!Terminal => status'[j] = status[j]]_(Contract!contractVars)
    BY CInvInductive
  <1>. QED BY <1>1, <1>2, <1>3, PTL DEF Contract!Contract, Contract!EndedStaysEnded

(* So whatever workers, handlers, restarts and repository failures do, the    *)
(* local backend has never told an owner what the jobs table contradicts, and *)
(* no job that has ended changes its outcome.                                 *)
THEOREM LocalTruthful == Spec => ([]Contract!Truthful) /\ Contract!EndedStaysEnded
  <1>. QED BY LocalImplementsContract, ContractTruthful, ContractFinality, PTL DEF Implements

-----------------------------------------------------------------------------
(* No job is lost.  Who knows a job: *)
Places == InQueue \union Held \union Submitted \union recovering

(* A cancellation that was asked for shows in the status, so no job with one *)
(* is taken for a waiting one.                                               *)
CancelMarked ==
    \A j \in Jobs : cancelReq[j] => status[j] \in {"cancel_requested", "cancelled"}

(* Stop markers are put when no handler can submit any more, after all jobs. *)
MarkersLast ==
    /\ phase = "stopping" => \A h \in Handlers : hpc[h] = "idle"
    /\ Pill \in InQueue => phase = "stopping"
    /\ \A w \in Workers : pc[w] = "stopped" => phase = "stopping"
    /\ \A i, k \in 1..Len(queue) : i < k /\ queue[i] = Pill => queue[k] = Pill

LInv == IInv /\ CancelMarked /\ MarkersLast /\ NoJobLost

(* The stronger invariant holds of an installation that has never run.       *)
LEMMA InitLost == Init => LInv
  BY InitInv DEF Init, LInv, CancelMarked, MarkersLast, NoJobLost, InQueue

(* Lost jobs are jobs, so finitely many.                                     *)
LEMMA LostFinite == Lost \subseteq Jobs /\ IsFiniteSet(Lost) /\ Cardinality(Lost) \in Nat
  <1>1. IsFiniteSet(Jobs)
    BY SizesAssumption, FS_Interval DEF Jobs
  <1>2. Lost \subseteq Jobs
    BY DEF Lost
  <1>. QED BY <1>1, <1>2, FS_Subset, FS_CardinalityType

(* A step that loses none.                                                   *)
LEMMA NoneLost ==
    ASSUME TypeOK, UNCHANGED faults, Cardinality(Lost) <= faults,
           \A j \in Places \intersect Jobs :
              j \in Places' \/ status'[j] \notin {"queued", "running"},
           \A j \in Jobs : status'[j] \in {"queued", "running"} =>
              status[j] \in {"queued", "running"} \/ j \in Places'
    PROVE  Cardinality(Lost') <= faults'
  <1>1. Lost' \subseteq Lost
    BY DEF Lost, Places
  <1>2. Cardinality(Lost') <= Cardinality(Lost) /\ Cardinality(Lost') \in Nat
    BY <1>1, LostFinite, FS_Subset, FS_CardinalityType
  <1>. QED BY <1>2, LostFinite DEF TypeOK

(* A failed repository call, that loses the job in hand at most.             *)
LEMMA OneLost ==
    ASSUME TypeOK, NEW x, faults' = faults + 1, Cardinality(Lost) <= faults,
           \A j \in Places \intersect Jobs : j \in Places' \/ j = x,
           UNCHANGED status
    PROVE  Cardinality(Lost') <= faults'
  <1>1. Lost' \subseteq Lost \union {x}
    BY DEF Lost, Places
  <1>0. /\ IsFiniteSet(Lost \union {x})
        /\ Cardinality(Lost \union {x}) \in {Cardinality(Lost), Cardinality(Lost) + 1}
    BY LostFinite, FS_AddElement
  <1>2. /\ IsFiniteSet(Lost \union {x}) /\ Cardinality(Lost \union {x}) \in Nat
        /\ Cardinality(Lost \union {x}) <= Cardinality(Lost) + 1
    BY <1>0, LostFinite
  <1>3. Cardinality(Lost') <= Cardinality(Lost \union {x}) /\ Cardinality(Lost') \in Nat
    BY <1>1, <1>2, FS_Subset, FS_CardinalityType
  <1>. QED BY <1>2, <1>3, LostFinite DEF TypeOK

(* Every step leaves a cancellation visible in the status.                   *)
LEMMA MarkedStep == LInv /\ [Next]_vars => CancelMarked'
  <1> SUFFICES ASSUME LInv, [Next]_vars PROVE CancelMarked'
    OBVIOUS
  <1> USE DEF LInv, IInv, TypeOK, CancelMarked, Terminal
  <1>1. ASSUME NEW h \in Handlers, CreateJob(h) PROVE CancelMarked'
    BY <1>1 DEF CreateJob, InsertJob
  <1>2. ASSUME NEW h \in Handlers, RejectJob(h) PROVE CancelMarked'
    BY <1>2 DEF RejectJob, SetTerminal
  <1>3. ASSUME NEW h \in Handlers, NEW j \in Jobs, CancelJob(h, j) PROVE CancelMarked'
    <2>1. /\ status[j] = "queued" => CancelReply(status[j]) = "cancelled"
          /\ status[j] \in {"running", "cancel_requested"} =>
                CancelReply(status[j]) = "cancel_requested"
          /\ status[j] \in Terminal => CancelReply(status[j]) = "terminal"
          /\ status[j] \in {"queued", "running", "cancel_requested"} \union Terminal
      BY <1>3 DEF CancelJob, CancelReply, Known, Statuses
    <2> DEFINE reply == CancelReply(status[j])
    <2>2. /\ status' = [status EXCEPT ![j] = IF reply = "terminal" THEN @ ELSE reply]
          /\ cancelReq' = [cancelReq EXCEPT ![j] = @ \/ reply # "terminal"]
      BY <1>3 DEF CancelJob
    <2>3. reply = "terminal" \/ reply \in {"cancelled", "cancel_requested"}
      BY <2>1
    <2>4. CASE reply = "terminal"
      <3>1. status' = status /\ \A i \in Jobs : cancelReq'[i] = cancelReq[i]
        BY <2>2, <2>4
      <3>. QED BY <3>1
    <2>5. CASE reply \in {"cancelled", "cancel_requested"}
      <3>1. /\ status'[j] = reply
            /\ \A i \in Jobs : i # j => /\ status'[i] = status[i]
                                        /\ cancelReq'[i] = cancelReq[i]
        BY <2>2, <2>5
      <3>. QED BY <2>5, <3>1
    <2>. QED BY <2>3, <2>4, <2>5
  <1>4. ASSUME NEW w \in Workers, StartJob(w) PROVE CancelMarked'
    BY <1>4 DEF StartJob, MayStart
  <1>5. ASSUME NEW w \in Workers, EndJob(w) PROVE CancelMarked'
    BY <1>5 DEF EndJob, SetTerminal
  <1>6. ASSUME NEW w \in Workers, FailUnhandled(w) PROVE CancelMarked'
    BY <1>6 DEF FailUnhandled, SetTerminal
  <1>7. CASE Start
    BY <1>7 DEF Start, Requeued
  <1>8. CASE RecoverJob
    <2>1. PICK j \in recovering : UNCHANGED db \/ SetTerminal(j, "failed")
      BY <1>8 DEF RecoverJob
    <2>2. CASE UNCHANGED db
      BY <2>2 DEF db
    <2>3. CASE SetTerminal(j, "failed")
      BY <2>1, <2>3 DEF SetTerminal
    <2>. QED BY <2>1, <2>2, <2>3
  <1>9. ASSUME UNCHANGED <<status, cancelReq>> PROVE CancelMarked'
    BY <1>9
  <1>. QED
    BY <1>1, <1>2, <1>3, <1>4, <1>5, <1>6, <1>7, <1>8, <1>9
    DEF Next, WorkerStep, HandlerStep, Command, MainStep, SubmitJob, SubmitRefused,
        RejectFaults, SetPause, TakeJob, SkipJob, EnterStage, PublishReport,
        LastCheck, SeeCancel, BackendFails, Notify, WorkerFaults, Recovered,
        QueryFaults, RecoverFaults, BeginShutdown, EventsDrained, PutPill, Exit, Crash, vars, db

(* A marker put at the end is behind everything.                             *)
LEMMA MarkerAtEnd ==
    ASSUME NEW q, NEW r, Len(q) \in Nat, Len(r) = Len(q) + 1,
           \A i \in 1..Len(q) : r[i] = q[i], r[Len(q) + 1] = Pill,
           \A i, k \in 1..Len(q) : i < k /\ q[i] = Pill => q[k] = Pill
    PROVE  \A i, k \in 1..Len(r) : i < k /\ r[i] = Pill => r[k] = Pill
  <1> SUFFICES ASSUME NEW i \in 1..Len(r), NEW k \in 1..Len(r), i < k, r[i] = Pill
               PROVE  r[k] = Pill
    OBVIOUS
  <1>1. CASE k = Len(q) + 1
    BY <1>1
  <1>2. CASE k # Len(q) + 1
    <2>1. i \in 1..Len(q) /\ k \in 1..Len(q)
      BY <1>2
    <2>. QED BY <2>1
  <1>. QED BY <1>1, <1>2

(* Every step puts stop markers behind all jobs, and only when no job comes. *)
LEMMA MarkersStep == LInv /\ [Next]_vars => MarkersLast'
  <1> SUFFICES ASSUME LInv, [Next]_vars PROVE MarkersLast'
    OBVIOUS
  <1> USE DEF LInv, IInv, TypeOK, MarkersLast, Pcs
  <1>0. ASSUME UNCHANGED <<phase, queue, hpc>>,
               \A v \in Workers : pc'[v] = "stopped" => pc[v] = "stopped"
        PROVE  MarkersLast'
    <2>1. MarkersLast
      OBVIOUS
    <2>. QED BY ONLY <1>0, <2>1 DEF MarkersLast, InQueue
  <1>1. ASSUME NEW h \in Handlers, CreateJob(h) PROVE MarkersLast'
    <2>1. UNCHANGED <<phase, queue, pc>> /\ phase # "stopping"
      BY <1>1 DEF CreateJob, Serving, proc, worker
    <2>. QED BY <2>1 DEF InQueue
  <1>2. ASSUME NEW h \in Handlers, SubmitJob(h) PROVE MarkersLast'
    <2>1. /\ phase # "stopping" /\ hjob[h] \in Jobs /\ queue' = Append(queue, hjob[h])
          /\ UNCHANGED <<phase, pc>>
      BY <1>2 DEF SubmitJob, HandsFull, worker
    <2>2. Pill \notin InQueue /\ \A w \in Workers : pc[w] # "stopped"
      BY <2>1
    <2>3. InQueue' = InQueue \union {hjob[h]}
      BY ONLY <2>1, TypeOK, AppendContents
    <2>5. hjob[h] # Pill
      BY ONLY <2>1 DEF Jobs, Pill
    <2>4. \A i \in 1..Len(queue') : queue'[i] # Pill
      BY <2>2, <2>3, <2>5 DEF InQueue
    <2>. QED BY <2>1, <2>2, <2>3, <2>4, <2>5
  <1>3. ASSUME NEW h \in Handlers, SubmitRefused(h) \/ RejectJob(h) \/ RejectFaults(h)
        PROVE  MarkersLast'
    BY <1>3 DEF SubmitRefused, RejectJob, RejectFaults, InQueue, proc, worker
  <1>4. ASSUME NEW h \in Handlers, NEW j \in Jobs, CancelJob(h, j) \/ SetPause(h, j)
        PROVE  MarkersLast'
    BY <1>4 DEF CancelJob, SetPause, InQueue, proc, worker, handler
  <1>5. ASSUME NEW w \in Workers, TakeJob(w) PROVE MarkersLast'
    <2>1. /\ queue # <<>> /\ queue' = Tail(queue) /\ UNCHANGED <<phase, hpc>>
          /\ pc' = [pc EXCEPT ![w] = IF Head(queue) = Pill THEN "stopped" ELSE "taken"]
      BY <1>5 DEF TakeJob, Becomes, handler
    <2>2. /\ Len(queue) \in Nat /\ Head(queue) = queue[1] /\ Len(queue) > 0
          /\ Len(queue') = Len(queue) - 1
          /\ \A i \in 1..Len(queue') : queue'[i] = queue[i + 1]
          /\ InQueue = InQueue' \union {Head(queue)}
      BY <2>1, TailContents
    <2>3. ASSUME NEW i \in 1..Len(queue'), NEW k \in 1..Len(queue'),
                 i < k, queue'[i] = Pill
          PROVE  queue'[k] = Pill
      <3>1. /\ i + 1 \in 1..Len(queue) /\ k + 1 \in 1..Len(queue) /\ i + 1 < k + 1
            /\ queue'[i] = queue[i + 1] /\ queue'[k] = queue[k + 1]
        BY <2>2, <2>3
      <3>. QED BY <3>1, <2>3
    <2>4. \A v \in Workers : pc'[v] = "stopped" => pc[v] = "stopped" \/ Head(queue) = Pill
      BY <2>1
    <2>. QED BY <2>1, <2>2, <2>3, <2>4
  <1>6. ASSUME NEW w \in Workers, StartJob(w) \/ PublishReport(w) \/ LastCheck(w)
               \/ SeeCancel(w) \/ BackendFails(w) \/ EndJob(w)
        PROVE  MarkersLast'
    <2>1. /\ UNCHANGED <<phase, queue, hpc>>
          /\ \A v \in Workers : pc'[v] = "stopped" => pc[v] = "stopped"
      BY <1>6 DEF StartJob, PublishReport, LastCheck, SeeCancel, BackendFails, EndJob,
                  Becomes, proc, handler
    <2>. QED BY ONLY <1>0, <2>1
  <1>7. ASSUME NEW w \in Workers, EnterStage(w) PROVE MarkersLast'
    BY <1>7 DEF EnterStage, InQueue, proc, handler
  <1>8. ASSUME NEW w \in Workers, SkipJob(w) \/ Notify(w) \/ FailUnhandled(w)
        PROVE  MarkersLast'
    <2>1. /\ UNCHANGED <<phase, queue, hpc>>
          /\ \A v \in Workers : pc'[v] = "stopped" => pc[v] = "stopped"
      BY <1>8 DEF SkipJob, Notify, FailUnhandled, Release, Becomes, proc, handler
    <2>. QED BY ONLY <1>0, <2>1
  <1>9. ASSUME NEW w \in Workers, WorkerFaults(w) PROVE MarkersLast'
    <2>1. UNCHANGED <<phase, queue, hpc>>
      BY <1>9 DEF WorkerFaults, proc, handler
    <2>2. CASE pc[w] = "fault"
      <3>1. \A v \in Workers : pc'[v] = "stopped" => pc[v] = "stopped"
        BY <1>9, <2>2 DEF WorkerFaults, Release, Becomes
      <3>. QED BY ONLY <1>0, <2>1, <3>1
    <2>3. CASE pc[w] # "fault"
      <3>1. /\ AfterFault(pc[w]) # "stopped"
            /\ pc' = [pc EXCEPT ![w] = AfterFault(pc[w])]
        BY <1>9, <2>3 DEF WorkerFaults, AfterFault, Becomes
      <3>2. \A v \in Workers : pc'[v] = "stopped" => pc[v] = "stopped"
        BY <3>1
      <3>. QED BY ONLY <1>0, <2>1, <3>2
    <2>. QED BY <2>2, <2>3
  <1>10. CASE Start
    <2>1. /\ queue' = <<>> /\ phase' = "starting" /\ \A w \in Workers : pc'[w] = "idle"
      BY <1>10 DEF Start, AllWorkers, DownIsClean
    <2>2. InQueue' = {} /\ 1..Len(queue') = {}
      BY <2>1 DEF InQueue
    <2>. QED BY <2>1, <2>2
  <1>11. CASE RecoverJob
    <2>1. PICK j \in recovering : queue' = Append(queue, j) \/ UNCHANGED queue
      BY <1>11 DEF RecoverJob
    <2>2. phase = "starting" /\ UNCHANGED <<phase, pc, hpc>> /\ j \in Jobs /\ j # Pill
      BY <1>11 DEF RecoverJob, worker, handler, Jobs, Pill
    <2>3. InQueue' \subseteq InQueue \union {j}
      <3>1. CASE queue' = Append(queue, j)
        BY <2>2, <3>1, AppendContents
      <3>2. CASE UNCHANGED queue
        BY <3>2 DEF InQueue
      <3>. QED BY <2>1, <3>1, <3>2
    <2>4. Pill \notin InQueue'
      BY <2>2, <2>3
    <2>5. \A i \in 1..Len(queue') : queue'[i] # Pill
      BY <2>4 DEF InQueue
    <2>. QED BY <2>2, <2>4, <2>5
  <1>12. CASE Recovered \/ BeginShutdown \/ EventsDrained
    <2>1. /\ UNCHANGED <<queue, pc, hpc>> /\ phase # "stopping"
          /\ phase' = "stopping" => \A h \in Handlers : hpc[h] = "idle"
      BY <1>12 DEF Recovered, BeginShutdown, EventsDrained, worker, handler
    <2>. QED BY <2>1 DEF InQueue
  <1>13. CASE PutPill
    <2>1. /\ phase = "stopping" /\ UNCHANGED <<phase, pc, hpc>>
          /\ queue' = Append(queue, Pill)
      BY <1>13 DEF PutPill, worker, handler
    <2>2. /\ Len(queue') = Len(queue) + 1 /\ Len(queue) \in Nat
          /\ \A i \in 1..Len(queue) : queue'[i] = queue[i]
          /\ queue'[Len(queue) + 1] = Pill
      BY <2>1, AppendContents
    <2>3. \A i, k \in 1..Len(queue) : i < k /\ queue[i] = Pill => queue[k] = Pill
      OBVIOUS
    <2>4. \A i, k \in 1..Len(queue') : i < k /\ queue'[i] = Pill => queue'[k] = Pill
      BY ONLY <2>2, <2>3, MarkerAtEnd
    <2>. QED BY <2>1, <2>4
  <1>14. CASE Exit \/ Crash
    <2>1. /\ queue' = <<>> /\ phase' # "stopping" /\ \A w \in Workers : pc'[w] = "off"
      BY <1>14 DEF Exit, Crash, AllWorkers
    <2>2. InQueue' = {} /\ 1..Len(queue') = {}
      BY <2>1 DEF InQueue
    <2>. QED BY <2>1, <2>2
  <1>16. CASE QueryFaults
    <2>1. /\ queue' = <<>> /\ phase' = "stranded" /\ \A w \in Workers : pc'[w] = "idle"
      BY <1>16 DEF QueryFaults, AllWorkers, DownIsClean
    <2>2. InQueue' = {} /\ 1..Len(queue') = {}
      BY <2>1 DEF InQueue
    <2>. QED BY <2>1, <2>2
  <1>17. CASE RecoverFaults
    <2>1. UNCHANGED <<queue, pc, hpc>> /\ phase # "stopping" /\ phase' # "stopping"
      BY <1>17 DEF RecoverFaults, worker, handler
    <2>. QED BY <2>1 DEF InQueue
  <1>15. CASE UNCHANGED vars
    <2>1. UNCHANGED <<phase, queue, pc, hpc>>
      BY ONLY <1>15 DEF vars, proc, worker, handler
    <2>. QED BY ONLY <1>0, <2>1
  <1>. QED
    BY <1>1, <1>2, <1>3, <1>4, <1>5, <1>6, <1>7, <1>8, <1>9, <1>10, <1>11, <1>12,
       <1>13, <1>14, <1>15, <1>16, <1>17
    DEF Next, WorkerStep, HandlerStep, Command, MainStep

(* A worker that stops in order has seen the queue emptied.                  *)
LEMMA StoppedStep ==
    LInv /\ [Next]_vars =>
      ((\E w \in Workers : pc'[w] = "stopped") => InQueue' \intersect Jobs = {})
  <1> SUFFICES ASSUME LInv, [Next]_vars
               PROVE  (\E w \in Workers : pc'[w] = "stopped") => InQueue' \intersect Jobs = {}
    OBVIOUS
  <1> USE DEF LInv, IInv, TypeOK
  <1>1. (\E w \in Workers : pc'[w] = "stopped") => InQueue' \intersect Jobs = {}
    <2>1. CASE \E w \in Workers : TakeJob(w)
      <3>1. PICK w \in Workers : TakeJob(w)
        BY <2>1
      <3>2. /\ queue # <<>> /\ queue' = Tail(queue)
            /\ pc' = [pc EXCEPT ![w] = IF Head(queue) = Pill THEN "stopped" ELSE "taken"]
        BY <3>1 DEF TakeJob, Becomes
      <3>3. /\ Len(queue) \in Nat /\ Head(queue) = queue[1] /\ Len(queue) > 0
            /\ Len(queue') = Len(queue) - 1
            /\ \A i \in 1..Len(queue') : queue'[i] = queue[i + 1]
            /\ InQueue = InQueue' \union {Head(queue)}
        BY <3>2, TailContents
      <3>4. CASE Head(queue) = Pill
        <4>1. \A i \in 1..Len(queue) : queue[i] = Pill
          BY <3>3, <3>4 DEF MarkersLast
        <4>2. InQueue' \subseteq {Pill} /\ Pill \notin Jobs
          BY <3>3, <4>1 DEF InQueue, Jobs, Pill
        <4>. QED BY <4>2
      <3>5. CASE Head(queue) # Pill
        <4>1. \A v \in Workers : pc'[v] = "stopped" => pc[v] = "stopped"
          BY <3>2, <3>5
        <4>. QED BY <3>3, <4>1 DEF NoJobLost
      <3>. QED BY <3>4, <3>5
    <2>2. CASE Start \/ QueryFaults
      BY <2>2 DEF Start, QueryFaults, AllWorkers
    <2>3. CASE Exit \/ Crash
      BY <2>3 DEF Exit, Crash, AllWorkers
    <2>4. CASE PutPill
      <3>1. InQueue' = InQueue \union {Pill} /\ Pill \notin Jobs /\ UNCHANGED pc
        BY <2>4, AppendContents, SMTT(30) DEF PutPill, worker, Jobs, Pill
      <3>. QED BY <3>1 DEF NoJobLost
    <2>5. CASE RecoverJob \/ \E h \in Handlers : SubmitJob(h)
      <3>1. phase # "stopping" /\ UNCHANGED pc
        BY <2>5 DEF RecoverJob, SubmitJob, MarkersLast, worker
      <3>. QED BY <3>1 DEF MarkersLast
    <2>6. ASSUME NEW w \in Workers, WorkerFaults(w)
          PROVE  \A v \in Workers : pc'[v] = "stopped" => pc[v] = "stopped"
      BY <2>6 DEF WorkerFaults, Release, Becomes, AfterFault
    <2>7. ASSUME UNCHANGED queue,
                 \A v \in Workers : pc'[v] = "stopped" => pc[v] = "stopped"
          PROVE  (\E w \in Workers : pc'[w] = "stopped") => InQueue' \intersect Jobs = {}
      BY <2>7 DEF NoJobLost, InQueue
    <2>8. ASSUME NEW w \in Workers,
                 StartJob(w) \/ SkipJob(w) \/ EnterStage(w) \/ PublishReport(w)
                 \/ LastCheck(w) \/ SeeCancel(w) \/ EndJob(w) \/ Notify(w)
                 \/ FailUnhandled(w) \/ BackendFails(w) \/ WorkerFaults(w)
          PROVE  /\ UNCHANGED queue
                 /\ \A v \in Workers : pc'[v] = "stopped" => pc[v] = "stopped"
      BY <2>8, <2>6 DEF StartJob, SkipJob, EnterStage, PublishReport, LastCheck, SeeCancel,
                  EndJob, Notify, FailUnhandled, BackendFails, WorkerFaults,
                  Release, Becomes, proc
    <2>9. ASSUME UNCHANGED <<queue, pc>>
          PROVE  (\E w \in Workers : pc'[w] = "stopped") => InQueue' \intersect Jobs = {}
      BY <2>7, <2>9
    <2>10. ASSUME NEW h \in Handlers,
                  \/ SubmitRefused(h) \/ RejectJob(h) \/ RejectFaults(h) \/ Command(h)
           PROVE  UNCHANGED <<queue, pc>>
      BY <2>10 DEF SubmitRefused, RejectJob, RejectFaults, Command, CreateJob, CancelJob,
                   SetPause, proc, worker
    <2>11. CASE Recovered \/ RecoverFaults \/ BeginShutdown \/ EventsDrained \/ UNCHANGED vars
      BY <2>9, <2>11 DEF Recovered, RecoverFaults, BeginShutdown, EventsDrained, vars, proc, worker
    <2>. QED BY <2>1, <2>2, <2>3, <2>4, <2>5, <2>7, <2>8, <2>9, <2>10, <2>11
             DEF Next, WorkerStep, HandlerStep, MainStep
  <1>. QED BY <1>1

(* Every step but a failed call loses no job.                                *)
LEMMA LostStep ==
    LInv /\ [Next]_vars /\ phase # "stranded"
      => (phase' \notin {"down", "exited", "stranded"} => Cardinality(Lost') <= faults')
  <1> SUFFICES ASSUME LInv, [Next]_vars, phase # "stranded",
                      phase' \notin {"down", "exited", "stranded"}
               PROVE  Cardinality(Lost') <= faults'
    OBVIOUS
  <1> DEFINE Waiting == {"queued", "running"}
             Few     == Cardinality(Lost') <= faults'
  <1> USE DEF LInv, IInv, TypeOK
  <1>0. phase \notin {"down", "exited", "stranded"} => Cardinality(Lost) <= faults
    BY DEF NoJobLost
  <1>2. ASSUME phase \notin {"down", "exited", "stranded"}, UNCHANGED faults,
               \A j \in Places \intersect Jobs : j \in Places' \/ status'[j] \notin Waiting,
               \A j \in Jobs : status'[j] \in Waiting => status[j] \in Waiting \/ j \in Places'
        PROVE  Few
    BY <1>0, <1>2, NoneLost
  <1>3. ASSUME phase \notin {"down", "exited", "stranded"}, UNCHANGED <<faults, queue, held, hjob, recovering>>,
               \A j \in Jobs : status'[j] \in Waiting => status[j] \in Waiting \/ j \in Places'
        PROVE  Few
    <2>1. Places' = Places
      BY <1>3 DEF Places, InQueue, Held, Submitted
    <2>. QED BY <1>2, <1>3, <2>1
  <1>4. ASSUME NEW h \in Handlers, CreateJob(h) PROVE Few
    <2>1. PICK j \in Jobs : /\ status[j] = "absent" /\ hjob' = [hjob EXCEPT ![h] = j]
                            /\ status' = [status EXCEPT ![j] = "queued"]
      BY <1>4 DEF CreateJob, InsertJob
    <2>2. /\ hjob[h] = 0 /\ UNCHANGED <<queue, held, recovering, faults>>
          /\ phase \notin {"down", "exited", "stranded"}
      BY <1>4 DEF CreateJob, Serving, HandsFull, proc, worker
    <2>3. j \in Submitted' /\ Submitted \intersect Jobs \subseteq Submitted'
      BY <2>1, <2>2 DEF Submitted, Jobs
    <2>4. Places \intersect Jobs \subseteq Places' /\ j \in Places'
      BY <2>2, <2>3 DEF Places, InQueue, Held
    <2>. QED BY <1>2, <2>1, <2>2, <2>4
  <1>5. ASSUME NEW h \in Handlers, SubmitJob(h) PROVE Few
    <2>1. /\ hjob[h] \in Jobs /\ queue' = Append(queue, hjob[h])
          /\ hjob' = [hjob EXCEPT ![h] = 0]
          /\ UNCHANGED <<status, held, recovering, faults>>
          /\ phase \notin {"down", "exited", "stranded"}
      BY <1>5 DEF SubmitJob, HandsFull, DownIsClean, worker, db
    <2>2. InQueue' = InQueue \union {hjob[h]}
      BY <2>1, AppendContents
    <2>3. Submitted \subseteq Submitted' \union {hjob[h]}
      BY <2>1 DEF Submitted
    <2>4. Places \subseteq Places'
      BY <2>1, <2>2, <2>3 DEF Places, Held
    <2>. QED BY <1>2, <2>1, <2>4
  <1>6. ASSUME NEW h \in Handlers, RejectJob(h) PROVE Few
    <2>1. /\ hjob[h] \in Jobs /\ SetTerminal(hjob[h], "failed")
          /\ hjob' = [hjob EXCEPT ![h] = 0] /\ status[hjob[h]] = "queued"
          /\ UNCHANGED <<queue, held, recovering, faults>>
          /\ phase \notin {"down", "exited", "stranded"}
      BY <1>6 DEF RejectJob, HandsFull, DownIsClean, RowsMatchPlaces, proc, worker
    <2>2. /\ \A i \in Jobs : i # hjob[h] => status'[i] = status[i]
          /\ status'[hjob[h]] = "failed"
      BY <2>1, EndKeepsOthers DEF Terminal
    <2>3. Submitted \subseteq Submitted' \union {hjob[h]}
      BY <2>1 DEF Submitted
    <2>4. Places \subseteq Places' \union {hjob[h]}
      BY <2>1, <2>3 DEF Places, Held, InQueue
    <2>. QED BY <1>2, <2>1, <2>2, <2>4
  <1>7. ASSUME NEW h \in Handlers, RejectFaults(h) PROVE Few
    <2>1. /\ hjob' = [hjob EXCEPT ![h] = 0] /\ faults' = faults + 1
          /\ UNCHANGED <<status, queue, held, recovering>>
          /\ phase \notin {"down", "exited", "stranded"}
      BY <1>7 DEF RejectFaults, DownIsClean, proc, worker, db
    <2>2. Submitted \subseteq Submitted' \union {hjob[h]}
      BY <2>1 DEF Submitted
    <2>3. Places \subseteq Places' \union {hjob[h]}
      BY <2>1, <2>2 DEF Places, Held, InQueue
    <2>4. \A j \in Places \intersect Jobs : j \in Places' \/ j = hjob[h]
      BY <2>3
    <2>5. Cardinality(Lost) <= faults
      BY <1>0, <2>1
    <2>. HIDE DEF Few
    <2>6. Cardinality(Lost') <= faults'
      BY <2>1, <2>4, <2>5, OneLost
    <2>. QED BY <2>6 DEF Few
  <1>8. ASSUME NEW h \in Handlers, NEW j \in Jobs, CancelJob(h, j) PROVE Few
    <2>1. /\ status[j] = "queued" => CancelReply(status[j]) = "cancelled"
          /\ status[j] \in {"running", "cancel_requested"} =>
                CancelReply(status[j]) = "cancel_requested"
          /\ status[j] \in Terminal => CancelReply(status[j]) = "terminal"
          /\ status[j] \in {"queued", "running", "cancel_requested"} \union Terminal
      BY <1>8 DEF CancelJob, CancelReply, Known, Statuses, Terminal
    <2>2. status' = [status EXCEPT ![j] =
                        IF CancelReply(status[j]) = "terminal" THEN @
                        ELSE CancelReply(status[j])]
      BY <1>8 DEF CancelJob
    <2>3. \A i \in Jobs : status'[i] \in Waiting => status[i] \in Waiting
      BY <2>1, <2>2 DEF Terminal
    <2>. QED BY <1>3, <1>8, <2>3 DEF CancelJob, Serving, proc, worker, handler
  <1>9. ASSUME NEW h \in Handlers, SubmitRefused(h) \/ \E j \in Jobs : SetPause(h, j)
        PROVE  Few
    <2>1. /\ UNCHANGED <<status, queue, held, hjob, recovering, faults>>
          /\ phase \notin {"down", "exited", "stranded"}
      BY <1>9 DEF SubmitRefused, SetPause, Serving, DownIsClean, proc, worker, handler, db
    <2>. QED BY <1>3, <2>1
  <1>10. ASSUME NEW w \in Workers, TakeJob(w) PROVE Few
    <2>1. /\ queue # <<>> /\ queue' = Tail(queue) /\ held[w] = 0
          /\ held' = [held EXCEPT ![w] = Head(queue)]
          /\ UNCHANGED <<status, hjob, recovering, faults>>
          /\ phase \notin {"down", "exited", "stranded"}
      BY <1>10 DEF TakeJob, HandsFull, DownIsClean, Empty, handler, db
    <2>2. InQueue = InQueue' \union {Head(queue)} /\ Head(queue) \in Jobs \union {Pill}
      BY <2>1, TailContents
    <2>3. Head(queue) \in Held' /\ Held \intersect Jobs \subseteq Held'
      BY <2>1, <2>2 DEF Held, Jobs, Pill
    <2>4. Places \intersect Jobs \subseteq Places'
      BY <2>1, <2>2, <2>3 DEF Places, Submitted
    <2>. QED BY <1>2, <2>1, <2>4
  <1>11. ASSUME NEW w \in Workers, StartJob(w) PROVE Few
    <2>1. /\ status' = [status EXCEPT ![held[w]] = "running"]
          /\ status[held[w]] = "queued"
          /\ UNCHANGED <<queue, held, hjob, recovering, faults>>
          /\ phase \notin {"down", "exited", "stranded"}
      BY <1>11 DEF StartJob, MayStart, DownIsClean, proc, handler
    <2>. QED BY <1>3, <2>1
  <1>12. ASSUME NEW w \in Workers,
                \/ EnterStage(w) \/ PublishReport(w) \/ LastCheck(w)
                \/ SeeCancel(w) \/ BackendFails(w)
         PROVE  Few
    <2>1. /\ UNCHANGED <<status, queue, held, hjob, recovering, faults>>
          /\ phase \notin {"down", "exited", "stranded"}
      BY <1>12 DEF EnterStage, PublishReport, LastCheck, SeeCancel, BackendFails,
                   DownIsClean, proc, handler, db
    <2>. QED BY <1>3, <2>1
  <1>13. ASSUME NEW w \in Workers, EndJob(w) PROVE Few
    <2>1. /\ held[w] \in Jobs
          /\ UNCHANGED <<queue, held, hjob, recovering, faults>>
          /\ phase \notin {"down", "exited", "stranded"}
      BY <1>13, BusyHoldsJob DEF EndJob, DownIsClean, Empty, proc, handler
    <2>2. OutcomeOf(pc[w]) \in Terminal /\ SetTerminal(held[w], OutcomeOf(pc[w]))
      BY <1>13 DEF EndJob, OutcomeOf, Terminal
    <2>3. \A i \in Jobs : status'[i] \in Waiting => status[i] \in Waiting
      BY <2>1, <2>2 DEF SetTerminal, Terminal
    <2>. QED BY <1>3, <2>1, <2>3
  <1>14. ASSUME NEW w \in Workers, SkipJob(w) \/ Notify(w) \/ FailUnhandled(w) PROVE Few
    <2>1. /\ held' = [held EXCEPT ![w] = 0] /\ held[w] \in Jobs
          /\ UNCHANGED <<queue, hjob, recovering, faults>>
          /\ phase \notin {"down", "exited", "stranded"}
      BY <1>14, BusyHoldsJob
      DEF SkipJob, Notify, FailUnhandled, Release, DownIsClean, Empty, proc, handler
    <2>2. Held \subseteq Held' \union {held[w]}
      BY <2>1 DEF Held
    <2>3. Places \subseteq Places' \union {held[w]}
      BY <2>1, <2>2 DEF Places, Submitted, InQueue
    <2>4. \A i \in Jobs : status'[i] \in Waiting => status[i] \in Waiting
      BY <1>14 DEF SkipJob, Notify, FailUnhandled, SetTerminal, db
    <2>5. CASE SkipJob(w)
      <3>1. status[held[w]] = "cancelled" /\ UNCHANGED status
        BY <2>1, <2>5 DEF SkipJob, MayStart, RowsMatchPlaces, RowOfWorker, CancelMarked, db
      <3>. QED BY <1>2, <2>1, <2>3, <3>1
    <2>6. CASE Notify(w)
      <3>1. status[held[w]] \in Terminal /\ UNCHANGED status
        BY <2>6 DEF Notify, RowsMatchPlaces, RowOfWorker, db
      <3>. QED BY <1>2, <2>1, <2>3, <3>1 DEF Terminal
    <2>7. CASE FailUnhandled(w)
      <3>1. status'[held[w]] \in Terminal
        BY <2>1, <2>7, EndKeepsOthers DEF FailUnhandled, Terminal
      <3>. QED BY <1>2, <2>1, <2>3, <2>4, <3>1 DEF Terminal
    <2>. QED BY <1>14, <2>5, <2>6, <2>7
  <1>15. ASSUME NEW w \in Workers, WorkerFaults(w) PROVE Few
    <2>1. /\ held' = held \/ held' = [held EXCEPT ![w] = 0]
          /\ UNCHANGED <<status, queue, hjob, recovering>> /\ faults' = faults + 1
          /\ phase \notin {"down", "exited", "stranded"}
      BY <1>15 DEF WorkerFaults, Release, DownIsClean, proc, handler, db
    <2>2. Held \subseteq Held' \union {held[w]}
      BY <2>1 DEF Held
    <2>3. Places \subseteq Places' \union {held[w]}
      BY <2>1, <2>2 DEF Places, Submitted, InQueue
    <2>4. \A j \in Places \intersect Jobs : j \in Places' \/ j = held[w]
      BY <2>3
    <2>5. Cardinality(Lost) <= faults
      BY <1>0, <2>1
    <2>. HIDE DEF Few
    <2>6. Cardinality(Lost') <= faults'
      BY <2>1, <2>4, <2>5, OneLost
    <2>. QED BY <2>6 DEF Few
  <1>16. ASSUME Start PROVE Few
    <2>1. /\ status' = [j \in Jobs |-> Requeued(status[j])]
          /\ recovering' = {j \in Jobs : Requeued(status[j]) = "queued" /\ ~cancelReq[j]}
          /\ UNCHANGED faults
      BY <1>16 DEF Start
    <2>2. ASSUME NEW j \in Jobs, status'[j] \in Waiting PROVE j \in recovering'
      BY <2>1, <2>2 DEF Requeued, CancelMarked
    <2>3. Lost' = {}
      BY <2>2 DEF Lost
    <2>. QED BY <2>1, <2>3, FS_EmptySet
  <1>17. ASSUME RecoverJob PROVE Few
    <2>1. PICK j \in recovering :
             /\ recovering' = recovering \ {j}
             /\ \/ queue' = Append(queue, j) /\ UNCHANGED db
                \/ SetTerminal(j, "failed") /\ UNCHANGED queue
      BY <1>17 DEF RecoverJob
    <2>2. /\ j \in Jobs /\ status[j] = "queued" /\ phase \notin {"down", "exited", "stranded"}
          /\ UNCHANGED <<held, hjob, faults>> /\ Held' = Held /\ Submitted' = Submitted
      BY <1>17 DEF RecoverJob, RowsMatchPlaces, worker, handler, Held, Submitted
    <2>3. CASE queue' = Append(queue, j) /\ UNCHANGED db
      <3>1. InQueue' = InQueue \union {j}
        BY <2>2, <2>3, AppendContents
      <3>2. Places \subseteq Places'
        BY <2>1, <2>2, <3>1 DEF Places
      <3>. QED BY <1>2, <2>2, <2>3, <3>2 DEF db
    <2>4. CASE SetTerminal(j, "failed") /\ UNCHANGED queue
      <3>1. /\ \A i \in Jobs : i # j => status'[i] = status[i]
            /\ status'[j] = "failed"
        BY <2>2, <2>4, EndKeepsOthers DEF Terminal
      <3>2. Places \subseteq Places' \union {j}
        BY <2>1, <2>2, <2>4 DEF Places, InQueue
      <3>. QED BY <1>2, <2>2, <3>1, <3>2
    <2>. QED BY <2>1, <2>3, <2>4
  <1>18. ASSUME PutPill PROVE Few
    <2>1. /\ queue' = Append(queue, Pill)
          /\ UNCHANGED <<status, held, hjob, recovering, faults>>
          /\ phase \notin {"down", "exited", "stranded"}
      BY <1>18 DEF PutPill, worker, handler, db
    <2>2. InQueue' = InQueue \union {Pill}
      BY <2>1, AppendContents
    <2>3. Places \subseteq Places'
      BY <2>1, <2>2 DEF Places, Held, Submitted
    <2>. QED BY <1>2, <2>1, <2>3
  <1>19. ASSUME Recovered \/ BeginShutdown \/ EventsDrained PROVE Few
    <2>1. /\ UNCHANGED <<status, queue, held, hjob, recovering, faults>>
          /\ phase \notin {"down", "exited", "stranded"}
      BY <1>19 DEF Recovered, BeginShutdown, EventsDrained, worker, handler, db
    <2>. QED BY <1>3, <2>1
  <1>20. ASSUME Exit \/ Crash \/ QueryFaults \/ RecoverFaults
         PROVE  phase' \in {"down", "exited", "stranded"}
    BY <1>20 DEF Exit, Crash, QueryFaults, RecoverFaults
  <1>21. ASSUME UNCHANGED vars, phase \notin {"down", "exited", "stranded"} PROVE Few
    <2>1. UNCHANGED <<status, queue, held, hjob, recovering, faults>>
      BY <1>21 DEF vars, proc, worker, handler, db
    <2>. QED BY <1>3, <1>21, <2>1
  <1>22. Few
    BY <1>4, <1>5, <1>6, <1>7, <1>8, <1>9, <1>10, <1>11, <1>12, <1>13, <1>14, <1>15,
       <1>16, <1>17, <1>18, <1>19, <1>20, <1>21
    DEF Next, WorkerStep, HandlerStep, Command, MainStep, vars, proc
  <1>. QED BY <1>22 DEF Few

(* The process whose main thread has ended stays like that until it is killed. *)
LEMMA StrandedStep == [Next]_vars /\ phase = "stranded" => phase' \in {"stranded", "down"}
  BY DEF Next, vars, proc, WorkerStep, HandlerStep, Command, MainStep, CreateJob, SubmitJob,
         SubmitRefused, RejectJob, RejectFaults, CancelJob, SetPause, TakeJob, StartJob,
         SkipJob, EnterStage, PublishReport, LastCheck, SeeCancel, BackendFails, EndJob,
         Notify, WorkerFaults, FailUnhandled, Start, RecoverJob, Recovered, QueryFaults,
         RecoverFaults, BeginShutdown, EventsDrained, PutPill, Exit, Crash

(* However threads, commands, failed calls and restarts interleave, a running *)
(* gateway knows every job the table calls queued or running, but for one at *)
(* most per failed repository call, and a worker that stops in order leaves   *)
(* no job in the queue.                                                      *)
THEOREM NoJobForgotten == Spec => []NoJobLost
  <1>1. LInv /\ [Next]_vars => LInv'
    BY MarkedStep, MarkersStep, StoppedStep, LostStep, StrandedStep, TypeStep, HandsStep, PlaceStep, RowStep
    DEF LInv, IInv, NoJobLost
  <1>2. LInv => NoJobLost
    BY DEF LInv
  <1>. QED BY InitLost, <1>1, <1>2, PTL DEF Spec
=============================================================================
