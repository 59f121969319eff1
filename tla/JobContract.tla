---------------------------- MODULE JobContract ----------------------------
(***************************************************************************)
(* What an execution backend promises the owner of a research job,         *)
(* whatever runs it.  Only two things are visible from a chat: the status  *)
(* recorded for the job and the messages the bot has sent about it.        *)
(*                                                                         *)
(* The promise: a job that has ended stays ended the same way, restarts    *)
(* can only send a running job back to the queue, and the bot never        *)
(* announces an outcome other than the recorded one.                       *)
(***************************************************************************)
CONSTANT Jobs

VARIABLES status,   \* status[j]: the status column of the job, or "absent"
          told      \* told[j]: the messages the bot has sent about the job

contractVars == <<status, told>>

Terminal == {"completed", "failed", "cancelled"}
Statuses == {"absent", "queued", "running", "cancel_requested"} \union Terminal

(* Announcements about a job; "rejected" is the reply to a /research that   *)
(* found no room, "terminal" the reply to a /cancel that came too late.     *)
Messages == Terminal \union {"rejected", "cancel_requested", "terminal"}

(* A message is true in the status it describes. *)
True(m, s) ==
    /\ m \in Terminal => s = m
    /\ m = "rejected" => s = "failed"
    /\ m = "terminal" => s \in Terminal
    /\ m = "cancel_requested" => s \in Terminal \union {"cancel_requested"}

(* The status changes a job may go through. *)
Moves ==
    {<<"absent", "queued">>, <<"queued", "running">>,
     <<"running", "cancel_requested">>, <<"running", "queued">>}
        \union ({"queued", "running", "cancel_requested"} \X {"failed"})
        \union ({"running", "cancel_requested"} \X {"completed", "cancelled"})
        \union {<<"queued", "cancelled">>}

ContractInit ==
    /\ status = [j \in Jobs |-> "absent"]
    /\ told = [j \in Jobs |-> {}]

(* One job moves, and the bot may announce what is then true of it. *)
Move(j) ==
    \E s \in Statuses :
        /\ <<status[j], s>> \in Moves
        /\ status' = [status EXCEPT ![j] = s]
        /\ \/ UNCHANGED told
           \/ \E m \in Messages : /\ True(m, s)
                                  /\ told' = [told EXCEPT ![j] = @ \union {m}]

Announce(j) ==
    \E m \in Messages : /\ True(m, status[j])
                        /\ told' = [told EXCEPT ![j] = @ \union {m}]
                        /\ UNCHANGED status

(* A restart puts every job that was running back in the queue at once. *)
Requeue ==
    /\ status' = [j \in Jobs |-> IF status[j] = "running" THEN "queued"
                                 ELSE status[j]]
    /\ UNCHANGED told

ContractNext == Requeue \/ \E j \in Jobs : Move(j) \/ Announce(j)

Contract == ContractInit /\ [][ContractNext]_contractVars

-----------------------------------------------------------------------------
(* What the owner can rely on. *)

ContractTypes ==
    /\ status \in [Jobs -> Statuses]
    /\ told \in [Jobs -> SUBSET Messages]

(* No message the bot has sent is contradicted by the jobs table, then or    *)
(* later.                                                                    *)
Truthful == \A j \in Jobs : \A m \in told[j] : True(m, status[j])

(* An ended job keeps its outcome. *)
EndedStaysEnded ==
    [][\A j \in Jobs : status[j] \in Terminal => status'[j] = status[j]]_contractVars
=============================================================================
