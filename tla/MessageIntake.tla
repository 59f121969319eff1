----------------------------- MODULE MessageIntake -----------------------------
(***************************************************************************)
(* How the gateway takes chat messages in: the bounded EventQueue with its  *)
(* workers, the messages already claimed, and the dialogue in which a       *)
(* /research topic becomes a draft, is configured by replies and submitted. *)
(*                                                                         *)
(* The messages are those of one user in one chat, drafts being kept per    *)
(* user and chat.  The messenger delivers a message at least once and       *)
(* forgets it when submit has returned.  Every Repository method holds the  *)
(* process-wide lock for its transaction and is one step; between two of    *)
(* them the other workers run, a call may raise, or the process may crash.  *)
(*                                                                         *)
(* Options are the set of the choices they differ from the defaults by.     *)
(***************************************************************************)
EXTENDS Naturals, Sequences, FiniteSets

CONSTANTS Workers,        \* event worker threads (EventQueue.worker_count)
          QueueSize,      \* EventQueue.max_size
          Choices,        \* options a reply can set, "monitor" among them or not
          Scripts,        \* bound: what the user posts is a beginning of one
          MaxTroubles     \* bound: repeated deliveries, calls that raise, crashes,
                          \* graceful stops

(* /research without and with options, the replies to a draft, and anything   *)
(* else that is answered and changes nothing here.                            *)
Kinds == {"topic", "command", "start", "cancel", "other"} \union Choices

(* No option is chosen with a word that starts or cancels a research.         *)
ASSUME ChoicesAssumption == Choices \cap {"topic", "command", "start", "cancel", "other"} = {}
ASSUME ScriptsAssumption == Scripts \subseteq Seq(Kinds)
ASSUME SizeAssumption == QueueSize \in Nat

(* The longest of them. *)
MaxMessages == CHOOSE n \in {Len(s) : s \in Scripts} : \A s \in Scripts : Len(s) <= n

VARIABLES posted,     \* history: the kinds of the messages posted
          delivered,  \* the messages delivered
          accepting,  \* EventQueue._accepting
          queue,      \* EventQueue.queue
          worker,     \* what each worker handles, where it is, its locals
          claimed,    \* processed_messages
          drafts,     \* research_drafts
          jobs,       \* jobs and monitor_registration_requests
          answer,     \* history: what each message was answered
          lost,       \* history: messages that went with a crash, that came
                      \* while the gateway stopped, or whose claim or whose
                      \* answer failed
          hasty,      \* history: the user did not wait for an answer
          troubles

vars == <<posted, delivered, accepting, queue, worker, claimed, drafts, jobs, answer, lost, hasty, troubles>>
user == <<posted, delivered, hasty>>
tables == <<claimed, drafts, jobs>>

Messages == 1 .. Len(posted)
Idle == [msg |-> 0, at |-> "idle", draft |-> 0, opts |-> {}, job |-> 0, says |-> "none"]

At(w, p) == worker[w].at = p
Kind(w) == posted[worker[w].msg]
Goes(w, local) == worker' = [worker EXCEPT ![w] = local]
GoTo(w, p) == Goes(w, [worker[w] EXCEPT !.at = p])
Says(w, text) == [worker[w] EXCEPT !.at = "reply", !.says = text]

-----------------------------------------------------------------------------
Post ==
    /\ \E s \in Scripts : /\ Len(posted) < Len(s) /\ posted = SubSeq(s, 1, Len(posted))
                          /\ posted' = SubSeq(s, 1, Len(posted) + 1)
    /\ answer' = Append(answer, "none")
    /\ hasty' = (hasty \/ \E n \in Messages : answer[n] = "none")
    /\ UNCHANGED <<delivered, accepting, queue, worker, tables, lost, troubles>>

(* EventQueue.submit; what it refuses the messenger delivers later.           *)
Deliver(n) ==
    /\ accepting /\ Len(queue) < QueueSize
    /\ queue' = Append(queue, n) /\ delivered' = delivered \union {n}
    /\ UNCHANGED <<posted, hasty, accepting, worker, tables, answer, lost>>

Trouble == troubles < MaxTroubles /\ troubles' = troubles + 1

DeliverFirst(n) == Deliver(n) /\ UNCHANGED troubles
Redeliver(n) == Trouble /\ Deliver(n)

(* In a gateway that is stopping submit returns as if it had taken the        *)
(* message, and the messenger forgets it.                                    *)
Dropped(n) ==
    /\ ~accepting
    /\ delivered' = delivered \union {n} /\ lost' = lost \union {n}
    /\ UNCHANGED <<posted, hasty, accepting, queue, worker, tables, answer, troubles>>

(* SIGTERM: EventQueue.shutdown takes no more messages and waits for those it *)
(* has; then the process ends, and somebody may start it again.               *)
Stop ==
    /\ accepting /\ Trouble
    /\ accepting' = FALSE
    /\ UNCHANGED <<user, queue, worker, tables, answer, lost>>

StartAgain ==
    /\ ~accepting /\ queue = <<>> /\ \A w \in Workers : At(w, "idle")
    /\ accepting' = TRUE
    /\ UNCHANGED <<user, queue, worker, tables, answer, lost, troubles>>

Take(w) ==
    /\ At(w, "idle") /\ queue # <<>>
    /\ Goes(w, [Idle EXCEPT !.msg = Head(queue), !.at = "claim"])
    /\ queue' = Tail(queue)
    /\ UNCHANGED <<user, accepting, tables, answer, lost, troubles>>

(* Where _route goes on with a message. *)
Routed(kind) == IF kind = "topic" THEN "upsert"
                ELSE IF kind = "command" THEN "create"
                ELSE IF kind = "other" THEN "reply" ELSE "read"

(* The options of a /research, which has none if it is only a topic; and      *)
(* those of a draft with a choice applied.                                    *)
Parsed(kind) == IF kind = "command" THEN Choices ELSE {}
Chosen(opts, choice) == opts \union {choice}

(* Mutant of Claim: a message is a duplicate only while it is being handled.  *)
ClaimWhileHandled(w) ==
    /\ At(w, "claim")
    /\ IF \E v \in Workers \ {w} : worker[v].msg = worker[w].msg /\ ~At(v, "claim")
       THEN Goes(w, Idle)
       ELSE Goes(w, [worker[w] EXCEPT !.at = Routed(Kind(w)), !.says = "ok",
                                      !.opts = Parsed(Kind(w))])
    /\ claimed' = claimed \union {worker[w].msg}
    /\ UNCHANGED <<user, accepting, queue, drafts, jobs, answer, lost, troubles>>

(* claim_message; the second to claim a message ignores it.                   *)
Claim(w) ==
    /\ At(w, "claim")
    /\ IF worker[w].msg \in claimed THEN Goes(w, Idle)
       ELSE Goes(w, [worker[w] EXCEPT !.at = Routed(Kind(w)), !.says = "ok",
                                      !.opts = Parsed(Kind(w))])
    /\ claimed' = claimed \union {worker[w].msg}
    /\ UNCHANGED <<user, accepting, queue, drafts, jobs, answer, lost, troubles>>

-----------------------------------------------------------------------------
Active == {d \in DOMAIN drafts : drafts[d].status = "active"}

Ended(d, outcome) == [drafts EXCEPT ![d].status = outcome]

NewDraft(w) == [topic |-> worker[w].msg, opts |-> worker[w].opts, status |-> "active"]

(* Mutant of DraftMade: a draft there is stays active. *)
DraftAdded(w) ==
    /\ At(w, "upsert")
    /\ drafts' = Append(drafts, NewDraft(w))
    /\ Goes(w, Says(w, "ok"))
    /\ UNCHANGED <<user, accepting, queue, claimed, jobs, answer, lost, troubles>>

(* upsert_research_draft: the draft there is is superseded.                   *)
DraftMade(w) ==
    /\ At(w, "upsert")
    /\ drafts' = Append([d \in DOMAIN drafts |->
                           IF d \in Active THEN [drafts[d] EXCEPT !.status = "superseded"]
                           ELSE drafts[d]], NewDraft(w))
    /\ Goes(w, Says(w, "ok"))
    /\ UNCHANGED <<user, accepting, queue, claimed, jobs, answer, lost, troubles>>

(* get_active_research_draft; what the reply does depends on what it is.      *)
DraftRead(w) ==
    /\ At(w, "read")
    /\ IF Active = {} THEN Goes(w, Says(w, "no draft"))
       ELSE \E d \in Active :
              Goes(w, [worker[w] EXCEPT !.draft = d, !.opts = drafts[d].opts,
                         !.at = IF Kind(w) \in {"start", "cancel"} THEN "close" ELSE "update"])
    /\ UNCHANGED <<user, accepting, queue, tables, answer, lost, troubles>>

(* Mutant of OptionsUpdated: WHERE status = 'active' is left out. *)
OptionsUpdatedAlways(w) ==
    /\ At(w, "update")
    /\ drafts' = [drafts EXCEPT ![worker[w].draft].opts = Chosen(worker[w].opts, Kind(w))]
    /\ Goes(w, Says(w, "ok"))
    /\ UNCHANGED <<user, accepting, queue, claimed, jobs, answer, lost, troubles>>

(* update_research_draft_options, with the options read before and the choice; *)
(* a draft that has ended meanwhile is left alone.                            *)
OptionsUpdated(w) ==
    /\ At(w, "update")
    /\ drafts' = IF worker[w].draft \in Active
                 THEN [drafts EXCEPT ![worker[w].draft].opts = Chosen(worker[w].opts, Kind(w))]
                 ELSE drafts
    /\ Goes(w, Says(w, "ok"))
    /\ UNCHANGED <<user, accepting, queue, claimed, jobs, answer, lost, troubles>>

(* Mutant of DraftClosed: only a cancelled draft is closed. *)
DraftClosedOnCancel(w) ==
    /\ At(w, "close")
    /\ IF Kind(w) = "start" THEN GoTo(w, "create") /\ UNCHANGED drafts
       ELSE drafts' = Ended(worker[w].draft, "cancelled") /\ Goes(w, Says(w, "ok"))
    /\ UNCHANGED <<user, accepting, queue, claimed, jobs, answer, lost, troubles>>

(* close_research_draft, whatever the status of the draft by now.             *)
DraftClosed(w) ==
    /\ At(w, "close")
    /\ IF Kind(w) = "start"
       THEN drafts' = Ended(worker[w].draft, "submitted") /\ GoTo(w, "create")
       ELSE drafts' = Ended(worker[w].draft, "cancelled") /\ Goes(w, Says(w, "ok"))
    /\ UNCHANGED <<user, accepting, queue, claimed, jobs, answer, lost, troubles>>

-----------------------------------------------------------------------------
(* create_job; the options are those read with the draft.                     *)
NewJob(w) == [source |-> worker[w].msg, opts |-> worker[w].opts,
              topic |-> IF worker[w].draft = 0 THEN worker[w].msg ELSE drafts[worker[w].draft].topic,
              registered |-> FALSE, state |-> "queued"]

(* Mutant of JobCreated: the monitoring wish of a draft is forgotten. *)
JobCreatedOnly(w) ==
    /\ At(w, "create")
    /\ jobs' = Append(jobs, NewJob(w))
    /\ Goes(w, [worker[w] EXCEPT !.job = Len(jobs) + 1, !.at = "submit"])
    /\ UNCHANGED <<user, accepting, queue, claimed, drafts, answer, lost, troubles>>

JobCreated(w) ==
    /\ At(w, "create")
    /\ jobs' = Append(jobs, NewJob(w))
    /\ Goes(w, [worker[w] EXCEPT !.job = Len(jobs) + 1,
                  !.at = IF "monitor" \in worker[w].opts THEN "register" ELSE "submit"])
    /\ UNCHANGED <<user, accepting, queue, claimed, drafts, answer, lost, troubles>>

(* save_monitor_registration_request. *)
MonitorAsked(w) ==
    /\ At(w, "register")
    /\ jobs' = [jobs EXCEPT ![worker[w].job].registered = TRUE]
    /\ GoTo(w, "submit")
    /\ UNCHANGED <<user, accepting, queue, claimed, drafts, answer, lost, troubles>>

(* _submit_job: the executor accepts the job, or refuses and fails it.        *)
JobSubmitted(w) ==
    /\ At(w, "submit")
    /\ \/ /\ jobs' = [jobs EXCEPT ![worker[w].job].state = "submitted"]
          /\ Goes(w, Says(w, "ok"))
       \/ /\ jobs' = [jobs EXCEPT ![worker[w].job].state = "refused"]
          /\ Goes(w, Says(w, "refused"))
    /\ UNCHANGED <<user, accepting, queue, claimed, drafts, answer, lost, troubles>>

-----------------------------------------------------------------------------
Routing(w) == worker[w].at \in {"upsert", "read", "update", "close", "create", "register", "submit"}

(* Mutant of Raised: only the log hears of it. *)
RaisedQuietly(w) ==
    /\ Routing(w) /\ Trouble
    /\ Goes(w, Idle)
    /\ UNCHANGED <<user, accepting, queue, tables, answer, lost>>

(* A call raises before it does anything; _route says so.                     *)
Raised(w) ==
    /\ Routing(w) /\ Trouble
    /\ Goes(w, Says(w, "failed"))
    /\ UNCHANGED <<user, accepting, queue, tables, answer, lost>>

(* Outside _route it is only logged: the claim raises, or both ways to reply. *)
RaisedUnheard(w) ==
    /\ At(w, "claim") \/ At(w, "reply")
    /\ Trouble
    /\ Goes(w, Idle)
    /\ lost' = lost \union {worker[w].msg}
    /\ UNCHANGED <<user, accepting, queue, tables, answer>>

(* _reply: to the message, or else to the chat. *)
Reply(w) ==
    /\ At(w, "reply")
    /\ answer' = [answer EXCEPT ![worker[w].msg] = worker[w].says]
    /\ Goes(w, Idle)
    /\ UNCHANGED <<user, accepting, queue, tables, lost, troubles>>

(* The process dies and is started again: queue and workers are empty.        *)
Crash ==
    /\ Trouble /\ accepting' = TRUE
    /\ lost' = lost \union {n \in Messages : (\E i \in DOMAIN queue : queue[i] = n)
                                              \/ \E w \in Workers : worker[w].msg = n}
    /\ queue' = <<>> /\ worker' = [w \in Workers |-> Idle]
    /\ UNCHANGED <<user, tables, answer>>

Init ==
    /\ posted = <<>> /\ delivered = {} /\ answer = <<>> /\ hasty = FALSE
    /\ accepting = TRUE /\ queue = <<>> /\ worker = [w \in Workers |-> Idle]
    /\ claimed = {} /\ drafts = <<>> /\ jobs = <<>> /\ lost = {} /\ troubles = 0

Handle(w) ==
    \/ Take(w) \/ Claim(w) \/ DraftMade(w) \/ DraftRead(w) \/ OptionsUpdated(w) \/ DraftClosed(w)
    \/ JobCreated(w) \/ MonitorAsked(w) \/ JobSubmitted(w) \/ Reply(w)

Next ==
    \/ Post \/ Crash \/ Stop \/ StartAgain
    \/ \E n \in Messages \ delivered : DeliverFirst(n) \/ Dropped(n)
    \/ \E n \in delivered : Redeliver(n)
    \/ \E w \in Workers : Handle(w) \/ Raised(w) \/ RaisedUnheard(w)

Spec == Init /\ [][Next]_vars

(* The messenger delivers each message, and the threads run. *)
FairSpec == /\ Spec
            /\ \A n \in 1 .. MaxMessages : WF_vars(n \in Messages \ delivered /\ DeliverFirst(n))
            /\ \A w \in Workers : WF_vars(Handle(w))

-----------------------------------------------------------------------------
TypeOK ==
    /\ posted \in Seq(Kinds) /\ Len(queue) <= QueueSize
    /\ claimed \subseteq Messages /\ lost \subseteq Messages
    /\ \A n \in Messages : answer[n] \in {"none", "ok", "no draft", "refused", "failed"}
    /\ \A d \in DOMAIN drafts : drafts[d].status \in {"active", "superseded", "submitted", "cancelled"}
    /\ \A j \in DOMAIN jobs : jobs[j].state \in {"queued", "submitted", "refused"}

(* A message makes one job at most, however often it is delivered, whichever  *)
(* workers get it, and whatever raises or crashes on the way.                 *)
OneJobPerMessage ==
    \A i, j \in DOMAIN jobs : jobs[i].source = jobs[j].source => i = j

(* The user configures one draft at a time, also when two workers make one.   *)
OneActiveDraft == Cardinality(Active) <= 1

(* An executor gets a job only when the monitoring wished for with it is      *)
(* recorded: the job may be over before anything later is.                    *)
MonitoringNotForgotten ==
    \A j \in DOMAIN jobs : jobs[j].state = "submitted" /\ "monitor" \in jobs[j].opts => jobs[j].registered

(* What the user confirmed is what runs.  For a user who waits for each       *)
(* answer: a job made by a reply to a draft is of the last topic that was     *)
(* accepted, no draft being used twice or after it was cancelled, and has     *)
(* all options accepted since and none but those asked for since.             *)
Between(t, s, kinds) == {n \in (t + 1) .. (s - 1) : posted[n] \in kinds}
AcceptedOf(msgs) == {n \in msgs : answer[n] = "ok"}
KindsOf(msgs) == {posted[n] : n \in msgs}

AsConfirmed ==
    ~hasty => \A i \in DOMAIN jobs :
      LET t == jobs[i].topic  s == jobs[i].source
      IN  posted[s] = "start" =>
            /\ t < s /\ posted[t] = "topic"
            /\ AcceptedOf(Between(t, s, {"topic", "start", "cancel"})) = {}
            /\ KindsOf(AcceptedOf(Between(t, s, Choices))) \subseteq jobs[i].opts
            /\ jobs[i].opts \subseteq KindsOf(Between(t, s, Choices))

(* A draft that was submitted, cancelled or superseded is not taken up again  *)
(* nor changed, also by a worker that read it before.                         *)
EndedDraftsStay ==
    [][\A d \in DOMAIN drafts \ Active :
         drafts'[d].status # "active" /\ drafts'[d].opts = drafts[d].opts]_vars

(* Every message is answered, be it that something went wrong, unless it went *)
(* with a crash or with the reply itself, or came while the gateway was       *)
(* stopping.  One that was taken is answered by a gateway that stops, too.    *)
Unanswered(n) == n \in Messages \ lost /\ answer[n] = "none"

Answered ==
    \A n \in 1 .. MaxMessages :
        Unanswered(n) ~> ~Unanswered(n) \/ (n \notin delivered /\ ~accepting)
=============================================================================
