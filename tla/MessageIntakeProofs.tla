------------------------- MODULE MessageIntakeProofs -------------------------
(***************************************************************************)
(* Message intake and drafts, for any number of workers, any queue size,    *)
(* any options and messages, and any number of repeated deliveries, calls   *)
(* that raise and crashes.                                                  *)
(***************************************************************************)
EXTENDS MessageIntake, SequenceTheorems, FiniteSetTheorems, TLAPS

Before == {"upsert", "read", "update", "close", "create"}
After == {"register", "submit", "reply"}
Texts == {"ok", "no draft", "refused", "failed"}

Locals == [msg : Nat, at : {"idle", "claim"} \union Before \union After, draft : Nat,
           opts : SUBSET Kinds, job : Nat, says : Texts \union {"none"}]
Draft == [topic : Nat, opts : SUBSET Kinds,
          status : {"active", "superseded", "submitted", "cancelled"}]
Job == [source : Nat, opts : SUBSET Kinds, topic : Nat, registered : BOOLEAN,
        state : {"queued", "submitted", "refused"}]

-----------------------------------------------------------------------------
(* The invariant.  What the messenger and the queue hold are messages.       *)
MessagesTyped ==
    /\ posted \in Seq(Kinds)
    /\ answer \in Seq(Texts \union {"none"}) /\ Len(answer) = Len(posted)
    /\ queue \in Seq(Nat) /\ Len(queue) <= QueueSize
    /\ \A i \in 1 .. Len(queue) : queue[i] \in Messages
    /\ delivered \subseteq Messages /\ claimed \subseteq Messages /\ lost \subseteq Messages

TablesTyped == drafts \in Seq(Draft) /\ jobs \in Seq(Job)

(* A worker has a message, an answer once it has claimed it, a draft it read, *)
(* and the job it made.                                                      *)
LocalsFit(w) ==
    /\ ~At(w, "idle") => worker[w].msg \in Messages
    /\ worker[w].at \notin {"idle", "claim"} => worker[w].says \in Texts
    /\ worker[w].draft \in {0} \union 1 .. Len(drafts)
    /\ worker[w].at \in {"register", "submit"} => worker[w].job \in 1 .. Len(jobs)

WorkersTyped == worker \in [Workers -> Locals] /\ \A w \in Workers : LocalsFit(w)

Typed == MessagesTyped /\ TablesTyped /\ WorkersTyped

(* Whoever is past the claim has claimed its message, alone, and a message    *)
(* has a job only when the worker that handles it has made it.               *)
ClaimedOnce ==
    /\ \A w \in Workers : worker[w].at \in Before \union After => worker[w].msg \in claimed
    /\ \A v, w \in Workers :
          /\ worker[v].at \in Before \union After /\ worker[w].at \in Before \union After
          /\ worker[v].msg = worker[w].msg
          => v = w
    /\ \A j \in 1 .. Len(jobs) : jobs[j].source \in claimed
    /\ \A w \in Workers, j \in 1 .. Len(jobs) :
          worker[w].at \in Before => jobs[j].source # worker[w].msg

Asked(j) == "monitor" \in jobs[j].opts => jobs[j].registered

(* A worker that submits has recorded the wish for monitoring.               *)
WishesKept ==
    /\ \A w \in Workers : At(w, "submit") => Asked(worker[w].job)
    /\ \A j \in 1 .. Len(jobs) : jobs[j].state = "submitted" => Asked(j)

OneDraft == \A d, e \in Active : d = e

IInv == Typed /\ ClaimedOnce /\ OneJobPerMessage /\ WishesKept /\ OneDraft

-----------------------------------------------------------------------------
(* Nothing is posted, queued or stored when the program is installed. *)
LEMMA InitTyped == Init => Typed
<1> SUFFICES ASSUME Init PROVE Typed
  OBVIOUS
<1>1. MessagesTyped
  BY SizeAssumption DEF Init, MessagesTyped, Messages
<1>2. TablesTyped
  BY DEF Init, TablesTyped
<1>3. WorkersTyped
  BY DEF Init, WorkersTyped, LocalsFit, Locals, Idle, At, Before, After, Texts
<1> QED BY <1>1, <1>2, <1>3 DEF Typed

LEMMA InitInv == Init => IInv
<1> SUFFICES ASSUME Init PROVE IInv
  OBVIOUS
<1>1. Typed
  BY InitTyped
<1>2. ClaimedOnce /\ WishesKept
  BY DEF Init, ClaimedOnce, WishesKept, Asked, Idle, At, Before, After
<1>3. OneJobPerMessage /\ OneDraft
  BY DEF Init, OneJobPerMessage, OneDraft, Active
<1> QED BY <1>1, <1>2, <1>3 DEF IInv

-----------------------------------------------------------------------------
(* The sequence of messages only grows. *)
LEMMA PostTyped == Typed /\ Post => Typed'
<1> SUFFICES ASSUME Typed, Post PROVE Typed'
  OBVIOUS
<1> USE DEF Typed, tables
<1>1. PICK s \in Scripts : /\ Len(posted) < Len(s)
                           /\ posted' = SubSeq(s, 1, Len(posted) + 1)
  BY DEF Post
<1>2. s \in Seq(Kinds) /\ Len(posted) \in Nat /\ Len(s) \in Nat
  BY <1>1, ScriptsAssumption DEF MessagesTyped
<1>3. \A i \in 1 .. Len(posted) + 1 : s[i] \in Kinds
  BY <1>1, <1>2
<1>4. posted' \in Seq(Kinds) /\ Len(posted') = Len(posted) + 1
  BY <1>1, <1>2, <1>3, SubSeqProperties
<1>5. Messages \subseteq Messages'
  BY <1>2, <1>4 DEF Messages
<1>6. answer' \in Seq(Texts \union {"none"}) /\ Len(answer') = Len(answer) + 1
  BY AppendProperties DEF Post, MessagesTyped
<1>7. MessagesTyped'
  BY <1>4, <1>5, <1>6 DEF Post, MessagesTyped
<1>8. TablesTyped' /\ WorkersTyped'
  BY <1>5 DEF Post, TablesTyped, WorkersTyped, LocalsFit, At
<1> QED BY <1>7, <1>8

LEMMA DeliverTyped == ASSUME NEW n \in Messages, Typed, Deliver(n) PROVE Typed'
<1> USE DEF Typed, tables, user
<1>1. Messages' = Messages /\ n \in Nat
  BY DEF Deliver, Messages
<1>2. /\ queue' \in Seq(Nat) /\ Len(queue') = Len(queue) + 1
      /\ \A i \in 1 .. Len(queue) : queue'[i] = queue[i]
      /\ queue'[Len(queue) + 1] = n
  BY <1>1, AppendProperties DEF Deliver, MessagesTyped
<1>3. Len(queue') <= QueueSize /\ \A i \in 1 .. Len(queue') : queue'[i] \in Messages
  BY <1>2, SizeAssumption DEF Deliver, MessagesTyped
<1>4. MessagesTyped'
  BY <1>1, <1>2, <1>3 DEF Deliver, MessagesTyped
<1>5. TablesTyped' /\ WorkersTyped'
  BY <1>1 DEF Deliver, TablesTyped, WorkersTyped, LocalsFit, At
<1> QED BY <1>4, <1>5

(* A step of w changes nothing of the other workers, and what it leaves of   *)
(* the queue and the tables fits them still.                                 *)
LEMMA LocalStep ==
    ASSUME WorkersTyped, NEW w \in Workers, NEW local \in Locals, Goes(w, local),
           LocalsFit(w)', Messages' = Messages,
           Len(drafts) \in Nat, Len(jobs) \in Nat, Len(drafts') \in Nat, Len(jobs') \in Nat,
           Len(drafts) <= Len(drafts'), Len(jobs) <= Len(jobs')
    PROVE  WorkersTyped'
<1>1. worker' \in [Workers -> Locals]
  BY DEF WorkersTyped, Goes
<1>2. ASSUME NEW v \in Workers, v # w PROVE LocalsFit(v)'
  <2>1. worker'[v] = worker[v] /\ LocalsFit(v)
    BY <1>2 DEF WorkersTyped, Goes
  <2> QED BY <2>1 DEF LocalsFit, At
<1> QED BY <1>1, <1>2 DEF WorkersTyped

(* What a worker knows fits. *)
LEMMA LocalsKnown ==
    ASSUME Typed, NEW w \in Workers
    PROVE  /\ worker[w] \in Locals /\ LocalsFit(w)
           /\ Len(drafts) \in Nat /\ Len(jobs) \in Nat /\ Len(posted) \in Nat
           /\ ~At(w, "idle") => Kind(w) \in Kinds
<1>1. worker[w] \in Locals /\ LocalsFit(w)
  BY DEF Typed, WorkersTyped
<1>2. Len(drafts) \in Nat /\ Len(jobs) \in Nat /\ Len(posted) \in Nat
  BY DEF Typed, TablesTyped, MessagesTyped
<1>3. ~At(w, "idle") => Kind(w) \in Kinds
  BY <1>1, <1>2 DEF LocalsFit, Kind, Messages, Typed, MessagesTyped
<1> QED BY <1>1, <1>2, <1>3

(* What a row is, and stays with a field set. *)
LEMMA RowsKnown ==
    ASSUME Typed
    PROVE  /\ DOMAIN drafts = 1 .. Len(drafts) /\ Len(drafts) \in Nat
           /\ DOMAIN jobs = 1 .. Len(jobs) /\ Len(jobs) \in Nat
           /\ \A d \in 1 .. Len(drafts) : drafts[d] \in Draft
           /\ \A j \in 1 .. Len(jobs) : jobs[j] \in Job
BY DEF Typed, TablesTyped

LEMMA DraftFields ==
    ASSUME NEW e \in Draft
    PROVE  /\ e.topic \in Nat /\ e.opts \in SUBSET Kinds
           /\ \A opts \in SUBSET Kinds : [e EXCEPT !.opts = opts] \in Draft
           /\ [e EXCEPT !.status = "superseded"] \in Draft
           /\ [e EXCEPT !.status = "submitted"] \in Draft
           /\ [e EXCEPT !.status = "cancelled"] \in Draft
BY DEF Draft

LEMMA JobFields ==
    ASSUME NEW e \in Job
    PROVE  /\ [e EXCEPT !.registered = TRUE] \in Job
           /\ [e EXCEPT !.state = "submitted"] \in Job
           /\ [e EXCEPT !.state = "refused"] \in Job
BY DEF Job

(* A sequence with an element replaced. *)
LEMMA SetElement ==
    ASSUME NEW S, NEW seq \in Seq(S), NEW i,
           NEW e, i \in 1 .. Len(seq) => e \in S
    PROVE  /\ [seq EXCEPT ![i] = e] \in Seq(S)
           /\ Len([seq EXCEPT ![i] = e]) = Len(seq)
<1> DEFINE new == [k \in 1 .. Len(seq) |-> IF k = i THEN e ELSE seq[k]]
<1>1. [seq EXCEPT ![i] = e] = new
  OBVIOUS
<1>2. Len(seq) \in Nat /\ \A k \in 1 .. Len(seq) : new[k] \in S
  OBVIOUS
<1>3. new \in Seq(S) /\ Len(new) = Len(seq)
  BY <1>2
<1> QED BY <1>1, <1>3

LEMMA TakeTyped == ASSUME NEW w \in Workers, Typed, Take(w) PROVE Typed'
<1> USE DEF tables, user
<1>1. Messages' = Messages
  BY DEF Take, Messages
<1>2. /\ Head(queue) = queue[1] /\ Tail(queue) \in Seq(Nat) /\ Len(Tail(queue)) = Len(queue) - 1
      /\ Len(queue) \in Nat /\ Len(queue) > 0 /\ Head(queue) \in Nat
      /\ \A i \in 1 .. Len(Tail(queue)) : Tail(queue)[i] = queue[i + 1]
  BY HeadTailProperties DEF Take, Typed, MessagesTyped
<1>3. queue[1] \in Messages
  BY <1>2 DEF Typed, MessagesTyped
<1>4. MessagesTyped'
  BY <1>1, <1>2, SizeAssumption DEF Take, Typed, MessagesTyped
<1> DEFINE local == [Idle EXCEPT !.msg = Head(queue), !.at = "claim"]
<1>5. local \in Locals
  BY <1>2, <1>3 DEF Idle, Locals, Texts, Messages
<1>6. Goes(w, local)
  BY DEF Take
<1>7. worker'[w] = local
  BY <1>6 DEF Goes, Typed, WorkersTyped
<1>8. LocalsFit(w)'
  BY <1>1, <1>2, <1>3, <1>7 DEF LocalsFit, At, Idle
<1>9. WorkersTyped' /\ TablesTyped'
  BY <1>1, <1>5, <1>6, <1>8, LocalStep, LocalsKnown DEF Take, Typed, TablesTyped
<1> QED BY <1>4, <1>9 DEF Typed

LEMMA ClaimTyped == ASSUME NEW w \in Workers, Typed, Claim(w) PROVE Typed'
<1> USE DEF tables, user
<1>1. Messages' = Messages /\ worker[w].msg \in Messages
  BY LocalsKnown DEF Claim, Messages, LocalsFit, At
<1>2. MessagesTyped'
  BY <1>1 DEF Claim, Typed, MessagesTyped
<1> DEFINE local == IF worker[w].msg \in claimed THEN Idle
                    ELSE [worker[w] EXCEPT !.at = Routed(Kind(w)), !.says = "ok",
                                           !.opts = Parsed(Kind(w))]
<1>3. Goes(w, local)
  BY DEF Claim
<1>4. Routed(Kind(w)) \in Before \union {"reply"} /\ Parsed(Kind(w)) \in SUBSET Kinds
  BY DEF Routed, Parsed, Before, Kinds
<1>5. local \in Locals
  BY <1>4, LocalsKnown DEF Locals, Idle, Texts, After
<1>6. worker'[w] = local
  BY <1>3 DEF Goes, Typed, WorkersTyped
<1>7. LocalsFit(w)'
  <2>1. CASE worker[w].msg \in claimed
    BY <2>1, <1>6 DEF LocalsFit, At, Idle
  <2>2. CASE worker[w].msg \notin claimed
    <3>1. /\ worker'[w].msg = worker[w].msg /\ worker'[w].says = "ok"
          /\ worker'[w].draft = worker[w].draft /\ worker'[w].at = Routed(Kind(w))
      BY <2>2, <1>6, LocalsKnown DEF Locals
    <3> QED BY <3>1, <1>1, <1>4, LocalsKnown DEF LocalsFit, At, Texts, Before, Claim
  <2> QED BY <2>1, <2>2
<1>8. WorkersTyped' /\ TablesTyped'
  BY <1>1, <1>3, <1>5, <1>7, LocalStep, LocalsKnown DEF Claim, Typed, TablesTyped
<1> QED BY <1>2, <1>8 DEF Typed

(* A step of a command: the worker and one of the tables. *)
LEMMA CommandTyped ==
    ASSUME Typed, NEW w \in Workers, NEW local \in Locals, Goes(w, local),
           ~At(w, "idle"), local.msg = worker[w].msg,
           local.at \notin {"idle", "claim"}, local.says \in Texts,
           local.draft \in {0} \union 1 .. Len(drafts),
           local.at \in {"register", "submit"} => local.job \in 1 .. Len(jobs'),
           TablesTyped', Len(drafts) <= Len(drafts'), Len(jobs) <= Len(jobs'),
           UNCHANGED <<user, queue, claimed, answer, lost>>
    PROVE  Typed'
<1>1. Messages' = Messages /\ MessagesTyped'
  BY DEF Typed, MessagesTyped, Messages, user
<1>2. worker'[w] = local
  BY DEF Goes, Typed, WorkersTyped
<1>3. Len(drafts) \in Nat /\ Len(jobs) \in Nat /\ Len(drafts') \in Nat /\ Len(jobs') \in Nat
  BY DEF Typed, TablesTyped
<1>4. LocalsFit(w)'
  BY <1>1, <1>2, <1>3, LocalsKnown DEF LocalsFit, At
<1>5. WorkersTyped'
  BY <1>1, <1>3, <1>4, LocalStep DEF Typed
<1> QED BY <1>1, <1>5 DEF Typed

(* A step whose worker has answered, or goes back to the queue. *)
LEMMA IdleTyped ==
    ASSUME Typed, NEW w \in Workers, Goes(w, Idle), MessagesTyped',
           UNCHANGED <<posted, drafts, jobs>>
    PROVE  Typed'
<1>1. Messages' = Messages /\ TablesTyped'
  BY DEF Typed, TablesTyped, Messages
<1>2. Idle \in Locals
  BY DEF Idle, Locals, Texts
<1>3. worker'[w] = Idle
  BY DEF Goes, Typed, WorkersTyped
<1>4. LocalsFit(w)'
  BY <1>3 DEF LocalsFit, At, Idle
<1>5. WorkersTyped'
  BY <1>1, <1>2, <1>4, LocalStep, LocalsKnown DEF Typed
<1> QED BY <1>1, <1>5 DEF Typed

(* A step of a command that ends in an answer, and one that only goes on.    *)
LEMMA SaysTyped ==
    ASSUME Typed, NEW w \in Workers, worker[w].at \notin {"idle", "claim"},
           NEW text \in Texts, Goes(w, Says(w, text)),
           TablesTyped', Len(drafts) <= Len(drafts'), Len(jobs) <= Len(jobs'),
           UNCHANGED <<user, queue, claimed, answer, lost>>
    PROVE  Typed'
<1> DEFINE local == Says(w, text)
<1>1. worker[w] \in Locals /\ worker[w].draft \in {0} \union 1 .. Len(drafts)
  BY LocalsKnown DEF LocalsFit
<1>2. /\ local \in Locals /\ local.msg = worker[w].msg /\ local.at = "reply"
      /\ local.says = text /\ local.draft = worker[w].draft
  BY <1>1 DEF Says, Locals, After
<1>3. ~At(w, "idle")
  BY DEF At
<1> HIDE DEF local
<1> QED BY <1>1, <1>2, <1>3, CommandTyped DEF local

LEMMA GoToTyped ==
    ASSUME Typed, NEW w \in Workers, worker[w].at \notin {"idle", "claim"},
           NEW p \in Before \union {"submit"}, GoTo(w, p),
           p = "submit" => worker[w].job \in 1 .. Len(jobs'),
           TablesTyped', Len(drafts) <= Len(drafts'), Len(jobs) <= Len(jobs'),
           UNCHANGED <<user, queue, claimed, answer, lost>>
    PROVE  Typed'
<1> DEFINE local == [worker[w] EXCEPT !.at = p]
<1>1. /\ worker[w] \in Locals /\ worker[w].draft \in {0} \union 1 .. Len(drafts)
      /\ worker[w].says \in Texts
  BY LocalsKnown DEF LocalsFit
<1>2. /\ local \in Locals /\ local.msg = worker[w].msg /\ local.at = p
      /\ local.says = worker[w].says /\ local.draft = worker[w].draft
      /\ local.job = worker[w].job
  BY <1>1 DEF Locals, After
<1>3. ~At(w, "idle") /\ p \notin {"idle", "claim", "register"}
  BY DEF At, Before
<1>4. Goes(w, local)
  BY DEF GoTo
<1> HIDE DEF local
<1> QED BY <1>1, <1>2, <1>3, <1>4, CommandTyped

LEMMA DraftMadeTyped == ASSUME NEW w \in Workers, Typed, DraftMade(w) PROVE Typed'
<1> USE DEF tables
<1> DEFINE old == [d \in DOMAIN drafts |->
                     IF d \in Active THEN [drafts[d] EXCEPT !.status = "superseded"] ELSE drafts[d]]
<1>1. old \in Seq(Draft) /\ Len(old) = Len(drafts) /\ Len(drafts) \in Nat
  <2>1. \A d \in DOMAIN drafts : old[d] \in Draft
    BY RowsKnown, DraftFields
  <2>2. DOMAIN old = 1 .. Len(drafts) /\ old = [d \in 1 .. Len(drafts) |-> old[d]]
    BY RowsKnown
  <2> HIDE DEF old
  <2> QED BY <2>1, <2>2, RowsKnown
<1>2. NewDraft(w) \in Draft
  BY LocalsKnown DEF NewDraft, Draft, Locals
<1>3. drafts' \in Seq(Draft) /\ Len(drafts') = Len(drafts) + 1
  BY <1>1, <1>2, AppendProperties DEF DraftMade
<1>4. TablesTyped'
  BY <1>3 DEF DraftMade, Typed, TablesTyped
<1>5. /\ Goes(w, Says(w, "ok")) /\ worker[w].at = "upsert" /\ "ok" \in Texts
      /\ UNCHANGED <<user, queue, claimed, answer, lost>> /\ jobs' = jobs
  BY DEF DraftMade, At, Texts
<1>6. Len(drafts) <= Len(drafts') /\ Len(jobs) <= Len(jobs')
  BY <1>1, <1>3, <1>5, RowsKnown
<1> QED BY <1>4, <1>5, <1>6, SaysTyped

LEMMA DraftReadTyped == ASSUME NEW w \in Workers, Typed, DraftRead(w) PROVE Typed'
<1> USE DEF tables
<1>1. /\ TablesTyped' /\ worker[w].at = "read"
      /\ UNCHANGED <<user, queue, claimed, answer, lost>> /\ UNCHANGED <<drafts, jobs>>
  BY DEF DraftRead, Typed, TablesTyped, At
<1>2. Len(drafts) <= Len(drafts') /\ Len(jobs) <= Len(jobs')
  BY <1>1, RowsKnown
<1>3. CASE Active = {}
  <2>1. Goes(w, Says(w, "no draft")) /\ "no draft" \in Texts
    BY <1>3 DEF DraftRead, Texts
  <2> QED BY <1>1, <1>2, <2>1, SaysTyped
<1>4. CASE Active # {}
  <2> DEFINE at == IF Kind(w) \in {"start", "cancel"} THEN "close" ELSE "update"
             local(d) == [worker[w] EXCEPT !.draft = d, !.opts = drafts[d].opts, !.at = at]
  <2>1. PICK d \in Active : Goes(w, local(d))
    BY <1>4 DEF DraftRead
  <2>2. d \in 1 .. Len(drafts) /\ d \in Nat /\ drafts[d].opts \in SUBSET Kinds
    <3>1. d \in DOMAIN drafts
      BY DEF Active
    <3>2. d \in 1 .. Len(drafts) /\ d \in Nat /\ drafts[d] \in Draft
      BY <3>1, RowsKnown
    <3> QED BY <3>2, DraftFields
  <2>3. local(d) \in Locals
    BY <2>2, LocalsKnown DEF Locals, Before
  <2>4. /\ local(d).msg = worker[w].msg /\ local(d).at \in {"close", "update"}
        /\ local(d).says = worker[w].says /\ local(d).draft = d
    BY LocalsKnown DEF Locals
  <2>5. ~At(w, "idle") /\ worker[w].says \in Texts
    BY <1>1, LocalsKnown DEF LocalsFit, At
  <2> HIDE DEF local
  <2> QED BY <1>1, <1>2, <2>1, <2>2, <2>3, <2>4, <2>5, CommandTyped
<1> QED BY <1>3, <1>4

(* An option set, or a status, leaves a draft a draft. *)
LEMMA OptionsChanged ==
    ASSUME Typed, NEW d, NEW opts \in SUBSET Kinds,
           drafts' = [drafts EXCEPT ![d].opts = opts]
    PROVE  drafts' \in Seq(Draft) /\ Len(drafts') = Len(drafts) /\ Len(drafts) \in Nat
<1>1. d \in 1 .. Len(drafts) => [drafts[d] EXCEPT !.opts = opts] \in Draft
  BY RowsKnown, DraftFields
<1>2. drafts \in Seq(Draft) /\ Len(drafts) \in Nat
  BY RowsKnown DEF Typed, TablesTyped
<1>3. drafts' = [drafts EXCEPT ![d] = [drafts[d] EXCEPT !.opts = opts]]
  BY <1>2
<1> QED BY <1>1, <1>2, <1>3, SetElement

LEMMA StatusChanged ==
    ASSUME Typed, NEW d, NEW status \in {"submitted", "cancelled"},
           drafts' = Ended(d, status)
    PROVE  drafts' \in Seq(Draft) /\ Len(drafts') = Len(drafts) /\ Len(drafts) \in Nat
<1>1. d \in 1 .. Len(drafts) => [drafts[d] EXCEPT !.status = status] \in Draft
  BY RowsKnown, DraftFields
<1>2. drafts \in Seq(Draft) /\ Len(drafts) \in Nat
  BY RowsKnown DEF Typed, TablesTyped
<1>3. drafts' = [drafts EXCEPT ![d] = [drafts[d] EXCEPT !.status = status]]
  BY <1>2 DEF Ended
<1> QED BY <1>1, <1>2, <1>3, SetElement

LEMMA OptionsUpdatedTyped == ASSUME NEW w \in Workers, Typed, OptionsUpdated(w) PROVE Typed'
<1> USE DEF tables
<1>1. worker[w].at = "update" /\ Kind(w) \in Kinds /\ worker[w].opts \in SUBSET Kinds
  BY LocalsKnown DEF OptionsUpdated, At, Locals
<1>2. Chosen(worker[w].opts, Kind(w)) \in SUBSET Kinds
  BY <1>1 DEF Chosen
<1>3. drafts' \in Seq(Draft) /\ Len(drafts') = Len(drafts) /\ Len(drafts) \in Nat
  <2>1. CASE worker[w].draft \in Active
    <3>1. drafts' = [drafts EXCEPT ![worker[w].draft].opts = Chosen(worker[w].opts, Kind(w))]
      BY <2>1 DEF OptionsUpdated
    <3> QED BY <1>2, <3>1, OptionsChanged
  <2>2. CASE worker[w].draft \notin Active
    BY <2>2, RowsKnown DEF OptionsUpdated, Typed, TablesTyped
  <2> QED BY <2>1, <2>2
<1>4. /\ Goes(w, Says(w, "ok")) /\ "ok" \in Texts
      /\ UNCHANGED <<user, queue, claimed, answer, lost>> /\ jobs' = jobs
  BY DEF OptionsUpdated, Texts
<1>5. TablesTyped' /\ Len(drafts) <= Len(drafts') /\ Len(jobs) <= Len(jobs')
  BY <1>3, <1>4, RowsKnown DEF Typed, TablesTyped
<1> QED BY <1>1, <1>4, <1>5, SaysTyped

LEMMA DraftClosedTyped == ASSUME NEW w \in Workers, Typed, DraftClosed(w) PROVE Typed'
<1> USE DEF tables
<1>1. drafts' \in Seq(Draft) /\ Len(drafts') = Len(drafts) /\ Len(drafts) \in Nat
  BY StatusChanged DEF DraftClosed
<1>2. /\ worker[w].at = "close" /\ "ok" \in Texts /\ "create" \in Before \union {"submit"}
      /\ UNCHANGED <<user, queue, claimed, answer, lost>> /\ jobs' = jobs
  BY DEF DraftClosed, At, Texts, Before
<1>3. TablesTyped' /\ Len(drafts) <= Len(drafts') /\ Len(jobs) <= Len(jobs')
  BY <1>1, <1>2, RowsKnown DEF Typed, TablesTyped
<1>4. CASE Kind(w) = "start"
  <2>1. GoTo(w, "create")
    BY <1>4 DEF DraftClosed
  <2> QED BY <1>2, <1>3, <2>1, GoToTyped
<1>5. CASE Kind(w) # "start"
  <2>1. Goes(w, Says(w, "ok"))
    BY <1>5 DEF DraftClosed
  <2> QED BY <1>2, <1>3, <2>1, SaysTyped
<1> QED BY <1>4, <1>5

-----------------------------------------------------------------------------
(* A job is made of what its command was read with. *)
LEMMA JobCreatedTyped == ASSUME NEW w \in Workers, Typed, JobCreated(w) PROVE Typed'
<1> USE DEF tables
<1>1. /\ worker[w] \in Locals /\ LocalsFit(w) /\ worker[w].at = "create"
      /\ Len(drafts) \in Nat /\ Len(jobs) \in Nat
  BY LocalsKnown DEF JobCreated, At
<1>2. /\ worker[w].msg \in Nat /\ worker[w].opts \in SUBSET Kinds
      /\ worker[w].draft \in {0} \union 1 .. Len(drafts) /\ worker[w].says \in Texts
  BY <1>1 DEF LocalsFit, Locals
<1>3. NewJob(w) \in Job
  <2>1. worker[w].draft # 0 => drafts[worker[w].draft].topic \in Nat
    BY <1>1, <1>2, RowsKnown, DraftFields
  <2> QED BY <1>2, <2>1 DEF NewJob, Job
<1>4. jobs' \in Seq(Job) /\ Len(jobs') = Len(jobs) + 1 /\ drafts' = drafts
  BY <1>1, <1>3, AppendProperties DEF JobCreated, Typed, TablesTyped
<1>5. /\ TablesTyped' /\ Len(drafts) <= Len(drafts') /\ Len(jobs) <= Len(jobs')
      /\ UNCHANGED <<user, queue, claimed, answer, lost>>
  BY <1>1, <1>4 DEF JobCreated, Typed, TablesTyped
<1> DEFINE next == IF "monitor" \in worker[w].opts THEN "register" ELSE "submit"
           local == [worker[w] EXCEPT !.job = Len(jobs) + 1, !.at = next]
<1>6. /\ next \in {"register", "submit"} /\ next \in After /\ Len(jobs) + 1 \in Nat
      /\ Goes(w, local)
  BY <1>1 DEF JobCreated, After
<1> HIDE DEF next
<1>7. /\ local \in Locals /\ local.msg = worker[w].msg /\ local.at \in {"register", "submit"}
      /\ local.says = worker[w].says /\ local.draft = worker[w].draft
      /\ local.job = Len(jobs) + 1
  BY <1>1, <1>6 DEF Locals
<1>8. Goes(w, local) /\ ~At(w, "idle")
  BY <1>1, <1>6 DEF At
<1>9. local.job \in 1 .. Len(jobs')
  BY <1>1, <1>4, <1>7
<1> HIDE DEF local
<1> QED BY <1>2, <1>5, <1>7, <1>8, <1>9, CommandTyped

(* What is recorded of a job leaves it a job. *)
LEMMA MonitorAskedTyped == ASSUME NEW w \in Workers, Typed, MonitorAsked(w) PROVE Typed'
<1> USE DEF tables
<1>1. /\ LocalsFit(w) /\ worker[w].at = "register"
      /\ Len(drafts) \in Nat /\ Len(jobs) \in Nat
  BY LocalsKnown DEF MonitorAsked, At
<1>2. worker[w].job \in 1 .. Len(jobs)
  BY <1>1 DEF LocalsFit
<1> DEFINE row == [jobs[worker[w].job] EXCEPT !.registered = TRUE]
<1>3. row \in Job
  BY <1>2, RowsKnown, JobFields
<1>4. jobs \in Seq(Job) /\ jobs' = [jobs EXCEPT ![worker[w].job] = row]
  BY DEF MonitorAsked, Typed, TablesTyped
<1> HIDE DEF row
<1>5. jobs' \in Seq(Job) /\ Len(jobs') = Len(jobs)
  BY <1>3, <1>4, SetElement
<1>6. /\ GoTo(w, "submit") /\ "submit" \in Before \union {"submit"} /\ drafts' = drafts
      /\ UNCHANGED <<user, queue, claimed, answer, lost>>
  BY DEF MonitorAsked
<1>7. TablesTyped' /\ Len(drafts) <= Len(drafts') /\ Len(jobs) <= Len(jobs')
  BY <1>1, <1>5, <1>6 DEF Typed, TablesTyped
<1>8. worker[w].job \in 1 .. Len(jobs')
  BY <1>2, <1>5
<1> QED BY <1>1, <1>6, <1>7, <1>8, GoToTyped

LEMMA JobSubmittedTyped == ASSUME NEW w \in Workers, Typed, JobSubmitted(w) PROVE Typed'
<1> USE DEF tables
<1>1. /\ LocalsFit(w) /\ worker[w].at = "submit"
      /\ Len(drafts) \in Nat /\ Len(jobs) \in Nat
  BY LocalsKnown DEF JobSubmitted, At
<1>2. worker[w].job \in 1 .. Len(jobs)
  BY <1>1 DEF LocalsFit
<1>3. PICK state \in {"submitted", "refused"} :
        jobs' = [jobs EXCEPT ![worker[w].job] = [jobs[worker[w].job] EXCEPT !.state = state]]
  BY DEF JobSubmitted, Typed, TablesTyped
<1> DEFINE row == [jobs[worker[w].job] EXCEPT !.state = state]
<1>4. row \in Job /\ jobs \in Seq(Job)
  BY <1>2, RowsKnown, JobFields DEF Typed, TablesTyped
<1> HIDE DEF row
<1>5. jobs' \in Seq(Job) /\ Len(jobs') = Len(jobs)
  BY <1>3, <1>4, SetElement DEF row
<1>6. /\ drafts' = drafts /\ UNCHANGED <<user, queue, claimed, answer, lost>>
      /\ \E text \in Texts : Goes(w, Says(w, text))
  BY DEF JobSubmitted, Texts
<1>7. TablesTyped' /\ Len(drafts) <= Len(drafts') /\ Len(jobs) <= Len(jobs')
  BY <1>1, <1>5, <1>6 DEF Typed, TablesTyped
<1> QED BY <1>1, <1>6, <1>7, SaysTyped

-----------------------------------------------------------------------------
(* Answers, calls that raise, crashes. *)
LEMMA RaisedTyped == ASSUME NEW w \in Workers, Typed, Raised(w) PROVE Typed'
<1> USE DEF tables
<1>1. Len(drafts) \in Nat /\ Len(jobs) \in Nat
  BY LocalsKnown
<1>2. /\ UNCHANGED <<user, queue, claimed, answer, lost>> /\ UNCHANGED <<drafts, jobs>>
      /\ Goes(w, Says(w, "failed")) /\ "failed" \in Texts
  BY DEF Raised, Texts
<1>3. TablesTyped' /\ Len(drafts) <= Len(drafts') /\ Len(jobs) <= Len(jobs')
  BY <1>1, <1>2 DEF Typed, TablesTyped
<1>4. worker[w].at \notin {"idle", "claim"}
  BY DEF Raised, Routing
<1> QED BY <1>2, <1>3, <1>4, SaysTyped

LEMMA RaisedUnheardTyped == ASSUME NEW w \in Workers, Typed, RaisedUnheard(w) PROVE Typed'
<1> USE DEF tables, user
<1>1. worker[w].msg \in Messages
  BY LocalsKnown DEF RaisedUnheard, LocalsFit, At
<1>2. MessagesTyped'
  BY <1>1 DEF RaisedUnheard, Typed, MessagesTyped, Messages
<1> QED BY <1>2, IdleTyped DEF RaisedUnheard

LEMMA ReplyTyped == ASSUME NEW w \in Workers, Typed, Reply(w) PROVE Typed'
<1> USE DEF tables, user
<1>1. worker[w].msg \in Messages /\ worker[w].says \in Texts
  BY LocalsKnown DEF Reply, LocalsFit, At
<1>2. answer' \in Seq(Texts \union {"none"}) /\ Len(answer') = Len(answer)
  BY <1>1, SetElement DEF Reply, Typed, MessagesTyped
<1>3. MessagesTyped'
  BY <1>2 DEF Reply, Typed, MessagesTyped, Messages
<1> QED BY <1>3, IdleTyped DEF Reply

LEMMA CrashTyped == Typed /\ Crash => Typed'
<1> SUFFICES ASSUME Typed, Crash PROVE Typed'
  OBVIOUS
<1> USE DEF tables, user
<1>1. Messages' = Messages
  BY DEF Crash, Messages
<1>2. MessagesTyped'
  BY <1>1, SizeAssumption DEF Crash, Typed, MessagesTyped
<1>3. TablesTyped' /\ drafts' = drafts
  BY DEF Crash, Typed, TablesTyped
<1>4. Idle \in Locals
  BY DEF Idle, Locals, Texts
<1>5. worker' \in [Workers -> Locals] /\ \A w \in Workers : worker'[w] = Idle
  BY <1>4 DEF Crash
<1>6. WorkersTyped'
  BY <1>3, <1>5 DEF WorkersTyped, LocalsFit, At, Idle
<1> QED BY <1>2, <1>3, <1>6 DEF Typed

LEMMA SwitchTyped == ASSUME Typed, Stop \/ StartAgain PROVE Typed'
  BY DEF Stop, StartAgain, user, tables, Typed, MessagesTyped, TablesTyped, WorkersTyped,
         LocalsFit, At, Messages

LEMMA DroppedTyped == ASSUME NEW n \in Messages, Typed, Dropped(n) PROVE Typed'
  BY DEF Dropped, tables, Typed, MessagesTyped, TablesTyped, WorkersTyped, LocalsFit, At, Messages

LEMMA TypedStep == Typed /\ [Next]_vars => Typed'
<1> SUFFICES ASSUME Typed, [Next]_vars PROVE Typed'
  OBVIOUS
<1>1. CASE UNCHANGED vars
  BY <1>1 DEF vars, user, tables, Typed, MessagesTyped, TablesTyped, WorkersTyped, LocalsFit, At, Messages
<1>2. CASE Post \/ Crash \/ Stop \/ StartAgain
  BY <1>2, PostTyped, CrashTyped, SwitchTyped
<1>3. ASSUME NEW n \in Messages, DeliverFirst(n) \/ Redeliver(n) \/ Dropped(n) PROVE Typed'
  BY <1>3, DeliverTyped, DroppedTyped DEF DeliverFirst, Redeliver
<1>4. delivered \subseteq Messages
  BY DEF Typed, MessagesTyped
<1>5. ASSUME NEW w \in Workers, Handle(w) \/ Raised(w) \/ RaisedUnheard(w) PROVE Typed'
  <2>1. CASE Take(w) \/ Claim(w) \/ DraftMade(w) \/ DraftRead(w) \/ OptionsUpdated(w) \/ DraftClosed(w)
    BY <2>1, TakeTyped, ClaimTyped, DraftMadeTyped, DraftReadTyped, OptionsUpdatedTyped, DraftClosedTyped
  <2>2. CASE JobCreated(w) \/ MonitorAsked(w) \/ JobSubmitted(w) \/ Reply(w)
    BY <2>2, JobCreatedTyped, MonitorAskedTyped, JobSubmittedTyped, ReplyTyped
  <2> QED BY <1>5, <2>1, <2>2, RaisedTyped, RaisedUnheardTyped DEF Handle
<1> QED BY <1>1, <1>2, <1>3, <1>4, <1>5 DEF Next

-----------------------------------------------------------------------------
(* A worker that goes on with its message, answers it or puts it away leaves *)
(* the claims and the jobs to their messages.                               *)
Claims == ClaimedOnce /\ OneJobPerMessage /\ WishesKept

LEMMA MovedClaims ==
    ASSUME Typed, Claims, NEW w \in Workers, NEW local, Goes(w, local),
           local.at \in Before => worker[w].at \in Before,
           local.at \in After => local.at = "reply" /\ worker[w].at \in Before \union After,
           local.at \in Before \union After => local.msg = worker[w].msg,
           UNCHANGED <<claimed, jobs>>
    PROVE  Claims'
<1>1. worker'[w] = local /\ \A v \in Workers \ {w} : worker'[v] = worker[v]
  BY DEF Goes, Typed, WorkersTyped
<1>2. \A v \in Workers : worker'[v].at \in Before \union After =>
         worker[v].at \in Before \union After /\ worker'[v].msg = worker[v].msg
  BY <1>1
<1>3. \A v \in Workers : worker'[v].at \in Before => worker[v].at \in Before
  BY <1>1
<1>4. ClaimedOnce'
  BY <1>2, <1>3 DEF Claims, ClaimedOnce
<1>5. \A v \in Workers : worker'[v].at = "submit" => worker[v].at = "submit" /\ worker'[v] = worker[v]
  BY <1>1 DEF After
<1>6. WishesKept'
  BY <1>5 DEF Claims, WishesKept, At, Asked
<1>7. OneJobPerMessage'
  BY DEF Claims, OneJobPerMessage
<1> QED BY <1>4, <1>6, <1>7 DEF Claims

LEMMA IdleClaims ==
    ASSUME Typed, Claims, NEW w \in Workers, Goes(w, Idle), UNCHANGED <<claimed, jobs>>
    PROVE  Claims'
<1>1. Idle.at \notin Before \union After
  BY DEF Idle, Before, After
<1> QED BY <1>1, MovedClaims

LEMMA SaysClaims ==
    ASSUME Typed, Claims, NEW w \in Workers, NEW text, Goes(w, Says(w, text)),
           worker[w].at \in Before \union After, UNCHANGED <<claimed, jobs>>
    PROVE  Claims'
<1> DEFINE local == Says(w, text)
<1>1. local.at = "reply" /\ local.msg = worker[w].msg
  BY LocalsKnown DEF Says, Locals
<1>2. local.at \notin Before
  BY <1>1 DEF Before
<1> HIDE DEF local
<1>3. Goes(w, local)
  BY DEF local
<1> QED BY <1>1, <1>2, <1>3, MovedClaims

LEMMA ClaimClaims == ASSUME NEW w \in Workers, Typed, Claims, Claim(w) PROVE Claims'
<1> USE DEF tables
<1>1. CASE worker[w].msg \in claimed
  <2>1. Goes(w, Idle) /\ claimed' = claimed /\ jobs' = jobs
    BY <1>1 DEF Claim
  <2> QED BY <2>1, IdleClaims
<1>2. CASE worker[w].msg \notin claimed
  <2> DEFINE next == Routed(Kind(w))
             local == [worker[w] EXCEPT !.at = next, !.says = "ok", !.opts = Parsed(Kind(w))]
  <2>1. next \in Before \union {"reply"} /\ "submit" \notin Before /\ worker[w] \in Locals
    BY LocalsKnown DEF Routed, Before
  <2>2. Goes(w, local) /\ claimed' = claimed \union {worker[w].msg} /\ jobs' = jobs
    BY <1>2 DEF Claim
  <2> HIDE DEF next
  <2>3. local.at = next /\ local.msg = worker[w].msg
    BY <2>1 DEF Locals
  <2> HIDE DEF local
  <2>4. worker'[w] = local /\ \A v \in Workers \ {w} : worker'[v] = worker[v]
    BY <2>2 DEF Goes, Typed, WorkersTyped
  <2>5. ClaimedOnce'
    BY <1>2, <2>2, <2>3, <2>4 DEF Claims, ClaimedOnce
  <2>6. \A v \in Workers : worker'[v].at = "submit" => worker[v].at = "submit" /\ worker'[v] = worker[v]
    BY <2>1, <2>3, <2>4
  <2>7. WishesKept' /\ OneJobPerMessage'
    BY <2>2, <2>6 DEF Claims, WishesKept, At, Asked, OneJobPerMessage
  <2> QED BY <2>5, <2>7 DEF Claims
<1> QED BY <1>1, <1>2

(* The worker that makes the job of a message is the one that claimed it.    *)
LEMMA JobCreatedClaims == ASSUME NEW w \in Workers, Typed, Claims, JobCreated(w) PROVE Claims'
<1> USE DEF tables
<1>1. worker[w] \in Locals /\ worker[w].at = "create" /\ "create" \in Before /\ Len(jobs) \in Nat
  BY LocalsKnown, RowsKnown DEF JobCreated, At, Before
<1>2. worker[w].msg \in claimed /\ \A j \in 1 .. Len(jobs) : jobs[j].source # worker[w].msg
  BY <1>1 DEF Claims, ClaimedOnce
<1> DEFINE new == Len(jobs) + 1
<1>3. /\ Len(jobs') = new /\ jobs'[new] = NewJob(w)
      /\ \A j \in 1 .. Len(jobs) : jobs'[j] = jobs[j]
      /\ DOMAIN jobs' = 1 .. new /\ 1 .. new = (1 .. Len(jobs)) \union {new} /\ new \notin 1 .. Len(jobs)
  BY <1>1, AppendProperties DEF JobCreated, Typed, TablesTyped
<1>4. /\ NewJob(w).source = worker[w].msg /\ NewJob(w).opts = worker[w].opts
      /\ NewJob(w).state = "queued"
  BY DEF NewJob
<1> DEFINE next == IF "monitor" \in worker[w].opts THEN "register" ELSE "submit"
           local == [worker[w] EXCEPT !.job = new, !.at = next]
<1>5. Goes(w, local) /\ claimed' = claimed /\ next \in After \ Before
  BY DEF JobCreated, After, Before
<1>6. local.at = next /\ local.msg = worker[w].msg /\ local.job = new
  BY <1>1 DEF Locals
<1>7. next = "submit" => "monitor" \notin worker[w].opts
  OBVIOUS
<1> HIDE DEF local, next, new
<1>8. worker'[w] = local /\ \A v \in Workers \ {w} : worker'[v] = worker[v]
  BY <1>5 DEF Goes, Typed, WorkersTyped
<1>9. OneJobPerMessage'
  <2>1. DOMAIN jobs = 1 .. Len(jobs)
    BY RowsKnown
  <2>2. \A i, j \in 1 .. Len(jobs) : jobs[i].source = jobs[j].source => i = j
    BY <2>1 DEF Claims, OneJobPerMessage
  <2>3. \A i, j \in (1 .. Len(jobs)) \union {new} : jobs'[i].source = jobs'[j].source => i = j
    BY <1>2, <1>3, <1>4, <2>2
  <2> QED BY <1>3, <2>3 DEF OneJobPerMessage
<1>10. ClaimedOnce'
  <2>1. \A v \in Workers : worker'[v].at \in Before \union After =>
          worker[v].at \in Before \union After /\ worker'[v].msg = worker[v].msg
    BY <1>1, <1>6, <1>8
  <2>2. \A v \in Workers : worker'[v].at \in Before => v # w /\ worker[v].at \in Before
    BY <1>5, <1>6, <1>8
  <2>3. \A v \in Workers, j \in 1 .. Len(jobs') : worker'[v].at \in Before => jobs'[j].source # worker'[v].msg
    BY <1>1, <1>3, <1>4, <2>1, <2>2 DEF Claims, ClaimedOnce
  <2>4. \A j \in 1 .. Len(jobs') : jobs'[j].source \in claimed'
    BY <1>2, <1>3, <1>4, <1>5 DEF Claims, ClaimedOnce
  <2> QED BY <1>5, <2>1, <2>3, <2>4 DEF Claims, ClaimedOnce
<1>11. WishesKept'
  <2>1. \A v \in Workers : At(v, "submit") => worker[v].job \in 1 .. Len(jobs)
    BY LocalsKnown DEF LocalsFit, At
  <2>2. \A v \in Workers : At(v, "submit")' => Asked(worker[v].job)'
    BY <1>3, <1>4, <1>6, <1>7, <1>8, <2>1 DEF Claims, WishesKept, At, Asked
  <2>3. \A j \in 1 .. Len(jobs') : (jobs[j].state = "submitted")' => Asked(j)'
    BY <1>3, <1>4 DEF Claims, WishesKept, Asked
  <2> QED BY <2>2, <2>3 DEF WishesKept
<1> QED BY <1>9, <1>10, <1>11 DEF Claims

LEMMA MonitorAskedClaims == ASSUME NEW w \in Workers, Typed, Claims, MonitorAsked(w) PROVE Claims'
<1> USE DEF tables
<1>1. /\ worker[w] \in Locals /\ worker[w].at = "register" /\ "register" \in After /\ "submit" \in After
      /\ "submit" \notin Before /\ worker[w].job \in 1 .. Len(jobs)
  BY LocalsKnown DEF MonitorAsked, At, Before, After, LocalsFit
<1> DEFINE row == [jobs[worker[w].job] EXCEPT !.registered = TRUE]
<1>2. /\ jobs' = [jobs EXCEPT ![worker[w].job] = row] /\ jobs \in Seq(Job)
      /\ jobs[worker[w].job] \in Job
  BY <1>1, RowsKnown DEF MonitorAsked, Typed, TablesTyped
<1>3. /\ row.source = jobs[worker[w].job].source /\ row.opts = jobs[worker[w].job].opts
      /\ row.state = jobs[worker[w].job].state /\ row.registered
  BY <1>2 DEF Job
<1> HIDE DEF row
<1>4. /\ Len(jobs') = Len(jobs) /\ DOMAIN jobs' = DOMAIN jobs /\ DOMAIN jobs = 1 .. Len(jobs)
      /\ \A j \in 1 .. Len(jobs) :
           /\ jobs'[j].source = jobs[j].source /\ jobs'[j].opts = jobs[j].opts
           /\ jobs'[j].state = jobs[j].state
           /\ jobs'[j].registered \/ jobs'[j].registered = jobs[j].registered
      /\ jobs'[worker[w].job].registered
  BY <1>1, <1>2, <1>3
<1> DEFINE local == [worker[w] EXCEPT !.at = "submit"]
<1>5. /\ Goes(w, local) /\ claimed' = claimed /\ local.at = "submit"
      /\ local.msg = worker[w].msg /\ local.job = worker[w].job
  BY <1>1 DEF MonitorAsked, GoTo, Locals
<1> HIDE DEF local
<1>6. worker'[w] = local /\ \A v \in Workers \ {w} : worker'[v] = worker[v]
  BY <1>5 DEF Goes, Typed, WorkersTyped
<1>7. OneJobPerMessage'
  BY <1>4 DEF Claims, OneJobPerMessage
<1>8. ClaimedOnce'
  <2>1. \A v \in Workers : worker'[v].at \in Before \union After =>
          worker[v].at \in Before \union After /\ worker'[v].msg = worker[v].msg
    BY <1>1, <1>5, <1>6
  <2>2. \A v \in Workers : worker'[v].at \in Before => worker[v].at \in Before
    BY <1>1, <1>5, <1>6
  <2>3. \A j \in 1 .. Len(jobs') : jobs'[j].source \in claimed'
    BY <1>4, <1>5 DEF Claims, ClaimedOnce
  <2>4. \A v \in Workers, j \in 1 .. Len(jobs') :
          worker'[v].at \in Before => jobs'[j].source # worker'[v].msg
    BY <1>4, <2>1, <2>2 DEF Claims, ClaimedOnce
  <2> QED BY <1>5, <2>1, <2>3, <2>4 DEF Claims, ClaimedOnce
<1>9. WishesKept'
  <2>1. \A v \in Workers : At(v, "submit") => worker[v].job \in 1 .. Len(jobs)
    BY LocalsKnown DEF LocalsFit, At
  <2>2. \A j \in 1 .. Len(jobs) : Asked(j) => Asked(j)'
    BY <1>4 DEF Asked
  <2>3. \A v \in Workers : At(v, "submit")' => Asked(worker[v].job)'
    BY <1>4, <1>5, <1>6, <2>1, <2>2 DEF Claims, WishesKept, At, Asked
  <2>4. \A j \in 1 .. Len(jobs') : (jobs[j].state = "submitted")' => Asked(j)'
    BY <1>4, <2>2 DEF Claims, WishesKept
  <2> QED BY <2>3, <2>4 DEF WishesKept
<1> QED BY <1>7, <1>8, <1>9 DEF Claims

LEMMA JobSubmittedClaims == ASSUME NEW w \in Workers, Typed, Claims, JobSubmitted(w) PROVE Claims'
<1> USE DEF tables
<1>1. /\ worker[w] \in Locals /\ worker[w].at = "submit" /\ "submit" \in After
      /\ worker[w].job \in 1 .. Len(jobs)
  BY LocalsKnown DEF JobSubmitted, At, After, LocalsFit
<1>2. PICK state \in {"submitted", "refused"}, text \in Texts :
        /\ jobs' = [jobs EXCEPT ![worker[w].job] = [jobs[worker[w].job] EXCEPT !.state = state]]
        /\ Goes(w, Says(w, text))
  BY DEF JobSubmitted, Texts, Typed, TablesTyped
<1> DEFINE row == [jobs[worker[w].job] EXCEPT !.state = state]
<1>3. /\ jobs \in Seq(Job) /\ jobs[worker[w].job] \in Job /\ claimed' = claimed
  BY <1>1, RowsKnown DEF JobSubmitted, Typed, TablesTyped
<1>4. /\ row.source = jobs[worker[w].job].source /\ row.opts = jobs[worker[w].job].opts
      /\ row.registered = jobs[worker[w].job].registered
  BY <1>3 DEF Job
<1>5. jobs' = [jobs EXCEPT ![worker[w].job] = row]
  BY <1>2
<1> HIDE DEF row
<1>6. /\ Len(jobs') = Len(jobs) /\ DOMAIN jobs' = DOMAIN jobs /\ DOMAIN jobs = 1 .. Len(jobs)
      /\ \A j \in 1 .. Len(jobs) :
           /\ jobs'[j].source = jobs[j].source /\ jobs'[j].opts = jobs[j].opts
           /\ jobs'[j].registered = jobs[j].registered
           /\ j # worker[w].job => jobs'[j].state = jobs[j].state
  BY <1>1, <1>3, <1>4, <1>5
<1> DEFINE local == Says(w, text)
<1>7. Goes(w, local) /\ local.at = "reply" /\ local.msg = worker[w].msg /\ "reply" \notin Before
  BY <1>1, <1>2 DEF Says, Locals, Before
<1> HIDE DEF local
<1>8. worker'[w] = local /\ \A v \in Workers \ {w} : worker'[v] = worker[v]
  BY <1>7 DEF Goes, Typed, WorkersTyped
<1>9. OneJobPerMessage'
  BY <1>6 DEF Claims, OneJobPerMessage
<1>10. ClaimedOnce'
  BY <1>1, <1>3, <1>6, <1>7, <1>8 DEF Claims, ClaimedOnce
<1>11. WishesKept'
  <2>1. \A v \in Workers : At(v, "submit") => worker[v].job \in 1 .. Len(jobs) /\ Asked(worker[v].job)
    BY LocalsKnown DEF LocalsFit, At, Claims, WishesKept
  <2>2. \A j \in 1 .. Len(jobs) : Asked(j) => Asked(j)'
    BY <1>6 DEF Asked
  <2>3. \A v \in Workers : At(v, "submit")' => Asked(worker[v].job)'
    BY <1>7, <1>8, <2>1, <2>2 DEF At, Asked
  <2>4. Asked(worker[w].job)
    BY <1>1, <2>1 DEF At
  <2>5. \A j \in 1 .. Len(jobs') : (jobs[j].state = "submitted")' => Asked(j)'
    BY <1>6, <2>2, <2>4 DEF Claims, WishesKept
  <2> QED BY <2>3, <2>5 DEF WishesKept
<1> QED BY <1>9, <1>10, <1>11 DEF Claims

LEMMA ClaimsStep == Typed /\ Claims /\ [Next]_vars => Claims'
<1> SUFFICES ASSUME Typed, Claims, [Next]_vars PROVE Claims'
  OBVIOUS
<1> USE DEF tables
<1>1. ASSUME UNCHANGED <<worker, claimed, jobs>> PROVE Claims'
  BY <1>1 DEF Claims, ClaimedOnce, OneJobPerMessage, WishesKept, At, Asked
<1>2. CASE Crash
  <2>1. /\ \A w \in Workers : worker'[w].at \notin Before \union After /\ worker'[w].at # "submit"
        /\ claimed' = claimed /\ jobs' = jobs
    BY <1>2 DEF Crash, Idle, Before, After
  <2> QED BY <2>1 DEF Claims, ClaimedOnce, OneJobPerMessage, WishesKept, At, Asked
<1>3. ASSUME NEW w \in Workers, Handle(w) \/ Raised(w) \/ RaisedUnheard(w) PROVE Claims'
  <2>1. CASE Take(w)
    <3> DEFINE local == [Idle EXCEPT !.msg = Head(queue), !.at = "claim"]
    <3>1. Goes(w, local) /\ local.at \notin Before \union After /\ UNCHANGED <<claimed, jobs>>
      BY <2>1 DEF Take, Idle, Before, After
    <3> HIDE DEF local
    <3> QED BY <3>1, MovedClaims
  <2>2. CASE DraftMade(w) \/ OptionsUpdated(w) \/ Raised(w)
    <3>1. /\ \E text \in Texts : Goes(w, Says(w, text))
          /\ worker[w].at \in Before \union After /\ UNCHANGED <<claimed, jobs>>
      BY <2>2 DEF DraftMade, OptionsUpdated, Raised, Routing, At, Texts, Before, After
    <3> QED BY <3>1, SaysClaims
  <2>3. CASE DraftRead(w)
    <3>1. worker[w].at \in Before /\ UNCHANGED <<claimed, jobs>> /\ worker[w] \in Locals
      BY <2>3, LocalsKnown DEF DraftRead, At, Before
    <3>2. CASE Active = {}
      BY <2>3, <3>1, <3>2, SaysClaims DEF DraftRead
    <3>3. CASE Active # {}
      <4> DEFINE at == IF Kind(w) \in {"start", "cancel"} THEN "close" ELSE "update"
                 local(d) == [worker[w] EXCEPT !.draft = d, !.opts = drafts[d].opts, !.at = at]
      <4>1. PICK d \in Active : Goes(w, local(d))
        BY <2>3, <3>3 DEF DraftRead
      <4>2. local(d).at = at /\ local(d).msg = worker[w].msg /\ at \in Before \ After
        BY <3>1 DEF Locals, Before, After
      <4> HIDE DEF local, at
      <4> QED BY <3>1, <4>1, <4>2, MovedClaims
    <3> QED BY <3>2, <3>3
  <2>4. CASE DraftClosed(w)
    <3>1. worker[w].at \in Before /\ UNCHANGED <<claimed, jobs>> /\ worker[w] \in Locals
      BY <2>4, LocalsKnown DEF DraftClosed, At, Before
    <3>2. CASE Kind(w) # "start"
      BY <2>4, <3>1, <3>2, SaysClaims DEF DraftClosed
    <3>3. CASE Kind(w) = "start"
      <4> DEFINE local == [worker[w] EXCEPT !.at = "create"]
      <4>1. Goes(w, local) /\ local.msg = worker[w].msg /\ local.at \in Before \ After
        BY <2>4, <3>1, <3>3 DEF DraftClosed, GoTo, Locals, Before, After
      <4> HIDE DEF local
      <4> QED BY <3>1, <4>1, MovedClaims
    <3> QED BY <3>2, <3>3
  <2>5. CASE Reply(w) \/ RaisedUnheard(w)
    BY <2>5, IdleClaims DEF Reply, RaisedUnheard
  <2>6. CASE Claim(w) \/ JobCreated(w) \/ MonitorAsked(w) \/ JobSubmitted(w)
    BY <2>6, ClaimClaims, JobCreatedClaims, MonitorAskedClaims, JobSubmittedClaims
  <2> QED BY <1>3, <2>1, <2>2, <2>3, <2>4, <2>5, <2>6 DEF Handle
<1>4. CASE Post \/ Stop \/ StartAgain \/ UNCHANGED vars
  BY <1>1, <1>4 DEF Post, Stop, StartAgain, vars
<1>5. ASSUME NEW n, DeliverFirst(n) \/ Redeliver(n) \/ Dropped(n) PROVE Claims'
  BY <1>1, <1>5 DEF DeliverFirst, Redeliver, Deliver, Dropped
<1> QED BY <1>2, <1>3, <1>4, <1>5 DEF Next

-----------------------------------------------------------------------------
(* Making a draft ends the one there is; nothing else makes one active, and   *)
(* options are only set of one that is.                                      *)
EndedStay ==
    \A d \in DOMAIN drafts \ Active : drafts'[d].status # "active" /\ drafts'[d].opts = drafts[d].opts

LEMMA SameDrafts == ASSUME OneDraft, drafts' = drafts PROVE OneDraft' /\ EndedStay
BY DEF OneDraft, EndedStay, Active

LEMMA DraftMadeDrafts ==
    ASSUME NEW w \in Workers, Typed, DraftMade(w)
    PROVE  /\ OneDraft' /\ EndedStay
           /\ \A d \in Active' : d = Len(drafts) + 1
           /\ drafts'[Len(drafts) + 1] = NewDraft(w)
<1> USE DEF tables
<1> DEFINE old == [d \in DOMAIN drafts |->
                     IF d \in Active THEN [drafts[d] EXCEPT !.status = "superseded"] ELSE drafts[d]]
<1>1. \A d \in DOMAIN drafts : /\ old[d].status # "active" /\ old[d] \in Draft
                               /\ d \notin Active => old[d].opts = drafts[d].opts
  <2>1. ASSUME NEW d \in Active PROVE old[d].status # "active" /\ old[d] \in Draft
    <3>1. d \in DOMAIN drafts /\ drafts[d] \in Draft
      BY RowsKnown DEF Active
    <3>2. old[d] = [drafts[d] EXCEPT !.status = "superseded"]
      BY <3>1
    <3> QED BY <3>1, <3>2, DraftFields DEF Draft
  <2>2. ASSUME NEW d \in DOMAIN drafts, d \notin Active
        PROVE old[d] = drafts[d] /\ drafts[d].status # "active" /\ drafts[d] \in Draft
    BY <2>2, RowsKnown DEF Active
  <2> QED BY <2>1, <2>2
<1>2. DOMAIN old = 1 .. Len(drafts) /\ DOMAIN drafts = 1 .. Len(drafts) /\ Len(drafts) \in Nat
      /\ old = [d \in 1 .. Len(drafts) |-> old[d]]
  BY RowsKnown
<1> HIDE DEF old
<1>3. old \in Seq(Draft) /\ Len(old) = Len(drafts)
  BY <1>1, <1>2
<1>4. drafts' = Append(old, NewDraft(w)) /\ NewDraft(w) \in Draft
  BY LocalsKnown DEF DraftMade, old, NewDraft, Draft, Locals
<1>5. /\ Len(drafts') = Len(drafts) + 1 /\ DOMAIN drafts' = 1 .. Len(drafts) + 1
      /\ \A d \in 1 .. Len(drafts) : drafts'[d] = old[d]
      /\ drafts'[Len(drafts) + 1] = NewDraft(w)
  BY <1>2, <1>3, <1>4, AppendProperties
<1>6. \A d \in Active' : d = Len(drafts) + 1
  BY <1>1, <1>2, <1>5 DEF Active
<1>7. EndedStay
  BY <1>1, <1>2, <1>5 DEF EndedStay
<1> QED BY <1>5, <1>6, <1>7 DEF OneDraft

LEMMA OptionsUpdatedDrafts ==
    ASSUME NEW w \in Workers, Typed, OneDraft, OptionsUpdated(w) PROVE OneDraft' /\ EndedStay
<1> DEFINE d == worker[w].draft
           opts == Chosen(worker[w].opts, Kind(w))
<1>1. CASE d \notin Active
  BY <1>1, SameDrafts DEF OptionsUpdated
<1>2. CASE d \in Active
  <2>1. drafts' = [drafts EXCEPT ![d].opts = opts]
    BY <1>2 DEF OptionsUpdated
  <2>2. d \in DOMAIN drafts /\ drafts[d] \in Draft /\ DOMAIN drafts = 1 .. Len(drafts)
    BY <1>2, RowsKnown DEF Active
  <2> HIDE DEF d, opts
  <2>3. DOMAIN drafts' = DOMAIN drafts /\ \A e \in DOMAIN drafts \ {d} : drafts'[e] = drafts[e]
    BY <2>1
  <2>4. drafts'[d].status = drafts[d].status
    BY <2>1, <2>2 DEF Draft
  <2>5. Active' = Active
    BY <2>3, <2>4 DEF Active
  <2>6. EndedStay
    BY <1>2, <2>3, <2>5 DEF EndedStay, Active
  <2> QED BY <2>5, <2>6 DEF OneDraft
<1> QED BY <1>1, <1>2

LEMMA DraftClosedDrafts ==
    ASSUME NEW w \in Workers, Typed, OneDraft, DraftClosed(w) PROVE OneDraft' /\ EndedStay
<1> DEFINE d == worker[w].draft
<1>1. PICK status \in {"submitted", "cancelled"} : drafts' = [drafts EXCEPT ![d].status = status]
  BY DEF DraftClosed, Ended
<1> HIDE DEF d
<1>2. DOMAIN drafts' = DOMAIN drafts /\ \A e \in DOMAIN drafts \ {d} : drafts'[e] = drafts[e]
  BY <1>1 DEF Typed, TablesTyped
<1>3. d \in DOMAIN drafts => drafts'[d].status # "active" /\ drafts'[d].opts = drafts[d].opts
  <2>1. ASSUME d \in DOMAIN drafts PROVE drafts[d] \in Draft
    BY <2>1, RowsKnown
  <2> QED BY <1>1, <2>1 DEF Draft
<1>4. Active' \subseteq Active
  BY <1>2, <1>3 DEF Active
<1>5. EndedStay
  BY <1>2, <1>3 DEF EndedStay, Active
<1> QED BY <1>4, <1>5 DEF OneDraft

LEMMA DraftsStep == Typed /\ OneDraft /\ [Next]_vars => OneDraft' /\ EndedStay
<1> SUFFICES ASSUME Typed, OneDraft, [Next]_vars PROVE OneDraft' /\ EndedStay
  OBVIOUS
<1> USE DEF tables
<1>1. CASE Post \/ Crash \/ Stop \/ StartAgain \/ UNCHANGED vars
  BY <1>1, SameDrafts DEF Post, Crash, Stop, StartAgain, vars
<1>2. ASSUME NEW n, DeliverFirst(n) \/ Redeliver(n) \/ Dropped(n) PROVE OneDraft' /\ EndedStay
  BY <1>2, SameDrafts DEF DeliverFirst, Redeliver, Deliver, Dropped
<1>3. ASSUME NEW w \in Workers, Handle(w) \/ Raised(w) \/ RaisedUnheard(w) PROVE OneDraft' /\ EndedStay
  <2>1. CASE Take(w) \/ Claim(w) \/ DraftRead(w) \/ Reply(w) \/ Raised(w) \/ RaisedUnheard(w)
    BY <2>1, SameDrafts DEF Take, Claim, DraftRead, Reply, Raised, RaisedUnheard
  <2>2. CASE JobCreated(w) \/ MonitorAsked(w) \/ JobSubmitted(w)
    BY <2>2, SameDrafts DEF JobCreated, MonitorAsked, JobSubmitted
  <2>3. CASE DraftMade(w) \/ OptionsUpdated(w) \/ DraftClosed(w)
    BY <2>3, DraftMadeDrafts, OptionsUpdatedDrafts, DraftClosedDrafts
  <2> QED BY <1>3, <2>1, <2>2, <2>3 DEF Handle
<1> QED BY <1>1, <1>2, <1>3 DEF Next

-----------------------------------------------------------------------------
(* The invariant holds whatever the messenger, the workers, failing calls and *)
(* crashes do.                                                               *)
LEMMA Invariance == Spec => []IInv
<1>1. Init => IInv
  BY InitInv
<1>2. IInv /\ [Next]_vars => IInv'
  BY TypedStep, ClaimsStep, DraftsStep DEF IInv, Claims
<1> QED BY <1>1, <1>2, PTL DEF Spec

(* Whatever is queued, claimed, lost or answered is a message, and the tables *)
(* hold what the columns may hold.                                           *)
THEOREM TypeCorrect == Spec => []TypeOK
<1>1. IInv => TypeOK
  <2> SUFFICES ASSUME IInv PROVE TypeOK
    OBVIOUS
  <2>1. Len(answer) = Len(posted) /\ \A n \in 1 .. Len(answer) : answer[n] \in Texts \union {"none"}
    BY DEF IInv, Typed, MessagesTyped
  <2>2. \A d \in DOMAIN drafts : drafts[d] \in Draft
    BY RowsKnown DEF IInv
  <2>3. \A j \in DOMAIN jobs : jobs[j] \in Job
    BY RowsKnown DEF IInv
  <2>4. \A e \in Draft : e.status \in {"active", "superseded", "submitted", "cancelled"}
    BY DEF Draft
  <2>5. \A e \in Job : e.state \in {"queued", "submitted", "refused"}
    BY DEF Job
  <2> QED BY <2>1, <2>2, <2>3, <2>4, <2>5 DEF IInv, Typed, MessagesTyped, TypeOK, Messages, Texts
<1> QED BY <1>1, Invariance, PTL

(* claim_message makes the handling of a message happen once: however often   *)
(* it is delivered, it makes one job at most.                                *)
THEOREM MessagesMakeOneJob == Spec => []OneJobPerMessage
<1>1. IInv => OneJobPerMessage
  BY DEF IInv
<1> QED BY <1>1, Invariance, PTL

(* upsert_research_draft leaves the user one active draft, whichever workers  *)
(* take the user's messages.                                                 *)
THEOREM OneDraftActive == Spec => []OneActiveDraft
<1>1. IInv => OneActiveDraft
  <2> SUFFICES ASSUME IInv PROVE Cardinality(Active) <= 1
    BY DEF OneActiveDraft
  <2>1. CASE Active = {}
    BY <2>1, FS_EmptySet
  <2>2. CASE Active # {}
    <3>1. PICK d \in Active : Active = {d}
      BY <2>2 DEF IInv, OneDraft
    <3> QED BY <3>1, FS_Singleton
  <2> QED BY <2>1, <2>2
<1> QED BY <1>1, Invariance, PTL

(* No executor has a job whose wish for monitoring is not recorded.          *)
THEOREM MonitoringRecorded == Spec => []MonitoringNotForgotten
<1>1. IInv => MonitoringNotForgotten
  BY RowsKnown DEF IInv, WishesKept, Asked, MonitoringNotForgotten
<1> QED BY <1>1, Invariance, PTL

(* No step takes up or changes a draft that has ended.                       *)
THEOREM EndedDraftsUntouched == Spec => EndedDraftsStay
<1>1. IInv /\ [Next]_vars => [EndedStay]_vars
  BY DraftsStep DEF IInv
<1>2. Spec => [][EndedStay]_vars
  BY <1>1, Invariance, PTL DEF Spec
<1>3. EndedStay => \A d \in DOMAIN drafts \ Active : drafts'[d].status # "active" /\ drafts'[d].opts = drafts[d].opts
  BY DEF EndedStay
<1> QED BY <1>2, <1>3, PTL DEF EndedDraftsStay, EndedStay

-----------------------------------------------------------------------------
(* What the user confirmed is what runs.  A worker is where the kind of its   *)
(* message sends it.                                                         *)
KindsFit(w) ==
    /\ At(w, "upsert") => Kind(w) = "topic" /\ worker[w].opts = {}
    /\ At(w, "read") => Kind(w) \in {"start", "cancel"} \union Choices
    /\ At(w, "update") => Kind(w) \in Choices
    /\ At(w, "close") => Kind(w) \in {"start", "cancel"}
    /\ worker[w].at \in {"create", "register", "submit"} => Kind(w) \in {"command", "start"}

Busy(w) == worker[w].at \in Before \union After

(* A message is answered once, after it was claimed; for a user who waits all *)
(* but the last one are.                                                     *)
AnsweredInTurn ==
    /\ \A n \in Messages : answer[n] # "none" => n \in claimed
    /\ \A w \in Workers : Busy(w) => answer[worker[w].msg] = "none"
    /\ ~hasty => \A n \in Messages : n < Len(posted) => answer[n] # "none"

(* The options are those accepted since the topic t, before the message s.   *)
Confirmed(t, opts, s) ==
    /\ t \in Messages /\ t < s /\ posted[t] = "topic"
    /\ AcceptedOf(Between(t, s, {"topic", "start", "cancel"})) = {}
    /\ KindsOf(AcceptedOf(Between(t, s, Choices))) \subseteq opts
    /\ opts \subseteq KindsOf(Between(t, s, Choices))

DraftsConfirmed ==
    \A d \in Active : Confirmed(drafts[d].topic, drafts[d].opts, Len(posted) + 1)

(* What a worker read of the draft is so still, and what it will say is.     *)
Ready(w) == At(w, "reply") /\ worker[w].says = "ok"

WorkFits(w) ==
    /\ worker[w].at \in {"update", "close"} =>
          worker[w].draft \in Active /\ worker[w].opts = drafts[worker[w].draft].opts
    /\ At(w, "create") /\ Kind(w) = "start" =>
          /\ worker[w].draft # 0
          /\ Confirmed(drafts[worker[w].draft].topic, worker[w].opts, worker[w].msg)
    /\ (worker[w].at \in {"create", "register", "submit"} \/ Ready(w))
          /\ Kind(w) \in {"start", "cancel"} => Active = {}
    /\ Ready(w) /\ Kind(w) = "topic" => \A d \in Active : drafts[d].topic = worker[w].msg
    /\ Ready(w) /\ Kind(w) \in Choices => \A d \in Active : Kind(w) \in drafts[d].opts

JobsConfirmed ==
    \A i \in DOMAIN jobs : posted[jobs[i].source] = "start" =>
        Confirmed(jobs[i].topic, jobs[i].opts, jobs[i].source)

Calm == ~hasty => DraftsConfirmed /\ JobsConfirmed /\ \A w \in Workers : WorkFits(w)

CInv == IInv /\ (\A w \in Workers : KindsFit(w)) /\ AnsweredInTurn /\ Calm

(* The one worker that can be at work for a user who waits has the last       *)
(* message.                                                                  *)
LEMMA OneAtWork ==
    ASSUME CInv, ~hasty, NEW w \in Workers, Busy(w)
    PROVE  /\ worker[w].msg = Len(posted) /\ worker[w].msg \in Messages /\ Len(posted) \in Nat
           /\ \A v \in Workers \ {w} : ~Busy(v)
<1>1. ASSUME NEW v \in Workers, Busy(v)
      PROVE worker[v].msg \in Messages /\ worker[v].msg = Len(posted) /\ Len(posted) \in Nat
  <2>1. Len(posted) \in Nat /\ worker[v].msg \in Messages
    BY <1>1, LocalsKnown DEF CInv, IInv, Busy, Before, After, LocalsFit, At
  <2>2. ~(worker[v].msg < Len(posted))
    BY <1>1, <2>1 DEF CInv, AnsweredInTurn
  <2> QED BY <2>1, <2>2 DEF Messages
<1>2. \A v \in Workers : Busy(v) => v = w
  BY <1>1 DEF CInv, IInv, ClaimedOnce, Busy
<1> QED BY <1>1, <1>2

(* Nothing done is confirmed before anything is posted.                      *)
LEMMA InitConfirmed == Init => CInv
<1> SUFFICES ASSUME Init PROVE CInv
  OBVIOUS
<1>1. IInv
  BY InitInv
<1>2. \A w \in Workers : KindsFit(w) /\ WorkFits(w) /\ ~Busy(w)
  BY DEF Init, KindsFit, WorkFits, Busy, Ready, Idle, At, Before, After
<1>3. AnsweredInTurn /\ Calm
  BY <1>2 DEF Init, AnsweredInTurn, Calm, DraftsConfirmed, JobsConfirmed, Active, Messages
<1> QED BY <1>1, <1>2, <1>3 DEF CInv

(* Kinds.  A worker moves on with a message of the kind that leads there.     *)
LEMMA KindsMoved ==
    ASSUME Typed, \A v \in Workers : KindsFit(v), NEW w \in Workers, NEW local,
           Goes(w, local), UNCHANGED posted,
           local.at = "upsert" => posted[local.msg] = "topic" /\ local.opts = {},
           local.at = "read" => posted[local.msg] \in {"start", "cancel"} \union Choices,
           local.at = "update" => posted[local.msg] \in Choices,
           local.at = "close" => posted[local.msg] \in {"start", "cancel"},
           local.at \in {"create", "register", "submit"} => posted[local.msg] \in {"command", "start"}
    PROVE  \A v \in Workers : KindsFit(v)'
<1>1. worker'[w] = local /\ \A v \in Workers \ {w} : worker'[v] = worker[v]
  BY DEF Goes, Typed, WorkersTyped
<1>2. KindsFit(w)'
  BY <1>1 DEF KindsFit, At, Kind
<1>3. ASSUME NEW v \in Workers \ {w} PROVE KindsFit(v)'
  BY <1>1 DEF KindsFit, At, Kind
<1> QED BY <1>2, <1>3

LEMMA KindsStep == CInv /\ [Next]_vars => \A w \in Workers : KindsFit(w)'
<1> SUFFICES ASSUME CInv, [Next]_vars PROVE \A w \in Workers : KindsFit(w)'
  OBVIOUS
<1> USE DEF CInv, IInv, user, tables
<1>1. ASSUME UNCHANGED <<worker, posted>> PROVE \A w \in Workers : KindsFit(w)'
  BY <1>1 DEF KindsFit, At, Kind
<1>2. CASE Post
  <2>1. PICK s \in Scripts : /\ Len(posted) < Len(s) /\ posted = SubSeq(s, 1, Len(posted))
                             /\ posted' = SubSeq(s, 1, Len(posted) + 1)
    BY <1>2 DEF Post
  <2>2. Len(posted) \in Nat /\ s \in Seq(Kinds)
    BY <2>1, ScriptsAssumption DEF Typed, MessagesTyped
  <2>3. \A n \in Messages : posted'[n] = posted[n]
    BY <2>1, <2>2, SubSeqProperties DEF Messages
  <2>4. ASSUME NEW w \in Workers PROVE KindsFit(w)'
    <3>1. worker'[w] = worker[w] /\ (~At(w, "idle") => worker[w].msg \in Messages)
      BY <1>2, LocalsKnown DEF Post, LocalsFit
    <3>2. CASE At(w, "idle")
      BY <3>1, <3>2 DEF KindsFit, At
    <3>3. CASE ~At(w, "idle")
      BY <2>3, <3>1, <3>3 DEF KindsFit, At, Kind
    <3> QED BY <3>2, <3>3
  <2> QED BY <2>4
<1>3. CASE Crash
  BY <1>3 DEF Crash, KindsFit, Idle, At
<1>4. ASSUME NEW w \in Workers, Handle(w) \/ Raised(w) \/ RaisedUnheard(w)
      PROVE  \A v \in Workers : KindsFit(v)'
  <2>1. worker[w] \in Locals /\ KindsFit(w)
    BY LocalsKnown
  <2>2. CASE Take(w) \/ Reply(w) \/ RaisedUnheard(w)
    <3>0. Idle.at = "idle" /\ [Idle EXCEPT !.msg = Head(queue), !.at = "claim"].at = "claim"
      BY DEF Idle
    <3>1. PICK local : /\ Goes(w, local) /\ UNCHANGED posted
                       /\ local.at \in {"idle", "claim"}
      BY <2>2, <3>0 DEF Take, Reply, RaisedUnheard
    <3>2. local.at \notin {"upsert", "read", "update", "close", "create", "register", "submit"}
      BY <3>1
    <3> QED BY <3>1, <3>2, KindsMoved
  <2>3. ASSUME NEW text, Goes(w, Says(w, text)), UNCHANGED posted
        PROVE  \A v \in Workers : KindsFit(v)'
    <3>1. Says(w, text).at = "reply"
      BY <2>1 DEF Says, Locals
    <3> QED BY <2>3, <3>1, KindsMoved
  <2>4. CASE DraftMade(w) \/ OptionsUpdated(w) \/ Raised(w) \/ JobSubmitted(w)
    <3>1. UNCHANGED posted /\ \E text \in Texts : Goes(w, Says(w, text))
      BY <2>4 DEF DraftMade, OptionsUpdated, Raised, JobSubmitted, Texts
    <3> QED BY <2>3, <3>1
  <2>5. CASE Claim(w)
    <3>1. CASE worker[w].msg \in claimed
      <4>1. Goes(w, Idle) /\ UNCHANGED posted /\ Idle.at = "idle"
        BY <2>5, <3>1 DEF Claim, Idle
      <4> QED BY <4>1, KindsMoved
    <3>2. CASE worker[w].msg \notin claimed
      <4> DEFINE local == [worker[w] EXCEPT !.at = Routed(Kind(w)), !.says = "ok",
                                            !.opts = Parsed(Kind(w))]
      <4>1. Goes(w, local) /\ UNCHANGED posted
        BY <2>5, <3>2 DEF Claim
      <4>2. local.at = Routed(Kind(w)) /\ local.msg = worker[w].msg /\ local.opts = Parsed(Kind(w))
        BY <2>1 DEF Locals
      <4>3. Kind(w) \in Kinds
        BY <2>5, LocalsKnown DEF Claim, At
      <4> HIDE DEF local
      <4>4. /\ local.at = "upsert" => posted[local.msg] = "topic" /\ local.opts = {}
            /\ local.at = "read" => posted[local.msg] \in {"start", "cancel"} \union Choices
            /\ local.at = "create" => posted[local.msg] \in {"command", "start"}
            /\ local.at \notin {"update", "close", "register", "submit"}
        BY <4>2, <4>3 DEF Routed, Parsed, Kinds, Kind
      <4> QED BY <4>1, <4>4, KindsMoved
    <3> QED BY <3>1, <3>2
  <2>6. CASE DraftRead(w)
    <3>1. CASE Active = {}
      BY <2>3, <2>6, <3>1 DEF DraftRead
    <3>2. CASE Active # {}
      <4> DEFINE at == IF Kind(w) \in {"start", "cancel"} THEN "close" ELSE "update"
                 local(d) == [worker[w] EXCEPT !.draft = d, !.opts = drafts[d].opts, !.at = at]
      <4>1. PICK d \in Active : Goes(w, local(d))
        BY <2>6, <3>2 DEF DraftRead
      <4>2. local(d).at = at /\ local(d).msg = worker[w].msg
        BY <2>1 DEF Locals
      <4>3. Kind(w) \in {"start", "cancel"} \union Choices /\ UNCHANGED posted
        BY <2>1, <2>6 DEF KindsFit, DraftRead
      <4> HIDE DEF local
      <4>4. /\ local(d).at = "update" => posted[local(d).msg] \in Choices
            /\ local(d).at = "close" => posted[local(d).msg] \in {"start", "cancel"}
            /\ local(d).at \in {"update", "close"}
        BY <4>2, <4>3 DEF Kind
      <4> QED BY <4>1, <4>3, <4>4, KindsMoved
    <3> QED BY <3>1, <3>2
  <2>7. CASE DraftClosed(w) /\ Kind(w) # "start"
    BY <2>3, <2>7 DEF DraftClosed
  <2>8. CASE (DraftClosed(w) /\ Kind(w) = "start") \/ MonitorAsked(w)
    <3>1. PICK p \in {"create", "submit"} : Goes(w, [worker[w] EXCEPT !.at = p])
      BY <2>8 DEF DraftClosed, MonitorAsked, GoTo
    <3> DEFINE local == [worker[w] EXCEPT !.at = p]
    <3>2. local.at = p /\ local.msg = worker[w].msg
      BY <2>1 DEF Locals
    <3>3. Kind(w) \in {"command", "start"} /\ UNCHANGED posted
      BY <2>1, <2>8 DEF KindsFit, DraftClosed, MonitorAsked, At
    <3> HIDE DEF local
    <3>4. Goes(w, local)
      BY <3>1 DEF local
    <3> QED BY <3>2, <3>3, <3>4, KindsMoved DEF Kind
  <2>9. CASE JobCreated(w)
    <3> DEFINE next == IF "monitor" \in worker[w].opts THEN "register" ELSE "submit"
               local == [worker[w] EXCEPT !.job = Len(jobs) + 1, !.at = next]
    <3>1. Goes(w, local) /\ UNCHANGED posted /\ Kind(w) \in {"command", "start"}
      BY <2>1, <2>9 DEF JobCreated, KindsFit, At
    <3>2. local.at \in {"register", "submit"} /\ local.msg = worker[w].msg
      BY <2>1 DEF Locals
    <3> HIDE DEF local
    <3> QED BY <3>1, <3>2, KindsMoved DEF Kind
  <2> QED BY <1>4, <2>2, <2>4, <2>5, <2>6, <2>7, <2>8, <2>9 DEF Handle
<1>5. ASSUME NEW n, DeliverFirst(n) \/ Redeliver(n) \/ Dropped(n) PROVE \A w \in Workers : KindsFit(w)'
  BY <1>1, <1>5 DEF DeliverFirst, Redeliver, Deliver, Dropped
<1>6. CASE Stop \/ StartAgain \/ UNCHANGED vars
  BY <1>1, <1>6 DEF Stop, StartAgain, user, tables, vars
<1> QED BY <1>2, <1>3, <1>4, <1>5, <1>6 DEF Next

(* Answers.  A worker that goes on with its message has not answered it yet.  *)
LEMMA AnsweredMoved ==
    ASSUME CInv, NEW w \in Workers, NEW local, Goes(w, local),
           UNCHANGED <<posted, answer, claimed, hasty>>,
           local.at \in Before \union After => Busy(w) /\ local.msg = worker[w].msg
    PROVE  AnsweredInTurn'
<1>1. worker'[w] = local /\ \A v \in Workers \ {w} : worker'[v] = worker[v]
  BY DEF Goes, CInv, IInv, Typed, WorkersTyped
<1>2. Messages' = Messages
  BY DEF Messages
<1>3. \A v \in Workers : Busy(v)' => Busy(v) /\ worker'[v].msg = worker[v].msg
  BY <1>1 DEF Busy
<1> QED BY <1>2, <1>3 DEF CInv, AnsweredInTurn

LEMMA AnsweredStep == CInv /\ [Next]_vars => AnsweredInTurn'
<1> SUFFICES ASSUME CInv, [Next]_vars PROVE AnsweredInTurn'
  OBVIOUS
<1> USE DEF user, tables
<1>0. Typed /\ Len(posted) \in Nat /\ answer \in Seq(Texts \union {"none"}) /\ Len(answer) = Len(posted)
  BY DEF CInv, IInv, Typed, MessagesTyped
<1>1. ASSUME UNCHANGED <<worker, posted, answer, claimed, hasty>> PROVE AnsweredInTurn'
  BY <1>1 DEF CInv, AnsweredInTurn, Busy, Messages
<1>2. CASE Post
  <2>1. answer' = Append(answer, "none") /\ worker' = worker /\ claimed' = claimed
    BY <1>2 DEF Post
  <2>2. /\ \A n \in Messages : answer'[n] = answer[n]
        /\ answer'[Len(posted) + 1] = "none"
    BY <1>0, <2>1, AppendProperties DEF Messages
  <2>3. Typed'
    BY <1>0, <1>2, PostTyped
  <2>4. Len(posted') = Len(posted) + 1
    <3>1. Len(answer') = Len(answer) + 1 /\ Len(answer') = Len(posted')
      BY <1>0, <2>1, <2>3, AppendProperties DEF Typed, MessagesTyped
    <3> QED BY <1>0, <3>1
  <2>5. Messages' = Messages \union {Len(posted) + 1}
    BY <1>0, <2>4 DEF Messages
  <2>6. \A n \in Messages' : answer'[n] # "none" => n \in claimed'
    BY <2>1, <2>2, <2>5 DEF CInv, AnsweredInTurn
  <2>7. ASSUME NEW w \in Workers, Busy(w)' PROVE answer'[worker'[w].msg] = "none"
    <3>1. Busy(w) /\ worker'[w] = worker[w]
      BY <2>1, <2>7 DEF Busy
    <3>2. worker[w].msg \in Messages /\ answer[worker[w].msg] = "none"
      BY <1>0, <3>1, LocalsKnown DEF CInv, AnsweredInTurn, LocalsFit, Busy, At, Before, After
    <3> QED BY <2>2, <3>1, <3>2
  <2>8. ~hasty' => \A n \in Messages' : n < Len(posted') => answer'[n] # "none"
    <3>1. ~hasty' => \A n \in Messages : answer[n] # "none"
      BY <1>2 DEF Post
    <3> QED BY <1>0, <2>2, <2>4, <2>5, <3>1
  <2> QED BY <2>6, <2>7, <2>8 DEF AnsweredInTurn
<1>3. CASE Crash
  <2>1. /\ UNCHANGED <<posted, answer, claimed, hasty>> /\ \A w \in Workers : ~Busy(w)'
    BY <1>3 DEF Crash, Busy, Idle, Before, After
  <2> QED BY <2>1 DEF CInv, AnsweredInTurn, Messages
<1>4. ASSUME NEW w \in Workers, Handle(w) \/ Raised(w) \/ RaisedUnheard(w)
      PROVE  AnsweredInTurn'
  <2>1. worker[w] \in Locals /\ (~At(w, "idle") => worker[w].msg \in Messages)
    BY <1>0, LocalsKnown DEF LocalsFit
  <2>2. CASE Take(w) \/ RaisedUnheard(w)
    <3>1. PICK local : /\ Goes(w, local) /\ local.at \in {"idle", "claim"}
                       /\ UNCHANGED <<posted, answer, claimed, hasty>>
      BY <2>2 DEF Take, RaisedUnheard, Idle
    <3>2. local.at \notin Before \union After
      BY <3>1 DEF Before, After
    <3> QED BY <3>1, <3>2, AnsweredMoved
  <2>3. CASE Reply(w)
    <3>1. /\ answer' = [answer EXCEPT ![worker[w].msg] = worker[w].says] /\ Busy(w)
          /\ Goes(w, Idle) /\ UNCHANGED <<posted, claimed, hasty>>
      BY <2>3 DEF Reply, Busy, At, After
    <3>2. worker[w].msg \in Messages /\ worker[w].msg \in claimed
      BY <2>1, <3>1 DEF CInv, IInv, ClaimedOnce, Busy, At, Before, After
    <3>3. /\ \A n \in Messages \ {worker[w].msg} : answer'[n] = answer[n]
          /\ Messages' = Messages
      BY <1>0, <3>1 DEF Messages
    <3>4. answer'[worker[w].msg] # "none"
      <4>1. worker[w].says \in Texts
        BY <1>0, <2>3, LocalsKnown DEF Reply, LocalsFit, At
      <4>2. worker[w].msg \in 1 .. Len(answer)
        BY <1>0, <3>2 DEF Messages
      <4>3. answer'[worker[w].msg] = worker[w].says
        BY <1>0, <3>1, <4>2
      <4> QED BY <4>1, <4>3 DEF Texts
    <3>5. worker'[w] = Idle /\ \A v \in Workers \ {w} : worker'[v] = worker[v]
      BY <1>0, <3>1 DEF Goes, Typed, WorkersTyped
    <3>6. ASSUME NEW v \in Workers, Busy(v)' PROVE answer'[worker'[v].msg] = "none"
      <4>1. v # w /\ Busy(v) /\ worker'[v] = worker[v]
        BY <3>5, <3>6 DEF Busy, Idle, Before, After
      <4>2. worker[v].msg # worker[w].msg
        BY <3>1, <4>1 DEF CInv, IInv, ClaimedOnce, Busy
      <4>3. worker[v].msg \in Messages
        BY <1>0, <4>1, LocalsKnown DEF LocalsFit, Busy, At, Before, After
      <4> QED BY <3>3, <4>1, <4>2, <4>3 DEF CInv, AnsweredInTurn
    <3>7. \A n \in Messages' : answer'[n] # "none" => n \in claimed'
      BY <3>1, <3>2, <3>3 DEF CInv, AnsweredInTurn
    <3>8. ~hasty' => \A n \in Messages' : n < Len(posted') => answer'[n] # "none"
      BY <3>1, <3>3, <3>4 DEF CInv, AnsweredInTurn
    <3> QED BY <3>6, <3>7, <3>8 DEF AnsweredInTurn
  <2>4. CASE Claim(w)
    <3>1. CASE worker[w].msg \in claimed
      <4>1. /\ Goes(w, Idle) /\ Idle.at \notin Before \union After
            /\ UNCHANGED <<posted, answer, claimed, hasty>>
        BY <2>4, <3>1 DEF Claim, Idle, Before, After
      <4> QED BY <4>1, AnsweredMoved
    <3>2. CASE worker[w].msg \notin claimed
      <4> DEFINE local == [worker[w] EXCEPT !.at = Routed(Kind(w)), !.says = "ok",
                                            !.opts = Parsed(Kind(w))]
      <4>1. Goes(w, local) /\ local.msg = worker[w].msg
        BY <2>1, <2>4, <3>2 DEF Claim, Locals
      <4> HIDE DEF local
      <4>2. /\ UNCHANGED <<posted, answer, hasty>> /\ claimed' = claimed \union {worker[w].msg}
            /\ worker[w].msg \in Messages
        BY <2>1, <2>4 DEF Claim, At
      <4>3. worker'[w] = local /\ \A v \in Workers \ {w} : worker'[v] = worker[v]
        BY <1>0, <4>1 DEF Goes, Typed, WorkersTyped
      <4>4. answer[worker[w].msg] = "none"
        BY <3>2, <4>2 DEF CInv, AnsweredInTurn
      <4>5. \A v \in Workers : Busy(v)' => answer[worker'[v].msg] = "none"
        BY <4>1, <4>3, <4>4 DEF CInv, AnsweredInTurn, Busy
      <4> QED BY <4>2, <4>5 DEF CInv, AnsweredInTurn, Messages
    <3> QED BY <3>1, <3>2
  <2>5. ASSUME Busy(w), UNCHANGED <<posted, answer, claimed, hasty>>,
               \E local : Goes(w, local) /\ local.msg = worker[w].msg
        PROVE  AnsweredInTurn'
    BY <2>5, AnsweredMoved
  <2>6. CASE \/ DraftMade(w) \/ DraftRead(w) \/ OptionsUpdated(w) \/ DraftClosed(w)
             \/ JobCreated(w) \/ MonitorAsked(w) \/ JobSubmitted(w) \/ Raised(w)
    <3>1. Busy(w) /\ UNCHANGED <<posted, answer, claimed, hasty>>
      BY <2>6 DEF DraftMade, DraftRead, OptionsUpdated, DraftClosed, JobCreated, MonitorAsked,
                  JobSubmitted, Raised, Routing, Busy, At, Before, After
    <3>2. \E local : Goes(w, local) /\ local.msg = worker[w].msg
      <4>1. ASSUME NEW p PROVE [worker[w] EXCEPT !.at = p].msg = worker[w].msg
        BY <2>1 DEF Locals
      <4>2. ASSUME NEW text PROVE Says(w, text).msg = worker[w].msg
        BY <2>1 DEF Locals, Says
      <4>3. ASSUME NEW p, NEW j PROVE [worker[w] EXCEPT !.job = j, !.at = p].msg = worker[w].msg
        BY <2>1 DEF Locals
      <4>4. ASSUME NEW p, NEW d, NEW opts
            PROVE [worker[w] EXCEPT !.draft = d, !.opts = opts, !.at = p].msg = worker[w].msg
        BY <2>1 DEF Locals
      <4>5. CASE DraftMade(w) \/ OptionsUpdated(w) \/ JobSubmitted(w) \/ Raised(w)
        BY <4>2, <4>5 DEF DraftMade, OptionsUpdated, JobSubmitted, Raised
      <4>6. CASE DraftRead(w)
        BY <4>2, <4>4, <4>6, ZenonT(40) DEF DraftRead
      <4>7. CASE DraftClosed(w) \/ MonitorAsked(w)
        BY <4>1, <4>2, <4>7 DEF DraftClosed, MonitorAsked, GoTo
      <4>8. CASE JobCreated(w)
        BY <4>3, <4>8 DEF JobCreated
      <4> QED BY <2>6, <4>5, <4>6, <4>7, <4>8
    <3> QED BY <2>5, <3>1, <3>2
  <2> QED BY <1>4, <2>2, <2>3, <2>4, <2>6 DEF Handle
<1>5. ASSUME NEW n, DeliverFirst(n) \/ Redeliver(n) \/ Dropped(n) PROVE AnsweredInTurn'
  BY <1>1, <1>5 DEF DeliverFirst, Redeliver, Deliver, Dropped
<1>6. CASE Stop \/ StartAgain \/ UNCHANGED vars
  BY <1>1, <1>6 DEF Stop, StartAgain, user, tables, vars
<1> QED BY <1>2, <1>3, <1>4, <1>5, <1>6 DEF Next

(* Confirmations.  What was confirmed before message s stays confirmed while  *)
(* the messages before s keep their kinds and answers.                       *)
LEMMA StaysConfirmed ==
    ASSUME Typed, NEW t, NEW opts, NEW s \in Nat, Confirmed(t, opts, s),
           Messages \subseteq Messages',
           \A n \in Messages : n < s => posted'[n] = posted[n] /\ answer'[n] = answer[n],
           s <= Len(posted) + 1
    PROVE  Confirmed(t, opts, s)'
<1>1. t \in Nat /\ Len(posted) \in Nat /\ t \in Messages /\ t < s
  BY DEF Confirmed, Messages, Typed, MessagesTyped
<1>2. \A n \in (t + 1) .. (s - 1) : posted'[n] = posted[n] /\ answer'[n] = answer[n]
  BY <1>1 DEF Messages
<1>3. \A kinds : Between(t, s, kinds)' = Between(t, s, kinds)
  BY <1>2 DEF Between
<1>4. \A kinds : /\ AcceptedOf(Between(t, s, kinds))' = AcceptedOf(Between(t, s, kinds))
                 /\ KindsOf(Between(t, s, kinds))' = KindsOf(Between(t, s, kinds))
                 /\ KindsOf(AcceptedOf(Between(t, s, kinds)))' = KindsOf(AcceptedOf(Between(t, s, kinds)))
  BY <1>2, <1>3 DEF Between, AcceptedOf, KindsOf
<1> QED BY <1>1, <1>4 DEF Confirmed

(* A message more, not accepted, changes nothing; and one that starts the     *)
(* draft is not counted.                                                     *)
LEMMA OneMore ==
    ASSUME NEW t \in Nat, NEW opts, NEW s \in Nat, Confirmed(t, opts, s)', answer'[s] # "ok"
    PROVE  Confirmed(t, opts, s + 1)'
<1>1. t \in Messages' /\ t < s /\ t < s + 1 /\ posted'[t] = "topic"
  BY DEF Confirmed
<1>2. \A n : n \in (t + 1) .. (s + 1 - 1) <=> n \in (t + 1) .. (s - 1) \/ n = s
  BY <1>1
<1>3. \A kinds : Between(t, s, kinds)' \subseteq Between(t, s + 1, kinds)'
                 /\ Between(t, s + 1, kinds)' \subseteq Between(t, s, kinds)' \union {s}
  BY <1>2 DEF Between
<1>4. \A kinds : AcceptedOf(Between(t, s + 1, kinds))' = AcceptedOf(Between(t, s, kinds))'
  BY <1>3 DEF AcceptedOf
<1>5. KindsOf(Between(t, s, Choices))' \subseteq KindsOf(Between(t, s + 1, Choices))'
  BY <1>3 DEF KindsOf
<1>6. AcceptedOf(Between(t, s + 1, {"topic", "start", "cancel"}))' = {}
  BY <1>4 DEF Confirmed
<1>7. KindsOf(AcceptedOf(Between(t, s + 1, Choices)))' \subseteq opts
  BY <1>4 DEF Confirmed, KindsOf
<1>8. opts \subseteq KindsOf(Between(t, s + 1, Choices))'
  BY <1>5 DEF Confirmed
<1> QED BY <1>1, <1>6, <1>7, <1>8 DEF Confirmed

LEMMA OneLess ==
    ASSUME NEW t \in Nat, NEW opts, NEW s \in Nat, Confirmed(t, opts, s + 1), posted[s] = "start"
    PROVE  Confirmed(t, opts, s)
<1>1. t \in Messages /\ t < s + 1 /\ posted[t] = "topic" /\ t # s
  BY DEF Confirmed
<1>2. \A n \in (t + 1) .. (s - 1) : n \in (t + 1) .. (s + 1 - 1)
  BY <1>1
<1>3. \A n \in (t + 1) .. (s + 1 - 1) : n \in (t + 1) .. (s - 1) \/ n = s
  BY <1>1
<1>4. \A kinds : Between(t, s, kinds) \subseteq Between(t, s + 1, kinds)
  BY <1>2 DEF Between
<1>5. "start" \notin Choices
  BY ChoicesAssumption
<1>6. Between(t, s + 1, Choices) \subseteq Between(t, s, Choices)
  BY <1>3, <1>5 DEF Between
<1>7. AcceptedOf(Between(t, s, {"topic", "start", "cancel"})) = {}
  BY <1>4 DEF Confirmed, AcceptedOf
<1>8. KindsOf(AcceptedOf(Between(t, s, Choices))) \subseteq opts
  BY <1>4 DEF Confirmed, AcceptedOf, KindsOf
<1>9. opts \subseteq KindsOf(Between(t, s, Choices))
  BY <1>6 DEF Confirmed, KindsOf
<1> QED BY <1>1, <1>7, <1>8, <1>9 DEF Confirmed

(* A draft just made, and one with a choice applied.                         *)
LEMMA FreshConfirmed ==
    ASSUME NEW n \in Nat, n \in Messages, posted[n] = "topic"
    PROVE  Confirmed(n, {}, n + 1)
<1>1. (n + 1) .. (n + 1 - 1) = {} /\ n < n + 1
  OBVIOUS
<1>2. \A kinds : Between(n, n + 1, kinds) = {}
  BY <1>1 DEF Between
<1> QED BY <1>1, <1>2 DEF Confirmed, AcceptedOf, KindsOf

LEMMA ChoiceConfirmed ==
    ASSUME NEW t \in Nat, NEW opts, NEW s \in Nat, Confirmed(t, opts, s + 1),
           NEW choice \in Choices, posted[s] = choice
    PROVE  Confirmed(t, opts \union {choice}, s + 1)
<1>1. t < s + 1 /\ posted[t] = "topic" /\ "topic" \notin Choices
  BY ChoicesAssumption DEF Confirmed
<1>2. s \in (t + 1) .. (s + 1 - 1)
  BY <1>1
<1>3. choice \in KindsOf(Between(t, s + 1, Choices))
  BY <1>2 DEF KindsOf, Between
<1> QED BY <1>3 DEF Confirmed

(* An answer given to the last message: what it accepts the draft knows.      *)
LEMMA RepliedConfirmed ==
    ASSUME Typed, NEW t \in Nat, NEW opts, NEW s \in Messages, NEW text,
           Confirmed(t, opts, s + 1), answer' = [answer EXCEPT ![s] = text], posted' = posted,
           text = "ok" /\ posted[s] \in {"topic", "start", "cancel"} => t = s,
           text = "ok" /\ posted[s] \in Choices => posted[s] \in opts
    PROVE  Confirmed(t, opts, s + 1)'
<1>1. /\ s \in Nat /\ Messages' = Messages /\ answer'[s] = text
      /\ \A n : n # s => answer'[n] = answer[n]
  BY DEF Messages, Typed, MessagesTyped
<1>2. t \in Messages /\ t < s + 1 /\ posted[t] = "topic"
  BY DEF Confirmed
<1>3. \A kinds : Between(t, s + 1, kinds)' = Between(t, s + 1, kinds)
  BY DEF Between
<1>4. \A n \in Between(t, s + 1, {"topic", "start", "cancel"}) : answer'[n] # "ok"
  <2> SUFFICES ASSUME NEW n \in Between(t, s + 1, {"topic", "start", "cancel"}) PROVE answer'[n] # "ok"
    OBVIOUS
  <2>1. n \in (t + 1) .. (s + 1 - 1) /\ posted[n] \in {"topic", "start", "cancel"} /\ answer[n] # "ok"
    BY DEF Between, Confirmed, AcceptedOf
  <2>2. CASE n = s
    <3>1. t # s
      BY <2>1, <2>2, <1>1
    <3> QED BY <1>1, <2>1, <2>2, <3>1
  <2> QED BY <1>1, <2>1, <2>2
<1>5. \A n \in Between(t, s + 1, Choices) : answer'[n] = "ok" => posted[n] \in opts
  BY <1>1 DEF Between, Confirmed, AcceptedOf, KindsOf
<1>6. AcceptedOf(Between(t, s + 1, {"topic", "start", "cancel"}))' = {}
  BY <1>3, <1>4 DEF AcceptedOf
<1>7. KindsOf(AcceptedOf(Between(t, s + 1, Choices)))' \subseteq opts
  BY <1>3, <1>5 DEF AcceptedOf, KindsOf
<1>8. opts \subseteq KindsOf(Between(t, s + 1, Choices))'
  BY <1>3 DEF Confirmed, KindsOf
<1> QED BY <1>1, <1>2, <1>6, <1>7, <1>8 DEF Confirmed

(* Jobs keep what was confirmed of them: their commands are answered or the   *)
(* last message.                                                             *)
LEMMA JobsStay ==
    ASSUME CInv, ~hasty, Messages \subseteq Messages',
           \A n \in Messages : posted'[n] = posted[n],
           \A n \in Messages : n < Len(posted) => answer'[n] = answer[n],
           DOMAIN jobs' = DOMAIN jobs,
           \A i \in DOMAIN jobs : /\ jobs'[i].source = jobs[i].source
                                  /\ jobs'[i].topic = jobs[i].topic
                                  /\ jobs'[i].opts = jobs[i].opts
    PROVE  JobsConfirmed'
<1> SUFFICES ASSUME NEW i \in DOMAIN jobs, posted'[jobs[i].source] = "start"
             PROVE  Confirmed(jobs[i].topic, jobs[i].opts, jobs[i].source)'
  BY DEF JobsConfirmed
<1> DEFINE s == jobs[i].source
<1>1. Len(posted) \in Nat /\ DOMAIN jobs = 1 .. Len(jobs)
  BY RowsKnown DEF CInv, IInv, Typed, MessagesTyped
<1>2. s \in Messages /\ s \in Nat
  <2>1. i \in 1 .. Len(jobs)
    BY <1>1
  <2>2. s \in claimed /\ claimed \subseteq Messages
    BY <2>1 DEF CInv, IInv, ClaimedOnce, Typed, MessagesTyped
  <2>3. s \in Messages
    BY <2>2
  <2> QED BY <1>1, <2>3 DEF Messages
<1>3. Confirmed(jobs[i].topic, jobs[i].opts, s)
  BY <1>2 DEF CInv, Calm, JobsConfirmed
<1>4. \A n \in Messages : n < s => posted'[n] = posted[n] /\ answer'[n] = answer[n]
  BY <1>1, <1>2 DEF Messages
<1>5. s <= Len(posted) + 1
  BY <1>1, <1>2 DEF Messages
<1>6. \A t, opts : Confirmed(t, opts, s) => Confirmed(t, opts, s)'
  BY <1>2, <1>4, <1>5, StaysConfirmed DEF CInv, IInv
<1> QED BY <1>3, <1>6

(* Confirmations are about messages and answers only.                        *)
LEMMA SameConfirmed ==
    ASSUME UNCHANGED <<posted, answer>>
    PROVE  \A t, opts, s : Confirmed(t, opts, s) => Confirmed(t, opts, s)'
<1> SUFFICES ASSUME NEW t, NEW opts, NEW s, Confirmed(t, opts, s)
             PROVE  Confirmed(t, opts, s)'
  OBVIOUS
<1> QED BY DEF Confirmed, Between, AcceptedOf, KindsOf, Messages

(* Drafts whose topic and options stay are confirmed as before.              *)
LEMMA DraftsStay ==
    ASSUME CInv, ~hasty, UNCHANGED <<posted, drafts, answer>>
    PROVE  DraftsConfirmed'
<1>1. Active' = Active /\ Messages' = Messages
  BY DEF Active, Messages
<1>2. \A d \in Active : Confirmed(drafts[d].topic, drafts[d].opts, Len(posted) + 1)'
  BY DEF CInv, Calm, DraftsConfirmed, Confirmed, Between, AcceptedOf, KindsOf, Messages
<1> QED BY <1>1, <1>2 DEF DraftsConfirmed

(* A step of a worker that changes no draft and no answer disturbs no other.  *)
LEMMA WorkMoved ==
    ASSUME CInv, ~hasty, NEW w \in Workers, NEW local, Goes(w, local),
           UNCHANGED <<posted, drafts, answer>>, WorkFits(w)'
    PROVE  \A v \in Workers : WorkFits(v)'
<1> SUFFICES ASSUME NEW v \in Workers, v # w PROVE WorkFits(v)'
  OBVIOUS
<1>1. worker'[v] = worker[v] /\ WorkFits(v)
  BY DEF Goes, CInv, IInv, Typed, WorkersTyped, Calm
<1>2. Active' = Active
  BY DEF Active
<1>3. At(v, "create") /\ Kind(v) = "start" /\ worker[v].draft # 0 =>
        Confirmed(drafts[worker[v].draft].topic, worker[v].opts, worker[v].msg)'
      \/ ~Confirmed(drafts[worker[v].draft].topic, worker[v].opts, worker[v].msg)
  BY <1>1 DEF Confirmed, Between, AcceptedOf, KindsOf, Messages
<1> QED BY <1>1, <1>2, <1>3 DEF WorkFits, At, Kind, Ready

(* A worker at work leaves the others, that are not, as they are.            *)
LEMMA OthersRest ==
    ASSUME CInv, ~hasty, NEW w \in Workers, Busy(w), NEW local, Goes(w, local), WorkFits(w)'
    PROVE  \A v \in Workers : WorkFits(v)'
<1> SUFFICES ASSUME NEW v \in Workers, v # w PROVE WorkFits(v)'
  OBVIOUS
<1>1. worker'[v] = worker[v] /\ ~Busy(v)
  BY OneAtWork DEF Goes, CInv, IInv, Typed, WorkersTyped
<1> QED BY <1>1 DEF WorkFits, Busy, At, Ready, Before, After

(* What a step of a user who still waits leaves.                            *)
CalmAfter == DraftsConfirmed' /\ JobsConfirmed' /\ \A w \in Workers : WorkFits(w)'

(* A step that changes none of the tables but where a worker is.             *)
LEMMA MovedCalm ==
    ASSUME CInv, ~hasty, NEW w \in Workers, NEW local, Goes(w, local),
           UNCHANGED <<posted, drafts, jobs, answer>>, WorkFits(w)'
    PROVE  CalmAfter
<1>1. DraftsConfirmed'
  BY DraftsStay
<1>2. JobsConfirmed'
  BY JobsStay DEF Messages
<1>3. \A v \in Workers : WorkFits(v)'
  BY WorkMoved
<1> QED BY <1>1, <1>2, <1>3 DEF CalmAfter

(* A new topic makes a draft with the default options.                       *)
LEMMA DraftMadeCalm == ASSUME CInv, ~hasty, NEW w \in Workers, DraftMade(w) PROVE CalmAfter
<1> USE DEF CInv, IInv, user, tables
<1>1. /\ Busy(w) /\ Goes(w, Says(w, "ok")) /\ worker[w] \in Locals
      /\ UNCHANGED <<posted, jobs, answer>>
  BY LocalsKnown DEF DraftMade, Busy, At, Before
<1>2. Kind(w) = "topic" /\ worker[w].opts = {} /\ "topic" \notin Choices
  BY ChoicesAssumption DEF KindsFit, DraftMade
<1>3. worker[w].msg = Len(posted) /\ worker[w].msg \in Messages /\ Len(posted) \in Nat
  BY <1>1, OneAtWork
<1> DEFINE new == Len(drafts) + 1
<1>4. /\ \A d \in Active' : d = new
      /\ drafts'[new] = NewDraft(w)
  BY DraftMadeDrafts
<1>5. drafts'[new].topic = worker[w].msg /\ drafts'[new].opts = {}
  BY <1>2, <1>4 DEF NewDraft
<1>6. Confirmed(worker[w].msg, {}, Len(posted) + 1)
  BY <1>2, <1>3, FreshConfirmed DEF Kind
<1>7. \A d \in Active' : drafts'[d].topic = worker[w].msg /\ drafts'[d].opts = {}
  BY <1>4, <1>5
<1> HIDE DEF new
<1>8. DraftsConfirmed'
  BY <1>1, <1>6, <1>7, SameConfirmed DEF DraftsConfirmed
<1>9. JobsConfirmed'
  BY <1>1, JobsStay DEF Messages
<1>10. WorkFits(w)'
  <2>1. worker'[w] = Says(w, "ok")
    BY <1>1 DEF Goes, Typed, WorkersTyped
  <2>2. worker'[w].msg = worker[w].msg /\ worker'[w].at = "reply" /\ Kind(w)' = "topic"
    BY <1>1, <1>2, <2>1 DEF Says, Locals, Kind
  <2> QED BY <1>2, <1>7, <2>2 DEF WorkFits, At, Ready
<1>11. \A v \in Workers : WorkFits(v)'
  BY <1>1, <1>10, OthersRest
<1> QED BY <1>8, <1>9, <1>11 DEF CalmAfter

(* A choice applied is one asked for, and the draft knows it.                *)
LEMMA OptionsUpdatedCalm == ASSUME CInv, ~hasty, NEW w \in Workers, OptionsUpdated(w) PROVE CalmAfter
<1> USE DEF user, tables
<1>0. Typed /\ OneDraft /\ worker[w] \in Locals /\ WorkFits(w) /\ KindsFit(w)
  BY LocalsKnown DEF CInv, IInv, Calm
<1>1. /\ Busy(w) /\ Goes(w, Says(w, "ok")) /\ UNCHANGED <<posted, jobs, answer>>
  BY DEF OptionsUpdated, Busy, At, Before
<1> DEFINE d == worker[w].draft
           opts == Chosen(worker[w].opts, Kind(w))
<1>2. /\ Kind(w) \in Choices /\ d \in Active /\ worker[w].opts = drafts[d].opts
      /\ "start" \notin Choices /\ "cancel" \notin Choices /\ "topic" \notin Choices
  BY <1>0, ChoicesAssumption DEF KindsFit, WorkFits, OptionsUpdated, At
<1>3. /\ worker[w].msg = Len(posted) /\ worker[w].msg \in Messages /\ Len(posted) \in Nat
      /\ posted[Len(posted)] = Kind(w)
  BY <1>1, OneAtWork DEF Kind
<1>4. /\ d \in DOMAIN drafts /\ drafts[d] \in Draft /\ drafts[d].topic \in Nat
      /\ \A e \in Active : e = d
  BY <1>0, <1>2, RowsKnown, DraftFields DEF Active, OneDraft
<1>5. drafts' = [drafts EXCEPT ![d].opts = opts]
  BY <1>2 DEF OptionsUpdated
<1>6. Confirmed(drafts[d].topic, drafts[d].opts, Len(posted) + 1)
  BY <1>2 DEF CInv, Calm, DraftsConfirmed
<1>7. opts = drafts[d].opts \union {Kind(w)}
  BY <1>2 DEF Chosen
<1>8. Confirmed(drafts[d].topic, opts, Len(posted) + 1)
  BY <1>2, <1>3, <1>4, <1>6, <1>7, ChoiceConfirmed
<1> HIDE DEF d, opts
<1>9. /\ DOMAIN drafts' = DOMAIN drafts /\ \A e \in DOMAIN drafts \ {d} : drafts'[e] = drafts[e]
      /\ drafts'[d].opts = opts /\ drafts'[d].topic = drafts[d].topic
  BY <1>4, <1>5 DEF Draft
<1>10. \A e \in Active' : e = d
  BY <1>4, <1>9 DEF Active
<1>11. DraftsConfirmed'
  BY <1>1, <1>8, <1>9, <1>10, SameConfirmed DEF DraftsConfirmed
<1>12. JobsConfirmed'
  BY <1>1, JobsStay DEF Messages
<1>13. WorkFits(w)'
  <2>1. worker'[w] = Says(w, "ok")
    BY <1>0, <1>1 DEF Goes, Typed, WorkersTyped
  <2>2. worker'[w].msg = worker[w].msg /\ worker'[w].at = "reply" /\ Kind(w)' = Kind(w)
    BY <1>0, <1>1, <2>1 DEF Says, Locals, Kind
  <2>3. \A e \in Active' : Kind(w)' \in drafts'[e].opts
    BY <1>7, <1>9, <1>10, <2>2
  <2> QED BY <1>2, <2>2, <2>3 DEF WorkFits, At, Ready
<1>14. \A v \in Workers : WorkFits(v)'
  BY <1>1, <1>13, OthersRest
<1> QED BY <1>11, <1>12, <1>14 DEF CalmAfter

(* A draft that ends leaves none, and takes what was confirmed to its job.    *)
LEMMA DraftClosedCalm == ASSUME CInv, ~hasty, NEW w \in Workers, DraftClosed(w) PROVE CalmAfter
<1> USE DEF user, tables
<1>0. Typed /\ OneDraft /\ worker[w] \in Locals /\ WorkFits(w) /\ KindsFit(w)
  BY LocalsKnown DEF CInv, IInv, Calm
<1>1. /\ Busy(w) /\ UNCHANGED <<posted, jobs, answer>>
      /\ \/ Kind(w) = "start" /\ GoTo(w, "create")
         \/ Kind(w) # "start" /\ Goes(w, Says(w, "ok"))
  BY DEF DraftClosed, Busy, At, Before
<1> DEFINE d == worker[w].draft
<1>2. /\ Kind(w) \in {"start", "cancel"} /\ d \in Active /\ worker[w].opts = drafts[d].opts
      /\ Kind(w) \notin Choices /\ Kind(w) # "topic"
  BY <1>0, ChoicesAssumption DEF KindsFit, WorkFits, DraftClosed, At
<1>3. /\ worker[w].msg = Len(posted) /\ worker[w].msg \in Messages /\ Len(posted) \in Nat
      /\ posted[Len(posted)] = Kind(w)
  BY <1>1, OneAtWork DEF Kind
<1>4. /\ d \in DOMAIN drafts /\ drafts[d] \in Draft /\ drafts[d].topic \in Nat
      /\ d # 0 /\ \A e \in Active : e = d
  <2>1. d \in DOMAIN drafts /\ \A e \in Active : e = d
    BY <1>0, <1>2 DEF Active, OneDraft
  <2>2. d \in 1 .. Len(drafts) /\ Len(drafts) \in Nat /\ drafts[d] \in Draft
    BY <1>0, <2>1, RowsKnown
  <2> HIDE DEF d
  <2>3. d # 0
    BY ONLY <2>2
  <2>4. drafts[d].topic \in Nat
    BY ONLY <2>2 DEF Draft
  <2> QED BY <2>1, <2>2, <2>3, <2>4
<1>5. PICK status \in {"submitted", "cancelled"} : drafts' = [drafts EXCEPT ![d].status = status]
  BY DEF DraftClosed, Ended
<1>6. Confirmed(drafts[d].topic, worker[w].opts, Len(posted) + 1)
  BY <1>2 DEF CInv, Calm, DraftsConfirmed
<1> HIDE DEF d
<1>7. /\ DOMAIN drafts' = DOMAIN drafts /\ \A e \in DOMAIN drafts \ {d} : drafts'[e] = drafts[e]
      /\ drafts'[d].status # "active" /\ drafts'[d].topic = drafts[d].topic
  BY <1>4, <1>5 DEF Draft
<1>8. Active' = {}
  BY <1>4, <1>7 DEF Active
<1>9. DraftsConfirmed'
  BY <1>8 DEF DraftsConfirmed
<1>10. JobsConfirmed'
  BY <1>1, JobsStay DEF Messages
<1>11. CASE Kind(w) # "start"
  <2>1. worker'[w] = Says(w, "ok") /\ Goes(w, Says(w, "ok"))
    BY <1>0, <1>1, <1>11 DEF Goes, Typed, WorkersTyped
  <2>2. worker'[w].at = "reply"
    BY <1>0, <2>1 DEF Says, Locals
  <2>3. WorkFits(w)'
    BY <1>8, <2>2 DEF WorkFits, At
  <2>4. \A v \in Workers : WorkFits(v)'
    BY <1>1, <2>1, <2>3, OthersRest
  <2> QED BY <1>9, <1>10, <2>4 DEF CalmAfter
<1>12. CASE Kind(w) = "start"
  <2> DEFINE local == [worker[w] EXCEPT !.at = "create"]
  <2>1. worker'[w] = local /\ Goes(w, local)
    BY <1>0, <1>1, <1>12 DEF GoTo, Goes, Typed, WorkersTyped
  <2>2. /\ worker'[w].at = "create" /\ worker'[w].draft = d /\ worker'[w].msg = worker[w].msg
        /\ worker'[w].opts = worker[w].opts
    BY <1>0, <2>1 DEF Locals, d
  <2>3. Confirmed(drafts[d].topic, worker[w].opts, Len(posted))
    BY <1>3, <1>4, <1>6, <1>12, OneLess
  <2>4. Confirmed(drafts[worker[w].draft].topic, worker[w].opts, worker[w].msg)'
    BY <1>1, <1>3, <1>7, <2>2, <2>3, SameConfirmed
  <2> HIDE DEF local
  <2>5. WorkFits(w)'
    BY <1>4, <1>8, <2>2, <2>4 DEF WorkFits, At, Ready
  <2>6. \A v \in Workers : WorkFits(v)'
    BY <1>1, <2>1, <2>5, OthersRest
  <2> QED BY <1>9, <1>10, <2>6 DEF CalmAfter
<1> QED BY <1>11, <1>12

(* The job of a reply is of the draft that was closed for it.                *)
LEMMA JobCreatedCalm == ASSUME CInv, ~hasty, NEW w \in Workers, JobCreated(w) PROVE CalmAfter
<1> USE DEF user, tables
<1>0. /\ Typed /\ worker[w] \in Locals /\ WorkFits(w) /\ KindsFit(w)
      /\ Len(jobs) \in Nat /\ DOMAIN jobs = 1 .. Len(jobs)
  BY LocalsKnown, RowsKnown DEF CInv, IInv, Calm
<1>1. Busy(w) /\ UNCHANGED <<posted, drafts, answer>>
  BY DEF JobCreated, Busy, At, Before
<1>2. Kind(w) \in {"command", "start"} /\ Kind(w) \notin Choices
  BY <1>0, ChoicesAssumption DEF KindsFit, JobCreated, At
<1>3. worker[w].msg = Len(posted) /\ worker[w].msg \in Messages /\ Len(posted) \in Nat
  BY <1>1, OneAtWork
<1> DEFINE next == IF "monitor" \in worker[w].opts THEN "register" ELSE "submit"
           local == [worker[w] EXCEPT !.job = Len(jobs) + 1, !.at = next]
           new == Len(jobs) + 1
<1>4. Goes(w, local) /\ worker'[w] = local /\ next \in {"register", "submit"}
  BY <1>0 DEF JobCreated, Goes, Typed, WorkersTyped
<1>5. local.at = next /\ local.msg = worker[w].msg
  BY <1>0 DEF Locals
<1>6. /\ Len(jobs') = new /\ jobs'[new] = NewJob(w)
      /\ \A j \in 1 .. Len(jobs) : jobs'[j] = jobs[j]
      /\ DOMAIN jobs' = 1 .. new /\ 1 .. new = (1 .. Len(jobs)) \union {new}
  BY <1>0, AppendProperties DEF JobCreated, Typed, TablesTyped
<1>7. /\ NewJob(w).source = worker[w].msg /\ NewJob(w).opts = worker[w].opts
      /\ worker[w].draft # 0 => NewJob(w).topic = drafts[worker[w].draft].topic
  BY DEF NewJob
<1> HIDE DEF local, next, new
<1>8. DraftsConfirmed'
  BY <1>1, DraftsStay
<1>9. JobsConfirmed'
  <2>1. ASSUME NEW i \in 1 .. Len(jobs), posted[jobs[i].source] = "start"
        PROVE  Confirmed(jobs[i].topic, jobs[i].opts, jobs[i].source)
    BY <1>0, <2>1 DEF CInv, Calm, JobsConfirmed
  <2>2. ASSUME posted[worker[w].msg] = "start"
        PROVE  Confirmed(NewJob(w).topic, NewJob(w).opts, NewJob(w).source)
    BY <1>0, <1>7, <2>2 DEF WorkFits, JobCreated, At, Kind
  <2>3. \A i \in DOMAIN jobs' : posted'[jobs'[i].source] = "start" =>
           Confirmed(jobs'[i].topic, jobs'[i].opts, jobs'[i].source)
    BY <1>1, <1>6, <1>7, <2>1, <2>2
  <2>4. UNCHANGED <<posted, answer>>
    BY <1>1
  <2> QED BY ONLY <2>3, <2>4, SameConfirmed DEF JobsConfirmed
<1>10. WorkFits(w)'
  <2>1. worker'[w].at \in {"register", "submit"} /\ Kind(w)' = Kind(w) /\ Active' = Active
    BY <1>1, <1>4, <1>5 DEF Kind, Active
  <2>2. Kind(w) \in {"start", "cancel"} => Active = {}
    BY <1>0 DEF WorkFits, JobCreated, At
  <2> QED BY <2>1, <2>2 DEF WorkFits, At, Ready
<1>11. \A v \in Workers : WorkFits(v)'
  BY <1>1, <1>4, <1>10, WorkMoved
<1> QED BY <1>8, <1>9, <1>11 DEF CalmAfter

(* Nobody else touches the draft while a reply to it is handled.             *)
LEMMA DraftReadCalm == ASSUME CInv, ~hasty, NEW w \in Workers, DraftRead(w) PROVE CalmAfter
<1> USE DEF user, tables
<1>0. Typed /\ worker[w] \in Locals /\ UNCHANGED <<posted, drafts, jobs, answer>>
  BY LocalsKnown DEF CInv, IInv, DraftRead
<1>1. CASE Active = {}
  <2>1. Goes(w, Says(w, "no draft")) /\ worker'[w] = Says(w, "no draft")
    BY <1>0, <1>1 DEF DraftRead, Goes, Typed, WorkersTyped
  <2>2. worker'[w].at = "reply" /\ worker'[w].says = "no draft"
    BY <1>0, <2>1 DEF Says, Locals
  <2>3. WorkFits(w)'
    BY <2>2 DEF WorkFits, At, Ready
  <2> QED BY <1>0, <2>1, <2>3, MovedCalm
<1>2. CASE Active # {}
  <2> DEFINE at == IF Kind(w) \in {"start", "cancel"} THEN "close" ELSE "update"
             local(d) == [worker[w] EXCEPT !.draft = d, !.opts = drafts[d].opts, !.at = at]
  <2>1. PICK d \in Active : Goes(w, local(d))
    BY <1>2 DEF DraftRead
  <2>2. worker'[w] = local(d)
    BY <1>0, <2>1 DEF Goes, Typed, WorkersTyped
  <2>3. /\ worker'[w].at \in {"close", "update"} /\ worker'[w].draft = d
        /\ worker'[w].opts = drafts[d].opts
    BY <1>0, <2>2 DEF Locals
  <2>4. Active' = Active
    BY <1>0 DEF Active
  <2> HIDE DEF local
  <2>5. WorkFits(w)'
    BY <1>0, <2>3, <2>4 DEF WorkFits, At, Ready
  <2> QED BY <1>0, <2>1, <2>5, MovedCalm
<1> QED BY <1>1, <1>2

(* A message just claimed has done nothing yet.                              *)
LEMMA ClaimCalm == ASSUME CInv, ~hasty, NEW w \in Workers, Claim(w) PROVE CalmAfter
<1> USE DEF user, tables
<1>0. Typed /\ worker[w] \in Locals /\ UNCHANGED <<posted, drafts, jobs, answer>> /\ Kind(w) \in Kinds
  BY LocalsKnown DEF CInv, IInv, Claim, At
<1>1. CASE worker[w].msg \in claimed
  <2>1. Goes(w, Idle) /\ worker'[w].at = "idle"
    BY <1>0, <1>1 DEF Claim, Goes, Typed, WorkersTyped, Idle
  <2>2. WorkFits(w)'
    BY <2>1 DEF WorkFits, At, Ready
  <2> QED BY <1>0, <2>1, <2>2, MovedCalm
<1>2. CASE worker[w].msg \notin claimed
  <2> DEFINE local == [worker[w] EXCEPT !.at = Routed(Kind(w)), !.says = "ok",
                                        !.opts = Parsed(Kind(w))]
  <2>1. Goes(w, local) /\ worker'[w] = local
    BY <1>0, <1>2 DEF Claim, Goes, Typed, WorkersTyped
  <2>2. worker'[w].at = Routed(Kind(w)) /\ worker'[w].msg = worker[w].msg
    BY <1>0, <2>1 DEF Locals
  <2>3. Kind(w)' = Kind(w)
    BY <1>0, <2>2 DEF Kind
  <2> HIDE DEF local
  <2>4. /\ worker'[w].at = "create" => Kind(w)' = "command"
        /\ worker'[w].at = "reply" => Kind(w)' = "other"
        /\ worker'[w].at \in {"upsert", "create", "reply", "read"}
    BY <1>0, <2>2, <2>3 DEF Routed, Kinds
  <2>5. "other" \notin Choices
    BY ChoicesAssumption
  <2>6. WorkFits(w)'
    BY <2>4, <2>5 DEF WorkFits, At, Ready
  <2> QED BY <1>0, <2>1, <2>6, MovedCalm
<1> QED BY <1>1, <1>2

(* What is accepted of the last message, the draft has in it.                *)
LEMMA ReplyCalm == ASSUME CInv, ~hasty, NEW w \in Workers, Reply(w) PROVE CalmAfter
<1> USE DEF user, tables
<1>0. Typed /\ worker[w] \in Locals /\ WorkFits(w)
  BY LocalsKnown DEF CInv, IInv, Calm
<1>1. /\ Busy(w) /\ Goes(w, Idle) /\ UNCHANGED <<posted, drafts, jobs>>
      /\ answer' = [answer EXCEPT ![worker[w].msg] = worker[w].says]
  BY DEF Reply, Busy, At, After
<1>2. worker[w].msg = Len(posted) /\ worker[w].msg \in Messages /\ Len(posted) \in Nat
  BY <1>1, OneAtWork
<1>3. ASSUME NEW d \in Active PROVE Confirmed(drafts[d].topic, drafts[d].opts, Len(posted) + 1)'
  <2>1. drafts[d].topic \in Nat /\ drafts'[d] = drafts[d] /\ posted' = posted
    BY <1>0, <1>1, RowsKnown, DraftFields DEF Active
  <2>2. Confirmed(drafts[d].topic, drafts[d].opts, worker[w].msg + 1)
    BY <1>2 DEF CInv, Calm, DraftsConfirmed
  <2>3. /\ worker[w].says = "ok" /\ posted[worker[w].msg] \in {"topic", "start", "cancel"}
             => drafts[d].topic = worker[w].msg
        /\ worker[w].says = "ok" /\ posted[worker[w].msg] \in Choices
             => posted[worker[w].msg] \in drafts[d].opts
    BY <1>0 DEF WorkFits, Ready, Reply, Kind
  <2>4. PICK t, opts, s, text : /\ t = drafts[d].topic /\ opts = drafts[d].opts
                                /\ s = worker[w].msg /\ text = worker[w].says
    OBVIOUS
  <2>5. /\ t \in Nat /\ s \in Messages /\ Confirmed(t, opts, s + 1)
        /\ answer' = [answer EXCEPT ![s] = text] /\ posted' = posted
        /\ text = "ok" /\ posted[s] \in {"topic", "start", "cancel"} => t = s
        /\ text = "ok" /\ posted[s] \in Choices => posted[s] \in opts
    BY <1>1, <1>2, <2>1, <2>2, <2>3, <2>4
  <2>6. Confirmed(t, opts, s + 1)'
    BY ONLY <1>0, <2>5, RepliedConfirmed
  <2> QED BY <1>2, <2>1, <2>4, <2>6
<1>4. DraftsConfirmed'
  BY <1>1, <1>3 DEF DraftsConfirmed, Active
<1>5. \A n \in Messages : n < Len(posted) => answer'[n] = answer[n]
  BY <1>1, <1>2 DEF Messages
<1>6. JobsConfirmed'
  BY <1>1, <1>5, JobsStay DEF Messages
<1>7. WorkFits(w)'
  <2>1. worker'[w].at = "idle"
    BY <1>0, <1>1 DEF Goes, Idle, Typed, WorkersTyped
  <2> QED BY <2>1 DEF WorkFits, At, Ready
<1>8. \A v \in Workers : WorkFits(v)'
  BY <1>1, <1>7, OthersRest
<1> QED BY <1>4, <1>6, <1>8 DEF CalmAfter

(* A worker sent away from a message, or told that something failed.         *)
LEMMA UnreadyCalm ==
    ASSUME CInv, ~hasty, NEW w \in Workers, NEW local, Goes(w, local),
           UNCHANGED <<posted, drafts, jobs, answer>>,
           local.at \in {"idle", "claim"} \/ (local.at = "reply" /\ local.says # "ok")
    PROVE  CalmAfter
<1>1. worker'[w] = local
  BY DEF Goes, CInv, IInv, Typed, WorkersTyped
<1>2. WorkFits(w)'
  BY <1>1 DEF WorkFits, At, Ready
<1> QED BY <1>2, MovedCalm

(* What is recorded of a job is not what was confirmed of it.                *)
LEMMA JobMarkedCalm ==
    ASSUME CInv, ~hasty, NEW w \in Workers, MonitorAsked(w) \/ JobSubmitted(w)
    PROVE  CalmAfter
<1> USE DEF user, tables
<1>0. Typed /\ worker[w] \in Locals /\ WorkFits(w) /\ KindsFit(w)
  BY LocalsKnown DEF CInv, IInv, Calm
<1>1. Busy(w) /\ UNCHANGED <<posted, drafts, answer>> /\ worker[w].at \in {"register", "submit"}
  BY DEF MonitorAsked, JobSubmitted, Busy, At, After
<1>2. Kind(w) \in {"command", "start"} /\ Kind(w) \notin Choices
  BY <1>0, <1>1, ChoicesAssumption DEF KindsFit
<1>3. Kind(w) = "start" => Active = {}
  BY <1>0, <1>1 DEF WorkFits
<1>4. /\ DOMAIN jobs' = DOMAIN jobs
      /\ \A i \in DOMAIN jobs : /\ jobs'[i].source = jobs[i].source
                                /\ jobs'[i].topic = jobs[i].topic
                                /\ jobs'[i].opts = jobs[i].opts
  <2>1. \A i \in DOMAIN jobs : jobs[i] \in Job
    BY <1>0, RowsKnown
  <2> QED BY <2>1 DEF MonitorAsked, JobSubmitted, Job
<1>5. JobsConfirmed'
  BY <1>1, <1>4, JobsStay DEF Messages
<1>6. PICK local : /\ Goes(w, local) /\ local.msg = worker[w].msg
                   /\ local.at \in {"submit", "reply"}
  <2>1. /\ [worker[w] EXCEPT !.at = "submit"].msg = worker[w].msg
        /\ [worker[w] EXCEPT !.at = "submit"].at = "submit"
    BY <1>0 DEF Locals
  <2>2. \A text : Says(w, text).msg = worker[w].msg /\ Says(w, text).at = "reply"
    BY <1>0 DEF Locals, Says
  <2> QED BY <2>1, <2>2 DEF MonitorAsked, JobSubmitted, GoTo
<1>7. worker'[w] = local
  BY <1>0, <1>6 DEF Goes, Typed, WorkersTyped
<1>8. Kind(w)' = Kind(w) /\ Active' = Active
  BY <1>1, <1>6, <1>7 DEF Kind, Active
<1>9. WorkFits(w)'
  BY <1>2, <1>3, <1>6, <1>7, <1>8 DEF WorkFits, At, Ready
<1>10. \A v \in Workers : WorkFits(v)'
  BY <1>1, <1>6, <1>9, WorkMoved
<1>11. DraftsConfirmed'
  BY <1>1, DraftsStay
<1> QED BY <1>5, <1>10, <1>11 DEF CalmAfter

(* A crash forgets what the workers were at, and nothing else.               *)
LEMMA CrashCalm == ASSUME CInv, ~hasty, Crash PROVE CalmAfter
<1> USE DEF user, tables
<1>1. UNCHANGED <<posted, drafts, jobs, answer>> /\ \A w \in Workers : worker'[w].at = "idle"
  BY DEF Crash, Idle
<1>2. DraftsConfirmed'
  BY <1>1, DraftsStay
<1>3. JobsConfirmed'
  BY <1>1, JobsStay DEF Messages
<1>4. \A w \in Workers : WorkFits(w)'
  BY <1>1 DEF WorkFits, At, Ready
<1> QED BY <1>2, <1>3, <1>4 DEF CalmAfter

(* A user who waits posts when nobody is at work.                            *)
LEMMA PostCalm == ASSUME CInv, ~hasty', Post PROVE CalmAfter
<1> USE DEF user, tables
<1>0. Typed /\ Len(posted) \in Nat /\ Len(answer) = Len(posted) /\ answer \in Seq(Texts \union {"none"})
  BY DEF CInv, IInv, Typed, MessagesTyped
<1>1. /\ ~hasty /\ \A n \in Messages : answer[n] # "none"
      /\ answer' = Append(answer, "none") /\ UNCHANGED <<worker, drafts, jobs>>
  BY DEF Post
<1>2. PICK s \in Scripts : /\ Len(posted) < Len(s) /\ posted = SubSeq(s, 1, Len(posted))
                           /\ posted' = SubSeq(s, 1, Len(posted) + 1)
  BY DEF Post
<1>3. /\ Len(posted') = Len(posted) + 1
      /\ \A n \in Messages : posted'[n] = posted[n]
  <2>1. s \in Seq(Kinds)
    BY ScriptsAssumption
  <2> QED BY <1>0, <1>2, <2>1, SubSeqProperties DEF Messages
<1>4. /\ \A n \in Messages : answer'[n] = answer[n]
      /\ answer'[Len(posted) + 1] = "none"
  BY <1>0, <1>1, AppendProperties DEF Messages
<1>5. Messages \subseteq Messages'
  BY <1>0, <1>3 DEF Messages
<1>6. ASSUME NEW w \in Workers PROVE ~Busy(w)
  BY <1>0, <1>1, LocalsKnown DEF CInv, AnsweredInTurn, LocalsFit, Busy, At, Before, After
<1>7. \A w \in Workers : WorkFits(w)'
  BY <1>1, <1>6 DEF WorkFits, At, Ready, Busy, Before, After
<1>8. JobsConfirmed'
  BY <1>1, <1>3, <1>4, <1>5, JobsStay
<1>9. DraftsConfirmed'
  <2> SUFFICES ASSUME NEW d \in Active
               PROVE  Confirmed(drafts[d].topic, drafts[d].opts, Len(posted) + 1)'
    BY <1>1, <1>3 DEF DraftsConfirmed, Active
  <2>1. Confirmed(drafts[d].topic, drafts[d].opts, Len(posted) + 1)
    BY <1>1 DEF CInv, Calm, DraftsConfirmed
  <2>2. drafts[d].topic \in Nat /\ drafts' = drafts
    BY <1>0, <1>1, RowsKnown, DraftFields DEF Active
  <2>3. PICK t, opts, n : t = drafts[d].topic /\ opts = drafts[d].opts /\ n = Len(posted) + 1
    OBVIOUS
  <2>4. /\ t \in Nat /\ n \in Nat /\ Confirmed(t, opts, n) /\ n <= Len(posted) + 1
        /\ \A m \in Messages : m < n => posted'[m] = posted[m] /\ answer'[m] = answer[m]
        /\ answer'[n] # "ok"
    BY <1>0, <1>3, <1>4, <2>1, <2>2, <2>3
  <2>5. Confirmed(t, opts, n)'
    BY ONLY <1>0, <1>5, <2>4, StaysConfirmed
  <2>6. Confirmed(t, opts, n + 1)'
    BY ONLY <2>4, <2>5, OneMore
  <2> QED BY <1>3, <2>2, <2>3, <2>6
<1> QED BY <1>7, <1>8, <1>9 DEF CalmAfter

LEMMA CalmStep == CInv /\ [Next]_vars => Calm'
<1> SUFFICES ASSUME CInv, [Next]_vars, ~hasty' PROVE CalmAfter
  BY DEF Calm, CalmAfter
<1> USE DEF user, tables
<1>1. CASE Post
  BY <1>1, PostCalm
<1>2. CASE ~Post
  <2>1. ~hasty
    BY <1>2 DEF Next, vars, Crash, Stop, StartAgain, DeliverFirst, Redeliver, Deliver, Dropped, Handle, Take, Claim,
                DraftMade, DraftRead, OptionsUpdated, DraftClosed, JobCreated, MonitorAsked,
                JobSubmitted, Reply, Raised, RaisedUnheard
  <2>2. CASE Crash
    BY <2>1, <2>2, CrashCalm
  <2>3. ASSUME UNCHANGED <<posted, worker, drafts, jobs, answer>> PROVE CalmAfter
    <3>1. DraftsConfirmed'
      BY <2>1, <2>3, DraftsStay
    <3>2. JobsConfirmed'
      BY <2>1, <2>3, JobsStay DEF Messages
    <3>3. ASSUME NEW w \in Workers PROVE WorkFits(w)'
      <4>1. WorkFits(w)
        BY <2>1 DEF CInv, Calm
      <4> QED BY <2>3, <4>1 DEF WorkFits, At, Ready, Kind, Active, Confirmed, Between,
                                AcceptedOf, KindsOf, Messages
    <3> QED BY <3>1, <3>2, <3>3 DEF CalmAfter
  <2>4. ASSUME NEW n, DeliverFirst(n) \/ Redeliver(n) \/ Dropped(n) PROVE CalmAfter
    BY <2>3, <2>4 DEF DeliverFirst, Redeliver, Deliver, Dropped
  <2>5. ASSUME NEW w \in Workers, Handle(w) \/ Raised(w) \/ RaisedUnheard(w) PROVE CalmAfter
    <3>1. CASE Take(w) \/ RaisedUnheard(w)
      <4>1. PICK local : /\ Goes(w, local) /\ local.at \in {"idle", "claim"}
                         /\ UNCHANGED <<posted, drafts, jobs, answer>>
        BY <3>1 DEF Take, RaisedUnheard, Idle
      <4> QED BY <2>1, <4>1, UnreadyCalm
    <3>2. CASE Raised(w)
      <4>1. worker[w] \in Locals
        BY LocalsKnown DEF CInv, IInv
      <4>2. Says(w, "failed").at = "reply" /\ Says(w, "failed").says = "failed"
        BY <4>1 DEF Says, Locals
      <4>3. Goes(w, Says(w, "failed")) /\ UNCHANGED <<posted, drafts, jobs, answer>>
        BY <3>2 DEF Raised
      <4> QED BY <2>1, <4>2, <4>3, UnreadyCalm
    <3>3. CASE MonitorAsked(w) \/ JobSubmitted(w)
      BY <2>1, <3>3, JobMarkedCalm
    <3> QED BY <2>1, <2>5, <3>1, <3>2, <3>3, DraftMadeCalm, OptionsUpdatedCalm, DraftClosedCalm,
               JobCreatedCalm, DraftReadCalm, ClaimCalm, ReplyCalm DEF Handle
  <2>6. CASE Stop \/ StartAgain \/ UNCHANGED vars
    BY <2>3, <2>6 DEF Stop, StartAgain, vars
  <2> QED BY <1>2, <2>2, <2>4, <2>5, <2>6 DEF Next
<1> QED BY <1>1, <1>2

(* For a user who waits for each answer, a job made by a reply to a draft is  *)
(* of the last topic accepted, no draft being used twice or after it was      *)
(* cancelled, and has all options accepted since and none but those asked for *)
(* since, whichever workers handle the replies and whatever raises, is lost   *)
(* in a crash or is delivered again: no worker finds its draft ended or       *)
(* changed by another, because no other is past its claim.                   *)
THEOREM JobsAsConfirmed == Spec => []AsConfirmed
<1>1. Init => CInv
  BY InitConfirmed
<1>2. CInv /\ [Next]_vars => CInv'
  <2>1. CInv /\ [Next]_vars => IInv'
    BY TypedStep, ClaimsStep, DraftsStep DEF CInv, IInv, Claims
  <2> QED BY <2>1, KindsStep, AnsweredStep, CalmStep DEF CInv
<1>3. CInv => AsConfirmed
  BY DEF CInv, Calm, JobsConfirmed, Confirmed, AsConfirmed
<1> QED BY <1>1, <1>2, <1>3, PTL DEF Spec
=============================================================================
