------------------------- MODULE ReportDeliveryProofs -------------------------
(***************************************************************************)
(* The analysis, the files and the messages of one report, for any plans,   *)
(* options, threads and retry policies and any number of attempts that      *)
(* raise, die or are given up.                                              *)
(***************************************************************************)
EXTENDS ReportDelivery, TLAPS

Acts == Kinds \union Closing
              \union {"select", "tools", "skills", "validate", "complete", "deliver", "fail"}
Analyses == {"tools", "skills"}
Sending == {"send", "sent", "unsent"}
Places == Sending \union {"none", "start", "plan", "task", "raised", "write", "row", "compile",
                          "unavailable", "stamp", "item", "listing", "except"}

Tasks == UNION {p["tools"] \union p["skills"] : p \in Plans}
Contents == SUBSET (Tasks \union {"none"})
Made == Contents \X Contents

Attempt == [act : Acts \union {"none"}, at : Places, nth : Int,
            todo : SUBSET (Tasks \union Items), made : Made]
Awaiting == [left : Int, by : Threads \union {"queue", "done", "failed"}]

(* What the workflow awaits, in its order, and when it has failed.           *)
Phases == {{"select"}, {"tools", "skills"}, {"json"}, {"charts", "latex"}, {"pdf", "xlsx"},
           {"validate"}, {"complete"}, {"register"}, {"announce"}, {"deliver"}, {"finish"},
           {"fail"}}

-----------------------------------------------------------------------------
(* The invariant. *)

TasksTyped == /\ \E acts \in Phases : task \in [acts -> Awaiting]
              /\ thread \in [Threads -> Attempt]

AnalysisTyped == /\ plan \in Plans \union {[tools |-> {}, skills |-> {}]}
                 /\ result \in SUBSET Tasks
                 /\ runs \in [Analyses -> {"none", "running", "completed", "failed"}]

FilesTyped == /\ file \in [Kinds -> Made] /\ stamp \in Made
              /\ row \in [Kinds -> [status : {"none", "ready", "failed"}, made : Made]]

MessagesTyped ==
    /\ delivery \in [Items -> {"none", "sending", "sent", "failed", "rejected"}]
    /\ told \in {"none", "sent", "failed"} /\ sent \in [Items -> Nat]
    /\ doubled \in SUBSET Items /\ cut \in SUBSET Items
    /\ job \in {"running", "completed", "failed"} /\ deliverables \in Options

TypeOK == TasksTyped /\ AnalysisTyped /\ FilesTyped /\ MessagesTyped

(* The plan is made before anything else, and then stays.                    *)
PlannedFirst ==
    "select" \in DOMAIN task =>
        /\ \A t \in Threads : thread[t].act \in {"none", "select"}
        /\ result = {} /\ \A k \in Kinds : file[k] = NoFile /\ row[k] = NoRow

(* An analysis misses no result it was asked for.                            *)
Analysed ==
    /\ result \subseteq Results
    /\ \A t \in Threads :
           thread[t].act \in Analyses /\ thread[t].at = "task" =>
               /\ thread[t].todo \subseteq Selected(thread[t].act)
               /\ Selected(thread[t].act) \subseteq result \union thread[t].todo
    /\ \A a \in Analyses \intersect DOMAIN task :
           task[a].by = "done" => Selected(a) \subseteq result

(* Nothing is made of the results before they are complete, so everything is *)
(* made of the same.                                                         *)
Final == Acts \ (Analyses \union {"select", "fail"})

FinalResults ==
    /\ DOMAIN task \intersect Final # {} => Results \subseteq result
    /\ \A t \in Threads : thread[t].act \in Final => Results \subseteq result

Good(k) == IF k = "pdf" THEN <<Results, Results>> ELSE <<Results, None>>

ChartsMade ==
    /\ "charts" \in DOMAIN task /\ task["charts"].by = "done" => file["charts"] = Good("charts")
    /\ DOMAIN task = {"pdf", "xlsx"} => file["charts"] = Good("charts")
    /\ \A t \in Threads : thread[t].act = "pdf" => file["charts"] = Good("charts")

Rendered(t) ==
    thread[t].act \in Kinds =>
        /\ thread[t].at = "write" => thread[t].made = <<Results, None>>
        /\ thread[t].at \in {"compile", "stamp", "row"} => thread[t].made = Good(thread[t].act)
        /\ thread[t].at \in {"compile", "unavailable", "stamp"} => thread[t].act = "pdf"
        /\ thread[t].at \in {"stamp", "row"} => file[thread[t].act] = Good(thread[t].act)

FilesGood ==
    /\ \A k \in Kinds : /\ file[k] \in {NoFile, Good(k)}
                        /\ row[k].status = "ready" => row[k].made = Good(k) /\ file[k] = Good(k)
    /\ \A t \in Threads : Rendered(t)

(* An item has at most one sender, which knows whether the chat has it.      *)
Sender(t, i) == thread[t].act = "deliver" /\ thread[t].at \in Sending /\ Item(t) = i

OneSender ==
    /\ \A t \in Threads :
           thread[t].act = "deliver" =>
               /\ thread[t].todo \subseteq Items
               /\ thread[t].at \in Sending => thread[t].todo # {}
    /\ \A t \in Threads, i \in Items : Sender(t, i) => delivery[i] = "sending"
    /\ \A t, u \in Threads, i \in Items : Sender(t, i) /\ Sender(u, i) => t = u

SentKnown ==
    \A i \in Items :
        /\ delivery[i] = "sent" => sent[i] > 0
        /\ \A t \in Threads : Sender(t, i) /\ thread[t].at = "sent" => sent[i] > 0
        /\ i \notin doubled =>
               /\ delivery[i] \in {"none", "failed", "rejected"} => sent[i] = 0
               /\ \A t \in Threads : Sender(t, i) /\ thread[t].at # "sent" => sent[i] = 0
               /\ sent[i] <= 1

Delivers == \/ told # "none" \/ "deliver" \in DOMAIN task
            \/ \E t \in Threads : thread[t].act = "deliver"

(* An attempt that nobody listens to any more was counted as cut short, but  *)
(* for what goes on when the workflow has failed next to it.                 *)
CutCounted ==
    /\ \A t \in Threads : thread[t].act = "deliver" /\ ~Heard(t) => Items \subseteq cut
    /\ DOMAIN task # {"fail"} \/ Delivers =>
           \A t \in Threads :
               thread[t].act \in {"pdf", "xlsx"} /\ ~Heard(t) => thread[t].act \in cut
    /\ \A i \in Items :
           delivery[i] = "sending" => i \in cut \/ \E t \in Threads : Sender(t, i)

(* After the delivery the workflow awaits nothing that writes a file.        *)
DeliveredLast == Delivers => DOMAIN task \in {{"deliver"}, {"finish"}, {"fail"}}

(* A delivery has dealt with all but what it has still to do.                *)
Dealt(t) ==
    thread[t].act = "deliver" =>
        /\ thread[t].at = "listing" => DoneWith("text")
        /\ "text" \in thread[t].todo => thread[t].todo = {"text"}
        /\ thread[t].at \in {"item"} \union Sending /\ "text" \notin thread[t].todo =>
               /\ DoneWith("text")
               /\ \A i \in ReadyFiles \ thread[t].todo : DoneWith(i)
               /\ \E i \in Items \ {"text"} : i \in thread[t].todo \/ DoneWith(i)

Dealing == \A t \in Threads : Dealt(t)

IInv == /\ TypeOK /\ PlannedFirst /\ Analysed /\ FinalResults /\ ChartsMade /\ FilesGood
        /\ OneSender /\ SentKnown /\ CutCounted /\ DeliveredLast /\ Dealing /\ ToldTheTruth

-----------------------------------------------------------------------------
(* What a step does to the attempts. *)

LEMMA ThreadsApart == "queue" \notin Threads /\ "done" \notin Threads /\ "failed" \notin Threads
BY ThreadsAssumption

LEMMA Domains ==
    ASSUME TasksTyped
    PROVE  /\ DOMAIN task \in Phases /\ DOMAIN task \subseteq Acts
           /\ \A a \in DOMAIN task : task[a] \in Awaiting
           /\ \A t \in Threads : thread[t] \in Attempt
           /\ DOMAIN thread = Threads
BY DEF TasksTyped, Phases, Acts, Kinds, Closing

LEMMA IdleTyped == Idle \in Attempt /\ NoFile \in Made /\ NoFile = Idle.made
BY DEF Idle, Attempt, NoFile, None, Made, Contents, Places

(* A step of the attempt of t, which goes on, ends, or is given up: others   *)
(* and the other activities are left alone.                                  *)
Turn(t) ==
    /\ \A u \in Threads \ {t} : thread'[u] = thread[u]
    /\ thread'[t].act \in {thread[t].act, "none"}
    /\ DOMAIN task' = DOMAIN task
    /\ \A a \in DOMAIN task : a # thread[t].act => task'[a] = task[a]
    /\ ~Heard(t) => task' = task
    /\ Heard(t) => task' = task \/ task'[thread[t].act].by \notin Threads

LEMMA Moves ==
    ASSUME TasksTyped, NEW t \in Threads, NEW n \in Attempt, n.act = thread[t].act,
           thread' = [thread EXCEPT ![t] = n], task' = task
    PROVE  /\ TasksTyped' /\ Turn(t) /\ thread'[t] = n /\ task' = task
           /\ \A u \in Threads : Heard(u)' = Heard(u)
<1>1. thread'[t] = n /\ (\A u \in Threads \ {t} : thread'[u] = thread[u])
      /\ thread' \in [Threads -> Attempt]
  BY DEF TasksTyped
<1> QED BY <1>1 DEF TasksTyped, Turn, Heard

LEMMA Goes ==
    ASSUME TasksTyped, NEW t \in Threads, NEW p \in Places,
           thread' = [thread EXCEPT ![t] = [thread[t] EXCEPT !.at = p]], task' = task
    PROVE  /\ TasksTyped' /\ Turn(t)
           /\ \A u \in Threads : Heard(u)' = Heard(u)
           /\ thread'[t].act = thread[t].act /\ thread'[t].at = p
           /\ thread'[t].todo = thread[t].todo /\ thread'[t].made = thread[t].made
<1> DEFINE n == [thread[t] EXCEPT !.at = p]
<1>1. n \in Attempt /\ n.act = thread[t].act /\ n.at = p /\ n.todo = thread[t].todo
      /\ n.made = thread[t].made
  BY Domains DEF Attempt
<1> HIDE DEF n
<1> QED BY <1>1, Moves DEF n

(* The service stops waiting for the attempt of t.                           *)
LEMMA StopsWaiting ==
    ASSUME TasksTyped, NEW t \in Threads, NEW n \in Awaiting, Heard(t), n.by \notin Threads,
           task' = [task EXCEPT ![thread[t].act] = n]
    PROVE  /\ \E acts \in Phases : task' \in [acts -> Awaiting]
           /\ DOMAIN task' = DOMAIN task /\ task'[thread[t].act] = n
           /\ \A a \in DOMAIN task : a # thread[t].act => task'[a] = task[a]
BY DEF TasksTyped, Heard

LEMMA GivesUp ==
    ASSUME TasksTyped, NEW t \in Threads, Heard(t)
    PROVE  \E n \in Awaiting : /\ n.by \in {"queue", "failed"}
                               /\ GivenUp(thread[t].act) = [task EXCEPT ![thread[t].act] = n]
<1> DEFINE a == thread[t].act
           q == [left |-> task[a].left - 1, by |-> "queue"]
           f == [task[a] EXCEPT !.by = "failed"]
<1>1. a \in DOMAIN task /\ task[a] \in Awaiting
  BY Domains DEF Heard
<1>2. q \in Awaiting /\ q.by = "queue" /\ f \in Awaiting /\ f.by = "failed"
  BY <1>1 DEF Awaiting
<1>3. GivenUp(a) \in {[task EXCEPT ![a] = q], [task EXCEPT ![a] = f]}
  BY <1>1 DEF GivenUp
<1> QED BY <1>2, <1>3

LEMMA Resolves ==
    ASSUME TasksTyped, NEW t \in Threads, Heard(t)
    PROVE  \E n \in Awaiting : /\ n.by = "done"
                               /\ Resolved(t, "done") = [task EXCEPT ![thread[t].act] = n]
<1> DEFINE a == thread[t].act
           d == [task[a] EXCEPT !.by = "done"]
<1>1. a \in DOMAIN task /\ task[a] \in Awaiting
  BY Domains DEF Heard
<1>2. d \in Awaiting /\ d.by = "done"
  BY <1>1 DEF Awaiting
<1>3. Resolved(t, "done") = [task EXCEPT ![a] = d]
  BY <1>1 DEF Resolved
<1> QED BY <1>2, <1>3

(* The attempt of t ends; done is said of it only if it returns.             *)
LEMMA Ends ==
    ASSUME TasksTyped, NEW t \in Threads,
           thread' = [thread EXCEPT ![t] = Idle],
           \/ task' = IF Heard(t) THEN GivenUp(thread[t].act) ELSE task
           \/ task' = IF Heard(t) THEN Resolved(t, "done") ELSE task
    PROVE  /\ TasksTyped' /\ Turn(t) /\ thread'[t] = Idle
           /\ \A u \in Threads \ {t} : Heard(u)' = Heard(u)
<1>1. thread'[t] = Idle /\ (\A u \in Threads \ {t} : thread'[u] = thread[u])
      /\ thread' \in [Threads -> Attempt] /\ thread'[t].act = "none"
  BY IdleTyped DEF TasksTyped, Idle
<1>2. CASE ~Heard(t)
  BY <1>1, <1>2 DEF TasksTyped, Turn, Heard
<1>3. CASE Heard(t)
  <2>1. PICK n \in Awaiting :
            /\ n.by \in {"queue", "failed", "done"}
            /\ task' = [task EXCEPT ![thread[t].act] = n]
    BY <1>3, GivesUp, Resolves
  <2>2. n.by \notin Threads
    BY <2>1, ThreadsApart
  <2>3. /\ \E acts \in Phases : task' \in [acts -> Awaiting]
        /\ DOMAIN task' = DOMAIN task /\ task'[thread[t].act] = n
        /\ \A a \in DOMAIN task : a # thread[t].act => task'[a] = task[a]
    BY <1>3, <2>1, <2>2, StopsWaiting
  <2>4. TasksTyped' /\ Turn(t)
    BY <1>1, <1>3, <2>2, <2>3 DEF TasksTyped, Turn
  <2>5. ASSUME NEW u \in Threads \ {t} PROVE Heard(u)' = Heard(u)
    BY <1>1, <1>3, <2>2, <2>3 DEF Heard
  <2> QED BY <1>1, <1>3, <2>1, <2>3, <2>4, <2>5
<1> QED BY <1>2, <1>3

(* An activity whose attempt raises is not done.                             *)
LEMMA RaisedUndone ==
    ASSUME TasksTyped, NEW t \in Threads,
           \/ Raise(t) \/ Die(t)
    PROVE  \A a \in DOMAIN task : task'[a].by = "done" => task[a].by = "done"
<1>1. task' = IF Heard(t) THEN GivenUp(thread[t].act) ELSE task
  BY DEF Raise, Die
<1>2. CASE Heard(t)
  <2>1. PICK n \in Awaiting : /\ n.by \in {"queue", "failed"}
                              /\ task' = [task EXCEPT ![thread[t].act] = n]
    BY <1>1, <1>2, GivesUp
  <2> QED BY <2>1 DEF TasksTyped
<1>3. CASE ~Heard(t)
  BY <1>1, <1>3
<1> QED BY <1>2, <1>3

(* The service no longer listens to t, which goes on.                        *)
LEMMA TimesOut ==
    ASSUME TasksTyped, NEW t \in Threads, TimeOut(t)
    PROVE  /\ TasksTyped' /\ Turn(t) /\ thread' = thread /\ ~Heard(t)'
           /\ \A u \in Threads \ {t} : Heard(u)' = Heard(u)
           /\ \A a \in DOMAIN task : task'[a].by = "done" => task[a].by = "done"
<1>1. Heard(t) /\ thread' = thread /\ task' = GivenUp(thread[t].act)
  BY DEF TimeOut
<1>2. PICK n \in Awaiting : /\ n.by \in {"queue", "failed"}
                           /\ task' = [task EXCEPT ![thread[t].act] = n]
  BY <1>1, GivesUp
<1>3. n.by \notin Threads /\ n.by # "done"
  BY <1>2, ThreadsApart
<1>4. /\ \E acts \in Phases : task' \in [acts -> Awaiting]
      /\ DOMAIN task' = DOMAIN task /\ task'[thread[t].act] = n
      /\ \A a \in DOMAIN task : a # thread[t].act => task'[a] = task[a]
  BY <1>1, <1>2, <1>3, StopsWaiting
<1>5. TasksTyped' /\ Turn(t)
  BY <1>1, <1>3, <1>4 DEF TasksTyped, Turn
<1>6. \A u \in Threads \ {t} : Heard(u)' = Heard(u)
  BY <1>1, <1>3, <1>4 DEF Heard
<1>7. ~Heard(t)'
  BY <1>1, <1>3, <1>4 DEF Heard
<1> QED BY <1>1, <1>3, <1>4, <1>5, <1>6, <1>7

-----------------------------------------------------------------------------
(* What a step of one attempt leaves of the invariant. *)

LEMMA PlannedTurn ==
    ASSUME PlannedFirst, NEW t \in Threads, Turn(t),
           "select" \in DOMAIN task => UNCHANGED <<result, file, row>>
    PROVE  PlannedFirst'
BY DEF PlannedFirst, Turn

Computed(t) ==
    thread[t].act \in Analyses /\ thread[t].at = "task" =>
        /\ thread[t].todo \subseteq Selected(thread[t].act)
        /\ Selected(thread[t].act) \subseteq result \union thread[t].todo

LEMMA AnalysedTurn ==
    ASSUME Analysed, NEW t \in Threads, Turn(t), plan' = plan,
           result \subseteq result', result' \subseteq Results, Computed(t)',
           \A a \in Analyses \intersect DOMAIN task :
               task'[a].by = "done" => task[a].by = "done" \/ Selected(a) \subseteq result'
    PROVE  Analysed'
<1>1. result' \subseteq Results'
  BY DEF Results
<1>2. ASSUME NEW u \in Threads PROVE Computed(u)'
  <2>1. CASE u = t
    BY <2>1
  <2>2. CASE u # t
    <3>1. thread'[u] = thread[u] /\ Computed(u)
      BY <2>2 DEF Turn, Analysed, Computed
    <3> QED BY <3>1 DEF Computed, Selected
  <2> QED BY <2>1, <2>2
<1>3. ASSUME NEW a \in Analyses \intersect DOMAIN task', task'[a].by = "done"
      PROVE  Selected(a)' \subseteq result'
  BY <1>3 DEF Analysed, Turn, Selected
<1> QED BY <1>1, <1>2, <1>3 DEF Analysed, Computed

LEMMA FinalTurn ==
    ASSUME FinalResults, NEW t \in Threads, Turn(t), plan' = plan, result \subseteq result'
    PROVE  FinalResults'
<1>1. Results' = Results
  BY DEF Results
<1>2. \A u \in Threads : thread'[u].act \in Final => thread[u].act \in Final
  BY DEF Turn, Final, Acts, Kinds, Closing
<1> QED BY <1>1, <1>2 DEF FinalResults, Turn

LEMMA ChartsTurn ==
    ASSUME ChartsMade, NEW t \in Threads, Turn(t), plan' = plan,
           file'["charts"] \in {file["charts"], Good("charts")},
           "charts" \in DOMAIN task /\ task'["charts"].by = "done" =>
               task["charts"].by = "done" \/ file'["charts"] = Good("charts")
    PROVE  ChartsMade'
<1>1. Good("charts")' = Good("charts")
  BY DEF Good, Results
<1>2. \A u \in Threads : thread'[u].act = "pdf" => thread[u].act = "pdf"
  BY DEF Turn
<1> QED BY <1>1, <1>2 DEF ChartsMade, Turn

LEMMA FilesTurn ==
    ASSUME FilesGood, NEW t \in Threads, Turn(t), plan' = plan, Rendered(t)',
           \A k \in Kinds : /\ file'[k] \in {file[k], Good(k)}
                            /\ \/ row'[k] = row[k]
                               \/ row'[k].status = "ready" =>
                                      row'[k].made = Good(k) /\ file'[k] = Good(k)
    PROVE  FilesGood'
<1>1. \A k \in Kinds : Good(k)' = Good(k)
  BY DEF Good, Results
<1>2. ASSUME NEW k \in Kinds
      PROVE  /\ file'[k] \in {NoFile, Good(k)'}
             /\ row'[k].status = "ready" => row'[k].made = Good(k)' /\ file'[k] = Good(k)'
  BY <1>1 DEF FilesGood
<1>3. ASSUME NEW u \in Threads PROVE Rendered(u)'
  <2>1. CASE u = t
    BY <2>1
  <2>2. CASE u # t
    <3>1. thread'[u] = thread[u] /\ Rendered(u)
      BY <2>2 DEF Turn, FilesGood
    <3>2. Results' = Results
      BY DEF Results
    <3> QED BY <1>1, <3>1, <3>2 DEF Rendered
  <2> QED BY <2>1, <2>2
<1> QED BY <1>2, <1>3 DEF FilesGood

LEMMA ItemIn ==
    ASSUME NEW t \in Threads, thread[t].todo # {} PROVE Item(t) \in thread[t].todo
BY DEF Item

LEMMA ItemKept ==
    ASSUME NEW t \in Threads, thread'[t].todo = thread[t].todo PROVE Item(t)' = Item(t)
BY DEF Item

LEMMA OthersSend ==
    ASSUME NEW t \in Threads, Turn(t)
    PROVE  \A u \in Threads \ {t}, i \in Items : Sender(u, i)' = Sender(u, i)
<1> SUFFICES ASSUME NEW u \in Threads \ {t}, NEW i \in Items PROVE Sender(u, i)' = Sender(u, i)
  OBVIOUS
<1>1. thread'[u] = thread[u]
  BY DEF Turn
<1>2. Item(u)' = Item(u)
  BY <1>1, ItemKept
<1> QED BY <1>1, <1>2 DEF Sender

(* What an attempt to deliver has to do, and while it sends, has an item.    *)
Owes(t) == thread[t].act = "deliver" =>
               /\ thread[t].todo \subseteq Items
               /\ thread[t].at \in Sending => thread[t].todo # {}

(* A step that changes no delivery, and begins none.                         *)
LEMMA SenderRests ==
    ASSUME OneSender, SentKnown, NEW t \in Threads, Turn(t), Owes(t)',
           UNCHANGED <<delivery, sent, doubled>>,
           \A i \in Items : Sender(t, i)' => Sender(t, i) /\ thread'[t].at = thread[t].at
    PROVE  OneSender' /\ SentKnown'
<1>1. \A u \in Threads, i \in Items :
          Sender(u, i)' => Sender(u, i) /\ thread'[u].at = thread[u].at
  BY OthersSend DEF Turn
<1>2. ASSUME NEW u \in Threads PROVE Owes(u)'
  BY DEF Owes, OneSender, Turn
<1>3. OneSender'
  BY <1>1, <1>2 DEF OneSender, Owes
<1>4. SentKnown'
  BY <1>1 DEF SentKnown
<1> QED BY <1>3, <1>4

(* A step of the one that sends the item, or begins to.                      *)
LEMMA SenderSteps ==
    ASSUME OneSender, SentKnown, NEW t \in Threads, Turn(t), Owes(t)',
           NEW i \in Items, Sender(t, i) \/ MayStart(i),
           \A j \in Items : Sender(t, j)' => j = i /\ delivery'[i] = "sending",
           \A j \in Items \ {i} : /\ delivery'[j] = delivery[j] /\ sent'[j] = sent[j]
                                  /\ j \in doubled' <=> j \in doubled,
           delivery'[i] = "sent" => sent'[i] > 0,
           Sender(t, i)' /\ thread'[t].at = "sent" => sent'[i] > 0,
           i \notin doubled' =>
               /\ delivery'[i] \in {"none", "failed", "rejected"} => sent'[i] = 0
               /\ Sender(t, i)' /\ thread'[t].at # "sent" => sent'[i] = 0
               /\ sent'[i] <= 1
    PROVE  OneSender' /\ SentKnown'
<1>1. \A u \in Threads \ {t}, j \in Items :
          Sender(u, j)' => Sender(u, j) /\ thread'[u] = thread[u] /\ j # i
  BY OthersSend DEF Turn, OneSender, MayStart
<1>2. ASSUME NEW u \in Threads PROVE Owes(u)'
  BY DEF Owes, OneSender, Turn
<1>3. ASSUME NEW u \in Threads, NEW j \in Items, Sender(u, j)'
      PROVE  delivery'[j] = "sending"
  <2>1. CASE u = t
    BY <1>3, <2>1
  <2>2. CASE u # t
    <3>1. Sender(u, j) /\ j # i
      BY <1>1, <1>3, <2>2
    <3>2. delivery[j] = "sending" /\ delivery'[j] = delivery[j]
      BY <3>1 DEF OneSender
    <3> QED BY <3>2
  <2> QED BY <2>1, <2>2
<1>4. \A u, v \in Threads, j \in Items : Sender(u, j)' /\ Sender(v, j)' => u = v
  BY <1>1 DEF OneSender
<1>5. OneSender'
  BY <1>2, <1>3, <1>4 DEF OneSender, Owes
<1>6. ASSUME NEW j \in Items \ {i}
      PROVE  /\ delivery'[j] = "sent" => sent'[j] > 0
             /\ \A u \in Threads : Sender(u, j)' /\ thread'[u].at = "sent" => sent'[j] > 0
             /\ j \notin doubled' =>
                    /\ delivery'[j] \in {"none", "failed", "rejected"} => sent'[j] = 0
                    /\ \A u \in Threads : Sender(u, j)' /\ thread'[u].at # "sent" => sent'[j] = 0
                    /\ sent'[j] <= 1
  <2>1. \A u \in Threads : Sender(u, j)' => Sender(u, j) /\ thread'[u].at = thread[u].at
    <3>1. ~Sender(t, j)'
      BY <1>6
    <3> QED BY <1>1, <3>1
  <2>2. delivery'[j] = delivery[j] /\ sent'[j] = sent[j] /\ (j \in doubled' <=> j \in doubled)
    BY <1>6
  <2> QED BY <2>1, <2>2 DEF SentKnown
<1>7. \A u \in Threads : Sender(u, i)' => u = t
  BY <1>1
<1>8. SentKnown'
  BY <1>6, <1>7 DEF SentKnown
<1> QED BY <1>5, <1>8

LEMMA Listened ==
    ASSUME TasksTyped, NEW t \in Threads, Turn(t)
    PROVE  /\ \A u \in Threads \ {t} : Heard(u)' = Heard(u)
           /\ Heard(t)' => Heard(t)
<1>1. ASSUME NEW u \in Threads \ {t} PROVE Heard(u)' = Heard(u)
  BY DEF Turn, Heard
<1>2. ASSUME ~Heard(t) PROVE ~Heard(t)'
  <2>1. "none" \notin DOMAIN task /\ task' = task
    BY <1>2, Domains DEF Acts, Kinds, Closing, Turn
  <2> QED BY <1>2, <2>1 DEF Turn, Heard
<1> QED BY <1>1, <1>2

LEMMA DoneStays ==
    ASSUME NEW i \in Items, DoneWith(i), sent[i] > 0 => sent'[i] > 0,
           delivery[i] = "rejected" => delivery'[i] = "rejected", cut \subseteq cut'
    PROVE  DoneWith(i)'
BY DEF DoneWith

(* What is ready while the attempt of u delivers has been given up, unless    *)
(* it was ready before.                                                      *)
LEMMA ReadyLate ==
    ASSUME TasksTyped, CutCounted, DeliveredLast, Delivers, NEW t \in Threads
    PROVE  thread[t].act \in {"pdf", "xlsx"} => thread[t].act \in cut
<1>1. ASSUME thread[t].act \in {"pdf", "xlsx"} PROVE ~Heard(t)
  BY <1>1 DEF DeliveredLast, Heard
<1> QED BY <1>1 DEF CutCounted

(* A step of an attempt of another activity.                                 *)
LEMMA TellingLeft ==
    ASSUME TasksTyped, OneSender, CutCounted, DeliveredLast, Dealing, ToldTheTruth,
           NEW t \in Threads, Turn(t), thread[t].act # "deliver",
           UNCHANGED <<delivery, told, sent>>, cut \subseteq cut',
           thread'[t].act \in {"pdf", "xlsx"} /\ Heard(t) =>
               Heard(t)' \/ thread[t].act \in cut',
           ReadyFiles' \subseteq ReadyFiles \union ({thread[t].act} \intersect {"pdf", "xlsx"})
    PROVE  CutCounted' /\ DeliveredLast' /\ Dealing' /\ ToldTheTruth'
<1>1. Delivers' => Delivers
  BY DEF Delivers, Turn
<1>2. DeliveredLast'
  BY <1>1 DEF DeliveredLast, Turn
<1>3. \A i \in Items : DoneWith(i) => DoneWith(i)'
  BY DoneStays
<1>4. ReadyFiles \subseteq Items /\ ReadyFiles' \subseteq Items
      /\ (Delivers => \A i \in ReadyFiles' \ ReadyFiles : DoneWith(i)')
  BY ReadyLate DEF ReadyFiles, DoneWith, Items
<1>5. CutCounted'
  <2>1. ASSUME NEW u \in Threads, thread'[u].act = "deliver", ~Heard(u)'
        PROVE  Items \subseteq cut'
    <3>1. u # t /\ thread'[u] = thread[u]
      BY <2>1 DEF Turn
    <3> QED BY <2>1, <3>1, Listened DEF CutCounted
  <2>2. ASSUME DOMAIN task' # {"fail"} \/ Delivers', NEW u \in Threads,
               thread'[u].act \in {"pdf", "xlsx"}, ~Heard(u)'
        PROVE  thread'[u].act \in cut'
    <3>1. DOMAIN task # {"fail"} \/ Delivers
      BY <1>1, <2>2 DEF Turn
    <3>2. CASE u # t
      BY <2>2, <3>1, <3>2, Listened DEF CutCounted, Turn
    <3>3. CASE u = t
      <4>1. thread[t].act = thread'[t].act
        BY <2>2, <3>3 DEF Turn
      <4>2. ~Heard(t) => thread[t].act \in cut
        BY <2>2, <3>1, <3>3, <4>1 DEF CutCounted
      <4> QED BY <2>2, <3>3, <4>1, <4>2
    <3> QED BY <3>2, <3>3
  <2>3. ASSUME NEW i \in Items, delivery'[i] = "sending"
        PROVE  i \in cut' \/ \E u \in Threads : Sender(u, i)'
    <3>1. i \in cut \/ \E u \in Threads : Sender(u, i)
      BY <2>3 DEF CutCounted
    <3>2. \A u \in Threads : Sender(u, i) => u # t
      BY DEF Sender
    <3> QED BY <3>1, <3>2, OthersSend
  <2> QED BY <2>1, <2>2, <2>3 DEF CutCounted
<1>6. Dealing'
  <2> SUFFICES ASSUME NEW u \in Threads PROVE Dealt(u)'
    BY DEF Dealing
  <2>1. CASE thread'[u].act # "deliver"
    BY <2>1 DEF Dealt
  <2>2. CASE thread'[u].act = "deliver"
    <3>1. thread'[u] = thread[u] /\ Dealt(u)
      BY <2>2 DEF Turn, Dealing
    <3>2. Delivers /\ thread[u].act = "deliver"
      BY <2>2, <3>1 DEF Delivers
    <3>3. \A i \in ReadyFiles' : i \in ReadyFiles \/ DoneWith(i)'
      BY <1>4, <3>2
    <3> QED BY <1>3, <1>4, <3>1, <3>2, <3>3 DEF Dealt, Items
  <2> QED BY <2>1, <2>2
<1>7. ToldTheTruth'
  <2>1. ASSUME told = "sent"
        PROVE  /\ \A i \in {"text"} \union ReadyFiles' : DoneWith(i)'
               /\ \E i \in Items \ {"text"} : DoneWith(i)'
    <3>1. Delivers
      BY <2>1 DEF Delivers
    <3>2. \A i \in ReadyFiles' : i \in ReadyFiles \/ DoneWith(i)'
      BY <1>4, <3>1
    <3> QED BY <1>3, <1>4, <2>1, <3>2 DEF ToldTheTruth, Items
  <2> QED BY <2>1 DEF ToldTheTruth
<1> QED BY <1>2, <1>5, <1>6, <1>7

(* A step of an attempt to deliver, its timeout or its end.                  *)
LEMMA DeliveryTells ==
    ASSUME TasksTyped, OneSender, CutCounted, DeliveredLast, Dealing, ToldTheTruth,
           NEW t \in Threads, Turn(t), thread[t].act = "deliver", Dealt(t)', row' = row,
           \A i \in Items : /\ sent[i] > 0 => sent'[i] > 0
                            /\ delivery[i] = "rejected" => delivery'[i] = "rejected",
           cut \subseteq cut',
           Heard(t)' = Heard(t) \/ thread'[t].act = "none" \/ Items \subseteq cut',
           \A i \in Items : delivery'[i] = "sending" =>
               \/ i \in cut' \/ Sender(t, i)'
               \/ delivery[i] = "sending" /\ ~Sender(t, i),
           told' = "sent" =>
               \/ told = "sent"
               \/ /\ \A i \in {"text"} \union ReadyFiles : DoneWith(i)'
                  /\ \E i \in Items \ {"text"} : DoneWith(i)'
    PROVE  CutCounted' /\ DeliveredLast' /\ Dealing' /\ ToldTheTruth'
<1>1. Delivers /\ ReadyFiles' = ReadyFiles /\ ReadyFiles \subseteq Items
  BY DEF Delivers, ReadyFiles, Items
<1>2. DeliveredLast'
  BY <1>1 DEF DeliveredLast, Turn
<1>3. \A i \in Items : DoneWith(i) => DoneWith(i)'
  BY DoneStays
<1>4. CutCounted'
  <2>1. ASSUME NEW u \in Threads, thread'[u].act = "deliver", ~Heard(u)'
        PROVE  Items \subseteq cut'
    BY <2>1, Listened DEF CutCounted, Turn
  <2>2. ASSUME NEW u \in Threads, thread'[u].act \in {"pdf", "xlsx"}, ~Heard(u)'
        PROVE  thread'[u].act \in cut'
    <3>1. u # t /\ thread'[u] = thread[u]
      BY <2>2 DEF Turn
    <3> QED BY <1>1, <2>2, <3>1, Listened DEF CutCounted
  <2>3. ASSUME NEW i \in Items, delivery'[i] = "sending"
        PROVE  i \in cut' \/ \E u \in Threads : Sender(u, i)'
    <3>1. CASE i \in cut' \/ Sender(t, i)'
      BY <3>1
    <3>2. CASE delivery[i] = "sending" /\ ~Sender(t, i)
      BY <3>2, OthersSend DEF CutCounted
    <3> QED BY <2>3, <3>1, <3>2
  <2> QED BY <2>1, <2>2, <2>3 DEF CutCounted
<1>5. Dealing'
  <2> SUFFICES ASSUME NEW u \in Threads PROVE Dealt(u)'
    BY DEF Dealing
  <2>1. CASE u = t
    BY <2>1
  <2>2. CASE u # t
    <3>1. thread'[u] = thread[u] /\ Dealt(u)
      BY <2>2 DEF Turn, Dealing
    <3> QED BY <1>1, <1>3, <3>1 DEF Dealt, Items
  <2> QED BY <2>1, <2>2
<1>6. ToldTheTruth'
  BY <1>1, <1>3 DEF ToldTheTruth, Items
<1> QED BY <1>2, <1>4, <1>5, <1>6

(* A step that leaves the tables and the files.                              *)
LEMMA WorkLeft ==
    ASSUME IInv, NEW t \in Threads, Turn(t), UNCHANGED <<analysis, files>>,
           thread'[t] \in {thread[t], Idle} \/ thread[t].act \notin Analyses \union Kinds,
           \A a \in DOMAIN task \intersect (Analyses \union {"charts"}) :
               task'[a].by = "done" => task[a].by = "done"
    PROVE  /\ AnalysisTyped' /\ FilesTyped' /\ PlannedFirst' /\ Analysed' /\ FinalResults'
           /\ ChartsMade' /\ FilesGood'
<1> USE DEF IInv, TypeOK
<1>1. UNCHANGED <<plan, result, runs, file, stamp, row>>
  BY DEF analysis, files
<1>2. AnalysisTyped' /\ FilesTyped'
  BY <1>1 DEF AnalysisTyped, FilesTyped
<1>3. PlannedFirst' /\ FinalResults' /\ ChartsMade'
  BY <1>1, PlannedTurn, FinalTurn, ChartsTurn DEF Kinds
<1>4. Computed(t)' /\ Rendered(t)'
  <2>1. CASE thread'[t] = thread[t]
    <3>1. Computed(t) /\ Rendered(t)
      BY DEF Analysed, Computed, FilesGood
    <3>2. \A k \in Kinds : Good(k)' = Good(k)
      BY <1>1 DEF Good, Results
    <3> QED BY <1>1, <2>1, <3>1, <3>2 DEF Computed, Rendered, Selected, Results
  <2>2. CASE thread'[t].act \notin Analyses \union Kinds
    BY <2>2 DEF Computed, Rendered
  <2>3. Idle.act \notin Analyses \union Kinds /\ "none" \notin Analyses \union Kinds
    BY DEF Idle, Analyses, Kinds
  <2> QED BY <2>1, <2>2, <2>3 DEF Turn
<1>5. Analysed'
  BY <1>1, <1>4, AnalysedTurn DEF Analysed
<1>6. FilesGood'
  BY <1>1, <1>4, FilesTurn
<1> QED BY <1>2, <1>3, <1>5, <1>6

-----------------------------------------------------------------------------
(* The steps of deliver_artifacts. *)

LEMMA DeliverLeaves ==
    ASSUME IInv, NEW t \in Threads, thread[t].act = "deliver", TasksTyped', Turn(t),
           MessagesTyped', UNCHANGED <<analysis, files>>, OneSender', SentKnown',
           CutCounted', DeliveredLast', Dealing', ToldTheTruth'
    PROVE  IInv'
<1>1. "deliver" \notin Analyses \union Kinds \union {"charts"}
  BY DEF Analyses, Kinds
<1>2. \A a \in DOMAIN task \intersect (Analyses \union {"charts"}) : task'[a] = task[a]
  BY <1>1 DEF Turn
<1> QED BY <1>1, <1>2, WorkLeft DEF IInv, TypeOK

(* The attempt goes on to n, the deliveries being as they were.              *)
LEMMA DeliverGoes ==
    ASSUME IInv, NEW t \in Threads, thread[t].act = "deliver",
           NEW n \in Attempt, n.act = "deliver", n.todo \subseteq Items, n.at \notin Sending,
           Set(t, n), UNCHANGED <<analysis, files, messages, jobRow>>, thread[t].at \notin Sending,
           n.at = "listing" => DoneWith("text"),
           "text" \in n.todo => n.todo = {"text"},
           n.at = "item" /\ "text" \notin n.todo =>
               /\ DoneWith("text")
               /\ \A i \in ReadyFiles \ n.todo : DoneWith(i)
               /\ \E i \in Items \ {"text"} : i \in n.todo \/ DoneWith(i)
    PROVE  IInv'
<1> USE DEF IInv, TypeOK
<1>1. /\ UNCHANGED <<plan, result, runs, file, stamp, row, delivery, told, sent, doubled, cut>>
      /\ UNCHANGED <<job, deliverables>>
  BY DEF analysis, files, messages, jobRow
<1>2. /\ TasksTyped' /\ Turn(t) /\ thread'[t] = n /\ task' = task
      /\ \A u \in Threads : Heard(u)' = Heard(u)
  BY Moves DEF Set
<1>3. MessagesTyped'
  BY <1>1 DEF MessagesTyped
<1>4. Owes(t)' /\ \A i \in Items : ~Sender(t, i) /\ ~Sender(t, i)'
  BY <1>2 DEF Owes, Sender
<1>5. OneSender' /\ SentKnown'
  BY <1>1, <1>2, <1>4, SenderRests
<1>6. Dealt(t)'
  BY <1>1, <1>2 DEF Dealt, DoneWith, ReadyFiles
<1>7. CutCounted' /\ DeliveredLast' /\ Dealing' /\ ToldTheTruth'
  BY <1>1, <1>2, <1>4, <1>6, DeliveryTells
<1> QED BY <1>2, <1>3, <1>5, <1>7, DeliverLeaves

LEMMA DeliverBegins ==
    ASSUME IInv, NEW t \in Threads, DeliverBegin(t) \/ FilesListed(t)
    PROVE  IInv'
<1>1. thread[t] \in Attempt /\ thread[t].act = "deliver"
  BY Domains DEF DeliverBegin, FilesListed, At, IInv, TypeOK
<1>2. ASSUME NEW T \in SUBSET Items
      PROVE  LET n == [thread[t] EXCEPT !.at = "item", !.todo = T]
             IN  n \in Attempt /\ n.act = "deliver" /\ n.at = "item" /\ n.todo = T
  BY <1>1 DEF Attempt, Places
<1>3. {"text"} \in SUBSET Items /\ {"markdown"} \in SUBSET Items /\ ReadyFiles \in SUBSET Items
      /\ "text" \notin ReadyFiles
  BY DEF Items, ReadyFiles
<1>4. CASE DeliverBegin(t)
  <2> DEFINE n == [thread[t] EXCEPT !.at = "item", !.todo = {"text"}]
  <2>1. n \in Attempt /\ n.act = "deliver" /\ n.at = "item" /\ n.todo = {"text"}
    BY <1>2, <1>3
  <2>2. Set(t, n) /\ UNCHANGED <<analysis, files, messages, jobRow>>
        /\ thread[t].at = "start"
    BY <1>4 DEF DeliverBegin, At
  <2> HIDE DEF n
  <2> QED BY <1>1, <1>3, <2>1, <2>2, DeliverGoes DEF Sending
<1>5. CASE FilesListed(t)
  <2> DEFINE T == IF ReadyFiles = {} THEN {"markdown"} ELSE ReadyFiles
             n == [thread[t] EXCEPT !.at = "item", !.todo = T]
  <2>1. T \in SUBSET Items /\ "text" \notin T /\ ReadyFiles \subseteq T
        /\ \E i \in Items \ {"text"} : i \in T
    BY <1>3
  <2>2. n \in Attempt /\ n.act = "deliver" /\ n.at = "item" /\ n.todo = T
    BY <1>2, <2>1
  <2>3. Set(t, n) /\ UNCHANGED <<analysis, files, messages, jobRow>>
        /\ thread[t].at = "listing"
    BY <1>5 DEF FilesListed, At
  <2>4. DoneWith("text")
    BY <1>1, <2>3 DEF IInv, Dealing, Dealt
  <2> HIDE DEF n, T
  <2> QED BY <1>1, <2>1, <2>2, <2>3, <2>4, DeliverGoes DEF Sending
<1> QED BY <1>4, <1>5

(* An attempt that has an item to deliver.                                   *)
LEMMA DeliveringItem ==
    ASSUME IInv, NEW t \in Threads, NEW p \in {"item"} \union Sending, Delivering(t, p)
    PROVE  /\ thread[t] \in Attempt /\ thread[t].act = "deliver" /\ thread[t].at = p
           /\ thread[t].todo # {} /\ thread[t].todo \subseteq Items
           /\ Item(t) \in thread[t].todo /\ Item(t) \in Items /\ Dealt(t)
           /\ p \in Sending => Sender(t, Item(t)) /\ delivery[Item(t)] = "sending"
           /\ \A i \in Items : Sender(t, i) => p \in Sending /\ i = Item(t)
<1>1. thread[t] \in Attempt /\ thread[t].act = "deliver" /\ thread[t].at = p
      /\ thread[t].todo # {}
  BY Domains DEF Delivering, At, IInv, TypeOK
<1>2. thread[t].todo \subseteq Items /\ Dealt(t)
  BY <1>1 DEF IInv, OneSender, Dealing
<1>3. Item(t) \in thread[t].todo /\ Item(t) \in Items
  BY <1>1, <1>2, ItemIn
<1>4. p \in Sending => Sender(t, Item(t))
  BY <1>1 DEF Sender
<1>5. \A i \in Items : Sender(t, i) => p \in Sending /\ i = Item(t)
  BY <1>1 DEF Sender
<1> QED BY <1>1, <1>2, <1>3, <1>4, <1>5 DEF IInv, OneSender

(* Once the item is dealt with, the next.                                    *)
LEMMA ItemDealt ==
    ASSUME IInv, NEW t \in Threads, NEW p \in {"item"} \union Sending, Delivering(t, p),
           NEW n, n = ItemDone(t)
    PROVE  /\ n \in Attempt /\ n.act = "deliver" /\ n.at \in {"item", "listing"}
           /\ n.todo \subseteq Items
           /\ n.at = "listing" => Item(t) = "text"
           /\ "text" \in n.todo => n.todo = {"text"}
           /\ n.at = "item" /\ "text" \notin n.todo =>
                  /\ DoneWith("text")
                  /\ \A i \in ReadyFiles \ n.todo : i = Item(t) \/ DoneWith(i)
                  /\ \E i \in Items \ {"text"} : i \in n.todo \/ i = Item(t) \/ DoneWith(i)
<1>1. /\ thread[t] \in Attempt /\ thread[t].act = "deliver" /\ thread[t].at = p
      /\ thread[t].todo \subseteq Items /\ Item(t) \in thread[t].todo /\ Dealt(t)
  BY DeliveringItem
<1>2. CASE Item(t) = "text"
  <2>1. n = [thread[t] EXCEPT !.at = "listing", !.todo = {}]
    BY <1>2 DEF ItemDone
  <2>2. n \in Attempt /\ n.act = "deliver" /\ n.at = "listing" /\ n.todo = {}
    BY <1>1, <2>1 DEF Attempt, Places
  <2> QED BY <1>2, <2>2
<1>3. CASE Item(t) # "text"
  <2>1. n = [thread[t] EXCEPT !.at = "item", !.todo = thread[t].todo \ {Item(t)}]
    BY <1>3 DEF ItemDone
  <2>2. n \in Attempt /\ n.act = "deliver" /\ n.at = "item"
        /\ n.todo = thread[t].todo \ {Item(t)}
    BY <1>1, <2>1 DEF Attempt, Places
  <2>3. "text" \notin thread[t].todo
    BY <1>1, <1>3 DEF Dealt
  <2>4. /\ DoneWith("text")
        /\ \A i \in ReadyFiles \ thread[t].todo : DoneWith(i)
        /\ \E i \in Items \ {"text"} : i \in thread[t].todo \/ DoneWith(i)
    BY <1>1, <2>3 DEF Dealt
  <2> QED BY <1>1, <2>2, <2>3, <2>4
<1> QED BY <1>2, <1>3

LEMMA ItemSettled ==
    ASSUME IInv, NEW t \in Threads, NEW p \in {"item"} \union Sending, Delivering(t, p),
           NEW i, i = Item(t), NEW n, n = ItemDone(t), Set(t, n),
           UNCHANGED <<told, sent, doubled, cut, analysis, files, jobRow>>,
           \/ p = "item" /\ delivery' = delivery /\ DoneWith(i)
           \/ /\ p \in Sending
              /\ \/ delivery' = [delivery EXCEPT ![i] = "sent"] /\ sent[i] > 0
                 \/ /\ delivery' = [delivery EXCEPT ![i] = "rejected"]
                    /\ i \notin doubled => sent[i] = 0
    PROVE  IInv'
<1> USE DEF IInv, TypeOK
<1>1. /\ UNCHANGED <<plan, result, runs, file, stamp, row>>
      /\ UNCHANGED <<job, deliverables>> /\ i \in Items
  BY DeliveringItem DEF analysis, files, jobRow
<1>2. /\ thread[t].act = "deliver" /\ thread[t].at = p /\ i \in thread[t].todo
      /\ p \in Sending => Sender(t, i) /\ delivery[i] = "sending"
      /\ \A j \in Items : Sender(t, j) => p \in Sending /\ j = i
  BY DeliveringItem
<1>3. /\ n \in Attempt /\ n.act = "deliver" /\ n.at \in {"item", "listing"}
      /\ n.todo \subseteq Items
  BY ItemDealt
<1>4. /\ TasksTyped' /\ Turn(t) /\ thread'[t] = n
      /\ \A u \in Threads : Heard(u)' = Heard(u)
  BY <1>2, <1>3, Moves DEF Set
<1>5. MessagesTyped'
  BY <1>1 DEF MessagesTyped
<1>6. Owes(t)' /\ \A j \in Items : ~Sender(t, j)'
  BY <1>3, <1>4 DEF Owes, Sender, Sending
<1>7. /\ \A j \in Items \ {i} : delivery'[j] = delivery[j]
      /\ p = "item" => delivery'[i] = delivery[i]
      /\ p # "item" => \/ delivery'[i] = "sent" /\ sent[i] > 0
                       \/ delivery'[i] = "rejected" /\ (i \notin doubled => sent[i] = 0)
  BY <1>1 DEF MessagesTyped, Sending
<1>8. OneSender' /\ SentKnown'
  <2>1. CASE p = "item"
    <3>1. delivery' = delivery
      BY <2>1 DEF Sending
    <3> QED BY <1>4, <1>6, <3>1, SenderRests
  <2>2. CASE p # "item"
    <3>1. sent[i] <= 1 \/ i \in doubled
      BY <1>1 DEF SentKnown
    <3>2. delivery'[i] \notin {"none", "failed"}
      BY <1>7, <2>2
    <3> QED BY <1>1, <1>2, <1>4, <1>6, <1>7, <2>2, <3>1, <3>2, SenderSteps
  <2> QED BY <2>1, <2>2
<1>9. DoneWith(i)' /\ \A j \in Items : DoneWith(j) => DoneWith(j)'
  <2>1. DoneWith(i)'
    <3>1. CASE p = "item"
      BY <1>7, <3>1 DEF DoneWith, Sending
    <3>2. CASE p # "item"
      BY <1>7, <3>2 DEF DoneWith
    <3> QED BY <3>1, <3>2
  <2>2. \A j \in Items \ {i} : DoneWith(j) => DoneWith(j)'
    BY <1>7 DEF DoneWith
  <2> QED BY <2>1, <2>2
<1>10. Dealt(t)'
  <2>1. /\ thread'[t].at = "listing" => i = "text"
        /\ "text" \in thread'[t].todo => thread'[t].todo = {"text"}
        /\ thread'[t].at = "item" /\ "text" \notin thread'[t].todo =>
               /\ DoneWith("text")
               /\ \A j \in ReadyFiles \ thread'[t].todo : j = i \/ DoneWith(j)
               /\ \E j \in Items \ {"text"} : j \in thread'[t].todo \/ j = i \/ DoneWith(j)
    BY <1>4, ItemDealt
  <2>2. ReadyFiles' = ReadyFiles /\ ReadyFiles \subseteq Items /\ "text" \in Items
    BY <1>1 DEF ReadyFiles, Items
  <2>3. thread'[t].at \in {"item", "listing"} /\ thread'[t].at \notin Sending
    BY <1>3, <1>4 DEF Sending
  <2> QED BY <1>9, <2>1, <2>2, <2>3 DEF Dealt
<1>11. CutCounted' /\ DeliveredLast' /\ Dealing' /\ ToldTheTruth'
  <2>1. \A j \in Items : delivery'[j] = "sending" => delivery[j] = "sending" /\ ~Sender(t, j)
    <3>1. CASE p = "item"
      BY <1>2, <1>7, <3>1 DEF Sending
    <3>2. CASE p # "item"
      BY <1>2, <1>7, <3>2
    <3> QED BY <3>1, <3>2
  <2>2. \A j \in Items : delivery[j] = "rejected" => delivery'[j] = "rejected"
    BY <1>2, <1>7
  <2> QED BY <1>1, <1>2, <1>4, <1>10, <2>1, <2>2, DeliveryTells
<1> QED BY <1>1, <1>2, <1>4, <1>5, <1>8, <1>11, DeliverLeaves

LEMMA ItemGoes ==
    ASSUME IInv, NEW t \in Threads, NEW p \in {"item"} \union Sending, Delivering(t, p),
           NEW i, i = Item(t), p \in Sending \/ MayStart(i),
           NEW q \in Sending \union {"except"}, task' = task,
           thread' = [thread EXCEPT ![t] = [thread[t] EXCEPT !.at = q]],
           UNCHANGED <<told, cut, analysis, files, jobRow>>,
           delivery' = [delivery EXCEPT ![i] = IF q \in Sending THEN "sending" ELSE "failed"],
           sent' \in {sent, [sent EXCEPT ![i] = @ + 1]},
           doubled' \in {doubled, doubled \union {i}},
           q = "sent" => sent'[i] > 0,
           i \notin doubled' => sent'[i] <= 1 /\ (q # "sent" => sent'[i] = 0)
    PROVE  IInv'
<1> USE DEF IInv, TypeOK
<1>1. /\ UNCHANGED <<plan, result, runs, file, stamp, row>>
      /\ UNCHANGED <<job, deliverables>> /\ i \in Items
  BY DeliveringItem DEF analysis, files, jobRow
<1>2. /\ thread[t].act = "deliver" /\ thread[t].at = p /\ i \in thread[t].todo
      /\ thread[t].todo \subseteq Items /\ thread[t].todo # {} /\ Dealt(t)
      /\ p \in Sending => Sender(t, i) /\ delivery[i] = "sending"
      /\ \A j \in Items : Sender(t, j) => p \in Sending /\ j = i
  BY DeliveringItem
<1>3. q \in Places
  BY DEF Places
<1>4. /\ TasksTyped' /\ Turn(t)
      /\ \A u \in Threads : Heard(u)' = Heard(u)
      /\ thread'[t].act = "deliver" /\ thread'[t].at = q
      /\ thread'[t].todo = thread[t].todo
  BY <1>2, <1>3, Goes
<1>5. MessagesTyped'
  BY <1>1 DEF MessagesTyped
<1>6. /\ Owes(t)' /\ (q \in Sending => Sender(t, i)')
      /\ \A j \in Items : Sender(t, j)' => j = i /\ q \in Sending
  BY <1>1, <1>2, <1>4, ItemKept DEF Owes, Sender
<1>7. /\ \A j \in Items \ {i} : /\ delivery'[j] = delivery[j] /\ sent'[j] = sent[j]
                                /\ j \in doubled' <=> j \in doubled
      /\ delivery'[i] = IF q \in Sending THEN "sending" ELSE "failed"
      /\ sent'[i] \in Nat /\ sent[i] \in Nat /\ sent'[i] >= sent[i]
  BY <1>1 DEF MessagesTyped
<1>8. OneSender' /\ SentKnown'
  BY <1>1, <1>2, <1>4, <1>6, <1>7, SenderSteps
<1>9. /\ \A j \in Items : /\ sent[j] > 0 => sent'[j] > 0
                          /\ delivery[j] = "rejected" => delivery'[j] = "rejected"
      /\ \A j \in Items : DoneWith(j) => DoneWith(j)'
  <2>1. delivery[i] # "rejected"
    BY <1>2 DEF MayStart
  <2>2. \A j \in Items : /\ sent[j] > 0 => sent'[j] > 0
                         /\ delivery[j] = "rejected" => delivery'[j] = "rejected"
    BY <1>7, <2>1
  <2> QED BY <2>2, DoneStays
<1>10. Dealt(t)'
  <2>1. ReadyFiles' = ReadyFiles /\ ReadyFiles \subseteq Items /\ "text" \in Items
    BY <1>1 DEF ReadyFiles, Items
  <2>2. q # "listing" /\ q # "item"
    BY DEF Sending
  <2> QED BY <1>2, <1>4, <1>9, <2>1, <2>2 DEF Dealt
<1>11. CutCounted' /\ DeliveredLast' /\ Dealing' /\ ToldTheTruth'
  <2>1. ASSUME NEW j \in Items, delivery'[j] = "sending"
        PROVE  Sender(t, j)' \/ (delivery[j] = "sending" /\ ~Sender(t, j))
    <3>1. CASE j = i
      BY <1>6, <1>7, <2>1, <3>1
    <3>2. CASE j # i
      BY <1>2, <1>7, <2>1, <3>2
    <3> QED BY <3>1, <3>2
  <2>2. row' = row /\ cut \subseteq cut' /\ Heard(t)' = Heard(t) /\ told' = told
    BY <1>1, <1>4
  <2> QED BY <1>2, <1>4, <1>9, <1>10, <2>1, <2>2, DeliveryTells
<1> QED BY <1>1, <1>2, <1>4, <1>5, <1>8, <1>11, DeliverLeaves

LEMMA DeliverEnds ==
    ASSUME IInv, NEW t \in Threads, thread[t].act = "deliver",
           thread' = [thread EXCEPT ![t] = Idle],
           \/ task' = IF Heard(t) THEN GivenUp(thread[t].act) ELSE task
           \/ task' = IF Heard(t) THEN Resolved(t, "done") ELSE task,
           UNCHANGED <<analysis, files, delivery, sent, doubled, jobRow>>,
           cut \subseteq cut', cut' \subseteq Items,
           \A i \in Items : Sender(t, i) => i \in cut',
           told' \in {told, "sent", "failed"},
           told' = "sent" =>
               \/ told = "sent"
               \/ /\ \A i \in {"text"} \union ReadyFiles : DoneWith(i)
                  /\ \E i \in Items \ {"text"} : DoneWith(i)
    PROVE  IInv'
<1> USE DEF IInv, TypeOK
<1>1. /\ UNCHANGED <<plan, result, runs, file, stamp, row>>
      /\ UNCHANGED <<job, deliverables>>
  BY DEF analysis, files, jobRow
<1>2. TasksTyped' /\ Turn(t) /\ thread'[t] = Idle
  BY Ends
<1>3. thread'[t].act = "none" /\ thread'[t].at = "none"
  BY <1>2 DEF Idle
<1>4. MessagesTyped'
  BY <1>1 DEF MessagesTyped
<1>5. Owes(t)' /\ Dealt(t)' /\ \A i \in Items : ~Sender(t, i)'
  BY <1>3 DEF Owes, Sender, Dealt
<1>6. OneSender' /\ SentKnown'
  BY <1>2, <1>5, SenderRests
<1>7. \A i \in Items : DoneWith(i) => DoneWith(i)'
  BY DoneStays
<1>8. ReadyFiles \subseteq Items /\ "text" \in Items
  BY DEF ReadyFiles, Items
<1>9. told' = "sent" =>
          \/ told = "sent"
          \/ /\ \A i \in {"text"} \union ReadyFiles : DoneWith(i)'
             /\ \E i \in Items \ {"text"} : DoneWith(i)'
  BY <1>7, <1>8
<1>10. \A i \in Items : delivery'[i] = "sending" =>
           i \in cut' \/ (delivery[i] = "sending" /\ ~Sender(t, i))
  OBVIOUS
<1>11. CutCounted' /\ DeliveredLast' /\ Dealing' /\ ToldTheTruth'
  BY <1>1, <1>2, <1>3, <1>5, <1>9, <1>10, DeliveryTells
<1> QED BY <1>1, <1>2, <1>4, <1>6, <1>11, DeliverLeaves

LEMMA AttemptOver ==
    ASSUME NEW t \in Threads
    PROVE  /\ Return(t) => /\ thread' = [thread EXCEPT ![t] = Idle]
                           /\ task' = IF Heard(t) THEN Resolved(t, "done") ELSE task
           /\ Raise(t) => /\ thread' = [thread EXCEPT ![t] = Idle]
                          /\ task' = IF Heard(t) THEN GivenUp(thread[t].act) ELSE task
           /\ Die(t) => /\ thread' = [thread EXCEPT ![t] = Idle]
                        /\ task' = IF Heard(t) THEN GivenUp(thread[t].act) ELSE task
BY DEF Return, Raise, Die

LEMMA DeliverTold ==
    ASSUME IInv, NEW t \in Threads, GaveUp(t) \/ Told(t)
    PROVE  IInv'
<1>1. /\ UNCHANGED <<analysis, files, delivery, sent, doubled, cut, jobRow>>
      /\ thread[t].act = "deliver" /\ thread[t].at \notin Sending
  BY DEF GaveUp, Told, At, Sending
<1>2. /\ \A i \in Items : ~Sender(t, i)
      /\ cut \subseteq Items
  BY <1>1 DEF Sender, IInv, TypeOK, MessagesTyped
<1>3. CASE GaveUp(t)
  <2>1. (Raise(t) \/ Return(t)) /\ told' \in {told, "failed"}
    BY <1>3 DEF GaveUp
  <2> QED BY <1>1, <1>2, <2>1, AttemptOver, DeliverEnds
<1>4. CASE Told(t)
  <2>1. Return(t) /\ told' = "sent" /\ thread[t].at = "item" /\ thread[t].todo = {}
    BY <1>4 DEF Told, At
  <2>2. Dealt(t)
    BY DEF IInv, Dealing
  <2>3. /\ \A i \in {"text"} \union ReadyFiles : DoneWith(i)
        /\ \E i \in Items \ {"text"} : DoneWith(i)
    BY <1>1, <2>1, <2>2 DEF Dealt
  <2> QED BY <1>1, <1>2, <2>1, <2>3, AttemptOver, DeliverEnds
<1> QED BY <1>3, <1>4

(* A delivery that may not start is done, or is done by an attempt that may   *)
(* be cut short: one of two attempts to deliver is no longer listened to.    *)
LEMMA NotStartedIsDone ==
    ASSUME IInv, NEW t \in Threads, thread[t].act = "deliver", thread[t].at = "item",
           NEW i \in Items, ~MayStart(i)
    PROVE  DoneWith(i)
<1> USE DEF IInv, TypeOK
<1>1. delivery[i] \in {"sending", "sent", "rejected"}
  BY DEF MayStart, MessagesTyped
<1>2. CASE delivery[i] = "sending" /\ i \notin cut
  <2>1. PICK u \in Threads : Sender(u, i)
    BY <1>2 DEF CutCounted
  <2>2. u # t /\ thread[u].act = "deliver"
    BY <2>1 DEF Sender, Sending
  <2>3. ~Heard(t) \/ ~Heard(u)
    BY <2>2 DEF Heard
  <2> QED BY <1>2, <2>2, <2>3 DEF CutCounted
<1>3. delivery[i] = "sent" => sent[i] > 0
  BY DEF SentKnown
<1> QED BY <1>1, <1>2, <1>3 DEF DoneWith

LEMMA DeliveryStarts ==
    ASSUME IInv, NEW t \in Threads, DeliveryStarted(t)
    PROVE  IInv'
<1> DEFINE i == Item(t)
<1>1. Delivering(t, "item") /\ "item" \in {"item"} \union Sending
      /\ UNCHANGED <<told, sent, doubled, cut, analysis, files, jobRow>>
  BY DEF DeliveryStarted
<1>2. i \in Items /\ thread[t].act = "deliver" /\ thread[t].at = "item"
  BY <1>1, DeliveringItem
<1>3. CASE MayStart(i)
  <2>1. delivery' = [delivery EXCEPT ![i] = "sending"] /\ task' = task
        /\ thread' = [thread EXCEPT ![t] = [thread[t] EXCEPT !.at = "send"]]
    BY <1>3 DEF DeliveryStarted, GoTo, Set
  <2>2. i \notin doubled' => sent'[i] = 0 /\ sent'[i] <= 1
    BY <1>1, <1>2, <1>3 DEF IInv, SentKnown, MayStart
  <2>3. "send" \in Sending /\ "send" \in Sending \union {"except"} /\ "send" # "sent"
    BY DEF Sending
  <2> QED BY <1>1, <1>3, <2>1, <2>2, <2>3, ItemGoes
<1>4. CASE ~MayStart(i)
  <2>1. DoneWith(i)
    BY <1>2, <1>4, NotStartedIsDone
  <2>2. Set(t, ItemDone(t)) /\ delivery' = delivery
    BY <1>4 DEF DeliveryStarted
  <2> QED BY <1>1, <2>1, <2>2, ItemSettled
<1> QED BY <1>3, <1>4

LEMMA DeliverySends ==
    ASSUME IInv, NEW t \in Threads,
           Rejected(t) \/ Sent(t) \/ SendRaised(t) \/ MarkedSent(t) \/ MarkedFailed(t)
    PROVE  IInv'
<1> DEFINE i == Item(t)
<1>1. {"send", "sent", "unsent"} \subseteq {"item"} \union Sending
  BY DEF Sending
<1>2. ASSUME NEW p \in Sending, Delivering(t, p)
      PROVE  /\ i \in Items /\ delivery[i] = "sending" /\ Sender(t, i) /\ thread[t].at = p
             /\ sent[i] \in Nat
             /\ delivery = [delivery EXCEPT ![i] = "sending"]
             /\ sent = [sent EXCEPT ![i] = sent[i]]
             /\ p = "sent" => sent[i] > 0
             /\ i \notin doubled => sent[i] <= 1 /\ (p # "sent" => sent[i] = 0)
  <2>1. i \in Items /\ Sender(t, i) /\ delivery[i] = "sending" /\ thread[t].at = p
    BY <1>2, DeliveringItem
  <2>2. /\ p = "sent" => sent[i] > 0
        /\ i \notin doubled => sent[i] <= 1 /\ (p # "sent" => sent[i] = 0)
    BY <2>1 DEF IInv, SentKnown
  <2> HIDE DEF i
  <2> QED BY <2>1, <2>2 DEF IInv, TypeOK, MessagesTyped
<1>3. CASE Rejected(t)
  <2>1. Delivering(t, "send") /\ Set(t, ItemDone(t))
        /\ delivery' = [delivery EXCEPT ![i] = "rejected"]
        /\ UNCHANGED <<told, sent, doubled, cut, analysis, files, jobRow>>
    BY <1>3 DEF Rejected
  <2>2. i \notin doubled => sent[i] = 0
    BY <1>2, <2>1 DEF Sending
  <2> QED BY <1>1, <2>1, <2>2, ItemSettled DEF Sending
<1>4. CASE MarkedSent(t)
  <2>1. Delivering(t, "sent") /\ Set(t, ItemDone(t))
        /\ delivery' = [delivery EXCEPT ![i] = "sent"]
        /\ UNCHANGED <<told, sent, doubled, cut, analysis, files, jobRow>>
    BY <1>4 DEF MarkedSent
  <2>2. sent[i] > 0
    BY <1>2, <2>1 DEF Sending
  <2> QED BY <1>1, <2>1, <2>2, ItemSettled DEF Sending
<1>5. {"send", "sent", "unsent", "except"} \subseteq Sending \union {"except"}
      /\ "except" \notin Sending
  BY DEF Sending
<1>6. CASE Sent(t)
  <2>1. /\ Delivering(t, "send") /\ sent' = [sent EXCEPT ![i] = @ + 1]
        /\ UNCHANGED <<delivery, told, doubled, cut, analysis, files, jobRow>> /\ task' = task
        /\ thread' = [thread EXCEPT ![t] = [thread[t] EXCEPT !.at = "sent"]]
    BY <1>6 DEF Sent, GoTo, Set
  <2>2. /\ "send" \in Sending /\ "sent" \in Sending
        /\ delivery' = [delivery EXCEPT ![i] = "sending"]
        /\ sent'[i] > 0 /\ (i \notin doubled => sent'[i] <= 1)
    BY <1>2, <2>1 DEF Sending, IInv, TypeOK, MessagesTyped
  <2> QED BY <1>1, <1>5, <2>1, <2>2, ItemGoes
<1>7. CASE MarkedFailed(t)
  <2>1. /\ Delivering(t, "unsent") /\ delivery' = [delivery EXCEPT ![i] = "failed"]
        /\ UNCHANGED <<told, sent, doubled, cut, analysis, files, jobRow>> /\ task' = task
        /\ thread' = [thread EXCEPT ![t] = [thread[t] EXCEPT !.at = "except"]]
    BY <1>7 DEF MarkedFailed, GoTo, Set
  <2>2. "unsent" \in Sending /\ (i \notin doubled => sent'[i] = 0)
    BY <1>2, <2>1 DEF Sending
  <2>3. i \notin doubled => sent'[i] <= 1
    BY <2>2
  <2> QED BY <1>1, <1>5, <2>1, <2>2, <2>3, ItemGoes
<1>8. CASE SendRaised(t)
  <2>1. /\ Delivering(t, "send") /\ UNCHANGED <<told, cut, analysis, files, jobRow>>
        /\ delivery' = delivery /\ task' = task
        /\ \/ UNCHANGED <<sent, doubled>>
           \/ sent' = [sent EXCEPT ![i] = @ + 1] /\ doubled' = doubled \union {i}
        /\ \E q \in {"send", "unsent"} :
               thread' = [thread EXCEPT ![t] = [thread[t] EXCEPT !.at = q]]
    BY <1>8 DEF SendRaised
  <2>2. PICK q \in {"send", "unsent"} :
            thread' = [thread EXCEPT ![t] = [thread[t] EXCEPT !.at = q]]
    BY <2>1
  <2>3. /\ "send" \in Sending /\ q \in Sending /\ q # "sent"
        /\ delivery' = [delivery EXCEPT ![i] = "sending"]
        /\ i \notin doubled => sent[i] = 0
    BY <1>2, <2>1 DEF Sending
  <2>4. i \notin doubled' => sent'[i] <= 1 /\ sent'[i] = 0
    BY <2>1, <2>3
  <2> QED BY <1>1, <2>1, <2>2, <2>3, <2>4, ItemGoes
<1> QED BY <1>3, <1>4, <1>6, <1>7, <1>8

-----------------------------------------------------------------------------
(* The steps of the other activities. *)

LEMMA OtherLeaves ==
    ASSUME IInv, NEW t \in Threads, thread[t].act # "deliver", TasksTyped', Turn(t),
           UNCHANGED <<delivery, told, sent, doubled, deliverables>>,
           job' \in {job, "completed", "failed"}, cut \subseteq cut', cut' \subseteq Items,
           thread'[t].act \in {"pdf", "xlsx"} /\ Heard(t) =>
               Heard(t)' \/ thread[t].act \in cut',
           \A k \in Kinds \ {thread[t].act} : row'[k] = row[k],
           AnalysisTyped', FilesTyped', PlannedFirst', Analysed', FinalResults', ChartsMade',
           FilesGood'
    PROVE  IInv'
<1> USE DEF IInv, TypeOK
<1>1. MessagesTyped'
  BY DEF MessagesTyped
<1>2. thread'[t].act # "deliver"
  BY DEF Turn
<1>3. Owes(t)' /\ \A i \in Items : ~Sender(t, i)'
  BY <1>2 DEF Owes, Sender
<1>4. OneSender' /\ SentKnown'
  BY <1>3, SenderRests
<1>5. ReadyFiles' \subseteq ReadyFiles \union ({thread[t].act} \intersect {"pdf", "xlsx"})
  BY DEF ReadyFiles, Kinds
<1>6. CutCounted' /\ DeliveredLast' /\ Dealing' /\ ToldTheTruth'
  BY <1>5, TellingLeft
<1> QED BY <1>1, <1>4, <1>6

LEMMA MessagesRest ==
    ASSUME IInv, UNCHANGED messages
    PROVE  UNCHANGED <<delivery, told, sent, doubled, cut>> /\ cut \subseteq cut' /\ cut' \subseteq Items
BY DEF messages, IInv, TypeOK, MessagesTyped

LEMMA OrderSteps ==
    ASSUME IInv, NEW t \in Threads,
           Validated(t) \/ Completed(t) \/ CloseStep(t) \/ MarkFailed(t)
    PROVE  IInv'
<1>1. /\ thread[t].act \in Closing \union {"validate", "complete", "fail"}
      /\ UNCHANGED <<analysis, files, messages>> /\ (Return(t) \/ Raise(t))
      /\ job' \in {job, "completed", "failed"} /\ deliverables' = deliverables
  BY DEF Validated, Completed, CloseStep, MarkFailed, At, jobRow
<1>2. TasksTyped' /\ Turn(t) /\ thread'[t] = Idle
  BY <1>1, AttemptOver, Ends DEF IInv, TypeOK
<1>3. thread[t].act \notin Analyses \union Kinds \union {"deliver", "charts", "pdf", "xlsx"}
      /\ Idle.act = "none"
  BY <1>1 DEF Analyses, Kinds, Closing, Idle
<1>4. \A a \in DOMAIN task \intersect (Analyses \union {"charts"}) : task'[a] = task[a]
  BY <1>2, <1>3 DEF Turn
<1>5. /\ AnalysisTyped' /\ FilesTyped' /\ PlannedFirst' /\ Analysed' /\ FinalResults'
      /\ ChartsMade' /\ FilesGood'
  BY <1>1, <1>2, <1>3, <1>4, WorkLeft
<1>6. row' = row
  BY <1>1 DEF files
<1> QED BY <1>1, <1>2, <1>3, <1>5, <1>6, MessagesRest, OtherLeaves

LEMMA Planned ==
    ASSUME IInv, "select" \in DOMAIN task
    PROVE  /\ DOMAIN task = {"select"} /\ result = {}
           /\ \A t \in Threads : thread[t].act \notin Analyses \union Kinds \union Final
           /\ \A k \in Kinds : file[k] = NoFile /\ row[k].status = "none"
<1>1. DOMAIN task = {"select"}
  BY Domains DEF IInv, TypeOK, Phases
<1>2. {"none", "select"} \intersect (Analyses \union Kinds \union Final) = {}
  BY DEF Analyses, Kinds, Final, Acts, Closing
<1> QED BY <1>1, <1>2 DEF IInv, PlannedFirst, NoRow

LEMMA PlanSteps ==
    ASSUME IInv, NEW t \in Threads, PlanMade(t)
    PROVE  IInv'
<1>1. thread[t].act = "select" /\ Return(t) /\ UNCHANGED <<result, runs, files, messages, jobRow>>
  BY DEF PlanMade, At
<1>2. TasksTyped' /\ Turn(t) /\ thread'[t] = Idle
  BY <1>1, AttemptOver, Ends DEF IInv, TypeOK
<1>3. thread[t].act \notin Analyses \union Kinds \union {"deliver", "charts", "pdf", "xlsx"}
      /\ Idle.act = "none"
  BY <1>1 DEF Analyses, Kinds, Idle
<1>4. \A a \in DOMAIN task \intersect (Analyses \union {"charts"}) : task'[a] = task[a]
  BY <1>2, <1>3 DEF Turn
<1>5. UNCHANGED <<job, deliverables, file, stamp, row>>
  BY <1>1 DEF jobRow, files
<1>6. CASE plan' = plan
  <2>1. /\ AnalysisTyped' /\ FilesTyped' /\ PlannedFirst' /\ Analysed' /\ FinalResults'
        /\ ChartsMade' /\ FilesGood'
    BY <1>1, <1>2, <1>3, <1>4, <1>6, WorkLeft DEF analysis
  <2> QED BY <1>1, <1>2, <1>3, <1>5, <2>1, MessagesRest, OtherLeaves
<1>7. CASE Heard(t) /\ plan' \in Plans
  <2>1. "select" \in DOMAIN task
    BY <1>1, <1>7 DEF Heard
  <2>2. /\ DOMAIN task' = {"select"} /\ result' = {}
        /\ \A u \in Threads : thread'[u].act \notin Analyses \union Kinds \union Final
        /\ \A k \in Kinds : file'[k] = NoFile /\ row'[k].status = "none"
    <3>1. "none" \notin Analyses \union Kinds \union Final
      BY DEF Analyses, Kinds, Final, Acts, Closing
    <3> QED BY <1>1, <1>2, <1>3, <1>5, <2>1, <3>1, Planned DEF Turn
  <2>3. "select" \notin Analyses \union Final \union {"charts"}
    BY DEF Analyses, Final
  <2>4. AnalysisTyped' /\ FilesTyped'
    BY <1>1, <1>5, <1>7 DEF AnalysisTyped, FilesTyped, IInv, TypeOK
  <2>5. PlannedFirst'
    BY <1>2, <1>5, <1>1, PlannedTurn DEF IInv
  <2>6. Analysed' /\ FinalResults'
    BY <2>2, <2>3 DEF Analysed, FinalResults
  <2>7. ChartsMade' /\ FilesGood'
    <3>1. "pdf" \in Kinds /\ DOMAIN task' # {"pdf", "xlsx"} /\ "charts" \notin DOMAIN task'
      BY <2>2 DEF Kinds
    <3> QED BY <2>2, <3>1 DEF ChartsMade, FilesGood, Rendered
  <2> QED BY <1>1, <1>2, <1>3, <1>5, <2>4, <2>5, <2>6, <2>7, MessagesRest, OtherLeaves
<1> QED BY <1>6, <1>7 DEF PlanMade

(* What the tools and the skills select. *)
LEMMA Selection ==
    ASSUME IInv, NEW a \in Analyses
    PROVE  Selected(a) \subseteq Results /\ Selected(a) \subseteq Tasks
<1>1. plan \in Plans => Selected(a) \subseteq Tasks
  BY DEF Selected, Tasks, Analyses
<1>2. plan = [tools |-> {}, skills |-> {}] => Selected(a) = {}
  BY DEF Selected, Analyses
<1> QED BY <1>1, <1>2 DEF Selected, Results, Analyses, IInv, TypeOK, AnalysisTyped

LEMMA AnalysisLeaves ==
    ASSUME IInv, NEW t \in Threads, thread[t].act \in Analyses, TasksTyped', Turn(t),
           UNCHANGED <<plan, files, messages, jobRow>>,
           runs' \in [Analyses -> {"none", "running", "completed", "failed"}],
           result' \in SUBSET Tasks, result \subseteq result', result' \subseteq Results,
           Computed(t)',
           \A a \in Analyses \intersect DOMAIN task :
               task'[a].by = "done" => task[a].by = "done" \/ Selected(a) \subseteq result'
    PROVE  IInv'
<1>1. UNCHANGED <<job, deliverables, file, stamp, row>>
  BY DEF jobRow, files
<1>2. thread[t].act \notin Kinds \union {"none", "select", "deliver", "charts", "pdf", "xlsx"}
  BY DEF Analyses, Kinds
<1>3. "select" \notin DOMAIN task
  BY <1>2, Planned
<1>4. AnalysisTyped' /\ FilesTyped'
  BY <1>1 DEF AnalysisTyped, FilesTyped, IInv, TypeOK
<1>5. PlannedFirst' /\ Analysed' /\ FinalResults'
  BY <1>3, PlannedTurn, AnalysedTurn, FinalTurn DEF IInv
<1>6. ChartsMade'
  <2>1. "charts" \in DOMAIN task => task'["charts"] = task["charts"]
    BY <1>2 DEF Turn
  <2> QED BY <1>1, <2>1, ChartsTurn DEF IInv
<1>7. FilesGood'
  <2>1. Rendered(t)'
    BY <1>2 DEF Rendered, Turn, Kinds
  <2> QED BY <1>1, <2>1, FilesTurn DEF IInv
<1> QED BY <1>1, <1>2, <1>4, <1>5, <1>6, <1>7, MessagesRest, OtherLeaves DEF Turn

LEMMA AnalysisSteps ==
    ASSUME IInv, NEW t \in Threads,
           \/ RunStarted(t) \/ CacheRead(t) \/ ResultSaved(t) \/ TaskRaised(t) \/ RunFailed(t)
           \/ RunCompleted(t)
    PROVE  IInv'
<1> DEFINE a == thread[t].act
<1>1. a \in Analyses /\ thread[t] \in Attempt /\ TasksTyped /\ Computed(t)
      /\ UNCHANGED <<plan, files, messages, jobRow>>
  BY Domains DEF RunStarted, CacheRead, ResultSaved, TaskRaised, RunFailed,
                 RunCompleted, Analyzing, Analyses, analysis, IInv, TypeOK, Analysed,
                 Computed
<1>2. /\ result \in SUBSET Tasks /\ result \subseteq Results
      /\ runs \in [Analyses -> {"none", "running", "completed", "failed"}]
      /\ Selected(a) \subseteq Results /\ Selected(a) \subseteq Tasks
  BY <1>1, Selection DEF IInv, TypeOK, AnalysisTyped, Analysed
<1>3. \A p \in {"plan", "task", "raised"} : p \in Places
  BY DEF Places
<1>4. ASSUME TasksTyped', Turn(t), result' = result, task' = task,
             runs' \in [Analyses -> {"none", "running", "completed", "failed"}], Computed(t)'
      PROVE  IInv'
  BY <1>1, <1>2, <1>4, AnalysisLeaves
<1>5. CASE RunStarted(t)
  <2>1. GoTo(t, "plan") /\ result' = result
        /\ runs' = [runs EXCEPT ![a] = IF runs[a] = "completed" THEN runs[a] ELSE "running"]
    BY <1>5 DEF RunStarted
  <2>2. TasksTyped' /\ Turn(t) /\ task' = task /\ thread'[t].at = "plan"
    BY <1>1, <1>3, <2>1, Goes DEF GoTo, Set
  <2>3. runs' \in [Analyses -> {"none", "running", "completed", "failed"}]
    BY <1>1, <1>2, <2>1
  <2> QED BY <1>4, <2>1, <2>2, <2>3 DEF Computed
<1>6. CASE CacheRead(t)
  <2> DEFINE n == [thread[t] EXCEPT !.at = "task", !.todo = Selected(a) \ result]
  <2>1. Set(t, n) /\ result' = result /\ runs' = runs
    BY <1>6 DEF CacheRead, analysis
  <2>2. n \in Attempt /\ n.act = a /\ n.todo = Selected(a) \ result
    BY <1>1, <1>2, <1>3 DEF Attempt
  <2> HIDE DEF n
  <2>3. TasksTyped' /\ Turn(t) /\ thread'[t] = n /\ task' = task
    BY <1>1, <2>1, <2>2, Moves DEF Set
  <2>4. Computed(t)'
    BY <1>1, <2>1, <2>2, <2>3 DEF Computed, Selected
  <2> QED BY <1>2, <1>4, <2>1, <2>3, <2>4
<1>7. CASE ResultSaved(t)
  <2>1. PICK k \in thread[t].todo :
            result' = result \union {k} /\ Set(t, [thread[t] EXCEPT !.todo = @ \ {k}])
    BY <1>7 DEF ResultSaved
  <2> DEFINE n == [thread[t] EXCEPT !.todo = @ \ {k}]
  <2>2. n \in Attempt /\ n.act = a /\ n.at = "task" /\ n.todo = thread[t].todo \ {k}
    BY <1>1, <1>7 DEF Attempt, ResultSaved, Analyzing
  <2>3. Set(t, n) /\ thread[t].at = "task" /\ runs' = runs
    BY <1>7, <2>1 DEF ResultSaved, Analyzing
  <2> HIDE DEF n
  <2>4. TasksTyped' /\ Turn(t) /\ thread'[t] = n /\ task' = task
    BY <1>1, <2>2, <2>3, Moves DEF Set
  <2>5. k \in Selected(a)
    BY <1>1, <2>3 DEF Computed
  <2>6. Computed(t)'
    BY <1>1, <2>1, <2>2, <2>3, <2>4 DEF Computed, Selected
  <2> QED BY <1>1, <1>2, <2>1, <2>3, <2>4, <2>5, <2>6, AnalysisLeaves
<1>8. CASE TaskRaised(t)
  <2>1. thread' = [thread EXCEPT ![t] = [thread[t] EXCEPT !.at = "raised"]] /\ task' = task
        /\ result' = result /\ runs' = runs
    BY <1>8 DEF TaskRaised, analysis
  <2>2. TasksTyped' /\ Turn(t) /\ thread'[t].at = "raised"
    BY <1>1, <1>3, <2>1, Goes
  <2> QED BY <1>2, <1>4, <2>1, <2>2 DEF Computed
<1>9. CASE RunFailed(t)
  <2>1. Raise(t) /\ result' = result
        /\ runs' = [runs EXCEPT ![a] = IF runs[a] = "completed" THEN runs[a] ELSE "failed"]
    BY <1>9 DEF RunFailed
  <2>2. TasksTyped' /\ Turn(t) /\ thread'[t] = Idle
    BY <1>1, <2>1, AttemptOver, Ends
  <2>3. \A b \in DOMAIN task : task'[b].by = "done" => task[b].by = "done"
    BY <1>1, <2>1, RaisedUndone
  <2>4. runs' \in [Analyses -> {"none", "running", "completed", "failed"}]
    BY <1>1, <1>2, <2>1
  <2> QED BY <1>1, <1>2, <2>1, <2>2, <2>3, <2>4, AnalysisLeaves DEF Computed, Idle
<1>10. CASE RunCompleted(t)
  <2>1. Return(t) /\ result' = result /\ thread[t].at = "task" /\ thread[t].todo = {}
        /\ runs' = [runs EXCEPT ![a] = "completed"]
    BY <1>10 DEF RunCompleted, Analyzing
  <2>2. TasksTyped' /\ Turn(t) /\ thread'[t] = Idle
    BY <1>1, <2>1, AttemptOver, Ends
  <2>3. Selected(a) \subseteq result'
    BY <1>1, <2>1 DEF Computed
  <2>4. \A b \in DOMAIN task : b # a => task'[b] = task[b]
    BY <2>2 DEF Turn
  <2>5. runs' \in [Analyses -> {"none", "running", "completed", "failed"}]
    BY <1>1, <1>2, <2>1
  <2> QED BY <1>1, <1>2, <2>1, <2>2, <2>3, <2>4, <2>5, AnalysisLeaves DEF Computed, Idle
<1> QED BY <1>5, <1>6, <1>7, <1>8, <1>9, <1>10

LEMMA FilesLeave ==
    ASSUME IInv, NEW t \in Threads, thread[t].act \in Kinds, TasksTyped', Turn(t),
           UNCHANGED <<analysis, messages, jobRow>>, FilesTyped',
           \A k \in Kinds \ {thread[t].act} : file'[k] = file[k] /\ row'[k] = row[k],
           file'[thread[t].act] \in {file[thread[t].act], Good(thread[t].act)},
           \/ row'[thread[t].act] = row[thread[t].act]
           \/ row'[thread[t].act].status = "ready" =>
                  /\ row'[thread[t].act].made = Good(thread[t].act)
                  /\ file'[thread[t].act] = Good(thread[t].act),
           Rendered(t)', Heard(t)' = Heard(t) \/ thread'[t] = Idle,
           \/ task' = task \/ thread[t].act # "charts"
           \/ file'["charts"] = Good("charts")
    PROVE  IInv'
<1> DEFINE a == thread[t].act
<1>1. UNCHANGED <<plan, result, runs, job, deliverables>>
  BY DEF jobRow, analysis
<1>2. a \notin Analyses \union {"none", "select", "deliver"} /\ Idle.act = "none"
      /\ {"charts", "pdf", "xlsx"} \subseteq Kinds
  BY DEF Analyses, Kinds, Idle
<1>3. "select" \notin DOMAIN task
  BY <1>2, Planned
<1>4. AnalysisTyped'
  BY <1>1 DEF AnalysisTyped, IInv, TypeOK
<1>5. PlannedFirst' /\ FinalResults'
  BY <1>1, <1>3, PlannedTurn, FinalTurn DEF IInv
<1>6. Analysed'
  <2>1. \A b \in Analyses \intersect DOMAIN task : task'[b] = task[b]
    BY <1>2 DEF Turn
  <2>2. Computed(t)'
    BY <1>2 DEF Computed, Turn, Analyses
  <2>3. result \subseteq Results
    BY DEF IInv, Analysed
  <2> QED BY <1>1, <2>1, <2>2, <2>3, AnalysedTurn DEF IInv
<1>7. ChartsMade'
  <2>1. a # "charts" /\ "charts" \in DOMAIN task => task'["charts"] = task["charts"]
    BY DEF Turn
  <2>2. file'["charts"] \in {file["charts"], Good("charts")}
    BY <1>2
  <2> QED BY <1>1, <2>1, <2>2, ChartsTurn DEF IInv
<1>8. FilesGood'
  <2>1. ASSUME NEW k \in Kinds
        PROVE  /\ file'[k] \in {file[k], Good(k)}
               /\ \/ row'[k] = row[k]
                  \/ row'[k].status = "ready" =>
                         row'[k].made = Good(k) /\ file'[k] = Good(k)
    <3>1. CASE k = a
      BY <3>1
    <3>2. CASE k # a
      BY <3>2
    <3> QED BY <3>1, <3>2
  <2> QED BY <1>1, <2>1, FilesTurn DEF IInv
<1> QED BY <1>1, <1>2, <1>4, <1>5, <1>6, <1>7, <1>8, MessagesRest, OtherLeaves

(* What an attempt to make a file knows.                                     *)
LEMMA KnowsResults ==
    ASSUME IInv, NEW t \in Threads, thread[t].act \in Kinds
    PROVE  /\ result = Results /\ thread[t] \in Attempt /\ Rendered(t)
           /\ <<Results, None>> \in Made /\ <<Results, Results>> \in Made
           /\ thread[t].act = "pdf" => file["charts"] = <<Results, None>>
           /\ file \in [Kinds -> Made] /\ stamp \in Made
           /\ row \in [Kinds -> [status : {"none", "ready", "failed"}, made : Made]]
           /\ \A k \in Kinds : file[k] \in {NoFile, Good(k)}
<1>1. result = Results
  <2>1. thread[t].act \in Final
    BY DEF Final, Acts, Kinds, Analyses
  <2> QED BY <2>1 DEF IInv, FinalResults, Analysed
<1>2. <<Results, None>> \in Made /\ <<Results, Results>> \in Made
  BY <1>1 DEF IInv, TypeOK, AnalysisTyped, Made, Contents, None
<1>3. thread[t].act = "pdf" => file["charts"] = <<Results, None>>
  BY DEF IInv, ChartsMade, Good
<1> QED BY <1>1, <1>2, <1>3, Domains DEF IInv, TypeOK, FilesTyped, FilesGood

LEMMA ContextSteps ==
    ASSUME IInv, NEW t \in Threads, ContextRead(t)
    PROVE  IInv'
<1> DEFINE a == thread[t].act
           n == [thread[t] EXCEPT !.at = "write", !.made = <<result, None>>]
<1>1. a \in Kinds /\ UNCHANGED <<analysis, files, messages, jobRow>>
      /\ UNCHANGED <<plan, file, stamp, row>>
      /\ TasksTyped /\ FilesTyped'
  BY DEF ContextRead, Rendering, analysis, files, IInv, TypeOK, FilesTyped
<1>2. result = Results /\ thread[t] \in Attempt /\ <<Results, None>> \in Made
  BY <1>1, KnowsResults
<1>3. CASE Skipped(a)
  <2>1. Return(t) /\ a # "charts"
    BY <1>3 DEF ContextRead, Skipped
  <2>2. TasksTyped' /\ Turn(t) /\ thread'[t] = Idle
    BY <1>1, <2>1, AttemptOver, Ends
  <2>3. Rendered(t)'
    BY <2>2 DEF Rendered, Idle, Kinds
  <2> QED BY <1>1, <2>1, <2>2, <2>3, FilesLeave
<1>4. CASE ~Skipped(a)
  <2>1. Set(t, n)
    BY <1>4 DEF ContextRead
  <2>2. n \in Attempt /\ n.act = a /\ n.at = "write" /\ n.made = <<Results, None>>
    BY <1>2 DEF Attempt, Places
  <2> HIDE DEF n
  <2>3. TasksTyped' /\ Turn(t) /\ thread'[t] = n /\ task' = task /\ Heard(t)' = Heard(t)
    BY <1>1, <2>1, <2>2, Moves DEF Set
  <2>4. Results' = Results
    BY <1>1 DEF Results
  <2>5. Rendered(t)'
    BY <2>2, <2>3, <2>4 DEF Rendered
  <2> QED BY <1>1, <2>3, <2>5, FilesLeave
<1> QED BY <1>3, <1>4

LEMMA RenderSteps ==
    ASSUME IInv, NEW t \in Threads,
           \/ JsonWritten(t) \/ ChartsRendered(t) \/ LatexRendered(t) \/ WorkbookRendered(t)
    PROVE  IInv'
<1> DEFINE a == thread[t].act
<1>1. a \in {"json", "charts", "latex", "xlsx"} /\ thread[t].at = "write" /\ a \in Kinds
  BY DEF JsonWritten, ChartsRendered, LatexRendered, WorkbookRendered, Render, At, Kinds
<1>2. /\ thread[t].made = <<Results, None>> /\ Good(a) = <<Results, None>>
      /\ thread[t] \in Attempt /\ <<Results, None>> \in Made /\ file \in [Kinds -> Made]
      /\ file["xlsx"] \in {NoFile, Good("xlsx")}
  BY <1>1, KnowsResults DEF Rendered, Good, Kinds
<1>3. Render(t, a, Good(a))
  <2>1. a = "xlsx" /\ Sufficient(t) => file["xlsx"] = Good(a)
    BY <1>2 DEF Sufficient
  <2> QED BY <1>1, <1>2, <2>1
          DEF JsonWritten, ChartsRendered, LatexRendered, WorkbookRendered, Render, At
<1> DEFINE n == [thread[t] EXCEPT !.at = "row", !.made = Good(a)]
<1>4. n \in Attempt /\ n.act = a /\ n.at = "row" /\ n.made = Good(a)
  BY <1>2 DEF Attempt, Places
<1>5. Set(t, n) /\ file' = [file EXCEPT ![a] = Good(a)] /\ UNCHANGED <<stamp, row>>
      /\ UNCHANGED <<analysis, messages, jobRow>> /\ plan' = plan
  BY <1>3 DEF Render, Written, analysis
<1> HIDE DEF n
<1>6. TasksTyped' /\ Turn(t) /\ thread'[t] = n /\ task' = task /\ Heard(t)' = Heard(t)
  BY <1>4, <1>5, Moves DEF Set, IInv, TypeOK
<1>7. FilesTyped' /\ file'[a] = Good(a) /\ \A k \in Kinds \ {a} : file'[k] = file[k]
  BY <1>1, <1>2, <1>5 DEF FilesTyped, IInv, TypeOK
<1>8. \A k \in Kinds : Good(k)' = Good(k)
  BY <1>5 DEF Good, Results
<1>9. Rendered(t)'
  BY <1>1, <1>4, <1>6, <1>7, <1>8 DEF Rendered
<1> QED BY <1>1, <1>5, <1>6, <1>7, <1>9, FilesLeave

LEMMA PdfSteps ==
    ASSUME IInv, NEW t \in Threads, PdfBegin(t) \/ PdfCompiled(t) \/ PdfStamped(t)
    PROVE  IInv'
<1>1. thread[t].act \in Kinds /\ thread[t].at \in {"write", "compile", "stamp"}
      /\ (PdfBegin(t) => thread[t].act = "pdf")
      /\ UNCHANGED <<row, analysis, messages, jobRow>> /\ plan' = plan
  BY DEF PdfBegin, PdfCompiled, PdfStamped, Rendering, analysis, files
<1>2. /\ thread[t] \in Attempt /\ <<Results, None>> \in Made /\ <<Results, Results>> \in Made
      /\ file \in [Kinds -> Made] /\ stamp \in Made /\ Rendered(t)
      /\ row \in [Kinds -> [status : {"none", "ready", "failed"}, made : Made]]
  BY <1>1, KnowsResults
<1>3. thread[t].act = "pdf" /\ "pdf" \in Kinds /\ Good("pdf") = <<Results, Results>>
      /\ file["charts"] = <<Results, None>> /\ file["pdf"] \in {NoFile, Good("pdf")}
  <2>1. thread[t].act = "pdf"
    BY <1>1, <1>2 DEF Rendered, PdfCompiled, PdfStamped, Rendering
  <2> QED BY <1>1, <2>1, KnowsResults DEF Good, Kinds
<1>4. Results' = Results /\ Good("pdf")' = Good("pdf")
  BY <1>1 DEF Results, Good
<1>5. {"row", "compile", "stamp", "unavailable"} \subseteq Places
  BY DEF Places
<1>6. CASE PdfBegin(t)
  <2> DEFINE here == file["pdf"] # NoFile /\ stamp = <<thread[t].made[1], file["charts"][1]>>
             n == [thread[t] EXCEPT !.made = Good("pdf"), !.at = IF here THEN "row" ELSE "compile"]
  <2>1. thread[t].made = <<Results, None>>
    BY <1>1, <1>2, <1>6 DEF Rendered, PdfBegin, Rendering
  <2>2. <<thread[t].made[1], file["charts"][1]>> = Good("pdf")
    BY <1>3, <2>1
  <2>3. Set(t, n) /\ UNCHANGED <<file, stamp>>
    BY <1>6, <2>2 DEF PdfBegin, files
  <2>4. n \in Attempt /\ n.act = "pdf" /\ n.made = Good("pdf") /\ n.at \in {"row", "compile"}
        /\ (n.at = "row" => here)
    BY <1>2, <1>3, <1>5 DEF Attempt
  <2>5. n.at = "row" => file["pdf"] = Good("pdf")
    BY <1>3, <2>4
  <2> HIDE DEF n
  <2>6. TasksTyped' /\ Turn(t) /\ thread'[t] = n /\ task' = task /\ Heard(t)' = Heard(t)
    BY <1>3, <2>3, <2>4, Moves DEF Set, IInv, TypeOK
  <2>7. Rendered(t)'
    BY <1>4, <2>3, <2>4, <2>5, <2>6 DEF Rendered
  <2>8. FilesTyped'
    BY <1>1, <1>2, <2>3 DEF FilesTyped
  <2> QED BY <1>1, <2>3, <2>6, <2>7, <2>8, FilesLeave
<1>7. CASE PdfCompiled(t)
  <2>1. thread[t].at = "compile" /\ thread[t].made = Good("pdf") /\ stamp' = stamp
    BY <1>2, <1>3, <1>7 DEF Rendered, PdfCompiled, Rendering
  <2>2. \/ file' = [file EXCEPT !["pdf"] = Good("pdf")] /\ GoTo(t, "stamp")
        \/ GoTo(t, "unavailable") /\ file' = file
    BY <1>3, <1>7, <2>1 DEF PdfCompiled, Written
  <2>3. PICK q \in {"stamp", "unavailable"} :
            GoTo(t, q) /\ (q = "stamp" => file' = [file EXCEPT !["pdf"] = Good("pdf")])
    BY <2>2
  <2>4. /\ TasksTyped' /\ Turn(t) /\ task' = task /\ Heard(t)' = Heard(t)
        /\ thread'[t].act = "pdf" /\ thread'[t].at = q /\ thread'[t].made = Good("pdf")
    BY <1>3, <1>5, <2>1, <2>3, Goes DEF GoTo, Set, IInv, TypeOK
  <2>5. /\ file'["pdf"] \in {file["pdf"], Good("pdf")} /\ file' \in [Kinds -> Made]
        /\ \A k \in Kinds \ {"pdf"} : file'[k] = file[k]
        /\ q = "stamp" => file'["pdf"] = Good("pdf")
    BY <1>2, <1>3, <2>2, <2>3
  <2>6. Rendered(t)'
    BY <1>4, <2>4, <2>5 DEF Rendered
  <2>7. FilesTyped'
    BY <1>1, <1>2, <2>1, <2>5 DEF FilesTyped
  <2> QED BY <1>1, <1>3, <2>4, <2>5, <2>6, <2>7, FilesLeave
<1>8. CASE PdfStamped(t)
  <2>1. /\ thread[t].at = "stamp" /\ thread[t].made = Good("pdf") /\ file["pdf"] = Good("pdf")
        /\ GoTo(t, "row") /\ file' = file /\ stamp' = Good("pdf")
    BY <1>2, <1>3, <1>8 DEF Rendered, PdfStamped, Rendering
  <2>2. /\ TasksTyped' /\ Turn(t) /\ task' = task /\ Heard(t)' = Heard(t)
        /\ thread'[t].act = "pdf" /\ thread'[t].at = "row" /\ thread'[t].made = Good("pdf")
    BY <1>3, <1>5, <2>1, Goes DEF GoTo, Set, IInv, TypeOK
  <2>3. Rendered(t)'
    BY <1>4, <2>1, <2>2 DEF Rendered
  <2>4. FilesTyped'
    BY <1>1, <1>2, <1>3, <2>1 DEF FilesTyped
  <2> QED BY <1>1, <2>1, <2>2, <2>3, <2>4, FilesLeave
<1> QED BY <1>6, <1>7, <1>8

LEMMA RowSteps ==
    ASSUME IInv, NEW t \in Threads, RowSaved(t)
    PROVE  IInv'
<1> DEFINE a == thread[t].act
           r == IF thread[t].at = "row" THEN [status |-> "ready", made |-> thread[t].made]
                ELSE [status |-> "failed", made |-> NoFile]
<1>1. /\ a \in Kinds /\ thread[t].at \in {"row", "unavailable"} /\ Return(t)
      /\ row' = [row EXCEPT ![a] = r] /\ UNCHANGED <<file, stamp>>
      /\ UNCHANGED <<analysis, messages, jobRow>> /\ plan' = plan
  BY DEF RowSaved, Rendering, analysis
<1>2. /\ thread[t] \in Attempt /\ Rendered(t) /\ file \in [Kinds -> Made] /\ stamp \in Made
      /\ row \in [Kinds -> [status : {"none", "ready", "failed"}, made : Made]]
  BY <1>1, KnowsResults
<1>3. TasksTyped' /\ Turn(t) /\ thread'[t] = Idle
  BY <1>1, AttemptOver, Ends DEF IInv, TypeOK
<1>4. r \in [status : {"none", "ready", "failed"}, made : Made]
      /\ (r.status = "ready" => r.made = Good(a) /\ file[a] = Good(a))
  BY <1>1, <1>2, IdleTyped DEF Rendered, Attempt
<1>5. a = "charts" => file["charts"] = Good("charts")
  BY <1>1, <1>2 DEF Rendered
<1> HIDE DEF r
<1>6. FilesTyped' /\ row'[a] = r /\ \A k \in Kinds \ {a} : row'[k] = row[k]
  BY <1>1, <1>2, <1>4 DEF FilesTyped
<1>7. Rendered(t)'
  BY <1>3 DEF Rendered, Idle, Kinds
<1> QED BY <1>1, <1>3, <1>4, <1>5, <1>6, <1>7, FilesLeave

-----------------------------------------------------------------------------
(* The steps of the service and of the workflow. *)

LEMMA DeathSteps ==
    ASSUME IInv, NEW t \in Threads, Die(t), cut' = cut \union Underway(t),
           UNCHANGED <<analysis, files, delivery, told, sent, doubled, jobRow>>
    PROVE  IInv'
<1>1. /\ thread' = [thread EXCEPT ![t] = Idle]
      /\ task' = IF Heard(t) THEN GivenUp(thread[t].act) ELSE task
  BY AttemptOver
<1>2. cut \subseteq cut' /\ cut' \subseteq Items /\ \A i \in Items : Sender(t, i) => i \in cut'
  <2>1. Underway(t) \subseteq Items
    BY ItemIn DEF Underway, IInv, OneSender, Sending
  <2>2. \A i \in Items : Sender(t, i) => i \in Underway(t)
    BY DEF Underway, Sender, Sending
  <2> QED BY <2>1, <2>2 DEF IInv, TypeOK, MessagesTyped
<1>3. CASE thread[t].act = "deliver"
  BY <1>1, <1>2, <1>3, DeliverEnds
<1>4. CASE thread[t].act # "deliver"
  <2>1. TasksTyped' /\ Turn(t) /\ thread'[t] = Idle
    BY <1>1, Ends DEF IInv, TypeOK
  <2>2. \A a \in DOMAIN task : task'[a].by = "done" => task[a].by = "done"
    BY RaisedUndone DEF IInv, TypeOK
  <2>3. /\ AnalysisTyped' /\ FilesTyped' /\ PlannedFirst' /\ Analysed' /\ FinalResults'
        /\ ChartsMade' /\ FilesGood'
    BY <2>1, <2>2, WorkLeft
  <2>4. row' = row /\ job' = job /\ deliverables' = deliverables /\ Idle.act = "none"
    BY DEF files, jobRow, Idle
  <2> QED BY <1>2, <1>4, <2>1, <2>3, <2>4, OtherLeaves
<1> QED BY <1>3, <1>4

LEMMA TimeOutSteps ==
    ASSUME IInv, NEW t \in Threads, TimeOut(t),
           cut' = IF thread[t].act = "deliver" THEN Items
                  ELSE cut \union ({thread[t].act} \intersect Items),
           UNCHANGED <<analysis, files, delivery, told, sent, doubled, jobRow>>
    PROVE  IInv'
<1>1. /\ TasksTyped' /\ Turn(t) /\ thread' = thread
      /\ \A a \in DOMAIN task : task'[a].by = "done" => task[a].by = "done"
  BY TimesOut DEF IInv, TypeOK
<1>2. cut \subseteq cut' /\ cut' \subseteq Items
  BY DEF IInv, TypeOK, MessagesTyped
<1>3. row' = row /\ job' = job /\ deliverables' = deliverables
  BY DEF files, jobRow
<1>4. CASE thread[t].act = "deliver"
  <2>1. Items \subseteq cut' /\ MessagesTyped'
    BY <1>2, <1>3, <1>4 DEF IInv, TypeOK, MessagesTyped
  <2>2. Owes(t)' /\ \A i \in Items : Sender(t, i)' => Sender(t, i)
    BY <1>1, ItemKept DEF Owes, Sender, IInv, OneSender
  <2>3. OneSender' /\ SentKnown'
    BY <1>1, <2>2, SenderRests DEF IInv
  <2>4. Dealt(t)'
    <3>1. Dealt(t) /\ ReadyFiles' = ReadyFiles /\ ReadyFiles \subseteq Items /\ "text" \in Items
      BY <1>3 DEF IInv, Dealing, ReadyFiles, Items
    <3>2. \A i \in Items : DoneWith(i)'
      BY <2>1 DEF DoneWith
    <3> QED BY <1>1, <3>1, <3>2 DEF Dealt
  <2>5. CutCounted' /\ DeliveredLast' /\ Dealing' /\ ToldTheTruth'
    BY <1>1, <1>2, <1>3, <1>4, <2>1, <2>4, DeliveryTells DEF IInv, TypeOK
  <2> QED BY <1>1, <1>4, <2>1, <2>3, <2>5, DeliverLeaves
<1>5. CASE thread[t].act # "deliver"
  <2>1. /\ AnalysisTyped' /\ FilesTyped' /\ PlannedFirst' /\ Analysed' /\ FinalResults'
        /\ ChartsMade' /\ FilesGood'
    BY <1>1, WorkLeft
  <2>2. thread[t].act \in {"pdf", "xlsx"} => thread[t].act \in cut'
    BY <1>5 DEF Items
  <2> QED BY <1>1, <1>2, <1>3, <1>5, <2>1, <2>2, OtherLeaves
<1> QED BY <1>4, <1>5

LEMMA FollowsOrder ==
    ASSUME NEW acts, Follows(acts) # {}
    PROVE  \/ acts = {"select"} /\ Follows(acts) = {"tools", "skills"}
           \/ acts = {"tools", "skills"} /\ Follows(acts) = {"json"}
           \/ acts = {"json"} /\ Follows(acts) = {"charts", "latex"}
           \/ acts = {"charts", "latex"} /\ Follows(acts) = {"pdf", "xlsx"}
           \/ acts = {"pdf", "xlsx"} /\ Follows(acts) = {"validate"}
           \/ acts = {"validate"} /\ Follows(acts) = {"complete"}
           \/ acts = {"complete"} /\ Follows(acts) = {"register"}
           \/ acts = {"register"} /\ Follows(acts) = {"announce"}
           \/ acts = {"announce"} /\ Follows(acts) = {"deliver"}
           \/ acts = {"deliver"} /\ Follows(acts) = {"finish"}
BY DEF Follows

LEMMA QueuedTyped ==
    ASSUME NEW acts \in Phases
    PROVE  /\ Queued(acts) \in [acts -> Awaiting]
           /\ \A a \in acts : Queued(acts)[a].by = "queue"
<1>1. \A a \in acts : Attempts[a] \in Int
  BY AttemptsAssumption DEF Phases, Kinds, Closing
<1> QED BY <1>1 DEF Queued, Awaiting

LEMMA AdvanceSteps ==
    ASSUME IInv, Advance
    PROVE  IInv'
<1> DEFINE acts == Follows(DOMAIN task)
<1>1. /\ \A a \in DOMAIN task : task[a].by = "done"
      /\ acts # {} /\ task' = Queued(acts) /\ thread' = thread
      /\ UNCHANGED <<plan, result, runs, file, stamp, row, delivery, told, sent, doubled, cut>>
      /\ UNCHANGED <<job, deliverables>>
  BY DEF Advance, Gathered, Awaited, analysis, files, messages, jobRow
<1>2. \/ DOMAIN task = {"select"} /\ acts = {"tools", "skills"}
      \/ DOMAIN task = {"tools", "skills"} /\ acts = {"json"}
      \/ DOMAIN task = {"json"} /\ acts = {"charts", "latex"}
      \/ DOMAIN task = {"charts", "latex"} /\ acts = {"pdf", "xlsx"}
      \/ DOMAIN task = {"pdf", "xlsx"} /\ acts = {"validate"}
      \/ DOMAIN task = {"validate"} /\ acts = {"complete"}
      \/ DOMAIN task = {"complete"} /\ acts = {"register"}
      \/ DOMAIN task = {"register"} /\ acts = {"announce"}
      \/ DOMAIN task = {"announce"} /\ acts = {"deliver"}
      \/ DOMAIN task = {"deliver"} /\ acts = {"finish"}
  BY <1>1, FollowsOrder
<1> HIDE DEF acts
<1>3. acts \in Phases
  BY <1>2 DEF Phases
<1>4. task' \in [acts -> Awaiting] /\ DOMAIN task' = acts /\ \A a \in acts : task'[a].by = "queue"
  BY <1>1, <1>3, QueuedTyped
<1>5. TypeOK'
  BY <1>1, <1>3, <1>4
  DEF IInv, TypeOK, TasksTyped, AnalysisTyped, FilesTyped, MessagesTyped
<1>6. \A t \in Threads : ~Heard(t) /\ ~Heard(t)'
  BY <1>1, <1>4, ThreadsApart DEF Heard
<1>7. PlannedFirst'
  BY <1>2, <1>4 DEF PlannedFirst
<1>8. Analysed'
  BY <1>1, <1>4 DEF IInv, Analysed, Results, Selected
<1>9. FinalResults'
  <2>1. acts \intersect Final # {} => Results \subseteq result
    <3>1. CASE DOMAIN task = {"select"}
      BY <1>2, <3>1 DEF Final, Analyses
    <3>2. CASE DOMAIN task = {"tools", "skills"}
      BY <1>1, <3>2 DEF IInv, Analysed, Results, Selected, Analyses
    <3>3. ASSUME NEW a \in Closing \union {"json", "charts", "pdf", "validate", "complete", "deliver"},
                 a \in DOMAIN task
          PROVE  Results \subseteq result
      <4>1. a \in Final
        BY <3>3 DEF Final, Acts, Kinds, Closing, Analyses
      <4> QED BY <3>3, <4>1 DEF IInv, FinalResults
    <3> QED BY <1>2, <3>1, <3>2, <3>3 DEF Closing
  <2> QED BY <1>1, <1>4, <2>1 DEF IInv, FinalResults, Results
<1>10. ChartsMade'
  <2>1. Good("charts")' = Good("charts")
    BY <1>1 DEF Good, Results
  <2>2. acts = {"pdf", "xlsx"} => file["charts"] = Good("charts")
    BY <1>1, <1>2 DEF IInv, ChartsMade
  <2> QED BY <1>1, <1>4, <2>1, <2>2 DEF IInv, ChartsMade
<1>11. FilesGood'
  <2>1. \A k \in Kinds : Good(k)' = Good(k)
    BY <1>1 DEF Good, Results
  <2>2. Results' = Results
    BY <1>1 DEF Results
  <2> QED BY <1>1, <2>1, <2>2 DEF IInv, FilesGood, Rendered
<1>12. \A t \in Threads, i \in Items : Sender(t, i)' = Sender(t, i)
  BY <1>1, ItemKept DEF Sender
<1>13. OneSender' /\ SentKnown'
  BY <1>1, <1>12 DEF IInv, OneSender, SentKnown
<1>14. DeliveredLast'
  <2>1. Delivers' => Delivers \/ acts = {"deliver"}
    BY <1>1, <1>2, <1>4 DEF Delivers
  <2>2. Delivers => DOMAIN task = {"deliver"}
    BY <1>2 DEF IInv, DeliveredLast
  <2> QED BY <1>2, <1>4, <2>1, <2>2 DEF DeliveredLast
<1>15. CutCounted'
  <2>1. DOMAIN task # {"fail"}
    BY <1>2
  <2> QED BY <1>1, <1>6, <1>12, <2>1 DEF IInv, CutCounted
<1>16. Dealing' /\ ToldTheTruth'
  BY <1>1 DEF IInv, Dealing, Dealt, ToldTheTruth, DoneWith, ReadyFiles
<1> QED BY <1>5, <1>7, <1>8, <1>9, <1>10, <1>11, <1>13, <1>14, <1>15, <1>16 DEF IInv

LEMMA FailureSteps ==
    ASSUME IInv, WorkflowFailed
    PROVE  IInv'
<1>1. /\ Awaited("failed") # {} /\ task' = Queued({"fail"}) /\ thread' = thread
      /\ UNCHANGED <<plan, result, runs, file, stamp, row, delivery, told, sent, doubled, cut>>
      /\ UNCHANGED <<job, deliverables>> /\ DOMAIN task # {"fail"}
  BY DEF WorkflowFailed, analysis, files, messages, jobRow
<1>2. {"fail"} \in Phases
  BY DEF Phases
<1>3. /\ task' \in [{"fail"} -> Awaiting] /\ DOMAIN task' = {"fail"}
      /\ task'["fail"].by = "queue"
  BY <1>1, <1>2, QueuedTyped
<1>4. TypeOK'
  BY <1>1, <1>2, <1>3
  DEF IInv, TypeOK, TasksTyped, AnalysisTyped, FilesTyped, MessagesTyped
<1>5. PlannedFirst' /\ Analysed' /\ FinalResults'
  BY <1>1, <1>3
  DEF IInv, PlannedFirst, Analysed, FinalResults, Results, Selected, Final, Analyses
<1>6. ChartsMade' /\ FilesGood'
  <2>1. \A k \in Kinds : Good(k)' = Good(k)
    BY <1>1 DEF Good, Results
  <2>2. Results' = Results /\ "charts" \in Kinds
    BY <1>1 DEF Results, Kinds
  <2> QED BY <1>1, <1>3, <2>1, <2>2 DEF IInv, ChartsMade, FilesGood, Rendered
<1>7. \A t \in Threads, i \in Items : Sender(t, i)' = Sender(t, i)
  BY <1>1, ItemKept DEF Sender
<1>8. OneSender' /\ SentKnown'
  BY <1>1, <1>7 DEF IInv, OneSender, SentKnown
<1>9. Delivers' => Delivers
  BY <1>1, <1>3 DEF Delivers
<1>10. DeliveredLast'
  BY <1>3 DEF DeliveredLast
<1>11. CutCounted'
  <2>1. ASSUME NEW t \in Threads, thread[t].act = "deliver" PROVE Items \subseteq cut
    <3>1. DOMAIN task \in {{"deliver"}, {"finish"}, {"fail"}}
      BY <2>1 DEF IInv, DeliveredLast, Delivers
    <3>2. "deliver" \in DOMAIN task => task["deliver"].by = "failed"
      BY <1>1, <3>1 DEF Awaited
    <3>3. ~Heard(t)
      BY <2>1, <3>2, ThreadsApart DEF Heard
    <3> QED BY <2>1, <3>3 DEF IInv, CutCounted
  <2>2. Delivers' =>
            \A t \in Threads : thread[t].act \in {"pdf", "xlsx"} => thread[t].act \in cut
    BY <1>9, ReadyLate DEF IInv, TypeOK
  <2> QED BY <1>1, <1>3, <1>7, <2>1, <2>2 DEF IInv, CutCounted
<1>12. Dealing' /\ ToldTheTruth'
  BY <1>1 DEF IInv, Dealing, Dealt, ToldTheTruth, DoneWith, ReadyFiles
<1> QED BY <1>4, <1>5, <1>6, <1>8, <1>10, <1>11, <1>12 DEF IInv

LEMMA DispatchSteps ==
    ASSUME IInv, Dispatch
    PROVE  IInv'
<1>1. /\ UNCHANGED <<plan, result, runs, file, stamp, row, delivery, told, sent, doubled, cut>>
      /\ UNCHANGED <<job, deliverables>>
  BY DEF Dispatch, analysis, files, messages, jobRow
<1>2. PICK t \in Threads : Pick(t)
  BY DEF Dispatch
<1>3. PICK a \in DOMAIN task :
          /\ task[a].by = "queue"
          /\ thread' = [thread EXCEPT ![t] = [Idle EXCEPT !.act = a, !.at = "start",
                                              !.nth = Attempts[a] - task[a].left + 1]]
          /\ task' = [task EXCEPT ![a].by = t]
  BY <1>2 DEF Pick
<1> DEFINE n == [Idle EXCEPT !.act = a, !.at = "start", !.nth = Attempts[a] - task[a].left + 1]
           w == [task[a] EXCEPT !.by = t]
<1>4. a \in Acts /\ task[a] \in Awaiting /\ Attempts[a] \in Int /\ TasksTyped
  BY Domains, AttemptsAssumption DEF IInv, TypeOK, Acts
<1>5. /\ n \in Attempt /\ n.act = a /\ n.at = "start" /\ n.todo = {}
      /\ w \in Awaiting /\ w.by = t
  <2>1. Idle \in [act : Acts \union {"none"}, at : Places, nth : Int,
                  todo : SUBSET (Tasks \union Items), made : Made]
    BY IdleTyped DEF Attempt
  <2>2. Attempts[a] - task[a].left + 1 \in Int /\ "start" \in Places /\ Idle.todo = {}
    BY <1>4 DEF Awaiting, Places, Idle
  <2>3. n \in Attempt /\ n.act = a /\ n.at = "start" /\ n.todo = {}
    BY <1>4, <2>1, <2>2 DEF Attempt
  <2>4. w \in Awaiting /\ w.by = t
    BY <1>4 DEF Awaiting
  <2> QED BY <2>3, <2>4
<1>6. thread' = [thread EXCEPT ![t] = n] /\ task' = [task EXCEPT ![a] = w]
  BY <1>3
<1> HIDE DEF n, w
<1>7. /\ thread'[t] = n /\ \A u \in Threads \ {t} : thread'[u] = thread[u]
      /\ DOMAIN task' = DOMAIN task /\ task'[a] = w
      /\ \A b \in DOMAIN task \ {a} : task'[b] = task[b]
      /\ TasksTyped'
  BY <1>4, <1>5, <1>6 DEF TasksTyped
<1>8. Heard(t)' /\ \A u \in Threads \ {t} : Heard(u)' = Heard(u)
  BY <1>3, <1>5, <1>7, ThreadsApart DEF Heard
<1>9. thread[t] = Idle /\ thread[t].act = "none" /\ thread[t].at = "none"
  BY <1>2 DEF Pick, Idle
<1>10. TypeOK'
  BY <1>1, <1>7 DEF IInv, TypeOK, AnalysisTyped, FilesTyped, MessagesTyped
<1>11. PlannedFirst'
  <2>1. "select" \in DOMAIN task => a = "select"
    BY Planned
  <2> QED BY <1>1, <1>5, <1>7, <2>1 DEF IInv, PlannedFirst
<1>12. Analysed'
  <2>1. ASSUME NEW u \in Threads PROVE Computed(u)'
    <3>1. CASE u = t
      BY <1>5, <1>7, <3>1 DEF Computed
    <3>2. CASE u # t
      BY <1>1, <1>7, <3>2 DEF IInv, Analysed, Computed, Selected
    <3> QED BY <3>1, <3>2
  <2>2. ASSUME NEW b \in Analyses \intersect DOMAIN task', task'[b].by = "done"
        PROVE  Selected(b)' \subseteq result'
    BY <1>1, <1>5, <1>7, <2>2, ThreadsApart DEF IInv, Analysed, Selected
  <2>3. result' \subseteq Results'
    BY <1>1 DEF IInv, Analysed, Results
  <2> QED BY <2>1, <2>2, <2>3 DEF Analysed, Computed
<1>13. FinalResults'
  <2>1. Results' = Results
    BY <1>1 DEF Results
  <2>2. a \in Final => Results \subseteq result
    BY DEF IInv, FinalResults
  <2> QED BY <1>1, <1>5, <1>7, <2>1, <2>2 DEF IInv, FinalResults
<1>14. ChartsMade'
  <2>1. Good("charts")' = Good("charts")
    BY <1>1 DEF Good, Results
  <2>2. a = "pdf" => DOMAIN task = {"pdf", "xlsx"}
    BY <1>4, Domains DEF Phases
  <2>3. a = "pdf" => file["charts"] = Good("charts")
    BY <2>2 DEF IInv, ChartsMade
  <2> QED BY <1>1, <1>5, <1>7, <2>1, <2>3, ThreadsApart DEF IInv, ChartsMade
<1>15. FilesGood'
  <2>1. (\A k \in Kinds : Good(k)' = Good(k)) /\ Results' = Results
    BY <1>1 DEF Good, Results
  <2>2. ASSUME NEW u \in Threads PROVE Rendered(u)'
    <3>1. CASE u = t
      BY <1>5, <1>7, <3>1 DEF Rendered
    <3>2. CASE u # t
      BY <1>1, <1>7, <2>1, <3>2 DEF IInv, FilesGood, Rendered
    <3> QED BY <3>1, <3>2
  <2> QED BY <1>1, <2>1, <2>2 DEF IInv, FilesGood
<1>16. \A u \in Threads, i \in Items : Sender(u, i)' = Sender(u, i)
  <2>1. "start" \notin Sending /\ "none" \notin Sending
    BY DEF Sending
  <2>2. ASSUME NEW u \in Threads \ {t}, NEW i \in Items PROVE Sender(u, i)' = Sender(u, i)
    BY <1>7, ItemKept DEF Sender
  <2> QED BY <1>5, <1>7, <1>9, <2>1, <2>2 DEF Sender
<1>17. \A u \in Threads, i \in Items : Sender(u, i) => thread'[u].at = thread[u].at
  BY <1>7, <1>9 DEF Sender, Sending
<1>18. OneSender'
  <2>1. ASSUME NEW u \in Threads PROVE Owes(u)'
    BY <1>5, <1>7 DEF IInv, OneSender, Owes, Sending
  <2> QED BY <1>1, <1>16, <2>1 DEF IInv, OneSender, Owes
<1>19. SentKnown'
  BY <1>1, <1>16, <1>17 DEF IInv, SentKnown
<1>20. Delivers' => Delivers
  BY <1>1, <1>5, <1>7 DEF Delivers
<1>21. DeliveredLast'
  BY <1>7, <1>20 DEF IInv, DeliveredLast
<1>22. CutCounted'
  BY <1>1, <1>7, <1>8, <1>16, <1>20 DEF IInv, CutCounted
<1>23. Dealing' /\ ToldTheTruth'
  <2>1. ReadyFiles' = ReadyFiles /\ \A i : DoneWith(i)' = DoneWith(i)
    BY <1>1 DEF ReadyFiles, DoneWith
  <2>2. ASSUME NEW u \in Threads PROVE Dealt(u)'
    <3>1. CASE u = t
      BY <1>5, <1>7, <3>1 DEF Dealt, Sending
    <3>2. CASE u # t
      BY <1>7, <2>1, <3>2 DEF IInv, Dealing, Dealt
    <3> QED BY <3>1, <3>2
  <2>3. ToldTheTruth'
    BY <1>1, <2>1 DEF IInv, ToldTheTruth
  <2> QED BY <2>2, <2>3 DEF Dealing
<1> QED
  BY <1>10, <1>11, <1>12, <1>13, <1>14, <1>15, <1>18, <1>19, <1>21, <1>22, <1>23
  DEF IInv

-----------------------------------------------------------------------------

LEMMA Initially == Init => IInv
<1> SUFFICES ASSUME Init PROVE IInv
  OBVIOUS
<1>1. {"select"} \in Phases /\ DOMAIN task = {"select"} /\ task \in [{"select"} -> Awaiting]
      /\ task["select"].by = "queue"
  BY QueuedTyped DEF Init, Phases
<1>2. \A t \in Threads : thread[t] = Idle /\ thread[t].act = "none"
  BY DEF Init, Idle
<1>3. TypeOK
  <2>1. TasksTyped
    BY <1>1, IdleTyped DEF Init, TasksTyped
  <2>2. AnalysisTyped /\ FilesTyped /\ MessagesTyped
    BY IdleTyped DEF Init, AnalysisTyped, Analyses, FilesTyped, NoRow, MessagesTyped
  <2> QED BY <2>1, <2>2 DEF TypeOK
<1>4. PlannedFirst
  BY <1>2 DEF PlannedFirst, Init
<1>5. "none" \notin Analyses \union Kinds \union Final
      /\ "select" \notin Analyses \union Final /\ "pdf" \in Kinds
  BY DEF Analyses, Kinds, Final, Acts, Closing
<1>6. Analysed /\ FinalResults
  BY <1>1, <1>2, <1>5 DEF Analysed, FinalResults, Init
<1>7. ChartsMade /\ FilesGood
  BY <1>1, <1>2, <1>5 DEF ChartsMade, FilesGood, Rendered, Init, NoRow
<1>8. \A t \in Threads, i \in Items : ~Sender(t, i)
  BY <1>2 DEF Sender
<1>9. OneSender /\ SentKnown
  BY <1>2, <1>8 DEF OneSender, SentKnown, Init
<1>10. ~Delivers
  BY <1>1, <1>2 DEF Delivers, Init
<1>11. DeliveredLast /\ CutCounted /\ Dealing
  BY <1>2, <1>10 DEF DeliveredLast, CutCounted, Dealing, Dealt, Init
<1>12. ToldTheTruth
  BY DEF ToldTheTruth, Init
<1> QED BY <1>3, <1>4, <1>6, <1>7, <1>9, <1>11, <1>12 DEF IInv

LEMMA Inductive == IInv /\ [Next]_vars => IInv'
<1> SUFFICES ASSUME IInv, [Next]_vars PROVE IInv'
  OBVIOUS
<1>1. ASSUME NEW t \in Threads, Activity(t) PROVE IInv'
  BY <1>1, PlanSteps, AnalysisSteps, ContextSteps, RenderSteps, PdfSteps, RowSteps, OrderSteps,
     DeliverBegins, DeliveryStarts, DeliverySends, DeliverTold DEF Activity
<1>2. CASE Service
  <2>1. PICK t \in Threads :
            \/ Die(t) /\ cut' = cut \union Underway(t)
            \/ TimeOut(t) /\ cut' = IF thread[t].act = "deliver" THEN Items
                                    ELSE cut \union ({thread[t].act} \intersect Items)
    BY <1>2 DEF Service
  <2>2. UNCHANGED <<analysis, files, delivery, told, sent, doubled, jobRow>>
    BY <1>2 DEF Service
  <2> QED BY <2>1, <2>2, DeathSteps, TimeOutSteps
<1>3. CASE UNCHANGED vars
  <2>1. /\ UNCHANGED <<task, thread, plan, result, runs, file, stamp, row, delivery, told, sent>>
        /\ UNCHANGED <<doubled, cut, job, deliverables>>
    BY <1>3 DEF vars, taskVars, analysis, files, messages, jobRow
  <2>2. TypeOK'
    BY <2>1 DEF IInv, TypeOK, TasksTyped, AnalysisTyped, FilesTyped, MessagesTyped
  <2>3. PlannedFirst' /\ Analysed' /\ FinalResults'
    BY <2>1 DEF IInv, PlannedFirst, Analysed, FinalResults, Results, Selected
  <2>4. ChartsMade' /\ FilesGood'
    BY <2>1 DEF IInv, ChartsMade, FilesGood, Rendered, Good, Results
  <2>5. \A t \in Threads, i \in Items : Sender(t, i)' = Sender(t, i)
    BY <2>1, ItemKept DEF Sender
  <2>6. OneSender' /\ SentKnown'
    BY <2>1, <2>5 DEF IInv, OneSender, SentKnown
  <2>7. CutCounted' /\ DeliveredLast'
    BY <2>1, <2>5 DEF IInv, CutCounted, DeliveredLast, Delivers, Heard
  <2>8. Dealing' /\ ToldTheTruth'
    BY <2>1 DEF IInv, Dealing, Dealt, ToldTheTruth, DoneWith, ReadyFiles
  <2> QED BY <2>2, <2>3, <2>4, <2>6, <2>7, <2>8 DEF IInv
<1> QED BY <1>1, <1>2, <1>3, AdvanceSteps, FailureSteps, DispatchSteps DEF Next

LEMMA Invariance == Spec => []IInv
BY Initially, Inductive, PTL DEF Spec

(* Plans, attempts, results, files and deliveries are what the tables and    *)
(* the activities hold, whatever fails or is given up.                       *)
THEOREM TypeCorrect == Spec => []TypeOK
<1>1. IInv => TypeOK
  BY DEF IInv
<1> QED BY <1>1, Invariance, PTL

(* The ready files of a completed job, PDF and charts included, are made of   *)
(* the results of both branches of the analysis, and what is on disk is what  *)
(* the rows describe (render_* activities, validate_artifacts).              *)
THEOREM FilesShowOneAnalysis == Spec => []OneAnalysis
<1>1. IInv => OneAnalysis
  BY DEF IInv, FilesGood, OneAnalysis, Good
<1> QED BY <1>1, Invariance, PTL

(* try_start_notification_delivery and try_start_artifact_delivery let the    *)
(* chat have each item once, however many attempts to deliver run at once.   *)
THEOREM ItemsSentOnce == Spec => []SentOnce
<1>1. IInv => SentOnce
  BY DEF IInv, SentKnown, SentOnce
<1> QED BY <1>1, Invariance, PTL

(* mark_notification_sent is only reached when the text, every ready file     *)
(* that could be sent, and one file at least, went out, were refused or were  *)
(* cut short.                                                                *)
THEOREM NotifiedMeansTold == Spec => []ToldTheTruth
<1>1. IInv => ToldTheTruth
  BY DEF IInv
<1> QED BY <1>1, Invariance, PTL
=============================================================================
