------------------------ MODULE ResearchWorkflowProofs ------------------------
(***************************************************************************)
(* The two halves of a research workflow: that the acquisition of sources   *)
(* and the extraction of evidence repeat, skip and forget nothing, and that *)
(* tables and workflow then agree on the report, for any sources, files,    *)
(* claims, threads and rounds of validation, and any number of attempts     *)
(* that fail or are lost.                                                   *)
(***************************************************************************)
EXTENDS ResearchSources, ReportPipeline, Integers, WellFoundedInduction, TLAPS

-----------------------------------------------------------------------------
(* FROM THE PLAN TO THE TABLES (ResearchSources).  The inductive invariant:   *)
(* the types, ...                                                             *)

Activities == {"plan", "search", "discover", "download", "detect", "parse", "normalize",
               "fetch", "extract", "profile"}
SplitOnly == {"discover", "download", "detect", "parse", "normalize"}
Waiting == {"queue", "done", "failed"}

IsCandidate(g) == DOMAIN g = {"src", "text", "file", "lands", "dup"}

(* Where an attempt is in the middle of its current source. *)
Holding == {"page", "asset", "unreadable", "tables", "dataset", "status", "row", "asked", "store",
            "stored"}

(* An attempt of the awaited task is one of the awaited activity; one that    *)
(* reads a file reads one that there is.                                      *)
AttemptTyped(t) ==
    /\ thread[t] = [act |-> thread[t].act, at |-> thread[t].at, read |-> thread[t].read]
    /\ thread[t].act \in Activities \union {"none"}
    /\ thread[t].act = "none" => thread[t] = Idle
    /\ task.by = t => thread[t].act = task.act
    /\ thread[t].act \in SplitOnly => split
    /\ thread[t].act = "fetch" => ~split
    /\ thread[t].act = "extract" => thread[t].at \in {"start", "source", "asked", "store", "stored"}
    /\ thread[t].act \in {"fetch", "extract"} /\ thread[t].at \in Holding => todo[t] # {}
    /\ thread[t].act = "parse" => \A x \in thread[t].read : x.file \in Files
    /\ thread[t].at \in {"asset", "tables", "dataset"} => got[t].file \in Files
    /\ IsCandidate(got[t])

TaskTyped ==
    /\ task = [act |-> task.act, left |-> task.left, by |-> task.by]
    /\ task.act \in Activities /\ task.left \in Nat /\ task.by \in Threads \union Waiting
    /\ task.act \in SplitOnly => split
    /\ task.act = "fetch" => ~split
    /\ timeouts \in Nat /\ losses \in Nat

LocalsTyped ==
    /\ DOMAIN thread = Threads /\ DOMAIN got = Threads /\ DOMAIN hashes = Threads
    /\ todo \in [Threads -> SUBSET Sources]

TablesTyped ==
    /\ DOMAIN source = Sources /\ DOMAIN evidence = Sources /\ checkpoint \in 0..NumSources
    /\ tables \subseteq Files /\ dataset \in [Files -> {"none", "raw", "profiled"}]

Typed ==
    /\ TaskTyped /\ LocalsTyped /\ TablesTyped
    /\ \A t \in Threads : AttemptTyped(t)

(* ... who runs what, ...                                                     *)
InStep == \A t \in Threads : thread[t].act # "none" => thread[t].act = task.act
Alone == \A t \in Threads : thread[t].act # "none" => task.by = t

(* ... what has been put to the model: all that has evidence, all up to the   *)
(* checkpoint, and all an attempt has behind it, ...                          *)
EvidenceExamined ==
    /\ \A s \in Sources : evidence[s] # {} => s \in examined
    /\ \A t \in Threads : thread[t].act = "extract" /\ thread[t].at \in {"store", "stored"}
                            => Current(t) \in examined

Examining(t) == thread[t].act = "extract" /\ thread[t].at # "start"
Progress ==
    /\ task.act = "extract" =>
         /\ \A s \in Fetched : s <= checkpoint => s \in examined
         /\ \A t \in Threads : Examining(t) => Fetched \ todo[t] \subseteq examined
    /\ (task.act = "extract" /\ task.by = "done") \/ task.act = "profile" => Fetched \subseteq examined

(* ... which tables have a dataset, ...                                       *)
Made == \A c \in tables : dataset[c] # "none" \/ c \in cut
Between(t) == thread[t].act = "fetch" /\ thread[t].at = "dataset"
MadeOrMaking ==
    \A c \in tables : \/ dataset[c] # "none" \/ c \in cut
                     \/ \E t \in Threads : Between(t) /\ got[t].file = c

MakingRest(t) ==
    thread[t].act = "normalize" /\ thread[t].at = "item" =>
        \A c \in tables : dataset[c] = "none" => c \in thread[t].read
ProfilingRest(t) ==
    thread[t].act = "profile" /\ thread[t].at = "item" =>
        \A c \in tables : \/ dataset[c] = "profiled" \/ c \in thread[t].read \/ got[t].dup
                         \/ (dataset[c] = "none" /\ c \in cut)

Datasets ==
    /\ (task.act = "normalize" /\ task.by = "done") \/ task.act \in {"extract", "profile"} => Made
    /\ \A t \in Threads : MakingRest(t) /\ ProfilingRest(t)
    /\ task.act = "profile" /\ task.by = "done" =>
         \A c \in tables : dataset[c] = "profiled" \/ (dataset[c] = "none" /\ c \in cut)

(* ... and that an attempt knows the contents of all fetched sources.         *)
Comparing(t) ==
    \/ thread[t].act \in {"fetch", "discover"} /\ thread[t].at # "start"
    \/ thread[t].act = "parse" /\ thread[t].at \notin {"start", "parsed"}
Fresh(t) == got[t].dup \/ Norm[got[t].text] \notin hashes[t]
Compared(t) ==
    /\ Norms \subseteq hashes[t]
    /\ thread[t].at \in {"page", "status"} => Fresh(t)
    /\ thread[t].at = "row" => got[t].text = "none" \/ Fresh(t)
    /\ thread[t].at \in {"asset", "unreadable"} => got[t].text = "none"

AllDistinct == \A r, s \in Fetched : Norm[source[r].text] = Norm[source[s].text] => r = s
Distinct == AllDistinct /\ \A t \in Threads : Comparing(t) => Compared(t)

IInv == /\ Typed /\ EvidenceExamined
        /\ ~split => MadeOrMaking
        /\ cut # {} => ~split
        /\ ~stray => InStep /\ Progress /\ Datasets
        /\ timeouts = 0 => Alone /\ Distinct

-----------------------------------------------------------------------------
(* Sources in the order of their ids.                                         *)

LEMMA LeastSource ==
    ASSUME NEW S \in SUBSET Sources, S # {}
    PROVE  \E s \in S : \A r \in S : s <= r
<1> DEFINE Below == OpToRel(<, Nat)
<1>1. IsWellFoundedOn(Below, Nat)
  BY NatLessThanWellFounded
<1>2. S \subseteq Nat
  BY SourcesAssumption DEF Sources
<1>3. \A m, n \in Nat : <<m, n>> \in Below <=> m < n
  BY DEF OpToRel
<1> HIDE DEF Below
<1>4. PICK m \in S : \A n \in S : ~(<<n, m>> \in Below)
  BY <1>1, <1>2, WFMin
<1>5. ASSUME NEW n \in S PROVE m <= n
  <2>1. m \in Nat /\ n \in Nat
    BY <1>2, <1>4
  <2>2. ~(n < m)
    BY <1>3, <1>4, <2>1
  <2> QED BY <2>1, <2>2
<1> QED BY <1>4, <1>5

LEMMA CurrentLeast ==
    ASSUME LocalsTyped, NEW t \in Threads, todo[t] # {}
    PROVE  Current(t) \in todo[t] /\ Current(t) \in Sources /\ \A r \in todo[t] : Current(t) <= r
BY LeastSource DEF LocalsTyped, Current

LEMMA Places == \A t \in Threads : t \notin Waiting
BY ThreadsAssumption DEF Waiting

-----------------------------------------------------------------------------
(* The shapes of a step of an attempt: it goes on, or it ends.                *)

Others(t) ==
    /\ DOMAIN thread' = Threads
    /\ \A u \in Threads \ {t} : thread'[u] = thread[u]

Continues(t, p, read) ==
    /\ Others(t) /\ UNCHANGED <<task, timeouts>> /\ losses' \in Nat
    /\ thread'[t] = [act |-> thread[t].act, at |-> p, read |-> read]
    /\ thread'[t].act = thread[t].act /\ thread'[t].at = p /\ thread'[t].read = read

Ends(t) ==
    /\ Others(t) /\ UNCHANGED timeouts /\ losses' \in Nat
    /\ thread'[t] = Idle /\ thread'[t].act = "none"
    /\ task' = [act |-> task.act, left |-> task'.left, by |-> task'.by]
    /\ task'.act = task.act /\ task'.left \in Nat /\ task'.by \in Threads \union Waiting
    /\ IF task.by = t THEN task'.by \in Waiting ELSE task' = task

Succeeds(t) == Ends(t) /\ (task'.by = "done" => task.by \in {t, "done"})
Fails(t) == Ends(t) /\ (task'.by = "done" => task.by = "done")

LEMMA GoesOn ==
    ASSUME Typed, NEW t \in Threads, NEW p, NEW read, GoTo(t, p, read)
    PROVE  Continues(t, p, read)
  <1>1. /\ DOMAIN thread = Threads /\ losses \in Nat
        /\ thread[t] = [act |-> thread[t].act, at |-> thread[t].at, read |-> thread[t].read]
    BY DEF Typed, TaskTyped, LocalsTyped, AttemptTyped
  <1>2. thread' = [thread EXCEPT ![t].at = p, ![t].read = read] /\ UNCHANGED <<task, timeouts, losses>>
    BY DEF GoTo
  <1>3. Others(t) /\ thread'[t] = [act |-> thread[t].act, at |-> p, read |-> read]
    BY <1>1, <1>2 DEF Others
  <1> QED BY <1>1, <1>2, <1>3 DEF Continues

LEMMA StaysPut ==
    ASSUME Typed, NEW t \in Threads, UNCHANGED taskVars
    PROVE  Continues(t, thread[t].at, thread[t].read)
BY DEF Typed, TaskTyped, LocalsTyped, AttemptTyped, Others, Continues, taskVars

LEMMA EndsOnce ==
    ASSUME Typed, NEW t \in Threads
    PROVE  /\ Return(t) => Succeeds(t)
           /\ Raise(t) \/ Fault(t) => Fails(t)
  <1>1. /\ DOMAIN thread = Threads /\ losses \in Nat /\ t \notin Waiting
        /\ task = [act |-> task.act, left |-> task.left, by |-> task.by]
        /\ task.left \in Nat /\ task.by \in Threads \union Waiting
    BY Places DEF Typed, TaskTyped, LocalsTyped
  <1>2. Return(t) \/ Raise(t) \/ Fault(t) =>
          Others(t) /\ UNCHANGED timeouts /\ losses' \in Nat /\ thread'[t] = Idle
    BY <1>1 DEF Return, Raise, Fault, Others
  <1>3. Idle.act = "none"
    BY DEF Idle
  <1>4. /\ GivenUp = [act |-> task.act, left |-> GivenUp.left, by |-> GivenUp.by]
        /\ GivenUp.left \in Nat /\ GivenUp.by \in {"queue", "failed"}
    <2>1. CASE task.left > 1
      <3>1. GivenUp = [act |-> task.act, left |-> task.left - 1, by |-> "queue"]
        BY <1>1, <2>1 DEF GivenUp
      <3> QED BY <1>1, <2>1, <3>1
    <2>2. CASE ~(task.left > 1)
      <3>1. GivenUp = [act |-> task.act, left |-> 0, by |-> "failed"]
        BY <1>1, <2>2 DEF GivenUp
      <3> QED BY <3>1
    <2> QED BY <2>1, <2>2
  <1>5. ASSUME Return(t) PROVE Succeeds(t)
    <2>1. CASE task.by = t
      <3>1. task' = [act |-> task.act, left |-> task.left, by |-> "done"]
        BY <1>1, <1>5, <2>1 DEF Return
      <3> QED BY <1>1, <1>2, <1>3, <1>5, <2>1, <3>1 DEF Succeeds, Ends, Waiting
    <2>2. CASE task.by # t
      <3>1. task' = task
        BY <1>5, <2>2 DEF Return
      <3> QED BY <1>1, <1>2, <1>3, <1>5, <2>2, <3>1 DEF Succeeds, Ends
    <2> QED BY <2>1, <2>2
  <1>6. ASSUME Raise(t) \/ Fault(t) PROVE Fails(t)
    <2>1. CASE task.by = t
      <3>1. task' = GivenUp
        BY <1>6, <2>1 DEF Raise, Fault
      <3> QED BY <1>1, <1>2, <1>3, <1>4, <1>6, <2>1, <3>1 DEF Fails, Ends, Waiting
    <2>2. CASE task.by # t
      <3>1. task' = task
        BY <1>6, <2>2 DEF Raise, Fault
      <3> QED BY <1>1, <1>2, <1>3, <1>6, <2>2, <3>1 DEF Fails, Ends
    <2> QED BY <2>1, <2>2
  <1> QED BY <1>5, <1>6

-----------------------------------------------------------------------------
(* A step of an attempt changes its own locals, and of the tables what its    *)
(* activity is about.                                                         *)

LocalStep(t) ==
    /\ DOMAIN got' = Threads /\ DOMAIN hashes' = Threads /\ todo' \in [Threads -> SUBSET Sources]
    /\ IsCandidate(got'[t])
    /\ \A u \in Threads \ {t} : todo'[u] = todo[u] /\ got'[u] = got[u] /\ hashes'[u] = hashes[u]

Effects(t) ==
    /\ UNCHANGED <<split, stray, cut>> /\ thread[t].act # "none"
    /\ thread[t].act \notin {"search", "discover", "fetch", "download", "parse"} => UNCHANGED source
    /\ thread[t].act \notin {"fetch", "parse"} => UNCHANGED tables
    /\ thread[t].act \notin {"fetch", "normalize", "profile"} => UNCHANGED dataset
    /\ thread[t].act \notin {"fetch", "extract"} => UNCHANGED checkpoint
    /\ thread[t].act # "extract" => UNCHANGED <<evidence, examined>>
    /\ \A c \in Files : dataset[c] # "none" => dataset'[c] # "none"

Moves(t) ==
    /\ Ends(t) \/ Continues(t, thread'[t].at, thread'[t].read)
    /\ LocalStep(t) /\ Effects(t) /\ TablesTyped' /\ AttemptTyped(t)'

LEMMA MovesOn ==
    ASSUME Typed, NEW t \in Threads, NEW p, NEW read, Continues(t, p, read),
           LocalStep(t), Effects(t), TablesTyped',
           thread[t].act = "extract" => p \in {"start", "source", "asked", "store", "stored"},
           thread[t].act \in {"fetch", "extract"} /\ p \in Holding => todo'[t] # {},
           thread[t].act = "parse" => \A x \in read : x.file \in Files,
           p \in {"asset", "tables", "dataset"} => got'[t].file \in Files
    PROVE  Moves(t)
  <1>1. AttemptTyped(t)
    BY DEF Typed
  <1>2. AttemptTyped(t)'
    BY <1>1 DEF AttemptTyped, Continues, LocalStep, Effects, Activities, Idle
  <1> QED BY <1>2 DEF Moves, Continues

LEMMA MovesOut ==
    ASSUME Typed, NEW t \in Threads, Ends(t), LocalStep(t), Effects(t), TablesTyped'
    PROVE  Moves(t)
  <1>1. task'.by # t
    BY Places DEF Ends
  <1>2. Idle = [act |-> "none", at |-> "none", read |-> {}] /\ Idle.at = "none"
    BY DEF Idle
  <1>3. AttemptTyped(t)'
    BY <1>1, <1>2 DEF AttemptTyped, Ends, LocalStep, SplitOnly
  <1> QED BY <1>3 DEF Moves

LEMMA Forgets ==
    ASSUME Typed, NEW t \in Threads, Forget(t)
    PROVE  LocalStep(t)
  <1>1. IsCandidate(NoCandidate)
    BY DEF IsCandidate, NoCandidate
  <1> QED BY <1>1 DEF Typed, LocalsTyped, Forget, LocalStep

LEMMA Finishes ==
    ASSUME Typed, NEW t \in Threads, Finish(t) \/ Fail(t), Effects(t), TablesTyped'
    PROVE  /\ Moves(t) /\ (Finish(t) => Succeeds(t)) /\ (Fail(t) => Fails(t))
  <1>1. LocalStep(t) /\ (Finish(t) => Succeeds(t)) /\ (Fail(t) => Fails(t))
    BY Forgets, EndsOnce DEF Finish, Fail
  <1> QED BY <1>1, MovesOut DEF Succeeds, Fails

LEMMA NoRecord == IsCandidate(NoCandidate) /\ NoCandidate.text = "none"
BY DEF IsCandidate, NoCandidate

(* What PageRead and FileTried hold. *)
LEMMA PageRecord ==
    \A s, o : IsCandidate(Page(s, o)) /\ Page(s, o).text = o.text
BY DEF IsCandidate, Page, NoCandidate

LEMMA FileRecord ==
    ASSUME NEW s, NEW c
    PROVE  IsCandidate(File(s, c)) /\ File(s, c).file = c /\ File(s, c).text = "none"
BY DEF IsCandidate, File, NoCandidate

-----------------------------------------------------------------------------
(* Each action is such a step.                                                *)

LEMMA PlanMoves ==
    ASSUME Typed, NEW t \in Threads, PlanMade(t)
    PROVE  Moves(t)
  <1>1. Effects(t) /\ TablesTyped'
    BY DEF PlanMade, At, Effects, Typed, TablesTyped
  <1>2. ASSUME GoTo(t, "save", {}), UNCHANGED locals PROVE Moves(t)
    <2>1. LocalStep(t) /\ thread[t].act = "plan"
      BY <1>2 DEF PlanMade, At, locals, LocalStep, Typed, LocalsTyped, AttemptTyped
    <2> QED BY <1>1, <1>2, <2>1, GoesOn, MovesOn
  <1> QED BY <1>1, <1>2, Finishes DEF PlanMade

LEMMA SearchMoves ==
    ASSUME Typed, NEW t \in Threads, SearchBegin(t) \/ SourceAdded(t) \/ SearchEnd(t)
    PROVE  Moves(t)
  <1>1. Effects(t) /\ TablesTyped' /\ thread[t].act = "search"
    BY DEF SearchBegin, SourceAdded, SearchEnd, At, Effects, Typed, TablesTyped, found, Row
  <1>2. ASSUME NEW n \in {0, NumSources}, List(t, 1..n), GoTo(t, "add", {}), UNCHANGED <<got, hashes>>
        PROVE  Moves(t)
    <2>1. 1..n \subseteq Sources
      BY SourcesAssumption DEF Sources
    <2>2. LocalStep(t)
      BY <1>2, <2>1 DEF List, LocalStep, Typed, LocalsTyped, AttemptTyped
    <2> QED BY <1>1, <1>2, <2>2, GoesOn, MovesOn
  <1>3. CASE SourceAdded(t)
    <2>1. LocalStep(t)
      BY <1>3 DEF SourceAdded, NextSource, List, LocalStep, Typed, LocalsTyped, AttemptTyped
    <2>2. thread[t].at = "add" /\ Continues(t, thread[t].at, thread[t].read)
      BY <1>3, StaysPut DEF SourceAdded, At
    <2> QED BY <1>1, <2>1, <2>2, MovesOn
  <1> QED BY <1>1, <1>2, <1>3, Finishes DEF SearchBegin, SearchEnd

LEMMA FetchBeginMoves ==
    ASSUME Typed, NEW t \in Threads, FetchBegin(t)
    PROVE  Moves(t) /\ Continues(t, "item", {})
  <1>1. Effects(t) /\ TablesTyped' /\ thread[t].act \in {"discover", "fetch"}
    BY DEF FetchBegin, At, Effects, Typed, TablesTyped, found
  <1>2. LocalStep(t)
    BY DEF FetchBegin, List, After, Status, LocalStep, Typed, LocalsTyped, AttemptTyped
  <1>3. Continues(t, "item", {})
    BY GoesOn DEF FetchBegin
  <1> QED BY <1>1, <1>2, <1>3, MovesOn DEF Holding

LEMMA PageReadMoves ==
    ASSUME Typed, NEW t \in Threads, PageRead(t)
    PROVE  /\ Moves(t) /\ Continues(t, "page", {}) /\ UNCHANGED <<found, checkpoint, todo, hashes>>
           /\ \E o \in Serves[Current(t)] :
                /\ got'[t].text = o.text /\ got'[t].dup = Duplicate(t, o.text)
  <1>1. Effects(t) /\ TablesTyped' /\ thread[t].act \in {"discover", "fetch"} /\ todo[t] # {}
    BY DEF PageRead, Fetching, Effects, Typed, TablesTyped, found
  <1>2. PICK o \in Serves[Current(t)] : Hold(t, [Page(Current(t), o) EXCEPT !.dup = Duplicate(t, o.text)])
    BY DEF PageRead
  <1>3. got' = [got EXCEPT ![t] = [Page(Current(t), o) EXCEPT !.dup = Duplicate(t, o.text)]]
    BY <1>2 DEF Hold
  <1>4. /\ got'[t].text = o.text /\ got'[t].dup = Duplicate(t, o.text) /\ IsCandidate(got'[t])
        /\ DOMAIN got' = Threads /\ \A u \in Threads \ {t} : got'[u] = got[u]
    <2> DEFINE d == Duplicate(t, o.text)
    <2>1. got'[t] = [Page(Current(t), o) EXCEPT !.dup = d]
      BY <1>3 DEF Typed, LocalsTyped
    <2>2. DOMAIN got' = Threads /\ \A u \in Threads \ {t} : got'[u] = got[u]
      BY <1>3 DEF Typed, LocalsTyped
    <2> HIDE DEF d
    <2>3. IsCandidate(got'[t]) /\ got'[t].text = o.text /\ got'[t].dup = d
      BY <2>1, PageRecord DEF IsCandidate
    <2> QED BY <2>2, <2>3 DEF d
  <1>5. UNCHANGED <<todo, hashes>>
    BY DEF PageRead
  <1>6. LocalStep(t)
    BY <1>4, <1>5 DEF LocalStep, Typed, LocalsTyped
  <1>7. Continues(t, "page", {})
    BY GoesOn DEF PageRead
  <1>8. Moves(t)
    BY <1>1, <1>5, <1>6, <1>7, MovesOn DEF Holding
  <1> QED BY <1>4, <1>7, <1>8 DEF PageRead

LEMMA NextSourceTyped ==
    ASSUME Typed, NEW t \in Threads, NextSource(t)
    PROVE  /\ todo' \in [Threads -> SUBSET Sources] /\ todo'[t] = todo[t] \ {Current(t)}
           /\ \A u \in Threads \ {t} : todo'[u] = todo[u]
BY DEF Typed, LocalsTyped, NextSource, List

LEMMA BeatTyped ==
    ASSUME Typed, NEW t \in Threads, todo[t] # {}, Beat(t, Current(t))
    PROVE  checkpoint' \in 0..NumSources
BY CurrentLeast, SourcesAssumption DEF Typed, TablesTyped, Beat, Sources

LEMMA HoldNothing ==
    ASSUME Typed, NEW t \in Threads, Hold(t, NoCandidate)
    PROVE  /\ DOMAIN got' = Threads /\ IsCandidate(got'[t]) /\ got'[t] = NoCandidate
           /\ \A u \in Threads \ {t} : got'[u] = got[u]
BY NoRecord DEF Typed, LocalsTyped, Hold

LEMMA PageCommittedMoves ==
    ASSUME Typed, NEW t \in Threads, PageCommitted(t)
    PROVE  Moves(t)
  <1>1. /\ UNCHANGED <<plan, asset, tables, dataset, evidence, examined, split, stray, cut>>
        /\ thread[t].act \in {"discover", "fetch"} /\ thread[t].at = "page" /\ DOMAIN source' = Sources
    BY DEF PageCommitted, Fetching, Typed, TablesTyped, Row
  <1>2. todo[t] # {} \/ thread[t].act = "discover"
    BY <1>1 DEF Typed, AttemptTyped, Holding
  <1>3. checkpoint' \in 0..NumSources /\ (thread[t].act # "fetch" => UNCHANGED checkpoint)
    BY <1>1, <1>2, BeatTyped DEF PageCommitted, Heartbeat, Typed, TablesTyped
  <1>4. Effects(t) /\ TablesTyped'
    BY <1>1, <1>3 DEF Effects, Typed, TablesTyped
  <1>5. CASE Fail(t)
    BY <1>4, <1>5, Finishes
  <1>6. ASSUME GoTo(t, "item", {}), NextSource(t), Hold(t, NoCandidate), UNCHANGED hashes \/ Accepted(t)
        PROVE  Moves(t)
    <2>1. LocalStep(t)
      BY <1>6, NextSourceTyped, HoldNothing DEF LocalStep, Accepted, Typed, LocalsTyped
    <2> QED BY <1>1, <1>4, <1>6, <2>1, GoesOn, MovesOn DEF Holding
  <1> QED BY <1>5, <1>6 DEF PageCommitted

LEMMA PageUnreadMoves ==
    ASSUME Typed, NEW t \in Threads, PageUnread(t)
    PROVE  Moves(t) /\ Continues(t, thread[t].at, thread[t].read) /\ UNCHANGED <<found, got, hashes>>
  <1>1. Effects(t) /\ TablesTyped' /\ thread[t].act = "discover" /\ thread[t].at = "item"
    BY DEF PageUnread, At, Effects, Typed, TablesTyped, found
  <1>2. LocalStep(t)
    BY NextSourceTyped DEF PageUnread, LocalStep, Typed, LocalsTyped, AttemptTyped
  <1>3. Continues(t, thread[t].at, thread[t].read)
    BY StaysPut DEF PageUnread
  <1>4. Moves(t)
    BY <1>1, <1>2, <1>3, MovesOn DEF Holding
  <1> QED BY <1>3, <1>4 DEF PageUnread

LEMMA FileTriedMoves ==
    ASSUME Typed, NEW t \in Threads, FileTried(t)
    PROVE  /\ Moves(t) /\ UNCHANGED <<tables, dataset, hashes>>
           /\ \/ Continues(t, "asset", {}) /\ UNCHANGED source /\ got'[t].text = "none"
              \/ Continues(t, "item", thread[t].read) /\ Row(Current(t), "failed", "none")
  <1>1. /\ UNCHANGED <<plan, asset, tables, dataset, evidence, hashes, examined, split, stray, cut>>
        /\ thread[t].act = "fetch" /\ thread[t].at = "item" /\ DOMAIN source' = Sources /\ todo[t] # {}
    BY DEF FileTried, At, Typed, TablesTyped, Row
  <1>2. PICK o \in Serves[Current(t)] :
          \/ /\ o.kind = "file" /\ Hold(t, File(Current(t), o.file)) /\ GoTo(t, "asset", {})
             /\ UNCHANGED <<source, checkpoint, todo>>
          \/ /\ o.kind = "none" /\ Row(Current(t), "failed", "none")
             /\ Beat(t, Current(t)) /\ NextSource(t) /\ UNCHANGED <<taskVars, got>>
    BY <1>1 DEF FileTried, Heartbeat
  <1>3. checkpoint' \in 0..NumSources
    BY <1>1, <1>2, BeatTyped DEF Typed, TablesTyped
  <1>4. Effects(t) /\ TablesTyped'
    BY <1>1, <1>3 DEF Effects, Typed, TablesTyped
  <1>5. CASE /\ o.kind = "file" /\ Hold(t, File(Current(t), o.file)) /\ GoTo(t, "asset", {})
             /\ UNCHANGED <<source, checkpoint, todo>>
    <2>1. Current(t) \in Sources
      BY <1>1, CurrentLeast DEF Typed
    <2>2. o.file \in Files
      BY <1>2, <1>5, <2>1, ServesAssumption
    <2>3. /\ got'[t] = File(Current(t), o.file)
          /\ DOMAIN got' = Threads /\ \A u \in Threads \ {t} : got'[u] = got[u]
      BY <1>5 DEF Hold, Typed, LocalsTyped
    <2>4. IsCandidate(got'[t]) /\ got'[t].file \in Files /\ got'[t].text = "none"
      BY <2>2, <2>3, FileRecord
    <2>5. LocalStep(t)
      BY <1>1, <1>5, <2>3, <2>4 DEF LocalStep, Typed, LocalsTyped
    <2>6. Continues(t, "asset", {})
      BY <1>5, GoesOn
    <2>7. Moves(t)
      BY <1>1, <1>4, <1>5, <2>4, <2>5, <2>6, MovesOn DEF Holding
    <2> QED BY <1>1, <1>5, <2>4, <2>6, <2>7
  <1>6. CASE /\ Row(Current(t), "failed", "none")
             /\ Beat(t, Current(t)) /\ NextSource(t) /\ UNCHANGED <<taskVars, got>>
    <2>1. LocalStep(t)
      BY <1>1, <1>6, NextSourceTyped DEF LocalStep, Typed, LocalsTyped, AttemptTyped
    <2>2. Continues(t, "item", thread[t].read)
      BY <1>1, <1>6, StaysPut
    <2>3. Moves(t)
      BY <1>1, <1>4, <2>1, <2>2, MovesOn DEF Holding
    <2> QED BY <1>1, <1>6, <2>2, <2>3
  <1> QED BY <1>2, <1>5, <1>6

LEMMA FetchEndMoves ==
    ASSUME Typed, NEW t \in Threads, FetchEnd(t)
    PROVE  Moves(t) /\ Ends(t)
  <1>1. Effects(t) /\ TablesTyped'
    BY DEF FetchEnd, Fetching, Effects, Typed, TablesTyped, found
  <1> QED BY <1>1, Finishes DEF FetchEnd, Succeeds, Fails

LEMMA DownloadMoves ==
    ASSUME Typed, NEW t \in Threads, DownloadBegin(t) \/ Downloaded(t) \/ DownloadEnd(t) \/ Detected(t)
    PROVE  Moves(t)
  <1>1. Effects(t) /\ TablesTyped' /\ thread[t].act \in {"download", "detect"}
    BY DEF DownloadBegin, Downloaded, DownloadEnd, Detected, At, Effects, Typed, TablesTyped, found, Row
  <1>2. CASE DownloadBegin(t)
    <2>1. LocalStep(t)
      BY <1>2 DEF DownloadBegin, List, Status, LocalStep, Typed, LocalsTyped, AttemptTyped
    <2> QED BY <1>1, <1>2, <2>1, GoesOn, MovesOn DEF DownloadBegin, Holding
  <1>3. CASE Downloaded(t)
    <2>1. LocalStep(t)
      BY <1>3, NextSourceTyped DEF Downloaded, LocalStep, Typed, LocalsTyped, AttemptTyped
    <2>2. Continues(t, thread[t].at, thread[t].read) /\ thread[t].at = "item"
      BY <1>3, StaysPut DEF Downloaded, At
    <2> QED BY <1>1, <2>1, <2>2, MovesOn DEF Holding
  <1> QED BY <1>1, <1>2, <1>3, Finishes DEF DownloadEnd, Detected

LEMMA ParseBeginMoves ==
    ASSUME Typed, NEW t \in Threads, ParseBegin(t)
    PROVE  Moves(t) /\ Continues(t, "parsed", Candidates)
  <1>1. Effects(t) /\ TablesTyped' /\ thread[t].act = "parse"
    BY DEF ParseBegin, At, Effects, Typed, TablesTyped, found
  <1>2. LocalStep(t)
    BY DEF ParseBegin, locals, LocalStep, Typed, LocalsTyped, AttemptTyped
  <1>3. \A x \in Candidates : x.file \in Files
    BY DEF Candidates
  <1>4. Continues(t, "parsed", Candidates)
    BY GoesOn DEF ParseBegin
  <1> QED BY <1>1, <1>2, <1>3, <1>4, MovesOn DEF Holding

LEMMA ParseDoneMoves ==
    ASSUME Typed, NEW t \in Threads, ParseDone(t)
    PROVE  Moves(t) /\ Continues(t, "item", thread[t].read)
  <1>1. Effects(t) /\ TablesTyped' /\ thread[t].act = "parse"
    BY DEF ParseDone, At, Effects, Typed, TablesTyped, found
  <1>2. LocalStep(t)
    BY DEF ParseDone, LocalStep, Typed, LocalsTyped, AttemptTyped
  <1>3. Continues(t, "item", thread[t].read)
    BY GoesOn DEF ParseDone
  <1>4. \A x \in thread[t].read : x.file \in Files
    BY <1>1 DEF Typed, AttemptTyped
  <1> QED BY <1>1, <1>2, <1>3, <1>4, MovesOn DEF Holding

LEMMA ParseNextMoves ==
    ASSUME Typed, NEW t \in Threads, ParseNext(t)
    PROVE  Moves(t) /\ Continues(t, "asset", thread'[t].read) /\ got'[t].text = "none"
  <1>1. Effects(t) /\ TablesTyped' /\ thread[t].act = "parse"
    BY DEF ParseNext, At, Effects, Typed, TablesTyped, found
  <1>2. PICK x \in thread[t].read :
          Hold(t, File(x.src, x.file)) /\ GoTo(t, "asset", thread[t].read \ {x})
    BY DEF ParseNext
  <1>3. \A y \in thread[t].read : y.file \in Files
    BY <1>1 DEF Typed, AttemptTyped
  <1>4. /\ got'[t] = File(x.src, x.file)
        /\ DOMAIN got' = Threads /\ \A u \in Threads \ {t} : got'[u] = got[u]
    BY <1>2 DEF Hold, Typed, LocalsTyped
  <1>5. IsCandidate(got'[t]) /\ got'[t].file \in Files /\ got'[t].text = "none"
    BY <1>2, <1>3, <1>4, FileRecord
  <1>6. LocalStep(t)
    BY <1>4, <1>5 DEF ParseNext, LocalStep, Typed, LocalsTyped
  <1>7. Continues(t, "asset", thread[t].read \ {x})
    BY <1>2, GoesOn
  <1>8. Moves(t)
    BY <1>1, <1>3, <1>5, <1>6, <1>7, MovesOn DEF Holding
  <1> QED BY <1>5, <1>7, <1>8 DEF Continues

(* A step between the transactions that commit a file.                        *)
LEMMA CommitGoesOn ==
    ASSUME Typed, NEW t \in Threads, NEW p, thread[t].act \in {"fetch", "parse"}, thread[t].at \in Holding,
           GoTo(t, p, thread[t].read), LocalStep(t), UNCHANGED todo, Effects(t), TablesTyped',
           p \in {"asset", "tables", "dataset"} => got'[t].file \in Files
    PROVE  Moves(t) /\ Continues(t, p, thread[t].read)
  <1>1. thread[t].act = "parse" => \A x \in thread[t].read : x.file \in Files
    BY DEF Typed, AttemptTyped
  <1>2. thread[t].act = "fetch" => todo[t] # {}
    BY DEF Typed, AttemptTyped
  <1> QED BY <1>1, <1>2, GoesOn, MovesOn

LEMMA AssetSavedMoves ==
    ASSUME Typed, NEW t \in Threads, AssetSaved(t)
    PROVE  /\ Moves(t) /\ UNCHANGED <<source, tables, dataset, hashes>>
           /\ \/ Continues(t, "tables", thread[t].read)
              \/ Continues(t, "unreadable", thread[t].read) /\ UNCHANGED got
  <1>1. /\ UNCHANGED <<source, plan, tables, dataset, evidence, checkpoint, todo, hashes, examined, split, stray, cut>>
        /\ thread[t].act \in {"fetch", "parse"} /\ thread[t].at = "asset"
    BY DEF AssetSaved, Committing
  <1>2. Effects(t) /\ TablesTyped'
    BY <1>1 DEF Effects, Typed, TablesTyped
  <1>3. got[t].file \in Files /\ IsCandidate(got[t])
    BY <1>1 DEF Typed, AttemptTyped
  <1>4. CASE /\ Hold(t, [got[t] EXCEPT !.text = FileText[got[t].file]])
             /\ GoTo(t, "tables", thread[t].read)
    <2>1. /\ got'[t] = [got[t] EXCEPT !.text = FileText[got[t].file]]
          /\ DOMAIN got' = Threads /\ \A u \in Threads \ {t} : got'[u] = got[u]
      BY <1>4 DEF Hold, Typed, LocalsTyped
    <2>2. IsCandidate(got'[t]) /\ got'[t].file \in Files
      BY <1>3, <2>1 DEF IsCandidate
    <2>3. LocalStep(t)
      BY <1>1, <2>1, <2>2 DEF LocalStep, Typed, LocalsTyped
    <2>4. Moves(t) /\ Continues(t, "tables", thread[t].read)
      BY <1>1, <1>2, <1>4, <2>2, <2>3, CommitGoesOn, SMTT(30) DEF Holding
    <2> QED BY <1>1, <2>4
  <1>5. CASE UNCHANGED got /\ GoTo(t, "unreadable", thread[t].read)
    <2>1. LocalStep(t)
      BY <1>1, <1>3, <1>5 DEF LocalStep, Typed, LocalsTyped
    <2>2. Moves(t) /\ Continues(t, "unreadable", thread[t].read)
      BY <1>1, <1>2, <1>5, <2>1, CommitGoesOn DEF Holding
    <2> QED BY <1>1, <1>5, <2>2
  <1> QED BY <1>4, <1>5 DEF AssetSaved

(* The content of a file is compared with that of the fetched sources.        *)
LEMMA CompareFields ==
    ASSUME Typed, NEW t \in Threads, Compare(t)
    PROVE  /\ got'[t].text = got[t].text /\ got'[t].dup = Duplicate(t, got[t].text)
           /\ got'[t].file = got[t].file /\ IsCandidate(got'[t])
           /\ DOMAIN got' = Threads /\ \A u \in Threads \ {t} : got'[u] = got[u]
  <1> DEFINE d == Duplicate(t, got[t].text)
  <1>1. got' = [got EXCEPT ![t] = [got[t] EXCEPT !.dup = d]]
    BY DEF Compare, Hold
  <1> HIDE DEF d
  <1>2. got'[t] = [got[t] EXCEPT !.dup = d] /\ DOMAIN got' = Threads /\ \A u \in Threads \ {t} : got'[u] = got[u]
    BY <1>1 DEF Typed, LocalsTyped
  <1>3. IsCandidate(got[t])
    BY DEF Typed, AttemptTyped
  <1>4. IsCandidate(got'[t]) /\ got'[t].text = got[t].text /\ got'[t].dup = d /\ got'[t].file = got[t].file
    BY <1>2, <1>3 DEF IsCandidate
  <1> QED BY <1>2, <1>4 DEF d

LEMMA TablesSavedMoves ==
    ASSUME Typed, NEW t \in Threads, TablesSaved(t)
    PROVE  /\ Moves(t) /\ UNCHANGED <<source, dataset, hashes, cut>>
           /\ got[t].file \in Files /\ tables' = tables \union {got[t].file}
           /\ \/ /\ thread[t].act = "parse" /\ Continues(t, "status", thread[t].read)
                 /\ got'[t].text = got[t].text /\ got'[t].dup = Duplicate(t, got[t].text)
              \/ /\ thread[t].act = "fetch" /\ Continues(t, "dataset", thread[t].read)
                 /\ UNCHANGED got
  <1>1. /\ UNCHANGED <<source, plan, asset, dataset, evidence, checkpoint, todo, hashes, examined,
                       split, stray, cut>>
        /\ thread[t].act \in {"fetch", "parse"} /\ thread[t].at = "tables"
        /\ tables' = tables \union {got[t].file}
    BY DEF TablesSaved, Committing
  <1>2. got[t].file \in Files /\ IsCandidate(got[t])
    BY <1>1 DEF Typed, AttemptTyped
  <1>3. Effects(t) /\ TablesTyped'
    BY <1>1, <1>2 DEF Effects, Typed, TablesTyped
  <1>4. CASE thread[t].act = "parse" /\ Compare(t)
    <2>1. LocalStep(t)
      BY <1>1, <1>4, CompareFields DEF LocalStep, Typed, LocalsTyped
    <2>2. Moves(t) /\ Continues(t, "status", thread[t].read)
      BY <1>1, <1>3, <1>4, <2>1, CommitGoesOn DEF Holding, Compare
    <2> QED BY <1>1, <1>2, <1>4, <2>2, CompareFields
  <1>5. CASE thread[t].act = "fetch" /\ GoTo(t, "dataset", thread[t].read) /\ UNCHANGED got
    <2>1. LocalStep(t)
      BY <1>1, <1>2, <1>5 DEF LocalStep, Typed, LocalsTyped
    <2>2. Moves(t) /\ Continues(t, "dataset", thread[t].read)
      BY <1>1, <1>2, <1>3, <1>5, <2>1, CommitGoesOn DEF Holding
    <2> QED BY <1>1, <1>2, <1>5, <2>2
  <1> QED BY <1>4, <1>5 DEF TablesSaved

LEMMA DatasetSavedMoves ==
    ASSUME Typed, NEW t \in Threads, DatasetSaved(t)
    PROVE  /\ Moves(t) /\ Continues(t, "status", thread[t].read) /\ UNCHANGED <<source, tables, hashes, cut>>
           /\ got'[t].text = got[t].text /\ got'[t].dup = Duplicate(t, got[t].text)
           /\ got[t].file \in Files /\ dataset'[got[t].file] # "none"
           /\ \A u \in Threads \ {t} : got'[u] = got[u]
  <1>1. /\ UNCHANGED <<source, plan, asset, tables, evidence, checkpoint, todo, hashes, examined,
                       split, stray, cut>>
        /\ thread[t].act = "fetch" /\ thread[t].at = "dataset" /\ Compare(t)
    BY DEF DatasetSaved, At
  <1>2. got[t].file \in Files
    BY <1>1 DEF Typed, AttemptTyped
  <1>3. /\ dataset' \in [Files -> {"none", "raw", "profiled"}]
        /\ \A c \in Files : dataset[c] # "none" => dataset'[c] # "none"
        /\ dataset'[got[t].file] # "none"
    BY <1>2 DEF DatasetSaved, Typed, TablesTyped
  <1>4. Effects(t) /\ TablesTyped'
    BY <1>1, <1>3 DEF Effects, Typed, TablesTyped
  <1>5. LocalStep(t)
    BY <1>1, CompareFields DEF LocalStep, Typed, LocalsTyped
  <1>6. Moves(t) /\ Continues(t, "status", thread[t].read)
    BY <1>1, <1>4, <1>5, CommitGoesOn DEF Holding, Compare
  <1> QED BY <1>1, <1>2, <1>3, <1>6, CompareFields

LEMMA StatusSetMoves ==
    ASSUME Typed, NEW t \in Threads, StatusSet(t)
    PROVE  Moves(t) /\ Continues(t, "row", thread[t].read) /\ UNCHANGED <<source, tables, dataset, hashes, got>>
  <1>1. /\ UNCHANGED <<source, plan, tables, dataset, evidence, checkpoint, todo, got, hashes, examined, split, stray, cut>>
        /\ thread[t].act \in {"fetch", "parse"} /\ thread[t].at \in Holding
    BY DEF StatusSet, Committing, Holding, locals
  <1>2. Effects(t) /\ TablesTyped'
    BY <1>1 DEF Effects, Typed, TablesTyped
  <1>3. LocalStep(t)
    BY <1>1 DEF LocalStep, Typed, LocalsTyped, AttemptTyped
  <1>4. GoTo(t, "row", thread[t].read)
    BY DEF StatusSet
  <1>5. Moves(t) /\ Continues(t, "row", thread[t].read)
    BY <1>1, <1>2, <1>3, <1>4, CommitGoesOn
  <1> QED BY <1>1, <1>5

LEMMA FileCommittedMoves ==
    ASSUME Typed, NEW t \in Threads, FileCommitted(t)
    PROVE  Moves(t) /\ Continues(t, "item", thread[t].read) /\ UNCHANGED <<tables, dataset>>
  <1>1. /\ UNCHANGED <<plan, asset, tables, dataset, evidence, examined, split, stray, cut>>
        /\ thread[t].act \in {"fetch", "parse"} /\ thread[t].at = "row" /\ DOMAIN source' = Sources
        /\ Hold(t, NoCandidate) /\ GoTo(t, "item", thread[t].read)
        /\ UNCHANGED hashes \/ Accepted(t)
    BY DEF FileCommitted, Committing, Row, Typed, TablesTyped
  <1>2. thread[t].act = "fetch" => todo[t] # {} /\ Beat(t, Current(t)) /\ NextSource(t)
    BY <1>1 DEF FileCommitted, Heartbeat, Typed, AttemptTyped, Holding
  <1>3. thread[t].act = "parse" => UNCHANGED <<checkpoint, todo>>
    BY <1>1 DEF FileCommitted
  <1>4. checkpoint' \in 0..NumSources
    BY <1>1, <1>2, <1>3, BeatTyped DEF Typed, TablesTyped
  <1>5. Effects(t) /\ TablesTyped'
    BY <1>1, <1>3, <1>4 DEF Effects, Typed, TablesTyped
  <1>6. LocalStep(t)
    BY <1>1, <1>2, <1>3, HoldNothing, NextSourceTyped DEF LocalStep, Accepted, Typed, LocalsTyped
  <1>7. Continues(t, "item", thread[t].read)
    BY <1>1, GoesOn
  <1>8. thread[t].act = "parse" => \A x \in thread[t].read : x.file \in Files
    BY DEF Typed, AttemptTyped
  <1>9. Moves(t)
    BY <1>1, <1>5, <1>6, <1>7, <1>8, MovesOn DEF Holding
  <1> QED BY <1>1, <1>7, <1>9

LEMMA ParseEndMoves ==
    ASSUME Typed, NEW t \in Threads, ParseEnd(t)
    PROVE  Moves(t) /\ Ends(t)
  <1>1. Effects(t) /\ TablesTyped'
    BY DEF ParseEnd, At, Effects, Typed, TablesTyped, found
  <1> QED BY <1>1, Finishes DEF ParseEnd, Succeeds, Fails

(* normalize_datasets and profile_datasets. *)
LEMMA DatasetBeginMoves ==
    ASSUME Typed, NEW t \in Threads, NormalizeBegin(t) \/ ProfileBegin(t)
    PROVE  Moves(t) /\ Continues(t, "item", thread'[t].read) /\ UNCHANGED <<tables, dataset>>
  <1>1. Effects(t) /\ TablesTyped' /\ thread[t].act \in {"normalize", "profile"} /\ UNCHANGED <<tables, dataset>>
    BY DEF NormalizeBegin, ProfileBegin, At, Effects, Typed, TablesTyped, found
  <1>2. LocalStep(t)
    BY DEF NormalizeBegin, ProfileBegin, locals, LocalStep, Typed, LocalsTyped, AttemptTyped
  <1>3. PICK read : GoTo(t, "item", read)
    BY DEF NormalizeBegin, ProfileBegin
  <1>4. Continues(t, "item", read)
    BY <1>3, GoesOn
  <1>5. Moves(t)
    BY <1>1, <1>2, <1>4, MovesOn DEF Holding
  <1> QED BY <1>1, <1>4, <1>5 DEF Continues

LEMMA DatasetStepMoves ==
    ASSUME Typed, NEW t \in Threads, Normalized(t) \/ Profiled(t)
    PROVE  Moves(t) /\ Continues(t, "item", thread'[t].read) /\ UNCHANGED <<tables, got>>
  <1>1. /\ UNCHANGED <<source, plan, asset, tables, evidence, checkpoint, todo, got, hashes, examined, split, stray, cut>>
        /\ thread[t].act \in {"normalize", "profile"}
    BY DEF Normalized, Profiled, At, locals
  <1>2. /\ dataset' \in [Files -> {"none", "raw", "profiled"}]
        /\ \A c \in Files : dataset[c] # "none" => dataset'[c] # "none"
    BY DEF Normalized, Profiled, Typed, TablesTyped
  <1>3. Effects(t) /\ TablesTyped'
    BY <1>1, <1>2 DEF Effects, Typed, TablesTyped
  <1>4. LocalStep(t)
    BY <1>1 DEF LocalStep, Typed, LocalsTyped, AttemptTyped
  <1>5. PICK read : GoTo(t, "item", read)
    BY DEF Normalized, Profiled
  <1>6. Continues(t, "item", read)
    BY <1>5, GoesOn
  <1>7. Moves(t)
    BY <1>1, <1>3, <1>4, <1>6, MovesOn DEF Holding
  <1> QED BY <1>1, <1>6, <1>7 DEF Continues

LEMMA ProfileFailedMoves ==
    ASSUME Typed, NEW t \in Threads, ProfileFailed(t)
    PROVE  /\ Moves(t) /\ Continues(t, "item", thread'[t].read) /\ UNCHANGED <<tables, dataset>>
           /\ got'[t].dup = TRUE
  <1>1. Effects(t) /\ TablesTyped' /\ thread[t].act = "profile" /\ thread[t].at = "item"
        /\ UNCHANGED <<tables, dataset, todo, hashes>>
    BY DEF ProfileFailed, At, Effects, Typed, TablesTyped, found
  <1>2. /\ got'[t] = [NoCandidate EXCEPT !.dup = TRUE]
        /\ DOMAIN got' = Threads /\ \A u \in Threads \ {t} : got'[u] = got[u]
    BY DEF ProfileFailed, Hold, Typed, LocalsTyped
  <1>3. IsCandidate(got'[t]) /\ got'[t].dup = TRUE
    BY <1>2, NoRecord DEF IsCandidate
  <1>4. LocalStep(t)
    BY <1>1, <1>2, <1>3 DEF LocalStep, Typed, LocalsTyped
  <1>5. PICK c \in thread[t].read : thread' = [thread EXCEPT ![t].read = @ \ {c}]
    BY DEF ProfileFailed
  <1>6. /\ DOMAIN thread = Threads /\ losses \in Nat
        /\ thread[t] = [act |-> thread[t].act, at |-> thread[t].at, read |-> thread[t].read]
    BY DEF Typed, TaskTyped, LocalsTyped, AttemptTyped
  <1>7. Others(t) /\ thread'[t] = [act |-> thread[t].act, at |-> "item", read |-> thread[t].read \ {c}]
    BY <1>1, <1>5, <1>6 DEF Others
  <1>8. UNCHANGED <<task, timeouts>> /\ losses' \in Nat
    BY <1>6 DEF ProfileFailed
  <1>9. Continues(t, "item", thread[t].read \ {c})
    BY <1>7, <1>8 DEF Continues
  <1>10. Moves(t)
    BY <1>1, <1>4, <1>9, MovesOn DEF Holding
  <1> QED BY <1>1, <1>3, <1>9, <1>10 DEF Continues

LEMMA DatasetEndMoves ==
    ASSUME Typed, NEW t \in Threads, NormalizeEnd(t) \/ ProfileEnd(t)
    PROVE  Moves(t) /\ Ends(t)
  <1>1. Effects(t) /\ TablesTyped'
    BY DEF NormalizeEnd, ProfileEnd, At, Effects, Typed, TablesTyped, found
  <1> QED BY <1>1, Finishes DEF NormalizeEnd, ProfileEnd, Succeeds, Fails

(* The extraction. *)
LEMMA ExtractionMoves ==
    ASSUME Typed, NEW t \in Threads, Extraction(t),
           UNCHANGED <<plan, asset, tables, dataset, got, hashes, split, stray, cut>>
    PROVE  Moves(t)
  <1>1. thread[t].act = "extract" /\ UNCHANGED <<source, tables, dataset, got, hashes>>
    BY DEF Extraction, ExtractBegin, PassOver, Ask, Answered, NothingFound, Store, Stored, ExtractEnd,
           Extracting, At
  <1>2. CASE ExtractBegin(t)
    <2>1. Effects(t) /\ TablesTyped'
      BY <1>1, <1>2 DEF ExtractBegin, Effects, Typed, TablesTyped
    <2>2. LocalStep(t)
      BY <1>1, <1>2 DEF ExtractBegin, List, After, Fetched, Status, LocalStep, Typed, LocalsTyped,
                        AttemptTyped
    <2> QED BY <1>1, <1>2, <2>1, <2>2, GoesOn, MovesOn DEF ExtractBegin, Holding
  <1>3. CASE PassOver(t)
    <2>1. todo[t] # {} /\ thread[t].at = "source"
      BY <1>3 DEF PassOver, Extracting, At
    <2>2. Effects(t) /\ TablesTyped'
      BY <1>1, <1>3, <2>1, BeatTyped DEF PassOver, Effects, Typed, TablesTyped
    <2>3. LocalStep(t)
      BY <1>1, <1>3, NextSourceTyped DEF PassOver, LocalStep, Typed, LocalsTyped, AttemptTyped
    <2>4. Continues(t, "source", thread[t].read)
      BY <1>3, <2>1, StaysPut DEF PassOver
    <2> QED BY <1>1, <2>2, <2>3, <2>4, MovesOn DEF Holding
  <1>4. CASE Ask(t) \/ Answered(t) \/ Store(t)
    <2>1. todo[t] # {}
      BY <1>4 DEF Ask, Answered, Store, Extracting, At, Typed, AttemptTyped, Holding
    <2>2. UNCHANGED <<checkpoint, todo>> /\ DOMAIN evidence' = Sources
      BY <1>4 DEF Ask, Answered, Store, Typed, TablesTyped
    <2>3. Effects(t) /\ TablesTyped'
      BY <1>1, <2>2 DEF Effects, Typed, TablesTyped
    <2>4. LocalStep(t)
      BY <1>1, <2>2 DEF LocalStep, Typed, LocalsTyped, AttemptTyped
    <2>5. PICK p \in {"asked", "store", "stored"} : \E read : GoTo(t, p, read)
      BY <1>4 DEF Ask, Answered, Store
    <2> QED BY <1>1, <2>1, <2>2, <2>3, <2>4, <2>5, GoesOn, MovesOn
  <1>5. CASE NothingFound(t) \/ Stored(t)
    <2>1. todo[t] # {} /\ Beat(t, Current(t)) /\ NextSource(t) /\ GoTo(t, "source", {}) /\ UNCHANGED evidence
      BY <1>5 DEF NothingFound, Stored, At, Typed, AttemptTyped, Holding
    <2>2. Effects(t) /\ TablesTyped'
      BY <1>1, <2>1, BeatTyped DEF Effects, Typed, TablesTyped
    <2>3. LocalStep(t)
      BY <1>1, <2>1, NextSourceTyped DEF LocalStep, Typed, LocalsTyped, AttemptTyped
    <2> QED BY <1>1, <2>1, <2>2, <2>3, GoesOn, MovesOn DEF Holding
  <1>6. CASE ExtractEnd(t)
    <2>1. Effects(t) /\ TablesTyped'
      BY <1>1, <1>6 DEF ExtractEnd, Effects, Typed, TablesTyped
    <2>2. LocalStep(t)
      BY <1>1, <1>6 DEF ExtractEnd, LocalStep, Typed, LocalsTyped, AttemptTyped
    <2> QED BY <1>6, <2>1, <2>2, EndsOnce, MovesOut DEF ExtractEnd, Succeeds, Fails
  <1> QED BY <1>2, <1>3, <1>4, <1>5, <1>6 DEF Extraction

LEMMA ActivityMoves ==
    ASSUME Typed, NEW t \in Threads, Activity(t)
    PROVE  Moves(t)
BY PlanMoves, SearchMoves, FetchBeginMoves, PageReadMoves, PageCommittedMoves, PageUnreadMoves,
   FileTriedMoves, FetchEndMoves, DownloadMoves, ParseBeginMoves, ParseDoneMoves, ParseNextMoves,
   AssetSavedMoves, TablesSavedMoves, DatasetSavedMoves, StatusSetMoves, FileCommittedMoves, ParseEndMoves,
   DatasetBeginMoves, DatasetStepMoves, DatasetEndMoves, ProfileFailedMoves, ExtractionMoves
DEF Activity, Acquisition

-----------------------------------------------------------------------------
(* What every such step keeps.                                                *)

LEMMA MoveTask ==
    ASSUME Typed, NEW t \in Threads, Moves(t)
    PROVE  /\ Others(t) /\ UNCHANGED timeouts /\ losses' \in Nat
           /\ task' = [act |-> task.act, left |-> task'.left, by |-> task'.by]
           /\ task'.act = task.act /\ task'.left \in Nat /\ task'.by \in Threads \union Waiting
           /\ thread'[t].act \in {thread[t].act, "none"}
           /\ task' # task => task.by = t /\ thread'[t].act = "none" /\ task'.by \in Waiting
           /\ task'.by \in Threads => task' = task /\ (task.by = t => thread'[t].act = thread[t].act)
BY Places DEF Moves, Ends, Continues, Typed, TaskTyped

LEMMA TypedKept ==
    ASSUME Typed, NEW t \in Threads, Moves(t)
    PROVE  Typed'
  <1>1. TaskTyped'
    BY MoveTask DEF Moves, Effects, Typed, TaskTyped
  <1>2. LocalsTyped'
    BY DEF Moves, LocalStep, LocalsTyped, Ends, Continues, Others
  <1>3. ASSUME NEW u \in Threads PROVE AttemptTyped(u)'
    <2>1. CASE u = t
      BY <2>1 DEF Moves
    <2>2. CASE u # t
      <3>1. thread'[u] = thread[u] /\ todo'[u] = todo[u] /\ got'[u] = got[u] /\ UNCHANGED split
        BY <2>2 DEF Moves, LocalStep, Effects, Ends, Continues, Others
      <3>2. task'.by = u => task.by = u /\ task'.act = task.act
        BY MoveTask
      <3> QED BY <3>1, <3>2 DEF Typed, AttemptTyped
    <2> QED BY <2>1, <2>2
  <1> QED BY <1>1, <1>2, <1>3 DEF Typed, Moves

LEMMA RunnersKept ==
    ASSUME Typed, NEW t \in Threads, Moves(t)
    PROVE  (InStep => InStep') /\ (Alone => Alone')
  <1>1. /\ \A u \in Threads \ {t} : thread'[u] = thread[u]
        /\ thread'[t].act \in {thread[t].act, "none"} /\ task'.act = task.act
        /\ task' # task => task.by = t /\ thread'[t].act = "none"
    BY MoveTask DEF Others
  <1> QED BY <1>1 DEF InStep, Alone

LEMMA CurrentStays ==
    \A u \in Threads : todo'[u] = todo[u] => Current(u)' = Current(u)
BY DEF Current

-----------------------------------------------------------------------------
(* What has been put to the model.                                            *)

LEMMA AcquisitionLeavesEvidence ==
    ASSUME Typed, NEW t \in Threads, Acquisition(t)
    PROVE  thread[t].act # "extract"
BY DEF Acquisition, PlanMade, SearchBegin, SourceAdded, SearchEnd, FetchBegin, PageRead, PageCommitted,
   PageUnread, FileTried, FetchEnd, DownloadBegin, Downloaded, DownloadEnd, Detected, ParseBegin, ParseDone,
   ParseNext, AssetSaved, TablesSaved, DatasetSaved, StatusSet, FileCommitted, ParseEnd, NormalizeBegin, Normalized,
   NormalizeEnd, ProfileBegin, Profiled, ProfileFailed, ProfileEnd, At, Fetching, Committing

(* A step of the extraction in so many words. *)
ExtractionStep(t) ==
    Extraction(t) /\ UNCHANGED <<plan, asset, tables, dataset, got, hashes, split, stray, cut>>

LEMMA ExtractionIs ==
    ASSUME NEW t \in Threads, ExtractionStep(t)
    PROVE  thread[t].act = "extract" /\ UNCHANGED source /\ examined \subseteq examined'
BY DEF ExtractionStep, Extraction, ExtractBegin, PassOver, Ask, Answered, NothingFound, Store, Stored,
       ExtractEnd,
   Extracting, At

LEMMA EvidenceKept ==
    ASSUME Typed, EvidenceExamined, NEW t \in Threads, Activity(t)
    PROVE  EvidenceExamined'
  <1>1. Moves(t)
    BY ActivityMoves
  <1>2. \A u \in Threads \ {t} : thread'[u] = thread[u] /\ Current(u)' = Current(u)
    BY <1>1, MoveTask, CurrentStays DEF Others, Moves, LocalStep
  <1>3. CASE Acquisition(t)
    <2>1. thread'[t].act # "extract" /\ UNCHANGED <<evidence, examined>>
      BY <1>1, <1>3, AcquisitionLeavesEvidence, MoveTask DEF Moves, Effects
    <2> QED BY <1>2, <2>1 DEF EvidenceExamined
  <1>4. CASE ExtractionStep(t)
    <2>1. examined \subseteq examined' /\ thread[t].act = "extract"
      BY <1>4, ExtractionIs
    <2>2. CASE ExtractBegin(t) \/ NothingFound(t) \/ Stored(t)
      <3>1. UNCHANGED evidence /\ thread'[t].at = "source"
        BY <2>2, GoesOn DEF ExtractBegin, NothingFound, Stored, Continues
      <3> QED BY <1>2, <2>1, <3>1 DEF EvidenceExamined
    <2>3. CASE PassOver(t)
      <3>1. UNCHANGED <<evidence, thread>> /\ thread[t].at = "source"
        BY <2>3 DEF PassOver, Extracting, At, taskVars
      <3> QED BY <1>2, <2>1, <3>1 DEF EvidenceExamined
    <2>4. CASE Ask(t)
      <3>1. UNCHANGED evidence /\ thread'[t].at = "asked"
        BY <2>4, GoesOn DEF Ask, Continues
      <3> QED BY <1>2, <2>1, <3>1 DEF EvidenceExamined
    <2>5. CASE Answered(t)
      <3>1. UNCHANGED evidence /\ Current(t)' = Current(t) /\ Current(t) \in examined'
        BY <2>5, CurrentStays DEF Answered
      <3> QED BY <1>2, <2>1, <3>1 DEF EvidenceExamined
    <2>6. CASE Store(t)
      <3>1. Current(t) \in examined /\ Current(t)' = Current(t)
        BY <2>6, CurrentStays DEF Store, At, EvidenceExamined
      <3>2. \A s \in Sources : evidence'[s] = evidence[s] \/ s = Current(t)
        BY <2>6 DEF Store, Typed, TablesTyped
      <3> QED BY <1>2, <2>1, <3>1, <3>2 DEF EvidenceExamined
    <2>7. CASE ExtractEnd(t)
      <3>1. UNCHANGED evidence /\ thread'[t].act = "none"
        BY <2>7, EndsOnce DEF ExtractEnd, Succeeds, Fails, Ends
      <3> QED BY <1>2, <2>1, <3>1 DEF EvidenceExamined
    <2> QED BY <1>4, <2>2, <2>3, <2>4, <2>5, <2>6, <2>7 DEF ExtractionStep, Extraction
  <1> QED BY <1>3, <1>4 DEF Activity, ExtractionStep

(* One source more is behind an attempt. *)
LEMMA OneMore ==
    ASSUME Typed, NEW t \in Threads, todo[t] # {}, NextSource(t),
           Fetched \ todo[t] \subseteq examined, examined \subseteq examined', Current(t) \in examined'
    PROVE  /\ Fetched \ todo'[t] \subseteq examined'
           /\ \A s \in Fetched : s <= Current(t) => s \in examined'
  <1>1. todo'[t] = todo[t] \ {Current(t)}
    BY NextSourceTyped
  <1>2. Current(t) \in Sources /\ \A r \in todo[t] : Current(t) <= r
    BY CurrentLeast DEF Typed
  <1>3. ASSUME NEW s \in Fetched, s <= Current(t) PROVE s \in examined'
    <2>1. s \in Nat /\ Current(t) \in Nat
      BY <1>2, SourcesAssumption DEF Fetched, Status, Sources
    <2>2. CASE s \in todo[t]
      <3>1. s = Current(t)
        BY <1>2, <1>3, <2>1, <2>2
      <3> QED BY <3>1
    <2> QED BY <2>2
  <1> QED BY <1>1, <1>3

LEMMA ProgressKept ==
    ASSUME Typed, EvidenceExamined, InStep, Progress, NEW t \in Threads, Activity(t)
    PROVE  Progress'
  <1>1. Moves(t)
    BY ActivityMoves
  <1>2. /\ thread[t].act = task.act /\ task'.act = task.act
        /\ \A u \in Threads \ {t} : thread'[u] = thread[u] /\ todo'[u] = todo[u]
        /\ thread'[t].act \in {thread[t].act, "none"}
    BY <1>1, MoveTask DEF Others, Moves, LocalStep, Effects, InStep
  <1>3. CASE Acquisition(t)
    <2>1. task.act # "extract"
      BY <1>2, <1>3, AcquisitionLeavesEvidence
    <2>2. task.act = "profile" => UNCHANGED <<source, examined>>
      BY <1>1, <1>2 DEF Moves, Effects
    <2> QED BY <1>2, <2>1, <2>2 DEF Progress, Fetched, Status
  <1>4. CASE ExtractionStep(t)
    <2>1. task.act = "extract" /\ UNCHANGED source /\ examined \subseteq examined' /\ Fetched' = Fetched
      BY <1>2, <1>4, ExtractionIs DEF Fetched, Status
    <2>2. Examining(t) => Fetched \ todo[t] \subseteq examined
      BY <2>1 DEF Progress
    <2>3. ASSUME \A s \in Fetched : s <= checkpoint' => s \in examined',
                 Examining(t)' => Fetched \ todo'[t] \subseteq examined',
                 task'.by = "done" => task.by = "done" \/ Fetched \subseteq examined'
          PROVE  Progress'
      BY <1>2, <2>1, <2>3 DEF Progress, Examining
    <2>4. \A s \in Fetched : s <= checkpoint => s \in examined'
      BY <2>1 DEF Progress
    <2>5. ASSUME todo[t] # {}, NextSource(t), Beat(t, Current(t)), UNCHANGED task,
                 Examining(t), Current(t) \in examined'
          PROVE  Progress'
      <3>1. /\ Fetched \ todo'[t] \subseteq examined'
            /\ \A s \in Fetched : s <= Current(t) => s \in examined'
        BY <2>1, <2>2, <2>5, OneMore
      <3> QED BY <2>3, <2>4, <2>5, <3>1 DEF Beat
    <2>6. CASE ExtractBegin(t)
      <3>1. todo'[t] = {s \in Fetched : s > checkpoint} /\ UNCHANGED <<checkpoint, task>>
        BY <2>6 DEF ExtractBegin, List, After, GoTo, Typed, LocalsTyped
      <3>2. \A s \in Fetched : s \in Nat
        BY SourcesAssumption DEF Fetched, Status, Sources
      <3>3. checkpoint \in Nat
        BY SourcesAssumption DEF Typed, TablesTyped
      <3>4. \A s \in Fetched \ todo'[t] : s <= checkpoint
        BY <3>1, <3>2, <3>3
      <3> QED BY <2>3, <2>4, <3>1, <3>4
    <2>7. CASE PassOver(t)
      <3>1. /\ todo[t] # {} /\ NextSource(t) /\ Beat(t, Current(t)) /\ UNCHANGED task
            /\ Examining(t) /\ evidence[Current(t)] # {}
        BY <2>7 DEF PassOver, Extracting, At, Examining, taskVars
      <3>2. Current(t) \in examined
        BY <3>1, CurrentLeast DEF EvidenceExamined, Typed
      <3> QED BY <2>1, <2>5, <3>1, <3>2
    <2>8. CASE Ask(t) \/ Answered(t) \/ Store(t)
      <3>1. Examining(t) /\ UNCHANGED <<checkpoint, todo, task>>
        BY <2>8 DEF Ask, Answered, Store, Extracting, At, Examining, GoTo
      <3> QED BY <2>1, <2>2, <2>3, <2>4, <3>1
    <2>9. CASE NothingFound(t) \/ Stored(t)
      <3>1. /\ todo[t] # {} /\ NextSource(t) /\ Beat(t, Current(t)) /\ UNCHANGED task /\ Examining(t)
        BY <2>9 DEF NothingFound, Stored, At, Typed, AttemptTyped, Holding, Examining, GoTo
      <3>2. Current(t) \in examined'
        BY <2>9 DEF NothingFound, Stored, At, EvidenceExamined
      <3> QED BY <2>5, <3>1, <3>2
    <2>10. CASE ExtractEnd(t)
      <3>1. Examining(t) /\ todo[t] = {} /\ UNCHANGED <<checkpoint, examined>>
        BY <2>10 DEF ExtractEnd, At, Examining
      <3>2. thread'[t].act = "none"
        BY <2>10, EndsOnce DEF ExtractEnd, Succeeds, Fails, Ends
      <3> QED BY <2>2, <2>3, <2>4, <3>1, <3>2 DEF Examining
    <2> QED BY <1>4, <2>6, <2>7, <2>8, <2>9, <2>10 DEF ExtractionStep, Extraction
  <1> QED BY <1>3, <1>4 DEF Activity, ExtractionStep

-----------------------------------------------------------------------------
(* Which tables have a dataset.                                               *)

(* A table comes with an attempt that goes on to make its dataset, or with    *)
(* one of parse_assets, which leaves it to normalize_datasets.                *)
LEMMA TablesGrow ==
    ASSUME Typed, NEW t \in Threads, Activity(t)
    PROVE  \/ UNCHANGED tables /\ (Between(t) => got[t].file \in Files /\ dataset'[got[t].file] # "none")
           \/ /\ got[t].file \in Files /\ tables' = tables \union {got[t].file} /\ ~Between(t)
              /\ thread[t].act \in {"fetch", "parse"}
              /\ thread[t].act = "fetch" => Between(t)' /\ got'[t].file = got[t].file
  <1>1. CASE TablesSaved(t)
    BY <1>1, TablesSavedMoves DEF TablesSaved, Committing, Continues, Between
  <1>2. CASE DatasetSaved(t)
    BY <1>2, DatasetSavedMoves
  <1>3. CASE ~TablesSaved(t) /\ ~DatasetSaved(t)
    <2>1. UNCHANGED tables
      BY <1>3 DEF Activity, Acquisition, PlanMade, SearchBegin, SourceAdded, SearchEnd, FetchBegin,
         PageRead, PageCommitted, PageUnread, FileTried, FetchEnd, DownloadBegin, Downloaded, DownloadEnd,
         Detected, ParseBegin, ParseDone, ParseNext, AssetSaved, StatusSet, FileCommitted, ParseEnd,
         NormalizeBegin, Normalized, NormalizeEnd, ProfileBegin, Profiled, ProfileFailed, ProfileEnd, found
    <2>2. ~Between(t)
      BY <1>3, ExtractionIs DEF Between, ExtractionStep, Activity, Acquisition, PlanMade, SearchBegin,
         SourceAdded, SearchEnd, FetchBegin, PageRead, PageCommitted, PageUnread, FileTried, FetchEnd,
         DownloadBegin, Downloaded, DownloadEnd, Detected, ParseBegin, ParseDone, ParseNext, AssetSaved,
         StatusSet, FileCommitted, ParseEnd, NormalizeBegin, Normalized, NormalizeEnd, ProfileBegin,
         Profiled, ProfileFailed, ProfileEnd, At, Fetching, Committing
    <2> QED BY <2>1, <2>2
  <1> QED BY <1>1, <1>2, <1>3

LEMMA MadeKept ==
    ASSUME Typed, NEW t \in Threads, Activity(t), Made, thread[t].act \notin {"fetch", "parse"}
    PROVE  Made'
  <1>1. UNCHANGED cut /\ \A c \in Files : dataset[c] # "none" => dataset'[c] # "none"
    BY ActivityMoves DEF Moves, Effects
  <1>2. tables \subseteq Files
    BY DEF Typed, TablesTyped
  <1> QED BY <1>1, <1>2, TablesGrow DEF Made

LEMMA MakingKept ==
    ASSUME Typed, NEW t \in Threads, Activity(t), MadeOrMaking, thread[t].act # "parse"
    PROVE  MadeOrMaking'
  <1>1. /\ UNCHANGED cut /\ \A c \in Files : dataset[c] # "none" => dataset'[c] # "none"
        /\ \A u \in Threads \ {t} : thread'[u] = thread[u] /\ got'[u] = got[u]
    BY ActivityMoves DEF Moves, Effects, LocalStep, Ends, Continues, Others
  <1>2. tables \subseteq Files
    BY DEF Typed, TablesTyped
  <1>3. \A u \in Threads \ {t} : Between(u)' <=> Between(u)
    BY <1>1 DEF Between
  <1>4. ASSUME NEW c \in tables'
        PROVE  dataset'[c] # "none" \/ c \in cut' \/ \E u \in Threads : Between(u)' /\ got'[u].file = c
    <2>1. CASE c \in tables
      <3>1. CASE dataset[c] # "none" \/ c \in cut
        BY <1>1, <1>2, <2>1, <3>1
      <3>2. CASE \E u \in Threads : Between(u) /\ got[u].file = c
        <4>1. PICK u \in Threads : Between(u) /\ got[u].file = c
          BY <3>2
        <4>2. CASE u = t
          BY <4>1, <4>2, TablesGrow
        <4>3. CASE u # t
          BY <1>1, <1>3, <4>1, <4>3
        <4> QED BY <4>2, <4>3
      <3> QED BY <2>1, <3>1, <3>2 DEF MadeOrMaking
    <2>2. CASE c \notin tables
      <3>1. c = got[t].file /\ Between(t)' /\ got'[t].file = got[t].file
        BY <2>2, <1>4, TablesGrow
      <3> QED BY <3>1
    <2> QED BY <2>1, <2>2
  <1> QED BY <1>4 DEF MadeOrMaking

(* What the activities of the datasets do. *)
LEMMA OwnActivity ==
    ASSUME NEW t \in Threads, Activity(t)
    PROVE  /\ thread[t].act = "normalize" => NormalizeBegin(t) \/ Normalized(t) \/ NormalizeEnd(t)
           /\ thread[t].act = "profile" => ProfileBegin(t) \/ Profiled(t) \/ ProfileFailed(t) \/ ProfileEnd(t)
BY ExtractionIs
DEF ExtractionStep, Activity, Acquisition, PlanMade, SearchBegin, SourceAdded, SearchEnd, FetchBegin, PageRead,
    PageCommitted, PageUnread, FileTried, FetchEnd, DownloadBegin, Downloaded, DownloadEnd, Detected,
    ParseBegin, ParseDone, ParseNext, AssetSaved, TablesSaved, DatasetSaved, StatusSet, FileCommitted,
    ParseEnd, NormalizeBegin,
    Normalized, NormalizeEnd, ProfileBegin, Profiled, ProfileFailed, ProfileEnd, At, Fetching, Committing

LEMMA NormalizationKept ==
    ASSUME Typed, InStep, Datasets, NEW t \in Threads, Activity(t), task.act = "normalize"
    PROVE  Datasets'
  <1>1. Moves(t) /\ InStep'
    BY ActivityMoves, RunnersKept
  <1>2. /\ thread[t].act = "normalize" /\ task'.act = "normalize" /\ UNCHANGED <<tables, cut>>
        /\ \A u \in Threads \ {t} : thread'[u] = thread[u]
        /\ \A c \in Files : dataset[c] # "none" => dataset'[c] # "none"
    BY <1>1, MoveTask DEF Others, Moves, Effects, InStep
  <1>3. tables \subseteq Files /\ dataset \in [Files -> {"none", "raw", "profiled"}]
    BY DEF Typed, TablesTyped
  <1>4. \A u \in Threads \ {t} : MakingRest(u)'
    BY <1>2, <1>3 DEF Datasets, MakingRest
  <1>5. \A u \in Threads : ProfilingRest(u)'
    BY <1>1, <1>2 DEF InStep, ProfilingRest
  <1>6. task.by = "done" => Made'
    BY <1>2, MadeKept DEF Datasets
  <1>7. ASSUME MakingRest(t)', task'.by = "done" => task.by = "done" \/ Made' PROVE Datasets'
    BY <1>2, <1>4, <1>5, <1>6, <1>7 DEF Datasets
  <1>8. CASE NormalizeBegin(t)
    <2>1. /\ thread'[t].read = {c \in tables : dataset[c] = "none"}
          /\ UNCHANGED <<dataset, task>>
      BY <1>8, GoesOn DEF NormalizeBegin, Continues, found
    <2> QED BY <1>2, <1>7, <2>1 DEF MakingRest
  <1>9. CASE Normalized(t)
    <2>1. PICK c \in thread[t].read :
            /\ dataset' = IF dataset[c] = "none" THEN [dataset EXCEPT ![c] = "raw"] ELSE dataset
            /\ GoTo(t, "item", thread[t].read \ {c})
      BY <1>9 DEF Normalized
    <2>2. thread'[t].read = thread[t].read \ {c} /\ UNCHANGED task
      <3>1. Continues(t, "item", thread[t].read \ {c})
        BY <2>1, GoesOn
      <3> QED BY <3>1 DEF Continues
    <2>3. \A d \in tables : dataset'[d] = "none" => dataset[d] = "none" /\ d # c
      BY <1>3, <2>1
    <2>4. \A d \in tables : dataset[d] = "none" => d \in thread[t].read
      BY <1>2, <1>9 DEF Datasets, MakingRest, Normalized, At
    <2> QED BY <1>2, <1>7, <2>2, <2>3, <2>4 DEF MakingRest
  <1>10. CASE NormalizeEnd(t)
    <2>1. /\ thread'[t].act = "none" /\ UNCHANGED dataset
          /\ task'.by = "done" => task.by \in {t, "done"}
      BY <1>10, EndsOnce DEF NormalizeEnd, Finish, Succeeds, Ends, found
    <2>2. \A c \in tables : dataset[c] # "none"
      BY <1>2, <1>10 DEF Datasets, MakingRest, NormalizeEnd, At
    <2> QED BY <1>2, <1>7, <2>1, <2>2 DEF MakingRest, Made
  <1> QED BY <1>2, <1>8, <1>9, <1>10, OwnActivity

LEMMA ProfilingKept ==
    ASSUME Typed, InStep, Datasets, NEW t \in Threads, Activity(t), task.act = "profile"
    PROVE  Datasets'
  <1>1. Moves(t) /\ InStep'
    BY ActivityMoves, RunnersKept
  <1>2. /\ thread[t].act = "profile" /\ task'.act = "profile" /\ UNCHANGED <<tables, cut>>
        /\ \A u \in Threads \ {t} : thread'[u] = thread[u] /\ got'[u] = got[u]
    BY <1>1, MoveTask DEF Others, Moves, Effects, LocalStep, InStep
  <1>3. tables \subseteq Files /\ dataset \in [Files -> {"none", "raw", "profiled"}]
    BY DEF Typed, TablesTyped
  <1>4. Made'
    BY <1>2, MadeKept DEF Datasets
  <1>5. \A u \in Threads : MakingRest(u)'
    BY <1>1, <1>2 DEF InStep, MakingRest
  <1>6. \A c \in tables : /\ dataset[c] = "profiled" => dataset'[c] = "profiled"
                          /\ dataset[c] = "none" => dataset'[c] \in {"none", "profiled"}
    BY <1>2, <1>3, OwnActivity DEF ProfileBegin, Profiled, ProfileFailed, ProfileEnd, found
  <1>7. ASSUME NEW u \in Threads \ {t} PROVE ProfilingRest(u)'
    <2>1. ProfilingRest(u)
      BY DEF Datasets
    <2>2. thread'[u] = thread[u] /\ got'[u] = got[u] /\ tables' = tables /\ cut' = cut
      BY <1>2
    <2>3. ASSUME thread'[u].act = "profile", thread'[u].at = "item", NEW c \in tables',
                 dataset'[c] # "profiled", c \notin thread'[u].read, ~got'[u].dup
          PROVE  dataset'[c] = "none" /\ c \in cut'
      <3>1. /\ c \in tables /\ thread[u].act = "profile" /\ thread[u].at = "item"
            /\ c \notin thread[u].read /\ ~got[u].dup
        BY <2>2, <2>3
      <3>2. dataset[c] # "profiled"
        BY <1>6, <2>3, <3>1
      <3>3. dataset[c] = "none" /\ c \in cut
        BY <2>1, <3>1, <3>2 DEF ProfilingRest
      <3> QED BY <1>6, <2>2, <2>3, <3>1, <3>3
    <2> QED BY <2>3 DEF ProfilingRest
  <1>8. ASSUME ProfilingRest(t)',
               task'.by = "done" =>
                 \/ task.by = "done"
                 \/ \A c \in tables : dataset'[c] = "profiled" \/ (dataset'[c] = "none" /\ c \in cut)
        PROVE  Datasets'
    <2>1. \A u \in Threads : MakingRest(u)' /\ ProfilingRest(u)'
      BY <1>5, <1>7, <1>8
    <2>2. tables' = tables /\ cut' = cut
      BY <1>2
    <2>3. ASSUME task'.by = "done", NEW c \in tables
          PROVE  dataset'[c] = "profiled" \/ (dataset'[c] = "none" /\ c \in cut)
      <3>1. CASE task.by = "done"
        <4>1. dataset[c] = "profiled" \/ (dataset[c] = "none" /\ c \in cut)
          BY <2>3, <3>1 DEF Datasets
        <4> QED BY <1>6, <2>3, <4>1
      <3>2. CASE task.by # "done"
        BY <1>8, <2>3, <3>2
      <3> QED BY <3>1, <3>2
    <2> QED BY <1>4, <2>1, <2>2, <2>3 DEF Datasets
  <1>9. ProfilingRest(t)
    BY DEF Datasets
  <1>10. CASE ProfileBegin(t)
    <2>1. /\ thread'[t].read = {c \in Files : dataset[c] = "raw"}
          /\ UNCHANGED <<dataset, task>>
      BY <1>10, GoesOn DEF ProfileBegin, Continues, found
    <2>2. \A c \in tables : dataset[c] # "none" \/ c \in cut
      BY <1>2 DEF Datasets, Made
    <2>3. \A c \in tables : dataset[c] # "profiled" =>
                              c \in Files /\ (dataset[c] = "raw" \/ (dataset[c] = "none" /\ c \in cut))
      BY <1>3, <2>2
    <2> QED BY <1>2, <1>8, <2>1, <2>3 DEF ProfilingRest
  <1>11. CASE Profiled(t)
    <2>1. PICK c \in thread[t].read :
            dataset' = [dataset EXCEPT ![c] = "profiled"] /\ GoTo(t, "item", thread[t].read \ {c})
      BY <1>11 DEF Profiled
    <2>2. thread'[t].read = thread[t].read \ {c} /\ UNCHANGED <<task, got>>
      <3>1. Continues(t, "item", thread[t].read \ {c})
        BY <2>1, GoesOn
      <3> QED BY <1>11, <3>1 DEF Continues, Profiled, locals
    <2>3. \A d \in tables : dataset'[d] # "profiled" => dataset'[d] = dataset[d] /\ d # c
      BY <1>3, <2>1
    <2>4. thread[t].at = "item"
      BY <1>11 DEF Profiled, At
    <2> QED BY <1>2, <1>8, <1>9, <2>2, <2>3, <2>4 DEF ProfilingRest
  <1>12. CASE ProfileFailed(t)
    <2>1. got'[t].dup = TRUE /\ UNCHANGED task
      BY <1>12, ProfileFailedMoves DEF ProfileFailed
    <2> QED BY <1>8, <2>1 DEF ProfilingRest
  <1>13. CASE ProfileEnd(t)
    <2>1. UNCHANGED dataset /\ thread[t].at = "item" /\ thread[t].read = {}
      BY <1>13 DEF ProfileEnd, At, found
    <2>2. CASE got[t].dup
      <3>1. thread'[t].act = "none" /\ (task'.by = "done" => task.by = "done")
        BY <1>13, <2>2, EndsOnce DEF ProfileEnd, Fail, Fails, Ends
      <3> QED BY <1>8, <3>1 DEF ProfilingRest
    <2>3. CASE ~got[t].dup
      <3>1. thread'[t].act = "none"
        BY <1>13, <2>3, EndsOnce DEF ProfileEnd, Finish, Succeeds, Ends
      <3>2. \A c \in tables : dataset'[c] = "profiled" \/ (dataset'[c] = "none" /\ c \in cut)
        BY <1>2, <1>9, <2>1, <2>3 DEF ProfilingRest
      <3> QED BY <1>8, <3>1, <3>2 DEF ProfilingRest
    <2> QED BY <2>2, <2>3
  <1> QED BY <1>2, <1>10, <1>11, <1>12, <1>13, OwnActivity

LEMMA DatasetsKept ==
    ASSUME Typed, InStep, Datasets, NEW t \in Threads, Activity(t)
    PROVE  Datasets'
  <1>1. Moves(t) /\ InStep'
    BY ActivityMoves, RunnersKept
  <1>2. thread[t].act = task.act /\ task'.act = task.act
    BY <1>1, MoveTask DEF Moves, Effects, InStep
  <1>3. CASE task.act \notin {"normalize", "profile"}
    <2>1. \A u \in Threads : MakingRest(u)' /\ ProfilingRest(u)'
      BY <1>1, <1>2, <1>3 DEF InStep, MakingRest, ProfilingRest
    <2>2. task.act = "extract" => Made'
      BY <1>2, MadeKept DEF Datasets
    <2> QED BY <1>2, <1>3, <2>1, <2>2 DEF Datasets
  <1> QED BY <1>3, NormalizationKept, ProfilingKept

-----------------------------------------------------------------------------
(* No content twice.                                                          *)

LEMMA FewerFetched ==
    ASSUME AllDistinct, \A s \in Sources : source'[s].status = "fetched" => source'[s] = source[s]
    PROVE  AllDistinct' /\ Norms' \subseteq Norms
BY DEF AllDistinct, Norms, Fetched, Status

LEMMA OneFailed ==
    ASSUME Typed, AllDistinct, NEW s, Row(s, "failed", "none")
    PROVE  AllDistinct' /\ Norms' \subseteq Norms
  <1>1. \A r \in Sources : source'[r].status = "fetched" => source'[r] = source[r]
    BY DEF Row, Typed, TablesTyped
  <1> QED BY <1>1, FewerFetched

LEMMA OneFetched ==
    ASSUME Typed, AllDistinct, NEW t \in Threads, Norms \subseteq hashes[t],
           Norm[got[t].text] \notin hashes[t], Row(Source(t), "fetched", got[t].text), Accepted(t)
    PROVE  AllDistinct' /\ Norms' \subseteq hashes'[t]
  <1>1. \A r \in Sources : \/ source'[r] = source[r]
                           \/ r = Source(t) /\ source'[r].text = got[t].text
    BY DEF Row, Typed, TablesTyped
  <1>2. hashes'[t] = hashes[t] \union {Norm[got[t].text]}
    BY DEF Accepted, Typed, LocalsTyped
  <1>3. \A r \in Fetched : Norm[source[r].text] \in hashes[t]
    BY DEF Norms
  <1>4. \A r \in Fetched' : \/ r \in Fetched /\ source'[r] = source[r]
                            \/ r = Source(t) /\ source'[r].text = got[t].text
    BY <1>1 DEF Fetched, Status
  <1>5. AllDistinct'
    BY <1>3, <1>4 DEF AllDistinct
  <1>6. Norms' \subseteq hashes'[t]
    BY <1>2, <1>3, <1>4 DEF Norms
  <1> QED BY <1>5, <1>6

LEMMA CommitKept ==
    ASSUME Typed, Distinct, NEW t \in Threads, PageCommitted(t) \/ FileCommitted(t)
    PROVE  AllDistinct' /\ (thread'[t].act = "none" \/ (thread'[t].at = "item" /\ Norms' \subseteq hashes'[t]))
  <1>1. Comparing(t)
    BY DEF PageCommitted, FileCommitted, Fetching, Committing, Comparing
  <1>2. AllDistinct /\ Norms \subseteq hashes[t]
    BY <1>1 DEF Distinct, Compared
  <1>3. CASE PageCommitted(t)
    <2>1. Fresh(t)
      BY <1>1, <1>3 DEF Distinct, Compared, PageCommitted
    <2>2. CASE Row(Source(t), "failed", "none") /\ GoTo(t, "item", {}) /\ UNCHANGED hashes
      BY <1>2, <2>2, OneFailed, GoesOn DEF Continues
    <2>3. CASE ~got[t].dup /\ Row(Source(t), "fetched", got[t].text) /\ Accepted(t) /\ GoTo(t, "item", {})
      <3>1. AllDistinct' /\ Norms' \subseteq hashes'[t]
        BY <1>2, <2>1, <2>3, OneFetched DEF Fresh
      <3>2. Continues(t, "item", {})
        BY <2>3, GoesOn
      <3> QED BY <3>1, <3>2 DEF Continues
    <2>4. CASE Fail(t) /\ UNCHANGED source
      <3>1. AllDistinct'
        BY <1>2, <2>4, FewerFetched
      <3> QED BY <2>4, <3>1, EndsOnce DEF Fail, Fails, Ends
    <2> QED BY <1>3, <2>2, <2>3, <2>4 DEF PageCommitted
  <1>4. CASE FileCommitted(t)
    <2>1. got[t].text = "none" \/ Fresh(t)
      BY <1>1, <1>4 DEF Distinct, Compared, FileCommitted, Committing
    <2>2. thread'[t].at = "item"
      BY <1>4, FileCommittedMoves DEF Continues
    <2>3. CASE got[t].text = "none" \/ got[t].dup
      BY <1>2, <1>4, <2>2, <2>3, OneFailed DEF FileCommitted
    <2>4. CASE ~(got[t].text = "none" \/ got[t].dup)
      BY <1>2, <1>4, <2>1, <2>2, <2>4, OneFetched DEF FileCommitted, Fresh
    <2> QED BY <2>3, <2>4
  <1> QED BY <1>3, <1>4

LEMMA DistinctKept ==
    ASSUME Typed, Alone, Distinct, NEW t \in Threads, Activity(t)
    PROVE  Distinct'
  <1>1. Moves(t)
    BY ActivityMoves
  <1>2. task.by = t /\ \A u \in Threads \ {t} : thread'[u] = thread[u] /\ thread[u].act = "none"
    BY <1>1, MoveTask DEF Others, Moves, Effects, Alone
  <1>3. ASSUME AllDistinct', Comparing(t)' => Compared(t)' PROVE Distinct'
    BY <1>2, <1>3 DEF Distinct, Comparing
  <1>4. thread'[t].act \in {thread[t].act, "none"} /\ AllDistinct
    BY <1>1, MoveTask DEF Distinct
  <1>5. UNCHANGED source => AllDistinct' /\ Norms' = Norms
    BY <1>4 DEF AllDistinct, Norms, Fetched, Status
  <1>6. CASE thread[t].act \notin {"search", "download", "discover", "fetch", "parse"}
    BY <1>1, <1>3, <1>4, <1>5, <1>6 DEF Moves, Effects, Comparing
  <1>7. CASE SearchBegin(t) \/ SourceAdded(t) \/ SearchEnd(t) \/ DownloadBegin(t) \/ Downloaded(t) \/ DownloadEnd(t)
    <2>1. thread[t].act \in {"search", "download"}
      BY <1>7 DEF SearchBegin, SourceAdded, SearchEnd, DownloadBegin, Downloaded, DownloadEnd, At
    <2>2. \A s \in Sources : source'[s].status = "fetched" => source'[s] = source[s]
      BY <1>7 DEF SearchBegin, SourceAdded, SearchEnd, DownloadBegin, Downloaded, DownloadEnd, Row, found,
                  Typed, TablesTyped
    <2> QED BY <1>3, <1>4, <2>1, <2>2, FewerFetched DEF Comparing
  <1>8. CASE FetchBegin(t) \/ ParseDone(t)
    <2>1. UNCHANGED source /\ hashes'[t] = Norms /\ thread'[t].at = "item"
      BY <1>8, FetchBeginMoves, ParseDoneMoves DEF FetchBegin, ParseDone, found, Continues, Typed,
                                                   LocalsTyped
    <2> QED BY <1>3, <1>5, <2>1 DEF Compared
  <1>9. CASE PageRead(t)
    <2>1. /\ UNCHANGED <<source, hashes>> /\ thread'[t].at = "page"
          /\ \E o \in Serves[Current(t)] : got'[t].text = o.text /\ got'[t].dup = Duplicate(t, o.text)
      BY <1>9, PageReadMoves DEF found, Continues
    <2>2. Norms \subseteq hashes[t]
      BY <1>9 DEF Distinct, Comparing, Compared, PageRead, Fetching
    <2>3. Fresh(t)'
      BY <2>1 DEF Fresh, Duplicate
    <2> QED BY <1>3, <1>5, <2>1, <2>2, <2>3 DEF Compared
  <1>10. CASE PageCommitted(t) \/ FileCommitted(t)
    BY <1>3, <1>10, CommitKept DEF Comparing, Compared
  <1>11. CASE PageUnread(t)
    <2>1. UNCHANGED <<source, hashes>> /\ thread'[t].at = "item" /\ thread[t].at = "item" /\ Comparing(t)
      BY <1>11 DEF PageUnread, At, taskVars, found, Comparing
    <2> QED BY <1>3, <1>5, <2>1 DEF Distinct, Compared
  <1>12. CASE FileTried(t)
    <2>1. Norms \subseteq hashes[t] /\ UNCHANGED hashes
      BY <1>12 DEF FileTried, At, Distinct, Comparing, Compared
    <2>2. \/ thread'[t].at = "asset" /\ UNCHANGED source /\ got'[t].text = "none"
          \/ thread'[t].at = "item" /\ Row(Current(t), "failed", "none")
      BY <1>12, FileTriedMoves DEF Continues
    <2>3. AllDistinct' /\ Norms' \subseteq Norms
      BY <1>4, <1>5, <2>2, OneFailed
    <2> QED BY <1>3, <2>1, <2>2, <2>3 DEF Compared
  <1>13. CASE FetchEnd(t) \/ ParseEnd(t)
    <2>1. thread'[t].act = "none" /\ UNCHANGED source
      BY <1>13, FetchEndMoves, ParseEndMoves DEF Ends, FetchEnd, ParseEnd, found
    <2> QED BY <1>3, <1>5, <2>1 DEF Comparing
  <1>14. CASE ParseBegin(t)
    <2>1. thread'[t].at = "parsed" /\ thread[t].act = "parse" /\ UNCHANGED source
      BY <1>14, ParseBeginMoves DEF Continues, ParseBegin, At, found
    <2> QED BY <1>3, <1>4, <1>5, <2>1 DEF Comparing
  <1>15. CASE ParseNext(t)
    <2>1. /\ thread'[t].at = "asset" /\ got'[t].text = "none" /\ UNCHANGED <<source, hashes>>
          /\ thread[t].act = "parse" /\ thread[t].at = "item"
      BY <1>15, ParseNextMoves DEF Continues, ParseNext, At, found
    <2> QED BY <1>3, <1>5, <2>1 DEF Distinct, Comparing, Compared
  <1>16. CASE AssetSaved(t)
    <2>1. /\ UNCHANGED <<source, hashes>> /\ Comparing(t) /\ thread[t].at = "asset"
          /\ thread'[t].at = "tables" \/ (thread'[t].at = "unreadable" /\ UNCHANGED got)
      BY <1>16, AssetSavedMoves DEF Continues, AssetSaved, Committing, Comparing
    <2> QED BY <1>3, <1>5, <2>1 DEF Distinct, Compared
  <1>17. CASE TablesSaved(t)
    <2>1. UNCHANGED <<source, hashes>> /\ Comparing(t)
      BY <1>17, TablesSavedMoves DEF TablesSaved, Committing, Comparing
    <2>2. CASE thread'[t].at = "status" /\ got'[t].text = got[t].text /\ got'[t].dup = Duplicate(t, got[t].text)
      <3>1. Fresh(t)'
        BY <2>1, <2>2 DEF Fresh, Duplicate
      <3> QED BY <1>3, <1>5, <2>1, <2>2, <3>1 DEF Distinct, Compared
    <2>3. CASE thread'[t].at = "dataset"
      BY <1>3, <1>5, <2>1, <2>3 DEF Distinct, Compared
    <2> QED BY <1>17, <2>2, <2>3, TablesSavedMoves DEF Continues
  <1>20. CASE DatasetSaved(t)
    <2>1. /\ UNCHANGED <<source, hashes>> /\ Comparing(t) /\ thread'[t].at = "status"
          /\ got'[t].text = got[t].text /\ got'[t].dup = Duplicate(t, got[t].text)
      BY <1>20, DatasetSavedMoves DEF Continues, DatasetSaved, At, Comparing
    <2>2. Fresh(t)'
      BY <2>1 DEF Fresh, Duplicate
    <2> QED BY <1>3, <1>5, <2>1, <2>2 DEF Distinct, Compared
  <1>18. CASE StatusSet(t)
    <2>1. /\ UNCHANGED <<source, hashes, got>> /\ Comparing(t) /\ thread'[t].at = "row"
          /\ thread[t].at \in {"status", "unreadable"}
      BY <1>18, StatusSetMoves DEF Continues, StatusSet, Committing, Comparing
    <2> QED BY <1>3, <1>5, <2>1 DEF Distinct, Compared, Fresh
  <1>19. thread[t].act \in {"search", "download", "discover", "fetch", "parse"} =>
           \/ SearchBegin(t) \/ SourceAdded(t) \/ SearchEnd(t)
           \/ DownloadBegin(t) \/ Downloaded(t) \/ DownloadEnd(t)
           \/ FetchBegin(t) \/ ParseDone(t) \/ PageRead(t) \/ PageCommitted(t) \/ FileCommitted(t)
           \/ PageUnread(t) \/ FileTried(t) \/ FetchEnd(t) \/ ParseEnd(t) \/ ParseBegin(t) \/ ParseNext(t)
           \/ AssetSaved(t) \/ TablesSaved(t) \/ DatasetSaved(t) \/ StatusSet(t)
    BY ExtractionIs DEF Activity, ExtractionStep, Acquisition, PlanMade, Detected, NormalizeBegin,
                        Normalized,
       NormalizeEnd, ProfileBegin, Profiled, ProfileFailed, ProfileEnd, At
  <1> QED BY <1>6, <1>7, <1>8, <1>9, <1>10, <1>11, <1>12, <1>13, <1>14, <1>15, <1>16, <1>17, <1>18, <1>19, <1>20

-----------------------------------------------------------------------------
(* The steps of the workflow, the service and the threads together.           *)

LEMMA ActivityKeeps ==
    ASSUME IInv, NEW t \in Threads, Activity(t)
    PROVE  IInv'
  <1>1. Typed /\ EvidenceExamined /\ Moves(t)
    BY ActivityMoves DEF IInv
  <1>2. Typed' /\ EvidenceExamined'
    BY <1>1, TypedKept, EvidenceKept
  <1>3. UNCHANGED <<split, stray, cut, timeouts>>
    BY <1>1, MoveTask DEF Moves, Effects
  <1>4. ~split => MadeOrMaking'
    <2>1. ~split => thread[t].act # "parse"
      BY <1>1 DEF Typed, AttemptTyped, SplitOnly
    <2> QED BY <1>1, <2>1, MakingKept DEF IInv
  <1>5. ~stray => InStep' /\ Progress' /\ Datasets'
    BY <1>1, RunnersKept, ProgressKept, DatasetsKept DEF IInv
  <1>6. timeouts = 0 => Alone' /\ Distinct'
    BY <1>1, RunnersKept, DistinctKept DEF IInv
  <1> QED BY <1>2, <1>3, <1>4, <1>5, <1>6 DEF IInv

LEMMA DeliveryKeeps ==
    ASSUME IInv, Delivery
    PROVE  IInv'
  <1>1. PICK t \in Threads : Pick(t)
    BY DEF Delivery
  <1>2. /\ Typed /\ task.by = "queue" /\ thread[t] = Idle /\ thread[t].act = "none"
        /\ UNCHANGED <<found, evidence, checkpoint, locals, examined, split, stray, cut, timeouts, losses>>
    BY <1>1 DEF Delivery, Pick, IInv, Idle
  <1>3. /\ DOMAIN thread' = Threads /\ \A u \in Threads \ {t} : thread'[u] = thread[u]
        /\ thread'[t] = [act |-> task.act, at |-> "start", read |-> {}]
        /\ thread'[t].act = task.act /\ thread'[t].at = "start" /\ thread'[t].read = {}
    BY <1>1, <1>2 DEF Pick, Idle, Typed, LocalsTyped
  <1>4. task' = [act |-> task.act, left |-> task.left, by |-> t]
        /\ task'.act = task.act /\ task'.left = task.left /\ task'.by = t
    BY <1>1, <1>2 DEF Pick, Typed, TaskTyped
  <1>5. t \notin Waiting /\ task'.by # "done"
    BY <1>4, Places DEF Waiting
  <1>6. Typed'
    <2>1. TaskTyped' /\ LocalsTyped' /\ TablesTyped'
      BY <1>2, <1>3, <1>4 DEF Typed, TaskTyped, LocalsTyped, TablesTyped, found, locals
    <2>2. ASSUME NEW u \in Threads PROVE AttemptTyped(u)'
      <3>1. CASE u = t
        BY <1>2, <1>3, <1>4, <3>1 DEF Typed, TaskTyped, AttemptTyped, locals, Holding, Activities
      <3>2. CASE u # t
        <4>1. AttemptTyped(u) /\ thread'[u] = thread[u] /\ UNCHANGED <<todo, got, split>> /\ task'.by # u
          BY <1>2, <1>3, <1>4, <3>2 DEF Typed, locals
        <4> QED BY <4>1 DEF AttemptTyped
      <3> QED BY <3>1, <3>2
    <2> QED BY <2>1, <2>2 DEF Typed
  <1>7. \A u \in Threads : Current(u)' = Current(u)
    BY <1>2, CurrentStays DEF locals
  <1>8. EvidenceExamined'
    BY <1>2, <1>3, <1>7 DEF EvidenceExamined, IInv
  <1>9. UNCHANGED <<tables, dataset, source, todo, got, hashes>> /\ Fetched' = Fetched /\ Norms' = Norms
    BY <1>2 DEF found, locals, Fetched, Status, Norms
  <1>10. ~split => MadeOrMaking'
    <2>1. \A u \in Threads : Between(u) => Between(u)'
      BY <1>2, <1>3 DEF Between
    <2> QED BY <1>2, <1>9, <2>1 DEF IInv, MadeOrMaking
  <1>11. ASSUME ~stray PROVE InStep' /\ Progress' /\ Datasets'
    <2>1. InStep /\ Progress /\ Datasets
      BY <1>11 DEF IInv
    <2>2. InStep'
      BY <1>3, <1>4, <2>1 DEF InStep
    <2>3. Progress'
      BY <1>2, <1>3, <1>4, <1>5, <1>9, <2>1 DEF Progress, Examining
    <2>4. Datasets'
      BY <1>2, <1>3, <1>4, <1>5, <1>9, <2>1 DEF Datasets, MakingRest, ProfilingRest, Made
    <2> QED BY <2>2, <2>3, <2>4
  <1>12. ASSUME timeouts = 0 PROVE Alone' /\ Distinct'
    <2>1. Alone /\ Distinct
      BY <1>12 DEF IInv
    <2>2. \A u \in Threads : task.by # u
      BY <1>2, Places DEF Waiting
    <2>3. Alone'
      BY <1>3, <1>4, <2>1, <2>2 DEF Alone
    <2>4. Distinct'
      BY <1>3, <1>9, <2>1 DEF Distinct, AllDistinct, Comparing, Compared, Fresh
    <2> QED BY <2>3, <2>4
  <1> QED BY <1>2, <1>6, <1>8, <1>10, <1>11, <1>12 DEF IInv

(* An attempt is over without a result; its thread goes on or is free.        *)
GivenUpStep ==
    /\ task' = [act |-> task.act, left |-> task'.left, by |-> task'.by]
    /\ task'.act = task.act /\ task'.left \in Nat /\ task'.by \in Threads \union Waiting
    /\ task'.by = "done" => task.by = "done"
    /\ \A u \in Threads : task'.by = u => task.by = u /\ thread'[u] = thread[u]
    /\ DOMAIN thread' = Threads /\ \A u \in Threads : thread'[u] \in {thread[u], Idle}
    /\ timeouts' \in Nat /\ losses' \in Nat
    /\ timeouts' = 0 => timeouts = 0 /\ (Alone => Alone')

LEMMA ServiceKeeps ==
    ASSUME IInv, Service
    PROVE  IInv'
  <1>1. /\ Typed /\ UNCHANGED <<found, evidence, examined, split, stray>> /\ cut \subseteq cut'
        /\ checkpoint \in Nat /\ checkpoint' \in 0..checkpoint /\ checkpoint' \in 0..NumSources
    BY SourcesAssumption DEF Service, IInv, EarlierBeats, Typed, TablesTyped
  <1>2. GivenUpStep
    <2>1. CASE TimeOut
      <3>1. /\ task.by \in Threads /\ task' = GivenUp /\ UNCHANGED <<thread, losses>>
            /\ timeouts' = timeouts + 1 /\ timeouts \in Nat /\ losses \in Nat /\ DOMAIN thread = Threads
        BY <1>1, <2>1 DEF TimeOut, Typed, TaskTyped, LocalsTyped
      <3>2. /\ GivenUp = [act |-> task.act, left |-> GivenUp.left, by |-> GivenUp.by]
            /\ GivenUp.left \in Nat /\ GivenUp.by \in {"queue", "failed"}
        <4>1. /\ task = [act |-> task.act, left |-> task.left, by |-> task.by] /\ task.left \in Nat
          BY <1>1 DEF Typed, TaskTyped
        <4>2. CASE task.left > 1
          <5>1. GivenUp = [act |-> task.act, left |-> task.left - 1, by |-> "queue"]
            BY <4>1, <4>2 DEF GivenUp
          <5> QED BY <4>1, <4>2, <5>1
        <4>3. CASE ~(task.left > 1)
          <5>1. GivenUp = [act |-> task.act, left |-> 0, by |-> "failed"]
            BY <4>1, <4>3 DEF GivenUp
          <5> QED BY <5>1
        <4> QED BY <4>2, <4>3
      <3>3. \A u \in Threads : task'.by # u
        BY <3>1, <3>2, Places DEF Waiting
      <3>4. task'.by \in Waiting /\ task'.by # "done" /\ task'.act = task.act
        BY <3>1, <3>2 DEF Waiting
      <3> QED BY <1>1, <3>1, <3>2, <3>3, <3>4 DEF GivenUpStep, Typed, LocalsTyped
    <2>2. ASSUME NEW t \in Threads, Fault(t) PROVE GivenUpStep
      <3>1. Fails(t) /\ timeouts \in Nat
        BY <1>1, <2>2, EndsOnce DEF Typed, TaskTyped
      <3>2. Ends(t) /\ (task'.by = "done" => task.by = "done") /\ t \notin Waiting
        BY <3>1, Places DEF Fails
      <3>3. \A u \in Threads : task'.by = u => task.by = u /\ u # t
        BY <3>2, Places DEF Ends
      <3>4. Alone => Alone'
        BY <3>2 DEF Ends, Others, Alone
      <3> QED BY <3>1, <3>2, <3>3, <3>4 DEF GivenUpStep, Ends, Others
    <2> QED BY <2>1, <2>2 DEF Service
  <1>3. \A u \in Threads : \/ thread'[u] = Idle /\ got'[u] = NoCandidate
                           \/ /\ thread'[u] = thread[u]
                              /\ todo'[u] = todo[u] /\ got'[u] = got[u] /\ hashes'[u] = hashes[u]
    BY <1>2 DEF Service, GivenUpStep
  <1>4. LocalsTyped' /\ TaskTyped' /\ TablesTyped'
    <2>1. todo' \in [Threads -> SUBSET Sources] /\ DOMAIN got' = Threads /\ DOMAIN hashes' = Threads
      BY <1>1 DEF Service, Typed, LocalsTyped
    <2> QED BY <1>1, <1>2, <2>1 DEF Typed, LocalsTyped, TaskTyped, TablesTyped, found, GivenUpStep
  <1>5. Idle = [act |-> "none", at |-> "none", read |-> {}] /\ Idle.act = "none" /\ Idle.at = "none"
    BY DEF Idle
  <1>6. ASSUME NEW u \in Threads PROVE AttemptTyped(u)'
    <2>1. CASE thread'[u] = thread[u] /\ todo'[u] = todo[u] /\ got'[u] = got[u]
      BY <1>1, <1>2, <2>1 DEF Typed, AttemptTyped, GivenUpStep
    <2>2. CASE thread'[u] = Idle /\ got'[u] = NoCandidate
      <3>1. task'.by = u => thread[u].act = task.act /\ thread'[u] = thread[u]
        BY <1>1, <1>2 DEF Typed, AttemptTyped, GivenUpStep
      <3> QED BY <1>2, <1>5, <2>2, <3>1, NoRecord DEF AttemptTyped, SplitOnly, GivenUpStep
    <2> QED BY <1>3, <2>1, <2>2
  <1>7. EvidenceExamined'
    BY <1>1, <1>3, <1>5, CurrentStays DEF EvidenceExamined, IInv
  <1>8. UNCHANGED <<source, tables, dataset>> /\ Fetched' = Fetched /\ Norms' = Norms
    BY <1>1 DEF found, Fetched, Status, Norms
  <1>9. (~split => MadeOrMaking') /\ (cut' # {} => ~split)
    <2>1. ASSUME NEW u \in Threads, Between(u), thread'[u] = Idle PROVE got[u].file \in cut' /\ ~split
      BY <1>1, <2>1 DEF Between, At, Service, Typed, AttemptTyped
    <2>2. ASSUME NEW u \in Threads, Between(u), thread'[u] # Idle PROVE Between(u)' /\ got'[u] = got[u]
      BY <1>3, <2>2 DEF Between
    <2>3. cut' # {} => cut # {} \/ \E u \in Threads : Between(u) /\ thread'[u] = Idle
      BY DEF Service, Between, At
    <2>4. ~split => MadeOrMaking'
      BY <1>1, <1>8, <2>1, <2>2 DEF IInv, MadeOrMaking
    <2> QED BY <2>1, <2>3, <2>4 DEF IInv
  <1>10. ASSUME ~stray PROVE InStep' /\ Progress' /\ Datasets'
    <2>1. InStep /\ Progress /\ Datasets
      BY <1>10 DEF IInv
    <2>2. InStep'
      BY <1>2, <1>5, <2>1 DEF InStep, GivenUpStep
    <2>3. \A s \in Fetched : s <= checkpoint' => s <= checkpoint
      BY <1>1, SourcesAssumption DEF Fetched, Status, Sources
    <2>4. Progress'
      BY <1>1, <1>2, <1>3, <1>5, <1>8, <2>1, <2>3 DEF Progress, Examining, GivenUpStep
    <2>5. Datasets'
      BY <1>1, <1>2, <1>3, <1>5, <1>8, <2>1 DEF Datasets, MakingRest, ProfilingRest, Made, GivenUpStep
    <2> QED BY <2>2, <2>4, <2>5
  <1>11. ASSUME timeouts' = 0 PROVE Alone' /\ Distinct'
    <2>1. Alone' /\ Distinct
      BY <1>2, <1>11 DEF IInv, GivenUpStep
    <2>2. Distinct'
      BY <1>3, <1>5, <1>8, <2>1 DEF Distinct, AllDistinct, Comparing, Compared, Fresh
    <2> QED BY <2>1, <2>2
  <1> QED BY <1>1, <1>4, <1>6, <1>7, <1>9, <1>10, <1>11 DEF IInv, Typed

LEMMA AdvanceKeeps ==
    ASSUME IInv, Advance
    PROVE  IInv'
  <1>1. /\ Typed /\ task.by = "done" /\ checkpoint' = 0 /\ task.act \in DOMAIN Follows
        /\ UNCHANGED <<thread, timeouts, losses, found, evidence, locals, examined, split, cut>>
    BY DEF IInv, Advance
  <1>2. DOMAIN Follows = Activities \ {"profile"}
    BY DEF Follows, Activities
  <1>3. /\ task' = [act |-> Follows[task.act], left |-> MaxAttempts, by |-> "queue"]
        /\ task'.act = Follows[task.act] /\ task'.left = MaxAttempts /\ task'.by = "queue"
    BY DEF Advance, Queued
  <1>4. /\ task'.act \in Activities
        /\ task'.act \in SplitOnly => split
        /\ task'.act = "fetch" => ~split
        /\ task'.act = "extract" => task.act = "normalize" \/ (task.act = "fetch" /\ ~split)
        /\ task'.act = "profile" => task.act = "extract"
    BY <1>1, <1>2, <1>3 DEF Follows, Activities, SplitOnly, Typed, TaskTyped
  <1>5. \A t \in Threads : task.by # t /\ task'.by # t
    BY <1>1, <1>3, Places DEF Waiting
  <1>6. Typed'
    <2>1. TaskTyped' /\ LocalsTyped' /\ TablesTyped'
      BY <1>1, <1>3, <1>4, SourcesAssumption DEF Typed, TaskTyped, LocalsTyped, TablesTyped, found, locals,
                                                 Waiting
    <2>2. \A t \in Threads : AttemptTyped(t)'
      BY <1>1, <1>5 DEF Typed, AttemptTyped, locals
    <2> QED BY <2>1, <2>2 DEF Typed
  <1>7. EvidenceExamined'
    BY <1>1, CurrentStays DEF IInv, EvidenceExamined, locals
  <1>8. UNCHANGED <<source, tables, dataset, todo, got, hashes>> /\ Fetched' = Fetched /\ Norms' = Norms
    BY <1>1 DEF found, locals, Fetched, Status, Norms
  <1>9. ~split => MadeOrMaking'
    BY <1>1, <1>8 DEF IInv, MadeOrMaking, Between
  <1>10. ASSUME ~stray' PROVE InStep' /\ Progress' /\ Datasets'
    <2>1. ~stray /\ \A t \in Threads : thread[t] = Idle
      BY <1>10 DEF Advance
    <2>2. Progress /\ Datasets /\ \A t \in Threads : thread'[t].act = "none"
      BY <1>1, <2>1 DEF IInv, Idle
    <2>3. \A s \in Fetched : ~(s <= 0)
      BY SourcesAssumption DEF Fetched, Status, Sources
    <2>4. Progress'
      BY <1>1, <1>3, <1>4, <1>8, <2>2, <2>3 DEF Progress, Examining
    <2>5. task'.act \in {"extract", "profile"} => Made
      <3>1. ~split => Made
        BY <1>1, <2>2 DEF IInv, MadeOrMaking, Made, Between
      <3> QED BY <1>1, <1>4, <2>2, <3>1 DEF Datasets
    <2>6. Datasets'
      BY <1>1, <1>3, <1>8, <2>2, <2>5 DEF Datasets, MakingRest, ProfilingRest, Made
    <2> QED BY <2>2, <2>4, <2>6 DEF InStep
  <1>11. ASSUME timeouts = 0 PROVE Alone' /\ Distinct'
    <2>1. Alone /\ Distinct
      BY <1>11 DEF IInv
    <2>2. Alone'
      BY <1>1, <1>5, <2>1 DEF Alone
    <2>3. Distinct'
      BY <1>1, <1>8, <2>1 DEF Distinct, AllDistinct, Comparing, Compared, Fresh
    <2> QED BY <2>2, <2>3
  <1> QED BY <1>1, <1>6, <1>7, <1>9, <1>10, <1>11 DEF IInv

LEMMA InitHolds == Init => IInv
  <1> SUFFICES ASSUME Init PROVE IInv
    OBVIOUS
  <1>1. task = [act |-> "plan", left |-> MaxAttempts, by |-> "queue"]
        /\ task.act = "plan" /\ task.left = MaxAttempts /\ task.by = "queue"
    BY DEF Init, Queued
  <1>2. \A t \in Threads : /\ thread[t] = Idle /\ thread[t].act = "none" /\ thread[t].at = "none"
                           /\ got[t] = NoCandidate /\ task.by # t
    BY <1>1, Places DEF Init, Idle, Waiting
  <1>3. TaskTyped /\ LocalsTyped /\ TablesTyped
    BY <1>1, SourcesAssumption DEF Init, TaskTyped, LocalsTyped, TablesTyped, Activities, SplitOnly, Waiting
  <1>4. ASSUME NEW t \in Threads PROVE AttemptTyped(t)
    <2>1. /\ thread[t] = [act |-> "none", at |-> "none", read |-> {}]
          /\ thread[t].act = "none" /\ thread[t].at = "none" /\ thread[t].read = {}
      BY <1>2, <1>4 DEF Idle
    <2>2. IsCandidate(got[t]) /\ thread[t] = Idle /\ task.by # t
      BY <1>2, <1>4, NoRecord
    <2>3. thread[t] = [act |-> thread[t].act, at |-> thread[t].at, read |-> thread[t].read]
      BY <2>1
    <2>4. thread[t].act \notin SplitOnly \union {"fetch", "extract", "parse"}
      BY <2>1 DEF SplitOnly
    <2>5. thread[t].at \notin {"asset", "tables", "dataset"}
      BY <2>1
    <2> QED BY <2>1, <2>2, <2>3, <2>4, <2>5 DEF AttemptTyped
  <1>5. EvidenceExamined /\ Made /\ MadeOrMaking /\ cut = {}
    BY <1>2 DEF Init, EvidenceExamined, Made, MadeOrMaking
  <1>6. InStep /\ Alone /\ Progress /\ Datasets
    BY <1>1, <1>2, <1>5 DEF InStep, Alone, Progress, Datasets, MakingRest, ProfilingRest
  <1>7. Fetched = {}
    BY DEF Init, Fetched, Status
  <1>8. Distinct
    BY <1>2, <1>7 DEF Distinct, AllDistinct, Comparing
  <1> QED BY <1>3, <1>4, <1>5, <1>6, <1>8 DEF IInv, Typed

LEMMA NextKeeps == IInv /\ [Next]_vars => IInv'
  <1> SUFFICES ASSUME IInv, [Next]_vars PROVE IInv'
    OBVIOUS
  <1>1. CASE Next
    BY <1>1, ActivityKeeps, DeliveryKeeps, ServiceKeeps, AdvanceKeeps DEF Next
  <1>2. CASE UNCHANGED vars
    <2>1. UNCHANGED <<task, thread, timeouts, losses, source, tables, dataset, evidence, checkpoint,
                      todo, got, hashes, examined, split, stray, cut>>
      BY <1>2 DEF vars, taskVars, found, locals
    <2>2. /\ Fetched' = Fetched /\ Norms' = Norms /\ \A u \in Threads : Current(u)' = Current(u)
      BY <2>1, CurrentStays DEF Fetched, Status, Norms
    <2>3. Typed' /\ EvidenceExamined' /\ (~split => MadeOrMaking')
      BY <2>1, <2>2 DEF IInv, Typed, TaskTyped, LocalsTyped, TablesTyped, AttemptTyped, EvidenceExamined,
                        MadeOrMaking, Between
    <2>4. ~stray => InStep' /\ Progress' /\ Datasets'
      BY <2>1, <2>2 DEF IInv, InStep, Progress, Examining, Datasets, MakingRest, ProfilingRest, Made
    <2>5. timeouts = 0 => Alone' /\ Distinct'
      BY <2>1, <2>2 DEF IInv, Alone, Distinct, AllDistinct, Comparing, Compared, Fresh
    <2> QED BY <2>1, <2>3, <2>4, <2>5 DEF IInv
  <1> QED BY <1>1, <1>2

LEMMA Inductive == Spec => []IInv
  <1>1. Init => IInv
    BY InitHolds
  <1>2. IInv /\ [Next]_vars => IInv'
    BY NextKeeps
  <1> QED BY <1>1, <1>2, PTL DEF Spec

(* Attempt by attempt the tables, the position of each attempt and what it    *)
(* holds keep their types: an extraction that has put a source to the model   *)
(* has one, and a file that is committed is one that was served.              *)
THEOREM TypeCorrect == Spec => []Typed
  <1>1. IInv => Typed
    BY DEF IInv
  <1> QED BY <1>1, Inductive, PTL

(* While no attempt was given up, no two fetched sources have the same        *)
(* content, page or file, whatever sources redirect to each other and         *)
(* however many attempts fail between two transactions.                       *)
THEOREM NothingRepeated == Spec => []Unrepeated
  <1>1. IInv => Unrepeated
    BY DEF IInv, Distinct, AllDistinct, Unrepeated
  <1> QED BY <1>1, Inductive, PTL

(* The checkpoint of the extraction never gets ahead of what was put to the   *)
(* model: when it succeeds, every fetched source was examined, in whichever   *)
(* attempts, and whatever was given up and whatever heartbeats were lost      *)
(* before, unless an attempt outlived an earlier activity.                    *)
THEOREM SourcesExamined == Spec => []NoSourceSkipped
  <1>1. IInv => NoSourceSkipped
    BY DEF IInv, Progress, NoSourceSkipped
  <1> QED BY <1>1, Inductive, PTL

(* When the profiling succeeds every parsed table has its profiled dataset,   *)
(* unless an attempt outlived an earlier activity; only a workflow from       *)
(* before "split-source-assets-v1" may leave a table without a dataset, and   *)
(* only one whose attempt ended between save_parsed_asset and                 *)
(* save_tabular_dataset.                                                      *)
THEOREM AllTablesProfiled == Spec => []TablesProfiled
  <1>1. IInv => TablesProfiled
    BY DEF IInv, Datasets, TablesProfiled
  <1> QED BY <1>1, Inductive, PTL
-----------------------------------------------------------------------------
(* FROM THE EVIDENCE TO THE REPORT (ReportPipeline).  The inductive           *)
(* invariant: the types, who publishes while no attempt was given up, and     *)
(* what was lost when a completed job is failed.                              *)

ReportActivities == {"synthesize", "generate", "validate", "notify", "reset", "complete",
                     "register", "announce", "deliver", "finish", "fail"}
ReportWaiting == {"queue", "done", "failed", "rejected", "lost"}

ReportTyped ==
    /\ task = [act |-> task.act, left |-> task.left, by |-> task.by]
    /\ task.act \in ReportActivities \union {"closed"} /\ task.left \in Nat
    /\ task.by \in Threads \union ReportWaiting
    /\ task.act = "closed" => task.by \in {"done", "failed"}
    /\ task.by = "rejected" => task.act = "validate"
    /\ DOMAIN thread = Threads
    /\ \A t \in Threads :
         /\ thread[t] = [act |-> thread[t].act, at |-> thread[t].at, read |-> thread[t].read]
         /\ thread[t].act = "none" => thread[t] = Idle
         /\ task.by = t => thread[t].act = task.act
    /\ timeouts \in Nat /\ losses \in Nat
    /\ row \in {"none", "draft", "published"} /\ completed \in BOOLEAN

Ending == {"complete", "register", "announce", "deliver", "finish", "fail", "closed"}
Over(t) == task.by = t /\ thread[t].at = "over"

(* A report is published by a validation that is not tried again.             *)
PublishedLate ==
    /\ row = "published" =>
         \/ task.act \in Ending
         \/ task.act = "validate" /\ (task.by \in {"done", "lost", "failed"} \/ \E t \in Threads : Over(t))
    /\ task.act = "validate" => task.left <= 1
    /\ task.act = "validate" /\ (task.by = "done" \/ \E t \in Threads : Over(t)) => row = "published"
    /\ task.act = "complete" => row = "published"

(* complete_job finds the published version, so each attempt that did not     *)
(* bring the job to its end was lost; what else fails then comes after it.    *)
Excused == lastError \in Closing \/ (lastError = "complete" /\ losses > 2)

CompletedLate ==
    /\ completed => task.act \in Ending
    /\ completed /\ (task.act = "fail" \/ task = Closed("failed")) => Excused
    /\ task.act = "complete" /\ task.by # "done" =>
         /\ task.by \in Threads \union {"queue"} => losses + task.left >= 3
         /\ task.by = "lost" => losses + task.left >= 4
         /\ task.by = "failed" => losses >= 3

Calm == Alone /\ PublishedLate /\ CompletedLate

ReportInv == ReportTyped /\ (timeouts = 0 => Calm)

-----------------------------------------------------------------------------
(* What the steps of an attempt do to the task and the threads.               *)

LEMMA ReportPlaces == \A t \in Threads : t \notin ReportWaiting
BY ThreadsAssumption DEF ReportWaiting

LEMMA Attempts ==
    /\ AttemptsOf("validate") = 1 /\ AttemptsOf("complete") = 3
    /\ \A a \in ReportActivities : AttemptsOf(a) \in Nat
BY DEF AttemptsOf, ReportActivities

RowTyped(t) ==
    /\ thread[t] = [act |-> thread[t].act, at |-> thread[t].at, read |-> thread[t].read]
    /\ thread[t].act = "none" => thread[t] = Idle
OthersStay(t) == DOMAIN thread' = Threads /\ \A u \in Threads \ {t} : thread'[u] = thread[u]

LEMMA GoToFields ==
    ASSUME ReportTyped, NEW t \in Threads, thread[t].act # "none", NEW p, NEW read, GoTo(t, p, read)
    PROVE  /\ OthersStay(t) /\ RowTyped(t)' /\ UNCHANGED <<task, timeouts, losses>>
           /\ thread'[t].act = thread[t].act /\ thread'[t].at = p
  <1>1. DOMAIN thread = Threads /\ RowTyped(t)
    BY DEF ReportTyped, RowTyped
  <1>2. thread' = [thread EXCEPT ![t].at = p, ![t].read = read] /\ UNCHANGED <<task, timeouts, losses>>
    BY DEF GoTo
  <1>3. OthersStay(t) /\ thread'[t] = [act |-> thread[t].act, at |-> p, read |-> read]
    BY <1>1, <1>2 DEF RowTyped, OthersStay
  <1>4. thread'[t].act = thread[t].act /\ thread'[t].at = p /\ thread'[t].read = read
    BY <1>3
  <1>5. RowTyped(t)'
    BY <1>3, <1>4 DEF RowTyped
  <1> QED BY <1>2, <1>3, <1>4, <1>5

(* The attempts left, once one of them is over without a result.              *)
LEMMA GivenUpFields ==
    ASSUME ReportTyped
    PROVE  /\ GivenUp = [act |-> task.act, left |-> GivenUp.left, by |-> GivenUp.by]
           /\ \/ task.left > 1 /\ GivenUp.left = task.left - 1 /\ GivenUp.by = "queue"
              \/ task.left <= 1 /\ GivenUp.left = 0 /\ GivenUp.by = "failed"
           /\ GivenUp.left \in Nat
  <1>1. task = [act |-> task.act, left |-> task.left, by |-> task.by] /\ task.left \in Nat
    BY DEF ReportTyped
  <1>2. CASE task.left > 1
    <2>1. GivenUp = [act |-> task.act, left |-> task.left - 1, by |-> "queue"]
      BY <1>1, <1>2 DEF GivenUp
    <2> QED BY <1>1, <1>2, <2>1
  <1>3. CASE task.left <= 1
    <2>0. ~(task.left > 1)
      BY <1>1, <1>3
    <2>1. GivenUp = [act |-> task.act, left |-> 0, by |-> "failed"]
      BY <1>1, <2>0 DEF GivenUp
    <2> QED BY <1>1, <1>3, <2>1
  <1> QED BY <1>1, <1>2, <1>3

LEMMA EndFields ==
    ASSUME ReportTyped, NEW t \in Threads, Return(t) \/ Raise(t) \/ RaiseFinal(t) \/ Fault(t)
    PROVE  /\ OthersStay(t) /\ RowTyped(t)' /\ UNCHANGED timeouts
           /\ thread'[t].act = "none" /\ thread'[t].at = "none"
           /\ task.by # t => UNCHANGED task
           /\ Return(t) /\ task.by = t => task' = [act |-> task.act, left |-> task.left, by |-> "done"]
           /\ Raise(t) \/ Fault(t) => (task.by = t => task' = GivenUp)
           /\ RaiseFinal(t) /\ task.by = t => task' = [act |-> task.act, left |-> 0, by |-> "rejected"]
           /\ losses' = IF losses' = losses THEN losses ELSE losses + 1
           /\ Return(t) \/ Raise(t) \/ RaiseFinal(t) => UNCHANGED losses
           /\ Fault(t) => losses' = losses + 1 /\ thread[t] # Idle
  <1>1. OthersStay(t) /\ thread'[t] = Idle
    BY DEF ReportTyped, Return, Raise, RaiseFinal, Fault, OthersStay
  <1>2. RowTyped(t)' /\ thread'[t].act = "none" /\ thread'[t].at = "none"
    BY <1>1 DEF RowTyped, Idle
  <1>3. losses \in Nat
    BY DEF ReportTyped
  <1> QED BY <1>1, <1>2, <1>3 DEF ReportTyped, Return, Raise, RaiseFinal, Fault

LEMMA RowsTyped ==
    ASSUME ReportTyped, NEW t \in Threads, OthersStay(t), RowTyped(t)',
           \A u \in Threads : task'.by = u => task' = task /\ thread'[u].act = thread[u].act
    PROVE  /\ DOMAIN thread' = Threads
           /\ \A u \in Threads :
                /\ thread'[u] = [act |-> thread'[u].act, at |-> thread'[u].at, read |-> thread'[u].read]
                /\ thread'[u].act = "none" => thread'[u] = Idle
                /\ task'.by = u => thread'[u].act = task'.act
BY DEF ReportTyped, OthersStay, RowTyped

(* An attempt that goes on. *)
LEMMA ReportGoesOn ==
    ASSUME ReportInv, NEW t \in Threads, thread[t].act # "none", NEW p, NEW read, GoTo(t, p, read),
           row' \in {"none", "draft", "published"}, completed' \in BOOLEAN, UNCHANGED lastError,
           timeouts = 0 /\ Calm =>
             /\ row' = "published" => task.act = "complete" \/ (task.act = "validate" /\ p = "over") \/ row' = row
             /\ row' # "published" => ~(task.act = "validate" /\ p = "over") /\ task.act # "complete"
             /\ row' = "published" /\ task.act = "validate" => p = "over"
             /\ completed' => completed \/ task.act = "complete"
    PROVE  ReportInv'
  <1>0. ReportTyped /\ UNCHANGED <<task, timeouts, losses>>
    BY GoToFields DEF ReportInv
  <1>1. OthersStay(t) /\ RowTyped(t)' /\ thread'[t].act = thread[t].act /\ thread'[t].at = p
    BY <1>0, GoToFields
  <1>2. ReportTyped'
    <2>1. \A u \in Threads : thread'[u].act = thread[u].act
      BY <1>1 DEF OthersStay
    <2> QED BY <1>0, <1>1, <2>1, RowsTyped DEF ReportTyped
  <1>3. ASSUME timeouts = 0 PROVE Calm'
    <2>1. Calm /\ task.by = t
      BY <1>0, <1>3 DEF ReportInv, Calm, Alone
    <2>2. Alone'
      BY <1>0, <1>1, <2>1 DEF Calm, Alone, OthersStay
    <2>3. \A u \in Threads : Over(u)' <=> u = t /\ p = "over"
      BY <1>0, <1>1, <2>1 DEF Over
    <2>4. t \notin ReportWaiting
      BY ReportPlaces
    <2>5. PublishedLate'
      BY <1>0, <1>3, <2>1, <2>3, <2>4 DEF Calm, PublishedLate, ReportWaiting, Over
    <2>6. CompletedLate'
      BY <1>0, <1>3, <2>1, <2>4 DEF Calm, CompletedLate, Excused, Ending, Closed, ReportWaiting, ReportTyped
    <2> QED BY <2>2, <2>5, <2>6 DEF Calm
  <1> QED BY <1>0, <1>2, <1>3 DEF ReportInv

(* An attempt that ends: a validation returns with the report published, and  *)
(* complete_job raises only without one.                                      *)
Returns(t) == Return(t) /\ (thread[t].act = "validate" => thread[t].at = "over")
Raises(t) == Raise(t) /\ thread[t].at # "over" /\ (thread[t].act = "complete" => row # "published")
Rejects(t) == RaiseFinal(t) /\ thread[t].act = "validate" /\ thread[t].at # "over"

LEMMA ReportEnds ==
    ASSUME ReportInv, NEW t \in Threads, thread[t].act # "none",
           Returns(t) \/ Raises(t) \/ Rejects(t) \/ Fault(t), UNCHANGED <<row, completed, lastError>>
    PROVE  ReportInv'
  <1>0. ReportTyped /\ OthersStay(t) /\ RowTyped(t)' /\ UNCHANGED timeouts /\ thread'[t].act = "none"
    BY EndFields DEF ReportInv, Returns, Raises, Rejects
  <1>1. /\ task.by # t => task' = task
        /\ Returns(t) /\ task.by = t => task' = [act |-> task.act, left |-> task.left, by |-> "done"]
        /\ Raises(t) \/ Fault(t) => (task.by = t => task' = GivenUp)
        /\ Rejects(t) /\ task.by = t => task' = [act |-> task.act, left |-> 0, by |-> "rejected"]
        /\ Returns(t) \/ Raises(t) \/ Rejects(t) => losses' = losses
        /\ Fault(t) => losses' = losses + 1
    BY <1>0, EndFields DEF Returns, Raises, Rejects
  <1>2. /\ GivenUp = [act |-> task.act, left |-> GivenUp.left, by |-> GivenUp.by] /\ GivenUp.left \in Nat
        /\ \/ task.left > 1 /\ GivenUp.left = task.left - 1 /\ GivenUp.by = "queue"
           \/ task.left <= 1 /\ GivenUp.left = 0 /\ GivenUp.by = "failed"
    BY <1>0, GivenUpFields
  <1>3. t \notin ReportWaiting
    BY ReportPlaces
  <1>4. CASE task.by # t
    <2>1. task' = task /\ losses' \in Nat
      BY <1>0, <1>1, <1>4 DEF ReportTyped
    <2>2. \A u \in Threads : task'.by = u => task' = task /\ thread'[u].act = thread[u].act
      BY <1>0, <1>4, <2>1 DEF OthersStay
    <2>3. ReportTyped'
      BY <1>0, <2>1, <2>2, RowsTyped DEF ReportTyped
    <2>4. timeouts # 0
      BY <1>4 DEF ReportInv, Calm, Alone
    <2> QED BY <1>0, <2>3, <2>4 DEF ReportInv
  <1>5. CASE task.by = t
    <2>1. thread[t].act = task.act /\ task.act # "closed"
      BY <1>0, <1>3, <1>5 DEF ReportTyped, ReportWaiting
    <2>2. /\ task' = [act |-> task.act, left |-> task'.left, by |-> task'.by]
          /\ task'.left \in Nat /\ task'.by \in ReportWaiting
          /\ task'.by = "rejected" => task.act = "validate"
      <3>1. CASE Returns(t)
        BY <1>0, <1>1, <1>5, <3>1 DEF ReportTyped, ReportWaiting
      <3>2. CASE Raises(t) \/ Fault(t)
        BY <1>1, <1>2, <1>5, <3>2 DEF ReportWaiting
      <3>3. CASE Rejects(t)
        BY <1>1, <1>5, <2>1, <3>3 DEF ReportWaiting, Rejects
      <3> QED BY <3>1, <3>2, <3>3
    <2>3. task'.act = task.act /\ \A u \in Threads : task'.by # u
      BY <2>2, ReportPlaces
    <2>4. losses' \in Nat
      BY <1>0, <1>1 DEF ReportTyped
    <2>5. ReportTyped'
      BY <1>0, <2>1, <2>2, <2>3, <2>4, RowsTyped DEF ReportTyped
    <2>6. ASSUME timeouts = 0 PROVE Calm'
      <3>1. PublishedLate /\ CompletedLate /\ \A u \in Threads : thread'[u].act = "none"
        BY <1>0, <1>5, <2>6 DEF ReportInv, Calm, Alone, OthersStay
      <3>2. Alone' /\ \A u \in Threads : ~Over(u)'
        BY <2>3, <3>1 DEF Alone, Over
      <3>3. task.act = "validate" /\ row = "published" => thread[t].at = "over"
        BY <1>3, <1>5, <3>1 DEF PublishedLate, Over, Ending, ReportWaiting
      <3>4. Over(t) <=> thread[t].at = "over"
        BY <1>5 DEF Over
      <3>5. PublishedLate'
        <4>1. CASE Returns(t)
          BY <1>0, <1>1, <1>5, <2>1, <2>3, <3>1, <3>2, <3>3, <3>4, <4>1 DEF PublishedLate, Returns
        <4>2. CASE Raises(t) \/ Fault(t)
          <5>1. task.act = "validate" => task'.by = "failed" /\ task'.left = 0
            BY <1>0, <1>1, <1>2, <1>5, <3>1, <4>2 DEF PublishedLate, ReportTyped, Raises
          <5> QED BY <2>3, <3>1, <3>2, <5>1 DEF PublishedLate
        <4>3. CASE Rejects(t)
          <5>1. task.act = "validate" /\ row # "published" /\ task'.by = "rejected" /\ task'.left = 0
            BY <1>1, <1>5, <2>1, <3>3, <4>3 DEF Rejects
          <5> QED BY <2>3, <3>1, <3>2, <5>1 DEF PublishedLate
        <4> QED BY <4>1, <4>2, <4>3
      <3>6. CompletedLate'
        <4>1. task'.act = task.act /\ task' # Closed("failed")
          BY <2>1, <2>3 DEF Closed
        <4>2. losses' >= losses
          BY <1>0, <1>1 DEF ReportTyped
        <4>3. task.act = "complete" =>
                /\ losses + task.left >= 3 /\ (Returns(t) \/ Fault(t))
          BY <1>5, <1>3, <2>1, <3>1 DEF CompletedLate, PublishedLate, ReportWaiting, Raises, Rejects
        <4>4. task.act = "complete" /\ task'.by # "done" =>
                /\ task'.by = "queue" => losses' + task'.left >= 3
                /\ task'.by = "failed" => losses' >= 3
                /\ task'.by \in {"queue", "failed"}
          BY <1>0, <1>1, <1>2, <1>5, <4>3 DEF ReportTyped
        <4> QED BY <1>0, <2>2, <2>3, <2>4, <3>1, <4>1, <4>2, <4>4 DEF CompletedLate, Excused,
          ReportTyped, ReportWaiting, Ending
      <3> QED BY <3>2, <3>5, <3>6 DEF Calm
    <2> QED BY <1>0, <2>5, <2>6 DEF ReportInv
  <1> QED BY <1>4, <1>5

-----------------------------------------------------------------------------
(* What the threads do on their own.                                          *)

(* An attempt before the end of a validation finds no published report.       *)
LEMMA Unpublished ==
    ASSUME ReportInv, NEW t \in Threads, timeouts = 0, thread[t].act # "none"
    PROVE  /\ task.by = t /\ task.act = thread[t].act
           /\ thread[t].act \notin Ending /\ thread[t].at # "over" => row # "published"
  <1>1. task.by = t /\ PublishedLate
    BY DEF ReportInv, Calm, Alone
  <1>2. task.act = thread[t].act /\ t \notin ReportWaiting
    BY <1>1, ReportPlaces DEF ReportInv, ReportTyped
  <1> QED BY <1>1, <1>2 DEF PublishedLate, Over, ReportWaiting

LEMMA SynthesisKeeps ==
    ASSUME ReportInv, NEW t \in Threads, Synthesize(t) \/ AddClaim(t)
    PROVE  ReportInv'
  <1>1. thread[t].act = "synthesize" /\ UNCHANGED <<row, completed, lastError>>
    BY DEF Synthesize, AddClaim, At, reportTables
  <1>2. ReportTyped
    BY DEF ReportInv
  <1>3. row \in {"none", "draft", "published"} /\ completed \in BOOLEAN
    BY <1>2 DEF ReportTyped
  <1>4. timeouts = 0 => task.act = "synthesize"
    BY <1>1, Unpublished
  <1>5. CASE Return(t)
    BY <1>1, <1>5, ReportEnds DEF Returns
  <1>6. ASSUME NEW p, NEW read, GoTo(t, p, read) PROVE ReportInv'
    BY <1>1, <1>3, <1>4, <1>6, ReportGoesOn
  <1> QED BY <1>5, <1>6 DEF Synthesize, AddClaim

LEMMA GenerationKeeps ==
    ASSUME ReportInv, NEW t \in Threads, Generate(t) \/ WriteReport(t) \/ InsertReport(t)
    PROVE  ReportInv'
  <1>1. thread[t].act = "generate" /\ thread[t].at # "over" /\ UNCHANGED <<completed, lastError>>
    BY DEF Generate, WriteReport, InsertReport, At, reportTables
  <1>2. row \in {"none", "draft", "published"} /\ completed \in BOOLEAN
    BY DEF ReportInv, ReportTyped
  <1>3. timeouts = 0 => task.act = "generate"
    BY <1>1, Unpublished
  <1>4. CASE Return(t) /\ UNCHANGED row
    BY <1>1, <1>4, ReportEnds DEF Returns
  <1>5. CASE Raise(t) /\ UNCHANGED row
    BY <1>1, <1>5, ReportEnds DEF Raises
  <1>6. ASSUME NEW p, NEW read, GoTo(t, p, read), row' = row \/ row' = "draft" PROVE ReportInv'
    BY <1>1, <1>2, <1>3, <1>6, ReportGoesOn
  <1> QED BY <1>4, <1>5, <1>6 DEF Generate, WriteReport, InsertReport, reportTables

LEMMA ValidationKeeps ==
    ASSUME ReportInv, NEW t \in Threads,
           Validate(t) \/ Judge(t) \/ Publish(t) \/ Refuse(t) \/ RaiseInvalid(t)
    PROVE  ReportInv'
  <1>1. thread[t].act = "validate" /\ thread[t].at # "over" /\ UNCHANGED <<completed, lastError>>
    BY DEF Validate, Judge, Publish, Refuse, RaiseInvalid, At, reportTables
  <1>2. row \in {"none", "draft", "published"} /\ completed \in BOOLEAN
    BY DEF ReportInv, ReportTyped
  <1>3. timeouts = 0 => task.act = "validate" /\ row # "published"
    BY <1>1, Unpublished DEF Ending
  <1>4. CASE Raise(t) /\ UNCHANGED row
    BY <1>1, <1>4, ReportEnds DEF Raises
  <1>5. CASE RaiseFinal(t) /\ UNCHANGED row
    BY <1>1, <1>5, ReportEnds DEF Rejects
  <1>6. ASSUME NEW p, NEW read, GoTo(t, p, read), p # "over",
               row' = row \/ row' \in {"none", "draft"}
        PROVE  ReportInv'
    BY <1>1, <1>2, <1>3, <1>6, ReportGoesOn
  <1>7. ASSUME GoTo(t, "over", {}), row' = "published" PROVE ReportInv'
    BY <1>1, <1>2, <1>3, <1>7, ReportGoesOn
  <1> QED BY <1>4, <1>5, <1>6, <1>7 DEF Validate, Judge, Publish, Refuse, RaiseInvalid, reportTables

LEMMA EndingKeeps ==
    ASSUME ReportInv, NEW t \in Threads,
           NotifyRefused(t) \/ Reset(t) \/ Complete(t) \/ CloseStep(t) \/ DeliveryRefused(t)
             \/ MarkFailed(t) \/ Conclude(t)
    PROVE  ReportInv'
  <1>1. thread[t].act # "none" /\ row \in {"none", "draft", "published"} /\ completed \in BOOLEAN
    BY DEF ReportInv, ReportTyped, NotifyRefused, Reset, Complete, CloseStep, DeliveryRefused,
           MarkFailed, Conclude, Closing, At, Idle
  <1>2. CASE NotifyRefused(t) \/ CloseStep(t) \/ MarkFailed(t) \/ Conclude(t)
    <2>1. Returns(t) /\ UNCHANGED <<row, completed, lastError>>
      BY <1>2 DEF NotifyRefused, CloseStep, MarkFailed, Conclude, Closing, At, Returns, reportTables
    <2> QED BY <1>1, <2>1, ReportEnds
  <1>5. CASE DeliveryRefused(t)
    <2>1. Raises(t) /\ UNCHANGED <<row, completed, lastError>>
      BY <1>5 DEF DeliveryRefused, At, Raises, reportTables
    <2> QED BY <1>1, <2>1, ReportEnds
  <1>3. CASE Reset(t)
    <2>1. thread[t].act = "reset" /\ row' = "none" /\ UNCHANGED <<completed, lastError>> /\ GoTo(t, "over", {})
      BY <1>3 DEF Reset, At
    <2>2. timeouts = 0 => task.act = "reset"
      BY <2>1, Unpublished
    <2> QED BY <1>1, <2>1, <2>2, ReportGoesOn
  <1>4. CASE Complete(t)
    <2>1. thread[t].act = "complete" /\ thread[t].at = "start" /\ UNCHANGED <<row, lastError>>
      BY <1>4 DEF Complete, At
    <2>2. timeouts = 0 => task.act = "complete"
      BY <2>1, Unpublished
    <2>3. CASE row = "published" /\ completed' = TRUE /\ GoTo(t, "over", {})
      BY <1>1, <2>1, <2>2, <2>3, ReportGoesOn
    <2>4. CASE row # "published" /\ UNCHANGED completed /\ Raise(t)
      <3>1. Raises(t)
        BY <2>1, <2>4 DEF Raises
      <3> QED BY <1>1, <2>1, <2>4, <3>1, ReportEnds
    <2> QED BY <1>4, <2>3, <2>4 DEF Complete
  <1> QED BY <1>2, <1>3, <1>4, <1>5

LEMMA BodyKeeps ==
    ASSUME ReportInv, NEW t \in Threads, Body(t)
    PROVE  ReportInv'
BY SynthesisKeeps, GenerationKeeps, ValidationKeeps, EndingKeeps DEF Body

-----------------------------------------------------------------------------
(* What the service and the worker do.                                        *)

LEMMA PickKeeps ==
    ASSUME ReportInv, NEW t \in Threads, Pick(t), UNCHANGED <<reportTables, round, lastError>>
    PROVE  ReportInv'
  <1>1. /\ ReportTyped /\ task.by = "queue" /\ thread[t].act = "none"
        /\ DOMAIN thread = Threads /\ task.left \in Nat
        /\ task = [act |-> task.act, left |-> task.left, by |-> task.by]
    BY DEF ReportInv, ReportTyped, Pick, Idle
  <1>2. /\ OthersStay(t) /\ thread'[t] = [act |-> task.act, at |-> "start", read |-> {}]
        /\ task' = [act |-> task.act, left |-> task.left, by |-> t]
        /\ UNCHANGED <<timeouts, losses, row, completed, lastError>>
    BY <1>1 DEF Pick, OthersStay, Idle, reportTables
  <1>3. t \notin ReportWaiting /\ task.act \in ReportActivities
    BY <1>1, ReportPlaces DEF ReportTyped
  <1>4. /\ task'.act = task.act /\ task'.left = task.left /\ task'.by = t
        /\ thread'[t].act = task.act /\ thread'[t].at = "start"
    BY <1>2
  <1>5. ReportTyped'
    <2>1. \A u \in Threads :
            /\ thread'[u] = [act |-> thread'[u].act, at |-> thread'[u].at, read |-> thread'[u].read]
            /\ thread'[u].act = "none" => thread'[u] = Idle
            /\ task'.by = u => thread'[u].act = task'.act
      <3>1. TAKE u \in Threads
      <3>2. CASE u = t
        BY <1>2, <1>3, <1>4, <3>2 DEF ReportActivities
      <3>3. CASE u # t
        BY <1>1, <1>2, <1>4, <3>3 DEF OthersStay, ReportTyped
      <3> QED BY <3>2, <3>3
    <2> QED BY <1>1, <1>2, <1>3, <1>4, <2>1 DEF ReportTyped, ReportActivities, ReportWaiting, OthersStay
  <1>6. ASSUME timeouts = 0 PROVE Calm'
    <2>1. Alone /\ PublishedLate /\ CompletedLate
      BY <1>6 DEF ReportInv, Calm
    <2>2. Alone'
      BY <1>1, <1>2, <1>4, <2>1, ReportPlaces DEF Alone, OthersStay, ReportWaiting
    <2>3. (\A u \in Threads : ~Over(u)') /\ \A u \in Threads : ~Over(u)
      BY <1>1, <1>4, ReportPlaces DEF Over, ReportWaiting
    <2>4. PublishedLate'
      BY <1>1, <1>2, <1>3, <1>4, <2>1, <2>3 DEF PublishedLate, ReportWaiting
    <2>5. CompletedLate'
      BY <1>1, <1>2, <1>3, <1>4, <2>1 DEF CompletedLate, Excused, ReportWaiting, Closed, Ending, ReportActivities
    <2> QED BY <2>2, <2>4, <2>5 DEF Calm
  <1> QED BY <1>2, <1>5, <1>6 DEF ReportInv

(* An attempt the service gives up.  After the loss of a worker no thread has *)
(* it any more; after a timeout one may.                                      *)
LEMMA GivenUpKeeps ==
    ASSUME ReportInv, TimeOut \/ LossNoticed, UNCHANGED <<reportTables, round, lastError>>
    PROVE  ReportInv'
  <1>1. /\ ReportTyped /\ task' = GivenUp /\ thread' = thread
        /\ UNCHANGED <<losses, row, completed, lastError>>
        /\ timeouts' \in Nat /\ task.by \in Threads \union {"lost"}
    BY DEF ReportInv, ReportTyped, TimeOut, LossNoticed, reportTables
  <1>2. /\ GivenUp = [act |-> task.act, left |-> GivenUp.left, by |-> GivenUp.by] /\ GivenUp.left \in Nat
        /\ \/ task.left > 1 /\ GivenUp.left = task.left - 1 /\ GivenUp.by = "queue"
           \/ task.left <= 1 /\ GivenUp.left = 0 /\ GivenUp.by = "failed"
    BY <1>1, GivenUpFields
  <1>3. task.act # "closed" /\ task'.act = task.act /\ task'.by \in {"queue", "failed"} /\ task'.left \in Nat
    BY <1>1, <1>2, ReportPlaces DEF ReportTyped, ReportWaiting
  <1>4. \A t \in Threads : task'.by # t
    BY <1>3, ReportPlaces DEF ReportWaiting
  <1>5. ReportTyped'
    BY <1>1, <1>2, <1>3, <1>4 DEF ReportTyped, ReportWaiting
  <1>6. CASE TimeOut
    BY <1>1, <1>5, <1>6 DEF ReportInv, TimeOut, ReportTyped
  <1>7. CASE LossNoticed
    <2>1. task.by = "lost" /\ UNCHANGED timeouts
      BY <1>7 DEF LossNoticed
    <2>2. ASSUME timeouts = 0 PROVE Calm'
      <3>1. Alone /\ PublishedLate /\ CompletedLate
        BY <2>2 DEF ReportInv, Calm
      <3>2. (\A u \in Threads : ~Over(u)') /\ \A u \in Threads : ~Over(u)
        BY <1>4, <2>1, ReportPlaces DEF Over, ReportWaiting
      <3>3. Alone'
        BY <1>1, <2>1, <3>1, ReportPlaces DEF Alone, ReportWaiting
      <3>4. PublishedLate'
        BY <1>1, <1>2, <1>3, <3>1, <3>2 DEF PublishedLate, ReportTyped
      <3>5. CompletedLate'
        BY <1>1, <1>2, <1>3, <1>4, <2>1, <3>1 DEF CompletedLate, Excused, ReportTyped, Closed
      <3> QED BY <3>3, <3>4, <3>5 DEF Calm
    <2> QED BY <1>5, <2>1, <2>2 DEF ReportInv
  <1> QED BY <1>6, <1>7

LEMMA WorkerCrashKeeps ==
    ASSUME ReportInv, WorkerCrash, UNCHANGED <<reportTables, round, lastError>>
    PROVE  ReportInv'
  <1>1. /\ ReportTyped /\ thread' = [t \in Threads |-> Idle] /\ losses' = losses + 1 /\ losses \in Nat
        /\ UNCHANGED <<timeouts, row, completed, lastError>>
        /\ task = [act |-> task.act, left |-> task.left, by |-> task.by]
    BY DEF ReportInv, ReportTyped, WorkerCrash, reportTables
  <1>2. /\ task'.act = task.act /\ task'.left = task.left
        /\ task' = [act |-> task.act, left |-> task.left, by |-> task'.by]
        /\ \/ task.by \in Threads /\ task'.by = "lost"
           \/ task.by \notin Threads /\ task' = task
    <2>1. CASE task.by \in Threads
      <3>1. task' = [act |-> task.act, left |-> task.left, by |-> "lost"]
        BY <1>1, <2>1 DEF WorkerCrash
      <3> QED BY <2>1, <3>1
    <2>2. CASE task.by \notin Threads
      BY <1>1, <2>2 DEF WorkerCrash
    <2> QED BY <2>1, <2>2
  <1>3. task'.by \in ReportWaiting /\ \A u \in Threads : task'.by # u
    BY <1>1, <1>2, ReportPlaces DEF ReportTyped, ReportWaiting
  <1>4. /\ task'.act = "closed" => task'.by \in {"done", "failed"}
        /\ task'.by = "rejected" => task'.act = "validate"
    BY <1>1, <1>2, ReportPlaces DEF ReportTyped, ReportWaiting
  <1>5. DOMAIN thread' = Threads /\ \A u \in Threads : thread'[u] = Idle /\ thread'[u].act = "none"
    BY <1>1 DEF Idle
  <1>6. ReportTyped'
    BY <1>1, <1>2, <1>3, <1>4, <1>5 DEF ReportTyped, Idle
  <1>7. ASSUME timeouts = 0 PROVE Calm'
    <2>1. PublishedLate /\ CompletedLate
      BY <1>7 DEF ReportInv, Calm
    <2>2. Alone' /\ \A u \in Threads : ~Over(u)'
      BY <1>3, <1>5 DEF Alone, Over
    <2>3. task.by \in Threads \/ \A u \in Threads : ~Over(u)
      BY DEF Over
    <2>4. PublishedLate'
      BY <1>1, <1>2, <1>3, <2>1, <2>2, <2>3 DEF PublishedLate
    <2>5. CompletedLate'
      <3>1. task' = Closed("failed") => task = Closed("failed")
        BY <1>2 DEF Closed
      <3>2. task.left \in Nat
        BY <1>1 DEF ReportTyped
      <3>3. CASE task.by \in Threads /\ task'.by = "lost"
        BY <1>1, <1>2, <1>3, <2>1, <3>1, <3>2, <3>3, ReportPlaces DEF CompletedLate, Excused, ReportWaiting
      <3>4. CASE task' = task
        BY <1>1, <1>3, <2>1, <3>1, <3>2, <3>4 DEF CompletedLate, Excused
      <3> QED BY <1>2, <3>3, <3>4
    <2> QED BY <2>2, <2>4, <2>5 DEF Calm
  <1> QED BY <1>1, <1>6, <1>7 DEF ReportInv

LEMMA FaultKeeps ==
    ASSUME ReportInv, NEW t \in Threads, Fault(t), UNCHANGED <<reportTables, round, lastError>>
    PROVE  ReportInv'
  <1>1. thread[t].act # "none"
    BY DEF ReportInv, ReportTyped, Fault
  <1> QED BY <1>1, ReportEnds DEF reportTables

-----------------------------------------------------------------------------
(* What the workflow does.                                                    *)

(* The next activity, awaited once the last one is over. *)
LEMMA AwaitKeeps ==
    ASSUME ReportInv, NEW a \in ReportActivities, Await(a), task.by \in {"done", "failed", "rejected"},
           UNCHANGED <<thread, timeouts, losses, reportTables>>,
           timeouts = 0 /\ Calm =>
             /\ a \notin Ending => row # "published" /\ ~completed
             /\ a = "complete" => row = "published"
             /\ a = "fail" /\ completed => Excused'
    PROVE  ReportInv'
  <1>1. /\ ReportTyped /\ UNCHANGED <<row, completed>>
        /\ \A t \in Threads : task.by # t
    BY ReportPlaces DEF ReportInv, reportTables, ReportWaiting
  <1>2. task' = [act |-> a, left |-> AttemptsOf(a), by |-> "queue"] /\ AttemptsOf(a) \in Nat
    BY Attempts DEF Await, Queued
  <1>3. task'.act = a /\ task'.left = AttemptsOf(a) /\ task'.by = "queue"
    BY <1>2
  <1>4. \A t \in Threads : task'.by # t
    BY <1>3, ReportPlaces DEF ReportWaiting
  <1>5. ReportTyped'
    BY <1>1, <1>2, <1>3, <1>4 DEF ReportTyped, ReportWaiting, ReportActivities
  <1>6. ASSUME timeouts = 0 PROVE Calm'
    <2>1. Alone /\ PublishedLate /\ CompletedLate
      BY <1>6 DEF ReportInv, Calm
    <2>2. Alone' /\ \A u \in Threads : ~Over(u)'
      BY <1>1, <1>4, <2>1 DEF Alone, Over
    <2>3. PublishedLate'
      BY <1>1, <1>3, <1>6, <2>1, <2>2, Attempts DEF PublishedLate, Ending, Calm, ReportActivities
    <2>4. CompletedLate'
      <3>1. task' # Closed("failed") /\ a # "closed"
        BY <1>3 DEF Closed, ReportActivities
      <3> QED BY <1>1, <1>3, <1>6, <2>1, <3>1, Attempts DEF CompletedLate, Ending, Calm, ReportActivities,
                                                            ReportTyped
    <2> QED BY <2>2, <2>3, <2>4 DEF Calm
  <1> QED BY <1>5, <1>6 DEF ReportInv

(* The end of the workflow. *)
LEMMA ClosedKeeps ==
    ASSUME ReportInv, NEW result \in {"done", "failed"}, task' = Closed(result),
           task.by \in {"done", "failed"}, task.act \in {"finish", "fail"},
           task.act = "finish" => result = "done",
           UNCHANGED <<thread, timeouts, losses, reportTables, lastError>>
    PROVE  ReportInv'
  <1>1. /\ ReportTyped /\ UNCHANGED <<row, completed>>
        /\ \A t \in Threads : task.by # t
    BY ReportPlaces DEF ReportInv, reportTables, ReportWaiting
  <1>2. task' = [act |-> "closed", left |-> 0, by |-> result]
        /\ task'.act = "closed" /\ task'.left = 0 /\ task'.by = result
    BY DEF Closed
  <1>3. \A t \in Threads : task'.by # t
    BY <1>2, ReportPlaces DEF ReportWaiting
  <1>4. ReportTyped'
    BY <1>1, <1>2, <1>3 DEF ReportTyped, ReportWaiting
  <1>5. ASSUME timeouts = 0 PROVE Calm'
    <2>1. Alone /\ PublishedLate /\ CompletedLate
      BY <1>5 DEF ReportInv, Calm
    <2>2. Alone'
      BY <1>1, <2>1 DEF Alone
    <2>3. PublishedLate'
      BY <1>2, <1>3 DEF PublishedLate, Ending, Over
    <2>4. CompletedLate'
      <3>1. task' = Closed("failed") => result = "failed"
        BY <1>2 DEF Closed
      <3> QED BY <1>1, <1>2, <2>1, <3>1 DEF CompletedLate, Excused, Ending
    <2> QED BY <2>2, <2>3, <2>4 DEF Calm
  <1> QED BY <1>4, <1>5 DEF ReportInv

(* A report is reset or generated anew only while none is published, and the  *)
(* calls that close the workflow follow complete_job.                         *)
LEMMA ProceedKeeps ==
    ASSUME ReportInv, Proceed
    PROVE  ReportInv'
  <1>1. /\ ReportTyped /\ task.by = "done" /\ task.act \in ReportActivities
        /\ UNCHANGED <<thread, timeouts, losses, reportTables, lastError>>
    BY DEF ReportInv, ReportTyped, Proceed
  <1>2. \A t \in Threads : ~Over(t)
    BY <1>1, ReportPlaces DEF Over, ReportWaiting
  <1>3. CASE task.act \in {"finish", "fail"}
    <2>1. \E result \in {"done", "failed"} :
            /\ task' = Closed(result)
            /\ task.act = "finish" => result = "done"
      BY <1>1, <1>3 DEF Proceed
    <2> QED BY <1>1, <1>3, <2>1, ClosedKeeps
  <1>4. CASE task.act \notin {"finish", "fail"}
    <2>1. Await(Successor(task.act))
      BY <1>1, <1>4 DEF Proceed
    <2>2. PICK a \in ReportActivities :
            /\ Await(a)
            /\ a = "complete" <=> task.act = "validate"
            /\ a \in Ending \ {"fail"} <=> task.act \in {"validate"} \union (Ending \ {"finish", "fail", "closed"})
            /\ a = "fail" => task.act = "notify"
      <3>1. /\ Successor("synthesize") = "generate" /\ Successor("generate") = "validate"
            /\ Successor("validate") = "complete" /\ Successor("reset") = "synthesize"
            /\ Successor("notify") \in {"reset", "fail"} /\ Successor("complete") = "register"
            /\ Successor("register") = "announce" /\ Successor("announce") = "deliver"
            /\ Successor("deliver") = "finish"
        BY DEF Successor
      <3> QED BY <1>1, <1>4, <2>1, <3>1 DEF ReportActivities, Ending
    <2>3. Calm => /\ a \notin Ending => row # "published" /\ ~completed
                  /\ a = "complete" => row = "published"
                  /\ a = "fail" => ~completed
      BY <1>1, <1>2, <1>4, <2>2 DEF Calm, PublishedLate, CompletedLate, Ending, ReportActivities
    <2> QED BY <1>1, <2>2, <2>3, AwaitKeeps
  <1> QED BY <1>3, <1>4

LEMMA FailureKeeps ==
    ASSUME ReportInv, ValidationFailed \/ ActivityFailed
    PROVE  ReportInv'
  <1>1. ReportTyped /\ UNCHANGED <<thread, timeouts, losses, reportTables>>
    BY DEF ReportInv, ValidationFailed, ActivityFailed
  <1>2. task.by \in {"failed", "rejected"} => \A t \in Threads : ~Over(t)
    BY ReportPlaces DEF Over, ReportWaiting
  <1>3. CASE ValidationFailed
    <2>1. task.by = "rejected" /\ task.act = "validate" /\ Await("notify")
      BY <1>1, <1>3 DEF ValidationFailed, ReportTyped
    <2>2. Calm => row # "published" /\ ~completed
      BY <1>2, <2>1 DEF Calm, PublishedLate, CompletedLate, Ending
    <2> QED BY <1>1, <2>1, <2>2, AwaitKeeps DEF ReportActivities
  <1>4. CASE ActivityFailed /\ task.act = "fail"
    <2>1. task' = Closed("failed") /\ task.by = "failed" /\ UNCHANGED lastError
      BY <1>4 DEF ActivityFailed
    <2> QED BY <1>1, <1>4, <2>1, ClosedKeeps
  <1>5. CASE ActivityFailed /\ task.act # "fail"
    <2>1. Await("fail") /\ task.by = "failed" /\ task.act # "closed" /\ lastError' = task.act
      BY <1>5 DEF ActivityFailed
    <2>2. Calm /\ completed => Excused'
      BY <1>1, <1>5, <2>1 DEF Calm, CompletedLate, Ending, ReportTyped, Excused, Closing
    <2>3. "fail" \in ReportActivities /\ "fail" \in Ending
      BY DEF ReportActivities, Ending
    <2> QED BY <1>1, <2>1, <2>2, <2>3, AwaitKeeps
  <1> QED BY <1>3, <1>4, <1>5

-----------------------------------------------------------------------------
LEMMA ReportInitHolds == ReportInit => ReportInv
  <1> SUFFICES ASSUME ReportInit PROVE ReportInv
    OBVIOUS
  <1>1. task = [act |-> "synthesize", left |-> AttemptsOf("synthesize"), by |-> "queue"]
    BY DEF ReportInit, Queued
  <1>2. task.act = "synthesize" /\ task.left \in Nat /\ task.by = "queue"
    BY <1>1, Attempts DEF ReportActivities
  <1>3. \A t \in Threads : thread[t] = Idle /\ thread[t].act = "none" /\ task.by # t
    BY <1>2, ReportPlaces DEF ReportInit, Idle, ReportWaiting
  <1>4. ReportTyped
    BY <1>1, <1>2, <1>3 DEF ReportInit, ReportTyped, ReportActivities, ReportWaiting, Idle
  <1>5. Calm
    BY <1>2, <1>3 DEF ReportInit, Calm, Alone, PublishedLate, CompletedLate, Over
  <1> QED BY <1>4, <1>5 DEF ReportInv

LEMMA ReportNextKeeps == ReportInv /\ [ReportNext]_reportVars => ReportInv'
  <1> SUFFICES ASSUME ReportInv, [ReportNext]_reportVars PROVE ReportInv'
    OBVIOUS
  <1>1. CASE Workflow
    BY <1>1, ProceedKeeps, FailureKeeps DEF Workflow
  <1>2. CASE ReportDispatch
    BY <1>2, GivenUpKeeps, PickKeeps DEF ReportDispatch
  <1>3. CASE ReportService
    BY <1>3, GivenUpKeeps, WorkerCrashKeeps, FaultKeeps DEF ReportService
  <1>4. CASE \E t \in Threads : Body(t)
    BY <1>4, BodyKeeps
  <1>5. CASE UNCHANGED reportVars
    BY <1>5 DEF reportVars, taskVars, ReportInv, ReportTyped, Calm, Alone, PublishedLate, CompletedLate,
                Excused, Over
  <1> QED BY <1>1, <1>2, <1>3, <1>4, <1>5 DEF ReportNext

LEMMA ReportInductive == ReportSpec => []ReportInv
  <1>1. ReportInit => ReportInv
    BY ReportInitHolds
  <1>2. ReportInv /\ [ReportNext]_reportVars => ReportInv'
    BY ReportNextKeeps
  <1> QED BY <1>1, <1>2, PTL DEF ReportSpec

(* While no attempt runs on after its timeout, a workflow that fails and      *)
(* leaves a completed job behind (mark_job_failed keeps it) failed in one of  *)
(* the calls after complete_job, or lost three attempts of complete_job after *)
(* their commit: no error of the making of the report ends so.                *)
THEOREM OutcomesHold == ReportSpec => []OutcomesAgree
  <1>1. ReportInv => OutcomesAgree
    BY DEF ReportInv, Calm, CompletedLate, Excused, OutcomesAgree, ReportTyped
  <1> QED BY <1>1, ReportInductive, PTL

(* A version publish_report_version has published is neither withdrawn by     *)
(* mark_report_validation_failed nor deleted by clear_claims_and_reports,     *)
(* however many attempts fail or are lost, as long as none runs on after its  *)
(* timeout.                                                                   *)
THEOREM PublishedVersionStays == ReportSpec => PublishedStays
  <1>1. ReportInv /\ [ReportNext]_reportVars =>
          [row = "published" /\ timeouts = 0 => row' = "published"]_reportVars
    <2> SUFFICES ASSUME ReportInv, [ReportNext]_reportVars, row = "published", timeouts = 0
                 PROVE  row' = "published"
      OBVIOUS
    <2>1. CASE Workflow \/ ReportDispatch \/ ReportService \/ UNCHANGED reportVars
      BY <2>1 DEF Workflow, Proceed, ValidationFailed, ActivityFailed, ReportDispatch, ReportService,
                  reportVars, reportTables
    <2>2. ASSUME NEW t \in Threads, Body(t) PROVE row' = "published"
      <3>1. ~Refuse(t) /\ ~Reset(t)
        BY Unpublished DEF Refuse, Reset, At, Ending
      <3> QED BY <2>2, <3>1 DEF Body, Synthesize, AddClaim, Generate, WriteReport, InsertReport,
                Validate, Judge, Publish, RaiseInvalid, NotifyRefused, Complete, CloseStep, DeliveryRefused,
                MarkFailed, Conclude, reportTables
    <2> QED BY <2>1, <2>2 DEF ReportNext
  <1> QED BY <1>1, ReportInductive, PTL DEF ReportSpec, PublishedStays
=============================================================================
