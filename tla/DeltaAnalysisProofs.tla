------------------------ MODULE DeltaAnalysisProofs ------------------------
(***************************************************************************)
(* What a monitoring cycle finds out, for any sources, values, report,      *)
(* limits, threads and cycles.                                              *)
(***************************************************************************)
EXTENDS DeltaAnalysis, Integers, FiniteSetTheorems, WellFoundedInduction, TLAPS

-----------------------------------------------------------------------------
(* Detector, analyzer and decider. *)

(* An event is as detect_evidence made it of its first piece of evidence. *)
Detected(ev, ee) ==
    LET c == Candidate(ee, ev.first) IN ev.type = c.type /\ ev.conf = c.conf

(* An event that does not count as conflicting disputes nobody's last word.  *)
LEMMA NoConflictUndisputed ==
    ASSUME NEW ee, NEW i, Candidate(ee, i).conf # "conflicting"
    PROVE  Undisputed(ee, i)
<1>1. Contradicted(ee, i) = {}
  BY DEF Candidate
<1>2. SUFFICES ASSUME NEW j \in Earlier(ee, i),
                      ~\E k \in Earlier(ee, i) : k > j,
                      ee[j].value # ee[i].value
               PROVE  ee[j].at # 0 /\ ee[j].at < ee[i].at
  BY DEF Undisputed
<1>3. \A k \in Earlier(ee, i) : k <= j
  <2>1. Earlier(ee, i) \subseteq Int
    BY DEF Earlier
  <2> QED BY <1>2, <2>1
<1>4. j \in Differing(ee, i)
  BY <1>2, <1>3 DEF Differing
<1>5. Newer(ee[i], ee[j])
  BY <1>1, <1>4 DEF Contradicted
<1> QED BY <1>5 DEF Newer

(* The analyzer makes an impact of every claim an event touches ...          *)
LEMMA TouchedHasImpact ==
    ASSUME NEW es, NEW cs, NEW ee, NEW ev \in es,
           NEW c \in Touched(ev, cs, ee)
    PROVE  Impact(ev, c, c.type) \in Analyze(es, cs, ee)
BY DEF Analyze

(* ... and of every event at least one, with the confidence of the event.    *)
LEMMA EventHasImpact ==
    ASSUME NEW es, NEW cs, NEW ee, NEW ev \in es
    PROVE  \E x \in Analyze(es, cs, ee) : x.conf = ev.conf
<1> DEFINE touched == Touched(ev, cs, ee)
<1>1. \A c, section : Impact(ev, c, section).conf = ev.conf
  BY DEF Impact
<1>2. CASE touched = {}
  <2>1. Impact(ev, NoClaim, FallbackSection(ev)) \in Analyze(es, cs, ee)
    BY <1>2 DEF Analyze
  <2> QED BY <1>1, <2>1
<1>3. CASE touched # {}
  <2>1. \A c \in touched : Impact(ev, c, c.type) \in Analyze(es, cs, ee)
    BY TouchedHasImpact
  <2> QED BY <1>1, <1>3, <2>1
<1> QED BY <1>2, <1>3

(* The decider updates the report alone in mode "safe" only, and only if no  *)
(* impact is doubtful.                                                       *)
LEMMA AutoPatchDoubtsNothing ==
    ASSUME NEW mode, NEW es, NEW impacts, NEW maxSections,
           Decide(mode, es, impacts, maxSections) = "auto_patch"
    PROVE  mode = "safe" /\ \A x \in impacts : ~Doubtful(x)
<1>1. es # {} /\ mode \notin {"observe"} /\ mode \in {"observe", "safe"}
  BY DEF Decide
<1>2. \A x \in impacts : ~Doubtful(x)
  BY <1>1 DEF Decide
<1> QED BY <1>1, <1>2

(* Detector, analyzer and decider together (change_detector.py,              *)
(* impact_analyzer.py, update_decider.py): an update without asking is made  *)
(* on changes only that dispute no last observation, are not uncertain and   *)
(* overturn no claim at the core of the report.                              *)
THEOREM AutoPatchIsHarmless ==
    ASSUME NEW mode, NEW es, NEW cs, NEW ee, NEW maxSections,
           \A ev \in es : Detected(ev, ee),
           Decide(mode, es, Analyze(es, cs, ee), maxSections) = "auto_patch"
    PROVE  MayUpdateAlone(mode, es, cs, ee)
<1>1. mode = "safe" /\ \A x \in Analyze(es, cs, ee) : ~Doubtful(x)
  BY AutoPatchDoubtsNothing
<1>2. ASSUME NEW ev \in es PROVE Harmless(ev, cs, ee)
  <2>1. ev.conf \notin {"conflicting", "low"}
    <3>1. PICK x \in Analyze(es, cs, ee) : x.conf = ev.conf
      BY EventHasImpact
    <3>2. ~Doubtful(x)
      BY <1>1
    <3> QED BY <3>1, <3>2 DEF Doubtful
  <2>2. Undisputed(ee, ev.first)
    BY <2>1, NoConflictUndisputed DEF Detected
  <2>3. ASSUME NEW c \in Touched(ev, cs, ee), c.type \in CoreClaims,
               ev.type \in ContradictTypes \union SupersedeTypes
        PROVE  FALSE
    <3>1. ImpactType(ev) \in {"contradicts", "supersedes"}
      BY <2>1, <2>3 DEF ImpactType, ContradictTypes, SupersedeTypes, SupportTypes
    <3>2. RequiresReview(ev, c)
      BY <2>3, <3>1 DEF RequiresReview, Overturns
    <3>3. Impact(ev, c, c.type).review = RequiresReview(ev, c)
      BY DEF Impact
    <3>4. ~Doubtful(Impact(ev, c, c.type))
      BY <1>1, TouchedHasImpact
    <3> QED BY <3>2, <3>3, <3>4 DEF Doubtful
  <2> QED BY <2>1, <2>2, <2>3 DEF Harmless
<1> QED BY <1>1, <1>2 DEF MayUpdateAlone

(* What was detected of a piece of evidence stays so when more is stored     *)
(* behind it: add_evidence only appends, so an event detected in one cycle   *)
(* still is as detected when a later cycle decides.                          *)
THEOREM DetectionIsStable ==
    ASSUME NEW S, NEW ee \in Seq(S), NEW x \in S, NEW i \in DOMAIN ee
    PROVE  Candidate(Append(ee, x), i) = Candidate(ee, i)
<1> DEFINE more == Append(ee, x)
<1>1. i \in 1..Len(ee) /\ \A j \in 1..Len(ee) : more[j] = ee[j]
  OBVIOUS
<1>2. \A j \in 1..i : more[j] = ee[j]
  BY <1>1
<1>3. more[i] = ee[i]
  BY <1>1
<1> HIDE DEF more
<1>4. Earlier(more, i) = Earlier(ee, i) /\ Earlier(ee, i) \subseteq 1..i
  BY <1>1, <1>2, <1>3 DEF Earlier
<1>5. Differing(more, i) = Differing(ee, i) /\ Differing(ee, i) \subseteq 1..i
  BY <1>2, <1>3, <1>4 DEF Differing
<1>6. Contradicted(more, i) = Contradicted(ee, i)
  BY <1>2, <1>3, <1>5 DEF Contradicted
<1>7. Candidate(more, i) = Candidate(ee, i)
  BY <1>3, <1>6 DEF Candidate
<1> QED BY <1>7 DEF more

-----------------------------------------------------------------------------
(* The inductive invariant. *)

(* A sequence of whatever it holds. *)
IsSeq(s) == s \in Seq({s[i] : i \in DOMAIN s})

IsEvent(x) ==
    x = [run |-> x.run, print |-> x.print, source |-> x.source, type |-> x.type, level |-> x.level,
         conf |-> x.conf, first |-> x.first, links |-> x.links, against |-> x.against, status |-> x.status]

Stages == {"none", "started", "delta_plan_created", "recheck_sources", "search_sources",
           "extract_evidence", "detect_changes", "claims_synthesized", "decision"}

TablesTyped ==
    /\ run \in 0..MaxCycles
    /\ rows \in [Cycles -> [status : {"none", "running", "completed", "failed"}, stage : Stages, llm : Nat]]
    /\ DOMAIN source = Sources /\ targets \subseteq Sources
    /\ IsSeq(snaps) /\ IsSeq(evidence) /\ IsSeq(events)
    /\ \A e \in DOMAIN events : IsEvent(events[e])
    /\ calls \in [Cycles -> Nat]

AttemptsTyped ==
    /\ timeouts \in Nat /\ beat.index \in Nat
    /\ beat = [phase |-> beat.phase, index |-> beat.index]
    /\ task = [act |-> task.act, left |-> task.left, by |-> task.by]
    /\ task.by \in Threads \union {"queue", "done", "failed"}
    /\ DOMAIN thread = Threads /\ DOMAIN work = Threads
    /\ \A t \in Threads :
         /\ thread[t] = [act |-> thread[t].act, at |-> thread[t].at, read |-> thread[t].read]
         /\ work[t] = [run |-> work[t].run, todo |-> work[t].todo, val |-> work[t].val,
                       src |-> work[t].src, llm |-> work[t].llm, from |-> work[t].from]
         /\ work[t].llm \in Nat /\ \A x \in work[t].todo : x.index \in Nat

Typed == TablesTyped /\ AttemptsTyped

(* While an activity is awaited, its cycle runs. *)
Awaited ==
    \/ task.by \in Threads \union {"queue"}
    \/ task.by = "done" /\ task.act \in DOMAIN Follows

InCycle ==
    /\ Awaited => task.act # "none" /\ run > 0 /\ rows[run].status = "running"
    /\ \A t \in Threads : task.by = t => thread[t].act = task.act
    /\ task.act # "none" <=> run > 0
    /\ \A t \in Threads : thread[t].act # "none" => run > 0

FetchPlaces == {"item", "page", "row", "file", "parsed"}

On(t, a, places) == task.by = t /\ thread[t].act = a /\ thread[t].at \in places

-----------------------------------------------------------------------------
(* Whatever is given up and goes on. *)

(* A fetched source has a text, and so has the page an attempt has read. *)
TextsThere ==
    /\ \A s \in Sources : source[s].status = "fetched" => source[s].value \in Values
    /\ \A t \in Threads : thread[t].at \in {"page", "file", "parsed", "row"} => work[t].val \in Values

(* An attempt that is busy with an item has one. *)
AtItem ==
    \A t \in Threads :
      thread[t].at \in {"page", "row", "file", "parsed", "ask", "store", "insert", "linked"} =>
        work[t].todo # {}

(* Snapshots are of sources. *)
SnapshotsOfSources ==
    /\ \A n \in DOMAIN snaps : snaps[n].source \in Sources
    /\ \A t \in Threads :
         /\ thread[t].act \in {"recheck", "extract"} /\ thread[t].at \in FetchPlaces =>
              \A x \in work[t].todo : x.at \in Sources
         /\ thread[t].act = "search" /\ thread[t].at = "found" => work[t].src \in Sources
         /\ thread[t].act = "context" /\ thread[t].at = "choose" => thread[t].read \subseteq Sources

(* Evidence comes from snapshots the model was asked about. *)
Examined == examined \union {0} \union {n \in DOMAIN snaps : snaps[n].run = 0}
EvidenceExamined == \A i \in DOMAIN evidence : evidence[i].snap \in Examined

(* Events are what detection makes of the evidence there is. *)
EventsDetected ==
    /\ \A e \in DOMAIN events :
         events[e].first \in DOMAIN evidence /\ Detected(events[e], evidence)
    /\ \A t \in Threads : (thread[t].act = "detect" /\ thread[t].at \in {"item", "insert", "linked"}) =>
         \A x \in work[t].todo : x.at \in DOMAIN evidence

(* Where no attempt outlives its activity, the awaited one decides on events  *)
(* nobody changes under it.                                                   *)
Reading == {"synthesize", "synthesized", "analyze"}
InStep ==
    ~Overlap =>
      /\ task.act \notin {"none", "context"} =>
           \A t \in Threads : thread[t].act \in {"none", task.act}
      /\ \A t \in Threads : On(t, "update", Reading) => thread[t].read = Backed(OpenEvents)

-----------------------------------------------------------------------------
(* While no attempt was given up: one thread at a time. *)

Alone == \A t \in Threads : thread[t].act # "none" => task.by = t

OwnRun == \A t \in Threads : task.by = t /\ thread[t].at # "start" => work[t].run = run

Done == task.by = "done"
StageOf ==
    run > 0 =>
      LET stage == rows[run].stage IN
      /\ task.act = "context" => stage = IF Done THEN "delta_plan_created" ELSE "started"
      /\ task.act = "recheck" => stage = IF Done THEN "recheck_sources" ELSE "delta_plan_created"
      /\ task.act = "search" => stage = IF Done THEN "search_sources" ELSE "recheck_sources"
      /\ task.act = "extract" => stage = IF Done THEN "extract_evidence" ELSE "search_sources"
      /\ task.act = "detect" => stage = IF Done THEN "detect_changes" ELSE "extract_evidence"
      /\ task.act = "update" => stage \in {"detect_changes", "claims_synthesized", "decision"}
      /\ task.act \in DOMAIN Follows \union {"update"}

(* Rechecking. *)
Snapped(s, v) == \E n \in SnapsOf(run) : snaps[n].source = s /\ snaps[n].text = v
Kept(s) == source[s].value # before[s].value => Snapped(s, source[s].value)

Watching ==
    /\ \A s \in targets : source[s].status = "fetched"
    /\ task.act = "context" =>
         /\ source = before
         /\ \A t \in Threads : On(t, "context", {"choose"}) =>
              thread[t].read \subseteq {s \in Sources : source[s].status = "fetched"}
    /\ task.act \in {"context", "recheck", "search"} => \A s \in targets : Kept(s)

RecheckingOn(t) ==
    /\ \A x \in work[t].todo : x.at \in targets /\ x.base = source[x.at].value
    /\ \A x, y \in work[t].todo : x.at = y.at => x = y
    /\ thread[t].at = "row" /\ work[t].val # Item(t).base => Snapped(Source(t), work[t].val)
    /\ thread[t].at = "parsed" => Snapped(Source(t), work[t].val)

Rechecking == \A t \in Threads : On(t, "recheck", FetchPlaces) => RecheckingOn(t)

(* Extracting. *)
PlaceOf(n) == Place(snaps[n].source, {snaps[k].source : k \in LastOf(run)})

FetchingOn(t) ==
    /\ \A x \in work[t].todo : x.at \in Sources \ targets
    /\ beat.phase = "evidence" => work[t].todo = {}
    /\ work[t].from.phase = "evidence" => beat = work[t].from

ExaminingOn(t) ==
    /\ \A x \in work[t].todo : x.at \in LastOf(run) /\ x.index = PlaceOf(x.at)
    /\ \A x, y \in work[t].todo : x.at = y.at => x = y
    /\ \A n \in LastOf(run) : n \in examined \/ \E x \in work[t].todo : x.at = n

Extracting ==
    /\ task.act = "extract" /\ beat.phase = "evidence" =>
         \A n \in LastOf(run) : PlaceOf(n) <= beat.index => n \in examined
    /\ \A t \in Threads : On(t, "extract", FetchPlaces) => FetchingOn(t)
    /\ \A t \in Threads : On(t, "extract", {"candidate", "ask", "store"}) => ExaminingOn(t)
    /\ Passed({"extract_evidence"}) /\ rows[run].llm < MaxLlm => LastOf(run) \subseteq examined

(* Detecting. *)
Linked(i) == \E e \in DOMAIN events : i \in events[e].links

DetectingOn(t) ==
    /\ \A x \in work[t].todo : x.at \in OfRun(run) /\ x.index = Place(x.at, OfRun(run))
    /\ \A x, y \in work[t].todo : x.at = y.at => x = y
    /\ \A i \in OfRun(run) : Linked(i) \/ \E x \in work[t].todo : x.at = i
    /\ thread[t].at = "linked" => Linked(Item(t).at) /\ work[t].src \in DOMAIN events
    /\ thread[t].read \subseteq DOMAIN events

Reporting ==
    /\ task.act = "detect" /\ beat.phase = "change_detection" =>
         \A i \in OfRun(run) : Place(i, OfRun(run)) <= beat.index => Linked(i)
    /\ \A t \in Threads : On(t, "detect", {"item", "insert", "linked"}) => DetectingOn(t)
    /\ Passed({"detect_changes"}) /\ Len(events) < MaxEvents => \A i \in OfRun(run) : Linked(i)

(* Calls of the model. *)
Counting ==
    /\ \A r \in Cycles : calls[r] <= MaxLlm /\ (r > run => calls[r] = 0)
    /\ run > 0 => calls[run] <= rows[run].llm
    /\ task.act \in {"context", "recheck", "search", "extract"} => rows[run].llm <= MaxLlm
    /\ \A t \in Threads :
         task.by = t /\ thread[t].act = "extract" /\ thread[t].at # "start" =>
           /\ work[t].llm = rows[run].llm
           /\ thread[t].at = "ask" => calls[run] < rows[run].llm

Calm == Alone /\ OwnRun /\ StageOf /\ Watching /\ Rechecking /\ Extracting /\ Reporting /\ Counting

IInv ==
    /\ Typed /\ InCycle
    /\ AtItem /\ TextsThere /\ SnapshotsOfSources /\ EvidenceExamined /\ EventsDetected /\ InStep
    /\ timeouts = 0 => Calm

-----------------------------------------------------------------------------
(* The loops: the next item is there, and places in an order are distinct. *)

(* Entries with numbers for indices have a least one. *)
LEMMA LeastEntry ==
    ASSUME NEW S, S # {}, \A x \in S : x.index \in Nat
    PROVE  \E x \in S : \A y \in S : x.index <= y.index
<1> DEFINE Below == OpToRel(<, Nat)
           indices == {x.index : x \in S}
<1>1. IsWellFoundedOn(Below, Nat)
  BY NatLessThanWellFounded
<1>2. indices \subseteq Nat /\ indices # {}
  OBVIOUS
<1>3. \A m, n \in Nat : <<m, n>> \in Below <=> m < n
  BY DEF OpToRel
<1> HIDE DEF Below
<1>4. PICK m \in indices : \A n \in indices : ~(<<n, m>> \in Below)
  BY <1>1, <1>2, WFMin
<1>5. \A n \in indices : m <= n
  <2>1. m \in Nat /\ indices \subseteq Nat
    BY <1>2, <1>4
  <2> HIDE DEF indices
  <2>2. ASSUME NEW n \in indices PROVE ~(n < m)
    BY <1>3, <1>4, <2>1
  <2> QED BY <2>1, <2>2
<1> QED BY <1>4, <1>5

(* The item an attempt is at is one of those it has yet to do, the first. *)
LEMMA ItemIsFirst ==
    ASSUME AttemptsTyped, NEW t \in Threads, work[t].todo # {}
    PROVE  Item(t) \in work[t].todo /\ \A x \in work[t].todo : Item(t).index <= x.index
<1>1. \E x \in work[t].todo : \A y \in work[t].todo : x.index <= y.index
  BY LeastEntry DEF AttemptsTyped
<1> QED BY <1>1 DEF Item

LEMMA PlacesDiffer ==
    ASSUME NEW n \in Nat, NEW S \in SUBSET (1..n), NEW x \in S, NEW y \in S
    PROVE  /\ Place(x, S) \in Nat
           /\ Place(x, S) = Place(y, S) => x = y
<1> DEFINE Upto(z) == {u \in S : u <= z}
<1>0. S \subseteq Int
  OBVIOUS
<1>1. IsFiniteSet(S)
  <2>1. IsFiniteSet(1..n)
    BY FS_Interval
  <2> QED BY <2>1, FS_Subset
<1>2. \A z \in S : Upto(z) \in SUBSET S
  OBVIOUS
<1>3. \A z \in S : IsFiniteSet(Upto(z)) /\ Cardinality(Upto(z)) \in Nat
  BY <1>1, <1>2, FS_Subset, FS_CardinalityType
<1>4. ASSUME NEW u \in S, NEW v \in S, u < v, Cardinality(Upto(u)) = Cardinality(Upto(v))
      PROVE  FALSE
  <2>0. ASSUME NEW z \in S, z <= u PROVE z <= v
    <3>1. z \in Int /\ u \in Int /\ v \in Int
      BY <1>0
    <3> QED BY ONLY <1>4, <2>0, <3>1
  <2>1. Upto(u) \in SUBSET Upto(v)
    BY <2>0
  <2>2. Upto(v) = Upto(u)
    BY <1>3, <1>4, <2>1, FS_Subset
  <2>3. v \in Upto(v) /\ v \notin Upto(u)
    BY <1>4
  <2> QED BY <2>2, <2>3
<1>5. x < y \/ y < x \/ x = y
  OBVIOUS
<1> QED BY <1>3, <1>4, <1>5 DEF Place

(* A row added to a table leaves the others. *)
LEMMA Appended ==
    ASSUME NEW s, IsSeq(s), NEW x
    PROVE  /\ Len(s) \in Nat /\ DOMAIN s = 1..Len(s)
           /\ IsSeq(Append(s, x))
           /\ Len(Append(s, x)) = Len(s) + 1
           /\ DOMAIN Append(s, x) = DOMAIN s \union {Len(s) + 1}
           /\ \A i \in DOMAIN s : Append(s, x)[i] = s[i]
           /\ Append(s, x)[Len(s) + 1] = x
<1> DEFINE S == {s[i] : i \in DOMAIN s} \union {x}
           r == Append(s, x)
<1>1. s \in Seq(S)
  BY DEF IsSeq
<1>2. Len(s) \in Nat /\ DOMAIN s = 1..Len(s)
  BY <1>1
<1>3. r \in Seq(S) /\ Len(r) = Len(s) + 1
  BY <1>1
<1>4. \A i \in DOMAIN s : r[i] = s[i]
  BY <1>1
<1>5. r[Len(s) + 1] = x
  BY <1>1
<1>6. DOMAIN r = DOMAIN s \union {Len(s) + 1}
  BY <1>2, <1>3
<1>7. \A i \in 1..Len(r) : r[i] \in {r[k] : k \in DOMAIN r}
  BY <1>3
<1> HIDE DEF r, S
<1>8. r \in Seq({r[k] : k \in DOMAIN r})
  <2>1. r = [i \in 1..Len(r) |-> r[i]] /\ Len(r) \in Nat
    BY <1>3
  <2> QED BY <1>7, <2>1
<1> QED BY <1>2, <1>3, <1>4, <1>5, <1>6, <1>8 DEF IsSeq, r

-----------------------------------------------------------------------------
(* The initial states. *)

LEMMA Places ==
    /\ DOMAIN Follows = {"context", "recheck", "search", "extract", "detect"}
    /\ \A t \in Threads : t \notin {"queue", "done", "failed"}
BY ThreadsAssumption DEF Follows

LEMMA OneRow == ASSUME NEW x PROVE IsSeq(<<x>>) /\ DOMAIN <<x>> = {1} /\ Len(<<x>>) = 1 /\ <<x>>[1] = x
<1>1. <<x>> \in Seq({x}) /\ Len(<<x>>) = 1 /\ <<x>>[1] = x
  OBVIOUS
<1>2. DOMAIN <<x>> = {1}
  BY <1>1
<1>3. {<<x>>[i] : i \in DOMAIN <<x>>} = {x}
  BY <1>1, <1>2
<1> QED BY <1>1, <1>2, <1>3 DEF IsSeq

LEMMA NoRow == IsSeq(<<>>) /\ DOMAIN <<>> = {} /\ Len(<<>>) = 0
<1>1. <<>> \in Seq({<<>>[i] : i \in DOMAIN <<>>})
  OBVIOUS
<1> QED BY <1>1 DEF IsSeq

(* What the research left, and perhaps an earlier cycle. *)
LEMMA PastHolds ==
    ASSUME Init
    PROVE  /\ DOMAIN source = Sources /\ targets \subseteq Sources
           /\ IsSeq(snaps) /\ IsSeq(evidence) /\ IsSeq(events)
           /\ \A n \in DOMAIN snaps : snaps[n].source \in Sources /\ snaps[n].run = 0
           /\ \A i \in DOMAIN evidence : evidence[i].snap = 0 \/ evidence[i].snap \in DOMAIN snaps
           /\ \A e \in DOMAIN events : /\ IsEvent(events[e])
                                       /\ events[e].first \in DOMAIN evidence
                                       /\ Detected(events[e], evidence)
           /\ \A s \in Sources : source[s].status = "fetched" => source[s].value \in Values
           /\ \A s \in targets : source[s].status = "fetched"
<1>1. PICK p \in Pasts : Past(p.value)
  BY DEF Init
<1> DEFINE v == p.value
           quoted == [s \in 1..Known |-> Quoted(s, 0, Baseline, 1)]
<1>2. v \in Values /\ Baseline \in Values /\ Known \in Nat /\ Known \in Sources /\ Watchable \subseteq Sources /\ 1 \in Sources
  BY PastsAssumption, ValuesAssumption, SourcesAssumption, LimitsAssumption DEF Sources
<1>3. /\ source = [s \in Sources |-> IF s = 1 /\ v # Baseline THEN [status |-> "fetched", value |-> v]
                                     ELSE IF s <= Known THEN [status |-> "fetched", value |-> Baseline]
                                     ELSE [status |-> "unknown", value |-> "none"]]
      /\ IF v = Baseline
         THEN targets = {} /\ snaps = <<>> /\ evidence = quoted /\ events = <<>>
         ELSE /\ targets = {s \in Watchable : s <= Known}
              /\ snaps = <<[run |-> 0, source |-> 1, text |-> v, how |-> "recheck"]>>
              /\ evidence = Append(quoted, Quoted(1, 1, v, 2))
              /\ events = <<[ChangeEvent(0, Known + 1, Candidate(evidence, Known + 1)) EXCEPT !.status = "applied"]>>
  BY <1>1 DEF Past
<1>4. /\ DOMAIN source = Sources /\ targets \subseteq Sources
      /\ \A s \in Sources : source[s].status = "fetched" => source[s].value \in Values
      /\ \A s \in targets : source[s].status = "fetched"
  BY <1>2, <1>3
<1>5. IsSeq(quoted) /\ DOMAIN quoted = 1..Known /\ Len(quoted) = Known
  <2>1. quoted \in Seq({quoted[s] : s \in 1..Known}) /\ Len(quoted) = Known
    BY <1>2
  <2> QED BY <2>1 DEF IsSeq
<1>6. \A i \in 1..Known : quoted[i].snap = 0
  BY DEF Quoted
<1>7. CASE v = Baseline
  <2>1. snaps = <<>> /\ evidence = quoted /\ events = <<>>
    BY <1>3, <1>7
  <2> HIDE DEF quoted, v
  <2> QED BY <1>4, <1>5, <1>6, <2>1, NoRow
<1>8. CASE v # Baseline
  <2> DEFINE x == Quoted(1, 1, v, 2)
             c == Candidate(evidence, Known + 1)
             y == [ChangeEvent(0, Known + 1, c) EXCEPT !.status = "applied"]
             z == [run |-> 0, source |-> 1, text |-> v, how |-> "recheck"]
  <2>1. snaps = <<z>> /\ evidence = Append(quoted, x) /\ events = <<y>>
    BY <1>3, <1>8
  <2>2. x.snap = 1 /\ z.source = 1 /\ z.run = 0
    BY DEF Quoted
  <2>3. /\ IsEvent(y) /\ y.first = Known + 1 /\ y.type = c.type /\ y.conf = c.conf
    BY DEF ChangeEvent, IsEvent
  <2> HIDE DEF quoted, x, y, z, v
  <2>4. /\ IsSeq(evidence) /\ DOMAIN evidence = 1..Known \union {Known + 1}
        /\ \A i \in 1..Known : evidence[i].snap = 0
        /\ evidence[Known + 1].snap = 1
    BY <1>5, <1>6, <2>1, <2>2, Appended
  <2>5. Detected(y, evidence)
    BY <2>3 DEF Detected
  <2> QED BY <1>2, <1>4, <2>1, <2>2, <2>3, <2>4, <2>5, OneRow
<1> QED BY <1>7, <1>8

LEMMA InitHolds == Init => IInv
<1> SUFFICES ASSUME Init PROVE IInv
  OBVIOUS
<1> USE Places DEF Init
<1>1. Typed
  BY PastHolds, LimitsAssumption DEF Typed, TablesTyped, AttemptsTyped, Idle, NoWork, NoBeat, Stages, Cycles
<1>2. InCycle
  BY DEF InCycle, Awaited, Idle
<1>3. TextsThere /\ AtItem
  BY PastHolds DEF TextsThere, AtItem, Idle
<1>4. SnapshotsOfSources /\ EvidenceExamined
  BY PastHolds DEF SnapshotsOfSources, EvidenceExamined, Examined, Idle, FetchPlaces
<1>5. EventsDetected
  BY PastHolds DEF EventsDetected, Idle
<1>6. InStep
  BY DEF InStep, On
<1>7. Calm
  <2>1. Alone /\ OwnRun /\ StageOf /\ Rechecking
    BY DEF Alone, OwnRun, StageOf, Rechecking, On, Idle
  <2>2. Watching
    BY PastHolds DEF Watching
  <2>3. Extracting /\ Reporting
    BY DEF Extracting, Reporting, On, Passed
  <2>4. Counting
    BY LimitsAssumption DEF Counting, Cycles
  <2> QED BY <2>1, <2>2, <2>3, <2>4 DEF Calm
<1> QED BY <1>1, <1>2, <1>3, <1>4, <1>5, <1>6, <1>7 DEF IInv

-----------------------------------------------------------------------------
(* What an attempt does to threads, task and locals, in general. *)

ThreadRow(t) == thread[t] = [act |-> thread[t].act, at |-> thread[t].at, read |-> thread[t].read]
WorkRow(t) ==
    /\ work[t] = [run |-> work[t].run, todo |-> work[t].todo, val |-> work[t].val,
                  src |-> work[t].src, llm |-> work[t].llm, from |-> work[t].from]
    /\ work[t].llm \in Nat /\ \A x \in work[t].todo : x.index \in Nat
OthersStay(t) == \A u \in Threads \ {t} : thread'[u] = thread[u] /\ work'[u] = work[u]

Goes(t) ==
    /\ task' = task
    /\ thread'[t].act = thread[t].act /\ thread'[t].at \notin {"start", "none"}
    /\ work'[t].run = IF thread[t].at = "start" THEN run ELSE work[t].run

Stops(t) ==
    /\ thread'[t] = Idle /\ task'.act = task.act
    /\ task.by = t => task'.by \in {"queue", "done", "failed"}
    /\ task.by # t => task' = task

Moves(t) ==
    /\ thread[t].act # "none" /\ timeouts' = timeouts
    /\ DOMAIN thread' = Threads /\ DOMAIN work' = Threads
    /\ ThreadRow(t)' /\ WorkRow(t)' /\ OthersStay(t)
    /\ task' = [act |-> task'.act, left |-> task'.left, by |-> task'.by]
    /\ Goes(t) \/ Stops(t)

LEMMA GoToFields ==
    ASSUME AttemptsTyped, NEW t \in Threads, NEW p, NEW r, GoTo(t, p, r)
    PROVE  /\ DOMAIN thread' = Threads /\ ThreadRow(t)'
           /\ thread'[t].act = thread[t].act /\ thread'[t].at = p /\ thread'[t].read = r
           /\ \A u \in Threads \ {t} : thread'[u] = thread[u]
           /\ task' = task /\ timeouts' = timeouts
<1>1. DOMAIN thread = Threads /\ ThreadRow(t)
  BY DEF AttemptsTyped, ThreadRow
<1> DEFINE new == [act |-> thread[t].act, at |-> p, read |-> r]
<1>2. thread' = [thread EXCEPT ![t].at = p, ![t].read = r] /\ task' = task /\ timeouts' = timeouts
  BY DEF GoTo
<1>3. thread'[t] = new /\ DOMAIN thread' = Threads /\ \A u \in Threads \ {t} : thread'[u] = thread[u]
  BY <1>1, <1>2 DEF ThreadRow
<1> QED BY <1>2, <1>3 DEF ThreadRow

LEMMA StopFields ==
    ASSUME AttemptsTyped, NEW t \in Threads, Return(t) \/ Raise(t) \/ Fault(t)
    PROVE  /\ DOMAIN thread' = Threads /\ ThreadRow(t)' /\ thread'[t] = Idle
           /\ \A u \in Threads \ {t} : thread'[u] = thread[u]
           /\ timeouts' = timeouts /\ task'.act = task.act
           /\ task' = [act |-> task'.act, left |-> task'.left, by |-> task'.by]
           /\ task.by # t => task' = task
           /\ task.by = t => task'.by = IF Return(t) THEN "done" ELSE task'.by
           /\ task.by = t => task'.by \in {"queue", "done", "failed"}
           /\ ~Return(t) /\ task.by = t => task'.by \in {"queue", "failed"}
<1>1. /\ DOMAIN thread' = Threads /\ ThreadRow(t)' /\ thread'[t] = Idle
      /\ \A u \in Threads \ {t} : thread'[u] = thread[u]
      /\ timeouts' = timeouts
  BY DEF AttemptsTyped, Return, Raise, Fault, ThreadRow, Idle
<1>2. /\ Return(t) => task' = IF task.by = t THEN [task EXCEPT !.by = "done"] ELSE task
      /\ Raise(t) \/ Fault(t) => task' = IF task.by = t THEN GivenUp ELSE task
  BY DEF Return, Raise, Fault
<1>3. task = [act |-> task.act, left |-> task.left, by |-> task.by]
  BY DEF AttemptsTyped
<1>4. /\ GivenUp.act = task.act /\ GivenUp.by \in {"queue", "failed"}
      /\ GivenUp = [act |-> GivenUp.act, left |-> GivenUp.left, by |-> GivenUp.by]
  BY <1>3 DEF GivenUp
<1> QED BY <1>1, <1>2, <1>3, <1>4

(* The ways the locals of an attempt change. *)
Works(t, w) == DOMAIN work' = Threads /\ work'[t] = w /\ \A u \in Threads \ {t} : work'[u] = work[u]
Local(r, todo, val, src, llm, from) ==
    [run |-> r, todo |-> todo, val |-> val, src |-> src, llm |-> llm, from |-> from]

LEMMA WorkFields ==
    ASSUME AttemptsTyped, NEW t \in Threads
    PROVE  LET w == work[t] IN
           /\ \A es : Enter(t, es) => Works(t, Local(run, es, "none", 0, 0, beat))
           /\ Leave(t) => Works(t, Local(0, {}, "none", 0, 0, NoBeat))
           /\ \A v : Learn(t, v) => Works(t, Local(w.run, w.todo, v, w.src, w.llm, w.from))
           /\ NextItem(t) => Works(t, Local(w.run, w.todo \ {Item(t)}, w.val, w.src, w.llm, w.from))
           /\ \A s : work' = [work EXCEPT ![t].src = s] => Works(t, Local(w.run, w.todo, w.val, s, w.llm, w.from))
           /\ \A es : work' = [work EXCEPT ![t].todo = es] => Works(t, Local(w.run, es, w.val, w.src, w.llm, w.from))
           /\ work' = [work EXCEPT ![t].llm = @ + 1] => Works(t, Local(w.run, w.todo, w.val, w.src, w.llm + 1, w.from))
           /\ UNCHANGED work => Works(t, w) /\ w = Local(w.run, w.todo, w.val, w.src, w.llm, w.from)
<1> DEFINE w == work[t]
<1>1. DOMAIN work = Threads /\ w = Local(w.run, w.todo, w.val, w.src, w.llm, w.from)
  BY DEF AttemptsTyped, Local
<1>2. \A es : Enter(t, es) => Works(t, Local(run, es, "none", 0, 0, beat))
  BY <1>1 DEF Enter, Works, Local, NoWork
<1>3. Leave(t) => Works(t, Local(0, {}, "none", 0, 0, NoBeat))
  BY <1>1 DEF Leave, Works, Local, NoWork
<1>4. \A v : Learn(t, v) => Works(t, Local(w.run, w.todo, v, w.src, w.llm, w.from))
  BY <1>1 DEF Learn, Works, Local
<1>5. NextItem(t) => Works(t, Local(w.run, w.todo \ {Item(t)}, w.val, w.src, w.llm, w.from))
  BY <1>1 DEF NextItem, Works, Local
<1>6. \A s : work' = [work EXCEPT ![t].src = s] => Works(t, Local(w.run, w.todo, w.val, s, w.llm, w.from))
  BY <1>1 DEF Works, Local
<1>7. \A es : work' = [work EXCEPT ![t].todo = es] => Works(t, Local(w.run, es, w.val, w.src, w.llm, w.from))
  BY <1>1 DEF Works, Local
<1>8. work' = [work EXCEPT ![t].llm = @ + 1] => Works(t, Local(w.run, w.todo, w.val, w.src, w.llm + 1, w.from))
  BY <1>1 DEF Works, Local
<1>9. UNCHANGED work => Works(t, w)
  BY <1>1 DEF Works
<1> QED BY <1>1, <1>2, <1>3, <1>4, <1>5, <1>6, <1>7, <1>8, <1>9

LEMMA LocalFields ==
    ASSUME NEW r, NEW todo, NEW val, NEW src, NEW llm, NEW from, NEW t \in Threads,
           Works(t, Local(r, todo, val, src, llm, from))
    PROVE  /\ DOMAIN work' = Threads /\ \A u \in Threads \ {t} : work'[u] = work[u]
           /\ work'[t].run = r /\ work'[t].todo = todo /\ work'[t].val = val
           /\ work'[t].src = src /\ work'[t].llm = llm /\ work'[t].from = from
           /\ llm \in Nat /\ (\A x \in todo : x.index \in Nat) => WorkRow(t)'
BY DEF Works, Local, WorkRow

LEMMA GoingMoves ==
    ASSUME AttemptsTyped, NEW t \in Threads, thread[t].act # "none",
           NEW p, p \notin {"start", "none"}, NEW rd, GoTo(t, p, rd),
           NEW r, NEW todo, NEW val, NEW src, NEW llm, NEW from,
           Works(t, Local(r, todo, val, src, llm, from)),
           r = (IF thread[t].at = "start" THEN run ELSE work[t].run),
           llm \in Nat, \A x \in todo : x.index \in Nat
    PROVE  Moves(t)
BY GoToFields, LocalFields DEF Moves, Goes, OthersStay, AttemptsTyped

LEMMA KeepingMoves ==
    ASSUME AttemptsTyped, NEW t \in Threads, thread[t].act # "none", thread[t].at # "start",
           NEW p, p \notin {"start", "none"}, NEW rd, GoTo(t, p, rd), UNCHANGED work
    PROVE  Moves(t)
<1>1. WorkRow(t) /\ WorkRow(t)'
  BY DEF AttemptsTyped, WorkRow
<1> QED BY <1>1, GoToFields DEF Moves, Goes, OthersStay, AttemptsTyped

LEMMA StoppingMoves ==
    ASSUME AttemptsTyped, NEW t \in Threads, thread[t].act # "none",
           Return(t) \/ Raise(t) \/ Fault(t), Leave(t) \/ UNCHANGED work
    PROVE  Moves(t)
<1>1. DOMAIN work' = Threads /\ WorkRow(t)' /\ \A u \in Threads \ {t} : work'[u] = work[u]
  <2>1. CASE Leave(t)
    <3>1. Works(t, Local(0, {}, "none", 0, 0, NoBeat))
      BY <2>1, WorkFields
    <3> QED BY <3>1, LocalFields
  <2>2. CASE UNCHANGED work
    BY <2>2 DEF AttemptsTyped, WorkRow
  <2> QED BY <2>1, <2>2
<1> QED BY <1>1, StopFields DEF Moves, Stops, OthersStay

(* The entries of every loop have numbers. *)
LEMMA EntriesNumbered ==
    ASSUME Typed, SnapshotsOfSources
    PROVE  /\ \A s \in targets : Place(s, targets) \in Nat
           /\ \A r : \A i \in OfRun(r) : Place(i, OfRun(r)) \in Nat
           /\ \A r : \A x \in BySource(r) : x.index \in Nat
           /\ Len(evidence) \in Nat /\ \A r : OfRun(r) \in SUBSET (1..Len(evidence))
           /\ NumSources \in Nat
           /\ \A r : {snaps[n].source : n \in LastOf(r)} \in SUBSET (1..NumSources)
<1>0. NumSources \in Nat
  BY LimitsAssumption
<1>1. targets \in SUBSET (1..NumSources)
  BY DEF Typed, TablesTyped, Sources
<1>2. Len(evidence) \in Nat /\ \A r : OfRun(r) \in SUBSET (1..Len(evidence))
  BY Appended DEF Typed, TablesTyped, OfRun
<1>3. \A r : {snaps[n].source : n \in LastOf(r)} \in SUBSET (1..NumSources)
  BY DEF SnapshotsOfSources, LastOf, WithText, SnapsOf, Sources
<1>4. ASSUME NEW r, NEW x \in BySource(r) PROVE x.index \in Nat
  <2> DEFINE sources == {snaps[n].source : n \in LastOf(r)}
  <2>0. BySource(r) = {Entry(n, "none", Place(snaps[n].source, sources)) : n \in LastOf(r)}
    BY DEF BySource
  <2>1. PICK n \in LastOf(r) : x.index = Place(snaps[n].source, sources)
    <3> HIDE DEF sources
    <3>1. PICK n \in LastOf(r) : x = Entry(n, "none", Place(snaps[n].source, sources))
      BY <1>4, <2>0
    <3> QED BY <3>1 DEF Entry
  <2>2. snaps[n].source \in sources /\ sources \in SUBSET (1..NumSources)
    BY <1>3
  <2> HIDE DEF sources
  <2> QED BY <1>0, <2>1, <2>2, PlacesDiffer
<1>5. \A s \in targets : Place(s, targets) \in Nat
  BY <1>0, <1>1, PlacesDiffer
<1>6. ASSUME NEW r, NEW i \in OfRun(r) PROVE Place(i, OfRun(r)) \in Nat
  BY <1>2, <1>6, PlacesDiffer
<1> QED BY <1>0, <1>2, <1>3, <1>4, <1>5, <1>6

ContextSteps(t) == ContextBegin(t) \/ AddTarget(t) \/ ContextEnd(t)
RecheckSteps(t) == RecheckBegin(t) \/ Rechecked(t) \/ RecheckEnd(t)
FetchSteps(t) ==
    \/ PageFetched(t) \/ Unreadable(t)
    \/ FileUnchanged(t) \/ FileSaved(t) \/ FileParsed(t) \/ FileRecorded(t)
SearchSteps(t) ==
    \/ SearchBegin(t) \/ SourceAdded(t) \/ SourceThere(t) \/ SourceMarked(t)
    \/ SearchDone(t) \/ SearchEnd(t)
ExtractSteps(t) ==
    \/ ExtractBegin(t) \/ FetchedRow(t) \/ Fetched(t) \/ CandidatesListed(t)
    \/ CandidateDone(t) \/ Counted(t) \/ Extracted(t) \/ NothingExtracted(t)
    \/ BadAnswer(t) \/ Stored(t) \/ ExtractEnd(t)
DetectSteps(t) ==
    \/ DetectBegin(t) \/ EventFolded(t) \/ EventNew(t) \/ EventInserted(t)
    \/ EventLinked(t) \/ DetectEnd(t)
UpdateSteps(t) == NothingOpen(t) \/ UpdateBegin(t) \/ Synthesized(t) \/ SynthesisSaved(t) \/ Decided(t)

LEMMA ActivityKinds ==
    ASSUME NEW t \in Threads
    PROVE  Activity(t) <=> \/ ContextSteps(t) \/ RecheckSteps(t) \/ FetchSteps(t) \/ SearchSteps(t)
                           \/ ExtractSteps(t) \/ DetectSteps(t) \/ UpdateSteps(t)
BY DEF Activity, ContextSteps, RecheckSteps, FetchSteps, SearchSteps, ExtractSteps, DetectSteps, UpdateSteps

LEMMA ContextMoves == ASSUME Typed, NEW t \in Threads, ContextSteps(t) PROVE Moves(t)
<1>1. CASE ContextBegin(t)
  BY <1>1, WorkFields, GoingMoves DEF ContextBegin, At, Typed
<1>2. CASE AddTarget(t)
  BY <1>2, KeepingMoves DEF AddTarget, At, Typed
<1>3. CASE ContextEnd(t)
  BY <1>3, StoppingMoves DEF ContextEnd, At, Typed
<1> QED BY <1>1, <1>2, <1>3 DEF ContextSteps

LEMMA ProceedingMoves ==
    ASSUME AttemptsTyped, NEW t \in Threads, thread[t].act # "none", thread[t].at # "start",
           NextItem(t), NEW p, p \notin {"start", "none"}, NEW rd, GoTo(t, p, rd)
    PROVE  Moves(t)
<1>1. Works(t, Local(work[t].run, work[t].todo \ {Item(t)}, work[t].val, work[t].src, work[t].llm, work[t].from))
  BY WorkFields
<1>2. work[t].llm \in Nat /\ \A x \in work[t].todo \ {Item(t)} : x.index \in Nat
  BY DEF AttemptsTyped
<1> QED BY <1>1, <1>2, GoingMoves

LEMMA LearningMoves ==
    ASSUME AttemptsTyped, NEW t \in Threads, thread[t].act # "none", thread[t].at # "start",
           NEW v, Learn(t, v), NEW p, p \notin {"start", "none"}, NEW rd, GoTo(t, p, rd)
    PROVE  Moves(t)
<1>1. Works(t, Local(work[t].run, work[t].todo, v, work[t].src, work[t].llm, work[t].from))
  BY WorkFields
<1>2. work[t].llm \in Nat /\ \A x \in work[t].todo : x.index \in Nat
  BY DEF AttemptsTyped
<1> QED BY <1>1, <1>2, GoingMoves

LEMMA NotingMoves ==
    ASSUME AttemptsTyped, NEW t \in Threads, thread[t].act # "none", thread[t].at # "start",
           NEW s, work' = [work EXCEPT ![t].src = s], NEW p, p \notin {"start", "none"}, NEW rd, GoTo(t, p, rd)
    PROVE  Moves(t)
<1>1. Works(t, Local(work[t].run, work[t].todo, work[t].val, s, work[t].llm, work[t].from))
  BY WorkFields
<1>2. work[t].llm \in Nat /\ \A x \in work[t].todo : x.index \in Nat
  BY DEF AttemptsTyped
<1> QED BY <1>1, <1>2, GoingMoves

LEMMA EnteringMoves ==
    ASSUME AttemptsTyped, NEW t \in Threads, thread[t].act # "none", thread[t].at = "start",
           NEW es, Enter(t, es), \A x \in es : x.index \in Nat,
           NEW p, p \notin {"start", "none"}, NEW rd, GoTo(t, p, rd)
    PROVE  Moves(t)
<1>1. Works(t, Local(run, es, "none", 0, 0, beat))
  BY WorkFields
<1> QED BY <1>1, GoingMoves

LEMMA RecheckMoves == ASSUME Typed, SnapshotsOfSources, NEW t \in Threads, RecheckSteps(t) PROVE Moves(t)
<1>1. CASE RecheckBegin(t)
  <2> DEFINE es == {Entry(s, source[s].value, Place(s, targets)) : s \in targets}
  <2>1. Enter(t, Remaining(es, beat, "recheck")) /\ GoTo(t, "item", {}) /\ At(t, "recheck", "start")
    BY <1>1 DEF RecheckBegin
  <2>2. \A x \in Remaining(es, beat, "recheck") : x.index \in Nat
    BY EntriesNumbered DEF Remaining, Entry
  <2> HIDE DEF es
  <2> QED BY <2>1, <2>2, EnteringMoves DEF At, Typed
<1>2. CASE Rechecked(t)
  BY <1>2, KeepingMoves, ProceedingMoves DEF Rechecked, Proceed, At, Typed
<1>3. CASE RecheckEnd(t)
  BY <1>3, StoppingMoves DEF RecheckEnd, At, Typed
<1> QED BY <1>1, <1>2, <1>3 DEF RecheckSteps

LEMMA FetchMoves == ASSUME Typed, NEW t \in Threads, FetchSteps(t) PROVE Moves(t)
<1>1. CASE PageFetched(t)
  BY <1>1, LearningMoves DEF PageFetched, Fetching, At, Typed
<1>2. CASE Unreadable(t)
  BY <1>2, ProceedingMoves DEF Unreadable, Proceed, Fetching, At, Typed
<1>3. CASE FileUnchanged(t)
  BY <1>3, ProceedingMoves DEF FileUnchanged, Proceed, Fetching, At, Typed
<1>4. CASE FileSaved(t)
  BY <1>4, LearningMoves DEF FileSaved, Fetching, At, Typed
<1>5. CASE FileParsed(t)
  BY <1>5, KeepingMoves DEF FileParsed, At, Typed
<1>6. CASE FileRecorded(t)
  BY <1>6, ProceedingMoves DEF FileRecorded, Proceed, At, Typed
<1> QED BY <1>1, <1>2, <1>3, <1>4, <1>5, <1>6 DEF FetchSteps

LEMMA SearchMoves == ASSUME Typed, NEW t \in Threads, SearchSteps(t) PROVE Moves(t)
<1>1. CASE SearchBegin(t)
  <2> DEFINE es == {Entry(1, "none", 1)}
  <2>1. /\ Enter(t, Remaining(es, beat, "search")) /\ At(t, "search", "start")
        /\ GoTo(t, "item", {s \in Sources : source[s].status # "unknown"})
    BY <1>1 DEF SearchBegin
  <2>2. \A x \in Remaining(es, beat, "search") : x.index \in Nat
    BY DEF Remaining, Entry
  <2> HIDE DEF es
  <2> QED BY <2>1, <2>2, EnteringMoves DEF At, Typed
<1>2. CASE SourceAdded(t)
  BY <1>2, NotingMoves DEF SourceAdded, At, Typed
<1>3. CASE SourceThere(t)
  BY <1>3, NotingMoves DEF SourceThere, At, Typed
<1>4. CASE SourceMarked(t)
  BY <1>4, KeepingMoves DEF SourceMarked, At, Typed
<1>5. CASE SearchDone(t)
  BY <1>5, ProceedingMoves DEF SearchDone, Proceed, At, Typed
<1>6. CASE SearchEnd(t)
  BY <1>6, StoppingMoves DEF SearchEnd, At, Typed
<1> QED BY <1>1, <1>2, <1>3, <1>4, <1>5, <1>6 DEF SearchSteps

LEMMA DetectMoves == ASSUME Typed, SnapshotsOfSources, NEW t \in Threads, DetectSteps(t) PROVE Moves(t)
<1>1. CASE DetectBegin(t)
  <2> DEFINE es == Entries(OfRun(run))
  <2>1. /\ Enter(t, Remaining(es, beat, "change_detection")) /\ At(t, "detect", "start")
        /\ GoTo(t, "item", {e \in DOMAIN events : events[e].run = run})
    BY <1>1 DEF DetectBegin
  <2>2. \A x \in Remaining(es, beat, "change_detection") : x.index \in Nat
    BY EntriesNumbered DEF Remaining, Entries, Entry
  <2> HIDE DEF es
  <2> QED BY <2>1, <2>2, EnteringMoves DEF At, Typed
<1>2. CASE EventFolded(t)
  BY <1>2, NotingMoves DEF EventFolded, Detecting, At, Typed
<1>3. CASE EventNew(t)
  BY <1>3, KeepingMoves DEF EventNew, Detecting, At, Typed
<1>4. CASE EventInserted(t)
  BY <1>4, NotingMoves, StoppingMoves DEF EventInserted, At, Typed
<1>5. CASE EventLinked(t)
  BY <1>5, ProceedingMoves DEF EventLinked, At, Typed
<1>6. CASE DetectEnd(t)
  BY <1>6, StoppingMoves DEF DetectEnd, At, Typed
<1> QED BY <1>1, <1>2, <1>3, <1>4, <1>5, <1>6 DEF DetectSteps

LEMMA UpdateMoves == ASSUME Typed, NEW t \in Threads, UpdateSteps(t) PROVE Moves(t)
<1>1. CASE NothingOpen(t)
  BY <1>1, StoppingMoves DEF NothingOpen, Answer, At, Typed
<1>2. CASE UpdateBegin(t)
  <2>1. CASE Raise(t) /\ UNCHANGED work
    BY <1>2, <2>1, StoppingMoves DEF UpdateBegin, At, Typed
  <2>2. CASE Enter(t, {}) /\ (GoTo(t, "analyze", Backed(OpenEvents)) \/ GoTo(t, "synthesize", Backed(OpenEvents)))
    BY <1>2, <2>2, EnteringMoves DEF UpdateBegin, At, Typed
  <2> QED BY <1>2, <2>1, <2>2 DEF UpdateBegin
<1>3. CASE Synthesized(t)
  BY <1>3, KeepingMoves DEF Synthesized, At, Typed
<1>4. CASE SynthesisSaved(t)
  BY <1>4, KeepingMoves DEF SynthesisSaved, At, Typed
<1>5. CASE Decided(t)
  BY <1>5, StoppingMoves DEF Decided, Answer, At, Typed
<1> QED BY <1>1, <1>2, <1>3, <1>4, <1>5 DEF UpdateSteps

LEMMA ExtractMoves == ASSUME Typed, InCycle, SnapshotsOfSources, NEW t \in Threads, ExtractSteps(t) PROVE Moves(t)
<1> DEFINE w == work[t]
<1>1. CASE ExtractBegin(t)
  <2> DEFINE new == {s \in Sources : source[s].status = "searched"
                       /\ \E n \in SnapsOf(run) : snaps[n].source = s /\ snaps[n].how = "search"}
             es == IF beat.phase = "evidence" THEN {} ELSE {Entry(s, "none", s) : s \in new}
  <2>1. /\ At(t, "extract", "start") /\ GoTo(t, "item", {})
        /\ work' = [work EXCEPT ![t] = [NoWork EXCEPT !.run = run, !.from = beat, !.llm = rows[run].llm,
                                                      !.todo = Remaining(es, beat, "fetch")]]
    BY <1>1 DEF ExtractBegin
  <2>2. \A x \in Remaining(es, beat, "fetch") : x.index \in Nat
    BY EntriesNumbered DEF Remaining, Entry, Sources
  <2> HIDE DEF es
  <2>3. Works(t, Local(run, Remaining(es, beat, "fetch"), "none", 0, rows[run].llm, beat))
    BY <2>1 DEF Works, Local, NoWork, Typed, AttemptsTyped
  <2>4. rows[run].llm \in Nat
    BY <2>1 DEF At, InCycle, Typed, TablesTyped, Cycles
  <2> QED BY <2>1, <2>2, <2>3, <2>4, GoingMoves DEF At, Typed
<1>2. CASE FetchedRow(t)
  BY <1>2, KeepingMoves DEF FetchedRow, At, Typed
<1>3. CASE Fetched(t)
  BY <1>3, ProceedingMoves DEF Fetched, Proceed, At, Typed
<1>4. CASE CandidatesListed(t)
  <2> DEFINE es == Remaining(BySource(w.run), w.from, "evidence")
  <2>1. w.llm \in Nat /\ \A x \in es : x.index \in Nat
    BY EntriesNumbered DEF Remaining, Typed, AttemptsTyped
  <2> HIDE DEF es
  <2>2. Works(t, Local(w.run, es, w.val, w.src, w.llm, w.from))
    BY <1>4, WorkFields DEF CandidatesListed, Typed, es
  <2> QED BY <1>4, <2>1, <2>2, GoingMoves DEF CandidatesListed, At, Typed
<1>5. CASE CandidateDone(t)
  <2>1. Works(t, Local(w.run, w.todo \ {Item(t)}, w.val, w.src, w.llm, w.from))
    BY <1>5, WorkFields DEF CandidateDone, Typed
  <2>2. w.llm \in Nat /\ \A x \in w.todo \ {Item(t)} : x.index \in Nat
    BY DEF Typed, AttemptsTyped
  <2>3. UNCHANGED taskVars /\ thread[t].act = "extract" /\ thread[t].at = "candidate"
    BY <1>5 DEF CandidateDone, At
  <2> QED BY <2>1, <2>2, <2>3, LocalFields DEF Moves, Goes, OthersStay, Typed, AttemptsTyped, taskVars, ThreadRow
<1>6. CASE Counted(t)
  <2>1. Works(t, Local(w.run, w.todo, w.val, w.src, w.llm + 1, w.from))
    BY <1>6, WorkFields DEF Counted, Typed
  <2>2. w.llm + 1 \in Nat /\ \A x \in w.todo : x.index \in Nat
    BY DEF Typed, AttemptsTyped
  <2> QED BY <1>6, <2>1, <2>2, GoingMoves DEF Counted, At, Typed
<1>7. CASE Extracted(t)
  BY <1>7, LearningMoves DEF Extracted, At, Typed
<1>8. CASE NothingExtracted(t)
  BY <1>8, ProceedingMoves DEF NothingExtracted, At, Typed
<1>9. CASE BadAnswer(t)
  BY <1>9, StoppingMoves DEF BadAnswer, At, Typed
<1>10. CASE Stored(t)
  BY <1>10, ProceedingMoves DEF Stored, At, Typed
<1>11. CASE ExtractEnd(t)
  BY <1>11, StoppingMoves DEF ExtractEnd, At, Typed
<1> QED BY <1>1, <1>2, <1>3, <1>4, <1>5, <1>6, <1>7, <1>8, <1>9, <1>10, <1>11 DEF ExtractSteps

-----------------------------------------------------------------------------
(* What holds whatever is given up and goes on. *)

Grows(s, r) == DOMAIN s \subseteq DOMAIN r /\ \A i \in DOMAIN s : r[i] = s[i]

LEMMA AppendGrows == ASSUME NEW s, IsSeq(s), NEW x PROVE Grows(s, Append(s, x))
BY Appended DEF Grows

LEMMA Replaced ==
    ASSUME NEW s, IsSeq(s), NEW r, DOMAIN r = DOMAIN s, r = [i \in DOMAIN s |-> r[i]]
    PROVE  IsSeq(r) /\ Len(r) = Len(s)
<1>1. Len(s) \in Nat /\ DOMAIN s = 1..Len(s)
  BY Appended
<1>2. r \in Seq({r[i] : i \in DOMAIN r})
  BY <1>1
<1>3. Len(r) = Len(s)
  BY <1>1, <1>2
<1> QED BY <1>2, <1>3 DEF IsSeq

(* A heartbeat speaks of the item the attempt is at. *)
LEMMA BeatTyped ==
    ASSUME AttemptsTyped, NEW t \in Threads,
           \/ UNCHANGED beat
           \/ work[t].todo # {} /\ \E phase : Beat(t, phase)
    PROVE  beat'.index \in Nat /\ beat' = [phase |-> beat'.phase, index |-> beat'.index]
<1>1. CASE UNCHANGED beat
  BY <1>1 DEF AttemptsTyped
<1>2. ASSUME work[t].todo # {}, NEW phase, Beat(t, phase)
      PROVE  beat'.index \in Nat /\ beat' = [phase |-> beat'.phase, index |-> beat'.index]
  <2>1. Item(t).index \in Nat
    BY <1>2, ItemIsFirst DEF AttemptsTyped
  <2> QED BY <1>2, <2>1 DEF Beat, AttemptsTyped
<1> QED BY <1>1, <1>2

Ticks(t) == UNCHANGED beat \/ (work[t].todo # {} /\ \E phase : Beat(t, phase))

(* The parts about threads alone go through every step of an attempt. *)
LEMMA MovesTyped ==
    ASSUME AttemptsTyped, NEW t \in Threads, Moves(t), Ticks(t)
    PROVE  AttemptsTyped'
<1>1. beat'.index \in Nat /\ beat' = [phase |-> beat'.phase, index |-> beat'.index]
  BY BeatTyped DEF Ticks
<1>2. \A u \in Threads : ThreadRow(u) /\ WorkRow(u)
  BY DEF AttemptsTyped, ThreadRow, WorkRow
<1>3. \A u \in Threads : ThreadRow(u)' /\ WorkRow(u)'
  BY <1>2 DEF Moves, OthersStay, ThreadRow, WorkRow
<1>4. task'.by \in Threads \union {"queue", "done", "failed"}
  BY DEF Moves, Goes, Stops, AttemptsTyped
<1>5. timeouts' \in Nat /\ DOMAIN thread' = Threads /\ DOMAIN work' = Threads
      /\ task' = [act |-> task'.act, left |-> task'.left, by |-> task'.by]
  BY DEF Moves, AttemptsTyped
<1> QED BY <1>1, <1>3, <1>4, <1>5 DEF AttemptsTyped, ThreadRow, WorkRow

LEMMA MovesInCycle ==
    ASSUME AttemptsTyped, InCycle, NEW t \in Threads, Moves(t), UNCHANGED run,
           rows'[run].status = rows[run].status
    PROVE  InCycle'
<1>1. task'.act = task.act /\ (task.by # t => task' = task)
      /\ (task.by = t => task'.by = t \/ task'.by \in {"queue", "done", "failed"})
  BY DEF Moves, Goes, Stops
<1>2. Awaited' => Awaited
  BY <1>1, Places DEF Awaited
<1>3. ASSUME NEW u \in Threads, task'.by = u PROVE thread'[u].act = task'.act
  <2>1. CASE u = t
    <3>1. Goes(t)
      BY <1>3, <2>1, <1>1, Places DEF Moves, Stops, InCycle
    <3> QED BY <1>3, <2>1, <3>1 DEF Goes, InCycle
  <2>2. CASE u # t
    BY <1>1, <1>3, <2>2, Places DEF Moves, OthersStay, InCycle
  <2> QED BY <2>1, <2>2
<1>4. \A u \in Threads : thread'[u].act # "none" => run' > 0
  BY DEF Moves, OthersStay, InCycle
<1>5. task'.act # "none" <=> run' > 0
  BY <1>1 DEF InCycle
<1> QED BY <1>1, <1>2, <1>3, <1>4, <1>5 DEF InCycle

LEMMA MovesAlone ==
    ASSUME AttemptsTyped, Alone, OwnRun, NEW t \in Threads, Moves(t), UNCHANGED run
    PROVE  Alone' /\ OwnRun' /\ task.by = t
<1>1. task.by = t /\ \A u \in Threads \ {t} : thread[u].act = "none" /\ thread'[u] = thread[u]
  BY DEF Alone, Moves, OthersStay
<1>2. Alone'
  BY <1>1 DEF Alone, Moves, Goes, Stops, Idle
<1>3. ASSUME NEW u \in Threads, task'.by = u, thread'[u].at # "start" PROVE work'[u].run = run
  <2>1. u = t /\ Goes(t)
    BY <1>1, <1>3, Places DEF Moves, Goes, Stops
  <2> QED BY <1>1, <2>1 DEF OwnRun, Goes
<1> QED BY <1>1, <1>2, <1>3 DEF OwnRun

(* The row of a run. *)
RunRows == [Cycles -> [status : {"none", "running", "completed", "failed"}, stage : Stages, llm : Nat]]
RowBecomes(r, stage, llm) ==
    /\ rows' \in RunRows
    /\ \A q \in Cycles : /\ rows'[q].status = rows[q].status
                         /\ q # r => rows'[q] = rows[q]
                         /\ q = r => rows'[q].stage = stage /\ rows'[q].llm = llm

LEMMA RowSteps ==
    ASSUME rows \in RunRows, NEW r
    PROVE  /\ \A s \in Stages : SetStage(r, s) => RowBecomes(r, s, rows[r].llm)
           /\ \A n \in Nat : rows' = [rows EXCEPT ![r].llm = n] => RowBecomes(r, rows[r].stage, n)
           /\ \A s \in Stages, n \in Nat :
                rows' = [rows EXCEPT ![r].stage = s, ![r].llm = n] => RowBecomes(r, s, n)
           /\ \A s \in Stages :
                rows' = [rows EXCEPT ![r].stage = s, ![r].llm = @ + 1] => RowBecomes(r, s, rows[r].llm + 1)
           /\ UNCHANGED rows => RowBecomes(r, rows[r].stage, rows[r].llm)
<1>1. CASE r \in Cycles
  <2> DEFINE new(s, n) == [status |-> rows[r].status, stage |-> s, llm |-> n]
  <2>1. ASSUME NEW s \in Stages, NEW n \in Nat, rows' = [rows EXCEPT ![r] = new(s, n)]
        PROVE  RowBecomes(r, s, n)
    BY <1>1, <2>1 DEF RowBecomes, RunRows
  <2>2. rows[r] = new(rows[r].stage, rows[r].llm) /\ rows[r].stage \in Stages /\ rows[r].llm \in Nat
    BY <1>1 DEF RunRows
  <2>. DOMAIN rows = Cycles
    BY DEF RunRows
  <2>a. ASSUME NEW s, NEW row, row = [status |-> row.status, stage |-> row.stage, llm |-> row.llm]
        PROVE  /\ [row EXCEPT !.stage = s] = [status |-> row.status, stage |-> s, llm |-> row.llm]
               /\ [row EXCEPT !.llm = s] = [status |-> row.status, stage |-> row.stage, llm |-> s]
    BY <2>a
  <2>b. ASSUME NEW s
        PROVE  /\ [rows[r] EXCEPT !.stage = s] = new(s, rows[r].llm)
               /\ [rows[r] EXCEPT !.llm = s] = new(rows[r].stage, s)
    BY <2>2, <2>a
  <2>c. \A s, n : [rows EXCEPT ![r].stage = s, ![r].llm = n] = [rows EXCEPT ![r] = new(s, n)]
    <3>1. SUFFICES ASSUME NEW s, NEW n
                   PROVE  [rows EXCEPT ![r].stage = s, ![r].llm = n] = [rows EXCEPT ![r] = new(s, n)]
      OBVIOUS
    <3> DEFINE mid == [rows EXCEPT ![r] = new(s, rows[r].llm)]
    <3>2. [rows EXCEPT ![r].stage = s] = mid
      BY <2>b
    <3>3. mid[r] = new(s, rows[r].llm)
      BY <1>1
    <3>4. [mid[r] EXCEPT !.llm = n] = new(s, n)
      BY <3>3
    <3>5. DOMAIN mid = Cycles /\ [mid EXCEPT ![r] = new(s, n)] = [rows EXCEPT ![r] = new(s, n)]
      OBVIOUS
    <3> HIDE DEF mid
    <3>6. [mid EXCEPT ![r].llm = n] = [mid EXCEPT ![r] = new(s, n)]
      BY ONLY <3>4
    <3> QED BY <3>2, <3>5, <3>6
  <2>3. ASSUME NEW s \in Stages, SetStage(r, s) PROVE RowBecomes(r, s, rows[r].llm)
    <3>1. rows' = [rows EXCEPT ![r] = new(s, rows[r].llm)]
      BY <2>b, <2>3 DEF SetStage
    <3> QED BY <2>1, <2>2, <3>1
  <2>4. ASSUME NEW n \in Nat, rows' = [rows EXCEPT ![r].llm = n] PROVE RowBecomes(r, rows[r].stage, n)
    <3>1. rows' = [rows EXCEPT ![r] = new(rows[r].stage, n)]
      BY <2>b, <2>4
    <3> QED BY <2>1, <2>2, <3>1
  <2>5. ASSUME NEW s \in Stages, NEW n \in Nat, rows' = [rows EXCEPT ![r].stage = s, ![r].llm = n]
        PROVE  RowBecomes(r, s, n)
    <3>1. rows' = [rows EXCEPT ![r] = new(s, n)]
      BY <2>c, <2>5
    <3> QED BY <2>1, <3>1
  <2>6. ASSUME NEW s \in Stages, rows' = [rows EXCEPT ![r].stage = s, ![r].llm = @ + 1]
        PROVE  RowBecomes(r, s, rows[r].llm + 1)
    <3> DEFINE mid == [rows EXCEPT ![r] = new(s, rows[r].llm)]
               n == rows[r].llm + 1
    <3>2. [rows EXCEPT ![r].stage = s] = mid
      BY <2>b
    <3>3. mid[r] = new(s, rows[r].llm)
      BY <1>1
    <3>4. mid[r].llm + 1 = n /\ [mid[r] EXCEPT !.llm = n] = new(s, n)
      BY <3>3
    <3>5. DOMAIN mid = Cycles /\ [mid EXCEPT ![r] = new(s, n)] = [rows EXCEPT ![r] = new(s, n)]
      OBVIOUS
    <3>6. rows' = [mid EXCEPT ![r].llm = @ + 1]
      BY <2>6, <3>2
    <3> HIDE DEF mid, n
    <3>7. [mid EXCEPT ![r].llm = @ + 1] = [mid EXCEPT ![r] = new(s, n)]
      BY ONLY <3>4
    <3>8. rows' = [rows EXCEPT ![r] = new(s, n)]
      BY ONLY <3>5, <3>6, <3>7
    <3>9. n \in Nat
      BY <2>2 DEF n
    <3>10. RowBecomes(r, s, n)
      BY <2>1, <3>8, <3>9
    <3> QED BY <3>10 DEF n
  <2>7. UNCHANGED rows => RowBecomes(r, rows[r].stage, rows[r].llm)
    BY DEF RowBecomes
  <2> QED BY <2>3, <2>4, <2>5, <2>6, <2>7
<1>2. CASE r \notin Cycles
  <2>1. DOMAIN rows = Cycles
    BY DEF RunRows
  <2>2. /\ \A s : SetStage(r, s) => rows' = rows
        /\ \A n : rows' = [rows EXCEPT ![r].llm = n] => rows' = rows
        /\ \A s, n : rows' = [rows EXCEPT ![r].stage = s, ![r].llm = n] => rows' = rows
        /\ \A s : rows' = [rows EXCEPT ![r].stage = s, ![r].llm = @ + 1] => rows' = rows
    BY <1>2, <2>1 DEF SetStage, RunRows
  <2>3. rows' = rows => \A s, n : RowBecomes(r, s, n)
    BY <1>2 DEF RowBecomes
  <2> QED BY <2>2, <2>3
<1> QED BY <1>1, <1>2

Rooted(t) ==
    /\ TablesTyped' /\ UNCHANGED run /\ Ticks(t)
    /\ rows'[run].status = rows[run].status
    /\ Grows(snaps, snaps') /\ Grows(evidence, evidence')
(* A step that leaves the tables of evidence alone. *)
LEMMA RootedPlain ==
    ASSUME Typed, InCycle, NEW t \in Threads, Moves(t), Ticks(t), UNCHANGED <<run, evidence, events>>,
           NEW r, NEW stage, NEW llm, RowBecomes(r, stage, llm),
           DOMAIN source' = Sources, targets' \subseteq Sources,
           UNCHANGED snaps \/ (\E x : snaps' = Append(snaps, x)),
           calls' \in [Cycles -> Nat]
    PROVE  Rooted(t)
<1>1. run \in Cycles
  BY DEF Typed, TablesTyped, InCycle, Moves, Cycles
<1>2. rows' \in RunRows /\ rows'[run].status = rows[run].status
  BY <1>1 DEF RowBecomes
<1>3. IsSeq(snaps') /\ Grows(snaps, snaps')
  <2>1. CASE UNCHANGED snaps
    BY <2>1 DEF Typed, TablesTyped, Grows
  <2>2. CASE \E x : snaps' = Append(snaps, x)
    BY <2>2, Appended, AppendGrows DEF Typed, TablesTyped
  <2> QED BY <2>1, <2>2
<1>4. Grows(evidence, evidence')
  BY DEF Grows
<1> QED BY <1>2, <1>3, <1>4 DEF Rooted, Typed, TablesTyped, RunRows

Basis == Typed /\ InCycle /\ AtItem /\ SnapshotsOfSources

LEMMA BasisRows == Basis => rows \in RunRows
BY DEF Basis, Typed, TablesTyped, RunRows

LEMMA ContextRooted == ASSUME Basis, NEW t \in Threads, ContextSteps(t) PROVE Rooted(t)
<1>1. Moves(t) /\ Ticks(t) /\ calls' \in [Cycles -> Nat]
      /\ UNCHANGED <<run, evidence, events, snaps, source>>
  BY ContextMoves DEF Basis, Typed, TablesTyped, Ticks, ContextSteps, ContextBegin, AddTarget, ContextEnd,
      known, history, found, cycle
<1>2. targets' \subseteq Sources
  BY DEF Basis, Typed, TablesTyped, SnapshotsOfSources, ContextSteps, ContextBegin, AddTarget, ContextEnd,
      found, At
<1>3. \E r, stage, llm : RowBecomes(r, stage, llm)
  <2>1. CASE UNCHANGED rows
    BY <2>1, BasisRows, RowSteps
  <2>2. CASE ContextEnd(t)
    <3>1. SetStage(work[t].run, "delta_plan_created") /\ "delta_plan_created" \in Stages
      BY <2>2 DEF ContextEnd, Stages
    <3> QED BY <3>1, BasisRows, RowSteps
  <2> QED BY <2>1, <2>2 DEF ContextSteps, ContextBegin, AddTarget, cycle
<1> QED BY <1>1, <1>2, <1>3, RootedPlain DEF Basis, Typed, TablesTyped

LEMMA RecheckRooted == ASSUME Basis, NEW t \in Threads, RecheckSteps(t) PROVE Rooted(t)
<1>1. Moves(t) /\ calls' \in [Cycles -> Nat] /\ UNCHANGED <<run, evidence, events, targets>>
  BY RecheckMoves DEF Basis, Typed, TablesTyped, RecheckSteps, RecheckBegin, Rechecked, RecheckEnd,
      known, history, found, cycle
<1>2. DOMAIN source' = Sources
  BY DEF Basis, Typed, TablesTyped, RecheckSteps, RecheckBegin, Rechecked, RecheckEnd, RowOf, SetSource, found
<1>3. Ticks(t)
  BY DEF Basis, AtItem, RecheckSteps, RecheckBegin, Rechecked, RecheckEnd, Proceed, Ticks, At
<1>4. UNCHANGED snaps \/ \E x : snaps' = Append(snaps, x)
  BY DEF RecheckSteps, RecheckBegin, Rechecked, RecheckEnd, SnapshotOf, AddSnapshot, found
<1>5. \E r, stage, llm : RowBecomes(r, stage, llm)
  <2>1. CASE UNCHANGED rows
    BY <2>1, BasisRows, RowSteps
  <2>2. CASE RecheckEnd(t)
    <3>1. SetStage(work[t].run, "recheck_sources") /\ "recheck_sources" \in Stages
      BY <2>2 DEF RecheckEnd, Stages
    <3> QED BY <3>1, BasisRows, RowSteps
  <2> QED BY <2>1, <2>2 DEF RecheckSteps, RecheckBegin, Rechecked, cycle
<1> QED BY <1>1, <1>2, <1>3, <1>4, <1>5, RootedPlain DEF Basis, Typed, TablesTyped

LEMMA FetchRooted == ASSUME Basis, NEW t \in Threads, FetchSteps(t) PROVE Rooted(t)
<1>1. Moves(t) /\ calls' \in [Cycles -> Nat] /\ UNCHANGED <<run, rows, evidence, events, targets>>
  BY FetchMoves DEF Basis, Typed, TablesTyped, FetchSteps, PageFetched, Unreadable, FileUnchanged, FileSaved,
      FileParsed, FileRecorded, known, history, found, cycle
<1>2. DOMAIN source' = Sources
  BY DEF Basis, Typed, TablesTyped, FetchSteps, PageFetched, Unreadable, FileUnchanged, FileSaved,
      FileParsed, FileRecorded, SetSource, found
<1>3. Ticks(t)
  BY DEF Basis, AtItem, FetchSteps, PageFetched, Unreadable, FileUnchanged, FileSaved,
      FileParsed, FileRecorded, Proceed, Ticks, At, Fetching
<1>4. UNCHANGED snaps \/ \E x : snaps' = Append(snaps, x)
  BY DEF FetchSteps, PageFetched, Unreadable, FileUnchanged, FileSaved, FileParsed, FileRecorded, AddSnapshot, found
<1>5. \E r, stage, llm : RowBecomes(r, stage, llm)
  BY <1>1, BasisRows, RowSteps
<1> QED BY <1>1, <1>2, <1>3, <1>4, <1>5, RootedPlain DEF Basis, Typed, TablesTyped

LEMMA SearchRooted == ASSUME Basis, NEW t \in Threads, SearchSteps(t) PROVE Rooted(t)
<1>1. Moves(t) /\ calls' \in [Cycles -> Nat] /\ UNCHANGED <<run, evidence, events, targets>>
  BY SearchMoves DEF Basis, Typed, TablesTyped, SearchSteps, SearchBegin, SourceAdded, SourceThere,
      SourceMarked, SearchDone, SearchEnd, known, history, found, cycle
<1>2. DOMAIN source' = Sources
  BY DEF Basis, Typed, TablesTyped, SearchSteps, SearchBegin, SourceAdded, SourceThere,
      SourceMarked, SearchDone, SearchEnd, SetSource, found
<1>3. Ticks(t)
  BY DEF SearchSteps, SearchBegin, SourceAdded, SourceThere, SourceMarked, SearchDone, SearchEnd, Proceed, Ticks
<1>4. UNCHANGED snaps \/ \E x : snaps' = Append(snaps, x)
  BY DEF SearchSteps, SearchBegin, SourceAdded, SourceThere, SourceMarked, SearchDone, SearchEnd, AddSnapshot, found
<1>5. \E r, stage, llm : RowBecomes(r, stage, llm)
  <2>1. CASE UNCHANGED rows
    BY <2>1, BasisRows, RowSteps
  <2>2. CASE SearchEnd(t)
    <3>1. SetStage(work[t].run, "search_sources") /\ "search_sources" \in Stages
      BY <2>2 DEF SearchEnd, Stages
    <3> QED BY <3>1, BasisRows, RowSteps
  <2> QED BY <2>1, <2>2 DEF SearchSteps, SearchBegin, SourceAdded, SourceThere, SourceMarked, SearchDone, cycle
<1> QED BY <1>1, <1>2, <1>3, <1>4, <1>5, RootedPlain DEF Basis, Typed, TablesTyped

LEMMA UpdateRooted == ASSUME Basis, NEW t \in Threads, UpdateSteps(t) PROVE Rooted(t)
<1>1. Moves(t) /\ calls' \in [Cycles -> Nat] /\ UNCHANGED <<run, snaps, evidence, events, source, targets>>
  BY UpdateMoves DEF Basis, Typed, TablesTyped, UpdateSteps, NothingOpen, UpdateBegin, Synthesized,
      SynthesisSaved, Decided, known, history, found, cycle
<1>2. Ticks(t)
  BY DEF UpdateSteps, NothingOpen, UpdateBegin, Synthesized, SynthesisSaved, Decided, Ticks
<1>3. \E r, stage, llm : RowBecomes(r, stage, llm)
  <2>1. CASE UNCHANGED rows
    BY <2>1, BasisRows, RowSteps
  <2>2. CASE Decided(t)
    <3>1. SetStage(work[t].run, "decision") /\ "decision" \in Stages
      BY <2>2 DEF Decided, Stages
    <3> QED BY <3>1, BasisRows, RowSteps
  <2>3. CASE SynthesisSaved(t)
    <3>1. /\ rows' = [rows EXCEPT ![work[t].run].stage = "claims_synthesized", ![work[t].run].llm = @ + 1]
          /\ "claims_synthesized" \in Stages
      BY <2>3 DEF SynthesisSaved, Stages
    <3> QED BY <3>1, BasisRows, RowSteps
  <2> QED BY <2>1, <2>2, <2>3 DEF UpdateSteps, NothingOpen, UpdateBegin, Synthesized, cycle
<1> QED BY <1>1, <1>2, <1>3, RootedPlain DEF Basis, Typed, TablesTyped

LEMMA CallCounted ==
    ASSUME Basis, NEW t \in Threads, Called(t)
    PROVE  /\ calls' \in [Cycles -> Nat]
           /\ \A r \in Cycles : calls'[r] = IF r = work[t].run THEN calls[r] + 1 ELSE calls[r]
<1>1. calls \in [Cycles -> Nat] /\ calls' = [calls EXCEPT ![work[t].run] = @ + 1]
  BY DEF Called, Basis, Typed, TablesTyped
<1>2. DOMAIN calls' = Cycles /\ calls' = [r \in Cycles |-> calls'[r]]
      /\ \A r \in Cycles : calls'[r] = IF r = work[t].run THEN calls[r] + 1 ELSE calls[r]
  BY <1>1
<1>3. \A r \in Cycles : calls'[r] \in Nat
  BY <1>1, <1>2
<1> QED BY <1>2, <1>3

LEMMA ExtractRooted == ASSUME Basis, NEW t \in Threads, ExtractSteps(t) PROVE Rooted(t)
<1>0. Moves(t) /\ UNCHANGED <<run, events, targets>>
  BY ExtractMoves DEF Basis, ExtractSteps, ExtractBegin, FetchedRow, Fetched, CandidatesListed,
      CandidateDone, Counted, Extracted, NothingExtracted, BadAnswer, Stored, ExtractEnd,
      known, history, found, cycle
<1>1. calls' \in [Cycles -> Nat]
  <2>1. CASE UNCHANGED calls
    BY <2>1 DEF Basis, Typed, TablesTyped
  <2> QED BY <2>1, CallCounted DEF ExtractSteps, ExtractBegin, FetchedRow, Fetched, CandidatesListed,
      CandidateDone, Counted, Extracted, NothingExtracted, BadAnswer, Stored, ExtractEnd, history
<1>2. DOMAIN source' = Sources
  BY DEF Basis, Typed, TablesTyped, ExtractSteps, ExtractBegin, FetchedRow, Fetched, CandidatesListed,
      CandidateDone, Counted, Extracted, NothingExtracted, BadAnswer, Stored, ExtractEnd, SetSource, found
<1>3. Ticks(t)
  BY DEF Basis, AtItem, ExtractSteps, ExtractBegin, FetchedRow, Fetched, CandidatesListed,
      CandidateDone, Counted, Extracted, NothingExtracted, BadAnswer, Stored, ExtractEnd, Proceed, Ticks, At
<1>4. UNCHANGED snaps \/ \E x : snaps' = Append(snaps, x)
  BY DEF ExtractSteps, ExtractBegin, FetchedRow, Fetched, CandidatesListed,
      CandidateDone, Counted, Extracted, NothingExtracted, BadAnswer, Stored, ExtractEnd, AddSnapshot, found
<1>5. \E r, stage, llm : RowBecomes(r, stage, llm)
  <2>1. CASE UNCHANGED rows
    BY <2>1, BasisRows, RowSteps
  <2>2. CASE Counted(t)
    <3>1. rows' = [rows EXCEPT ![work[t].run].llm = work[t].llm + 1] /\ work[t].llm + 1 \in Nat
      BY <2>2 DEF Counted, Basis, Typed, AttemptsTyped
    <3> QED BY <3>1, BasisRows, RowSteps
  <2>3. CASE ExtractEnd(t)
    <3>1. /\ rows' = [rows EXCEPT ![work[t].run].stage = "extract_evidence", ![work[t].run].llm = work[t].llm]
          /\ "extract_evidence" \in Stages /\ work[t].llm \in Nat
      BY <2>3 DEF ExtractEnd, Stages, Basis, Typed, AttemptsTyped
    <3> QED BY <3>1, BasisRows, RowSteps
  <2> QED BY <2>1, <2>2, <2>3 DEF ExtractSteps, ExtractBegin, FetchedRow, Fetched, CandidatesListed,
      CandidateDone, Extracted, NothingExtracted, BadAnswer, Stored, cycle
<1>6. CASE UNCHANGED evidence
  BY <1>0, <1>1, <1>2, <1>3, <1>4, <1>5, <1>6, RootedPlain DEF Basis, Typed, TablesTyped
<1>7. CASE Stored(t)
  <2>1. UNCHANGED evidence \/ \E x : evidence' = Append(evidence, x)
    BY <1>7 DEF Stored
  <2>2. CASE \E x : evidence' = Append(evidence, x)
    <3>1. IsSeq(evidence') /\ Grows(evidence, evidence')
      BY <2>2, Appended, AppendGrows DEF Basis, Typed, TablesTyped
    <3>2. UNCHANGED <<rows, snaps, source>>
      BY <1>7 DEF Stored, found, cycle
    <3> QED BY <1>0, <1>1, <1>3, <3>1, <3>2 DEF Rooted, Basis, Typed, TablesTyped, Grows
  <2> QED BY <1>6, <2>1, <2>2
<1> QED BY <1>6, <1>7 DEF ExtractSteps, ExtractBegin, FetchedRow, Fetched, CandidatesListed,
      CandidateDone, Counted, Extracted, NothingExtracted, BadAnswer, ExtractEnd, known

(* What becomes of the events: they stay what was detected, evidence joins   *)
(* them, and new ones are detected.                                           *)
EventsGrow ==
    /\ IsSeq(events') /\ DOMAIN events \subseteq DOMAIN events'
    /\ Len(events) <= Len(events')
    /\ \A e \in DOMAIN events' : IsEvent(events'[e])
    /\ \A e \in DOMAIN events :
         /\ events[e].links \subseteq events'[e].links
         /\ events'[e].first = events[e].first /\ events'[e].type = events[e].type
         /\ events'[e].conf = events[e].conf
    /\ \A e \in DOMAIN events' \ DOMAIN events :
         events'[e].first \in DOMAIN evidence /\ Detected(events'[e], evidence)

LEMMA EventTaken ==
    ASSUME NEW x, IsEvent(x), NEW ids
    PROVE  /\ LET y == [x EXCEPT !.links = @ \union ids] IN
                /\ IsEvent(y) /\ y.links = x.links \union ids
                /\ y.first = x.first /\ y.type = x.type /\ y.conf = x.conf
           /\ LET y == [x EXCEPT !.against = @ \union ids] IN
                /\ IsEvent(y) /\ y.links = x.links
                /\ y.first = x.first /\ y.type = x.type /\ y.conf = x.conf
BY DEF IsEvent

LEMMA EventJoined ==
    ASSUME TablesTyped, NEW e, NEW ids, events' = [events EXCEPT ![e].links = @ \union ids]
    PROVE  /\ IsSeq(events') /\ Len(events') = Len(events) /\ DOMAIN events' = DOMAIN events
           /\ \A d \in DOMAIN events :
                /\ IsEvent(events'[d])
                /\ events'[d].links = (events[d].links \union IF d = e THEN ids ELSE {})
                /\ events'[d].first = events[d].first /\ events'[d].type = events[d].type
                /\ events'[d].conf = events[d].conf
<1>1. IsSeq(events) /\ \A d \in DOMAIN events : IsEvent(events[d])
  BY DEF TablesTyped
<1>2. /\ DOMAIN events' = DOMAIN events /\ events' = [d \in DOMAIN events |-> events'[d]]
      /\ \A d \in DOMAIN events :
           events'[d] = IF d = e THEN [events[d] EXCEPT !.links = @ \union ids] ELSE events[d]
  OBVIOUS
<1>3. IsSeq(events') /\ Len(events') = Len(events)
  BY ONLY <1>1, <1>2, Replaced
<1>4. ASSUME NEW d \in DOMAIN events
      PROVE  /\ IsEvent(events'[d])
             /\ events'[d].links = (events[d].links \union IF d = e THEN ids ELSE {})
             /\ events'[d].first = events[d].first /\ events'[d].type = events[d].type
             /\ events'[d].conf = events[d].conf
  <2> DEFINE x == events[d]
             y == [x EXCEPT !.links = @ \union ids]
  <2>1. events'[d] = IF d = e THEN y ELSE x
    BY <1>2
  <2>2. IsEvent(x)
    BY <1>1
  <2> HIDE DEF x
  <2>3. /\ IsEvent(y) /\ y.links = x.links \union ids
        /\ y.first = x.first /\ y.type = x.type /\ y.conf = x.conf
    BY ONLY <2>2, EventTaken
  <2> HIDE DEF y
  <2>4. CASE d = e
    BY ONLY <2>1, <2>3, <2>4 DEF x
  <2>5. CASE d # e
    <3>1. events'[d] = x /\ (IF d = e THEN ids ELSE {}) = {}
      BY ONLY <2>1, <2>5
    <3>2. x.links = x.links \union {}
      OBVIOUS
    <3> QED BY ONLY <2>2, <3>1, <3>2 DEF x
  <2> QED BY ONLY <2>4, <2>5
<1> QED BY ONLY <1>2, <1>3, <1>4

LEMMA EventDisputed ==
    ASSUME TablesTyped, NEW e, NEW ids, events' = [events EXCEPT ![e].against = @ \union ids]
    PROVE  /\ IsSeq(events') /\ Len(events') = Len(events) /\ DOMAIN events' = DOMAIN events
           /\ \A d \in DOMAIN events :
                /\ IsEvent(events'[d]) /\ events'[d].links = events[d].links
                /\ events'[d].first = events[d].first /\ events'[d].type = events[d].type
                /\ events'[d].conf = events[d].conf
<1>1. IsSeq(events) /\ \A d \in DOMAIN events : IsEvent(events[d])
  BY DEF TablesTyped
<1>2. /\ DOMAIN events' = DOMAIN events /\ events' = [d \in DOMAIN events |-> events'[d]]
      /\ \A d \in DOMAIN events :
           events'[d] = IF d = e THEN [events[d] EXCEPT !.against = @ \union ids] ELSE events[d]
  OBVIOUS
<1>3. IsSeq(events') /\ Len(events') = Len(events)
  BY ONLY <1>1, <1>2, Replaced
<1>4. ASSUME NEW d \in DOMAIN events
      PROVE  /\ IsEvent(events'[d]) /\ events'[d].links = events[d].links
             /\ events'[d].first = events[d].first /\ events'[d].type = events[d].type
             /\ events'[d].conf = events[d].conf
  <2> DEFINE x == events[d]
             y == [x EXCEPT !.against = @ \union ids]
  <2>1. events'[d] = IF d = e THEN y ELSE x
    BY <1>2
  <2>2. IsEvent(x)
    BY <1>1
  <2> HIDE DEF x
  <2>3. /\ IsEvent(y) /\ y.links = x.links
        /\ y.first = x.first /\ y.type = x.type /\ y.conf = x.conf
    BY ONLY <2>2, EventTaken
  <2> HIDE DEF y
  <2> QED BY ONLY <2>1, <2>2, <2>3 DEF x
<1> QED BY ONLY <1>2, <1>3, <1>4

LEMMA DetectedEvent ==
    ASSUME NEW r, NEW i, NEW ee, ee = evidence
    PROVE  /\ IsEvent(ChangeEvent(r, i, Candidate(ee, i)))
           /\ ChangeEvent(r, i, Candidate(ee, i)).first = i
           /\ ChangeEvent(r, i, Candidate(ee, i)).links = {i}
           /\ Detected(ChangeEvent(r, i, Candidate(ee, i)), ee)
<1> DEFINE c == Candidate(ee, i)
           x == ChangeEvent(r, i, c)
<1>1. /\ x.first = i /\ x.links = {i} /\ x.type = c.type /\ x.conf = c.conf
      /\ IsEvent(x)
  BY DEF ChangeEvent, IsEvent
<1> QED BY <1>1 DEF Detected

LEMMA DetectEvents ==
    ASSUME Typed, AtItem, EventsDetected, NEW t \in Threads, DetectSteps(t) PROVE EventsGrow
<1>1. ASSUME UNCHANGED events PROVE EventsGrow
  BY <1>1, Appended DEF EventsGrow, Typed, TablesTyped
<1>2. ASSUME NEW e, NEW ids, \/ events' = [events EXCEPT ![e].links = @ \union ids]
                             \/ events' = [events EXCEPT ![e].against = @ \union ids]
      PROVE  EventsGrow
  <2>0. Len(events) \in Nat
    BY Appended DEF Typed, TablesTyped
  <2>1. TablesTyped
    BY DEF Typed
  <2>2. CASE events' = [events EXCEPT ![e].links = @ \union ids]
    <3>1. /\ IsSeq(events') /\ Len(events') = Len(events) /\ DOMAIN events' = DOMAIN events
          /\ \A d \in DOMAIN events :
               /\ IsEvent(events'[d])
               /\ events'[d].links = (events[d].links \union IF d = e THEN ids ELSE {})
               /\ events'[d].first = events[d].first /\ events'[d].type = events[d].type
               /\ events'[d].conf = events[d].conf
      BY ONLY <2>1, <2>2, EventJoined
    <3>2. \A d \in DOMAIN events : events[d].links \subseteq events'[d].links
      BY ONLY <3>1
    <3> QED BY ONLY <2>0, <3>1, <3>2 DEF EventsGrow
  <2>3. CASE events' = [events EXCEPT ![e].against = @ \union ids]
    <3>1. /\ IsSeq(events') /\ Len(events') = Len(events) /\ DOMAIN events' = DOMAIN events
          /\ \A d \in DOMAIN events :
               /\ IsEvent(events'[d]) /\ events'[d].links = events[d].links
               /\ events'[d].first = events[d].first /\ events'[d].type = events[d].type
               /\ events'[d].conf = events[d].conf
      BY ONLY <2>1, <2>3, EventDisputed
    <3> QED BY ONLY <2>0, <3>1 DEF EventsGrow
  <2> QED BY <1>2, <2>2, <2>3
<1>3. CASE EventInserted(t)
  <2> DEFINE i == Item(t).at
             x == ChangeEvent(work[t].run, i, Candidate(evidence, i))
  <2>1. i \in DOMAIN evidence
    BY <1>3, ItemIsFirst DEF EventInserted, At, AtItem, EventsDetected, Typed
  <2>2. UNCHANGED events \/ events' = Append(events, x)
    BY <1>3 DEF EventInserted
  <2>3. IsEvent(x) /\ x.first = i /\ Detected(x, evidence)
    BY DetectedEvent
  <2> HIDE DEF x, i
  <2>4. ASSUME events' = Append(events, x) PROVE EventsGrow
    BY <2>1, <2>3, <2>4, Appended DEF EventsGrow, Typed, TablesTyped
  <2> QED BY <1>1, <2>2, <2>4
<1> QED BY <1>1, <1>2, <1>3 DEF DetectSteps, DetectBegin, EventFolded, EventNew, EventLinked, DetectEnd, known

LEMMA DetectRooted ==
    ASSUME Basis, EventsDetected, NEW t \in Threads, DetectSteps(t) PROVE Rooted(t)
<1>1. Moves(t) /\ EventsGrow
      /\ UNCHANGED <<run, calls, snaps, evidence, source, targets>>
  BY DetectMoves, DetectEvents DEF Basis, DetectSteps, DetectBegin, EventFolded, EventNew, EventInserted,
      EventLinked, DetectEnd, known, history, found, cycle
<1>2. Ticks(t)
  BY DEF Basis, AtItem, DetectSteps, DetectBegin, EventFolded, EventNew, EventInserted, EventLinked,
      DetectEnd, Ticks, At
<1>3. \E r, stage, llm : RowBecomes(r, stage, llm)
  <2>1. CASE UNCHANGED rows
    BY <2>1, BasisRows, RowSteps
  <2>2. CASE DetectEnd(t)
    <3>1. SetStage(work[t].run, "detect_changes") /\ "detect_changes" \in Stages
      BY <2>2 DEF DetectEnd, Stages
    <3> QED BY <3>1, BasisRows, RowSteps
  <2> QED BY <2>1, <2>2 DEF DetectSteps, DetectBegin, EventFolded, EventNew, EventInserted, EventLinked, cycle
<1>4. rows' \in RunRows /\ rows'[run].status = rows[run].status
  <2>1. run \in Cycles
    BY <1>1 DEF Basis, Typed, TablesTyped, InCycle, Moves, Cycles
  <2> QED BY <1>3, <2>1 DEF RowBecomes
<1> QED BY <1>1, <1>2, <1>4 DEF Rooted, Basis, Typed, TablesTyped, Grows, EventsGrow, RunRows

-----------------------------------------------------------------------------
(* Of the parts about what is stored: what they say of one attempt, and what *)
(* they say of the tables.                                                   *)
OwnSound(t) ==
    /\ thread[t].at \in {"page", "row", "file", "parsed", "ask", "store", "insert", "linked"} =>
         work[t].todo # {}
    /\ thread[t].at \in {"page", "file", "parsed", "row"} => work[t].val \in Values
    /\ thread[t].act \in {"recheck", "extract"} /\ thread[t].at \in FetchPlaces =>
         \A x \in work[t].todo : x.at \in Sources
    /\ thread[t].act = "search" /\ thread[t].at = "found" => work[t].src \in Sources
    /\ thread[t].act = "context" /\ thread[t].at = "choose" => thread[t].read \subseteq Sources
    /\ thread[t].act = "detect" /\ thread[t].at \in {"item", "insert", "linked"} =>
         \A x \in work[t].todo : x.at \in DOMAIN evidence

TablesSound ==
    /\ \A s \in Sources : source[s].status = "fetched" => source[s].value \in Values
    /\ \A n \in DOMAIN snaps : snaps[n].source \in Sources
    /\ EvidenceExamined
    /\ \A e \in DOMAIN events : events[e].first \in DOMAIN evidence /\ Detected(events[e], evidence)

Sound == AtItem /\ TextsThere /\ SnapshotsOfSources /\ EvidenceExamined /\ EventsDetected

LEMMA SoundParts == Sound <=> TablesSound /\ \A t \in Threads : OwnSound(t)
BY DEF Sound, AtItem, TextsThere, SnapshotsOfSources, EventsDetected, TablesSound, OwnSound

LEMMA OthersSound ==
    ASSUME Sound, NEW t \in Threads, Moves(t), Grows(evidence, evidence'), OwnSound(t)', TablesSound'
    PROVE  Sound'
<1>1. \A u \in Threads : OwnSound(u)
  BY SoundParts
<1>2. ASSUME NEW u \in Threads \ {t} PROVE OwnSound(u)'
  <2>1. thread'[u] = thread[u] /\ work'[u] = work[u] /\ DOMAIN evidence \subseteq DOMAIN evidence'
    BY <1>2 DEF Moves, OthersStay, Grows
  <2> QED BY <1>1, <1>2, <2>1 DEF OwnSound
<1>3. \A u \in Threads : OwnSound(u)'
  BY <1>2
<1>4. TablesSound' /\ (\A u \in Threads : OwnSound(u)') => Sound'
  BY DEF Sound, AtItem, TextsThere, SnapshotsOfSources, EventsDetected, TablesSound, OwnSound
<1> QED BY <1>3, <1>4

LEMMA IdleSound == ASSUME NEW t \in Threads, thread'[t] = Idle PROVE OwnSound(t)'
BY DEF OwnSound, Idle

LEMMA StopSound ==
    ASSUME Typed, NEW t \in Threads, Return(t) \/ Raise(t) \/ Fault(t) PROVE OwnSound(t)'
BY StopFields, IdleSound DEF Typed

(* What an attempt may do to the tables it writes to. *)
SourceWritten ==
    UNCHANGED source \/ \E s, st, v : SetSource(s, st, v) /\ (st = "fetched" => v \in Values)
SnapshotTaken ==
    UNCHANGED snaps \/ \E x : snaps' = Append(snaps, x) /\ x.source \in Sources

LEMMA TablesKept ==
    ASSUME Typed, TablesSound, SourceWritten, SnapshotTaken, UNCHANGED <<evidence, events>>,
           examined \subseteq examined'
    PROVE  TablesSound'
<1>1. \A s \in Sources : source'[s].status = "fetched" => source'[s].value \in Values
  <2>1. CASE UNCHANGED source
    BY <2>1 DEF TablesSound
  <2>2. ASSUME NEW s, NEW st, NEW v, SetSource(s, st, v), st = "fetched" => v \in Values
        PROVE  \A r \in Sources : source'[r].status = "fetched" => source'[r].value \in Values
    <3>1. DOMAIN source = Sources
      BY DEF Typed, TablesTyped
    <3>2. ASSUME NEW r \in Sources
          PROVE  source'[r] = IF r = s THEN [status |-> st, value |-> v] ELSE source[r]
      BY <2>2, <3>1 DEF SetSource
    <3> QED BY <2>2, <3>2 DEF TablesSound
  <2> QED BY <2>1, <2>2 DEF SourceWritten
<1>2. Grows(snaps, snaps') /\ \A n \in DOMAIN snaps' : snaps'[n].source \in Sources
  <2>1. CASE UNCHANGED snaps
    BY <2>1 DEF TablesSound, Grows
  <2>2. ASSUME NEW x, snaps' = Append(snaps, x), x.source \in Sources
        PROVE  Grows(snaps, snaps') /\ \A n \in DOMAIN snaps' : snaps'[n].source \in Sources
    <3>1. /\ DOMAIN snaps' = DOMAIN snaps \union {Len(snaps) + 1}
          /\ \A i \in DOMAIN snaps : snaps'[i] = snaps[i]
          /\ snaps'[Len(snaps) + 1] = x
      BY <2>2, Appended DEF Typed, TablesTyped
    <3>2. \A n \in DOMAIN snaps : snaps[n].source \in Sources
      BY DEF TablesSound
    <3> QED BY <2>2, <3>1, <3>2 DEF Grows
  <2> QED BY <2>1, <2>2 DEF SnapshotTaken
<1>3. Examined \subseteq Examined'
  BY <1>2 DEF Examined, Grows
<1>4. EvidenceExamined'
  BY <1>3 DEF TablesSound, EvidenceExamined
<1> QED BY <1>1, <1>2, <1>4 DEF TablesSound

(* How the fields of the attempt read after the step. *)
LEMMA WentOn ==
    ASSUME Typed, NEW t \in Threads, NEW p, NEW rd, GoTo(t, p, rd)
    PROVE  /\ thread'[t].act = thread[t].act /\ thread'[t].at = p /\ thread'[t].read = rd
           /\ UNCHANGED work => work'[t] = work[t]
           /\ NextItem(t) => work'[t].todo \subseteq work[t].todo /\ work'[t].val = work[t].val
                             /\ work'[t].src = work[t].src /\ work'[t].llm = work[t].llm
                             /\ work'[t].from = work[t].from /\ work'[t].todo = work[t].todo \ {Item(t)}
           /\ \A v : Learn(t, v) => work'[t].todo = work[t].todo /\ work'[t].val = v
                                    /\ work'[t].llm = work[t].llm /\ work'[t].from = work[t].from
           /\ \A s : work' = [work EXCEPT ![t].src = s] =>
                       work'[t].todo = work[t].todo /\ work'[t].src = s
           /\ \A es : Enter(t, es) => work'[t].todo = es /\ work'[t].from = beat /\ work'[t].run = run
<1> DEFINE w == work[t]
<1>1. thread'[t].act = thread[t].act /\ thread'[t].at = p /\ thread'[t].read = rd
  BY GoToFields DEF Typed
<1>2. ASSUME NextItem(t)
      PROVE  /\ work'[t].todo \subseteq w.todo /\ work'[t].val = w.val
             /\ work'[t].src = w.src /\ work'[t].llm = w.llm
             /\ work'[t].from = w.from /\ work'[t].todo = w.todo \ {Item(t)}
  <2>1. Works(t, Local(w.run, w.todo \ {Item(t)}, w.val, w.src, w.llm, w.from))
    BY <1>2, WorkFields DEF Typed
  <2> QED BY <2>1 DEF Works, Local
<1>3. ASSUME NEW v, Learn(t, v)
      PROVE  work'[t].todo = w.todo /\ work'[t].val = v /\ work'[t].llm = w.llm /\ work'[t].from = w.from
  <2>1. Works(t, Local(w.run, w.todo, v, w.src, w.llm, w.from))
    BY <1>3, WorkFields DEF Typed
  <2> QED BY <2>1 DEF Works, Local
<1>4. ASSUME NEW s, work' = [work EXCEPT ![t].src = s]
      PROVE  work'[t].todo = w.todo /\ work'[t].src = s
  <2>1. Works(t, Local(w.run, w.todo, w.val, s, w.llm, w.from))
    BY <1>4, WorkFields DEF Typed
  <2> QED BY <2>1 DEF Works, Local
<1>5. ASSUME NEW es, Enter(t, es)
      PROVE  work'[t].todo = es /\ work'[t].from = beat /\ work'[t].run = run
  <2>1. Works(t, Local(run, es, "none", 0, 0, beat))
    BY <1>5, WorkFields DEF Typed
  <2> QED BY <2>1 DEF Works, Local
<1> QED BY <1>1, <1>2, <1>3, <1>4, <1>5

LEMMA ContextSound == ASSUME Typed, Sound, NEW t \in Threads, ContextSteps(t) PROVE OwnSound(t)' /\ TablesSound'
<1>1. TablesSound'
  <2>1. UNCHANGED <<source, snaps, evidence, events, examined>>
    BY DEF ContextSteps, ContextBegin, AddTarget, ContextEnd, found, known, history
  <2> QED BY <2>1, SoundParts, TablesKept DEF SourceWritten, SnapshotTaken
<1>2. OwnSound(t)
  BY SoundParts
<1>3. CASE ContextBegin(t)
  <2>1. thread[t].act = "context"
    BY <1>3 DEF ContextBegin, At
  <2>2. thread'[t].act = "context" /\ thread'[t].at = "choose" /\ thread'[t].read \subseteq Sources
    BY <1>3, <2>1, WentOn, SourcesAssumption DEF ContextBegin
  <2> QED BY <1>1, <2>2 DEF OwnSound, FetchPlaces
<1>4. CASE AddTarget(t)
  <2>1. thread[t].act = "context" /\ thread[t].at = "choose"
    BY <1>4 DEF AddTarget, At
  <2>2. thread'[t].act = "context" /\ thread'[t].at = "choose" /\ thread'[t].read \subseteq thread[t].read
    BY <1>4, <2>1, WentOn DEF AddTarget
  <2> QED BY <1>1, <1>2, <2>1, <2>2 DEF OwnSound, FetchPlaces
<1>5. CASE ContextEnd(t)
  BY <1>1, <1>5, StopSound DEF ContextEnd
<1> QED BY <1>1, <1>3, <1>4, <1>5 DEF ContextSteps

LEMMA RecheckSound == ASSUME Typed, Sound, NEW t \in Threads, RecheckSteps(t) PROVE OwnSound(t)' /\ TablesSound'
<1>1. OwnSound(t) /\ TablesSound
  BY SoundParts
<1>2. CASE RecheckBegin(t)
  <2> DEFINE es == {Entry(s, source[s].value, Place(s, targets)) : s \in targets}
  <2>1. /\ Enter(t, Remaining(es, beat, "recheck")) /\ GoTo(t, "item", {}) /\ thread[t].act = "recheck"
        /\ UNCHANGED <<source, snaps, evidence, events, examined>>
    BY <1>2 DEF RecheckBegin, At, found, known, history
  <2>2. \A x \in Remaining(es, beat, "recheck") : x.at \in Sources
    BY DEF Remaining, Entry, Typed, TablesTyped
  <2> HIDE DEF es
  <2>3. thread'[t].act = "recheck" /\ thread'[t].at = "item" /\ work'[t].todo = Remaining(es, beat, "recheck")
    BY <2>1, WentOn
  <2>4. OwnSound(t)'
    BY <2>2, <2>3 DEF OwnSound
  <2> QED BY <1>1, <2>1, <2>4, TablesKept DEF SourceWritten, SnapshotTaken
<1>3. CASE Rechecked(t)
  <2>1. thread[t].act = "recheck" /\ thread[t].at \in {"page", "row"} /\ work[t].todo # {}
        /\ UNCHANGED <<evidence, events, examined>>
    BY <1>1, <1>3 DEF Rechecked, At, OwnSound, known, history
  <2>2. work[t].val \in Values /\ Source(t) \in Sources
    BY <1>1, <2>1, ItemIsFirst DEF OwnSound, FetchPlaces, Source, Typed
  <2>3. SourceWritten /\ SnapshotTaken
    BY <1>3, <2>2 DEF Rechecked, RowOf, SnapshotOf, AddSnapshot, SourceWritten, SnapshotTaken
  <2>4. /\ thread'[t].act = "recheck" /\ thread'[t].at \in {"row", "item"}
        /\ work'[t].todo \subseteq work[t].todo
        /\ thread'[t].at = "row" => work'[t] = work[t]
    BY <1>3, <2>1, WentOn DEF Rechecked, Proceed, At
  <2>5. OwnSound(t)'
    BY <1>1, <2>1, <2>2, <2>4 DEF OwnSound, FetchPlaces
  <2> QED BY <1>1, <2>1, <2>3, <2>5, TablesKept
<1>4. CASE RecheckEnd(t)
  <2>1. UNCHANGED <<source, snaps, evidence, events, examined>>
    BY <1>4 DEF RecheckEnd, found, known, history
  <2> QED BY <1>1, <1>4, <2>1, StopSound, TablesKept DEF RecheckEnd, SourceWritten, SnapshotTaken
<1> QED BY <1>2, <1>3, <1>4 DEF RecheckSteps

(* While it fetches, the attempt is at a source it has yet to do. *)
LEMMA FetchingItem ==
    ASSUME Typed, Sound, NEW t \in Threads, thread[t].act \in {"recheck", "extract"},
           \/ thread[t].at = "item" /\ work[t].todo # {}
           \/ thread[t].at \in {"page", "row", "file", "parsed"}
    PROVE  /\ work[t].todo # {} /\ Item(t) \in work[t].todo /\ Source(t) \in Sources
           /\ \A x \in work[t].todo : x.at \in Sources
           /\ thread[t].at # "item" => work[t].val \in Values
BY SoundParts, ItemIsFirst DEF OwnSound, FetchPlaces, Source, Typed

LEMMA FetchSound == ASSUME Typed, Sound, NEW t \in Threads, FetchSteps(t) PROVE OwnSound(t)' /\ TablesSound'
<1>0. thread[t].act \in {"recheck", "extract"}
      /\ ((thread[t].at = "item" /\ work[t].todo # {}) \/ thread[t].at \in {"page", "row", "file", "parsed"})
  BY DEF FetchSteps, PageFetched, Unreadable, FileUnchanged, FileSaved, FileParsed, FileRecorded, Fetching, At
<1>1. /\ work[t].todo # {} /\ Source(t) \in Sources /\ \A x \in work[t].todo : x.at \in Sources
      /\ thread[t].at # "item" => work[t].val \in Values
  BY <1>0, FetchingItem
<1>2. TablesSound /\ UNCHANGED <<evidence, events, examined>>
  BY SoundParts DEF FetchSteps, PageFetched, Unreadable, FileUnchanged, FileSaved, FileParsed, FileRecorded,
      known, history
<1>3. SourceWritten
  <2>1. CASE Unreadable(t)
    BY <2>1 DEF Unreadable, SourceWritten
  <2>2. CASE FileRecorded(t)
    <3>1. work[t].val \in Values
      BY <1>1, <2>2 DEF FileRecorded, At
    <3> QED BY <2>2, <3>1 DEF FileRecorded, SourceWritten
  <2> QED BY <2>1, <2>2 DEF FetchSteps, PageFetched, FileUnchanged, FileSaved, FileParsed, SourceWritten, found
<1>4. SnapshotTaken
  <2>1. ASSUME NEW text, NEW how, AddSnapshot(t, Source(t), text, how) PROVE SnapshotTaken
    BY <1>1, <2>1 DEF AddSnapshot, SnapshotTaken
  <2> QED BY <2>1 DEF FetchSteps, PageFetched, Unreadable, FileUnchanged, FileSaved, FileParsed, FileRecorded,
      SnapshotTaken, found
<1>5. TablesSound'
  BY <1>2, <1>3, <1>4, TablesKept
<1>6. /\ thread'[t].act = thread[t].act
      /\ work'[t].todo \subseteq work[t].todo
      /\ \/ thread'[t].at = "item"
         \/ /\ thread'[t].at \in {"page", "file", "parsed"}
            /\ work'[t].todo = work[t].todo /\ work'[t].val \in Values
  <2>1. CASE PageFetched(t)
    <3>1. PICK v \in Values : Learn(t, v)
      BY <2>1 DEF PageFetched
    <3> QED BY <2>1, <3>1, WentOn DEF PageFetched
  <2>2. CASE FileSaved(t)
    <3>1. PICK v \in Values : Learn(t, v)
      BY <2>2 DEF FileSaved
    <3> QED BY <2>2, <3>1, WentOn DEF FileSaved
  <2>3. CASE FileParsed(t)
    <3>1. thread[t].at = "file" /\ UNCHANGED work /\ GoTo(t, "parsed", {})
      BY <2>3 DEF FileParsed, At
    <3> QED BY <1>1, <3>1, WentOn
  <2>4. CASE Unreadable(t) \/ FileUnchanged(t) \/ FileRecorded(t)
    <3>1. NextItem(t) /\ GoTo(t, "item", thread[t].read)
      BY <2>4 DEF Unreadable, FileUnchanged, FileRecorded, Proceed
    <3> QED BY <3>1, WentOn
  <2> QED BY <2>1, <2>2, <2>3, <2>4 DEF FetchSteps
<1>7. OwnSound(t)'
  BY <1>0, <1>1, <1>6 DEF OwnSound, FetchPlaces
<1> QED BY <1>5, <1>7

LEMMA SearchSound == ASSUME Typed, Sound, NEW t \in Threads, SearchSteps(t) PROVE OwnSound(t)' /\ TablesSound'
<1>1. OwnSound(t) /\ TablesSound /\ UNCHANGED <<evidence, events, examined>> /\ thread[t].act = "search"
  BY SoundParts DEF SearchSteps, SearchBegin, SourceAdded, SourceThere, SourceMarked, SearchDone, SearchEnd,
      known, history, At
<1>2. SourceWritten
  BY DEF SearchSteps, SearchBegin, SourceAdded, SourceThere, SourceMarked, SearchDone, SearchEnd, SourceWritten, found
<1>3. SnapshotTaken
  <2>1. CASE SourceMarked(t)
    <3>1. work[t].src \in Sources
      BY <1>1, <2>1 DEF SourceMarked, At, OwnSound
    <3> QED BY <2>1, <3>1 DEF SourceMarked, AddSnapshot, SnapshotTaken
  <2> QED BY <2>1 DEF SearchSteps, SearchBegin, SourceAdded, SourceThere, SearchDone, SearchEnd, SnapshotTaken, found
<1>4. TablesSound'
  BY <1>1, <1>2, <1>3, TablesKept
<1>5. CASE SearchEnd(t)
  BY <1>4, <1>5, StopSound DEF SearchEnd
<1>6. CASE SourceAdded(t) \/ SourceThere(t)
  <2>1. PICK s \in Sources : work' = [work EXCEPT ![t].src = s]
    BY <1>6 DEF SourceAdded, SourceThere, NextNew
  <2>0. GoTo(t, "found", thread[t].read)
    BY <1>6 DEF SourceAdded, SourceThere
  <2>2. thread'[t].act = "search" /\ thread'[t].at = "found" /\ work'[t].src = s
    <3>1. thread'[t].act = "search" /\ thread'[t].at = "found"
      BY <1>1, <2>0, WentOn
    <3>2. work'[t].src = s
      BY <2>1, t \in Threads DEF Typed, AttemptsTyped
    <3> QED BY <3>1, <3>2
  <2> QED BY <1>4, <2>2 DEF OwnSound, FetchPlaces
<1>7. CASE SearchBegin(t) \/ SourceMarked(t) \/ SearchDone(t)
  <2>1. thread'[t].act = "search" /\ thread'[t].at = "item"
    BY <1>1, <1>7, WentOn DEF SearchBegin, SourceMarked, SearchDone, Proceed
  <2> QED BY <1>4, <2>1 DEF OwnSound
<1> QED BY <1>5, <1>6, <1>7 DEF SearchSteps

LEMMA UpdateSound == ASSUME Typed, Sound, NEW t \in Threads, UpdateSteps(t) PROVE OwnSound(t)' /\ TablesSound'
<1>1. TablesSound /\ UNCHANGED <<source, snaps, evidence, events, examined>> /\ thread[t].act = "update"
  BY SoundParts DEF UpdateSteps, NothingOpen, UpdateBegin, Synthesized, SynthesisSaved, Decided, known, found,
      history, At
<1>2. TablesSound'
  BY <1>1, TablesKept DEF SourceWritten, SnapshotTaken
<1>3. ASSUME NEW p \in {"synthesize", "synthesized", "analyze"}, NEW rd, GoTo(t, p, rd) PROVE OwnSound(t)'
  <2>1. thread'[t].act = "update" /\ thread'[t].at = p
    BY <1>1, <1>3, WentOn
  <2> QED BY <1>3, <2>1 DEF OwnSound
<1>4. (Return(t) \/ Raise(t)) \/ \E rd : \E p \in {"synthesize", "synthesized", "analyze"} : GoTo(t, p, rd)
  BY DEF UpdateSteps, NothingOpen, UpdateBegin, Synthesized, SynthesisSaved, Decided, Answer
<1> QED BY <1>2, <1>3, <1>4, StopSound

LEMMA DetectSound == ASSUME Basis, Sound, NEW t \in Threads, DetectSteps(t) PROVE OwnSound(t)' /\ TablesSound'
<1>1. OwnSound(t) /\ TablesSound /\ UNCHANGED <<source, snaps, evidence, examined>> /\ thread[t].act = "detect"
  BY SoundParts DEF DetectSteps, DetectBegin, EventFolded, EventNew, EventInserted, EventLinked, DetectEnd, Detecting,
      known, found, history, At
<1>2. TablesSound'
  <2>1. EventsGrow
    BY DetectEvents DEF Basis, Sound
  <2>2. \A e \in DOMAIN events' : events'[e].first \in DOMAIN evidence' /\ Detected(events'[e], evidence')
    <3>1. ASSUME NEW e \in DOMAIN events
          PROVE  events'[e].first \in DOMAIN evidence' /\ Detected(events'[e], evidence')
      BY <1>1, <2>1 DEF EventsGrow, TablesSound, Detected
    <3> QED BY <1>1, <2>1, <3>1 DEF EventsGrow
  <2>3. EvidenceExamined'
    BY <1>1 DEF TablesSound, EvidenceExamined, Examined
  <2> QED BY <1>1, <2>2, <2>3 DEF TablesSound
<1>3. ASSUME NEW p \in {"item", "insert", "linked"}, NEW rd, GoTo(t, p, rd),
             \A x \in work'[t].todo : x.at \in DOMAIN evidence, p # "item" => work'[t].todo # {}
      PROVE  OwnSound(t)'
  <2>1. thread'[t].act = "detect" /\ thread'[t].at = p
    BY <1>1, <1>3, WentOn DEF Basis
  <2> QED BY <1>1, <1>3, <2>1 DEF OwnSound
<1>4. thread[t].at \in {"item", "insert", "linked"} => \A x \in work[t].todo : x.at \in DOMAIN evidence
  BY <1>1 DEF OwnSound
<1>5. CASE DetectBegin(t)
  <2>1. PICK rd : GoTo(t, "item", rd)
    BY <1>5 DEF DetectBegin
  <2>2. work'[t].todo = Remaining(Entries(OfRun(run)), beat, "change_detection")
    BY <1>5, <2>1, WentOn DEF DetectBegin, Basis
  <2>3. \A x \in work'[t].todo : x.at \in DOMAIN evidence
    <3>1. \A x \in Entries(OfRun(run)) : x.at \in DOMAIN evidence
      <4>1. ASSUME NEW i \in OfRun(run), NEW k PROVE Entry(i, "none", k).at \in DOMAIN evidence
        BY DEF Entry, OfRun
      <4> QED BY <4>1 DEF Entries
    <3> QED BY <2>2, <3>1 DEF Remaining
  <2> QED BY <1>2, <1>3, <2>1, <2>3
<1>6. CASE EventFolded(t)
  <2>1. thread[t].at = "item" /\ work[t].todo # {} /\ GoTo(t, "linked", thread[t].read)
    BY <1>6 DEF EventFolded, Detecting, At
  <2>2. PICK e : work' = [work EXCEPT ![t].src = e]
    BY <1>6 DEF EventFolded
  <2>3. work'[t].todo = work[t].todo
    BY <2>1, <2>2, WentOn DEF Basis
  <2> QED BY <1>2, <1>3, <1>4, <2>1, <2>3
<1>7. CASE EventNew(t)
  <2>1. thread[t].at = "item" /\ work[t].todo # {} /\ GoTo(t, "insert", thread[t].read) /\ UNCHANGED work
    BY <1>7 DEF EventNew, Detecting, At
  <2> QED BY <1>2, <1>3, <1>4, <2>1
<1>8. CASE EventInserted(t)
  <2>1. thread[t].at = "insert" /\ work[t].todo # {}
    BY <1>1, <1>8 DEF EventInserted, At, OwnSound
  <2>2. CASE Raise(t)
    BY <1>2, <2>2, StopSound DEF Basis
  <2>3. CASE GoTo(t, "linked", thread[t].read) /\ work' = [work EXCEPT ![t].src = Len(events) + 1]
    <3>1. work'[t].todo = work[t].todo
      BY <2>3, WentOn DEF Basis
    <3> QED BY <1>2, <1>3, <1>4, <2>1, <2>3, <3>1
  <2> QED BY <1>8, <2>2, <2>3 DEF EventInserted
<1>9. CASE EventLinked(t)
  <2>1. PICK rd : thread[t].at = "linked" /\ NextItem(t) /\ GoTo(t, "item", rd)
    BY <1>9 DEF EventLinked, At
  <2>2. work'[t].todo \subseteq work[t].todo
    BY <2>1, WentOn DEF Basis
  <2> QED BY <1>2, <1>3, <1>4, <2>1, <2>2
<1>10. CASE DetectEnd(t)
  BY <1>2, <1>10, StopSound DEF DetectEnd, Basis
<1> QED BY <1>5, <1>6, <1>7, <1>8, <1>9, <1>10 DEF DetectSteps

LEMMA ExtractSound == ASSUME Basis, Sound, NEW t \in Threads, ExtractSteps(t) PROVE OwnSound(t)' /\ TablesSound'
<1>0. Typed /\ OwnSound(t) /\ TablesSound /\ UNCHANGED events /\ thread[t].act = "extract"
  BY SoundParts DEF Basis, ExtractSteps, ExtractBegin, FetchedRow, Fetched, CandidatesListed,
      CandidateDone, Counted, Extracted, NothingExtracted, BadAnswer, Stored, ExtractEnd, At, known
<1>1. ASSUME UNCHANGED <<evidence, snaps, source>>, examined \subseteq examined' PROVE TablesSound'
  BY <1>0, <1>1, TablesKept DEF SourceWritten, SnapshotTaken
<1>2. CASE ExtractBegin(t)
  <2> DEFINE new == {s \in Sources : source[s].status = "searched"
                       /\ \E n \in SnapsOf(run) : snaps[n].source = s /\ snaps[n].how = "search"}
             es == IF beat.phase = "evidence" THEN {} ELSE {Entry(s, "none", s) : s \in new}
  <2>1. /\ GoTo(t, "item", {})
        /\ work' = [work EXCEPT ![t] = [NoWork EXCEPT !.run = run, !.from = beat, !.llm = rows[run].llm,
                                                      !.todo = Remaining(es, beat, "fetch")]]
        /\ UNCHANGED <<evidence, snaps, source, examined>>
    BY <1>2 DEF ExtractBegin, found, known, history
  <2>2. \A x \in Remaining(es, beat, "fetch") : x.at \in Sources
    BY DEF Remaining, Entry
  <2> HIDE DEF es
  <2>3. work'[t].todo = Remaining(es, beat, "fetch")
    BY <1>0, <2>1 DEF NoWork, Typed, AttemptsTyped
  <2>4. thread'[t].act = "extract" /\ thread'[t].at = "item"
    BY <1>0, <2>1, WentOn
  <2> QED BY <1>1, <2>1, <2>2, <2>3, <2>4 DEF OwnSound
<1>3. CASE FetchedRow(t)
  <2>1. thread[t].at = "page" /\ GoTo(t, "row", {}) /\ SetSource(Source(t), "fetched", work[t].val)
        /\ UNCHANGED <<work, snaps, evidence, examined>>
    BY <1>3 DEF FetchedRow, At, known, history
  <2>2. work[t].todo # {} /\ work[t].val \in Values /\ \A x \in work[t].todo : x.at \in Sources
    BY <1>0, <2>1, FetchingItem
  <2>3. thread'[t].act = "extract" /\ thread'[t].at = "row" /\ work'[t] = work[t]
    BY <1>0, <2>1, WentOn
  <2>4. OwnSound(t)'
    BY <2>2, <2>3 DEF OwnSound
  <2> QED BY <1>0, <2>1, <2>2, <2>4, TablesKept DEF SourceWritten, SnapshotTaken
<1>4. CASE Fetched(t)
  <2>1. /\ thread[t].at = "row" /\ GoTo(t, "item", thread[t].read) /\ NextItem(t)
        /\ AddSnapshot(t, Source(t), work[t].val, "fetch")
        /\ UNCHANGED <<source, evidence, examined>>
    BY <1>4 DEF Fetched, Proceed, At, known, history
  <2>2. Source(t) \in Sources /\ \A x \in work[t].todo : x.at \in Sources
    BY <1>0, <2>1, FetchingItem
  <2>3. thread'[t].act = "extract" /\ thread'[t].at = "item" /\ work'[t].todo \subseteq work[t].todo
    BY <1>0, <2>1, WentOn
  <2>4. OwnSound(t)'
    BY <2>2, <2>3 DEF OwnSound
  <2>5. SnapshotTaken
    BY <2>1, <2>2 DEF AddSnapshot, SnapshotTaken
  <2> QED BY <1>0, <2>1, <2>4, <2>5, TablesKept DEF SourceWritten
<1>5. ASSUME GoTo(t, "candidate", {}) PROVE OwnSound(t)'
  <2>1. thread'[t].act = "extract" /\ thread'[t].at = "candidate"
    BY <1>0, <1>5, WentOn
  <2> QED BY <2>1 DEF OwnSound, FetchPlaces
<1>6. CASE CandidatesListed(t)
  BY <1>1, <1>5, <1>6 DEF CandidatesListed, found, known, history
<1>7. CASE CandidateDone(t)
  <2>1. thread'[t].act = "extract" /\ thread'[t].at = "candidate"
        /\ UNCHANGED <<source, snaps, evidence, examined>>
    BY <1>7 DEF CandidateDone, At, taskVars, found, known, history
  <2> QED BY <1>1, <2>1 DEF OwnSound, FetchPlaces
<1>8. ASSUME NEW p \in {"ask", "store"}, GoTo(t, p, {}), work[t].todo # {}, work'[t].todo = work[t].todo
      PROVE  OwnSound(t)'
  <2>1. thread'[t].act = "extract" /\ thread'[t].at = p
    BY <1>0, <1>8, WentOn
  <2> QED BY <1>8, <2>1 DEF OwnSound, FetchPlaces
<1>9. CASE Counted(t)
  <2>1. GoTo(t, "ask", {}) /\ work[t].todo # {} /\ work' = [work EXCEPT ![t].llm = @ + 1]
        /\ UNCHANGED <<source, snaps, evidence, examined>>
    BY <1>9 DEF Counted, found, known, history
  <2>2. work'[t].todo = work[t].todo
    BY <1>0, <2>1 DEF Typed, AttemptsTyped
  <2> QED BY <1>1, <1>8, <2>1, <2>2
<1>10. CASE Extracted(t)
  <2>1. GoTo(t, "store", {}) /\ thread[t].at = "ask" /\ Learn(t, snaps[Item(t).at].text)
        /\ UNCHANGED <<source, snaps, evidence, examined>>
    BY <1>10 DEF Extracted, At, found, known
  <2>2. work[t].todo # {} /\ work'[t].todo = work[t].todo
    BY <1>0, <2>1, WentOn DEF OwnSound
  <2> QED BY <1>1, <1>8, <2>1, <2>2
<1>11. CASE NothingExtracted(t)
  BY <1>1, <1>5, <1>11 DEF NothingExtracted, found, known
<1>12. CASE BadAnswer(t)
  BY <1>0, <1>1, <1>12, StopSound DEF BadAnswer, found, known
<1>13. CASE ExtractEnd(t)
  BY <1>0, <1>1, <1>13, StopSound DEF ExtractEnd, found, known, history
<1>14. CASE Stored(t)
  <2> DEFINE n == Item(t).at
  <2>1. GoTo(t, "candidate", {}) /\ UNCHANGED <<source, snaps>> /\ examined' = examined \union {n}
        /\ (UNCHANGED evidence \/ \E s, v, at : evidence' = Append(evidence, Quoted(s, n, v, at)))
    BY <1>14 DEF Stored, found
  <2>2. CASE UNCHANGED evidence
    BY <1>1, <1>5, <2>1, <2>2
  <2>3. ASSUME NEW s, NEW v, NEW at, evidence' = Append(evidence, Quoted(s, n, v, at)) PROVE TablesSound'
    <3> DEFINE x == Quoted(s, n, v, at)
    <3>0. x.snap = n
      BY DEF Quoted
    <3> HIDE DEF x, n
    <3>1. IsSeq(evidence) /\ evidence' = Append(evidence, x)
      BY <1>0, <2>3 DEF Typed, TablesTyped, x
    <3>2. /\ DOMAIN evidence' = DOMAIN evidence \union {Len(evidence) + 1}
          /\ evidence'[Len(evidence) + 1] = x
          /\ \A i \in DOMAIN evidence : evidence'[i] = evidence[i]
      BY <3>1, Appended
    <3>3. EvidenceExamined'
      BY <1>0, <2>1, <3>0, <3>2 DEF TablesSound, EvidenceExamined, Examined
    <3>4. ASSUME NEW e \in DOMAIN events
          PROVE  events'[e].first \in DOMAIN evidence' /\ Detected(events'[e], evidence')
      <4>1. events[e].first \in DOMAIN evidence /\ Detected(events[e], evidence)
        BY <1>0 DEF TablesSound
      <4>2. Candidate(evidence', events[e].first) = Candidate(evidence, events[e].first)
        <5> DEFINE S == {evidence[i] : i \in DOMAIN evidence} \union {x}
        <5>1. evidence \in Seq(S) /\ x \in S
          BY <3>1 DEF IsSeq
        <5> HIDE DEF S
        <5> QED BY <3>1, <4>1, <5>1, DetectionIsStable
      <4> QED BY <1>0, <3>2, <4>1, <4>2 DEF Detected
    <3> QED BY <1>0, <2>1, <3>3, <3>4 DEF TablesSound
  <2> QED BY <1>5, <2>1, <2>2, <2>3
<1> QED BY <1>2, <1>3, <1>4, <1>6, <1>7, <1>9, <1>10, <1>11, <1>12, <1>13, <1>14 DEF ExtractSteps

(* Where no attempt outlives its activity, what the awaited update has read   *)
(* stays what is open: only its own kind of attempt is at work.               *)
LEMMA ReadingKept ==
    ASSUME Typed, InCycle, InStep, NEW t \in Threads, Moves(t), InCycle',
           UpdateSteps(t) \/ thread[t].act # "update"
    PROVE  InStep'
<1>1. SUFFICES ASSUME ~Overlap
               PROVE  /\ task'.act \notin {"none", "context"} =>
                           \A u \in Threads : thread'[u].act \in {"none", task'.act}
                      /\ \A u \in Threads : On(u, "update", Reading)' => thread'[u].read = Backed(OpenEvents)'
  BY DEF InStep
<1>2. task'.act = task.act /\ (task.by # t => task' = task)
      /\ (task.by = t => task'.by = t \/ task'.by \in {"queue", "done", "failed"})
  BY DEF Moves, Goes, Stops
<1>3. \A u \in Threads : thread'[u].act \in {"none", thread[u].act}
  BY DEF Moves, OthersStay, Goes, Stops, Idle
<1>4. task'.act \notin {"none", "context"} => \A u \in Threads : thread'[u].act \in {"none", task'.act}
  BY <1>1, <1>2, <1>3 DEF InStep
<1>5. ASSUME NEW u \in Threads, On(u, "update", Reading)' PROVE thread'[u].read = Backed(OpenEvents)'
  <2>1. task'.by = u /\ thread'[u].act = "update" /\ thread'[u].at \in Reading /\ task'.act = "update"
    BY <1>5 DEF On, InCycle
  <2>2. thread[t].act = "update"
    BY <1>1, <1>2, <2>1 DEF InStep, Moves
  <2>3. UpdateSteps(t) /\ Backed(OpenEvents)' = Backed(OpenEvents)
    BY <2>2 DEF UpdateSteps, NothingOpen, UpdateBegin, Synthesized, SynthesisSaved, Decided, known, Backed, OpenEvents
  <2>4. CASE u # t
    <3>1. thread'[u] = thread[u] /\ task' = task
      BY <1>2, <2>1, <2>4, Places DEF Moves, OthersStay
    <3>2. On(u, "update", Reading)
      BY <2>1, <3>1 DEF On
    <3> QED BY <1>1, <2>3, <3>1, <3>2 DEF InStep
  <2>5. CASE u = t
    <3>0. task.by = t
      BY <1>2, <2>1, <2>5
    <3>1. CASE \E p : GoTo(t, p, Backed(OpenEvents))
      <4>1. thread'[t].read = Backed(OpenEvents)
        BY <3>1, GoToFields DEF Typed
      <4> QED BY <2>3, <2>5, <4>1
    <3>2. CASE (Synthesized(t) \/ SynthesisSaved(t)) /\ \E p : GoTo(t, p, thread[t].read)
      <4>1. On(t, "update", Reading)
        BY <3>0, <3>2 DEF Synthesized, SynthesisSaved, At, On, Reading
      <4>2. thread'[t].read = thread[t].read
        BY <3>2, GoToFields DEF Typed
      <4> QED BY <1>1, <2>3, <2>5, <4>1, <4>2 DEF InStep
    <3>3. CASE Return(t) \/ Raise(t)
      BY <2>1, <2>5, <3>3, StopFields DEF Idle, Typed
    <3> QED BY <2>3, <3>1, <3>2, <3>3
        DEF UpdateSteps, NothingOpen, UpdateBegin, Synthesized, SynthesisSaved, Decided, Answer
  <2> QED BY <2>4, <2>5
<1> QED BY <1>1, <1>4, <1>5

(* The parts that hold whatever is given up go through every step of an       *)
(* attempt.                                                                   *)
Firm == Typed /\ InCycle /\ Sound /\ InStep

LEMMA AttemptFirm ==
    ASSUME Firm, NEW t \in Threads, Activity(t)
    PROVE  Firm' /\ Moves(t) /\ Rooted(t)
<1>1. Basis /\ Sound /\ Typed /\ InCycle /\ SnapshotsOfSources /\ EventsDetected
  BY DEF Firm, Basis, Sound
<1>2. Moves(t) /\ Rooted(t) /\ OwnSound(t)' /\ TablesSound'
  <2>1. CASE ContextSteps(t)
    BY <1>1, <2>1, ContextMoves, ContextRooted, ContextSound
  <2>2. CASE RecheckSteps(t)
    BY <1>1, <2>2, RecheckMoves, RecheckRooted, RecheckSound
  <2>3. CASE FetchSteps(t)
    BY <1>1, <2>3, FetchMoves, FetchRooted, FetchSound
  <2>4. CASE SearchSteps(t)
    BY <1>1, <2>4, SearchMoves, SearchRooted, SearchSound
  <2>5. CASE ExtractSteps(t)
    BY <1>1, <2>5, ExtractMoves, ExtractRooted, ExtractSound
  <2>6. CASE DetectSteps(t)
    BY <1>1, <2>6, DetectMoves, DetectRooted, DetectSound
  <2>7. CASE UpdateSteps(t)
    BY <1>1, <2>7, UpdateMoves, UpdateRooted, UpdateSound
  <2> QED BY <2>1, <2>2, <2>3, <2>4, <2>5, <2>6, <2>7, ActivityKinds
<1>3. Typed'
  BY <1>1, <1>2, MovesTyped DEF Typed, Rooted
<1>4. InCycle'
  BY <1>1, <1>2, MovesInCycle DEF Typed, Rooted
<1>5. Sound'
  BY <1>1, <1>2, OthersSound DEF Rooted
<1>6. InStep'
  <2>1. UpdateSteps(t) \/ thread[t].act # "update"
    <3>1. ContextSteps(t) => thread[t].act = "context"
      BY DEF ContextSteps, ContextBegin, AddTarget, ContextEnd, At
    <3>2. RecheckSteps(t) => thread[t].act = "recheck"
      BY DEF RecheckSteps, RecheckBegin, Rechecked, RecheckEnd, At
    <3>3. FetchSteps(t) => thread[t].act \in {"recheck", "extract"}
      BY DEF FetchSteps, PageFetched, Unreadable, FileUnchanged, FileSaved, FileParsed, FileRecorded, Fetching, At
    <3>4. SearchSteps(t) => thread[t].act = "search"
      BY DEF SearchSteps, SearchBegin, SourceAdded, SourceThere, SourceMarked, SearchDone, SearchEnd, At
    <3>5. ExtractSteps(t) => thread[t].act = "extract"
      BY DEF ExtractSteps, ExtractBegin, FetchedRow, Fetched, CandidatesListed,
          CandidateDone, Counted, Extracted, NothingExtracted, BadAnswer, Stored, ExtractEnd, At
    <3>6. DetectSteps(t) => thread[t].act = "detect"
      BY DEF DetectSteps, DetectBegin, EventFolded, EventNew, EventInserted, EventLinked, DetectEnd, Detecting, At
    <3> QED BY <3>1, <3>2, <3>3, <3>4, <3>5, <3>6, ActivityKinds
  <2> QED BY <1>1, <1>2, <1>4, <2>1, ReadingKept DEF Firm
<1> QED BY <1>2, <1>3, <1>4, <1>5, <1>6 DEF Firm

-----------------------------------------------------------------------------
(* The steps of workflow, service and owner. *)

LEMMA EventApplied == ASSUME NEW x, IsEvent(x)
    PROVE  LET y == [x EXCEPT !.status = "applied"] IN
           IsEvent(y) /\ y.links = x.links /\ y.first = x.first /\ y.type = x.type /\ y.conf = x.conf
BY DEF IsEvent

LEMMA EventsApplied ==
    ASSUME TablesTyped, NEW es, Apply(es) \/ UNCHANGED events
    PROVE  /\ IsSeq(events') /\ Len(events') = Len(events) /\ DOMAIN events' = DOMAIN events
           /\ \A d \in DOMAIN events :
                /\ IsEvent(events'[d]) /\ events'[d].links = events[d].links
                /\ events'[d].first = events[d].first /\ events'[d].type = events[d].type
                /\ events'[d].conf = events[d].conf
<1>1. IsSeq(events) /\ \A d \in DOMAIN events : IsEvent(events[d])
  BY DEF TablesTyped
<1>2. CASE UNCHANGED events
  BY <1>1, <1>2
<1>3. CASE Apply(es)
  <2>1. /\ DOMAIN events' = DOMAIN events /\ events' = [d \in DOMAIN events |-> events'[d]]
        /\ \A d \in DOMAIN events :
             events'[d] = IF d \in es THEN [events[d] EXCEPT !.status = "applied"] ELSE events[d]
    BY <1>3 DEF Apply
  <2>2. IsSeq(events') /\ Len(events') = Len(events)
    BY ONLY <1>1, <2>1, Replaced
  <2>3. ASSUME NEW d \in DOMAIN events
        PROVE  /\ IsEvent(events'[d]) /\ events'[d].links = events[d].links
               /\ events'[d].first = events[d].first /\ events'[d].type = events[d].type
               /\ events'[d].conf = events[d].conf
    <3> DEFINE x == events[d]
               y == [x EXCEPT !.status = "applied"]
    <3>1. (events'[d] = IF d \in es THEN y ELSE x) /\ IsEvent(x)
      BY <1>1, <2>1
    <3> HIDE DEF x
    <3>2. IsEvent(y) /\ y.links = x.links /\ y.first = x.first /\ y.type = x.type /\ y.conf = x.conf
      BY ONLY <3>1, EventApplied
    <3> HIDE DEF y
    <3> QED BY ONLY <3>1, <3>2 DEF x
  <2> QED BY ONLY <2>1, <2>2, <2>3
<1> QED BY <1>2, <1>3

(* What these steps do to the tables: events may be applied. *)
Outside ==
    /\ UNCHANGED <<source, targets, snaps, evidence, calls, examined>>
    /\ IsSeq(events') /\ Len(events') = Len(events) /\ DOMAIN events' = DOMAIN events
    /\ \A d \in DOMAIN events :
         /\ IsEvent(events'[d]) /\ events'[d].links = events[d].links
         /\ events'[d].first = events[d].first /\ events'[d].type = events[d].type
         /\ events'[d].conf = events[d].conf

Elsewhere == Workflow \/ BeginCycle \/ Approved \/ Delivery \/ Service \/ UNCHANGED vars

LEMMA ElsewhereOutside == ASSUME TablesTyped, Elsewhere PROVE Outside
<1>1. UNCHANGED <<source, targets, snaps, evidence, calls, examined>>
  BY DEF Elsewhere, Workflow, Advance, EndCycle, BeginCycle, Approved, Delivery, Service, vars, found, known, history
<1>2. UNCHANGED events \/ \E es : Apply(es)
  BY DEF Elsewhere, Workflow, Advance, EndCycle, BeginCycle, Approved, Delivery, Service, vars, known
<1> QED BY <1>1, <1>2, EventsApplied DEF Outside

LEMMA OutsideSound == ASSUME TablesSound, Outside PROVE TablesSound'
BY DEF Outside, TablesSound, EvidenceExamined, Examined, Detected

LEMMA RunOf == ASSUME Typed, run > 0 PROVE run \in Cycles /\ run \in Nat
BY DEF Typed, TablesTyped, Cycles

LEMMA AdvanceFirm == ASSUME Firm, Advance PROVE Firm'
<1>1. Outside
  BY ElsewhereOutside DEF Firm, Typed, Elsewhere, Workflow
<1>2. /\ task.by = "done" /\ task.act \in DOMAIN Follows /\ task' = Queued(Follows[task.act], Attempts)
      /\ beat' = NoBeat /\ UNCHANGED <<thread, timeouts, losses, run, rows, work, events>>
      /\ Overlap \/ \A t \in Threads : thread[t] = Idle
  BY DEF Advance, known, cycle
<1>3. Typed'
  BY <1>1, <1>2 DEF Firm, Typed, TablesTyped, AttemptsTyped, Outside, Queued, NoBeat
<1>4. InCycle'
  <2>1. run > 0 /\ rows[run].status = "running" /\ task'.act # "none" /\ task'.by = "queue"
    BY <1>2 DEF Firm, InCycle, Awaited, Queued, Follows
  <2> QED BY <1>2, <2>1, Places DEF Firm, InCycle, Awaited
<1>5. Sound'
  BY <1>1, <1>2, SoundParts, OutsideSound DEF Firm, Sound, AtItem, TextsThere, SnapshotsOfSources,
      EventsDetected, TablesSound, Outside
<1>6. InStep'
  BY <1>2, Places DEF InStep, On, Idle, Queued
<1> QED BY <1>3, <1>4, <1>5, <1>6 DEF Firm

LEMMA EndCycleFirm == ASSUME Firm, EndCycle PROVE Firm'
<1>1. Outside
  BY ElsewhereOutside DEF Firm, Typed, Elsewhere, Workflow
<1>2. /\ run > 0 /\ UNCHANGED <<task, thread, timeouts, run, beat, work>>
      /\ task.by \in {"done", "failed", "rejected"} /\ (task.by = "done" => task.act = "update")
      /\ \E st \in {"completed", "failed"} : rows' = [rows EXCEPT ![run].status = st]
  BY DEF EndCycle, taskVars
<1>3. PICK st \in {"completed", "failed"} : rows' = [rows EXCEPT ![run].status = st]
  BY <1>2
<1>4. rows' \in RunRows
  BY <1>3 DEF RunRows, Firm, Typed, TablesTyped
<1>5. Typed'
  BY <1>1, <1>2, <1>4 DEF Firm, Typed, TablesTyped, AttemptsTyped, Outside, RunRows
<1>6. ~Awaited'
  BY <1>2, ThreadsAssumption DEF Awaited, Follows
<1>7. InCycle'
  BY <1>2, <1>6 DEF Firm, InCycle
<1>8. Sound'
  BY <1>1, <1>2, SoundParts, OutsideSound DEF Firm, Sound, AtItem, TextsThere, SnapshotsOfSources,
      EventsDetected, TablesSound, Outside
<1>9. InStep'
  <2>1. \A t \in Threads : ~On(t, "update", Reading)'
    BY <1>2, ThreadsAssumption DEF On
  <2> QED BY <1>2, <2>1 DEF InStep, Firm
<1> QED BY <1>5, <1>7, <1>8, <1>9 DEF Firm

LEMMA ApprovedFirm == ASSUME Firm, Approved PROVE Firm'
<1>1. Outside
  BY ElsewhereOutside DEF Firm, Typed, Elsewhere
<1>2. UNCHANGED <<task, thread, timeouts, run, rows, beat, work>> /\ rows[run].status = "completed"
  BY DEF Approved, taskVars, cycle
<1>3. Typed'
  BY <1>1, <1>2 DEF Firm, Typed, TablesTyped, AttemptsTyped, Outside
<1>4. InCycle'
  BY <1>2 DEF Firm, InCycle, Awaited
<1>5. Sound'
  BY <1>1, <1>2, SoundParts, OutsideSound DEF Firm, Sound, AtItem, TextsThere, SnapshotsOfSources,
      EventsDetected, TablesSound, Outside
<1>6. InStep'
  <2>1. \A t \in Threads : task.by # t
    BY <1>2 DEF Firm, InCycle, Awaited
  <2> QED BY <1>2, <2>1 DEF InStep, Firm, On
<1> QED BY <1>3, <1>4, <1>5, <1>6 DEF Firm

LEMMA BeginCycleFirm == ASSUME Firm, BeginCycle PROVE Firm'
<1>1. Outside
  BY ElsewhereOutside DEF Firm, Typed, Elsewhere
<1>2. /\ run < MaxCycles /\ run' = run + 1 /\ rows' = [rows EXCEPT ![run + 1] = Running]
      /\ task' = Queued("context", Attempts) /\ beat' = NoBeat
      /\ UNCHANGED <<thread, timeouts, work, events>>
  BY DEF BeginCycle, known
<1>3. run \in 0..MaxCycles /\ MaxCycles \in Nat
  BY LimitsAssumption DEF Firm, Typed, TablesTyped
<1>4. run' \in Cycles /\ run' \in 0..MaxCycles /\ run' > 0
  BY <1>2, <1>3 DEF Cycles
<1>5. rows' \in RunRows /\ rows'[run'].status = "running"
  <2>1. Running \in [status : {"none", "running", "completed", "failed"}, stage : Stages, llm : Nat]
    BY DEF Running, Stages
  <2>2. rows \in RunRows
    BY DEF Firm, Typed, TablesTyped, RunRows
  <2>3. Running.status = "running"
    BY DEF Running
  <2> HIDE DEF Running
  <2> QED BY <1>2, <1>4, <2>1, <2>2, <2>3 DEF RunRows
<1>6. Typed'
  BY <1>1, <1>2, <1>4, <1>5 DEF Firm, Typed, TablesTyped, AttemptsTyped, Outside, RunRows, Queued, NoBeat
<1>7. InCycle'
  BY <1>2, <1>4, <1>5, Places DEF InCycle, Queued
<1>8. Sound'
  BY <1>1, <1>2, SoundParts, OutsideSound DEF Firm, Sound, AtItem, TextsThere, SnapshotsOfSources,
      EventsDetected, TablesSound, Outside
<1>9. InStep'
  BY <1>2, Places DEF InStep, On, Queued
<1> QED BY <1>6, <1>7, <1>8, <1>9 DEF Firm

LEMMA GivenUpFields ==
    ASSUME AttemptsTyped
    PROVE  /\ GivenUp.act = task.act /\ GivenUp.by \in {"queue", "failed"}
           /\ GivenUp = [act |-> GivenUp.act, left |-> GivenUp.left, by |-> GivenUp.by]
<1>1. task = [act |-> task.act, left |-> task.left, by |-> task.by]
  BY DEF AttemptsTyped
<1> QED BY <1>1 DEF GivenUp

LEMMA DeliveryFields ==
    ASSUME AttemptsTyped, Delivery
    PROVE  \E t \in Threads :
             /\ task.by = "queue" /\ thread[t] = Idle
             /\ thread'[t] = [act |-> task.act, at |-> "start", read |-> {}]
             /\ DOMAIN thread' = Threads /\ \A u \in Threads \ {t} : thread'[u] = thread[u]
             /\ task' = [act |-> task.act, left |-> task.left, by |-> t]
             /\ UNCHANGED <<timeouts, source, targets, snaps, evidence, events, run, rows, before, beat, work,
                            calls, examined>>
<1>1. PICK t \in Threads : Pick(t)
  BY DEF Delivery
<1>2. task = [act |-> task.act, left |-> task.left, by |-> task.by] /\ DOMAIN thread = Threads
  BY DEF AttemptsTyped
<1>3. task' = [act |-> task.act, left |-> task.left, by |-> t]
  BY <1>1, <1>2 DEF Pick
<1>4. /\ thread'[t] = [act |-> task.act, at |-> "start", read |-> {}]
      /\ DOMAIN thread' = Threads /\ \A u \in Threads \ {t} : thread'[u] = thread[u]
  BY <1>1, <1>2 DEF Pick, Idle
<1> QED BY <1>1, <1>3, <1>4 DEF Pick, Delivery, found, known, cycle, history

LEMMA DeliveryFirm == ASSUME Firm, Delivery PROVE Firm'
<1>1. Outside
  BY ElsewhereOutside DEF Firm, Typed, Elsewhere
<1>2. PICK t \in Threads :
        /\ task.by = "queue" /\ thread[t] = Idle
        /\ thread'[t] = [act |-> task.act, at |-> "start", read |-> {}]
        /\ DOMAIN thread' = Threads /\ \A u \in Threads \ {t} : thread'[u] = thread[u]
        /\ task' = [act |-> task.act, left |-> task.left, by |-> t]
        /\ UNCHANGED <<timeouts, source, targets, snaps, evidence, events, run, rows, before, beat, work,
                       calls, examined>>
  BY DeliveryFields DEF Firm, Typed
<1>3. Typed'
  BY <1>1, <1>2 DEF Firm, Typed, TablesTyped, AttemptsTyped, Outside
<1>4. task.act # "none" /\ run > 0 /\ rows[run].status = "running"
  BY <1>2 DEF Firm, InCycle, Awaited
<1>5. InCycle'
  BY <1>2, <1>4 DEF Firm, InCycle, Awaited
<1>6. Sound'
  <2>1. \A u \in Threads : OwnSound(u)
    BY SoundParts DEF Firm
  <2>2. OwnSound(t)'
    BY <1>2 DEF OwnSound, FetchPlaces
  <2>3. \A u \in Threads \ {t} : OwnSound(u)'
    BY <1>2, <2>1 DEF OwnSound
  <2>4. TablesSound'
    BY <1>1, SoundParts, OutsideSound DEF Firm
  <2> QED BY <2>2, <2>3, <2>4 DEF Sound, AtItem, TextsThere, SnapshotsOfSources, EventsDetected, TablesSound, OwnSound
<1>7. InStep'
  <2>1. \A u \in Threads : ~On(u, "update", Reading)'
    BY <1>2 DEF On, Reading
  <2>2. task'.act = task.act /\ \A u \in Threads : thread'[u].act \in {thread[u].act, task.act}
    BY <1>2
  <2> QED BY <2>1, <2>2 DEF InStep, Firm
<1> QED BY <1>3, <1>5, <1>6, <1>7 DEF Firm

LEMMA ServiceFields ==
    ASSUME AttemptsTyped, Service
    PROVE  /\ DOMAIN thread' = Threads /\ DOMAIN work' = Threads
           /\ \A t \in Threads : /\ thread'[t] = thread[t] \/ thread'[t] = Idle
                                 /\ work'[t] = IF thread'[t] = Idle THEN NoWork ELSE work[t]
           /\ task' = task \/ task' = GivenUp
           /\ \A t \in Threads : task'.by = t => task.by = t /\ thread'[t] = thread[t]
           /\ timeouts' \in Nat
           /\ beat'.index \in Nat /\ beat' = [phase |-> beat'.phase, index |-> beat'.index]
           /\ beat' = beat \/ beat' \in EarlierBeats
           /\ UNCHANGED <<run, rows, before, source, targets, snaps, evidence, events, calls, examined>>
<1>1. timeouts \in Nat /\ DOMAIN thread = Threads
      /\ beat.index \in Nat /\ beat = [phase |-> beat.phase, index |-> beat.index]
  BY DEF AttemptsTyped
<1>2. /\ DOMAIN thread' = Threads /\ timeouts' \in Nat
      /\ \A t \in Threads : thread'[t] = thread[t] \/ thread'[t] = Idle
      /\ task' = task \/ task' = GivenUp
      /\ \A t \in Threads : task'.by = t => task.by = t /\ thread'[t] = thread[t]
  <2>1. CASE TimeOut
    BY <1>1, <2>1, GivenUpFields, Places DEF TimeOut
  <2>2. ASSUME NEW u \in Threads, Fault(u)
        PROVE  /\ DOMAIN thread' = Threads /\ timeouts' \in Nat
               /\ \A t \in Threads : thread'[t] = thread[t] \/ thread'[t] = Idle
               /\ task' = task \/ task' = GivenUp
               /\ \A t \in Threads : task'.by = t => task.by = t /\ thread'[t] = thread[t]
    <3>1. /\ DOMAIN thread' = Threads /\ thread'[u] = Idle /\ \A t \in Threads \ {u} : thread'[t] = thread[t]
          /\ timeouts' = timeouts /\ task' = IF task.by = u THEN GivenUp ELSE task
      BY <1>1, <2>2 DEF Fault
    <3> QED BY <1>1, <3>1, GivenUpFields, Places
  <2> QED BY <2>1, <2>2 DEF Service
<1>3. work' = [t \in Threads |-> IF thread'[t] = Idle THEN NoWork ELSE work[t]]
      /\ beat' \in EarlierBeats \union {beat}
      /\ UNCHANGED <<run, rows, before, source, targets, snaps, evidence, events, calls, examined>>
  BY DEF Service, found, known, cycle, history
<1>4. \A b \in EarlierBeats \union {beat} : b.index \in Nat /\ b = [phase |-> b.phase, index |-> b.index]
  <2>1. ASSUME NEW b, b \in {beat, NoBeat} PROVE b.index \in Nat /\ b = [phase |-> b.phase, index |-> b.index]
    BY <1>1, <2>1 DEF NoBeat
  <2>2. ASSUME NEW k \in 1..beat.index
        PROVE  LET b == [beat EXCEPT !.index = k] IN b.index \in Nat /\ b = [phase |-> b.phase, index |-> b.index]
    BY <1>1
  <2>3. ASSUME NEW s \in Sources
        PROVE  LET b == [phase |-> "fetch", index |-> s] IN b.index \in Nat /\ b = [phase |-> b.phase, index |-> b.index]
    BY LimitsAssumption DEF Sources
  <2> QED BY <2>1, <2>2, <2>3 DEF EarlierBeats
<1> QED BY <1>2, <1>3, <1>4

LEMMA ServiceFirm == ASSUME Firm, Service PROVE Firm'
<1>1. Outside
  BY ElsewhereOutside DEF Firm, Typed, Elsewhere
<1>2. /\ DOMAIN thread' = Threads /\ DOMAIN work' = Threads
      /\ \A t \in Threads : /\ thread'[t] = thread[t] \/ thread'[t] = Idle
                            /\ work'[t] = IF thread'[t] = Idle THEN NoWork ELSE work[t]
      /\ task' = task \/ task' = GivenUp
      /\ \A t \in Threads : task'.by = t => task.by = t /\ thread'[t] = thread[t]
      /\ timeouts' \in Nat
      /\ beat'.index \in Nat /\ beat' = [phase |-> beat'.phase, index |-> beat'.index]
      /\ UNCHANGED <<run, rows, source, targets, snaps, evidence, events, calls, examined>>
  BY ServiceFields DEF Firm, Typed
<1>3. /\ GivenUp.act = task.act /\ GivenUp.by \in {"queue", "failed"}
      /\ GivenUp = [act |-> GivenUp.act, left |-> GivenUp.left, by |-> GivenUp.by]
  BY GivenUpFields DEF Firm, Typed
<1>4. /\ task'.act = task.act /\ task' = [act |-> task'.act, left |-> task'.left, by |-> task'.by]
      /\ task'.by \in Threads \union {"queue", "done", "failed"}
  BY <1>2, <1>3 DEF Firm, Typed, AttemptsTyped
<1>5. \A t \in Threads : ThreadRow(t)' /\ WorkRow(t)'
  <2>1. ASSUME NEW t \in Threads PROVE ThreadRow(t)' /\ WorkRow(t)'
    <3>1. ThreadRow(t) /\ WorkRow(t)
      BY DEF Firm, Typed, AttemptsTyped, ThreadRow, WorkRow
    <3>2. ThreadRow(t)'
      BY <1>2, <3>1 DEF ThreadRow, Idle
    <3>3. work'[t] = NoWork \/ work'[t] = work[t]
      BY <1>2
    <3> QED BY <3>1, <3>2, <3>3 DEF WorkRow, NoWork
  <2> QED BY <2>1
<1>6. Typed'
  BY <1>1, <1>2, <1>4, <1>5 DEF Firm, Typed, TablesTyped, AttemptsTyped, ThreadRow, WorkRow, Outside
<1>7. InCycle'
  <2>1. Awaited' => Awaited
    <3>1. TimeOut => task.by \in Threads
      BY DEF TimeOut
    <3>2. \A t \in Threads : Fault(t) => task' = task \/ task.by = t
      BY DEF Fault
    <3> QED BY <1>4, <3>1, <3>2 DEF Awaited, Service
  <2> QED BY <1>2, <1>4, <2>1 DEF Firm, InCycle, Idle
<1>8. Sound'
  <2>1. \A u \in Threads : OwnSound(u)
    BY SoundParts DEF Firm
  <2>2. ASSUME NEW u \in Threads PROVE OwnSound(u)'
    <3>1. CASE thread'[u] = Idle
      BY <3>1, IdleSound
    <3>2. CASE thread'[u] # Idle
      BY <1>2, <2>1, <3>2 DEF OwnSound
    <3> QED BY <3>1, <3>2
  <2>3. TablesSound'
    BY <1>1, SoundParts, OutsideSound DEF Firm
  <2> QED BY <2>2, <2>3 DEF Sound, AtItem, TextsThere, SnapshotsOfSources, EventsDetected, TablesSound, OwnSound
<1>9. InStep'
  <2>1. ASSUME NEW u \in Threads, On(u, "update", Reading)'
        PROVE  On(u, "update", Reading) /\ thread'[u].read = thread[u].read
    BY <1>2, <2>1 DEF On
  <2>2. Backed(OpenEvents)' = Backed(OpenEvents)
    BY <1>2 DEF Backed, OpenEvents
  <2>3. \A u \in Threads : thread'[u].act \in {thread[u].act, "none"}
    BY <1>2 DEF Idle
  <2> QED BY <1>4, <2>1, <2>2, <2>3 DEF InStep, Firm
<1> QED BY <1>6, <1>7, <1>8, <1>9 DEF Firm

LEMMA StutterFirm == ASSUME Firm, UNCHANGED vars PROVE Firm'
BY DEF vars, taskVars, Firm, Typed, TablesTyped, AttemptsTyped, InCycle, Awaited, Sound, AtItem, TextsThere,
    SnapshotsOfSources, EvidenceExamined, Examined, EventsDetected, Detected, InStep, On, Backed, OpenEvents

-----------------------------------------------------------------------------
(* While no attempt was given up. *)

(* The attempt that makes a step is the awaited one. *)
LEMMA OneAtWork ==
    ASSUME Firm, Alone, NEW t \in Threads, Moves(t)
    PROVE  /\ task.by = t /\ task.act = thread[t].act /\ task'.act = task.act /\ run > 0 /\ run \in Cycles
           /\ \A u \in Threads : task'.by = u => u = t /\ Goes(t) /\ thread'[t].act = task.act
<1>1. task.by = t /\ task.act = thread[t].act /\ run > 0 /\ run \in Cycles
  BY RunOf DEF Alone, Moves, Firm, InCycle
<1>2. task'.act = task.act
  BY DEF Moves, Goes, Stops
<1>3. ASSUME NEW u \in Threads, task'.by = u PROVE u = t /\ Goes(t) /\ thread'[t].act = task.act
  <2>1. ~Stops(t)
    BY <1>1, <1>3, Places DEF Stops
  <2> QED BY <1>1, <1>3, <2>1 DEF Moves, Goes
<1> QED BY <1>1, <1>2, <1>3

(* Stages: a step that does not end its activity leaves the stage, ...         *)
LEMMA StageStays ==
    ASSUME StageOf, UNCHANGED run, task'.act = task.act, task.by # "done", task'.by # "done",
           rows'[run].stage = rows[run].stage
    PROVE  StageOf'
BY DEF StageOf, Done

(* ... and the end sets it.                                                   *)
LEMMA StageSet ==
    ASSUME Firm, Alone, OwnRun, NEW t \in Threads, Moves(t), thread[t].at # "start"
    PROVE  /\ \A s \in Stages : SetStage(work[t].run, s) =>
                rows'[run].stage = s /\ rows'[run].llm = rows[run].llm
           /\ \A n \in Nat : rows' = [rows EXCEPT ![work[t].run].llm = n] =>
                rows'[run].stage = rows[run].stage /\ rows'[run].llm = n
           /\ \A s \in Stages, n \in Nat : rows' = [rows EXCEPT ![work[t].run].stage = s, ![work[t].run].llm = n] =>
                rows'[run].stage = s /\ rows'[run].llm = n
           /\ \A s \in Stages : rows' = [rows EXCEPT ![work[t].run].stage = s, ![work[t].run].llm = @ + 1] =>
                rows'[run].stage = s /\ rows'[run].llm = rows[run].llm + 1
<1>1. work[t].run = run /\ run \in Cycles /\ rows \in RunRows
  BY OneAtWork DEF OwnRun, Firm, Typed, TablesTyped, RunRows
<1>2. \A stage, llm : RowBecomes(run, stage, llm) => rows'[run].stage = stage /\ rows'[run].llm = llm
  BY <1>1 DEF RowBecomes
<1> QED BY <1>1, <1>2, RowSteps

LEMMA Unended ==
    ASSUME Firm, Alone, NEW t \in Threads, Moves(t)
    PROVE  /\ task.by # "done"
           /\ (\E p, rd : GoTo(t, p, rd)) => task'.by # "done"
           /\ Raise(t) \/ Fault(t) => task'.by # "done"
           /\ UNCHANGED task => task'.by # "done"
<1>1. task.by = t
  BY OneAtWork
<1>2. Raise(t) \/ Fault(t) => task'.by # "done"
  BY <1>1, GivenUpFields DEF Raise, Fault, Firm, Typed
<1> QED BY <1>1, <1>2, Places DEF GoTo

LEMMA StageStep ==
    ASSUME Firm, Alone, OwnRun, StageOf, NEW t \in Threads, Activity(t), Moves(t)
    PROVE  StageOf'
<1>0. UNCHANGED run
  BY AttemptFirm DEF Rooted
<1>1. task.act = thread[t].act /\ task'.act = task.act /\ run > 0 /\ task.by # "done"
  BY OneAtWork, Unended
<1>2. ASSUME UNCHANGED rows, (\E p, rd : GoTo(t, p, rd)) \/ Raise(t) \/ Fault(t) \/ UNCHANGED task
      PROVE  StageOf'
  BY <1>0, <1>1, <1>2, StageStays, Unended
<1>3. ASSUME NEW s \in Stages, SetStage(work[t].run, s), Return(t), thread[t].at # "start",
             \/ task.act = "context" /\ s = "delta_plan_created"
             \/ task.act = "recheck" /\ s = "recheck_sources"
             \/ task.act = "search" /\ s = "search_sources"
             \/ task.act = "detect" /\ s = "detect_changes"
             \/ task.act = "update" /\ s = "decision"
      PROVE  StageOf'
  <2>1. rows'[run].stage = s
    BY <1>3, StageSet
  <2>2. task'.by = "done"
    BY <1>3, StopFields, OneAtWork DEF Firm, Typed
  <2> QED BY <1>0, <1>1, <1>3, <2>1, <2>2, Places DEF StageOf, Done
<1>4. CASE ContextSteps(t)
  <2>1. CASE ContextEnd(t)
    BY <1>1, <1>3, <2>1 DEF ContextEnd, At, Stages
  <2> QED BY <1>2, <1>4, <2>1 DEF ContextSteps, ContextBegin, AddTarget, cycle
<1>5. CASE RecheckSteps(t)
  <2>1. CASE RecheckEnd(t)
    BY <1>1, <1>3, <2>1 DEF RecheckEnd, At, Stages
  <2> QED BY <1>2, <1>5, <2>1 DEF RecheckSteps, RecheckBegin, Rechecked, Proceed, cycle
<1>6. CASE FetchSteps(t)
  BY <1>2, <1>6 DEF FetchSteps, PageFetched, Unreadable, FileUnchanged, FileSaved, FileParsed, FileRecorded,
      Proceed, cycle
<1>7. CASE SearchSteps(t)
  <2>1. CASE SearchEnd(t)
    BY <1>1, <1>3, <2>1 DEF SearchEnd, At, Stages
  <2> QED BY <1>2, <1>7, <2>1 DEF SearchSteps, SearchBegin, SourceAdded, SourceThere, SourceMarked, SearchDone,
      Proceed, cycle
<1>8. CASE ExtractSteps(t)
  <2>1. CASE ExtractEnd(t)
    <3>1. /\ rows' = [rows EXCEPT ![work[t].run].stage = "extract_evidence", ![work[t].run].llm = work[t].llm]
          /\ Return(t) /\ thread[t].act = "extract" /\ thread[t].at # "start"
          /\ work[t].llm \in Nat /\ "extract_evidence" \in Stages
      BY <2>1 DEF ExtractEnd, At, Stages, Firm, Typed, AttemptsTyped
    <3>2. rows'[run].stage = "extract_evidence"
      BY <3>1, StageSet
    <3>3. task'.by = "done"
      BY <3>1, StopFields, OneAtWork DEF Firm, Typed
    <3> QED BY <1>0, <1>1, <3>1, <3>2, <3>3, Places DEF StageOf, Done
  <2>2. CASE Counted(t)
    <3>1. /\ rows' = [rows EXCEPT ![work[t].run].llm = work[t].llm + 1] /\ GoTo(t, "ask", {})
          /\ work[t].llm + 1 \in Nat /\ thread[t].at # "start"
      BY <2>2 DEF Counted, At, Firm, Typed, AttemptsTyped
    <3>2. rows'[run].stage = rows[run].stage
      BY <3>1, StageSet
    <3> QED BY <1>0, <1>1, <3>1, <3>2, StageStays, Unended
  <2> QED BY <1>2, <1>8, <2>1, <2>2 DEF ExtractSteps, ExtractBegin, FetchedRow, Fetched, CandidatesListed,
      CandidateDone, Extracted, NothingExtracted, BadAnswer, Stored, Proceed, cycle, taskVars
<1>9. CASE DetectSteps(t)
  <2>1. CASE DetectEnd(t)
    BY <1>1, <1>3, <2>1 DEF DetectEnd, At, Stages
  <2> QED BY <1>2, <1>9, <2>1 DEF DetectSteps, DetectBegin, EventFolded, EventNew, EventInserted, EventLinked, cycle
<1>10. CASE UpdateSteps(t)
  <2>1. CASE Decided(t)
    BY <1>1, <1>3, <2>1 DEF Decided, Answer, At, Stages
  <2>2. CASE SynthesisSaved(t)
    <3>1. /\ rows' = [rows EXCEPT ![work[t].run].stage = "claims_synthesized", ![work[t].run].llm = @ + 1]
          /\ thread[t].act = "update" /\ thread[t].at # "start" /\ "claims_synthesized" \in Stages
      BY <2>2 DEF SynthesisSaved, At, Stages
    <3>2. rows'[run].stage = "claims_synthesized"
      BY <3>1, StageSet
    <3> QED BY <1>0, <1>1, <3>1, <3>2 DEF StageOf
  <2>3. CASE NothingOpen(t)
    <3>1. UNCHANGED rows /\ task.act = "update"
      BY <1>1, <2>3 DEF NothingOpen, At
    <3> QED BY <1>0, <1>1, <3>1 DEF StageOf
  <2> QED BY <1>2, <1>10, <2>1, <2>2, <2>3 DEF UpdateSteps, UpdateBegin, Synthesized, cycle
<1> QED BY <1>4, <1>5, <1>6, <1>7, <1>8, <1>9, <1>10, ActivityKinds

(* Which attempt makes which steps. *)
LEMMA ActOfStep ==
    ASSUME NEW t \in Threads
    PROVE  /\ ContextSteps(t) => thread[t].act = "context"
           /\ RecheckSteps(t) => thread[t].act = "recheck"
           /\ FetchSteps(t) => thread[t].act \in {"recheck", "extract"}
           /\ SearchSteps(t) => thread[t].act = "search"
           /\ ExtractSteps(t) => thread[t].act = "extract"
           /\ DetectSteps(t) => thread[t].act = "detect"
           /\ UpdateSteps(t) => thread[t].act = "update"
<1>1. ContextSteps(t) => thread[t].act = "context"
  BY DEF ContextSteps, ContextBegin, AddTarget, ContextEnd, At
<1>2. RecheckSteps(t) => thread[t].act = "recheck"
  BY DEF RecheckSteps, RecheckBegin, Rechecked, RecheckEnd, At
<1>3. FetchSteps(t) => thread[t].act \in {"recheck", "extract"}
  BY DEF FetchSteps, PageFetched, Unreadable, FileUnchanged, FileSaved, FileParsed, FileRecorded, Fetching, At
<1>4. SearchSteps(t) => thread[t].act = "search"
  BY DEF SearchSteps, SearchBegin, SourceAdded, SourceThere, SourceMarked, SearchDone, SearchEnd, At
<1>5. ExtractSteps(t) => thread[t].act = "extract"
  BY DEF ExtractSteps, ExtractBegin, FetchedRow, Fetched, CandidatesListed,
      CandidateDone, Counted, Extracted, NothingExtracted, BadAnswer, Stored, ExtractEnd, At
<1>6. DetectSteps(t) => thread[t].act = "detect"
  BY DEF DetectSteps, DetectBegin, EventFolded, EventNew, EventInserted, EventLinked, DetectEnd, Detecting, At
<1>7. UpdateSteps(t) => thread[t].act = "update"
  BY DEF UpdateSteps, NothingOpen, UpdateBegin, Synthesized, SynthesisSaved, Decided, At
<1> QED BY <1>1, <1>2, <1>3, <1>4, <1>5, <1>6, <1>7

(* The number of calls: what a step must not do to it. *)
LEMMA CountKept ==
    ASSUME Firm, Alone, Counting, NEW t \in Threads, Moves(t), UNCHANGED run,
           \A r \in Cycles \ {run} : calls'[r] = calls[r],
           calls'[run] <= rows'[run].llm, rows'[run].llm \in Nat, calls'[run] \in Nat,
           task.act # "update" => rows'[run].llm <= MaxLlm,
           calls'[run] <= MaxLlm,
           thread[t].act = "extract" /\ Goes(t) =>
             /\ work'[t].llm = rows'[run].llm
             /\ thread'[t].at = "ask" => calls'[run] < rows'[run].llm
    PROVE  Counting'
<1>1. /\ task.act = thread[t].act /\ task'.act = task.act /\ run > 0 /\ run \in Cycles
      /\ \A u \in Threads : task'.by = u => u = t /\ Goes(t) /\ thread'[t].act = task.act
  BY OneAtWork
<1>2. \A r \in Cycles : calls'[r] <= MaxLlm /\ (r > run' => calls'[r] = 0)
  <2>1. ASSUME NEW r \in Cycles PROVE calls'[r] <= MaxLlm /\ (r > run' => calls'[r] = 0)
    <3>1. CASE r = run
      <4>1. ~(r > run')
        BY <1>1, <3>1 DEF Cycles
      <4> QED BY <3>1, <4>1
    <3>2. CASE r # run
      BY <2>1, <3>2 DEF Counting
    <3> QED BY <3>1, <3>2
  <2> QED BY <2>1
<1>3. \A u \in Threads :
        task'.by = u /\ thread'[u].act = "extract" /\ thread'[u].at # "start" =>
          /\ work'[u].llm = rows'[run'].llm
          /\ thread'[u].at = "ask" => calls'[run'] < rows'[run'].llm
  BY <1>1
<1>4. task'.act \in {"context", "recheck", "search", "extract"} => rows'[run'].llm <= MaxLlm
  BY <1>1
<1> QED BY <1>2, <1>3, <1>4 DEF Counting

(* A step that neither calls the model nor changes what was counted. *)
LEMMA CountSame ==
    ASSUME Firm, Alone, OwnRun, StageOf, Counting, NEW t \in Threads, Moves(t), UNCHANGED <<run, calls>>,
           rows'[run].llm = rows[run].llm,
           thread[t].act = "extract" /\ Goes(t) => work'[t].llm = rows[run].llm /\ thread'[t].at # "ask"
    PROVE  Counting'
<1>1. /\ task.act = thread[t].act /\ run > 0 /\ run \in Cycles
  BY OneAtWork
<1>2. calls[run] <= rows[run].llm /\ rows[run].llm \in Nat /\ calls[run] \in Nat /\ calls[run] <= MaxLlm
  BY <1>1 DEF Counting, Firm, Typed, TablesTyped
<1>3. task.act \notin {"detect", "update"} => rows[run].llm <= MaxLlm
  BY <1>1, Places DEF Counting, StageOf
<1>4. task.act = "detect" => Counting'
  <2> SUFFICES ASSUME task.act = "detect" PROVE Counting'
    OBVIOUS
  <2>1. /\ task'.act = task.act
        /\ \A u \in Threads : task'.by = u => u = t /\ Goes(t) /\ thread'[t].act = task.act
    BY OneAtWork
  <2> QED BY <1>1, <1>2, <2>1 DEF Counting
<1>5. task.act # "detect" => Counting'
  BY <1>1, <1>2, <1>3, CountKept
<1> QED BY <1>4, <1>5

LEMMA CountStep ==
    ASSUME Firm, Alone, OwnRun, StageOf, Counting, NEW t \in Threads, Activity(t)
    PROVE  Counting'
<1>0. Moves(t) /\ UNCHANGED run /\ Typed
  BY AttemptFirm DEF Rooted, Firm
<1>1. task.by = t /\ task.act = thread[t].act /\ task'.act = task.act /\ run > 0 /\ run \in Cycles
  BY <1>0, OneAtWork
<1>2. CASE ContextSteps(t) \/ RecheckSteps(t) \/ SearchSteps(t) \/ DetectSteps(t)
  <2>1. UNCHANGED calls
    BY <1>2 DEF ContextSteps, ContextBegin, AddTarget, ContextEnd, RecheckSteps, RecheckBegin, Rechecked, RecheckEnd,
        SearchSteps, SearchBegin, SourceAdded, SourceThere, SourceMarked, SearchDone, SearchEnd,
        DetectSteps, DetectBegin, EventFolded, EventNew, EventInserted, EventLinked, DetectEnd, history
  <2>2. UNCHANGED rows \/ \E s \in Stages : SetStage(work[t].run, s) /\ thread[t].at # "start"
    BY <1>2 DEF ContextSteps, ContextBegin, AddTarget, ContextEnd, RecheckSteps, RecheckBegin, Rechecked, RecheckEnd,
        SearchSteps, SearchBegin, SourceAdded, SourceThere, SourceMarked, SearchDone, SearchEnd,
        DetectSteps, DetectBegin, EventFolded, EventNew, EventInserted, EventLinked, DetectEnd, cycle, Stages, At
  <2>3. rows'[run].llm = rows[run].llm
    BY <1>0, <2>2, StageSet
  <2> QED BY <1>0, <1>2, <2>1, <2>3, CountSame, ActOfStep
<1>3. CASE FetchSteps(t)
  <2>1. UNCHANGED calls /\ UNCHANGED rows
    BY <1>3 DEF FetchSteps, PageFetched, Unreadable, FileUnchanged, FileSaved, FileParsed, FileRecorded, cycle, history
  <2>2. work'[t].llm = work[t].llm /\ thread'[t].at # "ask"
    <3>1. ASSUME NEW p \in {"item", "page", "file", "parsed"}, NEW rd, GoTo(t, p, rd),
                 UNCHANGED work \/ NextItem(t) \/ \E v : Learn(t, v)
          PROVE  work'[t].llm = work[t].llm /\ thread'[t].at # "ask"
      BY <1>0, <3>1, WentOn
    <3> QED BY <1>3, <3>1 DEF FetchSteps, PageFetched, Unreadable, FileUnchanged, FileSaved, FileParsed, FileRecorded,
        Proceed
  <2>3. thread[t].act = "extract" => work[t].llm = rows[run].llm
    BY <1>1, <1>3 DEF Counting, FetchSteps, PageFetched, Unreadable, FileUnchanged, FileSaved, FileParsed, FileRecorded,
        Fetching, At
  <2> QED BY <1>0, <2>1, <2>2, <2>3, CountSame
<1>4. CASE UpdateSteps(t)
  <2>1. UNCHANGED calls /\ thread[t].act = "update" /\ calls \in [Cycles -> Nat] /\ rows[run].llm \in Nat
    BY <1>1, <1>4, ActOfStep DEF UpdateSteps, NothingOpen, UpdateBegin, Synthesized, SynthesisSaved, Decided, history,
        Typed, TablesTyped, Firm
  <2>2. rows'[run].llm \in {rows[run].llm, rows[run].llm + 1}
    <3>1. CASE UNCHANGED rows
      BY <3>1
    <3>2. CASE Decided(t)
      BY <1>0, <3>2, StageSet DEF Decided, At, Stages
    <3>3. CASE SynthesisSaved(t)
      BY <1>0, <3>3, StageSet DEF SynthesisSaved, At, Stages
    <3> QED BY <1>4, <3>1, <3>2, <3>3 DEF UpdateSteps, NothingOpen, UpdateBegin, Synthesized, cycle
  <2>3. calls[run] <= rows[run].llm /\ calls[run] <= MaxLlm
    BY <1>1 DEF Counting
  <2> QED BY <1>0, <1>1, <2>1, <2>2, <2>3, CountKept
<1>5. CASE ExtractSteps(t)
  <2>0. calls \in [Cycles -> Nat] /\ rows[run].llm \in Nat /\ calls[run] \in Nat
        /\ calls[run] <= rows[run].llm /\ calls[run] <= MaxLlm /\ thread[t].act = "extract"
        /\ rows[run].llm <= MaxLlm /\ MaxLlm \in Nat
    <3>1. calls \in [Cycles -> Nat] /\ rows[run].llm \in Nat /\ MaxLlm \in Nat
      BY <1>0, <1>1, LimitsAssumption DEF Typed, TablesTyped
    <3>2. thread[t].act = "extract" /\ task.act = "extract"
      BY <1>1, <1>5, ActOfStep
    <3> QED BY <1>1, <3>1, <3>2 DEF Counting
  <2>1. thread[t].at # "start" => work[t].llm = rows[run].llm /\ work[t].run = run
    BY <1>1, <2>0 DEF Counting, OwnRun
  <2>2. ASSUME UNCHANGED <<rows, calls>>, work'[t].llm = rows[run].llm, thread'[t].at # "ask" PROVE Counting'
    BY <1>0, <2>2, CountSame
  <2>3. CASE ExtractBegin(t)
    <3>1. /\ work'[t].llm = rows[run].llm /\ UNCHANGED <<rows, calls>> /\ GoTo(t, "item", {})
      BY <1>0, <2>3 DEF ExtractBegin, cycle, history, NoWork, Typed, AttemptsTyped
    <3> QED BY <1>0, <2>2, <3>1, WentOn
  <2>4. ASSUME UNCHANGED <<rows, calls>>, NEW p \in {"row", "item", "candidate"}, NEW rd, GoTo(t, p, rd),
               thread[t].at # "start", UNCHANGED work \/ NextItem(t)
        PROVE  Counting'
    BY <1>0, <2>1, <2>2, <2>4, WentOn
  <2>5. CASE FetchedRow(t) \/ Fetched(t) \/ Stored(t)
    BY <2>4, <2>5 DEF FetchedRow, Fetched, Stored, Proceed, At, cycle, history
  <2>6. CASE CandidatesListed(t)
    <3>1. PICK es : work' = [work EXCEPT ![t].todo = es]
      BY <2>6 DEF CandidatesListed
    <3>2. work'[t].llm = work[t].llm
      BY <1>0, <3>1 DEF Typed, AttemptsTyped
    <3>3. UNCHANGED <<rows, calls>> /\ GoTo(t, "candidate", {}) /\ thread[t].at # "start"
      BY <2>6 DEF CandidatesListed, At, cycle, history
    <3> QED BY <1>0, <2>1, <2>2, <3>2, <3>3, WentOn
  <2>7. CASE CandidateDone(t)
    <3>1. NextItem(t) /\ UNCHANGED <<rows, calls, thread>> /\ thread[t].at = "candidate"
      BY <2>7 DEF CandidateDone, At, cycle, history, taskVars
    <3>2. work'[t].llm = work[t].llm
      BY <1>0, <3>1 DEF NextItem, Typed, AttemptsTyped
    <3> QED BY <2>1, <2>2, <3>1, <3>2
  <2>8. CASE Counted(t)
    <3>1. /\ rows' = [rows EXCEPT ![work[t].run].llm = work[t].llm + 1] /\ GoTo(t, "ask", {})
          /\ work' = [work EXCEPT ![t].llm = @ + 1] /\ thread[t].at # "start" /\ work[t].llm < MaxLlm
          /\ UNCHANGED calls
      BY <2>8 DEF Counted, At, history
    <3>2. work'[t].llm = work[t].llm + 1 /\ work[t].llm + 1 \in Nat
      BY <1>0, <3>1 DEF Typed, AttemptsTyped
    <3>3. rows'[run].llm = work[t].llm + 1
      BY <1>0, <3>1, <3>2, StageSet
    <3> QED BY <1>0, <1>1, <2>0, <2>1, <3>1, <3>2, <3>3, CountKept
  <2>9. CASE Called(t) /\ UNCHANGED rows /\ thread[t].at = "ask" /\
             (\/ /\ \E rd : \E p \in {"store", "candidate"} : GoTo(t, p, rd)
                 /\ NextItem(t) \/ \E v : Learn(t, v)
              \/ Fault(t))
    <3>1. calls[run] < rows[run].llm
      BY <1>1, <2>0, <2>9 DEF Counting
    <3>2. \A r \in Cycles : calls'[r] = IF r = run THEN calls[r] + 1 ELSE calls[r]
      <4>1. Basis
        BY DEF Firm, Basis, Sound
      <4> QED BY <2>1, <2>9, <4>1, CallCounted
    <3>3. calls'[run] = calls[run] + 1
      BY <1>1, <3>2
    <3>4. Goes(t) => work'[t].llm = rows[run].llm /\ thread'[t].at # "ask"
      <4>1. CASE Fault(t)
        BY <1>0, <1>1, <4>1, StopFields DEF Goes, Idle, Typed
      <4>2. ASSUME NEW p \in {"store", "candidate"}, NEW rd, GoTo(t, p, rd), NextItem(t) \/ \E v : Learn(t, v)
            PROVE  work'[t].llm = rows[run].llm /\ thread'[t].at # "ask"
        BY <1>0, <2>1, <2>9, <4>2, WentOn
      <4> QED BY <2>9, <4>1, <4>2
    <3> QED BY <1>0, <1>1, <2>0, <2>9, <3>1, <3>2, <3>3, <3>4, CountKept
  <2>10. CASE Extracted(t) \/ NothingExtracted(t) \/ BadAnswer(t)
    BY <2>9, <2>10 DEF Extracted, NothingExtracted, BadAnswer, At, cycle
  <2>11. CASE ExtractEnd(t)
    <3>1. /\ rows' = [rows EXCEPT ![work[t].run].stage = "extract_evidence", ![work[t].run].llm = work[t].llm]
          /\ Return(t) /\ thread[t].at # "start" /\ UNCHANGED calls
          /\ work[t].llm \in Nat /\ "extract_evidence" \in Stages
      BY <2>11 DEF ExtractEnd, At, Stages, Firm, Typed, AttemptsTyped, history
    <3>2. rows'[run].llm = rows[run].llm
      BY <1>0, <2>1, <3>1, StageSet
    <3>3. ~Goes(t)
      BY <1>0, <3>1, StopFields DEF Goes, Idle, Typed
    <3> QED BY <1>0, <3>1, <3>2, <3>3, CountSame
  <2> QED BY <1>5, <2>3, <2>5, <2>6, <2>7, <2>8, <2>10, <2>11 DEF ExtractSteps
<1> QED BY <1>2, <1>3, <1>4, <1>5, ActivityKinds

(* Rechecking.  The step leaves, or makes, a snapshot of source s with text v. *)
SnappedNext(s, v) ==
    \E n \in DOMAIN snaps' : snaps'[n].run = run' /\ snaps'[n].source = s /\ snaps'[n].text = v

LEMMA SnappedStays ==
    ASSUME Grows(snaps, snaps'), UNCHANGED run, NEW s, NEW v, Snapped(s, v)
    PROVE  SnappedNext(s, v)
BY DEF Grows, Snapped, SnapsOf, SnappedNext

LEMMA SnappedNow ==
    ASSUME Typed, UNCHANGED run, NEW t \in Threads, work[t].run = run, NEW s, NEW v, NEW how,
           AddSnapshot(t, s, v, how)
    PROVE  SnappedNext(s, v) /\ Grows(snaps, snaps')
<1> DEFINE x == [run |-> work[t].run, source |-> s, text |-> v, how |-> how]
           n == Len(snaps) + 1
<1>1. snaps' = Append(snaps, x) /\ IsSeq(snaps)
  BY DEF AddSnapshot, Typed, TablesTyped
<1>2. x.run = run /\ x.source = s /\ x.text = v
  OBVIOUS
<1> HIDE DEF x
<1>3. n \in DOMAIN snaps' /\ snaps'[n] = x /\ Grows(snaps, snaps')
  BY <1>1, Appended DEF Grows
<1> QED BY <1>2, <1>3 DEF SnappedNext

(* What is watched stays so through steps that change sources only after their *)
(* snapshot.                                                                   *)
LEMMA WatchKept ==
    ASSUME Watching, task'.act = task.act, task.act # "context", UNCHANGED <<run, before, targets>>,
           Grows(snaps, snaps'),
           \A s \in targets : \/ source'[s] = source[s]
                              \/ /\ source'[s].status = "fetched"
                                 /\ task.act \in {"recheck", "search"} => SnappedNext(s, source'[s].value)
    PROVE  Watching'
<1>1. \A s \in targets : source'[s].status = "fetched"
  BY DEF Watching
<1>2. ASSUME task.act \in {"recheck", "search"}, NEW s \in targets PROVE Kept(s)'
  <2>1. CASE source'[s] = source[s]
    <3>1. Kept(s)
      BY <1>2 DEF Watching
    <3>2. source[s].value # before[s].value => SnappedNext(s, source[s].value)
      BY <3>1, SnappedStays DEF Kept
    <3> QED BY <2>1, <3>2 DEF Kept, Snapped, SnapsOf, SnappedNext
  <2>2. CASE source'[s] # source[s]
    <3>1. SnappedNext(s, source'[s].value)
      BY <1>2, <2>2
    <3> QED BY <3>1 DEF Kept, Snapped, SnapsOf, SnappedNext
  <2> QED BY <2>1, <2>2
<1> QED BY <1>1, <1>2 DEF Watching

LEMMA ContextWatch ==
    ASSUME Firm, Alone, Watching, NEW t \in Threads, ContextSteps(t)
    PROVE  Watching'
<1>0. Moves(t) /\ UNCHANGED run /\ Typed
  BY AttemptFirm, ActivityKinds DEF Rooted, Firm
<1>1. task.by = t /\ task.act = "context" /\ task'.act = "context"
      /\ \A u \in Threads : task'.by = u => u = t
  BY <1>0, OneAtWork, ActOfStep
<1>2. UNCHANGED <<source, before, snaps>> /\ source = before
  BY <1>1 DEF Watching, ContextSteps, ContextBegin, AddTarget, ContextEnd, found, cycle
<1> DEFINE fetched == {s \in Sources : source[s].status = "fetched"}
<1>3. targets' \subseteq targets \union fetched /\ (On(t, "context", {"choose"})' => thread'[t].read \subseteq fetched)
  <2>1. CASE ContextBegin(t)
    <3>1. PICK rd \in SUBSET fetched : GoTo(t, "choose", rd)
      BY <2>1, SourcesAssumption DEF ContextBegin
    <3> QED BY <1>0, <2>1, <3>1, WentOn DEF ContextBegin, found
  <2>2. CASE AddTarget(t)
    <3>1. thread[t].read \subseteq fetched
      BY <1>1, <2>2 DEF AddTarget, At, Watching, On
    <3>2. PICK s \in thread[t].read : targets' = targets \union {s} /\ GoTo(t, "choose", thread[t].read \ {s})
      BY <2>2 DEF AddTarget
    <3> QED BY <1>0, <3>1, <3>2, WentOn
  <2>3. CASE ContextEnd(t)
    <3>1. thread'[t] = Idle /\ UNCHANGED targets
      BY <1>0, <2>3, StopFields DEF ContextEnd, found, Typed
    <3> QED BY <3>1 DEF On, Idle
  <2> QED BY <2>1, <2>2, <2>3 DEF ContextSteps
<1>4. \A s \in targets' : source'[s].status = "fetched" /\ Kept(s)'
  BY <1>2, <1>3 DEF Watching, Kept
<1>5. \A u \in Threads : On(u, "context", {"choose"})' => u = t
  BY <1>1 DEF On
<1> QED BY <1>1, <1>2, <1>3, <1>4, <1>5 DEF Watching

LEMMA SearchWatch ==
    ASSUME Firm, Alone, Watching, NEW t \in Threads, SearchSteps(t)
    PROVE  Watching'
<1>0. Moves(t) /\ UNCHANGED run /\ Typed /\ Grows(snaps, snaps')
  BY AttemptFirm, ActivityKinds DEF Rooted, Firm
<1>1. task.act = "search" /\ task'.act = "search"
  BY <1>0, OneAtWork, ActOfStep
<1>2. UNCHANGED <<before, targets>>
  BY DEF SearchSteps, SearchBegin, SourceAdded, SourceThere, SourceMarked, SearchDone, SearchEnd, found, cycle
<1>3. \A s \in targets : source'[s] = source[s]
  <2>1. CASE SourceAdded(t)
    <3>1. PICK r \in NextNew : SetSource(r, "searched", "none")
      BY <2>1 DEF SourceAdded
    <3>2. r \notin targets
      BY DEF Watching, NextNew
    <3> QED BY <1>0, <3>1, <3>2 DEF SetSource, Typed, TablesTyped
  <2> QED BY <2>1 DEF SearchSteps, SearchBegin, SourceThere, SourceMarked, SearchDone, SearchEnd, found
<1> QED BY <1>0, <1>1, <1>2, <1>3, WatchKept

LEMMA LaterWatch ==
    ASSUME Firm, Alone, Watching, NEW t \in Threads, DetectSteps(t) \/ UpdateSteps(t)
    PROVE  Watching'
<1>0. Moves(t) /\ UNCHANGED run /\ Typed /\ Grows(snaps, snaps')
  BY AttemptFirm, ActivityKinds DEF Rooted, Firm
<1>1. task.act \in {"detect", "update"} /\ task'.act = task.act
  BY <1>0, OneAtWork, ActOfStep
<1>2. UNCHANGED <<before, targets, source>>
  BY DEF DetectSteps, DetectBegin, EventFolded, EventNew, EventInserted, EventLinked, DetectEnd,
      UpdateSteps, NothingOpen, UpdateBegin, Synthesized, SynthesisSaved, Decided, found, cycle
<1> QED BY <1>0, <1>1, <1>2, WatchKept

LEMMA SourceSet ==
    ASSUME Typed, NEW r, NEW st, NEW v, SetSource(r, st, v)
    PROVE  \A s \in Sources : /\ s # r => source'[s] = source[s]
                              /\ s = r => source'[s].status = st /\ source'[s].value = v
BY DEF SetSource, Typed, TablesTyped

(* The steps of an attempt that rechecks. *)
LEMMA RecheckVacuous ==
    ASSUME Firm, Alone, NEW t \in Threads, Moves(t),
           thread[t].act # "recheck" \/ ~Goes(t)
    PROVE  Rechecking'
BY OneAtWork DEF Rechecking, On

LEMMA RecheckOn ==
    ASSUME Firm, Alone, NEW t \in Threads, Moves(t), RecheckingOn(t)'
    PROVE  Rechecking'
BY OneAtWork DEF Rechecking, On

(* An attempt that goes on at its item, or to the next. *)
LEMMA RecheckHere ==
    ASSUME Firm, Alone, NEW t \in Threads, Moves(t), RecheckingOn(t), work'[t].todo = work[t].todo,
           UNCHANGED <<source, targets>>,
           thread'[t].at = "row" /\ work'[t].val # Item(t).base => SnappedNext(Source(t), work'[t].val),
           thread'[t].at = "parsed" => SnappedNext(Source(t), work'[t].val)
    PROVE  Rechecking'
<1>1. Item(t)' = Item(t) /\ Source(t)' = Source(t)
  BY DEF Item, Source
<1>2. RecheckingOn(t)'
  BY <1>1 DEF RecheckingOn, Snapped, SnapsOf, SnappedNext
<1> QED BY <1>2, RecheckOn

LEMMA RecheckNext ==
    ASSUME Firm, Alone, NEW t \in Threads, Moves(t), RecheckingOn(t), work[t].todo # {},
           work'[t].todo = work[t].todo \ {Item(t)}, thread'[t].at = "item", UNCHANGED targets,
           \A s \in targets \ {Source(t)} : source'[s] = source[s]
    PROVE  Rechecking'
<1>1. Item(t) \in work[t].todo
  BY ItemIsFirst DEF Firm, Typed
<1>2. RecheckingOn(t)'
  BY <1>1 DEF RecheckingOn, Source
<1> QED BY <1>2, RecheckOn

LEMMA RecheckStep ==
    ASSUME Firm, Alone, OwnRun, Watching, Rechecking, NEW t \in Threads, task.act = "recheck",
           RecheckSteps(t) \/ FetchSteps(t)
    PROVE  Rechecking' /\ Watching'
<1>0. Moves(t) /\ UNCHANGED run /\ Typed /\ Grows(snaps, snaps') /\ Sound
  BY AttemptFirm, ActivityKinds DEF Rooted, Firm
<1>1. task.by = t /\ thread[t].act = "recheck" /\ task'.act = "recheck"
  BY <1>0, OneAtWork
<1>2. UNCHANGED <<before, targets>> /\ targets \subseteq Sources /\ DOMAIN source = Sources
  BY <1>0 DEF Typed, TablesTyped, RecheckSteps, RecheckBegin, Rechecked, RecheckEnd, FetchSteps, PageFetched, Unreadable,
      FileUnchanged, FileSaved, FileParsed, FileRecorded, found, cycle
<1>3. UNCHANGED source => Watching'
  BY <1>0, <1>1, <1>2, WatchKept
<1>4. ASSUME thread[t].at \in FetchPlaces
      PROVE  RecheckingOn(t) /\ work[t].run = run
  BY <1>1, <1>4 DEF Rechecking, On, OwnRun, FetchPlaces
<1>5. ASSUME thread[t].at \in FetchPlaces, work[t].todo # {}
      PROVE  Item(t) \in work[t].todo /\ Source(t) \in targets /\ Item(t).base = source[Source(t)].value
             /\ source[Source(t)].status = "fetched" /\ Item(t).base \in Values
  BY <1>0, <1>2, <1>4, <1>5, ItemIsFirst DEF RecheckingOn, Source, Watching, Sound, TextsThere, Typed
<1>6. CASE RecheckBegin(t)
  <2> DEFINE es == {Entry(s, source[s].value, Place(s, targets)) : s \in targets}
  <2>1. /\ Enter(t, Remaining(es, beat, "recheck")) /\ GoTo(t, "item", {}) /\ UNCHANGED source
    BY <1>6 DEF RecheckBegin, found
  <2>2. work'[t].todo = Remaining(es, beat, "recheck") /\ thread'[t].at = "item"
    BY <1>0, <2>1, WentOn
  <2>3. /\ \A x \in es : x.at \in targets /\ x.base = source[x.at].value
        /\ \A x, y \in es : x.at = y.at => x = y
    <3>1. \A x \in es : x.at \in targets /\ x = Entry(x.at, source[x.at].value, Place(x.at, targets))
                        /\ x.base = source[x.at].value
      BY DEF Entry
    <3> HIDE DEF es
    <3> QED BY <3>1
  <2>4. Remaining(es, beat, "recheck") \subseteq es
    BY DEF Remaining
  <2> HIDE DEF es
  <2>5. RecheckingOn(t)'
    BY <1>2, <2>1, <2>2, <2>3, <2>4 DEF RecheckingOn
  <2> QED BY <1>0, <1>3, <2>1, <2>5, RecheckOn
<1>7. CASE RecheckEnd(t)
  <2>1. ~Goes(t) /\ UNCHANGED source
    BY <1>0, <1>7, StopFields DEF RecheckEnd, Goes, Idle, Typed, found
  <2> QED BY <1>0, <1>3, <2>1, RecheckVacuous
<1>8. CASE Rechecked(t) /\ At(t, "recheck", "page")
  <2>1. thread[t].at = "page" /\ SnapshotOf(t) /\ GoTo(t, "row", {}) /\ UNCHANGED <<source, work>>
    BY <1>8 DEF Rechecked, At
  <2>2. work[t].todo # {} /\ thread[t].at \in FetchPlaces
    BY <1>0, <2>1 DEF Sound, AtItem, FetchPlaces
  <2>3. Item(t).base # "none"
    BY <1>5, <2>2, ValuesAssumption
  <2>4. work[t].val # Item(t).base => SnappedNext(Source(t), work[t].val)
    <3>1. ASSUME work[t].val # Item(t).base PROVE SnappedNext(Source(t), work[t].val)
      <4>1. AddSnapshot(t, Source(t), work[t].val, "recheck")
        BY <2>1, <2>3, <3>1 DEF SnapshotOf, Changed
      <4> QED BY <1>0, <1>4, <2>2, <4>1, SnappedNow
    <3> QED BY <3>1
  <2>5. thread'[t].at = "row" /\ work'[t] = work[t]
    BY <1>0, <2>1, WentOn
  <2> QED BY <1>0, <1>2, <1>3, <1>4, <2>1, <2>2, <2>4, <2>5, RecheckHere
<1>9. CASE Rechecked(t) /\ At(t, "recheck", "row")
  <2>1. thread[t].at = "row" /\ RowOf(t) /\ NextItem(t) /\ GoTo(t, "item", thread[t].read)
    BY <1>9 DEF Rechecked, Proceed, At
  <2>2. work[t].todo # {} /\ thread[t].at \in FetchPlaces
    BY <1>0, <2>1 DEF Sound, AtItem, FetchPlaces
  <2>3. thread'[t].at = "item" /\ work'[t].todo = work[t].todo \ {Item(t)}
    BY <1>0, <2>1, WentOn
  <2>4. \A s \in targets : \/ source'[s] = source[s]
                           \/ /\ s = Source(t) /\ source'[s].status = "fetched"
                              /\ source'[s].value = work[t].val /\ work[t].val # Item(t).base
    <3>1. CASE work[t].val # Item(t).base
      <4>1. SetSource(Source(t), "fetched", work[t].val)
        BY <2>1, <3>1 DEF RowOf
      <4> QED BY <1>0, <1>2, <3>1, <4>1, SourceSet
    <3>2. CASE work[t].val = Item(t).base
      BY <2>1, <3>2 DEF RowOf
    <3> QED BY <3>1, <3>2
  <2>5. work[t].val # Item(t).base => SnappedNext(Source(t), work[t].val)
    BY <1>0, <1>4, <2>1, <2>2, SnappedStays DEF RecheckingOn
  <2>6. Watching'
    BY <1>0, <1>1, <1>2, <2>4, <2>5, WatchKept
  <2> QED BY <1>0, <1>2, <1>4, <2>2, <2>3, <2>4, <2>6, RecheckNext
<1>10. CASE FetchSteps(t)
  <2>0. thread[t].at \in FetchPlaces /\ work[t].todo # {} /\ RecheckingOn(t)
    BY <1>0, <1>4, <1>10 DEF FetchSteps, PageFetched, Unreadable, FileUnchanged, FileSaved, FileParsed, FileRecorded, Fetching, At,
        Sound, AtItem, FetchPlaces
  <2>1. CASE PageFetched(t) \/ FileSaved(t)
    <3>1. PICK p \in {"page", "file"} : (\E v : Learn(t, v)) /\ GoTo(t, p, {}) /\ UNCHANGED source
      BY <2>1 DEF PageFetched, FileSaved, found
    <3>2. work'[t].todo = work[t].todo /\ thread'[t].at \notin {"row", "parsed"}
      BY <1>0, <3>1, WentOn
    <3> QED BY <1>0, <1>2, <1>3, <2>0, <3>1, <3>2, RecheckHere
  <2>2. CASE FileParsed(t)
    <3>1. /\ AddSnapshot(t, Source(t), work[t].val, "asset") /\ GoTo(t, "parsed", {})
          /\ UNCHANGED <<source, work>>
      BY <2>2 DEF FileParsed
    <3>2. work'[t] = work[t] /\ thread'[t].at = "parsed"
      BY <1>0, <3>1, WentOn
    <3>3. SnappedNext(Source(t), work[t].val)
      BY <1>0, <1>4, <2>0, <3>1, SnappedNow
    <3> QED BY <1>0, <1>2, <1>3, <2>0, <3>1, <3>2, <3>3, RecheckHere
  <2>3. CASE Unreadable(t) \/ FileUnchanged(t)
    <3>1. NextItem(t) /\ GoTo(t, "item", thread[t].read) /\ UNCHANGED source
      BY <1>1, <2>3 DEF Unreadable, FileUnchanged, Proceed
    <3>2. thread'[t].at = "item" /\ work'[t].todo = work[t].todo \ {Item(t)}
      BY <1>0, <3>1, WentOn
    <3> QED BY <1>0, <1>2, <1>3, <2>0, <3>1, <3>2, RecheckNext
  <2>4. CASE FileRecorded(t)
    <3>1. NextItem(t) /\ GoTo(t, "item", thread[t].read) /\ thread[t].at = "parsed"
          /\ SetSource(Source(t), "fetched", work[t].val)
      BY <2>4 DEF FileRecorded, Proceed, At
    <3>2. thread'[t].at = "item" /\ work'[t].todo = work[t].todo \ {Item(t)}
      BY <1>0, <3>1, WentOn
    <3>3. \A s \in targets : \/ source'[s] = source[s]
                             \/ s = Source(t) /\ source'[s].status = "fetched" /\ source'[s].value = work[t].val
      BY <1>0, <1>2, <3>1, SourceSet
    <3>4. SnappedNext(Source(t), work[t].val)
      BY <1>0, <2>0, <3>1, SnappedStays DEF RecheckingOn
    <3>5. Watching'
      BY <1>0, <1>1, <1>2, <3>3, <3>4, WatchKept
    <3> QED BY <1>0, <1>2, <2>0, <3>2, <3>3, <3>5, RecheckNext
  <2> QED BY <1>10, <2>1, <2>2, <2>3, <2>4 DEF FetchSteps
<1> QED BY <1>6, <1>7, <1>8, <1>9, <1>10 DEF RecheckSteps, Rechecked

-----------------------------------------------------------------------------
(* Extraction. *)

LEMMA LastSame ==
    ASSUME UNCHANGED <<run, snaps, source>>
    PROVE  LastOf(run)' = LastOf(run) /\ \A n : PlaceOf(n)' = PlaceOf(n)
<1>1. LastOf(run)' = LastOf(run)
  BY DEF LastOf, WithText, SnapsOf
<1> QED BY <1>1 DEF PlaceOf

(* The candidates differ in their sources, and so in their places.            *)
LEMMA PlaceOfDiffers ==
    ASSUME Typed, SnapshotsOfSources
    PROVE  \A n, k \in LastOf(run) : PlaceOf(n) \in Nat /\ (PlaceOf(n) = PlaceOf(k) => n = k)
<1> DEFINE S == {snaps[m].source : m \in LastOf(run)}
<1> SUFFICES ASSUME NEW n \in LastOf(run), NEW k \in LastOf(run)
             PROVE  PlaceOf(n) \in Nat /\ (PlaceOf(n) = PlaceOf(k) => n = k)
  OBVIOUS
<1>1. PlaceOf(n) = Place(snaps[n].source, S) /\ PlaceOf(k) = Place(snaps[k].source, S)
  BY DEF PlaceOf
<1>2. NumSources \in Nat /\ S \in SUBSET (1..NumSources) /\ snaps[n].source \in S /\ snaps[k].source \in S
  BY EntriesNumbered
<1> HIDE DEF S
<1>3. PlaceOf(n) \in Nat /\ (PlaceOf(n) = PlaceOf(k) => snaps[n].source = snaps[k].source)
  BY <1>1, <1>2, PlacesDiffer
<1>4. snaps[n].source = snaps[k].source => n = k
  <2>1. n \in DOMAIN snaps /\ k \in DOMAIN snaps /\ DOMAIN snaps = 1..Len(snaps) /\ Len(snaps) \in Nat
    BY Appended DEF LastOf, WithText, SnapsOf, Typed, TablesTyped
  <2>2. snaps[n].source = snaps[k].source => n <= k /\ k <= n
    BY DEF LastOf
  <2> QED BY <2>1, <2>2
<1> QED BY <1>3, <1>4

ExtractedAll == Passed({"extract_evidence"}) /\ rows[run].llm < MaxLlm => LastOf(run) \subseteq examined
BeatExamined == beat.phase = "evidence" => \A n \in LastOf(run) : PlaceOf(n) <= beat.index => n \in examined

(* Before extraction ends, and after detection, nothing is to be shown.       *)
LEMMA ExtractElsewhere ==
    ASSUME Firm, Alone, NEW t \in Threads, Moves(t), StageOf', InCycle', UNCHANGED run,
           task.act \notin {"extract", "detect"}
    PROVE  Extracting'
<1>1. task'.act = task.act /\ \A u \in Threads : task'.by = u => thread'[u].act = task.act
  BY OneAtWork
<1>2. ~Passed({"extract_evidence"})'
  BY <1>1, Places DEF StageOf, Passed
<1> QED BY <1>1, <1>2 DEF Extracting, On

(* While it is at work, the stage is not passed. *)
LEMMA ExtractOn ==
    ASSUME Firm, Alone, NEW t \in Threads, Moves(t), StageOf', UNCHANGED run, task.act = "extract",
           BeatExamined',
           Goes(t) /\ thread'[t].at \in FetchPlaces => FetchingOn(t)',
           Goes(t) /\ thread'[t].at \in {"candidate", "ask", "store"} => ExaminingOn(t)',
           task'.by = "done" => ExtractedAll'
    PROVE  Extracting'
<1>1. task'.act = "extract" /\ run > 0 /\ \A u \in Threads : task'.by = u => u = t /\ Goes(t)
  BY OneAtWork
<1>2. task'.by # "done" => ~Passed({"extract_evidence"})'
  BY <1>1 DEF StageOf, Passed, Done
<1>3. ExtractedAll'
  BY <1>2 DEF ExtractedAll
<1>4. /\ \A u \in Threads : On(u, "extract", FetchPlaces)' => FetchingOn(u)'
      /\ \A u \in Threads : On(u, "extract", {"candidate", "ask", "store"})' => ExaminingOn(u)'
  BY <1>1 DEF On
<1> QED BY <1>1, <1>3, <1>4 DEF Extracting, BeatExamined, ExtractedAll

(* Fetching: a step at a source means that the checkpoint is not past the      *)
(* fetching yet.                                                               *)
LEMMA ExtractFetches ==
    ASSUME Firm, Alone, Watching, Extracting, NEW t \in Threads, Moves(t), StageOf', UNCHANGED run, task.act = "extract",
           thread[t].at \in FetchPlaces, work[t].todo # {},
           UNCHANGED targets,
           work'[t].todo \subseteq work[t].todo, work'[t].from = work[t].from,
           UNCHANGED beat \/ Beat(t, "fetch"), task'.by # "done",
           Goes(t), thread'[t].at \in FetchPlaces
    PROVE  Extracting' /\ Source(t) \notin targets
<1>1. FetchingOn(t)
  BY OneAtWork DEF Extracting, On
<1>2. beat.phase # "evidence" /\ beat'.phase # "evidence" /\ work[t].from.phase # "evidence"
  BY <1>1 DEF FetchingOn, Beat
<1>3. BeatExamined'
  BY <1>2 DEF BeatExamined
<1>4. FetchingOn(t)'
  BY <1>1, <1>2 DEF FetchingOn
<1>5. thread'[t].at \notin {"candidate", "ask", "store"}
  BY DEF FetchPlaces
<1>6. Source(t) \notin targets
  BY <1>1, ItemIsFirst DEF FetchingOn, Source, Firm, Typed
<1> QED BY <1>3, <1>4, <1>5, <1>6, ExtractOn

(* Examining: the checkpoint follows the item that was put to the model.      *)
LEMMA ExtractNext ==
    ASSUME Firm, Alone, Extracting, NEW t \in Threads, Moves(t), StageOf', task.act = "extract",
           ExaminingOn(t), work[t].todo # {}, UNCHANGED <<run, snaps, source>>,
           examined \subseteq examined', Item(t).at \in examined',
           Beat(t, "evidence"), work'[t].todo = work[t].todo \ {Item(t)},
           task'.by # "done", thread'[t].at = "candidate"
    PROVE  Extracting'
<1>0. Typed /\ SnapshotsOfSources /\ task.by = t
  BY OneAtWork DEF Firm, Sound
<1>1. Item(t) \in work[t].todo /\ \A x \in work[t].todo : Item(t).index <= x.index
  BY <1>0, ItemIsFirst DEF Typed
<1>2. beat' = [phase |-> "evidence", index |-> Item(t).index]
  BY <1>0 DEF Beat
<1>3. LastOf(run)' = LastOf(run) /\ \A n : PlaceOf(n)' = PlaceOf(n)
  BY LastSame
<1>4. ASSUME NEW n \in LastOf(run), PlaceOf(n) <= Item(t).index PROVE n \in examined'
  <2>1. CASE n \in examined
    BY <2>1
  <2>2. ASSUME NEW x \in work[t].todo, x.at = n PROVE n \in examined'
    <3>1. x.index = PlaceOf(n) /\ Item(t).index <= x.index /\ Item(t).at \in LastOf(run)
          /\ Item(t).index = PlaceOf(Item(t).at)
      BY <1>1, <2>2 DEF ExaminingOn
    <3>2. PlaceOf(n) \in Nat /\ PlaceOf(Item(t).at) \in Nat
      BY <1>0, <3>1, PlaceOfDiffers
    <3>3. PlaceOf(n) = PlaceOf(Item(t).at)
      BY ONLY <1>4, <3>1, <3>2
    <3>4. n = Item(t).at
      BY <1>0, <3>1, <3>3, PlaceOfDiffers
    <3> QED BY <3>4
  <2> QED BY <2>1, <2>2 DEF ExaminingOn
<1>5. BeatExamined'
  BY <1>2, <1>3, <1>4 DEF BeatExamined
<1>6. ExaminingOn(t)'
  <2>1. ASSUME NEW n \in LastOf(run) PROVE n \in examined' \/ \E x \in work'[t].todo : x.at = n
    BY <1>1 DEF ExaminingOn
  <2> QED BY <1>3, <2>1 DEF ExaminingOn
<1>7. thread'[t].at \notin FetchPlaces
  BY DEF FetchPlaces
<1> QED BY <1>5, <1>6, <1>7, ExtractOn

LEMMA ExtractHere ==
    ASSUME Firm, Alone, Extracting, NEW t \in Threads, Moves(t), StageOf', task.act = "extract",
           ExaminingOn(t), UNCHANGED <<run, snaps, source, beat, examined>>,
           Goes(t) => thread'[t].at \in {"ask", "store"} /\ work'[t].todo = work[t].todo,
           task'.by = "done" => work[t].todo = {} \/ rows'[run].llm >= MaxLlm,
           rows'[run].llm \in Nat, MaxLlm \in Nat
    PROVE  Extracting'
<1>1. LastOf(run)' = LastOf(run) /\ \A n : PlaceOf(n)' = PlaceOf(n)
  BY LastSame
<1>2. BeatExamined'
  BY <1>1 DEF BeatExamined, Extracting
<1>3. Goes(t) => ExaminingOn(t)'
  BY <1>1 DEF ExaminingOn
<1>4. Goes(t) => thread'[t].at \notin FetchPlaces
  BY DEF FetchPlaces
<1>5. task'.by = "done" => ExtractedAll'
  BY <1>1 DEF ExtractedAll, ExaminingOn, Passed
<1> QED BY <1>2, <1>3, <1>4, <1>5, ExtractOn

(* The steps of the other activities. *)
LEMMA ExtractOutside ==
    ASSUME Firm, Calm, NEW t \in Threads, Activity(t), StageOf', task.act # "extract"
    PROVE  Extracting'
<1>0. Moves(t) /\ UNCHANGED run /\ InCycle' /\ Alone /\ OwnRun
  BY AttemptFirm DEF Rooted, Firm, Calm
<1>1. CASE task.act = "detect"
  <2>1. thread[t].act = "detect" /\ task'.act = "detect" /\ run > 0
        /\ \A u \in Threads : task'.by = u => u = t /\ thread'[t].act = "detect"
    BY <1>0, <1>1, OneAtWork
  <2>2. DetectSteps(t)
    BY <2>1, ActOfStep, ActivityKinds
  <2>3. UNCHANGED <<snaps, source, examined>>
    BY <2>2 DEF DetectSteps, DetectBegin, EventFolded, EventNew, EventInserted, EventLinked, DetectEnd, found, history
  <2>4. LastOf(run)' = LastOf(run)
    BY <1>0, <2>3, LastSame
  <2>5. CASE UNCHANGED rows
    BY <1>0, <2>1, <2>3, <2>4, <2>5 DEF Calm, Extracting, Passed, On
  <2>6. CASE DetectEnd(t)
    <3>1. rows'[run].stage = "detect_changes"
      BY <1>0, <2>6, StageSet DEF DetectEnd, At, Stages
    <3> QED BY <1>0, <2>1, <3>1 DEF Extracting, Passed, On
  <2> QED BY <2>2, <2>5, <2>6 DEF DetectSteps, DetectBegin, EventFolded, EventNew, EventInserted, EventLinked, cycle
<1>2. CASE task.act # "detect"
  BY <1>0, <1>2, ExtractElsewhere
<1> QED BY <1>1, <1>2

(* The steps of the extraction itself. *)
LEMMA ExtractStep ==
    ASSUME Firm, Calm, NEW t \in Threads, task.act = "extract", ExtractSteps(t) \/ FetchSteps(t), StageOf'
    PROVE  Extracting' /\ Watching'
<1>0. Moves(t) /\ UNCHANGED run /\ Typed /\ Grows(snaps, snaps') /\ Sound /\ Alone /\ OwnRun /\ Watching /\ Extracting
      /\ InCycle'
  BY AttemptFirm, ActivityKinds DEF Rooted, Firm, Calm
<1>1. task.by = t /\ thread[t].act = "extract" /\ task'.act = "extract" /\ run > 0 /\ run \in Cycles
  BY <1>0, OneAtWork
<1>2. UNCHANGED <<before, targets>> /\ targets \subseteq Sources /\ DOMAIN source = Sources
  BY <1>0 DEF Typed, TablesTyped, ExtractSteps, ExtractBegin, FetchedRow, Fetched, CandidatesListed,
      CandidateDone, Counted, Extracted, NothingExtracted, BadAnswer, Stored, ExtractEnd,
      FetchSteps, PageFetched, Unreadable, FileUnchanged, FileSaved, FileParsed, FileRecorded, found, cycle
<1>3. (\A s \in targets : source'[s] = source[s]) => Watching'
  BY <1>0, <1>1, <1>2, WatchKept
<1>4. ASSUME NEW r, NEW st, NEW v, SetSource(r, st, v), r \notin targets PROVE Watching'
  BY <1>0, <1>2, <1>3, <1>4, SourceSet
<1>5. ASSUME thread[t].at \in FetchPlaces PROVE FetchingOn(t)
  BY <1>0, <1>1, <1>5 DEF Extracting, On
<1>6. ASSUME thread[t].at \in {"candidate", "ask", "store"} PROVE ExaminingOn(t) /\ work[t].run = run
  BY <1>0, <1>1, <1>6 DEF Extracting, On, OwnRun
<1>7. ASSUME thread[t].at \in FetchPlaces, work[t].todo # {}, UNCHANGED beat \/ Beat(t, "fetch"),
             NEW p \in FetchPlaces, NEW rd, GoTo(t, p, rd),
             UNCHANGED work \/ NextItem(t) \/ \E v : Learn(t, v),
             UNCHANGED source \/ \E st, v : SetSource(Source(t), st, v)
      PROVE  Extracting' /\ Watching'
  <2>1. thread'[t].at = p /\ work'[t].todo \subseteq work[t].todo /\ work'[t].from = work[t].from
    BY <1>0, <1>7, WentOn
  <2>2. task'.by # "done" /\ Goes(t)
    <3>1. UNCHANGED task
      BY <1>7 DEF GoTo
    <3> QED BY <1>0, <1>1, <3>1, Unended, Places DEF Moves, Stops
  <2>3. Extracting' /\ Source(t) \notin targets
    BY <1>0, <1>2, <1>7, <2>1, <2>2, ExtractFetches
  <2> QED BY <1>3, <1>4, <1>7, <2>3
<1>8. CASE FetchSteps(t)
  <2>1. thread[t].at \in FetchPlaces /\ work[t].todo # {} /\ Phase(t) = "fetch"
    BY <1>0, <1>1, <1>8 DEF FetchSteps, PageFetched, Unreadable, FileUnchanged, FileSaved, FileParsed, FileRecorded, Fetching, At,
        Sound, AtItem, FetchPlaces, Phase
  <2>2. CASE PageFetched(t) \/ FileSaved(t)
    <3>1. PICK p \in FetchPlaces : (\E v : Learn(t, v)) /\ GoTo(t, p, {}) /\ UNCHANGED <<source, beat>>
      BY <2>2 DEF PageFetched, FileSaved, found, FetchPlaces
    <3> QED BY <1>7, <2>1, <3>1
  <2>3. CASE FileParsed(t)
    BY <1>7, <2>1, <2>3 DEF FileParsed, FetchPlaces
  <2>4. CASE Unreadable(t) \/ FileUnchanged(t) \/ FileRecorded(t)
    BY <1>1, <1>7, <2>1, <2>4 DEF Unreadable, FileUnchanged, FileRecorded, Proceed, FetchPlaces
  <2> QED BY <1>8, <2>2, <2>3, <2>4 DEF FetchSteps
<1>9. CASE FetchedRow(t)
  <2>1. thread[t].at \in FetchPlaces /\ work[t].todo # {}
    BY <1>0, <1>9 DEF FetchedRow, At, Sound, AtItem, FetchPlaces
  <2> QED BY <1>7, <1>9, <2>1 DEF FetchedRow, FetchPlaces
<1>10. CASE Fetched(t)
  <2>1. thread[t].at \in FetchPlaces /\ work[t].todo # {}
    BY <1>0, <1>10 DEF Fetched, At, Sound, AtItem, FetchPlaces
  <2> QED BY <1>7, <1>10, <2>1 DEF Fetched, Proceed, FetchPlaces
<1>11. CASE ExtractBegin(t)
  <2> DEFINE new == {s \in Sources : source[s].status = "searched"
                       /\ \E n \in SnapsOf(run) : snaps[n].source = s /\ snaps[n].how = "search"}
             es == IF beat.phase = "evidence" THEN {} ELSE {Entry(s, "none", s) : s \in new}
  <2>1. /\ GoTo(t, "item", {}) /\ UNCHANGED <<beat, source, snaps, examined>>
        /\ work' = [work EXCEPT ![t] = [NoWork EXCEPT !.run = run, !.from = beat, !.llm = rows[run].llm,
                                                      !.todo = Remaining(es, beat, "fetch")]]
    BY <1>11 DEF ExtractBegin, found, history
  <2>2. \A x \in es : x.at \in Sources \ targets
    <3>1. new \subseteq Sources \ targets
      BY <1>0 DEF Watching
    <3> HIDE DEF new
    <3> QED BY <3>1 DEF Entry
  <2>3. beat.phase = "evidence" => es = {}
    OBVIOUS
  <2> HIDE DEF es
  <2>4. work'[t].todo = Remaining(es, beat, "fetch") /\ work'[t].from = beat
    BY <1>0, <2>1 DEF NoWork, Typed, AttemptsTyped
  <2>5. thread'[t].at = "item" /\ UNCHANGED task
    <3>1. thread'[t].at = "item"
      BY <1>0, <2>1, WentOn
    <3>2. UNCHANGED task
      BY <2>1 DEF GoTo
    <3> QED BY <3>1, <3>2
  <2>6. Remaining(es, beat, "fetch") \subseteq es
    BY DEF Remaining
  <2>7. FetchingOn(t)'
    BY <1>2, <2>1, <2>2, <2>3, <2>4, <2>6 DEF FetchingOn
  <2>8. BeatExamined'
    <3>1. BeatExamined
      BY <1>0 DEF Extracting, BeatExamined
    <3>2. LastOf(run)' = LastOf(run) /\ \A n : PlaceOf(n)' = PlaceOf(n)
      BY <1>0, <2>1, LastSame
    <3> QED BY <2>1, <3>1, <3>2 DEF BeatExamined
  <2>9. Extracting'
    BY <1>0, <1>1, <2>5, <2>7, <2>8, ExtractOn, Places
  <2> QED BY <1>3, <2>1, <2>9
<1>12. CASE CandidatesListed(t)
  <2>1. /\ thread[t].at = "item" /\ GoTo(t, "candidate", {}) /\ UNCHANGED <<beat, source, snaps, examined>>
        /\ work' = [work EXCEPT ![t].todo = Remaining(BySource(work[t].run), work[t].from, "evidence")]
    BY <1>12 DEF CandidatesListed, At, found, history
  <2>2. FetchingOn(t) /\ work[t].run = run
    BY <1>0, <1>1, <1>5, <2>1 DEF FetchPlaces, OwnRun
  <2>3. /\ work'[t].todo = Remaining(BySource(run), work[t].from, "evidence")
        /\ thread'[t].at = "candidate" /\ UNCHANGED task
    <3>1. thread'[t].at = "candidate"
      BY <1>0, <2>1, WentOn
    <3>2. UNCHANGED task
      BY <2>1 DEF GoTo
    <3>3. work'[t].todo = Remaining(BySource(run), work[t].from, "evidence")
      BY <1>0, <2>1, <2>2 DEF Typed, AttemptsTyped
    <3> QED BY <3>1, <3>2, <3>3
  <2>4. \A x : x \in BySource(run) <=> \E n \in LastOf(run) : x = Entry(n, "none", PlaceOf(n))
    BY DEF BySource, PlaceOf
  <2>5. /\ \A x \in BySource(run) : x = Entry(x.at, "none", PlaceOf(x.at)) /\ x.at \in LastOf(run)
                                    /\ x.index = PlaceOf(x.at)
        /\ \A n \in LastOf(run) : \E x \in BySource(run) : x.at = n /\ x.index = PlaceOf(n)
    <3>1. ASSUME NEW x \in BySource(run)
          PROVE  x = Entry(x.at, "none", PlaceOf(x.at)) /\ x.at \in LastOf(run) /\ x.index = PlaceOf(x.at)
      <4>1. PICK n \in LastOf(run) : x = Entry(n, "none", PlaceOf(n))
        BY <2>4
      <4>2. x.at = n /\ x.index = PlaceOf(n)
        BY <4>1 DEF Entry
      <4> QED BY <4>1, <4>2
    <3>2. ASSUME NEW n \in LastOf(run) PROVE \E x \in BySource(run) : x.at = n /\ x.index = PlaceOf(n)
      <4>1. Entry(n, "none", PlaceOf(n)).at = n /\ Entry(n, "none", PlaceOf(n)).index = PlaceOf(n)
        BY DEF Entry
      <4> QED BY <2>4, <4>1
    <3> QED BY <3>1, <3>2
  <2>6. work'[t].todo \subseteq BySource(run)
    BY <2>3 DEF Remaining
  <2>7. ASSUME NEW n \in LastOf(run) PROVE n \in examined \/ \E x \in work'[t].todo : x.at = n
    <3>1. PICK x \in BySource(run) : x.at = n /\ x.index = PlaceOf(n)
      BY <2>5
    <3>2. CASE x \in work'[t].todo
      BY <3>1, <3>2
    <3>3. CASE x \notin work'[t].todo
      <4>1. work[t].from.phase = "evidence" /\ ~(x.index > work[t].from.index)
        BY <2>3, <3>3 DEF Remaining
      <4>2. beat = work[t].from
        BY <2>2, <4>1 DEF FetchingOn
      <4>3. PlaceOf(n) \in Nat /\ beat.index \in Nat
        BY <1>0, PlaceOfDiffers DEF Typed, AttemptsTyped, Sound
      <4>4. PlaceOf(n) <= beat.index
        BY <3>1, <4>1, <4>2, <4>3
      <4>5. n \in examined
        BY <1>0, <4>1, <4>2, <4>4 DEF Extracting
      <4> QED BY <4>5
    <3> QED BY <3>2, <3>3
  <2>8. LastOf(run)' = LastOf(run) /\ \A n : PlaceOf(n)' = PlaceOf(n)
    BY <1>0, <2>1, LastSame
  <2>9. ExaminingOn(t)'
    <3>1. \A x \in work'[t].todo : x.at \in LastOf(run) /\ x.index = PlaceOf(x.at)
      BY <2>5, <2>6
    <3>2. \A x, y \in work'[t].todo : x.at = y.at => x = y
      BY <2>5, <2>6
    <3> QED BY <2>1, <2>7, <2>8, <3>1, <3>2 DEF ExaminingOn
  <2>10. BeatExamined'
    <3>1. BeatExamined
      BY <1>0 DEF Extracting, BeatExamined
    <3> QED BY <2>1, <2>8, <3>1 DEF BeatExamined
  <2>11. Extracting'
    BY <1>0, <1>1, <2>3, <2>9, <2>10, ExtractOn, Places DEF FetchPlaces
  <2> QED BY <1>3, <2>1, <2>11
<1>13. ASSUME thread[t].at \in {"candidate", "ask", "store"}, work[t].todo # {}
       PROVE  Item(t).at \in LastOf(run) /\ Item(t).at # 0 /\ snaps[Item(t).at].run = run
  <2>1. Item(t).at \in LastOf(run)
    BY <1>0, <1>6, <1>13, ItemIsFirst DEF ExaminingOn, Typed
  <2>2. \A n \in LastOf(run) : n \in DOMAIN snaps /\ snaps[n].run = run
    BY DEF LastOf, WithText, SnapsOf
  <2>3. \A n \in DOMAIN snaps : n # 0
    <3>1. DOMAIN snaps = 1..Len(snaps) /\ Len(snaps) \in Nat
      BY <1>0, Appended DEF Typed, TablesTyped
    <3> QED BY <3>1
  <2> QED BY <2>1, <2>2, <2>3
<1>14. CASE CandidateDone(t)
  <2>1. /\ thread[t].at = "candidate" /\ work[t].todo # {} /\ Beat(t, "evidence") /\ NextItem(t)
        /\ UNCHANGED <<task, thread, source, snaps, examined>>
        /\ \E i \in DOMAIN evidence : evidence[i].snap = Item(t).at
    BY <1>14 DEF CandidateDone, At, taskVars, found, history
  <2>2. Item(t).at \in examined
    BY <1>0, <1>1, <1>13, <2>1 DEF Sound, EvidenceExamined, Examined
  <2>3. work'[t].todo = work[t].todo \ {Item(t)}
    BY <1>0, <2>1 DEF NextItem, Typed, AttemptsTyped
  <2>4. Extracting'
    BY <1>0, <1>1, <1>6, <2>1, <2>2, <2>3, ExtractNext, Places
  <2> QED BY <1>3, <2>1, <2>4
<1>15. CASE NothingExtracted(t) \/ Stored(t)
  <2>1. /\ thread[t].at \in {"ask", "store"} /\ Beat(t, "evidence") /\ NextItem(t) /\ GoTo(t, "candidate", {})
        /\ UNCHANGED <<task, source, snaps>> /\ examined' = examined \union {Item(t).at}
    BY <1>15 DEF NothingExtracted, Stored, At, found, GoTo
  <2>2. work[t].todo # {}
    BY <1>0, <2>1 DEF Sound, AtItem
  <2>3. work'[t].todo = work[t].todo \ {Item(t)} /\ thread'[t].at = "candidate"
    BY <1>0, <2>1, WentOn
  <2>4. Extracting'
    BY <1>0, <1>1, <1>6, <2>1, <2>2, <2>3, ExtractNext, Places
  <2> QED BY <1>3, <2>1, <2>4
<1>16. CASE Counted(t) \/ Extracted(t) \/ BadAnswer(t) \/ ExtractEnd(t)
  <2>0. thread[t].at \in {"candidate", "ask"} /\ UNCHANGED <<source, snaps, beat, examined>>
    BY <1>16 DEF Counted, Extracted, BadAnswer, ExtractEnd, At, found, history
  <2>1. rows' \in RunRows /\ MaxLlm \in Nat
    BY <1>0, AttemptFirm, ActivityKinds, LimitsAssumption DEF Rooted, TablesTyped, RunRows
  <2>2. rows'[run].llm \in Nat
    BY <1>1, <2>1 DEF RunRows
  <2>3. CASE Counted(t) \/ Extracted(t)
    <3>1. PICK p \in {"ask", "store"} : GoTo(t, p, {}) /\ UNCHANGED task
      BY <2>3 DEF Counted, Extracted, GoTo
    <3>2. work'[t].todo = work[t].todo
      <4>1. CASE Counted(t)
        BY <1>0, <4>1 DEF Counted, Typed, AttemptsTyped
      <4>2. CASE Extracted(t)
        BY <1>0, <3>1, <4>2, WentOn DEF Extracted
      <4> QED BY <2>3, <4>1, <4>2
    <3>3. thread'[t].at = p
      BY <1>0, <3>1, WentOn
    <3>4. Extracting'
      BY <1>0, <1>1, <1>6, <2>0, <2>1, <2>2, <3>1, <3>2, <3>3, ExtractHere, Places
    <3> QED BY <1>3, <2>0, <3>4
  <2>4. CASE BadAnswer(t) \/ ExtractEnd(t)
    <3>1. ~Goes(t)
      BY <1>0, <2>4, StopFields DEF BadAnswer, ExtractEnd, Goes, Idle, Typed
    <3>2. BadAnswer(t) => task'.by # "done"
      BY <1>0, Unended DEF BadAnswer
    <3>3. ExtractEnd(t) => work[t].todo = {} \/ rows'[run].llm >= MaxLlm
      <4>1. ASSUME ExtractEnd(t), work[t].todo # {} PROVE rows'[run].llm >= MaxLlm
        <5>1. /\ rows' = [rows EXCEPT ![work[t].run].stage = "extract_evidence", ![work[t].run].llm = work[t].llm]
              /\ thread[t].at # "start" /\ work[t].llm \in Nat /\ "extract_evidence" \in Stages
              /\ work[t].llm >= MaxLlm
          BY <1>0, <4>1 DEF ExtractEnd, At, Stages, Typed, AttemptsTyped
        <5> QED BY <1>0, <5>1, StageSet
      <4> QED BY <4>1
    <3>4. Extracting'
      BY <1>0, <1>1, <1>6, <2>0, <2>1, <2>2, <2>4, <3>1, <3>2, <3>3, ExtractHere
    <3> QED BY <1>3, <2>0, <3>4
  <2> QED BY <1>16, <2>3, <2>4
<1> QED BY <1>8, <1>9, <1>10, <1>11, <1>12, <1>14, <1>15, <1>16 DEF ExtractSteps

-----------------------------------------------------------------------------
(* Detecting: every piece of evidence becomes part of an event. *)

LinkedNext(i) == \E e \in DOMAIN events' : i \in events'[e].links

LEMMA LinksStay == ASSUME EventsGrow, NEW i, Linked(i) PROVE LinkedNext(i)
BY DEF EventsGrow, Linked, LinkedNext

LEMMA OfRunSame ==
    ASSUME UNCHANGED <<run, evidence, snaps>>
    PROVE  OfRun(run)' = OfRun(run) /\ \A i : Place(i, OfRun(run))' = Place(i, OfRun(run))
<1>1. OfRun(run)' = OfRun(run)
  BY DEF OfRun, SnapsOf
<1> QED BY <1>1 DEF Place

BeatLinked == beat.phase = "change_detection" =>
                \A i \in OfRun(run) : Place(i, OfRun(run)) <= beat.index => Linked(i)
AllLinked == Passed({"detect_changes"}) /\ Len(events) < MaxEvents => \A i \in OfRun(run) : Linked(i)

(* Before detection ends nothing is to be shown. *)
LEMMA ReportElsewhere ==
    ASSUME Firm, Alone, NEW t \in Threads, Moves(t), StageOf', InCycle', UNCHANGED run,
           task.act \notin {"detect", "update"}
    PROVE  Reporting'
<1>1. task'.act = task.act /\ \A u \in Threads : task'.by = u => thread'[u].act = task.act
  BY OneAtWork
<1>2. ~Passed({"detect_changes"})'
  BY <1>1, Places DEF StageOf, Passed
<1> QED BY <1>1, <1>2 DEF Reporting, On

(* While it is at work, the stage is not passed. *)
LEMMA ReportOn ==
    ASSUME Firm, Alone, NEW t \in Threads, Moves(t), StageOf', UNCHANGED run, task.act = "detect",
           BeatLinked', Goes(t) => DetectingOn(t)', task'.by = "done" => AllLinked'
    PROVE  Reporting'
<1>1. task'.act = "detect" /\ run > 0 /\ \A u \in Threads : task'.by = u => u = t /\ Goes(t)
  BY OneAtWork
<1>2. task'.by # "done" => ~Passed({"detect_changes"})'
  BY <1>1 DEF StageOf, Passed, Done
<1>3. AllLinked'
  BY <1>2 DEF AllLinked
<1>4. \A u \in Threads : On(u, "detect", {"item", "insert", "linked"})' => DetectingOn(u)'
  BY <1>1 DEF On
<1> QED BY <1>1, <1>3, <1>4 DEF Reporting, BeatLinked, AllLinked

(* A step at an item that stays the next one. *)
LEMMA ReportHere ==
    ASSUME Firm, Alone, Reporting, NEW t \in Threads, Moves(t), StageOf', task.act = "detect",
           DetectingOn(t), UNCHANGED <<run, evidence, snaps, beat>>, EventsGrow,
           Goes(t) => /\ work'[t].todo = work[t].todo /\ thread'[t].read = thread[t].read
                      /\ thread'[t].at = "linked" => LinkedNext(Item(t).at) /\ work'[t].src \in DOMAIN events',
           task'.by = "done" => AllLinked'
    PROVE  Reporting'
<1>1. OfRun(run)' = OfRun(run) /\ \A i : Place(i, OfRun(run))' = Place(i, OfRun(run))
  BY OfRunSame
<1>2. BeatLinked'
  <2>1. ASSUME beat.phase = "change_detection", NEW i \in OfRun(run), Place(i, OfRun(run)) <= beat.index
        PROVE  LinkedNext(i)
    <3>1. Linked(i)
      BY <2>1 DEF Reporting
    <3> QED BY <3>1, LinksStay
  <2> QED BY <1>1, <2>1 DEF BeatLinked, LinkedNext, Linked
<1>3. ASSUME Goes(t) PROVE DetectingOn(t)'
  <2>1. ASSUME NEW i \in OfRun(run) PROVE LinkedNext(i) \/ \E x \in work'[t].todo : x.at = i
    BY <1>3, <2>1, LinksStay DEF DetectingOn
  <2>2. /\ \A x \in work'[t].todo : x.at \in OfRun(run) /\ x.index = Place(x.at, OfRun(run))
        /\ \A x, y \in work'[t].todo : x.at = y.at => x = y
    BY <1>3 DEF DetectingOn
  <2>3. thread'[t].at = "linked" => Linked(Item(t).at)' /\ work'[t].src \in DOMAIN events'
    BY <1>3 DEF LinkedNext, Linked, Item
  <2>4. thread'[t].read \subseteq DOMAIN events'
    BY <1>3 DEF DetectingOn, EventsGrow
  <2> QED BY <1>1, <2>1, <2>2, <2>3, <2>4 DEF DetectingOn, LinkedNext, Linked
<1> QED BY <1>2, <1>3, ReportOn

(* The checkpoint follows the item that is part of an event. *)
LEMMA ReportNext ==
    ASSUME Firm, Alone, Reporting, NEW t \in Threads, Moves(t), StageOf', task.act = "detect",
           DetectingOn(t), work[t].todo # {}, UNCHANGED <<run, evidence, snaps, task>>, EventsGrow,
           Linked(Item(t).at), Beat(t, "change_detection"),
           work'[t].todo = work[t].todo \ {Item(t)}, thread'[t].at = "item",
           thread'[t].read \subseteq DOMAIN events
    PROVE  Reporting'
<1>0. Typed /\ SnapshotsOfSources /\ task.by = t
  BY OneAtWork DEF Firm, Sound
<1>1. Item(t) \in work[t].todo /\ \A x \in work[t].todo : Item(t).index <= x.index
  BY <1>0, ItemIsFirst DEF Typed
<1>2. beat' = [phase |-> "change_detection", index |-> Item(t).index]
  BY <1>0 DEF Beat
<1>3. OfRun(run)' = OfRun(run) /\ \A i : Place(i, OfRun(run))' = Place(i, OfRun(run))
  BY OfRunSame
<1>4. ASSUME NEW i \in OfRun(run), Place(i, OfRun(run)) <= Item(t).index PROVE LinkedNext(i)
  <2>1. CASE Linked(i)
    BY <2>1, LinksStay
  <2>2. ASSUME NEW x \in work[t].todo, x.at = i PROVE LinkedNext(i)
    <3>1. x.index = Place(i, OfRun(run)) /\ Item(t).index <= x.index /\ Item(t).at \in OfRun(run)
          /\ Item(t).index = Place(Item(t).at, OfRun(run))
      BY <1>1, <2>2 DEF DetectingOn
    <3>2. Len(evidence) \in Nat /\ OfRun(run) \in SUBSET (1..Len(evidence))
      BY <1>0, EntriesNumbered
    <3>3. Place(i, OfRun(run)) \in Nat /\ Place(Item(t).at, OfRun(run)) \in Nat
      BY <3>1, <3>2, PlacesDiffer
    <3>4. Place(i, OfRun(run)) = Place(Item(t).at, OfRun(run))
      BY ONLY <1>4, <3>1, <3>3
    <3>5. i = Item(t).at
      BY <3>1, <3>2, <3>4, PlacesDiffer
    <3> QED BY <3>5, LinksStay
  <2> QED BY <2>1, <2>2 DEF DetectingOn
<1>5. BeatLinked'
  BY <1>2, <1>3, <1>4 DEF BeatLinked, LinkedNext, Linked
<1>6. DetectingOn(t)'
  <2>1. ASSUME NEW i \in OfRun(run) PROVE LinkedNext(i) \/ \E x \in work'[t].todo : x.at = i
    <3>1. CASE Linked(i)
      BY <3>1, LinksStay
    <3>2. ASSUME NEW x \in work[t].todo, x.at = i PROVE LinkedNext(i) \/ \E y \in work'[t].todo : y.at = i
      BY <3>2, LinksStay
    <3> QED BY <3>1, <3>2 DEF DetectingOn
  <2>2. thread'[t].read \subseteq DOMAIN events'
    BY DEF EventsGrow
  <2>3. /\ \A x \in work'[t].todo : x.at \in OfRun(run) /\ x.index = Place(x.at, OfRun(run))
        /\ \A x, y \in work'[t].todo : x.at = y.at => x = y
    BY DEF DetectingOn
  <2> QED BY <1>3, <2>1, <2>2, <2>3 DEF DetectingOn, LinkedNext, Linked
<1>7. task'.by # "done"
  BY Unended
<1> QED BY <1>5, <1>6, <1>7, ReportOn

(* As many events as the attempt knows of there are. *)
LEMMA EventsKnown ==
    ASSUME Typed, NEW S, S \subseteq DOMAIN events
    PROVE  Cardinality(S) \in Nat /\ Cardinality(S) <= Len(events)
<1>1. Len(events) \in Nat /\ DOMAIN events = 1..Len(events)
  BY Appended DEF Typed, TablesTyped
<1>2. IsFiniteSet(1..Len(events)) /\ Cardinality(1..Len(events)) = Len(events)
  BY <1>1, FS_Interval
<1> QED BY <1>1, <1>2, FS_Subset, FS_CardinalityType

(* The attempt notes the event. *)
LEMMA EventNoted ==
    ASSUME Typed, NEW t \in Threads, NEW e, work' = [work EXCEPT ![t].src = e]
    PROVE  work'[t].todo = work[t].todo /\ work'[t].src = e
BY DEF Typed, AttemptsTyped

LEMMA DetectReport ==
    ASSUME Firm, Calm, NEW t \in Threads, DetectSteps(t), StageOf'
    PROVE  Reporting'
<1>0. Moves(t) /\ UNCHANGED <<run, evidence, snaps>> /\ Typed /\ Sound /\ Basis /\ Alone /\ OwnRun /\ Reporting /\ EventsGrow
  <2>1. Typed /\ InCycle /\ Sound /\ Basis
    BY DEF Firm, Sound, Basis
  <2> QED BY <2>1, AttemptFirm, ActivityKinds, DetectEvents
            DEF Rooted, Calm, Sound, DetectSteps, DetectBegin, EventFolded, EventNew, EventInserted,
                EventLinked, DetectEnd, known, found, cycle
<1>1. task.by = t /\ thread[t].act = "detect" /\ task.act = "detect" /\ run > 0 /\ run \in Cycles /\ task.by # "done"
  BY <1>0, OneAtWork, ActOfStep, Unended
<1>2. ASSUME thread[t].at \in {"item", "insert", "linked"} PROVE DetectingOn(t) /\ work[t].run = run
  BY <1>0, <1>1, <1>2 DEF Reporting, On, OwnRun
<1>3. CASE DetectBegin(t)
  <2> DEFINE es == Entries(OfRun(run))
             rd == {e \in DOMAIN events : events[e].run = run}
  <2>1. Enter(t, Remaining(es, beat, "change_detection")) /\ GoTo(t, "item", rd) /\ UNCHANGED <<beat, events, task>>
    BY <1>3 DEF DetectBegin, known, GoTo
  <2>2. /\ work'[t].todo = Remaining(es, beat, "change_detection")
        /\ thread'[t].at = "item" /\ thread'[t].read = rd
    BY <1>0, <2>1, WentOn
  <2>3. \A x : x \in es <=> \E i \in OfRun(run) : x = Entry(i, "none", Place(i, OfRun(run)))
    BY DEF Entries
  <2> HIDE DEF es
  <2>4. ASSUME NEW x \in es
        PROVE  x.at \in OfRun(run) /\ x.index = Place(x.at, OfRun(run)) /\ x = Entry(x.at, "none", x.index)
    <3>1. PICK i \in OfRun(run) : x = Entry(i, "none", Place(i, OfRun(run)))
      BY <2>3
    <3>2. x.at = i /\ x.index = Place(i, OfRun(run))
      BY <3>1 DEF Entry
    <3> QED BY <3>1, <3>2
  <2>5. work'[t].todo \subseteq es
    BY <2>2 DEF Remaining
  <2>6. ASSUME NEW i \in OfRun(run) PROVE LinkedNext(i) \/ \E x \in work'[t].todo : x.at = i
    <3> DEFINE x == Entry(i, "none", Place(i, OfRun(run)))
    <3>1. x \in es
      BY <2>3
    <3>2. x.at = i /\ x.index = Place(i, OfRun(run))
      BY DEF Entry
    <3> HIDE DEF x
    <3>3. CASE x \in work'[t].todo
      BY <3>2, <3>3
    <3>4. CASE x \notin work'[t].todo
      <4>1. beat.phase = "change_detection" /\ ~(x.index > beat.index)
        BY <2>2, <3>1, <3>4 DEF Remaining
      <4>2. Len(evidence) \in Nat /\ OfRun(run) \in SUBSET (1..Len(evidence))
        BY <1>0, EntriesNumbered DEF Sound
      <4>3. Place(i, OfRun(run)) \in Nat /\ beat.index \in Nat
        BY <1>0, <4>2, PlacesDiffer DEF Typed, AttemptsTyped
      <4>4. Place(i, OfRun(run)) <= beat.index
        BY <3>2, <4>1, <4>3
      <4>5. Linked(i)
        BY <1>0, <1>1, <4>1, <4>4 DEF Reporting
      <4> QED BY <1>0, <4>5, LinksStay
    <3> QED BY <3>3, <3>4
  <2>7. OfRun(run)' = OfRun(run) /\ \A i : Place(i, OfRun(run))' = Place(i, OfRun(run))
    BY <1>0, OfRunSame
  <2>8. DetectingOn(t)'
    <3>1. \A x \in work'[t].todo : x.at \in OfRun(run) /\ x.index = Place(x.at, OfRun(run))
      BY <2>4, <2>5
    <3>2. ASSUME NEW x \in work'[t].todo, NEW y \in work'[t].todo, x.at = y.at PROVE x = y
      <4>1. x = Entry(x.at, "none", Place(x.at, OfRun(run))) /\ y = Entry(y.at, "none", Place(y.at, OfRun(run)))
        BY <2>4, <2>5
      <4> QED BY <3>2, <4>1
    <3>3. thread'[t].read \subseteq DOMAIN events'
      BY <2>1, <2>2
    <3> QED BY <2>2, <2>6, <2>7, <3>1, <3>2, <3>3 DEF DetectingOn, LinkedNext, Linked
  <2>9. BeatLinked'
    BY <1>0, <1>1, <2>1, <2>7 DEF Reporting, BeatLinked, Linked
  <2> QED BY <1>0, <1>1, <2>1, <2>8, <2>9, ReportOn
<1>4. CASE EventFolded(t)
  <2>1. PICK e \in SameEvent(Item(t).at) :
          /\ events' = [events EXCEPT ![e].links = @ \union {Item(t).at}]
          /\ work' = [work EXCEPT ![t].src = e]
    BY <1>4 DEF EventFolded
  <2>2. thread[t].at = "item" /\ GoTo(t, "linked", thread[t].read) /\ UNCHANGED <<beat, task>>
    BY <1>4 DEF EventFolded, Detecting, At, GoTo
  <2>3. e \in DOMAIN events /\ DOMAIN events' = DOMAIN events /\ Item(t).at \in events'[e].links
    <3>1. e \in DOMAIN events
      BY DEF SameEvent
    <3>2. TablesTyped
      BY <1>0 DEF Typed
    <3>3. DOMAIN events' = DOMAIN events /\ events'[e].links = (events[e].links \union {Item(t).at})
      BY <2>1, <3>1, <3>2, EventJoined, ZenonT(40)
    <3> QED BY <3>1, <3>3
  <2>4. thread'[t].read = thread[t].read
    BY <1>0, <2>2, WentOn
  <2>5. work'[t].todo = work[t].todo /\ work'[t].src = e
    BY <1>0, <2>1, EventNoted
  <2>6. LinkedNext(Item(t).at) /\ work'[t].src \in DOMAIN events'
    BY <2>3, <2>5 DEF LinkedNext
  <2> QED BY <1>0, <1>1, <1>2, <2>2, <2>4, <2>5, <2>6, ReportHere
<1>5. CASE EventNew(t)
  <2>1. thread[t].at = "item" /\ GoTo(t, "insert", thread[t].read) /\ UNCHANGED <<beat, task, work>>
    BY <1>5 DEF EventNew, Detecting, At, GoTo
  <2>2. thread'[t].read = thread[t].read /\ work'[t].todo = work[t].todo /\ thread'[t].at # "linked"
    BY <1>0, <2>1, WentOn
  <2> QED BY <1>0, <1>1, <1>2, <2>1, <2>2, ReportHere
<1>6. CASE EventInserted(t)
  <2> DEFINE c == Candidate(evidence, Item(t).at)
             x == ChangeEvent(work[t].run, Item(t).at, c)
  <2>1. thread[t].at = "insert" /\ UNCHANGED beat
    BY <1>6 DEF EventInserted, At
  <2>2. CASE Raise(t)
    <3>1. ~Goes(t) /\ task'.by # "done"
      BY <1>0, <2>2, StopFields, Unended DEF Goes, Idle, Typed
    <3> QED BY <1>0, <1>1, <1>2, <2>1, <3>1, ReportHere
  <2>3. CASE ~Raise(t)
    <3>1. /\ events' = Append(events, x) /\ work' = [work EXCEPT ![t].src = Len(events) + 1]
          /\ GoTo(t, "linked", thread[t].read) /\ UNCHANGED task
      BY <1>6, <2>3 DEF EventInserted, GoTo
    <3>2. x.links = {Item(t).at}
      BY DetectedEvent
    <3> HIDE DEF x
    <3>3. Len(events) + 1 \in DOMAIN events' /\ events'[Len(events) + 1] = x
      BY <1>0, <3>1, Appended DEF Typed, TablesTyped
    <3>4. LinkedNext(Item(t).at)
      BY <3>2, <3>3 DEF LinkedNext
    <3>5. thread'[t].read = thread[t].read
      BY <1>0, <3>1, WentOn
    <3>6. work'[t].todo = work[t].todo /\ work'[t].src = Len(events) + 1
      BY <1>0, <3>1, EventNoted
    <3> QED BY <1>0, <1>1, <1>2, <2>1, <3>1, <3>3, <3>4, <3>5, <3>6, ReportHere
  <2> QED BY <2>2, <2>3
<1>7. CASE EventLinked(t)
  <2>1. /\ thread[t].at = "linked" /\ Beat(t, "change_detection") /\ NextItem(t)
        /\ GoTo(t, "item", thread[t].read \union {work[t].src}) /\ UNCHANGED task
    BY <1>7 DEF EventLinked, At, GoTo
  <2>2. DetectingOn(t) /\ work[t].todo # {}
    BY <1>0, <1>2, <2>1 DEF Sound, AtItem
  <2>3. /\ Linked(Item(t).at) /\ thread'[t].at = "item" /\ work'[t].todo = work[t].todo \ {Item(t)}
        /\ thread'[t].read \subseteq DOMAIN events
    BY <1>0, <2>1, <2>2, WentOn DEF DetectingOn
  <2> QED BY <1>0, <1>1, <2>1, <2>2, <2>3, ReportNext
<1>8. CASE DetectEnd(t)
  <2>1. /\ thread[t].at = "item" /\ ~Detecting(t) /\ Return(t) /\ UNCHANGED <<beat, events>>
    BY <1>8 DEF DetectEnd, At, known
  <2>2. ~Goes(t)
    BY <1>0, <2>1, StopFields DEF Goes, Idle, Typed
  <2>3. DetectingOn(t)
    BY <1>2, <2>1
  <2>4. OfRun(run)' = OfRun(run)
    BY <1>0, OfRunSame
  <2>5. CASE work[t].todo = {}
    BY <2>1, <2>3, <2>4, <2>5, <1>0, <1>1, <2>2, ReportHere DEF DetectingOn, AllLinked, Linked
  <2>6. CASE work[t].todo # {}
    <3>1. ~(Cardinality(thread[t].read) < MaxEvents)
      BY <1>1, <2>1, <2>6 DEF Detecting, At
    <3>2. MaxEvents \in Nat /\ Len(events) \in Nat
      BY <1>0, LimitsAssumption, Appended DEF Typed, TablesTyped
    <3>3. ~(Len(events') < MaxEvents)
      BY <1>0, <2>1, <2>3, <3>1, <3>2, EventsKnown DEF DetectingOn
    <3> QED BY <1>0, <1>1, <2>1, <2>2, <2>3, <3>3, ReportHere DEF AllLinked
  <2> QED BY <2>5, <2>6
<1> QED BY <1>3, <1>4, <1>5, <1>6, <1>7, <1>8 DEF DetectSteps

(* The decision leaves evidence and events as detection left them. *)
LEMMA UpdateReport ==
    ASSUME Firm, Calm, NEW t \in Threads, UpdateSteps(t), StageOf'
    PROVE  Reporting'
<1>0. Moves(t) /\ UNCHANGED <<run, evidence, snaps, events>> /\ Alone /\ OwnRun /\ Reporting /\ StageOf
  BY AttemptFirm, ActivityKinds DEF Rooted, Calm, UpdateSteps, NothingOpen, UpdateBegin, Synthesized, SynthesisSaved,
      Decided, known, found, cycle
<1>1. thread[t].act = "update" /\ task.act = "update" /\ task'.act = "update" /\ run > 0
      /\ \A u \in Threads : task'.by = u => thread'[u].act = "update"
  BY <1>0, OneAtWork, ActOfStep
<1>2. OfRun(run)' = OfRun(run)
  BY <1>0, OfRunSame
<1>3. rows'[run].stage \in {rows[run].stage, "claims_synthesized", "decision"}
  <2>1. CASE UNCHANGED rows
    BY <1>0, <2>1
  <2>2. CASE SynthesisSaved(t)
    BY <1>0, <2>2, StageSet DEF SynthesisSaved, At, Stages
  <2>3. CASE Decided(t)
    BY <1>0, <2>3, StageSet DEF Decided, At, Stages
  <2> QED BY <2>1, <2>2, <2>3 DEF UpdateSteps, NothingOpen, UpdateBegin, Synthesized, cycle
<1> QED BY <1>0, <1>1, <1>2, <1>3 DEF Reporting, Passed, On, Linked

(* A step of an attempt keeps what holds while no attempt was given up. *)
LEMMA AttemptCalm ==
    ASSUME Firm, Calm, NEW t \in Threads, Activity(t)
    PROVE  Calm'
<1>0. Firm' /\ Moves(t) /\ Rooted(t) /\ Alone /\ OwnRun /\ StageOf /\ Watching /\ Rechecking /\ Counting /\ Reporting
  BY AttemptFirm DEF Calm
<1>1. /\ AttemptsTyped /\ UNCHANGED run /\ InCycle'
      /\ task.by = t /\ task.act = thread[t].act
  BY <1>0, OneAtWork DEF Firm, Typed, Rooted
<1>2. Alone' /\ OwnRun'
  BY <1>0, <1>1, MovesAlone
<1>3. StageOf' /\ Counting'
  BY <1>0, StageStep, CountStep
<1>4. Watching' /\ Rechecking' /\ Extracting'
  <2>1. CASE task.act = "recheck"
    <3>1. RecheckSteps(t) \/ FetchSteps(t)
      BY <1>1, <2>1, ActivityKinds, ActOfStep
    <3> QED BY <1>0, <1>3, <2>1, <3>1, RecheckStep, ExtractOutside
  <2>2. CASE task.act = "extract"
    <3>1. ExtractSteps(t) \/ FetchSteps(t)
      BY <1>1, <2>2, ActivityKinds, ActOfStep
    <3> QED BY <1>0, <1>1, <1>3, <2>2, <3>1, ExtractStep, RecheckVacuous
  <2>3. CASE task.act \notin {"recheck", "extract"}
    <3>1. ContextSteps(t) \/ SearchSteps(t) \/ DetectSteps(t) \/ UpdateSteps(t)
      BY <1>1, <2>3, ActivityKinds, ActOfStep
    <3>2. Watching'
      BY <1>0, <3>1, ContextWatch, SearchWatch, LaterWatch
    <3> QED BY <1>0, <1>1, <1>3, <2>3, <3>2, ExtractOutside, RecheckVacuous
  <2> QED BY <2>1, <2>2, <2>3
<1>5. Reporting'
  <2>1. CASE DetectSteps(t)
    BY <1>3, <2>1, DetectReport
  <2>2. CASE UpdateSteps(t)
    BY <1>3, <2>2, UpdateReport
  <2>3. CASE ~DetectSteps(t) /\ ~UpdateSteps(t)
    <3>1. task.act \notin {"detect", "update"}
      BY <1>1, <2>3, ActivityKinds, ActOfStep
    <3> QED BY <1>0, <1>1, <1>3, <3>1, ReportElsewhere
  <2> QED BY <2>1, <2>2, <2>3
<1> QED BY <1>2, <1>3, <1>4, <1>5 DEF Calm

-----------------------------------------------------------------------------
(* The same for the steps of nobody's attempt. *)

(* What the tables say stays when they stay. *)
LEMMA TablesSame ==
    ASSUME Outside, UNCHANGED run
    PROVE  /\ LastOf(run)' = LastOf(run) /\ \A n : PlaceOf(n)' = PlaceOf(n)
           /\ OfRun(run)' = OfRun(run) /\ \A i : Place(i, OfRun(run))' = Place(i, OfRun(run))
           /\ \A i : Linked(i) => LinkedNext(i)
           /\ \A s, v : Snapped(s, v) => SnappedNext(s, v)
<1>1. UNCHANGED <<run, snaps, source, evidence>>
  BY DEF Outside
<1>2. \A i : Linked(i) => LinkedNext(i)
  BY DEF Outside, Linked, LinkedNext
<1>3. \A s, v : Snapped(s, v) => SnappedNext(s, v)
  BY <1>1 DEF Snapped, SnappedNext, SnapsOf
<1> QED BY <1>1, <1>2, <1>3, LastSame, OfRunSame

(* A step that leaves the awaited attempt alone, and the stage of the run.    *)
Resting ==
    /\ UNCHANGED <<run, before, task, beat>>
    /\ \A t \in Threads : task.by = t => thread'[t] = thread[t] /\ work'[t] = work[t]
    /\ rows'[run].stage = rows[run].stage /\ rows'[run].llm = rows[run].llm

LEMMA RestingCalm ==
    ASSUME Typed, Calm, Outside, Resting, Alone'
    PROVE  Calm'
<1>0. UNCHANGED <<source, targets, snaps, evidence, calls, examined, run, before, task, beat>>
      /\ rows'[run].stage = rows[run].stage /\ rows'[run].llm = rows[run].llm
      /\ Len(events') = Len(events) /\ DOMAIN events' = DOMAIN events
  BY DEF Outside, Resting
<1>1. LastOf(run)' = LastOf(run) /\ (\A n : PlaceOf(n)' = PlaceOf(n))
      /\ OfRun(run)' = OfRun(run) /\ (\A i : Place(i, OfRun(run))' = Place(i, OfRun(run)))
  BY <1>0, TablesSame
<1>2. (\A i : Linked(i) => LinkedNext(i)) /\ (\A s, v : Snapped(s, v) => SnappedNext(s, v))
  BY <1>0, TablesSame
<1>3. \A t \in Threads : task.by = t => thread'[t] = thread[t] /\ work'[t] = work[t]
  BY DEF Resting
<1>4. OwnRun' /\ StageOf' /\ Counting'
  BY <1>0, <1>3 DEF Calm, OwnRun, StageOf, Done, Counting
<1>5. Watching'
  BY <1>0, <1>3 DEF Calm, Watching, On, Kept, Snapped, SnapsOf
<1>6. Rechecking'
  <2>1. ASSUME NEW t \in Threads, task.by = t, RecheckingOn(t) PROVE RecheckingOn(t)'
    BY <1>0, <1>3, <2>1, ZenonT(40) DEF RecheckingOn, Snapped, SnapsOf, Item, Source
  <2> QED BY <1>0, <1>3, <2>1 DEF Calm, Rechecking, On
<1>7. Extracting'
  <2>1. ASSUME NEW t \in Threads, task.by = t
        PROVE  (FetchingOn(t) => FetchingOn(t)') /\ (ExaminingOn(t) => ExaminingOn(t)')
    BY <1>0, <1>1, <1>3, <2>1 DEF FetchingOn, ExaminingOn
  <2> QED BY <1>0, <1>1, <1>3, <2>1 DEF Calm, Extracting, On, Passed
<1>8. Reporting'
  <2>1. ASSUME NEW t \in Threads, task.by = t, DetectingOn(t) PROVE DetectingOn(t)'
    <3>1. thread'[t] = thread[t] /\ work'[t] = work[t]
      BY <1>3, <2>1
    <3>2. \A i \in OfRun(run) : LinkedNext(i) \/ \E x \in work[t].todo : x.at = i
      BY <1>2, <2>1 DEF DetectingOn
    <3>3. thread[t].at = "linked" => LinkedNext(Item(t).at) /\ work[t].src \in DOMAIN events
      BY <1>2, <2>1 DEF DetectingOn
    <3>4. Item(t)' = Item(t)
      BY <3>1 DEF Item
    <3>5. thread'[t].at = "linked" => Linked(Item(t).at)'
      BY <3>1, <3>3, <3>4 DEF Linked, LinkedNext
    <3> QED BY <1>0, <1>1, <2>1, <3>1, <3>2, <3>3, <3>5 DEF DetectingOn, Linked, LinkedNext
  <2> QED BY <1>0, <1>1, <1>2, <1>3, <2>1 DEF Calm, Reporting, On, Passed, Linked, LinkedNext
<1> QED BY <1>4, <1>5, <1>6, <1>7, <1>8 DEF Calm

(* A step after which nobody is past the start of an activity.                *)
LEMMA WaitingCalm ==
    ASSUME Typed, SnapshotsOfSources, Calm, Outside, UNCHANGED <<run, before, rows>>, Alone', StageOf',
           \A t \in Threads : task'.by = t => thread'[t].at = "start",
           \/ task'.act = task.act
           \/ task.act \in DOMAIN Follows /\ task'.act = Follows[task.act],
           beat'.phase \in {"evidence", "change_detection"} =>
             /\ beat'.phase = beat.phase /\ task'.act = task.act
             /\ beat'.index \in Nat /\ beat'.index <= beat.index
    PROVE  Calm'
<1>0. UNCHANGED <<source, targets, snaps, evidence, calls, examined, run, before, rows>>
      /\ Len(events') = Len(events) /\ DOMAIN events' = DOMAIN events
  BY DEF Outside
<1>1. LastOf(run)' = LastOf(run) /\ (\A n : PlaceOf(n)' = PlaceOf(n))
      /\ OfRun(run)' = OfRun(run) /\ (\A i : Place(i, OfRun(run))' = Place(i, OfRun(run)))
  BY <1>0, TablesSame
<1>2. (\A i : Linked(i) => LinkedNext(i)) /\ (\A s, v : Snapped(s, v) => SnappedNext(s, v))
  BY <1>0, TablesSame
<1>3. \A t \in Threads : task'.by # t \/ thread'[t].at = "start"
  OBVIOUS
<1>4. Follows = [context |-> "recheck", recheck |-> "search", search |-> "extract",
                 extract |-> "detect", detect |-> "update"]
  BY DEF Follows
<1>5. /\ task'.act = "context" => task.act = "context"
      /\ task'.act \in {"context", "recheck", "search"} => task.act \in {"context", "recheck"} \union {task'.act}
      /\ task'.act \in {"context", "recheck", "search", "extract"} =>
           task.act \in {"context", "recheck", "search", "extract"}
  BY <1>4
<1>6. OwnRun' /\ Counting'
  BY <1>0, <1>3, <1>5 DEF Calm, OwnRun, Counting
<1>7. Watching'
  BY <1>0, <1>3, <1>5 DEF Calm, Watching, On, Kept, Snapped, SnapsOf
<1>8. Rechecking'
  BY <1>3 DEF Rechecking, On, FetchPlaces
<1>9. Extracting'
  <2>1. ASSUME beat'.phase = "evidence", task'.act = "extract", NEW n \in LastOf(run), PlaceOf(n) <= beat'.index
        PROVE  n \in examined
    <3>1. PlaceOf(n) \in Nat /\ beat.index \in Nat /\ beat'.index \in Nat
      BY <2>1, PlaceOfDiffers DEF Typed, AttemptsTyped
    <3>2. PlaceOf(n) <= beat.index
      BY <2>1, <3>1
    <3> QED BY <2>1, <3>2 DEF Calm, Extracting
  <2>2. Passed({"extract_evidence"})' /\ rows'[run].llm < MaxLlm => LastOf(run) \subseteq examined
    BY <1>0 DEF Calm, Extracting, Passed
  <2> QED BY <1>0, <1>1, <1>3, <2>1, <2>2 DEF Extracting, On, FetchPlaces, Passed
<1>10. Reporting'
  <2>1. ASSUME beat'.phase = "change_detection", task'.act = "detect", NEW i \in OfRun(run),
               Place(i, OfRun(run)) <= beat'.index
        PROVE  LinkedNext(i)
    <3>1. Place(i, OfRun(run)) \in Nat /\ beat.index \in Nat /\ beat'.index \in Nat
      BY <2>1, EntriesNumbered DEF Typed, AttemptsTyped
    <3>2. Place(i, OfRun(run)) <= beat.index
      BY <2>1, <3>1
    <3> QED BY <1>2, <2>1, <3>2 DEF Calm, Reporting
  <2>2. Passed({"detect_changes"})' /\ Len(events') < MaxEvents => \A i \in OfRun(run) : LinkedNext(i)
    BY <1>0, <1>2 DEF Calm, Reporting, Passed
  <2> QED BY <1>0, <1>1, <1>3, <2>1, <2>2 DEF Reporting, On, Passed, Linked, LinkedNext
<1> QED BY <1>6, <1>7, <1>8, <1>9, <1>10 DEF Calm

LEMMA AdvanceCalm == ASSUME Firm, Calm, Advance PROVE Calm'
<1>0. Typed /\ SnapshotsOfSources /\ Outside /\ Alone /\ StageOf
  BY ElsewhereOutside DEF Firm, Typed, Sound, Calm, Elsewhere, Workflow
<1>1. /\ task.by = "done" /\ task.act \in DOMAIN Follows
      /\ task'.act = Follows[task.act] /\ task'.by = "queue"
      /\ beat' = NoBeat /\ UNCHANGED <<thread, run, before, rows>>
  BY DEF Advance, Queued, cycle
<1>2. \A t \in Threads : t \notin {"done", "queue"}
  BY Places
<1>3. Alone'
  BY <1>0, <1>1, <1>2 DEF Alone
<1>4. StageOf'
  BY <1>0, <1>1 DEF StageOf, Done, Follows
<1>5. beat'.phase \notin {"evidence", "change_detection"}
  BY <1>1 DEF NoBeat
<1> QED BY <1>0, <1>1, <1>2, <1>3, <1>4, <1>5, WaitingCalm

LEMMA EndCycleCalm == ASSUME Firm, Calm, EndCycle PROVE Calm'
<1>0. Typed /\ Outside /\ Alone /\ run \in Cycles /\ rows \in RunRows
  BY ElsewhereOutside, RunOf DEF Firm, Typed, TablesTyped, Calm, Elsewhere, Workflow, EndCycle, RunRows
<1>1. UNCHANGED <<run, before, task, beat, thread, work>>
  BY DEF EndCycle, taskVars
<1>2. \E st : rows' = [rows EXCEPT ![run].status = st]
  BY DEF EndCycle
<1>3. rows'[run].stage = rows[run].stage /\ rows'[run].llm = rows[run].llm
  BY <1>0, <1>2 DEF RunRows
<1>4. Alone'
  BY <1>0, <1>1 DEF Alone
<1> QED BY <1>0, <1>1, <1>3, <1>4, RestingCalm DEF Resting

LEMMA ApprovedCalm == ASSUME Firm, Calm, Approved \/ UNCHANGED vars PROVE Calm'
<1>0. Typed /\ Outside /\ Alone
  BY ElsewhereOutside DEF Firm, Typed, Calm, Elsewhere
<1>1. UNCHANGED <<run, before, rows, task, beat, thread, work>>
  BY DEF Approved, cycle, taskVars, vars
<1>2. Alone'
  BY <1>0, <1>1 DEF Alone
<1> QED BY <1>0, <1>1, <1>2, RestingCalm DEF Resting

(* A cycle begins when no attempt is at work. *)
LEMMA BeginCycleCalm == ASSUME Firm, Calm, BeginCycle PROVE Calm'
<1>0. /\ Typed /\ InCycle /\ Outside /\ Alone /\ Watching /\ Counting /\ Extracting /\ Reporting
      /\ rows \in RunRows /\ run \in 0..MaxCycles /\ MaxCycles \in Nat /\ MaxLlm \in Nat
  BY ElsewhereOutside, LimitsAssumption DEF Firm, Typed, TablesTyped, Calm, Elsewhere, RunRows
<1>1. /\ run < MaxCycles /\ (run > 0 => rows[run].status # "running")
      /\ run' = run + 1 /\ rows' = [rows EXCEPT ![run + 1] = Running] /\ before' = source
      /\ task'.act = "context" /\ task'.by = "queue" /\ beat' = NoBeat /\ UNCHANGED thread
  BY DEF BeginCycle, Queued
<1>2. run' \in Cycles /\ run' > 0 /\ run' > run
  BY <1>0, <1>1 DEF Cycles
<1>3. rows'[run'] = Running
  BY <1>0, <1>1, <1>2 DEF RunRows
<1>4. \A t \in Threads : task.by # t /\ task'.by # t
  BY <1>0, <1>1, Places DEF InCycle, Awaited
<1>5. Alone' /\ OwnRun'
  BY <1>0, <1>1, <1>4 DEF Alone, OwnRun
<1>6. StageOf'
  BY <1>1, <1>3, Places DEF StageOf, Done, Running
<1>7. UNCHANGED <<source, targets, calls>>
  BY <1>0 DEF Outside
<1>8. Watching'
  BY <1>0, <1>1, <1>4, <1>7 DEF Watching, On, Kept
<1>9. Rechecking'
  BY <1>4 DEF Rechecking, On
<1>10. ~Passed({"extract_evidence", "detect_changes"})'
  BY <1>3 DEF Passed, Running
<1>11. Extracting' /\ Reporting'
  BY <1>1, <1>4, <1>10 DEF Extracting, Reporting, On, NoBeat, Passed
<1>12. Counting'
  <2>1. \A r \in Cycles : calls'[r] <= MaxLlm /\ (r > run' => calls'[r] = 0)
    <3>1. \A r \in Cycles : r > run' => r > run
      BY <1>0, <1>1 DEF Cycles
    <3> QED BY <1>0, <1>7, <3>1 DEF Counting
  <2>2. calls'[run'] = 0
    BY <1>0, <1>2, <1>7 DEF Counting
  <2>3. rows'[run'].llm = 0
    BY <1>3 DEF Running
  <2> QED BY <1>0, <1>4, <2>1, <2>2, <2>3 DEF Counting
<1> QED BY <1>5, <1>6, <1>8, <1>9, <1>11, <1>12 DEF Calm

LEMMA DeliveryCalm == ASSUME Firm, Calm, Delivery PROVE Calm'
<1>0. Typed /\ SnapshotsOfSources /\ Outside /\ Alone /\ StageOf /\ AttemptsTyped
  BY ElsewhereOutside DEF Firm, Typed, Sound, Calm, Elsewhere
<1>1. PICK t \in Threads :
        /\ task.by = "queue"
        /\ thread'[t] = [act |-> task.act, at |-> "start", read |-> {}]
        /\ \A u \in Threads \ {t} : thread'[u] = thread[u]
        /\ task' = [act |-> task.act, left |-> task.left, by |-> t]
        /\ UNCHANGED <<run, rows, before, beat>>
  BY <1>0, DeliveryFields
<1>2. \A u \in Threads : u \notin {"queue", "done"}
  BY Places
<1>3. Alone'
  BY <1>0, <1>1, <1>2 DEF Alone
<1>4. StageOf'
  BY <1>0, <1>1, <1>2 DEF StageOf, Done
<1>5. \A u \in Threads : task'.by = u => thread'[u].at = "start"
  BY <1>1
<1>6. task'.act = task.act /\ beat.index \in Nat /\ beat.index <= beat.index
  BY <1>0, <1>1 DEF AttemptsTyped
<1> QED BY <1>0, <1>1, <1>3, <1>4, <1>5, <1>6, WaitingCalm

(* A heartbeat that got lost leaves an earlier one. *)
LEMMA EarlierBeat ==
    ASSUME AttemptsTyped, beat' \in EarlierBeats, beat'.phase \in {"evidence", "change_detection"}
    PROVE  beat'.phase = beat.phase /\ beat'.index \in Nat /\ beat'.index <= beat.index
<1>1. beat.index \in Nat /\ beat = [phase |-> beat.phase, index |-> beat.index]
  BY DEF AttemptsTyped
<1>2. CASE beat' = beat
  BY <1>1, <1>2
<1>3. ASSUME NEW k \in 1..beat.index, beat' = [beat EXCEPT !.index = k]
      PROVE  beat'.phase = beat.phase /\ beat'.index \in Nat /\ beat'.index <= beat.index
  BY <1>1, <1>3
<1>4. ASSUME NEW s, beat' = [phase |-> "fetch", index |-> s] PROVE FALSE
  BY <1>4
<1>5. beat' # NoBeat
  BY DEF NoBeat
<1> QED BY <1>2, <1>3, <1>4, <1>5 DEF EarlierBeats

LEMMA ServiceCalm == ASSUME Firm, Calm, Service, timeouts = 0, timeouts' = 0 PROVE Calm'
<1>0. Typed /\ InCycle /\ SnapshotsOfSources /\ Outside /\ Alone /\ StageOf /\ AttemptsTyped
  BY ElsewhereOutside DEF Firm, Typed, Sound, Calm, Elsewhere
<1>1. ~TimeOut
  BY DEF TimeOut
<1>2. PICK t \in Threads : Fault(t)
  BY <1>1 DEF Service
<1>3. /\ \A u \in Threads : /\ thread'[u] = thread[u] \/ thread'[u] = Idle
                            /\ work'[u] = IF thread'[u] = Idle THEN NoWork ELSE work[u]
      /\ \A u \in Threads : task'.by = u => task.by = u /\ thread'[u] = thread[u]
      /\ UNCHANGED <<run, rows, before>>
  BY <1>0, ServiceFields
<1>4. thread'[t] = Idle /\ task' = IF task.by = t THEN GivenUp ELSE task
  BY <1>0, <1>2, StopFields DEF Fault
<1>5. beat' \in IF task' # task THEN EarlierBeats ELSE {beat}
  BY DEF Service
<1>6. \A u \in Threads : u \notin {"queue", "done", "failed"}
  BY Places
<1>7. CASE task.by = t
  <2>1. task'.act = task.act /\ task'.by \in {"queue", "failed"} /\ task' # task
    BY <1>0, <1>4, <1>6, <1>7, GivenUpFields
  <2>2. \A u \in Threads : u # t => thread'[u].act = "none"
    BY <1>0, <1>3, <1>7 DEF Alone, Idle
  <2>3. Alone'
    BY <1>4, <2>2 DEF Alone, Idle
  <2>4. StageOf'
    BY <1>0, <1>3, <1>6, <1>7, <2>1 DEF StageOf, Done
  <2>5. \A u \in Threads : task'.by = u => thread'[u].at = "start"
    BY <1>6, <2>1
  <2>6. beat'.phase \in {"evidence", "change_detection"} =>
          beat'.phase = beat.phase /\ beat'.index \in Nat /\ beat'.index <= beat.index
    BY <1>0, <1>5, <2>1, EarlierBeat
  <2> QED BY <1>0, <1>3, <2>1, <2>3, <2>4, <2>5, <2>6, WaitingCalm
<1>8. CASE task.by # t
  <2>1. task' = task /\ beat' = beat
    BY <1>4, <1>5, <1>8
  <2>2. Alone'
    BY <1>0, <1>3, <2>1 DEF Alone, Idle
  <2>3. ASSUME NEW u \in Threads, task.by = u PROVE thread'[u] = thread[u] /\ work'[u] = work[u]
    <3>1. thread'[u] = thread[u]
      BY <1>3, <2>1, <2>3
    <3>2. thread[u].act # "none"
      BY <1>0, <2>3 DEF InCycle, Awaited
    <3>3. thread'[u] # Idle
      BY <3>1, <3>2 DEF Idle
    <3> QED BY <1>3, <3>1, <3>3
  <2> QED BY <1>0, <1>3, <2>1, <2>2, <2>3, RestingCalm DEF Resting
<1> QED BY <1>7, <1>8

-----------------------------------------------------------------------------
(* The invariant. *)

LEMMA FirmParts == IInv <=> Firm /\ (timeouts = 0 => Calm)
BY DEF IInv, Firm, Sound

LEMMA Inductive == ASSUME IInv, [Next]_vars PROVE IInv'
<1>0. Firm /\ (timeouts = 0 => Calm) /\ timeouts \in Nat
  BY FirmParts DEF Firm, Typed, AttemptsTyped
<1>1. ASSUME NEW t \in Threads, Activity(t) PROVE IInv'
  <2>1. Firm' /\ timeouts' = timeouts
    BY <1>0, <1>1, AttemptFirm DEF Moves
  <2>2. timeouts' = 0 => Calm'
    BY <1>0, <1>1, <2>1, AttemptCalm
  <2> QED BY <2>1, <2>2 DEF IInv, Firm, Sound
<1>2. CASE Elsewhere
  <2>1. Firm'
    BY <1>0, <1>2, AdvanceFirm, EndCycleFirm, ApprovedFirm, BeginCycleFirm, DeliveryFirm, ServiceFirm, StutterFirm
       DEF Elsewhere, Workflow
  <2>2. timeouts' = 0 => timeouts = 0
    <3>1. CASE Service
      BY <1>0, <3>1 DEF Service, TimeOut, Fault
    <3>2. CASE ~Service
      BY <1>2, <3>2 DEF Elsewhere, Workflow, Advance, EndCycle, BeginCycle, Approved, Delivery, Pick, taskVars, vars
    <3> QED BY <3>1, <3>2
  <2>3. timeouts' = 0 => Calm'
    BY <1>0, <1>2, <2>2, AdvanceCalm, EndCycleCalm, ApprovedCalm, BeginCycleCalm, DeliveryCalm, ServiceCalm
       DEF Elsewhere, Workflow
  <2> QED BY <2>1, <2>3 DEF IInv, Firm, Sound
<1> QED BY <1>1, <1>2 DEF Next, Elsewhere

LEMMA Invariant == Spec => []IInv
<1>1. Init => IInv
  BY InitHolds
<1>2. IInv /\ [Next]_vars => IInv'
  BY Inductive
<1> QED BY <1>1, <1>2, PTL DEF Spec

-----------------------------------------------------------------------------
(* The properties of the runs, for all values of the constants.               *)

(* A change of a watched page is not lost between the attempts of             *)
(* recheck_monitored_sources (temporal/activities.py): if the content hash of *)
(* a target was moved on in this cycle, a snapshot of the cycle has the text, *)
(* whatever attempts failed in between and whatever heartbeats were lost, as  *)
(* long as none was given up while its thread goes on.                        *)
THEOREM ChangesKept == Spec => []ChangeKept
<1>1. IInv => ChangeKept
  <2> SUFFICES ASSUME IInv, Passed({"recheck_sources"}), timeouts = 0, NEW s \in targets,
                      source[s].value # before[s].value
               PROVE  \E n \in SnapsOf(run) : snaps[n].source = s /\ snaps[n].text = source[s].value
    BY DEF ChangeKept
  <2>1. StageOf /\ Watching /\ run > 0 /\ rows[run].stage = "recheck_sources"
    BY DEF IInv, Calm, Passed
  <2>2. task.act \in {"recheck", "search"}
    BY <2>1, Places DEF StageOf
  <2>3. Kept(s)
    BY <2>1, <2>2 DEF Watching
  <2> QED BY <2>3 DEF Kept, Snapped
<1> QED BY <1>1, Invariant, PTL

(* The heartbeat checkpoints of extract_monitoring_evidence skip no work: an  *)
(* extraction that ends within its budget has put every candidate to the      *)
(* model, in one attempt or another.                                          *)
THEOREM CandidatesExamined == Spec => []AllExamined
<1>1. IInv => AllExamined
  BY DEF IInv, Calm, Extracting, AllExamined
<1> QED BY <1>1, Invariant, PTL

(* When detect_monitoring_changes ends, every piece of evidence of the cycle  *)
(* is part of a change event, unless max_new_events stopped it.               *)
THEOREM EvidenceReported == Spec => []AllReported
<1>1. IInv => AllReported
  BY DEF IInv, Calm, Reporting, AllReported, Linked
<1> QED BY <1>1, Invariant, PTL

(* max_llm_calls bounds the extraction calls of a cycle, those of failed      *)
(* attempts included: the call is counted in the row of the run before it is  *)
(* made.                                                                      *)
THEOREM BudgetRespected == Spec => []BudgetKept
<1>1. IInv => BudgetKept
  BY DEF IInv, Calm, Counting, BudgetKept
<1> QED BY <1>1, Invariant, PTL

(* Only the attempt that decides answers that the report may be updated.      *)
LEMMA OnlyDecided ==
    ASSUME [Next]_vars, verdict' # verdict, verdict' = "auto_patch"
    PROVE  \E t \in Threads : Decided(t)
<1>1. CASE Workflow \/ BeginCycle \/ Approved \/ Delivery \/ Service \/ UNCHANGED vars
  BY <1>1 DEF Workflow, Advance, EndCycle, BeginCycle, Approved, Delivery, Service, cycle, vars
<1>2. ASSUME NEW t \in Threads, Activity(t) PROVE Decided(t)
  <2>1. ~ContextSteps(t) /\ ~RecheckSteps(t) /\ ~FetchSteps(t) /\ ~SearchSteps(t)
    BY DEF ContextSteps, ContextBegin, AddTarget, ContextEnd, RecheckSteps, RecheckBegin, Rechecked, RecheckEnd,
        FetchSteps, PageFetched, Unreadable, FileUnchanged, FileSaved, FileParsed, FileRecorded,
        SearchSteps, SearchBegin, SourceAdded, SourceThere, SourceMarked, SearchDone, SearchEnd, cycle
  <2>2. ~ExtractSteps(t)
    BY DEF ExtractSteps, ExtractBegin, FetchedRow, Fetched, CandidatesListed, CandidateDone, Counted, Extracted,
        NothingExtracted, BadAnswer, Stored, ExtractEnd, cycle
  <2>3. ~DetectSteps(t)
    BY DEF DetectSteps, DetectBegin, EventFolded, EventNew, EventInserted, EventLinked, DetectEnd, cycle
  <2>4. UpdateSteps(t)
    BY <1>2, <2>1, <2>2, <2>3, ActivityKinds
  <2>5. ~NothingOpen(t)
    BY DEF NothingOpen, Answer
  <2> QED BY <2>4, <2>5 DEF UpdateSteps, UpdateBegin, Synthesized, SynthesisSaved, cycle
<1> QED BY <1>1, <1>2 DEF Next

(* Where no attempt outlives its activity, a cycle that updates the report on *)
(* its own (update_monitoring_report, mode "safe") does so on the events that *)
(* are open at that moment, and on harmless ones only: none disputes the last *)
(* word of a source, is uncertain, or overturns a core claim.  The events may *)
(* be detected in earlier cycles, of evidence that more was stored behind.    *)
THEOREM UpdatesAloneWhenHarmless == ASSUME ~Overlap PROVE Spec => AloneOnlyIfHarmless
<1>1. ASSUME IInv, [Next]_vars, verdict' = "auto_patch", verdict # "auto_patch"
      PROVE  MayUpdateAlone(Mode, Backed(OpenEvents), claims, evidence)
  <2>1. PICK t \in Threads : Decided(t)
    BY <1>1, OnlyDecided
  <2>2. /\ thread[t].act = "update" /\ thread[t].at = "analyze"
        /\ task.by = t /\ Decision(thread[t].read) = "auto_patch"
    BY <1>1, <2>1 DEF Decided, Answer, At
  <2>3. thread[t].read = Backed(OpenEvents)
    BY <1>1, <2>2 DEF IInv, InStep, On, Reading
  <2>4. ASSUME NEW ev \in Backed(OpenEvents) PROVE Detected(ev, evidence)
    <3>1. PICK e \in OpenEvents :
            ev.type = events[e].type /\ ev.conf = events[e].conf /\ ev.first = events[e].first
      BY DEF Backed
    <3>2. Detected(events[e], evidence)
      BY <1>1, <3>1 DEF IInv, EventsDetected, OpenEvents
    <3> QED BY <3>1, <3>2 DEF Detected
  <2> QED BY <2>2, <2>3, <2>4, AutoPatchIsHarmless DEF Decision
<1>2. IInv /\ [Next]_vars =>
        [verdict' = "auto_patch" /\ verdict # "auto_patch"
           => MayUpdateAlone(Mode, Backed(OpenEvents), claims, evidence)]_vars
  BY <1>1
<1> QED BY <1>2, Invariant, PTL DEF Spec, AloneOnlyIfHarmless
=============================================================================
