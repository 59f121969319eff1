---------------------------- MODULE DeltaAnalysis ----------------------------
(***************************************************************************)
(* What one cycle of MonitoringCycleWorkflow finds out: the watched sources *)
(* are fetched again, new ones are searched for and fetched, the model      *)
(* extracts evidence from what is new, the evidence becomes change events,  *)
(* and the open events are weighed against the claims of the report.        *)
(* Activity by activity, transaction by transaction, with heartbeat         *)
(* checkpoints, retries, attempts that were given up and still write, and   *)
(* crashes.  The patch a decision leads to is module ReportPublication; when *)
(* the cycle runs is module MonitorSchedule.                                *)
(*                                                                         *)
(* A page is reduced to the one value it states about the one fact all      *)
(* sources speak of; its text and content hash are that value.  Left out:   *)
(* profile_datasets and run_incremental_analysis, redirects, the counters   *)
(* shown to the user, and limits that are 0 (unlimited) by default.         *)
(***************************************************************************)
EXTENDS ActivityTasks, ChangeImpact

CONSTANTS NumSources,  \* sources the job may ever know, S-001, S-002, ...
          Known,       \* the first of them are the fetched sources of the research
          Watchable,   \* sources _classify_watch_target has a type for
          Values,      \* what a page may state
          Says,        \* Says[v]: type, word and conf of the evidence in it
          Baseline,    \* the value the report was written from
          Pasts,       \* value the first source was last seen with, and the sources
                       \* that are files, not readable as web pages, to begin with
          Claims,      \* the claims of the report
          Conclusions, \* further claims the model may synthesize
          Mode,        \* monitoring mode of the job
          MaxSections, \* settings.monitor_max_auto_patch_sections
          MaxLlm,      \* settings.monitor_max_llm_calls
          MaxEvents,   \* settings.monitor_max_new_events
          Attempts,    \* maximum_attempts of the activities
          MaxCycles,   \* bound: cycles
          MaxTroubles, \* bound: attempts given up, failed attempts and crashes together
          Overlap      \* bound: may a given-up attempt outlive its activity?

Sources == 1..NumSources
Cycles == 1..MaxCycles

ASSUME SourcesAssumption == Known \in Sources /\ Watchable \subseteq Sources
ASSUME ValuesAssumption == Baseline \in Values /\ "none" \notin Values /\ 1 \in Watchable
ASSUME LimitsAssumption == {NumSources, MaxLlm, MaxEvents, MaxCycles} \subseteq Nat
ASSUME PastsAssumption == \A p \in Pasts : p.value \in Values /\ p.files \subseteq Sources

VARIABLES
    run,        \* the running monitoring run, 0 before the first
    rows,       \* monitoring_runs: status, stage and llm_call_count of each run
    source,     \* sources: status, and the value of content_hash and raw_text
    files,      \* sources that are files (what the web serves, not a table)
    assets,     \* source_assets: the versions of each file that were saved
    targets,    \* monitoring_watch_targets
    snaps,      \* monitoring_source_snapshots, oldest first
    evidence,   \* evidence, E-001, E-002, ...
    events,     \* change_events with their evidence links
    claims,     \* active claims
    beat,       \* heartbeat details of the current activity
    work,       \* work[t]: the local variables of the attempt on thread t
    verdict,    \* what update_monitoring_report_activity answered
    calls, examined, before  \* history: extraction calls of each run, snapshots put to
                             \* the model, content hashes at the start of the cycle

vars == <<taskVars, run, rows, source, files, assets, targets, snaps, evidence,
          events, claims, beat, work, verdict, calls, examined, before>>
found == <<source, files, assets, targets, snaps>>       \* what the web said
known == <<evidence, events, claims>>             \* what was made of it
cycle == <<run, rows, verdict, before>>
history == <<calls, examined>>

NoBeat == [phase |-> "none", index |-> 0]
NoWork == [run |-> 0, todo |-> {}, val |-> "none",
           src |-> 0, llm |-> 0, from |-> NoBeat]

Running == [status |-> "running", stage |-> "started", llm |-> 0]
SetStage(r, stage) == rows' = [rows EXCEPT ![r].stage = stage]

SnapsOf(r) == {n \in DOMAIN snaps : snaps[n].run = r}

-----------------------------------------------------------------------------
(* The loops of the activities.  work[t].todo is what is left to go through: *)
(* sources, snapshots, evidence items or queries, each with its index in the *)
(* loop, which is its place in the order of their numbers.                    *)

Entry(x, base, index) == [at |-> x, base |-> base, index |-> index]
Place(x, S) == Cardinality({y \in S : y <= x})
Item(t) == CHOOSE x \in work[t].todo : \A y \in work[t].todo : x.index <= y.index
Source(t) == Item(t).at

Entries(S) == {Entry(x, "none", Place(x, S)) : x \in S}

(* _monitoring_heartbeat_checkpoint: items up to the index are passed over.   *)
Remaining(entries, at, phase) == {x \in entries : at.phase = phase => x.index > at.index}

Enter(t, entries) ==
    work' = [work EXCEPT ![t] = [NoWork EXCEPT !.run = run, !.from = beat, !.todo = entries]]
Leave(t) == work' = [work EXCEPT ![t] = NoWork]
Learn(t, v) == work' = [work EXCEPT ![t].val = v]

(* Mutant of Beat: it also speaks for the next item.                          *)
BeatAhead(t, phase) ==
    beat' = IF task.by = t THEN [phase |-> phase, index |-> Item(t).index + 1] ELSE beat

(* _record_monitoring_heartbeat; that of a given-up attempt does not count.   *)
Beat(t, phase) ==
    beat' = IF task.by = t THEN [phase |-> phase, index |-> Item(t).index] ELSE beat

(* The last heartbeats before a failure may not have reached the service.     *)
EarlierBeats ==
    {beat, NoBeat} \union {[beat EXCEPT !.index = k] : k \in 1..beat.index}
    \union (IF beat.phase = "evidence" THEN {[phase |-> "fetch", index |-> s] : s \in Sources} ELSE {})

NextItem(t) == work' = [work EXCEPT ![t].todo = @ \ {Item(t)}]

Proceed(t, phase) == Beat(t, phase) /\ NextItem(t) /\ GoTo(t, "item", thread[t].read)

AddSnapshot(t, s, text, how) ==
    snaps' = Append(snaps, [run |-> work[t].run, source |-> s, text |-> text, how |-> how])

SetSource(s, status, value) ==
    source' = [source EXCEPT ![s] = [status |-> status, value |-> value]]

-----------------------------------------------------------------------------
(* load_monitor_context: the first cycle chooses the sources to watch, in     *)
(* one transaction each; a cycle that finds some takes them as they are.      *)
ContextBegin(t) ==
    /\ At(t, "context", "start")
    /\ GoTo(t, "choose", IF targets # {} THEN {}
                         ELSE {s \in Watchable : source[s].status = "fetched"})
    /\ Enter(t, {})
    /\ UNCHANGED <<found, known, cycle, beat, history>>

AddTarget(t) ==
    /\ At(t, "context", "choose")
    /\ \E s \in thread[t].read :
         /\ \A r \in thread[t].read : s <= r
         /\ targets' = targets \union {s}
         /\ GoTo(t, "choose", thread[t].read \ {s})
    /\ UNCHANGED <<source, files, assets, snaps, known, cycle, beat, work, history>>

ContextEnd(t) ==
    /\ At(t, "context", "choose") /\ thread[t].read = {}
    /\ SetStage(work[t].run, "delta_plan_created")
    /\ Return(t)
    /\ Leave(t)
    /\ UNCHANGED <<run, verdict, before, found, known, beat, history>>

-----------------------------------------------------------------------------
(* Fetching a page or a file, for recheck and for the new sources alike.      *)

Fetching(t) == (At(t, "recheck", "item") \/ At(t, "extract", "item")) /\ work[t].todo # {}
Phase(t) == IF thread[t].act = "recheck" THEN "recheck" ELSE "fetch"

PageFetched(t) ==
    /\ Fetching(t) /\ Source(t) \notin files
    /\ \E v \in Values : Learn(t, v)
    /\ GoTo(t, "page", {})
    /\ UNCHANGED <<found, known, cycle, beat, history>>

(* Neither page nor file: recheck records a snapshot without content, the     *)
(* other fetch gives the source up.                                           *)
Unreadable(t) ==
    /\ Fetching(t) \/ At(t, "recheck", "file") \/ At(t, "extract", "file")
    /\ IF thread[t].act = "recheck"
       THEN AddSnapshot(t, Source(t), "none", "recheck") /\ UNCHANGED source
       ELSE SetSource(Source(t), "failed", "none") /\ UNCHANGED snaps
    /\ Proceed(t, Phase(t))
    /\ UNCHANGED <<files, assets, targets, known, cycle, history>>

(* _download_parse_monitoring_asset.  A version of the file that was saved    *)
(* before, by whichever attempt, is "unchanged".                              *)
FileUnchanged(t) ==
    /\ Fetching(t) /\ Source(t) \in files /\ assets[Source(t)] # {}
    /\ AddSnapshot(t, Source(t), "none", "asset")
    /\ Proceed(t, Phase(t))
    /\ UNCHANGED <<source, files, assets, targets, known, cycle, history>>

FileSaved(t) ==
    /\ Fetching(t) /\ Source(t) \in files
    /\ \E v \in Values \ assets[Source(t)] :
         /\ assets' = [assets EXCEPT ![Source(t)] = @ \union {v}]
         /\ Learn(t, v)
    /\ GoTo(t, "file", {})
    /\ UNCHANGED <<source, files, targets, snaps, known, cycle, beat, history>>

FileParsed(t) ==
    /\ At(t, "recheck", "file") \/ At(t, "extract", "file")
    /\ AddSnapshot(t, Source(t), work[t].val, "asset")
    /\ GoTo(t, "parsed", {})
    /\ UNCHANGED <<source, files, assets, targets, known, cycle, beat, work, history>>

FileRecorded(t) ==
    /\ At(t, "recheck", "parsed") \/ At(t, "extract", "parsed")
    /\ SetSource(Source(t), "fetched", work[t].val)
    /\ Proceed(t, Phase(t))
    /\ UNCHANGED <<files, assets, targets, snaps, known, cycle, history>>

-----------------------------------------------------------------------------
(* recheck_monitored_sources: the targets, with the content hash they have    *)
(* when the attempt begins.                                                   *)
RecheckBegin(t) ==
    /\ At(t, "recheck", "start")
    /\ LET entries == {Entry(s, source[s].value, Place(s, targets)) : s \in targets}
       IN Enter(t, Remaining(entries, beat, "recheck"))
    /\ GoTo(t, "item", {})
    /\ UNCHANGED <<found, known, cycle, beat, history>>

Changed(t) == Item(t).base # "none" /\ work[t].val # Item(t).base

SnapshotOf(t) == AddSnapshot(t, Source(t), IF Changed(t) THEN work[t].val ELSE "none", "recheck")
RowOf(t) == IF work[t].val # Item(t).base
            THEN SetSource(Source(t), "fetched", work[t].val) ELSE UNCHANGED source

(* Mutant of Rechecked: the row before the snapshot.                          *)
RecheckedRowFirst(t) ==
    /\ \/ At(t, "recheck", "page") /\ RowOf(t) /\ GoTo(t, "row", {})
          /\ UNCHANGED <<snaps, beat, work>>
       \/ At(t, "recheck", "row") /\ SnapshotOf(t) /\ Proceed(t, "recheck")
          /\ UNCHANGED source
    /\ UNCHANGED <<files, assets, targets, known, cycle, history>>

(* The snapshot first, with the text only if the content changed; then the    *)
(* row of the source.                                                         *)
Rechecked(t) ==
    /\ \/ At(t, "recheck", "page") /\ SnapshotOf(t) /\ GoTo(t, "row", {})
          /\ UNCHANGED <<source, beat, work>>
       \/ At(t, "recheck", "row") /\ RowOf(t) /\ Proceed(t, "recheck")
          /\ UNCHANGED snaps
    /\ UNCHANGED <<files, assets, targets, known, cycle, history>>

RecheckEnd(t) ==
    /\ At(t, "recheck", "item") /\ work[t].todo = {}
    /\ SetStage(work[t].run, "recheck_sources")
    /\ Return(t)
    /\ Leave(t)
    /\ UNCHANGED <<run, verdict, before, found, known, beat, history>>

-----------------------------------------------------------------------------
(* search_monitoring_sources: one query here.  Results whose canonical URL    *)
(* the job had when the attempt began are passed over.                        *)
SearchBegin(t) ==
    /\ At(t, "search", "start")
    /\ Enter(t, Remaining({Entry(1, "none", 1)}, beat, "search"))
    /\ GoTo(t, "item", {s \in Sources : source[s].status # "unknown"})
    /\ UNCHANGED <<found, known, cycle, beat, history>>

(* add_source numbers the sources in the order they are found.                *)
NextNew == {s \in Sources : source[s].status = "unknown"
                            /\ \A r \in 1..s - 1 : source[r].status # "unknown"}

SourceAdded(t) ==
    /\ At(t, "search", "item") /\ work[t].todo # {}
    /\ \E s \in NextNew :
         /\ SetSource(s, "searched", "none")
         /\ work' = [work EXCEPT ![t].src = s]
    /\ GoTo(t, "found", thread[t].read)
    /\ UNCHANGED <<files, assets, targets, snaps, known, cycle, beat, history>>

(* Another attempt added it after this one had listed the sources.            *)
SourceThere(t) ==
    /\ At(t, "search", "item") /\ work[t].todo # {}
    /\ \E s \in Sources \ thread[t].read :
         source[s].status # "unknown" /\ work' = [work EXCEPT ![t].src = s]
    /\ GoTo(t, "found", thread[t].read)
    /\ UNCHANGED <<found, known, cycle, beat, history>>

(* The snapshot that says which run found the source.                         *)
SourceMarked(t) ==
    /\ At(t, "search", "found")
    /\ AddSnapshot(t, work[t].src, "none", "search")
    /\ GoTo(t, "item", thread[t].read \union {work[t].src})
    /\ UNCHANGED <<source, files, assets, targets, known, cycle, beat, work, history>>

SearchDone(t) ==
    /\ At(t, "search", "item") /\ work[t].todo # {}
    /\ Proceed(t, "search")
    /\ UNCHANGED <<found, known, cycle, history>>

SearchEnd(t) ==
    /\ At(t, "search", "item") /\ work[t].todo = {}
    /\ SetStage(work[t].run, "search_sources")
    /\ Return(t)
    /\ Leave(t)
    /\ UNCHANGED <<run, verdict, before, found, known, beat, history>>

-----------------------------------------------------------------------------
(* extract_monitoring_evidence, first loop: the sources this run's search     *)
(* found, unless the checkpoint is past the fetching already.                 *)
ExtractBegin(t) ==
    /\ At(t, "extract", "start")
    /\ LET new == {s \in Sources : source[s].status = "searched"
                     /\ \E n \in SnapsOf(run) : snaps[n].source = s /\ snaps[n].how = "search"}
           entries == IF beat.phase = "evidence" THEN {} ELSE {Entry(s, "none", s) : s \in new}
       IN work' = [work EXCEPT ![t] = [NoWork EXCEPT !.run = run, !.from = beat, !.llm = rows[run].llm,
                                       !.todo = Remaining(entries, beat, "fetch")]]
    /\ GoTo(t, "item", {})
    /\ UNCHANGED <<found, known, cycle, beat, history>>

(* The row of the source first, here, and then the snapshot.                  *)
FetchedRow(t) ==
    /\ At(t, "extract", "page")
    /\ SetSource(Source(t), "fetched", work[t].val)
    /\ GoTo(t, "row", {})
    /\ UNCHANGED <<files, assets, targets, snaps, known, cycle, beat, work, history>>

Fetched(t) ==
    /\ At(t, "extract", "row")
    /\ AddSnapshot(t, Source(t), work[t].val, "fetch")
    /\ Proceed(t, "fetch")
    /\ UNCHANGED <<source, files, assets, targets, known, cycle, history>>

(* Second loop: of each fetched source the last snapshot of the run that has  *)
(* a text, in the order of the sources.                                       *)
WithText(r) == {n \in SnapsOf(r) : snaps[n].text # "none" /\ source[snaps[n].source].status = "fetched"}
LastOf(r) == {n \in WithText(r) : \A k \in WithText(r) : snaps[k].source = snaps[n].source => k <= n}
BySource(r) == LET sources == {snaps[n].source : n \in LastOf(r)}
               IN {Entry(n, "none", Place(snaps[n].source, sources)) : n \in LastOf(r)}

CandidatesListed(t) ==
    /\ At(t, "extract", "item") /\ work[t].todo = {}
    /\ work' = [work EXCEPT ![t].todo = Remaining(BySource(work[t].run), work[t].from, "evidence")]
    /\ GoTo(t, "candidate", {})
    /\ UNCHANGED <<found, known, cycle, beat, history>>

(* snapshot_has_evidence, as an earlier attempt left it.                      *)
CandidateDone(t) ==
    /\ At(t, "extract", "candidate") /\ work[t].todo # {} /\ work[t].llm < MaxLlm
    /\ \E i \in DOMAIN evidence : evidence[i].snap = Item(t).at
    /\ Beat(t, "evidence") /\ NextItem(t)
    /\ UNCHANGED <<taskVars, found, known, cycle, history>>

(* Mutant of Counted: the call is counted when the attempt is over.           *)
CountedLate(t) ==
    /\ At(t, "extract", "candidate") /\ work[t].todo # {} /\ work[t].llm < MaxLlm
    /\ \A i \in DOMAIN evidence : evidence[i].snap # Item(t).at
    /\ work' = [work EXCEPT ![t].llm = @ + 1]
    /\ GoTo(t, "ask", {})
    /\ UNCHANGED <<found, known, cycle, beat, history>>

(* The call is counted in the row of the run before it is made.               *)
Counted(t) ==
    /\ At(t, "extract", "candidate") /\ work[t].todo # {} /\ work[t].llm < MaxLlm
    /\ \A i \in DOMAIN evidence : evidence[i].snap # Item(t).at
    /\ work' = [work EXCEPT ![t].llm = @ + 1]
    /\ rows' = [rows EXCEPT ![work[t].run].llm = work[t].llm + 1]
    /\ GoTo(t, "ask", {})
    /\ UNCHANGED <<run, verdict, before, found, known, beat, history>>

Called(t) == calls' = [calls EXCEPT ![work[t].run] = @ + 1]

(* The evidence is what the text states, with the time the model read in it.  *)
Extracted(t) ==
    /\ At(t, "extract", "ask")
    /\ Called(t)
    /\ Learn(t, snaps[Item(t).at].text)
    /\ GoTo(t, "store", {})
    /\ UNCHANGED <<found, known, cycle, beat, examined>>

(* No evidence, or an error that is logged.                                   *)
NothingExtracted(t) ==
    /\ At(t, "extract", "ask")
    /\ Called(t)
    /\ examined' = examined \union {Item(t).at}
    /\ Beat(t, "evidence") /\ NextItem(t)
    /\ GoTo(t, "candidate", {})
    /\ UNCHANGED <<found, known, cycle>>

(* InvalidModelOutputError. *)
BadAnswer(t) ==
    /\ At(t, "extract", "ask") /\ timeouts + losses < MaxTroubles
    /\ Called(t)
    /\ Fault(t) /\ Leave(t)
    /\ UNCHANGED <<found, known, cycle, beat, examined>>

Quoted(s, n, v, at) ==
    [source |-> s, snap |-> n, fact |-> "fact", value |-> v, at |-> at,
     type |-> Says[v].type, word |-> Says[v].word, conf |-> Says[v].conf]

(* add_evidence: a quotation the source gave before is not stored again.      *)
Stored(t) ==
    /\ At(t, "extract", "store")
    /\ LET n == Item(t).at
           v == work[t].val
       IN IF \E i \in DOMAIN evidence : evidence[i].source = snaps[n].source /\ evidence[i].value = v
          THEN UNCHANGED evidence
          ELSE \E at \in {0, snaps[n].run + 2} :
                 evidence' = Append(evidence, Quoted(snaps[n].source, n, v, at))
    /\ examined' = examined \union {Item(t).at}
    /\ Beat(t, "evidence") /\ NextItem(t)
    /\ GoTo(t, "candidate", {})
    /\ UNCHANGED <<found, events, claims, cycle, calls>>

ExtractEnd(t) ==
    /\ At(t, "extract", "candidate") /\ (work[t].todo = {} \/ work[t].llm >= MaxLlm)
    /\ rows' = [rows EXCEPT ![work[t].run].stage = "extract_evidence", ![work[t].run].llm = work[t].llm]
    /\ Return(t)
    /\ Leave(t)
    /\ UNCHANGED <<run, verdict, before, found, known, beat, history>>

-----------------------------------------------------------------------------
(* detect_monitoring_changes: the evidence from this run's snapshots.  Events *)
(* the attempt knows of the run are in its read set.                          *)
OfRun(r) == {i \in DOMAIN evidence : evidence[i].snap \in SnapsOf(r)}

DetectBegin(t) ==
    /\ At(t, "detect", "start")
    /\ Enter(t, Remaining(Entries(OfRun(run)), beat, "change_detection"))
    /\ GoTo(t, "item", {e \in DOMAIN events : events[e].run = run})
    /\ UNCHANGED <<found, known, cycle, beat, history>>

Detecting(t) ==
    /\ At(t, "detect", "item") /\ work[t].todo # {}
    /\ Cardinality(thread[t].read) < MaxEvents

SameEvent(i) == {e \in DOMAIN events : events[e].print = Fingerprint(evidence, i)}

(* Mutant of EventFolded: only open events take evidence in.                  *)
EventFoldedOpen(t) ==
    /\ Detecting(t)
    /\ \E e \in SameEvent(Item(t).at) :
         /\ IF events[e].status = "detected"
            THEN events' = [events EXCEPT ![e].links = @ \union {Item(t).at}]
            ELSE UNCHANGED events
         /\ work' = [work EXCEPT ![t].src = e]
    /\ GoTo(t, "linked", thread[t].read)
    /\ UNCHANGED <<found, evidence, claims, cycle, beat, history>>

(* add_change_event finds the fingerprint: the evidence joins that event,     *)
(* whatever became of it.                                                     *)
EventFolded(t) ==
    /\ Detecting(t)
    /\ \E e \in SameEvent(Item(t).at) :
         /\ events' = [events EXCEPT ![e].links = @ \union {Item(t).at}]
         /\ work' = [work EXCEPT ![t].src = e]
    /\ GoTo(t, "linked", thread[t].read)
    /\ UNCHANGED <<found, evidence, claims, cycle, beat, history>>

EventNew(t) ==
    /\ Detecting(t)
    /\ SameEvent(Item(t).at) = {}
    /\ GoTo(t, "insert", thread[t].read)
    /\ UNCHANGED <<found, known, cycle, beat, work, history>>

(* Mutant of ChangeEvent: with the confidence the model has in the evidence.  *)
ChangeEventTrusting(r, i, c) ==
    [run |-> r, print |-> Fingerprint(evidence, i), source |-> c.source, type |-> c.type,
     level |-> c.level, conf |-> evidence[i].conf, first |-> i, links |-> {i}, against |-> {},
     status |-> "detected"]

ChangeEvent(r, i, c) ==
    [run |-> r, print |-> Fingerprint(evidence, i), source |-> c.source, type |-> c.type,
     level |-> c.level, conf |-> c.conf, first |-> i, links |-> {i}, against |-> {},
     status |-> "detected"]

(* The INSERT is a transaction of its own; a fingerprint another attempt      *)
(* inserted since is an IntegrityError.                                       *)
EventInserted(t) ==
    /\ At(t, "detect", "insert")
    /\ LET i == Item(t).at
           c == Candidate(evidence, i)
       IN IF SameEvent(i) # {} THEN Raise(t) /\ Leave(t) /\ UNCHANGED events
          ELSE /\ events' = Append(events, ChangeEvent(work[t].run, i, c))
               /\ work' = [work EXCEPT ![t].src = Len(events) + 1]
               /\ GoTo(t, "linked", thread[t].read)
    /\ UNCHANGED <<found, evidence, claims, cycle, beat, history>>

(* link_change_event_evidence for what the candidate contradicts.             *)
EventLinked(t) ==
    /\ At(t, "detect", "linked")
    /\ LET e == work[t].src
       IN /\ events' = [events EXCEPT ![e].against = @ \union Contradicted(evidence, Item(t).at)]
          /\ Beat(t, "change_detection") /\ NextItem(t)
          /\ GoTo(t, "item", thread[t].read \union {e})
    /\ UNCHANGED <<found, evidence, claims, cycle, history>>

DetectEnd(t) ==
    /\ At(t, "detect", "item") /\ ~Detecting(t)
    /\ SetStage(work[t].run, "detect_changes")
    /\ Return(t)
    /\ Leave(t)
    /\ UNCHANGED <<run, verdict, before, found, known, beat, history>>

-----------------------------------------------------------------------------
(* update_monitoring_report up to its decision.                               *)

(* list_evidence_backed_change_events(job_id, "open"). *)
OpenEvents == {e \in DOMAIN events : events[e].status = "detected" /\ events[e].links # {}}
Backed(es) == {[id |-> e, source |-> events[e].source, type |-> events[e].type,
                level |-> events[e].level, conf |-> events[e].conf, first |-> events[e].first,
                links |-> events[e].links \union events[e].against] : e \in es}

(* The result of an attempt the workflow waits for. *)
Answer(t, d) == Return(t) /\ verdict' = IF task.by = t THEN d ELSE verdict

NothingOpen(t) ==
    /\ At(t, "update", "start") /\ OpenEvents = {}
    /\ Answer(t, "no_change")
    /\ UNCHANGED <<run, rows, before, found, known, beat, work, history>>

(* An earlier attempt may have saved the synthesis; else the budget counts.   *)
UpdateBegin(t) ==
    /\ At(t, "update", "start") /\ OpenEvents # {}
    /\ IF /\ rows[run].stage \notin {"claims_synthesized", "decision"}
          /\ rows[run].llm >= MaxLlm
       THEN Raise(t) /\ UNCHANGED work
       ELSE /\ GoTo(t, IF rows[run].stage \in {"claims_synthesized", "decision"}
                      THEN "analyze" ELSE "synthesize", Backed(OpenEvents))
            /\ Enter(t, {})
    /\ UNCHANGED <<found, known, cycle, beat, history>>

(* add_claim takes a statement once, and only on evidence there is.           *)
Synthesized(t) ==
    /\ At(t, "update", "synthesize")
    /\ \E cs \in SUBSET {c \in Conclusions : c.cites \subseteq DOMAIN evidence} :
         claims' = claims \union cs
    /\ GoTo(t, "synthesized", thread[t].read)
    /\ UNCHANGED <<found, evidence, events, cycle, beat, work, history>>

(* ... and the count after the call: a crash between the two forgets it.      *)
SynthesisSaved(t) ==
    /\ At(t, "update", "synthesized")
    /\ rows' = [rows EXCEPT ![work[t].run].stage = "claims_synthesized", ![work[t].run].llm = @ + 1]
    /\ GoTo(t, "analyze", thread[t].read)
    /\ UNCHANGED <<run, verdict, before, found, known, beat, work, history>>

Decision(evs) == Decide(Mode, evs, Analyze(evs, claims, evidence), MaxSections)

Decided(t) ==
    /\ At(t, "update", "analyze")
    /\ SetStage(work[t].run, "decision")
    /\ Answer(t, Decision(thread[t].read))
    /\ Leave(t)
    /\ UNCHANGED <<run, before, found, known, beat, history>>

-----------------------------------------------------------------------------
(* MonitoringCycleWorkflow: the activities in their order.                    *)
Follows == [context |-> "recheck", recheck |-> "search", search |-> "extract",
            extract |-> "detect", detect |-> "update"]

Advance ==
    /\ task.by = "done" /\ task.act \in DOMAIN Follows
    /\ Overlap \/ \A t \in Threads : thread[t] = Idle
    /\ task' = Queued(Follows[task.act], Attempts)
    /\ beat' = NoBeat
    /\ UNCHANGED <<thread, timeouts, losses, found, known, cycle, work, history>>

Apply(es) == events' = [e \in DOMAIN events |-> IF e \in es THEN [events[e] EXCEPT !.status = "applied"]
                                               ELSE events[e]]

(* validate_monitoring_report and complete_monitoring_cycle: an automatic     *)
(* update is published, or refused and the cycle fails.                       *)
EndCycle ==
    /\ run > 0 /\ rows[run].status = "running"
    /\ \/ /\ task.by = "done" /\ task.act = "update"
          /\ \/ /\ rows' = [rows EXCEPT ![run].status = "completed"]
                /\ IF verdict \in {"evidence_only", "auto_patch"} THEN Apply(OpenEvents) ELSE UNCHANGED events
             \/ /\ verdict = "auto_patch"
                /\ rows' = [rows EXCEPT ![run].status = "failed"] /\ UNCHANGED events
       \/ /\ task.by \in {"failed", "rejected"}
          /\ rows' = [rows EXCEPT ![run].status = "failed"] /\ UNCHANGED events
    /\ UNCHANGED <<taskVars, run, verdict, before, found, evidence, claims, beat, work, history>>

(* The owner approves a patch that waits: its events are applied.             *)
Approved ==
    /\ verdict = "review_required" /\ rows[run].status = "completed"
    /\ OpenEvents # {} /\ Apply(OpenEvents)
    /\ UNCHANGED <<taskVars, evidence, claims, found, cycle, beat, work, history>>

BeginCycle ==
    /\ run < MaxCycles /\ (run > 0 => rows[run].status # "running")
    /\ run' = run + 1
    /\ rows' = [rows EXCEPT ![run + 1] = Running]
    /\ verdict' = "none" /\ before' = source
    /\ task' = Queued("context", Attempts) /\ beat' = NoBeat
    /\ UNCHANGED <<thread, timeouts, losses, found, known, work, history>>

(* The report was written from Baseline; an earlier cycle may have seen the    *)
(* first source state something else since, and its event was applied.        *)
Past(v) ==
    /\ source = [s \in Sources |-> IF s = 1 /\ v # Baseline THEN [status |-> "fetched", value |-> v]
                                   ELSE IF s <= Known THEN [status |-> "fetched", value |-> Baseline]
                                   ELSE [status |-> "unknown", value |-> "none"]]
    /\ assets = [s \in Sources |-> IF s <= Known /\ s \in files THEN {Baseline} \union {source[s].value}
                                   ELSE {}]
    /\ LET quoted == [s \in 1..Known |-> Quoted(s, 0, Baseline, 1)]
       IN IF v = Baseline
          THEN targets = {} /\ snaps = <<>> /\ evidence = quoted /\ events = <<>>
          ELSE /\ targets = {s \in Watchable : s <= Known}
               /\ snaps = <<[run |-> 0, source |-> 1, text |-> v, how |-> "recheck"]>>
               /\ evidence = Append(quoted, Quoted(1, 1, v, 2))
               /\ LET c == Candidate(evidence, Known + 1)
                  IN events = <<[ChangeEvent(0, Known + 1, c) EXCEPT !.status = "applied"]>>

Init ==
    /\ task = [act |-> "none", left |-> 0, by |-> "done"]
    /\ thread = [t \in Threads |-> Idle] /\ timeouts = 0 /\ losses = 0
    /\ run = 0 /\ rows = [r \in Cycles |-> [status |-> "none", stage |-> "none", llm |-> 0]]
    /\ \E p \in Pasts : files = p.files /\ Past(p.value)
    /\ before = source /\ claims = Claims
    /\ beat = NoBeat /\ work = [t \in Threads |-> NoWork] /\ verdict = "none"
    /\ calls = [r \in Cycles |-> 0] /\ examined = {}

Activity(t) ==
    \/ ContextBegin(t) \/ AddTarget(t) \/ ContextEnd(t)
    \/ RecheckBegin(t) \/ Rechecked(t) \/ RecheckEnd(t)
    \/ PageFetched(t) \/ Unreadable(t)
    \/ FileUnchanged(t) \/ FileSaved(t) \/ FileParsed(t) \/ FileRecorded(t)
    \/ SearchBegin(t) \/ SourceAdded(t) \/ SourceThere(t) \/ SourceMarked(t)
    \/ SearchDone(t) \/ SearchEnd(t)
    \/ ExtractBegin(t) \/ FetchedRow(t) \/ Fetched(t) \/ CandidatesListed(t)
    \/ CandidateDone(t) \/ Counted(t) \/ Extracted(t) \/ NothingExtracted(t)
    \/ BadAnswer(t) \/ Stored(t) \/ ExtractEnd(t)
    \/ DetectBegin(t) \/ EventFolded(t) \/ EventNew(t) \/ EventInserted(t)
    \/ EventLinked(t) \/ DetectEnd(t)
    \/ NothingOpen(t) \/ UpdateBegin(t) \/ Synthesized(t) \/ SynthesisSaved(t) \/ Decided(t)

Delivery == /\ \E t \in Threads : Pick(t)
            /\ UNCHANGED <<found, known, cycle, beat, work, history>>

(* A crash of the worker leaves these tables as an attempt that fails does.   *)
Service == /\ timeouts + losses < MaxTroubles
           /\ TimeOut \/ \E t \in Threads : Fault(t)
           /\ work' = [t \in Threads |-> IF thread'[t] = Idle THEN NoWork ELSE work[t]]
           /\ beat' \in IF task' # task THEN EarlierBeats ELSE {beat}
           /\ UNCHANGED <<found, known, cycle, history>>

Workflow == Advance \/ EndCycle

Next == Workflow \/ BeginCycle \/ Approved \/ Delivery \/ Service \/ \E t \in Threads : Activity(t)

Spec == Init /\ [][Next]_vars

-----------------------------------------------------------------------------

Passed(stages) == run > 0 /\ rows[run].stage \in stages

(* A change of a watched page is not lost between the attempts of recheck: if *)
(* its content hash was moved on in this cycle, a snapshot of the cycle has   *)
(* the text, so the evidence of it can still be found.                        *)
ChangeKept ==
    (Passed({"recheck_sources"}) /\ timeouts = 0)
      => \A s \in targets : source[s].value # before[s].value
           => \E n \in SnapsOf(run) : snaps[n].source = s /\ snaps[n].text = source[s].value

(* Checkpoints skip no work: an extraction that ends within its budget has    *)
(* put every candidate to the model, in one attempt or another.               *)
AllExamined ==
    (Passed({"extract_evidence"}) /\ timeouts = 0 /\ rows[run].llm < MaxLlm)
      => LastOf(run) \subseteq examined

(* Every piece of evidence of the cycle is part of a change event when        *)
(* detection ends, unless max_new_events stopped it.                          *)
AllReported ==
    (Passed({"detect_changes"}) /\ timeouts = 0 /\ Len(events) < MaxEvents)
      => \A i \in OfRun(run) : \E e \in DOMAIN events : i \in events[e].links

(* max_llm_calls bounds the extraction calls of a cycle, those of failed       *)
(* attempts included.  (The call of the synthesis is counted after it was     *)
(* made, and a crash between the two forgets it.)                             *)
BudgetKept == timeouts = 0 => \A r \in Cycles : calls[r] <= MaxLlm

(* A cycle that updates the report on its own does so on harmless changes     *)
(* only; the others wait for the owner.                                       *)
AloneOnlyIfHarmless ==
    [][verdict' = "auto_patch" /\ verdict # "auto_patch"
         => MayUpdateAlone(Mode, Backed(OpenEvents), claims, evidence)]_vars

=============================================================================
