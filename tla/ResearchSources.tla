--------------------------- MODULE ResearchSources ---------------------------
(***************************************************************************)
(* From the plan of a research job to its profiled tables: the activities   *)
(* ResearchWorkflow runs before it synthesizes claims.  The plan is made,   *)
(* sources are searched for and fetched as pages or, if that fails, as      *)
(* files, which are downloaded, parsed and made into datasets; evidence is  *)
(* extracted (module EvidenceExtraction) and the datasets are profiled.     *)
(* Every transaction is a step of its own, so that an attempt may fail, be  *)
(* given up or die between any two.                                         *)
(*                                                                         *)
(* A workflow that began before "split-source-assets-v1" runs the one       *)
(* activity fetch_sources in place of five.  max_fetched_pages is 0 (no     *)
(* limit), its default.  What is fetched concurrently has no effect before  *)
(* it is committed, and commits are made in the order of the sources.       *)
(***************************************************************************)
EXTENDS EvidenceExtraction

CONSTANTS Serves,     \* Serves[s]: what fetching source s may give
          Norm,       \* Norm[x]: text x without case, space and punctuation
          Files,      \* files, by their content
          FileText,   \* FileText[c]: the text in file c
          MaxTroubles \* bound: attempts that fail or are given up

ASSUME ServesAssumption ==
    \A s \in Sources : \A o \in Serves[s] :
        \/ o.kind = "page" /\ o.text \in DOMAIN Norm
        \/ o.kind = "file" /\ o.file \in Files
        \/ o.kind = "none"
ASSUME FilesAssumption == \A c \in Files : FileText[c] \in DOMAIN Norm

VARIABLES split,   \* workflow.patched("split-source-assets-v1")
          plan,    \* research_plans: is there a row
          asset,   \* source_assets by content: source_id and parse_status
          tables,  \* files whose parsed_tables are saved (one table a file)
          dataset, \* tabular_datasets: none, raw or profiled
          got,     \* got[t]: what the attempt on t is about to commit
          hashes,  \* hashes[t]: its normalized_hashes
          stray,   \* history: an attempt outlived its activity
          cut      \* history: files an attempt ended with between their tables and
                   \* their datasets

found == <<source, asset, tables, dataset, plan>>
locals == <<todo, got, hashes>>
vars == <<taskVars, found, evidence, checkpoint, locals, examined, split, stray, cut>>

NoCandidate == [src |-> 0, text |-> "none", file |-> "none", lands |-> 0, dup |-> FALSE]

Page(s, o) == [NoCandidate EXCEPT !.src = s, !.text = o.text, !.lands = o.lands]
File(s, c) == [NoCandidate EXCEPT !.src = s, !.file = c]

Hold(t, candidate) == got' = [got EXCEPT ![t] = candidate]
Source(t) == got[t].src
Norms == {Norm[source[s].text] : s \in Fetched}

(* Leaving an activity, with the locals of the attempt. *)
Forget(t) ==
    /\ todo' = [todo EXCEPT ![t] = {}]
    /\ got' = [got EXCEPT ![t] = NoCandidate]
    /\ hashes' = [hashes EXCEPT ![t] = {}]

Finish(t) == Return(t) /\ Forget(t)
Fail(t) == Raise(t) /\ Forget(t)

Row(s, status, text) == source' = [source EXCEPT ![s] = [status |-> status, text |-> text]]

-----------------------------------------------------------------------------
(* create_plan: once there is a plan it is kept. *)
PlanMade(t) ==
    /\ \/ At(t, "plan", "start") /\ plan /\ Finish(t) /\ UNCHANGED plan
       \/ At(t, "plan", "start") /\ ~plan /\ GoTo(t, "save", {}) /\ UNCHANGED <<plan, locals>>
       \/ At(t, "plan", "save") /\ plan' = TRUE /\ Finish(t)
    /\ UNCHANGED <<source, asset, tables, dataset, evidence, checkpoint, examined, split, stray, cut>>

(* search_sources: any source there is counts for all of them. *)
SearchBegin(t) ==
    /\ At(t, "search", "start")
    /\ IF Status("unknown") # Sources THEN Finish(t)
       ELSE \E n \in {0, NumSources} : List(t, 1..n) /\ GoTo(t, "add", {}) /\ UNCHANGED <<got, hashes>>
    /\ UNCHANGED <<found, evidence, checkpoint, examined, split, stray, cut>>

SourceAdded(t) ==
    /\ At(t, "search", "add") /\ todo[t] # {}
    /\ IF source[Current(t)].status = "unknown" THEN Row(Current(t), "searched", "none")
       ELSE UNCHANGED source
    /\ NextSource(t)
    /\ UNCHANGED <<taskVars, plan, asset, tables, dataset, evidence, checkpoint, got, hashes,
                   examined, split, stray, cut>>

SearchEnd(t) ==
    /\ At(t, "search", "add") /\ todo[t] = {}
    /\ IF Status("unknown") = Sources THEN Fail(t) ELSE Finish(t)
    /\ UNCHANGED <<found, evidence, checkpoint, examined, split, stray, cut>>

-----------------------------------------------------------------------------
(* discover_file_assets, and fetch_sources, which goes on after its           *)
(* checkpoint: the sources that are searched but not fetched.                 *)
Fetching(t) == thread[t].act \in {"discover", "fetch"}

FetchBegin(t) ==
    /\ At(t, "discover", "start") \/ At(t, "fetch", "start")
    /\ List(t, IF thread[t].act = "fetch" THEN After(Status("searched")) ELSE Status("searched"))
    /\ hashes' = [hashes EXCEPT ![t] = Norms]
    /\ GoTo(t, "item", {})
    /\ UNCHANGED <<found, evidence, checkpoint, got, examined, split, stray, cut>>

(* _commit_web_candidate and _commit_asset_candidate look for the content     *)
(* among the fetched sources and among what this attempt has accepted ...     *)
Duplicate(t, text) ==
    \/ \E s \in Fetched : source[s].text = text
    \/ Norm[text] \in hashes[t]

(* Mutant of Accepted: only the sources of earlier attempts are compared.     *)
AcceptedUnseen(t) == UNCHANGED hashes

(* ... and write the row in a transaction of its own.  The canonical URL a    *)
(* page redirects to may be that of another source: an IntegrityError.        *)
Accepted(t) == hashes' = [hashes EXCEPT ![t] = @ \union {Norm[got[t].text]}]

Redirected(t) == got[t].lands # 0 /\ source[got[t].lands].status # "unknown"

PageRead(t) ==
    /\ Fetching(t) /\ thread[t].at = "item" /\ todo[t] # {}
    /\ \E o \in Serves[Current(t)] :
         /\ o.kind = "page"
         /\ Hold(t, [Page(Current(t), o) EXCEPT !.dup = Duplicate(t, o.text)])
    /\ GoTo(t, "page", {})
    /\ UNCHANGED <<found, evidence, checkpoint, todo, hashes, examined, split, stray, cut>>

(* The end of one round of the loop. *)
Heartbeat(t) ==
    IF thread[t].act = "fetch" THEN Beat(t, Current(t)) ELSE UNCHANGED checkpoint

PageCommitted(t) ==
    /\ Fetching(t) /\ thread[t].at = "page"
    /\ \/ /\ got[t].dup /\ Row(Source(t), "failed", "none")
          /\ GoTo(t, "item", {}) /\ UNCHANGED hashes
          /\ Heartbeat(t) /\ NextSource(t) /\ Hold(t, NoCandidate)
       \/ /\ ~got[t].dup /\ ~Redirected(t)
          /\ Row(Source(t), "fetched", got[t].text) /\ Accepted(t)
          /\ GoTo(t, "item", {})
          /\ Heartbeat(t) /\ NextSource(t) /\ Hold(t, NoCandidate)
       \/ ~got[t].dup /\ Redirected(t) /\ Fail(t) /\ UNCHANGED <<source, checkpoint>>
    /\ UNCHANGED <<plan, asset, tables, dataset, evidence, examined, split, stray, cut>>

(* Not a page: discover leaves it to the download, fetch_sources tries it as  *)
(* a file at once.                                                            *)
PageUnread(t) ==
    /\ At(t, "discover", "item") /\ todo[t] # {}
    /\ \E o \in Serves[Current(t)] : o.kind # "page"
    /\ NextSource(t)
    /\ UNCHANGED <<taskVars, found, evidence, checkpoint, got, hashes, examined, split, stray, cut>>

FileTried(t) ==
    /\ At(t, "fetch", "item") /\ todo[t] # {}
    /\ \E o \in Serves[Current(t)] :
         \/ o.kind = "file" /\ Hold(t, File(Current(t), o.file)) /\ GoTo(t, "asset", {})
            /\ UNCHANGED <<source, checkpoint, todo>>
         \/ o.kind = "none" /\ Row(Current(t), "failed", "none")
            /\ Heartbeat(t) /\ NextSource(t) /\ UNCHANGED <<taskVars, got>>
    /\ UNCHANGED <<plan, asset, tables, dataset, evidence, hashes, examined, split, stray, cut>>

(* fetch_sources and parse_assets insist on one fetched source. *)
FetchEnd(t) ==
    /\ Fetching(t) /\ thread[t].at = "item" /\ todo[t] = {}
    /\ IF thread[t].act = "fetch" /\ Fetched = {} THEN Fail(t) ELSE Finish(t)
    /\ UNCHANGED <<found, evidence, checkpoint, examined, split, stray, cut>>

-----------------------------------------------------------------------------
(* save_source_asset.  The id of an asset is made of the job and its content, *)
(* so the same file from another source takes the row over.                   *)
SaveAsset(c, s) == asset' = [asset EXCEPT ![c] = [src |-> s, parse |-> "downloaded"]]
SetParse(c, status) == asset' = [asset EXCEPT ![c].parse = status]

(* download_assets: the searched sources without an asset. *)
DownloadBegin(t) ==
    /\ At(t, "download", "start")
    /\ List(t, Status("searched") \ {asset[c].src : c \in Files})
    /\ GoTo(t, "item", {})
    /\ UNCHANGED <<found, evidence, checkpoint, got, hashes, examined, split, stray, cut>>

Downloaded(t) ==
    /\ At(t, "download", "item") /\ todo[t] # {}
    /\ \E o \in Serves[Current(t)] :
         \/ o.kind = "file" /\ SaveAsset(o.file, Current(t)) /\ UNCHANGED source
         \/ o.kind = "none" /\ Row(Current(t), "failed", "none") /\ UNCHANGED asset
    /\ NextSource(t)
    /\ UNCHANGED <<taskVars, plan, tables, dataset, evidence, checkpoint, got, hashes,
                   examined, split, stray, cut>>

DownloadEnd(t) ==
    /\ At(t, "download", "item") /\ todo[t] = {}
    /\ Finish(t)
    /\ UNCHANGED <<found, evidence, checkpoint, examined, split, stray, cut>>

(* detect_asset_types marks assets of unknown type; download lets none pass.  *)
Detected(t) ==
    /\ At(t, "detect", "start") /\ Finish(t)
    /\ UNCHANGED <<found, evidence, checkpoint, examined, split, stray, cut>>

-----------------------------------------------------------------------------
(* parse_assets: the assets that are downloaded but not parsed.  The hashes   *)
(* are taken when all are parsed.                                             *)
Candidates == {[src |-> asset[c].src, file |-> c] : c \in {d \in Files : asset[d].parse = "downloaded"}}

ParseBegin(t) ==
    /\ At(t, "parse", "start")
    /\ GoTo(t, "parsed", Candidates)
    /\ UNCHANGED <<found, evidence, checkpoint, locals, examined, split, stray, cut>>

ParseDone(t) ==
    /\ At(t, "parse", "parsed")
    /\ hashes' = [hashes EXCEPT ![t] = Norms]
    /\ GoTo(t, "item", thread[t].read)
    /\ UNCHANGED <<found, evidence, checkpoint, todo, got, examined, split, stray, cut>>

ParseNext(t) ==
    /\ At(t, "parse", "item")
    /\ \E candidate \in thread[t].read :
         /\ Hold(t, File(candidate.src, candidate.file))
         /\ GoTo(t, "asset", thread[t].read \ {candidate})
    /\ UNCHANGED <<found, evidence, checkpoint, todo, hashes, examined, split, stray, cut>>

(* _commit_asset_candidate, transaction by transaction: the asset, ...        *)
Committing(t, p) == thread[t].act \in {"fetch", "parse"} /\ thread[t].at = p

AssetSaved(t) ==
    /\ Committing(t, "asset")
    /\ SaveAsset(got[t].file, Source(t))
    /\ \/ Hold(t, [got[t] EXCEPT !.text = FileText[got[t].file]]) /\ GoTo(t, "tables", thread[t].read)
       \/ UNCHANGED got /\ GoTo(t, "unreadable", thread[t].read)
    /\ UNCHANGED <<source, plan, tables, dataset, evidence, checkpoint, todo, hashes,
                   examined, split, stray, cut>>

(* ... what the parser made of it, of which parse_assets makes no datasets    *)
(* yet ...                                                                    *)
Compare(t) ==
    /\ Hold(t, [got[t] EXCEPT !.dup = Duplicate(t, got[t].text)])
    /\ GoTo(t, "status", thread[t].read)

TablesSaved(t) ==
    /\ Committing(t, "tables")
    /\ tables' = tables \union {got[t].file}
    /\ \/ thread[t].act = "parse" /\ Compare(t)
       \/ thread[t].act = "fetch" /\ GoTo(t, "dataset", thread[t].read) /\ UNCHANGED got
    /\ UNCHANGED <<source, plan, asset, dataset, evidence, checkpoint, todo, hashes, examined,
                   split, stray, cut>>

(* ... but fetch_sources does, in transactions of their own, ...              *)
DatasetSaved(t) ==
    /\ At(t, "fetch", "dataset")
    /\ dataset' = IF dataset[got[t].file] = "none" THEN [dataset EXCEPT ![got[t].file] = "raw"] ELSE dataset
    /\ Compare(t)
    /\ UNCHANGED <<source, plan, asset, tables, evidence, checkpoint, todo, hashes, examined,
                   split, stray, cut>>

(* ... its parse status ...                                                   *)
StatusSet(t) ==
    /\ Committing(t, "status") \/ Committing(t, "unreadable")
    /\ SetParse(got[t].file, IF thread[t].at = "status" THEN "parsed" ELSE "failed")
    /\ GoTo(t, "row", thread[t].read)
    /\ UNCHANGED <<source, plan, tables, dataset, evidence, checkpoint, locals, examined,
                   split, stray, cut>>

(* ... and the row of the source.                                             *)
FileCommitted(t) ==
    /\ Committing(t, "row")
    /\ IF got[t].text = "none" \/ got[t].dup
       THEN Row(Source(t), "failed", "none") /\ UNCHANGED hashes
       ELSE Row(Source(t), "fetched", got[t].text) /\ Accepted(t)
    /\ GoTo(t, "item", thread[t].read)
    /\ Hold(t, NoCandidate)
    /\ IF thread[t].act = "fetch" THEN Heartbeat(t) /\ NextSource(t) ELSE UNCHANGED <<checkpoint, todo>>
    /\ UNCHANGED <<plan, asset, tables, dataset, evidence, examined, split, stray, cut>>

ParseEnd(t) ==
    /\ At(t, "parse", "item") /\ thread[t].read = {}
    /\ IF Fetched = {} THEN Fail(t) ELSE Finish(t)
    /\ UNCHANGED <<found, evidence, checkpoint, examined, split, stray, cut>>

-----------------------------------------------------------------------------
(* normalize_datasets: the tables without a dataset, one by one.              *)
NormalizeBegin(t) ==
    /\ At(t, "normalize", "start")
    /\ GoTo(t, "item", {c \in tables : dataset[c] = "none"})
    /\ UNCHANGED <<found, evidence, checkpoint, locals, examined, split, stray, cut>>

Normalized(t) ==
    /\ At(t, "normalize", "item")
    /\ \E c \in thread[t].read :
         /\ dataset' = IF dataset[c] = "none" THEN [dataset EXCEPT ![c] = "raw"] ELSE dataset
         /\ GoTo(t, "item", thread[t].read \ {c})
    /\ UNCHANGED <<source, plan, asset, tables, evidence, checkpoint, locals, examined, split, stray, cut>>

NormalizeEnd(t) ==
    /\ At(t, "normalize", "item") /\ thread[t].read = {}
    /\ Finish(t)
    /\ UNCHANGED <<found, evidence, checkpoint, examined, split, stray, cut>>

(* profile_datasets: the profiles are saved as they are ready; one that could *)
(* not be made is raised when the others are saved.                           *)
ProfileBegin(t) ==
    /\ At(t, "profile", "start")
    /\ GoTo(t, "item", {c \in Files : dataset[c] = "raw"})
    /\ UNCHANGED <<found, evidence, checkpoint, locals, examined, split, stray, cut>>

Profiled(t) ==
    /\ At(t, "profile", "item")
    /\ \E c \in thread[t].read :
         /\ dataset' = [dataset EXCEPT ![c] = "profiled"]
         /\ GoTo(t, "item", thread[t].read \ {c})
    /\ UNCHANGED <<source, plan, asset, tables, evidence, checkpoint, locals, examined, split, stray, cut>>

(* Here got[t].dup stands for the list of errors. *)
ProfileFailed(t) ==
    /\ At(t, "profile", "item") /\ timeouts + losses < MaxTroubles
    /\ \E c \in thread[t].read :
         /\ thread' = [thread EXCEPT ![t].read = @ \ {c}]
         /\ losses' = losses + 1
    /\ Hold(t, [NoCandidate EXCEPT !.dup = TRUE])
    /\ UNCHANGED <<task, timeouts, found, evidence, checkpoint, todo, hashes, examined, split, stray, cut>>

(* Mutant of ProfileEnd: the errors are dropped. *)
ProfileEndQuietly(t) ==
    /\ At(t, "profile", "item") /\ thread[t].read = {}
    /\ Finish(t)
    /\ UNCHANGED <<found, evidence, checkpoint, examined, split, stray, cut>>

ProfileEnd(t) ==
    /\ At(t, "profile", "item") /\ thread[t].read = {}
    /\ IF got[t].dup THEN Fail(t) ELSE Finish(t)
    /\ UNCHANGED <<found, evidence, checkpoint, examined, split, stray, cut>>

-----------------------------------------------------------------------------
(* ResearchWorkflow up to the claims. *)
Follows == [plan |-> "search", search |-> IF split THEN "discover" ELSE "fetch",
            discover |-> "download", download |-> "detect", detect |-> "parse",
            parse |-> "normalize", normalize |-> "extract", fetch |-> "extract",
            extract |-> "profile"]

Advance ==
    /\ task.by = "done" /\ task.act \in DOMAIN Follows
    /\ task' = Queued(Follows[task.act], MaxAttempts)
    /\ checkpoint' = 0
    /\ stray' = (stray \/ \E t \in Threads : thread[t] # Idle)
    /\ UNCHANGED <<thread, timeouts, losses, found, evidence, locals, examined, split, cut>>

Init ==
    /\ task = Queued("plan", MaxAttempts)
    /\ thread = [t \in Threads |-> Idle] /\ timeouts = 0 /\ losses = 0
    /\ split \in BOOLEAN /\ plan = FALSE /\ stray = FALSE /\ cut = {}
    /\ source = [s \in Sources |-> [status |-> "unknown", text |-> "none"]]
    /\ asset = [c \in Files |-> [src |-> 0, parse |-> "none"]]
    /\ tables = {} /\ dataset = [c \in Files |-> "none"]
    /\ evidence = [s \in Sources |-> {}] /\ checkpoint = 0 /\ examined = {}
    /\ todo = [t \in Threads |-> {}] /\ hashes = [t \in Threads |-> {}]
    /\ got = [t \in Threads |-> NoCandidate]

Acquisition(t) ==
    \/ PlanMade(t) \/ SearchBegin(t) \/ SourceAdded(t) \/ SearchEnd(t)
    \/ FetchBegin(t) \/ PageRead(t) \/ PageCommitted(t) \/ PageUnread(t) \/ FileTried(t) \/ FetchEnd(t)
    \/ DownloadBegin(t) \/ Downloaded(t) \/ DownloadEnd(t) \/ Detected(t)
    \/ ParseBegin(t) \/ ParseDone(t) \/ ParseNext(t) \/ AssetSaved(t) \/ TablesSaved(t) \/ DatasetSaved(t)
    \/ StatusSet(t) \/ FileCommitted(t) \/ ParseEnd(t)
    \/ NormalizeBegin(t) \/ Normalized(t) \/ NormalizeEnd(t)
    \/ ProfileBegin(t) \/ Profiled(t) \/ ProfileFailed(t) \/ ProfileEnd(t)

Activity(t) ==
    \/ Acquisition(t)
    \/ Extraction(t) /\ UNCHANGED <<plan, asset, tables, dataset, got, hashes, split, stray, cut>>

Delivery == /\ \E t \in Threads : Pick(t)
            /\ UNCHANGED <<found, evidence, checkpoint, locals, examined, split, stray, cut>>

(* A model, network or repository error, a timeout; a crash of the worker     *)
(* leaves the tables as an attempt that fails does.                           *)
Service == /\ timeouts + losses < MaxTroubles
           /\ TimeOut \/ \E t \in Threads : Fault(t)
           /\ checkpoint' \in IF task' # task THEN EarlierBeats ELSE {checkpoint}
           /\ todo' = [t \in Threads |-> IF thread'[t] = Idle THEN {} ELSE todo[t]]
           /\ got' = [t \in Threads |-> IF thread'[t] = Idle THEN NoCandidate ELSE got[t]]
           /\ hashes' = [t \in Threads |-> IF thread'[t] = Idle THEN {} ELSE hashes[t]]
           /\ cut' = cut \union {got[t].file : t \in {u \in Threads : At(u, "fetch", "dataset")
                                                                   /\ thread'[u] = Idle}}
           /\ UNCHANGED <<found, evidence, examined, split, stray>>

Next == Advance \/ Delivery \/ Service \/ \E t \in Threads : Activity(t)

Spec == Init /\ [][Next]_vars

-----------------------------------------------------------------------------

(* "Deduplication happens before evidence extraction so repeated pages do not *)
(* inflate confidence": no two fetched sources have the same text but for     *)
(* case, space and punctuation.  (Two attempts at once may each accept one.)  *)
Unrepeated ==
    timeouts = 0 => \A r, s \in Fetched : Norm[source[r].text] = Norm[source[s].text] => r = s

(* Between their checkpoints the attempts of the extraction skip no source:   *)
(* when it has succeeded, every fetched source was put to the model.          *)
NoSourceSkipped ==
    ((task.act = "extract" /\ task.by = "done") \/ task.act = "profile") /\ ~stray
      => Fetched \subseteq examined

(* Every table found in a file is profiled when the workflow goes on to the   *)
(* claims, whatever attempts it took.  Only fetch_sources may leave one       *)
(* behind, without a dataset: if the attempt that saved it ended before       *)
(* save_tabular_dataset (activities.py 891-895), and the retry got something  *)
(* else from the source.                                                      *)
TablesProfiled ==
    (task.act = "profile" /\ task.by = "done" /\ ~stray)
      => \A c \in tables : \/ dataset[c] = "profiled"
                          \/ (dataset[c] = "none" /\ c \in cut /\ ~split)

=============================================================================
