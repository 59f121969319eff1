------------------------- MODULE EvidenceExtraction -------------------------
(***************************************************************************)
(* extract_evidence_activity: one attempt walks through the fetched sources *)
(* of a job in the order of their ids, asks the model for the evidence in   *)
(* each, stores the items one by one and, source by source, heartbeats the  *)
(* id it got to.  A retry starts after the last heartbeat the service       *)
(* recorded, and passes over a source that has evidence already.            *)
(* The activities that fetch the sources are module ResearchSources.        *)
(***************************************************************************)
EXTENDS ActivityTasks, FiniteSets

CONSTANTS NumSources,  \* sources the search of the job may find
          Facts,       \* evidence items a source may hold
          MaxAttempts  \* maximum_attempts of the activities (2 or 3 in ResearchWorkflow)

ASSUME SourcesAssumption ==
    NumSources \in Nat \ {0} /\ MaxAttempts \in Nat \ {0}

Sources == 1..NumSources

VARIABLES source,      \* sources: status and text of each row
          evidence,    \* evidence[s]: the items stored for source s
          checkpoint,  \* last_source_id in the heartbeat details, 0 for none
          todo,        \* todo[t]: the sources the attempt on t has yet to go through
          examined     \* history: the sources some attempt has put to the model

Status(status) == {s \in Sources : source[s].status = status}
Fetched == Status("fetched")

(* The sources are listed ORDER BY source_id. *)
Current(t) == CHOOSE s \in todo[t] : \A r \in todo[t] : s <= r
After(S) == {s \in S : s > checkpoint}

List(t, S) == todo' = [todo EXCEPT ![t] = S]
NextSource(t) == List(t, todo[t] \ {Current(t)})

(* _record_source_heartbeat; a given-up attempt is not listened to any more. *)
Beat(t, s) == checkpoint' = IF task.by = t THEN s ELSE checkpoint

(* The SDK sends heartbeats at intervals: when an attempt is over, the last  *)
(* ones may not have reached the service.                                    *)
EarlierBeats == 0..checkpoint

Extracting(t) == At(t, "extract", "source") /\ todo[t] # {}

ExtractBegin(t) ==
    /\ At(t, "extract", "start")
    /\ GoTo(t, "source", {})
    /\ List(t, After(Fetched))
    /\ UNCHANGED <<source, evidence, checkpoint, examined>>

(* source_has_evidence. *)
PassOver(t) ==
    /\ Extracting(t) /\ evidence[Current(t)] # {}
    /\ Beat(t, Current(t)) /\ NextSource(t)
    /\ UNCHANGED <<taskVars, source, evidence, examined>>

(* Mutant of Ask: the heartbeat comes before the work. *)
AskBeatingFirst(t) ==
    /\ Extracting(t) /\ evidence[Current(t)] = {}
    /\ Beat(t, Current(t))
    /\ GoTo(t, "asked", {})
    /\ UNCHANGED <<source, evidence, todo, examined>>

Ask(t) ==
    /\ Extracting(t) /\ evidence[Current(t)] = {}
    /\ GoTo(t, "asked", {})
    /\ UNCHANGED <<source, evidence, checkpoint, todo, examined>>

(* The model answers with some items ... *)
Answered(t) ==
    /\ At(t, "extract", "asked")
    /\ \E items \in SUBSET Facts \ {{}} : GoTo(t, "store", items)
    /\ examined' = examined \union {Current(t)}
    /\ UNCHANGED <<source, evidence, checkpoint, todo>>

(* ... with none, or with an error that is logged and passed over. *)
NothingFound(t) ==
    /\ At(t, "extract", "asked")
    /\ GoTo(t, "source", {})
    /\ examined' = examined \union {Current(t)}
    /\ Beat(t, Current(t)) /\ NextSource(t)
    /\ UNCHANGED <<source, evidence>>

(* add_evidence, a transaction of its own for each item. *)
Store(t) ==
    /\ At(t, "extract", "store")
    /\ \E f \in thread[t].read :
         /\ evidence' = [evidence EXCEPT ![Current(t)] = @ \union {f}]
         /\ GoTo(t, IF thread[t].read = {f} THEN "stored" ELSE "store",
                 thread[t].read \ {f})
    /\ UNCHANGED <<source, checkpoint, todo, examined>>

Stored(t) ==
    /\ At(t, "extract", "stored")
    /\ GoTo(t, "source", {})
    /\ Beat(t, Current(t)) /\ NextSource(t)
    /\ UNCHANGED <<source, evidence, examined>>

(* All sources done; with no evidence at all the activity raises. *)
ExtractEnd(t) ==
    /\ At(t, "extract", "source") /\ todo[t] = {}
    /\ IF \A s \in Sources : evidence[s] = {} THEN Raise(t) ELSE Return(t)
    /\ UNCHANGED <<source, evidence, checkpoint, todo, examined>>

Extraction(t) ==
    \/ ExtractBegin(t) \/ PassOver(t) \/ Ask(t) \/ Answered(t) \/ NothingFound(t)
    \/ Store(t) \/ Stored(t) \/ ExtractEnd(t)
=============================================================================
