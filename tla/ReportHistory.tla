---------------------------- MODULE ReportHistory ----------------------------
(***************************************************************************)
(* What the owner of a report may expect of its updates, whoever publishes  *)
(* them: monitoring cycles offer updates, and each of them ends up in the   *)
(* report once or not at all.                                              *)
(*                                                                         *)
(* The promise: the report only grows, version by version; every version    *)
(* after the first carries an update that was on offer at that moment; an   *)
(* update that was rejected or found unfit is published no more, unless the *)
(* cycle that made it is running still and offers it again.                 *)
(***************************************************************************)
EXTENDS Naturals, Sequences

VARIABLES history,  \* the updates in the report, in the order of its versions
          fate,     \* fate[p]: what has become of the p-th update
          running   \* the updates of the monitoring cycle that runs

historyVars == <<history, fate, running>>

Fates == {"offered", "withdrawn", "published"}

HistoryInit == history = <<>> /\ fate = <<>> /\ running = {}

(* A new monitoring cycle. *)
Begin == running' = {} /\ UNCHANGED <<history, fate>>

(* The cycle makes an update ... *)
Suggest ==
    /\ fate' = Append(fate, "offered")
    /\ running' = running \union {Len(fate) + 1}
    /\ UNCHANGED history

Becomes(p, from, to) == fate[p] = from /\ fate' = [fate EXCEPT ![p] = to]

(* ... or offers again one that it has made itself.                          *)
Renew(p) ==
    p \in running /\ Becomes(p, "withdrawn", "offered") /\ UNCHANGED <<history, running>>

Withdraw(p) == Becomes(p, "offered", "withdrawn") /\ UNCHANGED <<history, running>>

Publish(p) ==
    /\ Becomes(p, "offered", "published")
    /\ history' = Append(history, p)
    /\ UNCHANGED running

HistoryNext ==
    Begin \/ Suggest \/ \E p \in DOMAIN fate : Renew(p) \/ Withdraw(p) \/ Publish(p)

ReportedHistory == HistoryInit /\ [][HistoryNext]_historyVars

-----------------------------------------------------------------------------
(* What the owner can rely on. *)

HistoryTypes ==
    /\ fate \in Seq(Fates)
    /\ history \in Seq(DOMAIN fate)
    /\ running \subseteq DOMAIN fate

(* The report carries the published updates and no others, each of them once. *)
PublishedAreCarried ==
    /\ \A p \in DOMAIN fate : fate[p] = "published" <=> \E n \in DOMAIN history : history[n] = p
    /\ \A m, n \in DOMAIN history : history[m] = history[n] => m = n

(* The report is never rewritten: what it carries it goes on carrying.        *)
OnlyGrows ==
    [][\A n \in DOMAIN history : n \in DOMAIN history' /\ history'[n] = history[n]]_historyVars
=============================================================================
