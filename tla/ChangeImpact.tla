---------------------------- MODULE ChangeImpact ----------------------------
(***************************************************************************)
(* The pure half of the monitoring package: what a new piece of evidence    *)
(* says about an earlier one (change_detector.py), which claims of the      *)
(* report a change touches and how badly (impact_analyzer.py), and what is  *)
(* done about it (update_decider.py).  Texts are reduced to what they are   *)
(* compared by: the fact (entity and attribute), the value and the group of *)
(* words that names an event type.                                          *)
(***************************************************************************)
EXTENDS Naturals, Sequences, FiniteSets

CoreClaims == {"market_position", "business_model", "opportunity", "risk"}
ContradictTypes == {"product_discontinued", "feature_removed", "market_position_change"}
SupersedeTypes == {"target_customer_shift", "business_model_change"}
SupportTypes == {"new_evidence", "feature_added", "product_launch"}

NoClaim == [id |-> "none", type |-> "none", conf |-> "medium", cites |-> {}]

-----------------------------------------------------------------------------
(* change_detector.py.  An evidence item has a source, a fact, a value, the  *)
(* evidence_type and confidence the model gave it, the event type its words  *)
(* name ("none" for none), and the time it was observed (0 for unknown).     *)

ByEvidence(type) ==
    CASE type = "price" -> "price_change"
      [] type = "product_feature" -> "feature_added"
      [] type = "market_position" -> "market_position_change"
      [] type = "user_opinion" -> "sentiment_shift"
      [] type = "company_statement" -> "company_statement"
      [] OTHER -> "new_evidence"

EventType(e) ==
    IF e.word = "none" \/ (e.word = "feature_removed" /\ e.type # "product_feature")
    THEN ByEvidence(e.type) ELSE e.word

Newer(e, p) == e.at # 0 /\ p.at # 0 /\ e.at > p.at

(* The positions of the evidence on the same fact before position i. *)
Earlier(evidence, i) == {j \in 1..i - 1 : evidence[j].fact = evidence[i].fact}

(* The last of them, if its value is another one. *)
Differing(evidence, i) ==
    {j \in Earlier(evidence, i) :
        /\ \A k \in Earlier(evidence, i) : k <= j
        /\ evidence[j].value # evidence[i].value}

(* Without proof that it is the newer observation, it is a conflict.          *)
Contradicted(evidence, i) ==
    {j \in Differing(evidence, i) : ~Newer(evidence[i], evidence[j])}

Candidate(evidence, i) ==
    LET e == evidence[i] IN
    [source |-> e.source, type |-> EventType(e),
     level |-> IF e.type \in {"user_opinion", "company_statement"} THEN "low" ELSE "medium",
     conf |-> IF Contradicted(evidence, i) # {} THEN "conflicting" ELSE e.conf]

(* entity, event type, summary and value; the summary repeats them. *)
Fingerprint(evidence, i) == <<evidence[i].fact, EventType(evidence[i]), evidence[i].value>>

-----------------------------------------------------------------------------
(* impact_analyzer.py.  A change event has the fields of its candidate and   *)
(* the evidence linked to it.                                                *)

Citing(claims, ids) == {c \in claims : c.cites \intersect ids # {}}

Touched(ev, claims, evidence) ==
    LET facts == {evidence[i].fact : i \in ev.links}
    IN Citing(claims, {i \in DOMAIN evidence : \/ evidence[i].source = ev.source
                                               \/ evidence[i].fact \in facts})

ImpactType(ev) ==
    CASE ev.conf = "conflicting" -> "weakens"
      [] ev.type \in SupersedeTypes -> "supersedes"
      [] ev.type \in ContradictTypes -> "contradicts"
      [] ev.type \in SupportTypes -> "supports"
      [] OTHER -> "context"

Overturns(ev, c) == c.type \in CoreClaims /\ ImpactType(ev) \in {"contradicts", "supersedes"}

ImpactLevel(ev, c) ==
    IF Overturns(ev, c) /\ ev.level \in {"low", "medium"} THEN "high" ELSE ev.level

RequiresReview(ev, c) ==
    \/ ev.conf = "conflicting"
    \/ ImpactLevel(ev, c) \in {"high", "critical"}
    \/ Overturns(ev, c)

FallbackSection(ev) ==
    CASE ev.type = "new_source" -> "competitor_profile"
      [] ev.type = "new_evidence" -> "product_comparison"
      [] OTHER -> "uncertainty"

Impact(ev, c, section) ==
    [event |-> ev.id, claim |-> c.id, section |-> section, type |-> ImpactType(ev),
     level |-> ImpactLevel(ev, c), old |-> c.conf, conf |-> ev.conf,
     review |-> RequiresReview(ev, c)]

(* analyze: one impact for each claim an event touches, or one for the       *)
(* section an event belongs to that touches none.                            *)
Analyze(events, claims, evidence) ==
    UNION {LET touched == Touched(ev, claims, evidence)
           IN IF touched = {} THEN {Impact(ev, NoClaim, FallbackSection(ev))}
              ELSE {Impact(ev, c, c.type) : c \in touched} : ev \in events}

-----------------------------------------------------------------------------
(* update_decider.py: the checks in their order.                             *)

Doubtful(i) == i.review \/ i.level \in {"high", "critical"}
                        \/ i.conf \in {"conflicting", "low"}

Sections(impacts) == {i.section : i \in impacts}

OnlyConfirms(i) == i.type = "supports" /\ i.old = i.conf /\ ~i.review

Decide(mode, events, impacts, maxSections) ==
    CASE events = {} -> "no_change"
      [] events # {} /\ mode = "observe" -> "evidence_only"
      [] events # {} /\ mode \notin {"observe", "safe"} -> "review_required"
      [] OTHER ->
         IF \/ \E i \in impacts : Doubtful(i)
            \/ Cardinality(Sections(impacts)) > maxSections
         THEN "review_required"
         ELSE IF \A i \in impacts : OnlyConfirms(i) THEN "evidence_only" ELSE "auto_patch"

(* What an owner in "safe" mode relies on, said of the changes themselves:   *)
(* the report is updated without asking only if no change disputes the last   *)
(* observation of its fact, is uncertain, or overturns a claim at the core of *)
(* the report.                                                                *)
Undisputed(evidence, i) ==
    \A j \in Earlier(evidence, i) :
        \/ \E k \in Earlier(evidence, i) : k > j
        \/ evidence[j].value = evidence[i].value
        \/ evidence[j].at # 0 /\ evidence[j].at < evidence[i].at

Harmless(ev, claims, evidence) ==
    /\ ev.conf # "low" /\ Undisputed(evidence, ev.first)
    /\ \A c \in Touched(ev, claims, evidence) :
          c.type \in CoreClaims => ev.type \notin ContradictTypes \union SupersedeTypes

MayUpdateAlone(mode, events, claims, evidence) ==
    mode = "safe" /\ \A ev \in events : Harmless(ev, claims, evidence)
=============================================================================
