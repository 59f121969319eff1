----------------------- MODULE ReportPublicationProofs -----------------------
(***************************************************************************)
(* The updates of one report, for any number of handlers, threads, events   *)
(* and monitoring cycles and any number of crashes and lost attempts.       *)
(***************************************************************************)
EXTENDS ReportPublication, SequenceTheorems, TLAPS

PatchKinds == {"review_required", "auto_patch"}
Statuses == {"pending", "not_required", "published", "rejected", "deleted"}

Version == [parent : Nat, patch : Nat, by : {"research", "gateway", "worker"}]
Patch == [cycle : Nat, base : Nat, kind : PatchKinds, events : SUBSET Events,
          status : Statuses, version : Nat]
Cmd == [at : {"idle", "check", "number", "insert", "mark", "reject"}, patch : Nat, number : Nat]
Work == [base : Nat, events : SUBSET Events, kind : Kinds \union {"none"},
         patch : Nat, number : Nat]
Attempt == [act : {"none", "detect", "update", "validate"},
            at : {"none", "start", "store", "record", "check", "number", "insert", "mark"},
            read : {{}}]
Task == [act : {"none", "detect", "update", "validate"}, left : Nat,
         by : Threads \union {"queue", "done", "failed", "lost"}]

-----------------------------------------------------------------------------
(* The invariant. *)

TablesTyped ==
    /\ versions \in Seq(Version) /\ Len(versions) > 0
    /\ patches \in Seq(Patch)
    /\ event \in [Events -> {"none", "open", "applied"}]

PartiesTyped ==
    /\ cmd \in [Handlers -> Cmd] /\ work \in [Threads -> Work]
    /\ task \in Task /\ thread \in [Threads -> Attempt]
    /\ cycle \in Nat /\ draft \in Nat /\ decision \in Kinds \union {"none", "no_change"}

TypeOK == TablesTyped /\ PartiesTyped

(* Attempts are not given up while they go on: the one that runs is awaited. *)
Alone ==
    /\ \A t \in Threads : /\ thread[t] # Idle => thread[t].act # "none"
                          /\ thread[t].act # "none" => /\ task.by = t
                                                       /\ thread[t].act = task.act
    /\ task.act = "validate" => task.left <= 1
    /\ task.act = "none" => task.by = "done"

(* Versions and patches point at each other.                                 *)
Linked ==
    /\ versions[1].patch = 0
    /\ \A n \in DOMAIN versions \ {1} :
           /\ versions[n].patch \in DOMAIN patches
           /\ patches[versions[n].patch].version = n
           /\ patches[versions[n].patch].base = versions[n].parent
    /\ \A p \in DOMAIN patches :
           /\ patches[p].version # 0 =>
                  /\ patches[p].version \in DOMAIN versions \ {1}
                  /\ versions[patches[p].version].patch = p
           /\ patches[p].status = "published" => patches[p].version # 0

(* A patch waits for the owner or for the worker, as its kind says.          *)
ByKind ==
    \A p \in DOMAIN patches :
        /\ patches[p].status = "pending" => patches[p].kind = "review_required"
        /\ patches[p].status = "not_required" => patches[p].kind = "auto_patch"

(* Who has passed the check of patch p may publish it: no one has published   *)
(* it or turned it down since, and if the report has moved on, the other      *)
(* process has moved it.                                                     *)
Cleared(p, who) ==
    /\ Unpublished(p) /\ patches[p].version = 0
    /\ patches[p].base # Len(versions) => versions[Len(versions)].by # who

Publishing(c) == c.at \in {"number", "insert"}
Validating(t, places) == thread[t].act = "validate" /\ thread[t].at \in places

CommandHolds(c) ==
    /\ c.at # "idle" => /\ c.patch \in DOMAIN patches
                        /\ patches[c.patch].kind = "review_required"
    /\ Publishing(c) => Cleared(c.patch, "gateway")
    /\ c.at = "insert" => c.number <= Len(versions) + 1
    /\ c.at = "mark" => patches[c.patch].version # 0

CommandsHold ==
    /\ \A h \in Handlers : CommandHolds(cmd[h])
    /\ \A g, h \in Handlers : Publishing(cmd[g]) /\ Publishing(cmd[h]) => g = h

WorkHolds(t) ==
    /\ Validating(t, {"check", "number", "insert", "mark"}) =>
           /\ work[t].patch \in DOMAIN patches
           /\ patches[work[t].patch].kind = "auto_patch"
           /\ patches[work[t].patch].cycle = cycle
    /\ Validating(t, {"number", "insert"}) => Cleared(work[t].patch, "worker")
    /\ Validating(t, {"insert"}) => work[t].number <= Len(versions) + 1
    /\ Validating(t, {"mark"}) => patches[work[t].patch].version # 0

WorkerHolds == \A t \in Threads : WorkHolds(t)

(* Patches are made cycle by cycle, and one of this cycle has all events that *)
(* are open still.                                                           *)
CyclesInOrder ==
    /\ \A p \in DOMAIN patches : patches[p].cycle <= cycle
    /\ \A p, q \in DOMAIN patches : p <= q => patches[p].cycle <= patches[q].cycle
    /\ task.act \in {"none", "detect"} => \A p \in DOMAIN patches : patches[p].cycle # cycle
    /\ \A p \in DOMAIN patches : patches[p].cycle = cycle => Open \subseteq patches[p].events

Stored(t) == thread[t].act = "update" /\ thread[t].at = "record"

UpdateHolds ==
    /\ draft # 0 => draft \in DOMAIN patches /\ patches[draft].cycle = cycle
    /\ \A t \in Threads :
           /\ thread[t].act = "update" /\ thread[t].at \in {"store", "record"} =>
                  work[t].kind \in Kinds /\ Open \subseteq work[t].events
           /\ Stored(t) =>
                  /\ work[t].patch \in DOMAIN patches
                  /\ patches[work[t].patch].cycle = cycle
                  /\ work[t].kind \in PatchKinds
                  /\ work[t].kind = "auto_patch" =>
                         patches[work[t].patch].status = "not_required"

(* Until its validation has begun an automatic update has its patch.          *)
Undecided == \/ task.act \in {"none", "detect"}
             \/ task.act = "update" /\ task.by # "done"

Unvalidated ==
    \/ task.act = "update"
    \/ task.act = "validate" /\ task.by = "queue"
    \/ \E t \in Threads : Validating(t, {"start"})

DecisionBacked ==
    /\ Undecided => decision = "none"
    /\ decision = "auto_patch" /\ Unvalidated =>
           \E p \in DOMAIN patches :
               patches[p].cycle = cycle /\ patches[p].status = "not_required"

IInv == /\ TypeOK /\ Alone /\ Linked /\ ByKind /\ CommandsHold /\ WorkerHolds
        /\ CyclesInOrder /\ UpdateHolds /\ DecisionBacked /\ LinearPerProcess

-----------------------------------------------------------------------------
(* What a row of the tables is. *)

LEMMA Rows ==
    ASSUME TablesTyped
    PROVE  /\ DOMAIN versions = 1 .. Len(versions) /\ Len(versions) \in Nat \ {0}
           /\ DOMAIN patches = 1 .. Len(patches) /\ Len(patches) \in Nat
           /\ \A n \in DOMAIN versions : versions[n] \in Version
           /\ \A p \in DOMAIN patches : patches[p] \in Patch
BY ElementOfSeq, LenProperties DEF TablesTyped

(* Everything about a patch but its status and its version.                  *)
Kept == /\ DOMAIN patches' = DOMAIN patches
        /\ \A q \in DOMAIN patches :
               /\ patches'[q].cycle = patches[q].cycle /\ patches'[q].base = patches[q].base
               /\ patches'[q].kind = patches[q].kind
               /\ patches'[q].events = patches[q].events

(* A change of status touches one row, and no version.                       *)
LEMMA StatusWritten ==
    ASSUME TablesTyped, NEW p \in DOMAIN patches, NEW s \in Statuses,
           patches' = [patches EXCEPT ![p].status = s]
    PROVE  /\ patches' \in Seq(Patch) /\ Kept
           /\ \A q \in DOMAIN patches : patches'[q].version = patches[q].version
           /\ \A q \in DOMAIN patches \ {p} : patches'[q].status = patches[q].status
           /\ patches'[p].status = s
<1> DEFINE r == [patches[p] EXCEPT !.status = s]
<1>1. r \in Patch /\ r.status = s /\ r.cycle = patches[p].cycle /\ r.base = patches[p].base
      /\ r.kind = patches[p].kind /\ r.events = patches[p].events
      /\ r.version = patches[p].version
  BY Rows DEF Patch
<1>2. patches' = [patches EXCEPT ![p] = r]
  BY DEF TablesTyped
<1> HIDE DEF r
<1>3. patches' \in Seq(Patch)
  <2>1. p \in 1 .. Len(patches) /\ patches \in Seq(Patch)
    BY Rows DEF TablesTyped
  <2> QED BY <1>1, <1>2, <2>1, ExceptSeq
<1>4. DOMAIN patches' = DOMAIN patches /\ patches'[p] = r
      /\ \A q \in DOMAIN patches \ {p} : patches'[q] = patches[q]
  BY <1>2
<1> QED BY <1>1, <1>3, <1>4 DEF Kept

(* Under the check a publication appends the next version, of a patch that   *)
(* had none, on the version before or on one of the other process.           *)
LEMMA RowPublished ==
    ASSUME TablesTyped, Linked, ByKind, LinearPerProcess,
           NEW p \in DOMAIN patches, NEW n \in Nat, NEW who \in {"gateway", "worker"},
           Cleared(p, who), n <= Len(versions) + 1, ~Taken(n), PublishRow(p, n, who)
    PROVE  /\ versions' \in Seq(Version) /\ patches' \in Seq(Patch) /\ Kept
           /\ Linked' /\ ByKind' /\ LinearPerProcess'
           /\ \A q \in DOMAIN patches \ {p} : patches'[q] = patches[q]
           /\ patches'[p].version # 0
           /\ Len(versions') = Len(versions) + 1 /\ versions'[Len(versions')].by = who
<1> DEFINE v == [parent |-> patches[p].base, patch |-> p, by |-> who]
           r == [patches[p] EXCEPT !.status = "published", !.version = n]
<1>1. n = Len(versions) + 1 /\ n > 1
  BY Rows DEF Taken
<1>2. versions' = Append(versions, v) /\ v \in Version
      /\ v.parent = patches[p].base /\ v.patch = p /\ v.by = who
  BY Rows DEF PublishRow, Version, Patch
<1>3. r \in Patch /\ r.status = "published" /\ r.cycle = patches[p].cycle
      /\ r.base = patches[p].base /\ r.kind = patches[p].kind
      /\ r.events = patches[p].events /\ r.version = n
  BY Rows DEF Patch, Statuses
<1>4. patches' = [patches EXCEPT ![p] = r]
  BY DEF PublishRow, TablesTyped
<1> HIDE DEF v, r
<1>5. versions' \in Seq(Version) /\ Len(versions') = n /\ versions'[n] = v
      /\ DOMAIN versions' = 1 .. n /\ \A m \in 1 .. Len(versions) : versions'[m] = versions[m]
  BY <1>1, <1>2, AppendProperties, Rows, LenProperties DEF TablesTyped
<1>6. patches' \in Seq(Patch)
  BY <1>3, <1>4, ExceptSeq, Rows DEF TablesTyped
<1>7. DOMAIN patches' = DOMAIN patches /\ patches'[p] = r
      /\ \A q \in DOMAIN patches \ {p} : patches'[q] = patches[q]
  BY <1>4
<1>8. Kept
  BY <1>3, <1>7 DEF Kept
<1>9. ByKind'
  BY <1>3, <1>7 DEF ByKind
<1>10. Linked'
  <2>1. versions'[1].patch = 0
    BY <1>1, <1>5, Rows DEF Linked
  <2>2. ASSUME NEW m \in DOMAIN versions' \ {1}
        PROVE  /\ versions'[m].patch \in DOMAIN patches'
               /\ patches'[versions'[m].patch].version = m
               /\ patches'[versions'[m].patch].base = versions'[m].parent
    <3>1. CASE m = n
      BY <1>2, <1>3, <1>5, <1>7, <3>1
    <3>2. CASE m # n
      <4>1. m \in DOMAIN versions \ {1} /\ versions'[m] = versions[m]
        BY <1>1, <1>5, <2>2, <3>2, Rows
      <4>2. versions[m].patch # p
        BY <4>1, Rows DEF Linked, Cleared, Unpublished
      <4> QED BY <1>7, <4>1, <4>2 DEF Linked
    <3> QED BY <3>1, <3>2
  <2>3. ASSUME NEW q \in DOMAIN patches'
        PROVE  /\ patches'[q].version # 0 =>
                      /\ patches'[q].version \in DOMAIN versions' \ {1}
                      /\ versions'[patches'[q].version].patch = q
               /\ patches'[q].status = "published" => patches'[q].version # 0
    <3>1. CASE q = p
      BY <1>1, <1>2, <1>3, <1>5, <1>7, <3>1
    <3>2. CASE q # p
      BY <1>1, <1>5, <1>7, <2>3, <3>2, Rows DEF Linked
    <3> QED BY <3>1, <3>2
  <2> QED BY <2>1, <2>2, <2>3 DEF Linked
<1>11. LinearPerProcess'
  BY <1>1, <1>2, <1>5, Rows DEF LinearPerProcess, Cleared, Unpublished, Patch
<1> QED
  BY <1>1, <1>2, <1>3, <1>5, <1>6, <1>7, <1>8, <1>9, <1>10, <1>11

-----------------------------------------------------------------------------
(* What the parties know outlasts the steps of the others. *)

(* What the gateway's handlers know is not touched by a step that publishes   *)
(* nothing, or publishes for the worker.                                     *)
Untouched == /\ Kept /\ TablesTyped /\ UNCHANGED versions
             /\ \A q \in DOMAIN patches : patches'[q].version = patches[q].version

(* Patches of a kind that can be published go on being so. *)
StaysOpen(k) ==
    \A q \in DOMAIN patches :
        patches[q].kind = k /\ Unpublished(q) => patches'[q].status \in {"pending", "not_required"}

LEMMA UntouchedLinks ==
    ASSUME Untouched, Linked, LinearPerProcess,
           \A q \in DOMAIN patches : patches'[q].status = "published" =>
                                         patches[q].status = "published"
    PROVE  Linked' /\ LinearPerProcess'
BY Rows DEF Untouched, Kept, Linked, LinearPerProcess

LEMMA UntouchedCommands ==
    ASSUME Untouched, CommandsHold, UNCHANGED cmd, StaysOpen("review_required")
    PROVE  CommandsHold'
BY DEF Untouched, StaysOpen, Kept, CommandsHold, CommandHolds, Publishing, Cleared, Unpublished

LEMMA UntouchedWorker ==
    ASSUME Untouched, WorkerHolds, UNCHANGED <<thread, work, cycle>>,
           StaysOpen("auto_patch")
    PROVE  WorkerHolds'
BY DEF Untouched, StaysOpen, Kept, WorkerHolds, WorkHolds, Cleared, Unpublished, Validating

(* The cycle's patches go on covering the open events while no event becomes  *)
(* open and no patch is added.                                               *)
LEMMA KeptCycles ==
    ASSUME Kept, CyclesInOrder, Open' \subseteq Open, UNCHANGED <<task, cycle>>
    PROVE  CyclesInOrder'
BY DEF Kept, CyclesInOrder

(* The worker's patches are its own: the gateway leaves their status.        *)
LEMMA KeptUpdate ==
    ASSUME Kept, ByKind, UpdateHolds, DecisionBacked, Open' \subseteq Open,
           \A q \in DOMAIN patches : patches[q].kind = "auto_patch" =>
                                         patches'[q].status = patches[q].status,
           UNCHANGED <<task, thread, cycle, draft, decision, work>>
    PROVE  UpdateHolds' /\ DecisionBacked'
<1>1. UpdateHolds'
  BY DEF Kept, ByKind, UpdateHolds, Stored
<1>2. DecisionBacked'
  BY DEF Kept, ByKind, DecisionBacked, Undecided, Unvalidated, Validating
<1> QED BY <1>1, <1>2

(* Events that are marked are open no longer.                                *)
LEMMA AppliedShrinks ==
    ASSUME TablesTyped, NEW es, Applied(es)
    PROVE  event' \in [Events -> {"none", "open", "applied"}] /\ Open' \subseteq Open
BY DEF TablesTyped, Applied, Open

-----------------------------------------------------------------------------
(* The steps of the gateway. *)

(* A handler goes on to what it may do, the tables being as they were.       *)
LEMMA CommandMoves ==
    ASSUME cmd \in [Handlers -> Cmd], CommandsHold, NEW h \in Handlers, NEW c \in Cmd,
           cmd' = [cmd EXCEPT ![h] = c], CommandHolds(c), Publishing(c) => GatewayFree(h),
           UNCHANGED tables
    PROVE  cmd' \in [Handlers -> Cmd] /\ CommandsHold'
<1>1. cmd' \in [Handlers -> Cmd] /\ cmd'[h] = c /\ \A g \in Handlers \ {h} : cmd'[g] = cmd[g]
  OBVIOUS
<1>2. ASSUME NEW g \in Handlers
      PROVE  CommandHolds(cmd[g])' = CommandHolds(cmd'[g])
  BY DEF CommandHolds, Cleared, Unpublished, Publishing, tables
<1>3. \A g \in Handlers : CommandHolds(cmd[g])'
  BY <1>1, <1>2 DEF CommandsHold
<1>4. \A f, g \in Handlers : Publishing(cmd'[f]) /\ Publishing(cmd'[g]) => f = g
  BY <1>1 DEF CommandsHold, Publishing, GatewayFree
<1> QED BY <1>1, <1>3, <1>4 DEF CommandsHold, Publishing

LEMMA CommandKeeps ==
    ASSUME IInv, NEW h \in Handlers, CommandStep(h) \/ Command(h)
    PROVE  IInv'
<1> USE DEF IInv, TypeOK
<1>1. UNCHANGED <<task, thread, cycle, draft, decision, work>> /\ GatewayFree(h)
  BY DEF CommandStep, Command, PublishCheck, PublishNumber, PublishInsert, MarkApplied,
         RejectWrite, Approve, Reject, taskVars, run
<1>2. Alone'
  BY <1>1 DEF Alone
<1>3. ASSUME UNCHANGED tables, NEW c \in Cmd, CommandHolds(c), cmd' = [cmd EXCEPT ![h] = c]
      PROVE  IInv'
  <2>1. cmd' \in [Handlers -> Cmd] /\ CommandsHold'
    BY <1>1, <1>3, CommandMoves DEF PartiesTyped
  <2> QED
    BY <1>1, <1>2, <1>3, <2>1
    DEF TablesTyped, PartiesTyped, Linked, ByKind, WorkerHolds, WorkHolds, Cleared, Unpublished,
        Validating, CyclesInOrder, Open, UpdateHolds, Stored, DecisionBacked, Undecided,
        Unvalidated, LinearPerProcess, tables
<1>4. NoCmd \in Cmd /\ CommandHolds(NoCmd)
  BY DEF NoCmd, Cmd, CommandHolds, Publishing
<1>5. CommandHolds(cmd[h]) /\ cmd[h] \in Cmd
  BY DEF CommandsHold, PartiesTyped
<1> DEFINE Place(p, n, pos) == [at |-> pos, patch |-> p, number |-> n]
<1>6. \A p, n \in Nat, pos \in {"check", "number", "insert", "mark", "reject"} :
          /\ Place(p, n, pos) \in Cmd
          /\ Place(p, n, pos).at = pos /\ Place(p, n, pos).patch = p /\ Place(p, n, pos).number = n
  BY DEF Cmd
<1> HIDE DEF Place
<1>7. \A p \in DOMAIN patches : p \in Nat
  BY Rows
<1>8. ASSUME NEW p \in DOMAIN patches, Approve(h, p) \/ Reject(h, p)
      PROVE  IInv'
  <2>1. UNCHANGED tables /\ \E pos \in {"check", "reject"} :
                                cmd' = [cmd EXCEPT ![h] = Place(p, 0, pos)]
    BY <1>8 DEF Approve, Reject, CmdGoTo, Place
  <2>2. \A pos \in {"check", "reject"} : CommandHolds(Place(p, 0, pos))
    <3>1. patches[p].kind = "review_required"
      BY <1>8 DEF Approve, Reject, ByKind
    <3>2. ASSUME NEW pos \in {"check", "reject"} PROVE CommandHolds(Place(p, 0, pos))
      <4>1. Place(p, 0, pos).at = pos /\ Place(p, 0, pos).patch = p
        BY ONLY <1>6, <1>7, <1>8, <3>2
      <4> QED BY ONLY <1>8, <3>1, <3>2, <4>1 DEF CommandHolds, Publishing
    <3> QED BY <3>2
  <2> QED BY <1>3, <1>6, <1>7, <2>1, <2>2
<1>9. CASE PublishCheck(h)
  <2> DEFINE p == cmd[h].patch
  <2>1. p \in DOMAIN patches /\ p \in Nat /\ patches[p].kind = "review_required"
    BY <1>5, <1>7, <1>9 DEF PublishCheck, CommandHolds
  <2>2. CASE patches[p].status = "published"
    <3>1. CommandHolds(Place(p, 0, "mark"))
      BY <1>6, <2>1, <2>2 DEF CommandHolds, Publishing, Linked
    <3>2. UNCHANGED tables /\ cmd' = [cmd EXCEPT ![h] = Place(p, 0, "mark")]
      BY <1>9, <2>2 DEF PublishCheck, CmdGoTo, Place
    <3> QED BY <1>3, <1>6, <2>1, <3>1, <3>2
  <2>3. CASE patches[p].status # "published" /\ MayPublish(p)
    <3>1. CommandHolds(Place(p, 0, "number"))
      BY <1>6, <2>1, <2>3 DEF CommandHolds, Publishing, Cleared, Unpublished, MayPublish, Current
    <3>2. UNCHANGED tables /\ cmd' = [cmd EXCEPT ![h] = Place(p, 0, "number")]
      BY <1>9, <2>3 DEF PublishCheck, CmdGoTo, Place
    <3> QED BY <1>3, <1>6, <2>1, <3>1, <3>2
  <2>4. CASE patches[p].status # "published" /\ ~MayPublish(p)
    BY <1>3, <1>4, <1>9, <2>4 DEF PublishCheck, CmdEnds
  <2> QED BY <2>2, <2>3, <2>4
<1>10. CASE PublishNumber(h)
  <2> DEFINE p == cmd[h].patch
             n == Len(versions) + 1
  <2>1. p \in Nat /\ n \in Nat
    BY <1>5, Rows DEF Cmd
  <2>2. CommandHolds(Place(p, n, "insert"))
    BY <1>5, <1>6, <1>10, <2>1 DEF PublishNumber, CommandHolds, Publishing
  <2>3. UNCHANGED tables /\ cmd' = [cmd EXCEPT ![h] = Place(p, n, "insert")]
    BY <1>10 DEF PublishNumber, CmdGoTo, Place
  <2> QED BY <1>3, <1>6, <2>1, <2>2, <2>3
<1>11. CASE PublishInsert(h) /\ Taken(cmd[h].number)
  BY <1>3, <1>4, <1>11 DEF PublishInsert, CmdEnds, tables
<1>12. CASE PublishInsert(h) /\ ~Taken(cmd[h].number)
  <2> DEFINE p == cmd[h].patch
             n == cmd[h].number
  <2>1. /\ p \in DOMAIN patches /\ n \in Nat /\ patches[p].kind = "review_required"
        /\ Cleared(p, "gateway") /\ n <= Len(versions) + 1
        /\ PublishRow(p, n, "gateway") /\ cmd' = [cmd EXCEPT ![h] = Place(p, 0, "mark")]
        /\ event' = event /\ \A g \in Handlers \ {h} : ~Publishing(cmd[g])
        /\ ~Taken(n)
    BY <1>1, <1>5, <1>12
    DEF PublishInsert, CommandHolds, Publishing, CmdGoTo, Cmd, GatewayFree, Place
  <2> HIDE DEF p, n
  <2>2. /\ versions' \in Seq(Version) /\ patches' \in Seq(Patch) /\ Kept
        /\ Linked' /\ ByKind' /\ LinearPerProcess'
        /\ \A q \in DOMAIN patches \ {p} : patches'[q] = patches[q]
        /\ patches'[p].version # 0
        /\ Len(versions') = Len(versions) + 1 /\ versions'[Len(versions')].by = "gateway"
    BY <2>1, RowPublished
  <2>3. TablesTyped' /\ PartiesTyped'
    BY <1>1, <1>6, <1>7, <2>1, <2>2, Rows, SMTT(30) DEF TablesTyped, PartiesTyped
  <2>4. CommandsHold'
    <3>1. \A g \in Handlers \ {h} : cmd'[g] = cmd[g]
      BY <2>1 DEF PartiesTyped
    <3>2. cmd'[h] = Place(p, 0, "mark")
      BY <2>1 DEF PartiesTyped
    <3>3. CommandHolds(cmd[h])' /\ ~Publishing(cmd'[h])
      <4>1. cmd'[h].at = "mark" /\ cmd'[h].patch = p
        BY <1>6, <1>7, <2>1, <3>2
      <4> QED BY <2>1, <2>2, <4>1 DEF CommandHolds, Publishing, Kept
    <3>4. ASSUME NEW g \in Handlers \ {h}
          PROVE  CommandHolds(cmd[g])' /\ ~Publishing(cmd'[g])
      <4>1. cmd'[g] = cmd[g] /\ ~Publishing(cmd[g]) /\ CommandHolds(cmd[g])
        BY <2>1, <3>1 DEF CommandsHold
      <4>2. cmd[g].at = "mark" => patches'[cmd[g].patch].version # 0
        BY <2>1, <2>2, <4>1 DEF CommandHolds
      <4> QED BY <2>2, <4>1, <4>2 DEF CommandHolds, Publishing, Kept
    <3> QED BY <3>3, <3>4 DEF CommandsHold
  <2>5. WorkerHolds'
    <3>1. ASSUME NEW q \in DOMAIN patches, patches[q].kind = "auto_patch"
          PROVE  patches'[q] = patches[q] /\ (Cleared(q, "worker") => Cleared(q, "worker")')
      BY <2>1, <2>2, <3>1, Rows DEF Cleared, Unpublished
    <3>2. ASSUME NEW t \in Threads
          PROVE  WorkHolds(t)'
      <4>1. thread'[t] = thread[t] /\ work'[t] = work[t] /\ cycle' = cycle
        BY <1>1
      <4>2. WorkHolds(t)
        BY DEF WorkerHolds
      <4>3. CASE Validating(t, {"check", "number", "insert", "mark"})
        <5> DEFINE q == work[t].patch
        <5>1. q \in DOMAIN patches /\ patches[q].kind = "auto_patch"
          BY <4>2, <4>3 DEF WorkHolds
        <5>2. patches'[q] = patches[q] /\ (Cleared(q, "worker") => Cleared(q, "worker")')
          BY <4>1, <3>1, <5>1 DEF Cleared, Unpublished
        <5>3. work[t].number <= Len(versions) + 1 => work[t].number <= Len(versions') + 1
          BY <2>2, Rows DEF PartiesTyped, Work
        <5> QED BY <2>2, <4>1, <4>2, <5>1, <5>2, <5>3
        DEF WorkHolds, Validating, Kept, Cleared, Unpublished
      <4>4. CASE ~Validating(t, {"check", "number", "insert", "mark"})
        BY <4>1, <4>4 DEF WorkHolds, Validating
      <4> QED BY <4>3, <4>4
    <3> QED BY <3>2 DEF WorkerHolds
  <2>6. CyclesInOrder' /\ UpdateHolds' /\ DecisionBacked'
    BY <1>1, <2>1, <2>2, KeptCycles, KeptUpdate DEF Open
  <2> QED BY <1>2, <2>2, <2>3, <2>4, <2>5, <2>6
<1>13. CASE MarkApplied(h) \/ RejectWrite(h)
  <2>1. cmd' = [cmd EXCEPT ![h] = NoCmd] /\ UNCHANGED versions
    BY <1>13 DEF MarkApplied, RejectWrite, CmdEnds
  <2>2. CASE UNCHANGED tables
    BY <1>3, <1>4, <2>1, <2>2
  <2>3. CASE ~UNCHANGED tables
    <3>1. /\ event' \in [Events -> {"none", "open", "applied"}] /\ Open' \subseteq Open
          /\ patches' \in Seq(Patch) /\ Kept
          /\ \A q \in DOMAIN patches :
                 /\ patches'[q].version = patches[q].version
                 /\ patches[q].kind = "auto_patch" => patches'[q].status = patches[q].status
                 /\ \/ patches'[q].status = patches[q].status
                    \/ patches'[q].status = "rejected"
      <4>1. CASE MarkApplied(h)
        BY <4>1, AppliedShrinks DEF MarkApplied, TablesTyped, Kept
      <4>2. CASE RejectWrite(h)
        <5> DEFINE p == cmd[h].patch
        <5>1. p \in DOMAIN patches
          BY <1>5, <4>2 DEF RejectWrite, CommandHolds
        <5>2. patches' = [patches EXCEPT ![p].status = "rejected"] /\ UNCHANGED event
              /\ patches[p].status = "pending"
          BY <2>3, <4>2 DEF RejectWrite, tables
        <5>3. patches[p].kind = "review_required"
          BY <5>1, <5>2 DEF ByKind
        <5> HIDE DEF p
        <5> QED BY <5>1, <5>2, <5>3, StatusWritten DEF Statuses, TablesTyped, Open
      <4> QED BY <1>13, <4>1, <4>2
    <3>2. TablesTyped' /\ PartiesTyped'
      BY <1>1, <1>4, <2>1, <3>1 DEF TablesTyped, PartiesTyped
    <3>3. Untouched
      BY <2>1, <3>1 DEF Untouched
    <3>4. Linked' /\ LinearPerProcess' /\ WorkerHolds'
      <4>1. StaysOpen("auto_patch")
        BY <3>1 DEF StaysOpen, Unpublished
      <4> QED BY <1>1, <3>1, <3>3, <4>1, UntouchedLinks, UntouchedWorker
    <3>5. ByKind'
      BY <3>1 DEF ByKind, Kept
    <3>6. CyclesInOrder' /\ UpdateHolds' /\ DecisionBacked'
      BY <1>1, <3>1, KeptCycles, KeptUpdate
    <3>7. CommandsHold'
      <4>1. ASSUME NEW g \in Handlers
            PROVE  CommandHolds(cmd[g])' /\ (Publishing(cmd'[g]) => Publishing(cmd[g]))
        <5>1. cmd'[g] = cmd[g] \/ cmd'[g] = NoCmd
          BY <2>1 DEF PartiesTyped
        <5>2. CASE cmd'[g] = NoCmd
          BY <5>2 DEF CommandHolds, Publishing, NoCmd
        <5>3. CASE cmd'[g] = cmd[g] /\ cmd[g] # NoCmd
          <6>1. g # h
            BY <1>4, <2>1, <5>3 DEF PartiesTyped
          <6>2. ~Publishing(cmd[g])
            BY <1>1, <6>1 DEF GatewayFree, Publishing
          <6> QED BY <2>1, <3>1, <5>3, <6>2 DEF CommandsHold, CommandHolds, Publishing, Cleared,
                                                Unpublished, Kept
        <5> QED BY <5>1, <5>2, <5>3
      <4> QED BY <4>1 DEF CommandsHold
    <3> QED BY <1>2, <3>2, <3>4, <3>5, <3>6, <3>7
  <2> QED BY <2>2, <2>3
<1> QED BY <1>8, <1>9, <1>10, <1>11, <1>12, <1>13 DEF CommandStep, Command

-----------------------------------------------------------------------------
(* The steps of an attempt.  The others are idle meanwhile. *)

Busy(t) == /\ thread[t].act # "none" /\ task.by = t /\ thread[t].act = task.act
           /\ \A u \in Threads \ {t} : thread[u] = Idle

LEMMA OneIsBusy ==
    ASSUME Alone, NEW t \in Threads, thread[t].act # "none"
    PROVE  Busy(t)
BY DEF Alone, Busy

LEMMA GoesOn ==
    ASSUME PartiesTyped, Alone, NEW t \in Threads, Busy(t),
           NEW p \in {"start", "store", "record", "check", "number", "insert", "mark"},
           GoTo(t, p, {})
    PROVE  /\ thread' \in [Threads -> Attempt] /\ task' = task /\ Alone'
           /\ thread'[t].act = thread[t].act /\ thread'[t].at = p
           /\ \A u \in Threads \ {t} : thread'[u] = Idle
<1> DEFINE n == [thread[t] EXCEPT !.at = p, !.read = {}]
<1>1. thread' = [thread EXCEPT ![t] = n] /\ task' = task
  BY DEF PartiesTyped, GoTo
<1>2. n \in Attempt /\ n.act = thread[t].act /\ n.at = p
  BY DEF PartiesTyped, Attempt
<1> HIDE DEF n
<1>3. thread' \in [Threads -> Attempt] /\ thread'[t] = n
      /\ \A u \in Threads \ {t} : thread'[u] = thread[u]
  BY <1>1, <1>2 DEF PartiesTyped
<1> QED BY <1>1, <1>2, <1>3 DEF Alone, Busy

LEMMA GivenUpTyped ==
    ASSUME task \in Task
    PROVE  /\ GivenUp \in Task /\ GivenUp.act = task.act
           /\ GivenUp.by \in {"queue", "failed"} /\ GivenUp.left <= task.left
           /\ task.left <= 1 => GivenUp.by = "failed"
<1>1. CASE task.left > 1
  <2>1. GivenUp = [act |-> task.act, left |-> task.left - 1, by |-> "queue"]
    BY <1>1 DEF Task, GivenUp
  <2> QED BY <1>1, <2>1 DEF Task
<1>2. CASE ~(task.left > 1)
  <2>1. GivenUp = [act |-> task.act, left |-> 0, by |-> "failed"]
    BY <1>2 DEF Task, GivenUp
  <2> QED BY <1>2, <2>1 DEF Task
<1> QED BY <1>1, <1>2

(* When it is over no thread is busy.  A validation is not tried again.      *)
LEMMA IsOver ==
    ASSUME PartiesTyped, Alone, NEW t \in Threads, Busy(t),
           Return(t) \/ Raise(t) \/ Fault(t)
    PROVE  /\ thread' \in [Threads -> Attempt] /\ task' \in Task /\ Alone'
           /\ \A u \in Threads : thread'[u] = Idle
           /\ task'.act = task.act
           /\ Return(t) => task'.by = "done"
           /\ ~Return(t) => task'.by \in {"queue", "failed"}
           /\ ~Return(t) /\ task.act = "validate" => task'.by = "failed"
<1>1. thread' = [thread EXCEPT ![t] = Idle] /\ Idle \in Attempt /\ Idle.act = "none"
  BY DEF Return, Raise, Fault, Idle, Attempt
<1>2. thread' \in [Threads -> Attempt] /\ \A u \in Threads : thread'[u] = Idle
  BY <1>1 DEF PartiesTyped, Busy
<1>3. CASE Return(t)
  <2>1. task' = [task EXCEPT !.by = "done"] /\ task \in Task
    BY <1>3 DEF Return, Busy, PartiesTyped
  <2>2. task' \in Task /\ task'.act = task.act /\ task'.by = "done" /\ task'.left = task.left
    BY <2>1 DEF Task
  <2> QED BY <1>1, <1>2, <1>3, <2>2 DEF Alone
<1>4. CASE ~Return(t)
  <2>1. task' = GivenUp /\ task \in Task /\ task.left \in Nat
    BY <1>4 DEF Raise, Fault, Busy, PartiesTyped, Task
  <2>2. GivenUp.left <= task.left /\ GivenUp.left \in Nat
    BY <2>1, GivenUpTyped DEF Task
  <2>3. task.act # "none" /\ task'.act = task.act
    BY <2>1, GivenUpTyped DEF Busy
  <2> QED BY <1>1, <1>2, <1>4, <2>1, <2>2, <2>3, GivenUpTyped DEF Alone
<1> QED BY <1>3, <1>4

(* Marking alone leaves the tables and the gateway in order.                 *)
LEMMA TablesStay ==
    ASSUME IInv, UNCHANGED <<versions, patches, cmd, cycle>>, task'.act = task.act,
           event' \in [Events -> {"none", "open", "applied"}], Open' \subseteq Open
    PROVE  /\ TablesTyped' /\ Linked' /\ ByKind' /\ LinearPerProcess' /\ CommandsHold'
           /\ CyclesInOrder'
<1> USE DEF IInv, TypeOK
<1>1. TablesTyped' /\ Linked' /\ ByKind' /\ LinearPerProcess'
  BY DEF TablesTyped, Linked, ByKind, LinearPerProcess
<1>2. CommandsHold'
  BY DEF CommandsHold, CommandHolds, Publishing, Cleared, Unpublished
<1>3. CyclesInOrder'
  BY DEF CyclesInOrder
<1> QED BY <1>1, <1>2, <1>3

(* After an attempt there is nothing its thread has to know.                 *)
LEMMA NothingHeld ==
    ASSUME UpdateHolds, \A u \in Threads : thread'[u] = Idle,
           DOMAIN patches' = DOMAIN patches, Kept, UNCHANGED <<draft, cycle>>
    PROVE  WorkerHolds' /\ UpdateHolds'
BY DEF WorkerHolds, WorkHolds, Validating, UpdateHolds, Stored, Idle, Kept

LEMMA DetectKeeps ==
    ASSUME IInv, NEW t \in Threads, Detect(t)
    PROVE  IInv'
<1> USE DEF IInv, TypeOK
<1>1. Busy(t) /\ Return(t) /\ task.act = "detect"
  BY OneIsBusy DEF Detect, At, Busy
<1>2. /\ thread' \in [Threads -> Attempt] /\ task' \in Task /\ Alone'
      /\ \A u \in Threads : thread'[u] = Idle
      /\ task'.act = "detect"
  BY <1>1, IsOver
<1>3. UNCHANGED <<versions, patches, cmd, cycle, draft, decision, work>>
      /\ event' \in [Events -> {"none", "open", "applied"}]
  BY DEF Detect, run, TablesTyped
<1>4. TablesTyped' /\ PartiesTyped' /\ Linked' /\ ByKind' /\ LinearPerProcess'
  BY <1>2, <1>3 DEF TablesTyped, PartiesTyped, Linked, ByKind, LinearPerProcess
<1>5. CommandsHold'
  BY <1>3 DEF CommandsHold, CommandHolds, Publishing, Cleared, Unpublished
<1>6. WorkerHolds' /\ UpdateHolds'
  BY <1>2, <1>3, NothingHeld DEF Kept
<1>7. CyclesInOrder' /\ DecisionBacked'
  BY <1>1, <1>2, <1>3 DEF CyclesInOrder, DecisionBacked, Undecided
<1> QED BY <1>2, <1>4, <1>5, <1>6, <1>7

(* The result of an update that is heard.                                    *)
LEMMA AnswerKeeps ==
    ASSUME IInv, NEW t \in Threads, thread[t].act = "update",
           NEW d \in Kinds \union {"no_change"}, Answer(t, d),
           UNCHANGED <<tables, cmd, cycle>>, draft' \in Nat, work' \in [Threads -> Work],
           draft' # 0 => draft' \in DOMAIN patches /\ patches[draft'].cycle = cycle,
           d = "auto_patch" =>
               \E p \in DOMAIN patches :
                   patches[p].cycle = cycle /\ patches[p].status = "not_required"
    PROVE  IInv'
<1> USE DEF IInv, TypeOK
<1>1. Busy(t) /\ Return(t) /\ decision' = d
  BY OneIsBusy DEF Answer, Busy
<1>2. /\ thread' \in [Threads -> Attempt] /\ task' \in Task /\ Alone'
      /\ \A u \in Threads : thread'[u] = Idle
      /\ task'.act = "update" /\ task'.by = "done"
  BY <1>1, IsOver DEF Busy
<1>3. PartiesTyped'
  BY <1>1, <1>2 DEF PartiesTyped
<1>4. TablesTyped' /\ Linked' /\ ByKind' /\ LinearPerProcess' /\ CommandsHold' /\ CyclesInOrder'
  BY <1>1, <1>2, TablesStay DEF tables, Open, TablesTyped, Busy
<1>5. WorkerHolds'
  BY <1>2 DEF WorkerHolds, WorkHolds, Validating, Idle
<1>6. UpdateHolds'
  BY <1>2 DEF UpdateHolds, Stored, Idle, tables
<1>7. DecisionBacked'
  BY <1>1, <1>2 DEF DecisionBacked, Undecided, tables
<1> QED BY <1>2, <1>3, <1>4, <1>5, <1>6, <1>7

LEMMA UpdateEnds ==
    ASSUME IInv, NEW t \in Threads, UpdateReuses(t) \/ UpdateEvidenceOnly(t) \/ UpdateRecord(t)
    PROVE  IInv'
<1> USE DEF IInv, TypeOK
<1>1. NoWork \in Work /\ work \in [Threads -> Work] /\ draft \in Nat
  BY DEF NoWork, Work, PartiesTyped
<1>2. CASE UpdateReuses(t)
  <2>1. CASE Open = {} /\ Answer(t, "no_change")
    BY <1>1, <1>2, <2>1, AnswerKeeps DEF UpdateReuses, At, UpdateHolds, tables
  <2>2. CASE draft # 0 /\ Unpublished(draft) /\ Answer(t, patches[draft].kind)
    <3>1. draft \in DOMAIN patches /\ patches[draft].cycle = cycle
          /\ patches[draft].kind \in PatchKinds
      BY <2>2, Rows DEF UpdateHolds, Patch
    <3>2. patches[draft].kind = "auto_patch" => patches[draft].status = "not_required"
      BY <2>2, <3>1 DEF Unpublished, ByKind
    <3> QED
      BY <1>1, <1>2, <2>2, <3>1, <3>2, AnswerKeeps
      DEF UpdateReuses, At, PatchKinds, Kinds, tables
  <2> QED BY <1>2, <2>1, <2>2 DEF UpdateReuses
<1>3. CASE UpdateEvidenceOnly(t)
  BY <1>1, <1>3, AnswerKeeps DEF UpdateEvidenceOnly, At, UpdateHolds, Kinds
<1>4. CASE UpdateRecord(t)
  <2>1. Stored(t) /\ thread[t].act = "update" /\ draft' = work[t].patch
        /\ Answer(t, work[t].kind) /\ UNCHANGED <<tables, cmd, cycle>>
    BY <1>4 DEF UpdateRecord, Stored, At
  <2>2. /\ work[t].patch \in DOMAIN patches /\ patches[work[t].patch].cycle = cycle
        /\ work[t].kind \in PatchKinds /\ work[t].patch \in Nat
        /\ work[t].kind = "auto_patch" => patches[work[t].patch].status = "not_required"
    BY <1>1, <2>1 DEF UpdateHolds, Work
  <2>3. work' \in [Threads -> Work]
    BY <1>1, <1>4 DEF UpdateRecord
  <2> QED BY <2>1, <2>2, <2>3, AnswerKeeps DEF PatchKinds, Kinds
<1> QED BY <1>2, <1>3, <1>4

(* The update has read the open events and the base, and is going to store.  *)
LEMMA UpdateReadKeeps ==
    ASSUME IInv, NEW t \in Threads, UpdateRead(t)
    PROVE  IInv'
<1> USE DEF IInv, TypeOK
<1>1. Busy(t) /\ GoTo(t, "store", {}) /\ thread[t].act = "update"
      /\ UNCHANGED <<tables, cmd, cycle, draft, decision>>
  BY OneIsBusy DEF UpdateRead, At, run, Busy
<1>2. /\ thread' \in [Threads -> Attempt] /\ task' = task /\ Alone'
      /\ thread'[t].act = "update" /\ thread'[t].at = "store"
      /\ \A u \in Threads \ {t} : thread'[u] = Idle
  BY <1>1, GoesOn
<1>3. PICK k \in Kinds :
          work' = [work EXCEPT ![t] =
                      [NoWork EXCEPT !.base = Current, !.events = Open, !.kind = k]]
  BY DEF UpdateRead
<1> DEFINE w == [NoWork EXCEPT !.base = Current, !.events = Open, !.kind = k]
<1>4. w \in Work /\ w.events = Open /\ w.kind = k
  BY Rows DEF NoWork, Work, Current, Open
<1> HIDE DEF w
<1>5. work' \in [Threads -> Work] /\ work'[t] = w
  BY <1>3, <1>4 DEF PartiesTyped, w
<1>6. PartiesTyped'
  BY <1>1, <1>2, <1>5 DEF PartiesTyped
<1>7. TablesTyped' /\ Linked' /\ ByKind' /\ LinearPerProcess' /\ CommandsHold' /\ CyclesInOrder'
  BY <1>1, <1>2, TablesStay DEF tables, Open, TablesTyped
<1>8. WorkerHolds'
  BY <1>2 DEF WorkerHolds, WorkHolds, Validating, Idle
<1>9. UpdateHolds'
  BY <1>1, <1>2, <1>4, <1>5 DEF UpdateHolds, Stored, Idle, tables, Open
<1>10. DecisionBacked'
  BY <1>1, <1>2 DEF DecisionBacked, Undecided, Unvalidated, Validating, Idle, Busy,
                    tables
<1> QED BY <1>2, <1>6, <1>7, <1>8, <1>9, <1>10

(* What the store of a patch leaves to its attempt and to all others.        *)
LEMMA StoreKeeps ==
    ASSUME IInv, NEW t \in Threads, thread[t].act = "update", GoTo(t, "record", {}),
           UNCHANGED <<versions, event, cmd, cycle, draft, decision>>,
           NEW p \in DOMAIN patches', work' = [work EXCEPT ![t].patch = p], p \in Nat,
           work[t].kind \in PatchKinds,
           TablesTyped', Linked', ByKind', LinearPerProcess', CommandsHold', CyclesInOrder',
           \A q \in DOMAIN patches : q \in DOMAIN patches' /\ patches'[q].cycle = patches[q].cycle,
           patches'[p].cycle = cycle, Open \subseteq work[t].events,
           work[t].kind = "auto_patch" => patches'[p].status = "not_required"
    PROVE  IInv'
<1> USE DEF IInv, TypeOK
<1>1. Busy(t)
  BY OneIsBusy
<1>2. /\ thread' \in [Threads -> Attempt] /\ task' = task /\ Alone'
      /\ thread'[t].act = "update" /\ thread'[t].at = "record"
      /\ \A u \in Threads \ {t} : thread'[u] = Idle
  BY <1>1, GoesOn
<1> DEFINE w == [work[t] EXCEPT !.patch = p]
<1>3. w \in Work /\ w.patch = p /\ w.kind = work[t].kind /\ w.events = work[t].events
  BY DEF PartiesTyped, Work
<1> HIDE DEF w
<1>4. work' \in [Threads -> Work] /\ work'[t] = w
  BY <1>3 DEF PartiesTyped, w
<1>5. PartiesTyped'
  BY <1>2, <1>4 DEF PartiesTyped
<1>6. WorkerHolds'
  BY <1>2 DEF WorkerHolds, WorkHolds, Validating, Idle
<1>7. UpdateHolds'
  <2>1. draft' # 0 => draft' \in DOMAIN patches' /\ patches'[draft'].cycle = cycle'
    BY DEF UpdateHolds
  <2> QED
    BY <1>2, <1>3, <1>4, <2>1 DEF UpdateHolds, Stored, Idle, Open, PatchKinds, Kinds
<1>8. DecisionBacked'
  BY <1>1, <1>2, ThreadsAssumption DEF DecisionBacked, Undecided, Busy
<1> QED BY <1>2, <1>5, <1>6, <1>7, <1>8

LEMMA UpdateStoreKeeps ==
    ASSUME IInv, NEW t \in Threads, UpdateStore(t)
    PROVE  IInv'
<1> USE DEF IInv, TypeOK
<1> DEFINE w == work[t]
           unpublished == IF w.kind = "review_required" THEN "pending" ELSE "not_required"
           old == {p \in DOMAIN patches : SamePatch(p, w)}
           r == [cycle |-> cycle, base |-> w.base, kind |-> w.kind, events |-> w.events,
                 status |-> unpublished, version |-> 0]
<1>1. /\ Busy(t) /\ thread[t].act = "update" /\ GoTo(t, "record", {}) /\ task.act = "update"
      /\ UNCHANGED <<versions, event, cmd, cycle, draft, decision>>
  BY OneIsBusy DEF UpdateStore, At, run, Busy
<1>2. /\ w \in Work /\ w.kind \in PatchKinds /\ Open \subseteq w.events
      /\ unpublished \in Statuses /\ unpublished # "published"
      /\ unpublished = "pending" => w.kind = "review_required"
      /\ unpublished = "not_required" => w.kind = "auto_patch"
      /\ w.kind = "auto_patch" => unpublished = "not_required"
  BY DEF UpdateStore, At, UpdateHolds, PartiesTyped, Kinds, PatchKinds, Statuses
<1>3. \/ \E p \in old : /\ patches' = [patches EXCEPT ![p].status = unpublished]
                        /\ work' = [work EXCEPT ![t].patch = p]
      \/ /\ patches' = Append(patches, r)
         /\ work' = [work EXCEPT ![t].patch = Len(patches) + 1]
  BY DEF UpdateStore
<1> HIDE DEF w, unpublished
<1>4. ASSUME NEW p \in old, patches' = [patches EXCEPT ![p].status = unpublished],
             work' = [work EXCEPT ![t].patch = p]
      PROVE  IInv'
  <2>1. p \in DOMAIN patches /\ patches[p].cycle = cycle /\ patches[p].kind = w.kind /\ p \in Nat
    BY <1>4, Rows DEF SamePatch
  <2>2. /\ patches' \in Seq(Patch) /\ Kept
        /\ \A q \in DOMAIN patches : patches'[q].version = patches[q].version
        /\ \A q \in DOMAIN patches \ {p} : patches'[q].status = patches[q].status
        /\ patches'[p].status = unpublished
    BY <1>2, <1>4, <2>1, StatusWritten
  <2>3. TablesTyped' /\ Untouched
    BY <1>1, <2>2 DEF TablesTyped, Untouched
  <2>4. Linked' /\ LinearPerProcess' /\ CommandsHold'
    <3>1. unpublished \in {"pending", "not_required"}
      BY <1>2 DEF Statuses, unpublished
    <3>2. StaysOpen("review_required")
      BY <2>2, <3>1 DEF StaysOpen, Unpublished
    <3> QED BY <1>1, <1>2, <2>2, <2>3, <3>2, UntouchedLinks, UntouchedCommands
  <2>5. ByKind'
    BY <1>2, <2>1, <2>2 DEF ByKind, Kept
  <2>6. CyclesInOrder'
    BY <1>1, <2>2, KeptCycles DEF GoTo, Open
  <2> QED
    BY <1>1, <1>2, <1>4, <2>1, <2>2, <2>3, <2>4, <2>5, <2>6, StoreKeeps DEF Kept, w
<1>5. ASSUME patches' = Append(patches, r), work' = [work EXCEPT ![t].patch = Len(patches) + 1]
      PROVE  IInv'
  <2> DEFINE p == Len(patches) + 1
  <2>1. /\ r \in Patch /\ r.cycle = cycle /\ r.kind = w.kind /\ r.events = w.events
        /\ r.status = unpublished /\ r.version = 0
    BY <1>2 DEF Patch, Work, PartiesTyped
  <2> HIDE DEF r
  <2>2. /\ patches' \in Seq(Patch) /\ p \in Nat /\ DOMAIN patches' = 1 .. p /\ patches'[p] = r
        /\ DOMAIN patches = 1 .. Len(patches) /\ Len(patches) \in Nat
        /\ \A q \in DOMAIN patches : patches'[q] = patches[q]
    BY <1>5, <2>1, AppendProperties, LenProperties, Rows DEF TablesTyped
  <2> HIDE DEF p
  <2>3. p \in DOMAIN patches' /\ DOMAIN patches' = DOMAIN patches \union {p}
        /\ p \notin DOMAIN patches /\ \A q \in DOMAIN patches : q < p
    BY <2>2 DEF p
  <2>4. TablesTyped'
    BY <1>1, <2>2 DEF TablesTyped
  <2>5. Linked' /\ LinearPerProcess'
    <3>1. LinearPerProcess'
      BY <1>1 DEF LinearPerProcess
    <3>2. ASSUME NEW n \in DOMAIN versions' \ {1}
          PROVE  /\ versions'[n].patch \in DOMAIN patches'
                 /\ patches'[versions'[n].patch].version = n
                 /\ patches'[versions'[n].patch].base = versions'[n].parent
      BY <1>1, <2>2, <2>3, <3>2 DEF Linked
    <3>3. ASSUME NEW q \in DOMAIN patches'
          PROVE  /\ patches'[q].version # 0 =>
                        /\ patches'[q].version \in DOMAIN versions' \ {1}
                        /\ versions'[patches'[q].version].patch = q
                 /\ patches'[q].status = "published" => patches'[q].version # 0
      <4>1. CASE q = p
        BY <1>2, <2>1, <2>2, <4>1
      <4>2. CASE q \in DOMAIN patches
        BY <1>1, <2>2, <4>2 DEF Linked
      <4> QED BY <2>3, <3>3, <4>1, <4>2
    <3> QED BY <1>1, <3>1, <3>2, <3>3 DEF Linked
  <2>6. ByKind'
    BY <1>2, <2>1, <2>2, <2>3 DEF ByKind
  <2>7. CommandsHold'
    BY <1>1, <2>2, <2>3 DEF CommandsHold, CommandHolds, Publishing, Cleared, Unpublished
  <2>8. CyclesInOrder'
    <3>1. task' = task /\ Open' = Open
      BY <1>1 DEF GoTo, Open
    <3>2. \A q \in DOMAIN patches' : patches'[q].cycle <= cycle'
      <4>1. ASSUME NEW q \in DOMAIN patches'
            PROVE  patches'[q].cycle <= cycle
        <5>1. CASE q = p
          BY <2>1, <2>2, <5>1 DEF PartiesTyped
        <5>2. CASE q \in DOMAIN patches
          BY <2>2, <5>2 DEF CyclesInOrder
        <5> QED BY <2>3, <4>1, <5>1, <5>2
      <4> QED BY <1>1, <4>1
    <3>3. \A q, o \in DOMAIN patches' : q <= o => patches'[q].cycle <= patches'[o].cycle
      <4>1. ASSUME NEW q \in DOMAIN patches', NEW o \in DOMAIN patches', q <= o
            PROVE  patches'[q].cycle <= patches'[o].cycle
        <5>1. CASE o = p
          BY <1>1, <2>1, <2>2, <3>2, <5>1
        <5>2. CASE o # p
          <6>1. o \in DOMAIN patches /\ q \in DOMAIN patches
            <7>1. o \in DOMAIN patches
              BY <2>3, <5>2
            <7>2. q \in 1 .. Len(patches)
              BY <2>2, <4>1, <7>1
            <7> QED BY <2>2, <7>1, <7>2
          <6> QED BY <2>2, <4>1, <6>1 DEF CyclesInOrder
        <5> QED BY <5>1, <5>2
      <4> QED BY <4>1
    <3>4. \A q \in DOMAIN patches' : patches'[q].cycle = cycle' => Open' \subseteq patches'[q].events
      BY <1>1, <1>2, <2>1, <2>2, <2>3, <3>1 DEF CyclesInOrder
    <3> QED BY <1>1, <3>1, <3>2, <3>3, <3>4 DEF CyclesInOrder
  <2> QED
    <3>1. work' = [work EXCEPT ![t].patch = p]
      BY <1>5 DEF p
    <3> QED
      BY <1>1, <1>2, <2>1, <2>2, <2>3, <2>4, <2>5, <2>6, <2>7, <2>8, <3>1, StoreKeeps
      DEF w
<1> QED BY <1>3, <1>4, <1>5

(* The parts that the tables and the gateway's commands are told by.         *)
TablesHold == /\ TablesTyped /\ Linked /\ ByKind /\ LinearPerProcess /\ CommandsHold
              /\ CyclesInOrder

(* A validation that is over: the decision has had its effect.               *)
LEMMA ValidateEnds ==
    ASSUME IInv, NEW t \in Threads, thread[t].act = "validate", Return(t) \/ Raise(t),
           UNCHANGED <<cmd, cycle, draft, decision>>, work' \in [Threads -> Work],
           Kept, TablesHold'
    PROVE  IInv'
<1> USE DEF IInv, TypeOK
<1>1. Busy(t) /\ task.act = "validate"
  BY OneIsBusy DEF Busy
<1>2. /\ thread' \in [Threads -> Attempt] /\ task' \in Task /\ Alone'
      /\ \A u \in Threads : thread'[u] = Idle
      /\ task'.act = "validate" /\ task'.by \in {"done", "queue", "failed"}
      /\ task'.by # "queue"
  BY <1>1, IsOver
<1>3. PartiesTyped'
  BY <1>2 DEF PartiesTyped
<1>4. WorkerHolds' /\ UpdateHolds'
  BY <1>2, NothingHeld DEF Kept
<1>5. DecisionBacked'
  BY <1>2 DEF DecisionBacked, Undecided, Unvalidated, Validating, Idle
<1> QED BY <1>2, <1>3, <1>4, <1>5 DEF TablesHold

(* A validation that goes on behind its choice of the patch.                 *)
LEMMA ValidateGoesOn ==
    ASSUME IInv, NEW t \in Threads, thread[t].act = "validate",
           NEW p \in {"check", "number", "insert", "mark"}, GoTo(t, p, {}),
           UNCHANGED <<cmd, cycle, draft, decision>>, work' \in [Threads -> Work],
           Kept, TablesHold', WorkHolds(t)'
    PROVE  IInv'
<1> USE DEF IInv, TypeOK
<1>1. Busy(t) /\ task.act = "validate"
  BY OneIsBusy DEF Busy
<1>2. /\ thread' \in [Threads -> Attempt] /\ task' = task /\ Alone'
      /\ thread'[t].act = "validate" /\ thread'[t].at = p
      /\ \A u \in Threads \ {t} : thread'[u] = Idle
  BY <1>1, GoesOn
<1>3. PartiesTyped'
  BY <1>2 DEF PartiesTyped
<1>4. WorkerHolds'
  BY <1>2 DEF WorkerHolds, WorkHolds, Validating, Idle
<1>5. UpdateHolds'
  BY <1>2 DEF UpdateHolds, Stored, Idle, Kept
<1>6. DecisionBacked'
  BY <1>1, <1>2, ThreadsAssumption
  DEF DecisionBacked, Undecided, Unvalidated, Validating, Idle, Busy
<1> QED BY <1>2, <1>3, <1>4, <1>5, <1>6 DEF TablesHold

LEMMA ValidateKeeps ==
    ASSUME IInv, NEW t \in Threads,
           \/ ValidateNoPatch(t) \/ AutoPick(t) \/ AutoCheck(t) \/ AutoNumber(t) \/ AutoMark(t)
    PROVE  IInv'
<1> USE DEF IInv, TypeOK
<1>1. /\ Busy(t) /\ thread[t].act = "validate" /\ task.act = "validate"
      /\ UNCHANGED <<versions, patches, cmd, cycle, draft, decision>>
  BY OneIsBusy
  DEF ValidateNoPatch, AutoPick, AutoCheck, AutoNumber, AutoMark, At, run, tables, Busy
<1>2. Kept
  BY <1>1 DEF Kept
<1>3. task'.act = task.act
  BY <1>1, GivenUpTyped
  DEF ValidateNoPatch, AutoPick, AutoCheck, AutoNumber, AutoMark, GoTo, Return, Raise,
      Busy, PartiesTyped, Task
<1>4. event' \in [Events -> {"none", "open", "applied"}] /\ Open' \subseteq Open
  <2>1. event' = event \/ Applied(Open)
    BY DEF ValidateNoPatch, AutoPick, AutoCheck, AutoNumber, AutoMark, tables
  <2> QED BY <2>1, AppliedShrinks DEF TablesTyped, Open
<1>5. TablesHold'
  BY <1>1, <1>3, <1>4, TablesStay DEF TablesHold
<1>6. NoWork \in Work /\ work \in [Threads -> Work]
  BY DEF NoWork, Work, PartiesTyped
<1>7. CASE ValidateNoPatch(t) \/ AutoMark(t)
  <2>1. Return(t) /\ work' \in [Threads -> Work]
    BY <1>6, <1>7 DEF ValidateNoPatch, AutoMark
  <2> QED BY <1>1, <1>2, <1>5, <2>1, ValidateEnds
<1>8. CASE AutoPick(t)
  <2>1. CASE NotRequired = {}
    BY <1>1, <1>2, <1>5, <1>6, <1>8, <2>1, ValidateEnds DEF AutoPick
  <2>2. CASE NotRequired # {}
    <3>1. PICK p \in NotRequired :
              /\ \A q \in NotRequired : q <= p
              /\ work' = [work EXCEPT ![t] = [NoWork EXCEPT !.patch = p]]
              /\ GoTo(t, "check", {})
      BY <1>8, <2>2 DEF AutoPick
    <3>2. p \in DOMAIN patches /\ p \in Nat /\ patches[p].kind = "auto_patch"
      BY Rows DEF NotRequired, ByKind
    <3>3. patches[p].cycle = cycle
      <4>1. PICK q \in DOMAIN patches :
                patches[q].cycle = cycle /\ patches[q].status = "not_required"
        BY <1>8 DEF DecisionBacked, Unvalidated, Validating, AutoPick, At
      <4>2. q <= p /\ patches[p].cycle <= cycle /\ patches[q].cycle <= patches[p].cycle
        BY <3>1, <3>2, <4>1 DEF NotRequired, CyclesInOrder
      <4> QED BY <3>2, <4>1, <4>2, Rows DEF Patch, PartiesTyped
    <3> DEFINE w == [NoWork EXCEPT !.patch = p]
    <3>4. w \in Work /\ w.patch = p
      BY <3>2 DEF NoWork, Work
    <3> HIDE DEF w
    <3>5. work' \in [Threads -> Work] /\ work'[t] = w
      BY <1>6, <3>1, <3>4 DEF w
    <3>6. thread'[t].at = "check"
      BY <1>1, <3>1, GoesOn
    <3>7. WorkHolds(t)'
      BY <1>1, <3>2, <3>3, <3>4, <3>5, <3>6 DEF WorkHolds, Validating
    <3> QED BY <1>1, <1>2, <1>5, <3>1, <3>5, <3>7, ValidateGoesOn
  <2> QED BY <2>1, <2>2
<1>9. CASE AutoCheck(t)
  <2>1. GoTo(t, "number", {}) /\ work' = work /\ WorkHolds(t) /\ MayPublish(work[t].patch)
        /\ thread[t].at = "check"
    BY <1>9 DEF AutoCheck, WorkerHolds, At
  <2>2. thread'[t].at = "number"
    BY <1>1, <2>1, GoesOn
  <2>3. WorkHolds(t)'
    BY <1>1, <2>1, <2>2 DEF WorkHolds, Validating, Cleared, Unpublished, MayPublish, Current
  <2> QED BY <1>1, <1>2, <1>5, <1>6, <2>1, <2>3, ValidateGoesOn
<1>10. CASE AutoNumber(t)
  <2>1. GoTo(t, "insert", {}) /\ WorkHolds(t) /\ thread[t].at = "number"
        /\ work' = [work EXCEPT ![t].number = Len(versions) + 1]
    BY <1>10 DEF AutoNumber, WorkerHolds, At
  <2>2. thread'[t].at = "insert"
    BY <1>1, <2>1, GoesOn
  <2> DEFINE w == [work[t] EXCEPT !.number = Len(versions) + 1]
  <2>3. w \in Work /\ w.patch = work[t].patch /\ w.number = Len(versions) + 1
    <3>1. Len(versions) + 1 \in Nat
      BY Rows
    <3> QED BY <1>6, <3>1 DEF Work
  <2> HIDE DEF w
  <2>4. work' \in [Threads -> Work] /\ work'[t] = w
    BY <1>6, <2>1, <2>3 DEF w
  <2>5. WorkHolds(t)'
    BY <1>1, <2>1, <2>2, <2>3, <2>4, Rows DEF WorkHolds, Validating, Cleared, Unpublished
  <2> QED BY <1>1, <1>2, <1>5, <2>1, <2>4, <2>5, ValidateGoesOn
<1> QED BY <1>7, <1>8, <1>9, <1>10

LEMMA AutoRefusedKeeps ==
    ASSUME IInv, NEW t \in Threads, AutoRefused(t)
    PROVE  IInv'
<1> USE DEF IInv, TypeOK
<1> DEFINE p == work[t].patch
<1>1. /\ Busy(t) /\ thread[t].act = "validate" /\ task.act = "validate" /\ Raise(t)
      /\ UNCHANGED <<versions, event, cmd, cycle, draft, decision>>
  BY OneIsBusy DEF AutoRefused, At, run, Busy
<1>2. p \in DOMAIN patches /\ patches[p].kind = "auto_patch"
  BY DEF AutoRefused, At, WorkerHolds, WorkHolds, Validating
<1>3. work' \in [Threads -> Work]
  BY DEF AutoRefused, NoWork, Work, PartiesTyped
<1>4. patches' = [patches EXCEPT ![p].status = "deleted"] \/ patches' = patches
  BY DEF AutoRefused
<1> HIDE DEF p
<1>5. /\ patches' \in Seq(Patch) /\ Kept
      /\ \A q \in DOMAIN patches : patches'[q].version = patches[q].version
      /\ \A q \in DOMAIN patches : \/ patches'[q].status = patches[q].status
                                   \/ patches'[q].status = "deleted"
  BY <1>2, <1>4, StatusWritten DEF Statuses, Kept, TablesTyped
<1>6. TablesTyped' /\ Untouched
  BY <1>1, <1>5 DEF TablesTyped, Untouched
<1>7. Linked' /\ LinearPerProcess' /\ CommandsHold'
  <2>1. StaysOpen("review_required")
    <3>1. \A q \in DOMAIN patches \ {p} : patches'[q].status = patches[q].status
      BY <1>2, <1>4, StatusWritten DEF Statuses
    <3> QED BY <1>2, <3>1 DEF StaysOpen, Unpublished
  <2> QED BY <1>1, <1>5, <1>6, <2>1, UntouchedLinks, UntouchedCommands
<1>8. ByKind'
  BY <1>5 DEF ByKind, Kept
<1>9. CyclesInOrder'
  <2>1. task'.act = task.act
    BY <1>1, IsOver
  <2> QED BY <1>1, <1>5, <2>1 DEF CyclesInOrder, Kept, Open
<1> QED BY <1>1, <1>3, <1>5, <1>6, <1>7, <1>8, <1>9, ValidateEnds DEF TablesHold

LEMMA AutoInsertKeeps ==
    ASSUME IInv, NEW t \in Threads, AutoInsert(t)
    PROVE  IInv'
<1> USE DEF IInv, TypeOK
<1> DEFINE p == work[t].patch
           n == work[t].number
<1>1. /\ Busy(t) /\ thread[t].act = "validate" /\ task.act = "validate"
      /\ UNCHANGED <<event, cmd, cycle, draft, decision, work>>
  BY OneIsBusy DEF AutoInsert, At, run, Busy
<1>2. /\ p \in DOMAIN patches /\ patches[p].kind = "auto_patch" /\ patches[p].cycle = cycle
      /\ Cleared(p, "worker") /\ n <= Len(versions) + 1 /\ n \in Nat
  BY DEF AutoInsert, At, WorkerHolds, WorkHolds, Validating, PartiesTyped, Work
<1>3. work' \in [Threads -> Work]
  BY <1>1 DEF PartiesTyped
<1>4. CASE Taken(n)
  <2>1. Raise(t) /\ UNCHANGED <<versions, patches>>
    BY <1>4 DEF AutoInsert
  <2>2. task'.act = task.act
    BY <1>1, <2>1, IsOver
  <2>3. TablesHold'
    BY <1>1, <2>1, <2>2, TablesStay DEF TablesHold, TablesTyped, Open
  <2> QED BY <1>1, <1>3, <2>1, <2>3, ValidateEnds DEF Kept
<1>5. CASE ~Taken(n)
  <2>1. PublishRow(p, n, "worker") /\ GoTo(t, "mark", {})
    BY <1>5 DEF AutoInsert
  <2> HIDE DEF p, n
  <2>2. /\ versions' \in Seq(Version) /\ patches' \in Seq(Patch) /\ Kept
        /\ Linked' /\ ByKind' /\ LinearPerProcess'
        /\ \A q \in DOMAIN patches \ {p} : patches'[q] = patches[q]
        /\ patches'[p].version # 0
        /\ Len(versions') = Len(versions) + 1 /\ versions'[Len(versions')].by = "worker"
    BY <1>2, <1>5, <2>1, RowPublished
  <2>3. TablesTyped'
    BY <1>1, <2>2, Rows DEF TablesTyped
  <2>4. CommandsHold'
    <3>1. ASSUME NEW h \in Handlers
          PROVE  CommandHolds(cmd[h])'
      <4> DEFINE c == cmd[h]
                 q == cmd[h].patch
      <4>1. cmd'[h] = cmd[h] /\ CommandHolds(cmd[h]) /\ c \in Cmd
        BY <1>1 DEF CommandsHold, PartiesTyped
      <4>2. CASE c.at = "idle"
        BY <4>1, <4>2 DEF CommandHolds, Publishing
      <4>3. CASE c.at # "idle"
        <5>1. q \in DOMAIN patches /\ q # p /\ patches[q].kind = "review_required"
          BY <1>2, <4>1, <4>3 DEF CommandHolds
        <5>2. patches'[q] = patches[q] /\ (Cleared(q, "gateway") => Cleared(q, "gateway")')
          BY <2>2, <4>1, <5>1 DEF Cleared, Unpublished
        <5>3. c.number <= Len(versions) + 1 => c.number <= Len(versions') + 1
          BY <2>2, <4>1, Rows DEF Cmd
        <5> QED
          BY <2>2, <4>1, <5>1, <5>2, <5>3 DEF CommandHolds, Publishing, Kept, Cleared, Unpublished
      <4> QED BY <4>2, <4>3
    <3> QED BY <1>1, <3>1 DEF CommandsHold, Publishing
  <2>5. CyclesInOrder'
    BY <1>1, <2>1, <2>2, KeptCycles DEF GoTo, Open
  <2>6. thread'[t].at = "mark"
    BY <1>1, <2>1, GoesOn
  <2>7. WorkHolds(t)'
    BY <1>1, <1>2, <2>2, <2>6 DEF WorkHolds, Validating, Kept, p
  <2> QED
    BY <1>1, <1>3, <2>1, <2>2, <2>3, <2>4, <2>5, <2>7, ValidateGoesOn DEF TablesHold
<1> QED BY <1>4, <1>5

-----------------------------------------------------------------------------
(* The steps of the service, the crashes and the order of the cycles. *)

LEMMA ServiceKeeps ==
    ASSUME IInv, Delivery \/ Trouble \/ GatewayCrash \/ Advance \/ StartCycle
    PROVE  IInv'
<1> USE DEF IInv, TypeOK
<1>1. UNCHANGED tables
  BY DEF Delivery, Trouble, GatewayCrash, Advance, StartCycle
<1>2. TablesTyped' /\ Linked' /\ ByKind' /\ LinearPerProcess' /\ Open' = Open
  BY <1>1 DEF TablesTyped, Linked, ByKind, LinearPerProcess, Open, tables
<1>3. cmd' \in [Handlers -> Cmd] /\ CommandsHold'
  <2>1. CASE UNCHANGED cmd
    BY <1>1, <2>1
    DEF PartiesTyped, CommandsHold, CommandHolds, Publishing, Cleared, Unpublished, tables
  <2>2. CASE GatewayCrash
    BY <2>2 DEF GatewayCrash, NoCmd, Cmd, CommandsHold, CommandHolds, Publishing
  <2> QED BY <2>1, <2>2 DEF Delivery, Trouble, Advance, StartCycle
<1>4. task.by \notin Threads => \A t \in Threads : thread[t] = Idle
  BY DEF Alone
<1>5. CASE GatewayCrash
  <2>1. UNCHANGED <<task, thread, cycle, draft, decision, work>>
    BY <1>5 DEF GatewayCrash, run
  <2>2. PartiesTyped' /\ Alone'
    BY <1>3, <2>1 DEF PartiesTyped, Alone
  <2>3. WorkerHolds' /\ UpdateHolds'
    BY <1>1, <2>1
    DEF WorkerHolds, WorkHolds, Validating, Cleared, Unpublished, UpdateHolds, Stored, Open, tables
  <2>4. CyclesInOrder' /\ DecisionBacked'
    BY <1>1, <1>2, <2>1
    DEF CyclesInOrder, DecisionBacked, Undecided, Unvalidated, Validating, tables
  <2> QED BY <1>2, <1>3, <2>2, <2>3, <2>4
<1>6. CASE Delivery /\ \E t \in Threads : Pick(t)
  <2>1. PICK t \in Threads : Pick(t)
    BY <1>6
  <2>2. UNCHANGED <<cmd, cycle, draft, decision, work>> /\ task.by = "queue"
        /\ \A u \in Threads : thread[u] = Idle
    BY <1>4, <1>6, <2>1, ThreadsAssumption DEF Delivery, run, Pick
  <2> DEFINE n == [Idle EXCEPT !.act = task.act, !.at = "start"]
             k == [task EXCEPT !.by = t]
  <2>3. n \in Attempt /\ n.act = task.act /\ n.at = "start" /\ n.act # "none"
    BY <2>2 DEF PartiesTyped, Task, Attempt, Idle, Alone
  <2>4. k \in Task /\ k.act = task.act /\ k.left = task.left /\ k.by = t
    BY DEF PartiesTyped, Task
  <2>5. thread' = [thread EXCEPT ![t] = n] /\ task' = k
    BY <2>1 DEF Pick
  <2> HIDE DEF n, k
  <2>6. /\ thread' \in [Threads -> Attempt] /\ thread'[t] = n
        /\ \A u \in Threads \ {t} : thread'[u] = Idle
    BY <2>2, <2>3, <2>5 DEF PartiesTyped
  <2>7. PartiesTyped' /\ Alone'
    BY <1>3, <2>2, <2>3, <2>4, <2>5, <2>6, SMTT(30) DEF PartiesTyped, Alone, Idle
  <2>8. WorkerHolds' /\ UpdateHolds'
    BY <1>1, <2>2, <2>3, <2>6
    DEF WorkerHolds, WorkHolds, Validating, UpdateHolds, Stored, Idle, tables
  <2>9. CyclesInOrder' /\ DecisionBacked'
    BY <1>1, <1>2, <2>2, <2>3, <2>4, <2>5, <2>6, ThreadsAssumption
    DEF CyclesInOrder, DecisionBacked, Undecided, Unvalidated, Validating, Idle, tables
  <2> QED BY <1>2, <1>3, <2>7, <2>8, <2>9
<1>7. CASE (Delivery /\ LossNoticed) \/ Trouble
  <2>1. UNCHANGED <<cmd, cycle, draft, decision>> /\ work' \in [Threads -> Work]
    BY <1>7 DEF Delivery, Trouble, run, NoWork, Work, PartiesTyped
  <2>2. /\ task' \in Task /\ thread' \in [Threads -> Attempt] /\ Alone'
        /\ task'.act = task.act /\ \A t \in Threads : thread'[t] = Idle
        /\ task'.by = "done" <=> task.by = "done"
        /\ task.act = "validate" /\ task'.by = "queue" => task.by = "queue"
    <3>1. CASE LossNoticed
      <4>1. task' = GivenUp /\ thread' = thread /\ task.by = "lost" /\ task \in Task
        BY <3>1 DEF LossNoticed, PartiesTyped
      <4>2. \A t \in Threads : thread[t] = Idle
        BY <1>4, <4>1, ThreadsAssumption
      <4> QED
        BY <4>1, <4>2, GivenUpTyped DEF PartiesTyped, Task, Alone, Idle
    <3>2. CASE WorkerCrash
      <4> DEFINE k == [task EXCEPT !.by = "lost"]
      <4>1. k \in Task /\ k.act = task.act /\ k.left = task.left /\ k.by = "lost"
        BY DEF PartiesTyped, Task
      <4>2. /\ thread' = [t \in Threads |-> Idle] /\ Idle \in Attempt /\ Idle.act = "none"
            /\ task' = IF task.by \in Threads THEN k ELSE task
        BY <3>2 DEF WorkerCrash, Idle, Attempt
      <4> HIDE DEF k
      <4> QED BY <4>1, <4>2, ThreadsAssumption DEF PartiesTyped, Alone
    <3>3. ASSUME NEW t \in Threads, Fault(t)
          PROVE  /\ task' \in Task /\ thread' \in [Threads -> Attempt] /\ Alone'
                 /\ task'.act = task.act /\ \A u \in Threads : thread'[u] = Idle
                 /\ task'.by = "done" <=> task.by = "done"
                 /\ task.act = "validate" /\ task'.by = "queue" => task.by = "queue"
      <4>1. Busy(t) /\ task.by = t
        BY <3>3, OneIsBusy DEF Fault, Alone
      <4>2. /\ task' \in Task /\ thread' \in [Threads -> Attempt] /\ Alone'
            /\ task'.act = task.act /\ \A u \in Threads : thread'[u] = Idle
        BY <3>3, <4>1, IsOver
      <4>3. task' = GivenUp
        BY <3>3, <4>1 DEF Fault
      <4> QED
        BY <4>1, <4>2, <4>3, GivenUpTyped, ThreadsAssumption
        DEF PartiesTyped, Task, Alone
    <3> QED BY <1>7, <3>1, <3>2, <3>3 DEF Trouble
  <2>3. PartiesTyped'
    BY <1>3, <2>1, <2>2 DEF PartiesTyped
  <2>4. WorkerHolds' /\ UpdateHolds'
    BY <1>1, <2>1, <2>2, NothingHeld DEF Kept, tables
  <2>5. CyclesInOrder' /\ DecisionBacked'
    BY <1>1, <1>2, <2>1, <2>2
    DEF CyclesInOrder, DecisionBacked, Undecided, Unvalidated, Validating, Idle, tables
  <2> QED BY <1>2, <1>3, <2>2, <2>3, <2>4, <2>5
<1>8. CASE Advance \/ StartCycle
  <2>1. UNCHANGED <<thread, work>> /\ \A t \in Threads : thread[t] = Idle
    <3>1. task.by \in {"done", "failed"}
      BY <1>8 DEF Advance, StartCycle, Alone
    <3> QED BY <1>4, <1>8, <3>1, ThreadsAssumption DEF Advance, StartCycle
  <2>2. Idle.act = "none"
    BY DEF Idle
  <2>3. CASE Advance
    <3>1. UNCHANGED <<cycle, draft, decision>> /\ task.by = "done"
          /\ \/ task.act = "detect" /\ task' = Queued("update", 2)
             \/ task.act = "update" /\ task' = Queued("validate", 1)
      BY <2>3 DEF Advance, run
    <3>2. PartiesTyped' /\ Alone'
      BY <1>3, <2>1, <2>2, <3>1 DEF PartiesTyped, Alone, Task, Queued
    <3>3. WorkerHolds' /\ UpdateHolds'
      BY <1>1, <2>1, <3>1, NothingHeld DEF Kept, tables
    <3>4. CyclesInOrder'
      BY <1>1, <1>2, <3>1 DEF CyclesInOrder, Queued, tables
    <3>5. DecisionBacked'
      BY <1>1, <2>1, <2>2, <3>1
      DEF DecisionBacked, Undecided, Unvalidated, Validating, Queued, tables
    <3> QED BY <1>2, <1>3, <3>2, <3>3, <3>4, <3>5
  <2>4. CASE StartCycle
    <3>1. cycle' = cycle + 1 /\ draft' = 0 /\ decision' = "none" /\ task' = Queued("detect", 2)
      BY <2>4 DEF StartCycle
    <3>2. PartiesTyped' /\ Alone'
      BY <1>3, <2>1, <2>2, <3>1 DEF PartiesTyped, Alone, Task, Queued
    <3>3. WorkerHolds' /\ UpdateHolds'
      BY <2>1, <2>2, <3>1 DEF WorkerHolds, WorkHolds, Validating, UpdateHolds, Stored
    <3>4. CyclesInOrder'
      <4>1. \A p \in DOMAIN patches : patches[p].cycle \in Nat
        BY Rows DEF Patch
      <4> QED BY <1>1, <3>1, <4>1 DEF CyclesInOrder, PartiesTyped, tables
    <3>5. DecisionBacked'
      BY <3>1 DEF DecisionBacked
    <3> QED BY <1>2, <1>3, <3>2, <3>3, <3>4, <3>5
  <2> QED BY <1>8, <2>3, <2>4
<1> QED BY <1>5, <1>6, <1>7, <1>8 DEF Delivery

LEMMA InitHolds == Init => IInv
<1> SUFFICES ASSUME Init
             PROVE  IInv
  OBVIOUS
<1> DEFINE v == [parent |-> 0, patch |-> 0, by |-> "research"]
<1>1. versions = <<v>> /\ v \in Version /\ v.patch = 0 /\ patches = <<>>
  BY DEF Init, Version
<1> HIDE DEF v
<1>2. /\ versions \in Seq(Version) /\ Len(versions) = 1 /\ DOMAIN versions = {1}
      /\ versions[1] = v /\ patches \in Seq(Patch) /\ DOMAIN patches = {}
  BY <1>1
<1>3. TablesTyped
  BY <1>2 DEF TablesTyped, Init
<1>4. PartiesTyped /\ Alone
  BY DEF PartiesTyped, Alone, Init, Cmd, NoCmd, Work, NoWork, Task, Attempt, Idle
<1>5. Linked /\ ByKind /\ LinearPerProcess
  BY <1>1, <1>2 DEF Linked, ByKind, LinearPerProcess
<1>6. CommandsHold /\ WorkerHolds /\ UpdateHolds
  BY DEF CommandsHold, CommandHolds, Publishing, WorkerHolds, WorkHolds, Validating,
         UpdateHolds, Stored, Init, NoCmd, Idle
<1>7. CyclesInOrder /\ DecisionBacked
  BY <1>2 DEF CyclesInOrder, DecisionBacked, Init
<1> QED BY <1>3, <1>4, <1>5, <1>6, <1>7 DEF IInv, TypeOK

LEMMA NextKeeps == IInv /\ [Next]_vars => IInv'
<1> SUFFICES ASSUME IInv, [Next]_vars
             PROVE  IInv'
  OBVIOUS
<1>1. CASE UNCHANGED vars
  BY <1>1
  DEF vars, taskVars, IInv, TypeOK, TablesTyped, PartiesTyped, Alone, Linked, ByKind,
      CommandsHold, CommandHolds, Publishing, Cleared, Unpublished, WorkerHolds, WorkHolds,
      Validating, CyclesInOrder, Open, UpdateHolds, Stored, DecisionBacked, Undecided,
      Unvalidated, LinearPerProcess
<1>2. ASSUME NEW t \in Threads, Activity(t)
      PROVE  IInv'
  BY <1>2, DetectKeeps, UpdateEnds, UpdateReadKeeps, UpdateStoreKeeps, ValidateKeeps,
     AutoRefusedKeeps, AutoInsertKeeps
  DEF Activity
<1> QED BY <1>1, <1>2, CommandKeeps, ServiceKeeps DEF Next

LEMMA Invariance == Spec => []IInv
BY InitHolds, NextKeeps, PTL DEF Spec

-----------------------------------------------------------------------------
(* The tables, the commands and the attempts keep their types, for any        *)
(* number of cycles.                                                         *)
THEOREM TypeCorrect == Spec => []TypeOK
<1>1. IInv => TypeOK
  BY DEF IInv
<1> QED BY <1>1, Invariance, PTL

(* However often a patch is approved, by however many handlers, and whatever  *)
(* crashes in between, no two versions of the report are of one patch.       *)
THEOREM OneVersionPerPatch == Spec => []PublishedOnce
<1>1. IInv => PublishedOnce
  <2> SUFFICES ASSUME IInv, NEW m \in DOMAIN versions, NEW n \in DOMAIN versions,
                      versions[m].patch = versions[n].patch
               PROVE  m = n
    BY DEF PublishedOnce
  <2>1. 0 \notin DOMAIN patches
    BY Rows DEF IInv, TypeOK
  <2> QED BY <2>1 DEF IInv, Linked
<1> QED BY <1>1, Invariance, PTL

(* Of two versions made by one process the later builds on the earlier: the   *)
(* base that was checked is the predecessor, or the other process made it.   *)
THEOREM ProcessesBuildOnTheirOwn == Spec => []LinearPerProcess
<1>1. IInv => LinearPerProcess
  BY DEF IInv
<1> QED BY <1>1, Invariance, PTL

(* No event is marked as applied that is not in a published version or was    *)
(* recorded as evidence by a cycle: what the automatic update marks, all open *)
(* events, its patch has.                                                    *)
THEOREM AppliedEventsReported == Spec => AppliedIsReported
<1> DEFINE Reported(e) == \/ decision = "evidence_only"
                          \/ \E n \in DOMAIN versions \ {1} :
                                 e \in patches[versions[n].patch].events
<1>1. IInv /\ [Next]_vars => [\A e \in Open : event'[e] = "applied" => Reported(e)]_vars
  <2> SUFFICES ASSUME IInv, Next, NEW e \in Open, event'[e] = "applied"
               PROVE  Reported(e)
    BY DEF vars
  <2> USE DEF IInv, TypeOK
  <2>1. event[e] = "open"
    BY DEF Open
  <2>2. ASSUME NEW p \in DOMAIN patches, patches[p].version # 0, e \in patches[p].events
        PROVE  Reported(e)
    BY <2>2 DEF Linked
  <2>3. ASSUME NEW h \in Handlers, MarkApplied(h)
        PROVE  Reported(e)
    <3>1. /\ cmd[h].patch \in DOMAIN patches
          /\ patches[cmd[h].patch].version # 0
      BY <2>3 DEF MarkApplied, CommandsHold, CommandHolds
    <3>2. e \in patches[cmd[h].patch].events
      BY <2>1, <2>3 DEF MarkApplied, Applied, Open
    <3> QED BY <2>2, <3>1, <3>2
  <2>4. ASSUME NEW t \in Threads, AutoMark(t)
        PROVE  Reported(e)
    <3>1. /\ work[t].patch \in DOMAIN patches
          /\ patches[work[t].patch].version # 0 /\ patches[work[t].patch].cycle = cycle
      BY <2>4 DEF AutoMark, At, WorkerHolds, WorkHolds, Validating
    <3> QED BY <2>2, <3>1 DEF CyclesInOrder
  <2>5. ASSUME NEW t \in Threads, ValidateNoPatch(t)
        PROVE  Reported(e)
    BY <2>1, <2>5 DEF ValidateNoPatch
  <2>6. ASSUME NEW t \in Threads, Detect(t)
        PROVE  FALSE
    BY <2>1, <2>6 DEF Detect, Open
  <2>7. event' # event
    BY <2>1
  <2> QED
    BY <2>3, <2>4, <2>5, <2>6, <2>7
    DEF Next, CommandStep, Command, PublishCheck, PublishNumber, PublishInsert,
        RejectWrite, Approve, Reject, Activity, UpdateReuses, UpdateRead,
        UpdateEvidenceOnly, UpdateStore, UpdateRecord, AutoPick, AutoCheck, AutoRefused,
        AutoNumber, AutoInsert, Delivery, Trouble, GatewayCrash, Advance, StartCycle,
        tables
<1> QED BY <1>1, Invariance, PTL DEF Spec, AppliedIsReported

-----------------------------------------------------------------------------
(* ReportPublication implements ReportHistory. *)

LEMMA NothingReported ==
    ASSUME UNCHANGED <<versions, patches, cycle>>
    PROVE  UNCHANGED History!historyVars
BY DEF History!historyVars, Carried, Fate, OfThisCycle, Unpublished

(* A publication is one of a patch on offer.                                 *)
LEMMA RowReported ==
    ASSUME IInv, NEW p \in DOMAIN patches, NEW n \in Nat, NEW who \in {"gateway", "worker"},
           Cleared(p, who), n <= Len(versions) + 1, ~Taken(n), PublishRow(p, n, who),
           UNCHANGED cycle
    PROVE  History!HistoryNext
<1> USE DEF IInv, TypeOK
<1>1. /\ versions' \in Seq(Version) /\ patches' \in Seq(Patch) /\ Kept
      /\ \A q \in DOMAIN patches \ {p} : patches'[q] = patches[q]
      /\ patches'[p].version # 0 /\ Len(versions') = Len(versions) + 1
  BY RowPublished
<1>2. Fate[p] = "offered" /\ DOMAIN Fate = DOMAIN patches
  BY DEF Fate, Cleared
<1>3. Fate' = [Fate EXCEPT ![p] = "published"]
  BY <1>1 DEF Fate, Kept, Unpublished
<1>4. OfThisCycle' = OfThisCycle
  BY <1>1 DEF OfThisCycle, Kept
<1>5. Carried' = Append(Carried, p)
  <2> DEFINE v == [parent |-> patches[p].base, patch |-> p, by |-> who]
             l == Len(versions)
  <2>1. versions' = Append(versions, v) /\ v \in Version /\ v.patch = p
    BY Rows DEF PublishRow, Version, Patch
  <2> HIDE DEF v
  <2>2. /\ l \in Nat \ {0} /\ Len(versions') = l + 1 /\ versions'[l + 1].patch = p
        /\ \A m \in 1 .. l : versions'[m] = versions[m] /\ versions[m] \in Version
    BY <2>1, AppendProperties, Rows DEF TablesTyped
  <2> HIDE DEF l
  <2>3. /\ Carried = [m \in 1 .. l - 1 |-> versions[m + 1].patch]
        /\ Carried' = [m \in 1 .. l |-> versions'[m + 1].patch]
    BY <2>2 DEF Carried, l
  <2>4. Carried \in Seq(Nat) /\ Len(Carried) = l - 1
    <3>1. \A m \in 1 .. l - 1 : versions[m + 1].patch \in Nat
      BY <2>2 DEF Version
    <3> QED BY <2>2, <2>3, <3>1
  <2>5. p \in Nat
    BY Rows
  <2>6. /\ Append(Carried, p) \in Seq(Nat) /\ Len(Append(Carried, p)) = l
        /\ Append(Carried, p)[l] = p
        /\ \A m \in 1 .. l - 1 : Append(Carried, p)[m] = Carried[m]
    BY <2>2, <2>4, <2>5, AppendProperties
  <2>7. Carried' \in Seq(Nat) /\ Len(Carried') = l
    <3>1. \A m \in 1 .. l : versions'[m + 1].patch \in Nat
      BY <2>2, <2>5 DEF Version
    <3> QED BY <2>2, <2>3, <3>1
  <2>8. ASSUME NEW m \in 1 .. l
        PROVE  Carried'[m] = Append(Carried, p)[m]
    <3>1. Carried'[m] = versions'[m + 1].patch
      BY <2>3
    <3>2. CASE m = l
      BY <2>2, <2>6, <3>1, <3>2
    <3>3. CASE m # l
      BY <2>2, <2>3, <2>6, <3>1, <3>3
    <3> QED BY <3>2, <3>3
  <2> QED BY <2>6, <2>7, <2>8, SeqEqual
<1>6. History!Publish(p)
  BY <1>2, <1>3, <1>4, <1>5 DEF History!Publish, History!Becomes
<1> QED BY <1>2, <1>6 DEF History!HistoryNext

(* A change of status withdraws a patch or offers it again, unless it is       *)
(* published: then it stays so.                                              *)
LEMMA StatusReported ==
    ASSUME IInv, NEW p \in DOMAIN patches, NEW s \in Statuses,
           patches' = [patches EXCEPT ![p].status = s], UNCHANGED <<versions, cycle>>,
           \/ Unpublished(p) /\ s \in {"rejected", "deleted"}
           \/ patches[p].cycle = cycle /\ s \in {"pending", "not_required"}
    PROVE  History!HistoryNext \/ UNCHANGED History!historyVars
<1> USE DEF IInv, TypeOK
<1> DEFINE open == s \in {"pending", "not_required"}
           f == IF patches[p].version # 0 THEN "published"
                ELSE IF open THEN "offered" ELSE "withdrawn"
<1>1. /\ Kept /\ patches'[p].status = s
      /\ \A q \in DOMAIN patches : patches'[q].version = patches[q].version
      /\ \A q \in DOMAIN patches \ {p} : patches'[q].status = patches[q].status
  BY StatusWritten
<1>2. Carried' = Carried /\ OfThisCycle' = OfThisCycle
  BY <1>1 DEF Carried, OfThisCycle, Kept
<1>3. Fate' = [Fate EXCEPT ![p] = f] /\ DOMAIN Fate = DOMAIN patches
  <2>1. Fate' = [q \in DOMAIN patches |-> Fate'[q]] /\ DOMAIN Fate = DOMAIN patches
    BY <1>1 DEF Fate, Kept
  <2>2. ASSUME NEW q \in DOMAIN patches \ {p}
        PROVE  Fate'[q] = Fate[q]
    BY <1>1 DEF Fate, Kept, Unpublished
  <2>3. Fate'[p] = f
    BY <1>1 DEF Fate, Kept, Unpublished
  <2> HIDE DEF f
  <2> QED BY <2>1, <2>2, <2>3
<1>4. CASE Fate[p] = f
  <2>1. Fate' = Fate
    BY <1>3, <1>4 DEF Fate
  <2> QED BY <1>2, <2>1 DEF History!historyVars
<1>5. CASE Fate[p] # f
  <2>1. patches[p].version = 0
    BY <1>5 DEF Fate
  <2>2. CASE open
    <3>1. Fate[p] = "withdrawn" /\ f = "offered" /\ p \in OfThisCycle
      BY <1>5, <2>1, <2>2 DEF Fate, OfThisCycle
    <3>2. History!Renew(p)
      BY <1>2, <1>3, <3>1 DEF History!Renew, History!Becomes
    <3> QED BY <1>3, <3>2 DEF History!HistoryNext
  <2>3. CASE ~open
    <3>1. Fate[p] = "offered" /\ f = "withdrawn"
      BY <2>1, <2>3 DEF Fate
    <3>2. History!Withdraw(p)
      BY <1>2, <1>3, <3>1 DEF History!Withdraw, History!Becomes
    <3> QED BY <1>3, <3>2 DEF History!HistoryNext
  <2> QED BY <2>2, <2>3
<1> QED BY <1>4, <1>5

(* The store of an update suggests it, or offers again the one an earlier      *)
(* attempt has stored.                                                        *)
LEMMA StoreReported ==
    ASSUME IInv, NEW t \in Threads, UpdateStore(t)
    PROVE  History!HistoryNext \/ UNCHANGED History!historyVars
<1> USE DEF IInv, TypeOK
<1> DEFINE w == work[t]
           unpublished == IF w.kind = "review_required" THEN "pending" ELSE "not_required"
           r == [cycle |-> cycle, base |-> w.base, kind |-> w.kind, events |-> w.events,
                 status |-> unpublished, version |-> 0]
<1>1. UNCHANGED <<versions, cycle>> /\ w \in Work /\ w.kind \in PatchKinds
  BY DEF UpdateStore, At, UpdateHolds, PartiesTyped, Kinds, PatchKinds, run
<1>2. \/ \E p \in DOMAIN patches :
             /\ patches[p].cycle = cycle
             /\ patches' = [patches EXCEPT ![p].status = unpublished]
      \/ patches' = Append(patches, r)
  BY DEF UpdateStore, SamePatch
<1>3. unpublished \in {"pending", "not_required"} /\ unpublished \in Statuses
  BY DEF Statuses
<1> HIDE DEF w, unpublished
<1>4. ASSUME NEW p \in DOMAIN patches, patches[p].cycle = cycle,
             patches' = [patches EXCEPT ![p].status = unpublished]
      PROVE  History!HistoryNext \/ UNCHANGED History!historyVars
  BY <1>1, <1>3, <1>4, StatusReported
<1>5. CASE patches' = Append(patches, r)
  <2> DEFINE l == Len(patches)
  <2>1. r \in Patch /\ r.cycle = cycle /\ r.status = unpublished /\ r.version = 0
    BY <1>1, <1>3 DEF Patch, Work, PartiesTyped
  <2> HIDE DEF r
  <2>2. /\ patches' \in Seq(Patch) /\ DOMAIN patches' = 1 .. l + 1 /\ patches'[l + 1] = r
        /\ DOMAIN patches = 1 .. l /\ l \in Nat
        /\ \A q \in 1 .. l : patches'[q] = patches[q]
    BY <1>5, <2>1, AppendProperties, LenProperties, Rows DEF TablesTyped
  <2> HIDE DEF l
  <2>3. Carried' = Carried
    BY <1>1 DEF Carried
  <2>4. Fate \in Seq(History!Fates) /\ Len(Fate) = l /\ DOMAIN Fate = 1 .. l
    BY <2>2 DEF Fate, History!Fates
  <2>5. OfThisCycle' = OfThisCycle \union {Len(Fate) + 1}
    <3>1. \A q : q \in OfThisCycle' <=> q \in OfThisCycle \/ q = l + 1
      BY <1>1, <2>1, <2>2 DEF OfThisCycle
    <3> QED BY <2>4, <3>1
  <2>6. Fate' = Append(Fate, "offered")
    <3>1. /\ Append(Fate, "offered") \in Seq(History!Fates)
          /\ Len(Append(Fate, "offered")) = l + 1
          /\ Append(Fate, "offered")[l + 1] = "offered"
          /\ \A m \in 1 .. l : Append(Fate, "offered")[m] = Fate[m]
      BY <2>2, <2>4, AppendProperties DEF History!Fates
    <3>2. Fate' \in Seq(History!Fates) /\ Len(Fate') = l + 1
      BY <2>2 DEF Fate, History!Fates
    <3>3. ASSUME NEW m \in 1 .. l + 1
          PROVE  Fate'[m] = Append(Fate, "offered")[m]
      <4>1. CASE m = l + 1
        BY <1>3, <2>1, <2>2, <3>1, <4>1 DEF Fate, Unpublished
      <4>2. CASE m # l + 1
        <5>1. m \in 1 .. l
          BY <2>2, <4>2
        <5> QED BY <2>2, <3>1, <5>1 DEF Fate, Unpublished
      <4> QED BY <4>1, <4>2
    <3> QED BY <3>1, <3>2, <3>3, SeqEqual
  <2>7. History!Suggest
    BY <2>3, <2>5, <2>6 DEF History!Suggest
  <2> QED BY <2>7 DEF History!HistoryNext
<1> QED BY <1>2, <1>4, <1>5

LEMMA StepReported ==
    ASSUME IInv, [Next]_vars
    PROVE  [History!HistoryNext]_(History!historyVars)
<1> USE DEF IInv, TypeOK
<1>1. CASE UNCHANGED <<versions, patches, cycle>>
  BY <1>1, NothingReported
<1>2. ASSUME NEW h \in Handlers, PublishInsert(h), GatewayFree(h), ~Taken(cmd[h].number)
      PROVE  History!HistoryNext
  <2>1. /\ cmd[h].patch \in DOMAIN patches /\ cmd[h].number \in Nat
        /\ Cleared(cmd[h].patch, "gateway") /\ cmd[h].number <= Len(versions) + 1
    BY <1>2 DEF PublishInsert, CommandsHold, CommandHolds, Publishing, PartiesTyped, Cmd
  <2>2. PublishRow(cmd[h].patch, cmd[h].number, "gateway") /\ UNCHANGED cycle
    BY <1>2 DEF PublishInsert, run
  <2> QED BY <1>2, <2>1, <2>2, RowReported
<1>3. ASSUME NEW t \in Threads, AutoInsert(t), ~Taken(work[t].number)
      PROVE  History!HistoryNext
  <2>1. /\ work[t].patch \in DOMAIN patches /\ work[t].number \in Nat
        /\ Cleared(work[t].patch, "worker") /\ work[t].number <= Len(versions) + 1
    BY <1>3 DEF AutoInsert, At, WorkerHolds, WorkHolds, Validating, PartiesTyped, Work
  <2>2. PublishRow(work[t].patch, work[t].number, "worker") /\ UNCHANGED cycle
    BY <1>3 DEF AutoInsert, run
  <2> QED BY <1>3, <2>1, <2>2, RowReported
<1>4. ASSUME NEW h \in Handlers, RejectWrite(h)
      PROVE  [History!HistoryNext]_(History!historyVars)
  <2> DEFINE p == cmd[h].patch
  <2>1. p \in DOMAIN patches /\ UNCHANGED <<versions, cycle>>
    BY <1>4 DEF RejectWrite, CommandsHold, CommandHolds, run
  <2>2. CASE patches[p].status = "pending"
    <3>1. patches' = [patches EXCEPT ![p].status = "rejected"] /\ Unpublished(p)
      BY <1>4, <2>2 DEF RejectWrite, Unpublished
    <3> QED BY <2>1, <3>1, StatusReported DEF Statuses
  <2>3. CASE patches[p].status # "pending"
    BY <1>1, <1>4, <2>1, <2>3 DEF RejectWrite
  <2> QED BY <2>2, <2>3
<1>5. ASSUME NEW t \in Threads, AutoRefused(t)
      PROVE  [History!HistoryNext]_(History!historyVars)
  <2> DEFINE p == work[t].patch
  <2>1. p \in DOMAIN patches /\ UNCHANGED <<versions, cycle>>
    BY <1>5 DEF AutoRefused, At, WorkerHolds, WorkHolds, Validating, run
  <2>2. CASE Unpublished(p)
    <3>1. patches' = [patches EXCEPT ![p].status = "deleted"]
      BY <1>5, <2>2 DEF AutoRefused
    <3> QED BY <2>1, <2>2, <3>1, StatusReported DEF Statuses
  <2>3. CASE ~Unpublished(p)
    BY <1>1, <1>5, <2>1, <2>3 DEF AutoRefused
  <2> QED BY <2>2, <2>3
<1>6. CASE StartCycle
  <2>1. UNCHANGED <<versions, patches>> /\ cycle' = cycle + 1
    BY <1>6 DEF StartCycle, tables
  <2>2. Carried' = Carried /\ Fate' = Fate
    BY <2>1 DEF Carried, Fate, Unpublished
  <2>3. OfThisCycle' = {}
    <3>1. \A p \in DOMAIN patches : patches[p].cycle <= cycle /\ patches[p].cycle \in Nat
      BY Rows DEF CyclesInOrder, Patch
    <3> QED BY <2>1, <3>1 DEF OfThisCycle, PartiesTyped
  <2> QED BY <2>2, <2>3 DEF History!Begin, History!HistoryNext
<1>7. CASE Next
  <2>1. ASSUME NEW h \in Handlers, CommandStep(h) \/ Command(h)
        PROVE  [History!HistoryNext]_(History!historyVars)
    <3>1. CASE PublishInsert(h)
      <4>1. GatewayFree(h)
        BY <2>1 DEF CommandStep, Command
      <4>2. CASE Taken(cmd[h].number)
        BY <1>1, <3>1, <4>2 DEF PublishInsert, run
      <4> QED BY <1>2, <3>1, <4>1, <4>2
    <3>2. CASE ~PublishInsert(h) /\ ~RejectWrite(h)
      BY <1>1, <2>1, <3>2
      DEF CommandStep, Command, PublishCheck, PublishNumber, MarkApplied, Approve, Reject,
          tables, run
    <3> QED BY <1>4, <3>1, <3>2
  <2>2. ASSUME NEW t \in Threads, Activity(t)
        PROVE  [History!HistoryNext]_(History!historyVars)
    <3>1. CASE AutoInsert(t) /\ Taken(work[t].number)
      BY <1>1, <3>1 DEF AutoInsert, run
    <3>2. CASE ~AutoInsert(t) /\ ~AutoRefused(t) /\ ~UpdateStore(t)
      BY <1>1, <2>2, <3>2
      DEF Activity, Detect, UpdateReuses, UpdateRead, UpdateEvidenceOnly, UpdateRecord,
          ValidateNoPatch, AutoPick, AutoCheck, AutoNumber, AutoMark, tables, run
    <3> QED BY <1>3, <1>5, <3>1, <3>2, StoreReported
  <2>3. CASE Delivery \/ Trouble \/ GatewayCrash \/ Advance
    BY <1>1, <2>3 DEF Delivery, Trouble, GatewayCrash, Advance, tables, run
  <2> QED BY <1>6, <1>7, <2>1, <2>2, <2>3 DEF Next
<1> QED BY <1>1, <1>7 DEF vars

LEMMA FirstReported == Init => History!HistoryInit
<1> SUFFICES ASSUME Init
             PROVE  History!HistoryInit
  OBVIOUS
<1>1. Len(versions) = 1 /\ patches = <<>>
  BY DEF Init
<1>2. Carried = <<>> /\ Fate = <<>> /\ OfThisCycle = {}
  BY <1>1 DEF Carried, Fate, OfThisCycle
<1> QED BY <1>2 DEF History!HistoryInit

(* Whatever handlers and worker do at the same time, and wherever they crash,  *)
(* the report grows as ReportHistory promises: version by version, every       *)
(* patch once at most and only while it is on offer.                          *)
THEOREM PublicationImplementsHistory == Spec => KeepsHistory
BY Invariance, StepReported, FirstReported, PTL
DEF Spec, KeepsHistory, History!ReportedHistory

-----------------------------------------------------------------------------
(* What the owner gets from ReportHistory. *)

HistoryHolds == History!HistoryTypes /\ History!PublishedAreCarried

LEMMA HistoryStep ==
    ASSUME HistoryHolds, [History!HistoryNext]_(History!historyVars)
    PROVE  /\ HistoryHolds'
           /\ \A n \in DOMAIN Carried : n \in DOMAIN Carried' /\ Carried'[n] = Carried[n]
<1> USE DEF HistoryHolds, History!HistoryTypes, History!PublishedAreCarried
<1> DEFINE l == Len(Carried)
           k == Len(Fate)
<1>1. /\ l \in Nat /\ DOMAIN Carried = 1 .. l /\ \A n \in 1 .. l : Carried[n] \in DOMAIN Fate
      /\ k \in Nat /\ DOMAIN Fate = 1 .. k /\ \A p \in 1 .. k : Fate[p] \in History!Fates
      /\ Carried = [n \in 1 .. l |-> Carried[n]]
  BY LenProperties, ElementOfSeq
<1>2. CASE UNCHANGED History!historyVars \/ History!Begin
  BY <1>2 DEF History!historyVars, History!Begin
<1>3. CASE History!Suggest
  <2>1. Fate' = Append(Fate, "offered") /\ Carried' = Carried
        /\ OfThisCycle' = OfThisCycle \union {k + 1}
    BY <1>3 DEF History!Suggest
  <2> HIDE DEF l, k
  <2>2. /\ Fate' \in Seq(History!Fates) /\ DOMAIN Fate' = 1 .. k + 1
        /\ Fate'[k + 1] = "offered" /\ \A p \in 1 .. k : Fate'[p] = Fate[p]
    BY <2>1, AppendProperties, LenProperties DEF History!Fates, k
  <2>3. k + 1 \in DOMAIN Fate' /\ DOMAIN Fate' = DOMAIN Fate \union {k + 1}
        /\ k + 1 \notin DOMAIN Fate
    BY <1>1, <2>2
  <2>4. History!HistoryTypes'
    <3>1. \A n \in 1 .. l : Carried[n] \in DOMAIN Fate'
      BY <1>1, <2>3
    <3>2. Carried' \in Seq(DOMAIN Fate')
      BY <1>1, <2>1, <3>1
    <3> QED BY <2>1, <2>2, <2>3, <3>2
  <2>5. ASSUME NEW p \in DOMAIN Fate'
        PROVE  Fate'[p] = "published" <=> \E n \in DOMAIN Carried' : Carried'[n] = p
    <3>1. CASE p = k + 1
      BY <1>1, <2>1, <2>2, <2>3, <3>1
    <3>2. CASE p \in DOMAIN Fate
      BY <1>1, <2>1, <2>2, <3>2
    <3> QED BY <2>3, <3>1, <3>2
  <2> QED BY <2>1, <2>4, <2>5
<1>4. ASSUME NEW p \in DOMAIN Fate, NEW from \in History!Fates, NEW to \in History!Fates,
             History!Becomes(p, from, to)
      PROVE  /\ Fate[p] = from /\ Fate' \in Seq(History!Fates) /\ DOMAIN Fate' = DOMAIN Fate
             /\ Fate'[p] = to /\ \A q \in DOMAIN Fate \ {p} : Fate'[q] = Fate[q]
  <2>1. Fate[p] = from /\ Fate' = [Fate EXCEPT ![p] = to]
    BY <1>4 DEF History!Becomes
  <2>2. Fate' \in Seq(History!Fates)
    BY <1>1, <2>1, ExceptSeq
  <2> QED BY <1>1, <2>1, <2>2
<1>5. ASSUME NEW p \in DOMAIN Fate, History!Renew(p) \/ History!Withdraw(p)
      PROVE  HistoryHolds' /\ Carried' = Carried
  <2>1. /\ UNCHANGED <<Carried, OfThisCycle>>
        /\ \/ History!Becomes(p, "withdrawn", "offered")
           \/ History!Becomes(p, "offered", "withdrawn")
    BY <1>5 DEF History!Renew, History!Withdraw
  <2>2. /\ Fate' \in Seq(History!Fates) /\ DOMAIN Fate' = DOMAIN Fate
        /\ Fate[p] # "published" /\ Fate'[p] # "published"
        /\ \A q \in DOMAIN Fate \ {p} : Fate'[q] = Fate[q]
    BY <1>4, <2>1 DEF History!Fates
  <2> QED BY <2>1, <2>2
<1>6. ASSUME NEW p \in DOMAIN Fate, History!Publish(p)
      PROVE  /\ HistoryHolds'
             /\ \A n \in DOMAIN Carried : n \in DOMAIN Carried' /\ Carried'[n] = Carried[n]
  <2>1. /\ Fate[p] = "offered" /\ Fate' \in Seq(History!Fates) /\ DOMAIN Fate' = DOMAIN Fate
        /\ Fate'[p] = "published" /\ \A q \in DOMAIN Fate \ {p} : Fate'[q] = Fate[q]
        /\ Carried' = Append(Carried, p) /\ OfThisCycle' = OfThisCycle
    BY <1>4, <1>6 DEF History!Publish, History!Becomes, History!Fates
  <2> HIDE DEF l, k
  <2>2. /\ Carried' \in Seq(DOMAIN Fate) /\ DOMAIN Carried' = 1 .. l + 1
        /\ Carried'[l + 1] = p /\ \A n \in 1 .. l : Carried'[n] = Carried[n]
    BY <2>1, AppendProperties, LenProperties DEF l
  <2>3. DOMAIN Carried' = DOMAIN Carried \union {l + 1} /\ l + 1 \notin DOMAIN Carried
        /\ \A n \in DOMAIN Carried : Carried'[n] = Carried[n] /\ Carried[n] # p
    BY <1>1, <2>1, <2>2, SMTT(30)
  <2>4. \A q \in DOMAIN Fate' :
            Fate'[q] = "published" <=> \E n \in DOMAIN Carried' : Carried'[n] = q
    BY <2>1, <2>2, <2>3
  <2>5. \A m, n \in DOMAIN Carried' : Carried'[m] = Carried'[n] => m = n
    BY <2>1, <2>2, <2>3
  <2> QED BY <2>1, <2>2, <2>3, <2>4, <2>5
<1> QED BY <1>2, <1>3, <1>5, <1>6 DEF History!HistoryNext, History!Suggest, History!Begin,
                                      History!historyVars

(* Every version after the first carries a patch that is published, every     *)
(* published patch is in one version, and no version is taken back.           *)
THEOREM ReportOnlyGrows == Spec => []History!PublishedAreCarried /\ History!OnlyGrows
<1>1. History!HistoryInit => HistoryHolds
  BY DEF History!HistoryInit, HistoryHolds, History!HistoryTypes, History!PublishedAreCarried
<1>2. HistoryHolds /\ [History!HistoryNext]_(History!historyVars) => HistoryHolds'
  BY HistoryStep
<1>3. HistoryHolds => History!PublishedAreCarried
  BY DEF HistoryHolds
<1>4. HistoryHolds /\ [History!HistoryNext]_(History!historyVars)
        => [\A n \in DOMAIN Carried :
                n \in DOMAIN Carried' /\ Carried'[n] = Carried[n]]_(History!historyVars)
  BY HistoryStep
<1> QED
  BY <1>1, <1>2, <1>3, <1>4, PublicationImplementsHistory, PTL
  DEF KeepsHistory, History!ReportedHistory, History!OnlyGrows
=============================================================================
