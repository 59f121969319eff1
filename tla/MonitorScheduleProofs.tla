----------------------- MODULE MonitorScheduleProofs -----------------------
(***************************************************************************)
(* The row and the schedule of a monitor, for any number of event workers,   *)
(* any schedules asked for, any failure threshold, and any number of         *)
(* commands, cycles, lost answers, failing calls and crashes.                *)
(***************************************************************************)
EXTENDS MonitorSchedule, FiniteSetTheorems, SequenceTheorems, TLAPS

Statuses == {"none", "active", "paused", "deleted", "registration_failed"}
Specs == {SpecOf(r) : r \in Requests}
Rows == {RowOf(r) : r \in Requests}
Results == {"completed", "failed", "cancelled"}

Configs == [status : Statuses, words : {NoWords} \union Rows, failures : Nat]
Scheds == [exists : BOOLEAN, paused : BOOLEAN, spec : {NoSpec} \union Specs,
           buffer : {"none", "timer", "manual"}]
Commands == [at : {"call", "row", "next", "mark", "undo"},
             op : {"create", "update", "pause", "resume", "run", "cancel", "delete"},
             ask : Requests \union {NoWords}, made : BOOLEAN]
Repairs == [at : {"describe", "flag", "missing", "unreachable", "spec"}, op : {"reconcile"},
            row : Configs, saw : Scheds]
Ending == {"threshold", "pause", "pauseRow", "notify"}
Cycles == [at : {"none", "start", "work", "complete"} \union Ending, from : Nat, run : Nat, tries : Nat,
           result : {"none"} \union Results, cancel : BOOLEAN]
Lates == {NoLate} \union [at : Completing, run : Nat, result : Results]

-----------------------------------------------------------------------------
(* The invariant.  A request is asked for by those commands that want one,   *)
(* and only the command line repairs.                                        *)
RowTyped == config \in Configs /\ (config.status # "none" => config.words \in Rows)

ScheduleTyped == sched \in Scheds /\ (sched.exists => sched.spec \in Specs)

CallersTyped ==
    /\ caller \in [Callers -> {Idle} \union Commands \union Repairs]
    /\ \A c \in Callers : /\ caller[c] \in Repairs => c = "cli" /\ caller[c].row.words \in Rows
                          /\ caller[c] \in Commands /\ caller[c].op \in {"create", "update"}
                                => caller[c].ask \in Requests

CycleTyped == cycle \in Cycles /\ late \in Lates /\ runs \in Seq({"running"} \union Results)

(* Without a row nothing happens but a create and the start of a cycle.      *)
Rowless ==
    config.status = "none" =>
      /\ \A c \in Callers : caller[c] # Idle => caller[c].op = "create"
      /\ cycle.at \in {"none", "start"} /\ late = NoLate

Typed == RowTyped /\ ScheduleTyped /\ CallersTyped /\ CycleTyped /\ Rowless /\ losses \in Nat /\ faults \in Nat

(* A cycle has a row when its start is over, and a result when its work is.  *)
CycleFits ==
    /\ cycle.at \in {"none", "start"} => cycle.run = 0
    /\ cycle.at \in {"none", "start", "work"} => cycle.result = "none"
    /\ cycle.at \notin {"none", "start"} => cycle.run \in 1 .. Len(runs)
    /\ cycle.at \in {"complete"} \union Ending => cycle.result \in Results
    /\ cycle.at \in Ending => runs[cycle.run] # "running"

(* The attempt nobody waits for is one that was lost, of a cycle that ran.    *)
LateFits ==
    late # NoLate =>
      /\ late.run \in 1 .. Len(runs) /\ losses # 0
      /\ late.result = "failed" /\ late.run = cycle.run => cycle.result = "failed"

(* A failure is counted again only for an attempt that was lost; at most two  *)
(* attempts are about to.                                                    *)
LateReserve == IF late.at = "complete" /\ late.result = "failed" THEN 1 ELSE 0
CycleReserve == IF cycle.at = "complete" /\ cycle.run \in failed THEN 1 ELSE 0

Counting ==
    /\ failed \subseteq 1 .. Len(runs)
    /\ cycle.result # "failed" => cycle.run \notin failed
    /\ config.failures + LateReserve + CycleReserve <= Cardinality(failed) + losses

(* What the history says of those at work now.                               *)
Watched ==
    /\ rivals = "none" => Rivals = "none"
    /\ rivals # "delete" => Rivals # "delete"

(* What the command line saw of a monitor that nobody else touches is so.     *)
Repairing ==
    LET me == caller["cli"] IN
    me \in Repairs =>
      /\ config.words = me.row.words /\ me.row.status \notin {"none", "deleted"}
      /\ me.at \in {"describe", "flag"} => config.status = me.row.status
      /\ me.at \in {"flag", "spec"} => sched.exists /\ me.saw.exists /\ sched.spec = me.saw.spec
      /\ me.at = "spec" => (config.status = "paused" <=> me.saw.paused)
      /\ me.at = "missing" => ~sched.exists

Seen == rivals = "none" => Repairing

Doing(op, p) == \E c \in Callers : At(c, op, p)

WritesAt(c) ==
    \/ caller[c].at = "row" /\ caller[c].op \in {"create", "pause", "resume", "update"}
    \/ caller[c].at \in {"describe", "flag", "spec"}

(* A cycle that failed too often writes the row as paused.                   *)
Writing == "pauseRow" \in {cycle.at, late.at}

(* Row and schedule are both there or neither, but between the two steps of   *)
(* a create and of a delete; who writes a row as alive has a schedule.       *)
Pairs ==
    /\ \A c \in Callers : caller[c].at \notin {"undo", "missing", "unreachable"}
    /\ sched.exists /\ ~Live => Doing("create", "row")
    /\ Live /\ ~sched.exists => Doing("delete", "row")
    /\ (\E c \in Callers : WritesAt(c)) \/ Writing => sched.exists
    /\ Doing("delete", "row") => ~sched.exists

BothOrNeither == faults = 0 /\ rivals # "delete" => Pairs

(* Without rivals the times differ only between the two steps of a command.   *)
Times ==
    /\ Doing("create", "call") => ~Live
    /\ \A c \in Callers : At(c, "create", "row") \/ At(c, "update", "row")
          => sched.spec = SpecOf(caller[c].ask)
    /\ sched.exists /\ ~Doing("create", "row") /\ ~Doing("update", "row")
          => sched.spec = SpecOf(config.words)

SameTimes == faults = 0 /\ rivals = "none" => Times

(* Without rivals what the row shows as paused is paused, but between the two *)
(* steps of a resume; who writes a row as paused has paused the schedule.    *)
Pauses ==
    /\ \A c \in Callers : At(c, "pause", "row") => sched.paused
    /\ Writing => sched.paused
    /\ \A c \in Callers : At(c, "reconcile", "flag") /\ caller[c].saw.paused => sched.paused
    /\ config.status = "paused" /\ sched.exists => sched.paused \/ Doing("resume", "row")

SamePauses == faults = 0 /\ rivals = "none" => Pauses

CycleInv == CycleFits /\ LateFits /\ Counting /\ CountsFailures /\ RunRowsEnd

IInv == /\ Typed /\ CycleInv
        /\ Watched /\ Seen /\ BothOrNeither /\ SameTimes /\ SamePauses

-----------------------------------------------------------------------------
(* The words and the schedules they mean.                                    *)
LEMMA NamesKnown ==
    /\ Short[1] = "mon" /\ Short[2] = "tue" /\ Short[3] = "wed" /\ Short[4] = "thu"
    /\ Short[5] = "fri" /\ Short[6] = "sat"
    /\ Long[1] = "monday" /\ Long[2] = "tuesday" /\ Long[3] = "wednesday" /\ Long[4] = "thursday"
    /\ Long[5] = "friday" /\ Long[6] = "saturday"
BY DEF Short, Long

LEMMA DaysKnown ==
    /\ \A d \in 0 .. 6 : ShortName(d) \in DayNames /\ WeekDay(ShortName(d)) = d
    /\ \A name \in DayNames : WeekDay(name) \in 0 .. 6
<1>1. /\ Short[1] = "mon" /\ Short[2] = "tue" /\ Short[3] = "wed" /\ Short[4] = "thu"
      /\ Short[5] = "fri" /\ Short[6] = "sat"
  BY NamesKnown
<1>2. /\ Long[1] = "monday" /\ Long[2] = "tuesday" /\ Long[3] = "wednesday" /\ Long[4] = "thursday"
      /\ Long[5] = "friday" /\ Long[6] = "saturday"
  BY NamesKnown
<1>3. \A d \in 0 .. 6 : d = 0 \/ d = 1 \/ d = 2 \/ d = 3 \/ d = 4 \/ d = 5 \/ d = 6
  OBVIOUS
<1>4. \A d \in 1 .. 6 : d = 1 \/ d = 2 \/ d = 3 \/ d = 4 \/ d = 5 \/ d = 6
  OBVIOUS
<1>5. \A d, e \in 1 .. 6 : Short[d] \in {Short[e], Long[e]} => d = e
  BY <1>1, <1>2, <1>4
<1>6. \A d \in 1 .. 6 : Short[d] \notin {"sun", "sunday"}
  BY <1>1, <1>4
<1>7. ASSUME NEW d \in 0 .. 6 PROVE ShortName(d) \in DayNames /\ WeekDay(ShortName(d)) = d
  <2>1. CASE d = 0
    BY <2>1 DEF ShortName, WeekDay, DayNames
  <2>2. CASE d # 0
    <3>1. d \in 1 .. 6 /\ ShortName(d) = Short[d]
      BY <2>2 DEF ShortName
    <3>2. (CHOOSE e \in 1 .. 6 : Short[d] \in {Short[e], Long[e]}) = d
      BY <1>5, <3>1
    <3> QED BY <1>6, <3>1, <3>2 DEF WeekDay, DayNames
  <2> QED BY <2>1, <2>2
<1>8. ASSUME NEW name \in DayNames PROVE WeekDay(name) \in 0 .. 6
  <2>1. CASE name \in {"sun", "sunday"}
    BY <2>1 DEF WeekDay
  <2>2. CASE name \notin {"sun", "sunday"}
    <3>1. \E d \in 1 .. 6 : name \in {Short[d], Long[d]}
      BY <2>2 DEF DayNames
    <3>2. (CHOOSE d \in 1 .. 6 : name \in {Short[d], Long[d]}) \in 1 .. 6
      BY <3>1
    <3> QED BY <2>2, <3>2 DEF WeekDay
  <2> QED BY <2>1, <2>2
<1> QED BY <1>7, <1>8

(* What a legal request of each kind is. *)
LEMMA LegalEvery ==
    ASSUME NEW r \in Words, Legal(r), r.kind = "every"
    PROVE  r.n \in Nat /\ r.unit \in {"m", "h", "d"} /\ r = [kind |-> "every", n |-> r.n, unit |-> r.unit]
BY DEF Words

LEMMA LegalTimed ==
    ASSUME NEW r \in Words, Legal(r), r.kind # "every"
    PROVE  /\ r.clock \in Clocks /\ ClockLegal(r.clock) /\ r.zone \in Zones
           /\ \/ r.kind = "daily" /\ r = [kind |-> "daily", clock |-> r.clock, zone |-> r.zone]
              \/ /\ r.kind = "weekly" /\ r.day \in DayNames
                 /\ r = [kind |-> "weekly", day |-> r.day, clock |-> r.clock, zone |-> r.zone]
BY DEF Words, Legal

(* The time of a day, in 24 hours and read again. *)
LEMMA ClockAgain ==
    ASSUME NEW clock \in Clocks, ClockLegal(clock)
    PROVE  /\ Hour24(clock) \in 0 .. 23 /\ clock.min \in 0 .. 59
           /\ \A k : k = [h |-> Hour24(clock), min |-> clock.min, half |-> ""] =>
                /\ k \in Clocks /\ ClockLegal(k) /\ Hour24(k) = Hour24(clock) /\ k.min = clock.min
           /\ clock.half # "" => Hour24(clock) = (clock.h % 12) + (IF clock.half = "pm" THEN 12 ELSE 0)
<1>1. clock.h \in Nat /\ clock.min \in Nat /\ clock.half \in {"am", "pm", ""}
  BY DEF Clocks
<1>2. Hour24(clock) \in 0 .. 23 /\ clock.min \in 0 .. 59
  <2>1. Hour24(clock) \in Nat
    <3>1. CASE clock.half = "pm"
      BY <1>1, <3>1 DEF Hour24
    <3>2. CASE clock.half = "am"
      BY <1>1, <3>2 DEF Hour24
    <3>3. CASE clock.half = ""
      BY <1>1, <3>3 DEF Hour24
    <3> QED BY <1>1, <3>1, <3>2, <3>3
  <2>2. Hour24(clock) <= 23 /\ clock.min <= 59
    BY DEF ClockLegal
  <2>3. PICK hour, min : hour = Hour24(clock) /\ min = clock.min
    OBVIOUS
  <2>4. hour \in Nat /\ min \in Nat /\ hour <= 23 /\ min <= 59
    BY <1>1, <2>1, <2>2, <2>3
  <2>5. hour \in 0 .. 23 /\ min \in 0 .. 59
    BY ONLY <2>4
  <2> QED BY <2>3, <2>5
<1>3. ASSUME NEW k, k = [h |-> Hour24(clock), min |-> clock.min, half |-> ""]
      PROVE  k \in Clocks /\ ClockLegal(k) /\ Hour24(k) = Hour24(clock) /\ k.min = clock.min
  <2>1. k.h = Hour24(clock) /\ k.min = clock.min /\ k.half = ""
    BY <1>3
  <2>2. Hour24(k) = k.h
    BY <2>1 DEF Hour24
  <2>3. k \in Clocks
    <3>1. PICK hour, min : hour = Hour24(clock) /\ min = clock.min
      OBVIOUS
    <3>2. hour \in Nat
      BY <1>2, <3>1
    <3>3. min \in Nat
      BY <1>2, <3>1
    <3>4. k = [h |-> hour, min |-> min, half |-> ""]
      BY <1>3, <3>1
    <3> QED BY ONLY <3>2, <3>3, <3>4 DEF Clocks
  <2> QED BY <1>2, <2>1, <2>2, <2>3 DEF ClockLegal
<1>4. ASSUME clock.half # ""
      PROVE  Hour24(clock) = (clock.h % 12) + (IF clock.half = "pm" THEN 12 ELSE 0)
  <2>1. clock.h \in 1 .. 12
    BY <1>4 DEF ClockLegal
  <2>2. clock.h % 12 = IF clock.h = 12 THEN 0 ELSE clock.h
    BY <2>1
  <2>3. CASE clock.half = "pm"
    BY <2>1, <2>2, <2>3 DEF Hour24
  <2>4. CASE clock.half = "am"
    BY <2>1, <2>2, <2>4 DEF Hour24
  <2> QED BY <1>1, <1>4, <2>3, <2>4
<1> QED BY <1>2, <1>3, <1>4

(* What is stored of a request, and the summary of its schedule, mean it.    *)
LEMMA EveryMeans ==
    ASSUME NEW r \in Words, Legal(r), r.kind = "every"
    PROVE  /\ RowOf(r) = r /\ Summary(SpecOf(r)) \in Words /\ Legal(Summary(SpecOf(r)))
           /\ Summary(SpecOf(r)).kind = "every"
           /\ SpecOf(Summary(SpecOf(r))) = SpecOf(r)
<1>1. r.n \in Nat /\ r.unit \in {"m", "h", "d"}
  BY LegalEvery
<1>2. PICK minutes : minutes = Minutes(r.n, r.unit)
  OBVIOUS
<1>3. minutes \in Nat
  <2>1. CASE r.unit = "m"
    BY <1>1, <1>2, <2>1 DEF Minutes
  <2>2. CASE r.unit = "h"
    BY <1>1, <1>2, <2>2 DEF Minutes
  <2>3. CASE r.unit = "d"
    BY <1>1, <1>2, <2>3 DEF Minutes
  <2> QED BY <1>1, <2>1, <2>2, <2>3
<1>4. minutes > 0 /\ minutes >= MinMinutes
  <2>1. r.n > 0 /\ minutes >= MinMinutes
    BY <1>2 DEF Legal
  <2>2. CASE r.unit = "m"
    BY <1>1, <1>2, <2>1, <2>2 DEF Minutes
  <2>3. CASE r.unit = "h"
    BY <1>1, <1>2, <2>1, <2>3 DEF Minutes
  <2>4. CASE r.unit = "d"
    BY <1>1, <1>2, <2>1, <2>4 DEF Minutes
  <2> QED BY <1>1, <2>1, <2>2, <2>3, <2>4
<1>5. SpecOf(r) = [every |-> minutes]
  BY <1>2 DEF SpecOf
<1>6. Summary(SpecOf(r)) = IF minutes % 60 = 0
                           THEN [kind |-> "every", n |-> minutes \div 60, unit |-> "h"]
                           ELSE [kind |-> "every", n |-> minutes, unit |-> "m"]
  BY <1>5 DEF Summary
<1>7. CASE minutes % 60 = 0
  <2>1. PICK hours : hours = minutes \div 60
    OBVIOUS
  <2>2. hours \in Nat /\ 60 * hours = minutes /\ hours > 0
    BY <1>3, <1>4, <1>7, <2>1
  <2>3. PICK s : s = Summary(SpecOf(r))
    OBVIOUS
  <2>4. s = [kind |-> "every", n |-> hours, unit |-> "h"]
    BY <1>6, <1>7, <2>1, <2>3
  <2>5. s \in Words /\ s.kind = "every" /\ s.n = hours /\ s.unit = "h"
    BY <2>2, <2>4 DEF Words
  <2>6. Minutes(s.n, s.unit) = minutes
    BY <2>2, <2>5 DEF Minutes
  <2>7. Legal(s) /\ SpecOf(s) = [every |-> minutes]
    BY <1>4, <2>2, <2>5, <2>6 DEF Legal, SpecOf
  <2> QED BY <1>5, <2>3, <2>5, <2>7 DEF RowOf
<1>8. CASE minutes % 60 # 0
  <2>1. PICK s : s = Summary(SpecOf(r))
    OBVIOUS
  <2>2. s = [kind |-> "every", n |-> minutes, unit |-> "m"]
    BY <1>6, <1>8, <2>1
  <2>3. s \in Words /\ s.kind = "every" /\ s.n = minutes /\ s.unit = "m"
    BY <1>3, <2>2 DEF Words
  <2>4. Minutes(s.n, s.unit) = minutes
    BY <2>3 DEF Minutes
  <2>5. Legal(s) /\ SpecOf(s) = [every |-> minutes]
    BY <1>4, <2>3, <2>4 DEF Legal, SpecOf
  <2> QED BY <1>5, <2>1, <2>3, <2>5 DEF RowOf
<1> QED BY <1>7, <1>8

LEMMA DailyMeans ==
    ASSUME NEW r \in Words, Legal(r), r.kind = "daily"
    PROVE  /\ RowOf(r) \in Words /\ Legal(RowOf(r)) /\ RowOf(r).kind = "daily"
           /\ SpecOf(RowOf(r)) = SpecOf(r)
           /\ Summary(SpecOf(r)) = RowOf(r) /\ RowOf(RowOf(r)) = RowOf(r)
<1>1. /\ r.clock \in Clocks /\ ClockLegal(r.clock) /\ r.zone \in Zones
      /\ r = [kind |-> "daily", clock |-> r.clock, zone |-> r.zone] /\ r.zone \in STRING
  BY LegalTimed DEF Words
<1>2. PICK hour, min, zone, k : /\ hour = Hour24(r.clock) /\ min = r.clock.min /\ zone = r.zone
                                /\ k = [h |-> hour, min |-> min, half |-> ""]
  OBVIOUS
<1>3. k \in Clocks /\ ClockLegal(k) /\ Hour24(k) = hour /\ k.min = min
  BY <1>1, <1>2, ClockAgain
<1>4. SpecOf(r) = [hour |-> hour, min |-> min, zone |-> zone]
  BY <1>2 DEF SpecOf
<1>5. Clock(SpecOf(r)) = k
  <2>1. SpecOf(r).hour = hour /\ SpecOf(r).min = min
    BY <1>4
  <2> QED BY <1>2, <2>1 DEF Clock
<1>6. PICK row : row = RowOf(r)
  OBVIOUS
<1>7. row = [kind |-> "daily", clock |-> k, zone |-> zone]
  BY <1>1, <1>2, <1>5, <1>6 DEF RowOf
<1>8. row.kind = "daily" /\ row.clock = k /\ row.zone = zone
  BY <1>7
<1>9. row \in Words
  BY <1>1, <1>2, <1>3, <1>7 DEF Words
<1>10. Legal(row)
  BY <1>1, <1>2, <1>3, <1>8 DEF Legal
<1>11. SpecOf(row) = SpecOf(r)
  BY <1>3, <1>4, <1>8 DEF SpecOf
<1>12. Summary(SpecOf(r)) = row
  <2>1. "every" \notin DOMAIN SpecOf(r) /\ "day" \notin DOMAIN SpecOf(r) /\ SpecOf(r).zone = zone
    BY <1>4
  <2>2. Summary(SpecOf(r)) = [kind |-> "daily", clock |-> Clock(SpecOf(r)), zone |-> SpecOf(r).zone]
    BY <2>1 DEF Summary
  <2> QED BY <1>5, <1>7, <2>1, <2>2
<1>13. RowOf(row) = row
  BY <1>5, <1>7, <1>8, <1>11 DEF RowOf
<1> QED BY <1>6, <1>8, <1>9, <1>10, <1>11, <1>12, <1>13

LEMMA WeeklyMeans ==
    ASSUME NEW r \in Words, Legal(r), r.kind = "weekly"
    PROVE  /\ RowOf(r) \in Words /\ Legal(RowOf(r)) /\ SpecOf(RowOf(r)) = SpecOf(r)
           /\ Summary(SpecOf(r)) \in Words /\ Legal(Summary(SpecOf(r)))
           /\ Summary(SpecOf(r)).kind = "weekly"
           /\ SpecOf(Summary(SpecOf(r))) = SpecOf(r)
           /\ RowOf(Summary(SpecOf(r))) = Summary(SpecOf(r))
<1>1. /\ r.clock \in Clocks /\ ClockLegal(r.clock) /\ r.zone \in Zones /\ r.day \in DayNames
      /\ r = [kind |-> "weekly", day |-> r.day, clock |-> r.clock, zone |-> r.zone]
      /\ r.zone \in STRING
  BY LegalTimed DEF Words
<1>2. PICK hour, min, zone, k, day, short :
         /\ hour = Hour24(r.clock) /\ min = r.clock.min /\ zone = r.zone
         /\ k = [h |-> hour, min |-> min, half |-> ""]
         /\ day = WeekDay(r.day) /\ short = ShortName(day)
  OBVIOUS
<1>3. k \in Clocks /\ ClockLegal(k) /\ Hour24(k) = hour /\ k.min = min
  BY <1>1, <1>2, ClockAgain
<1>4. short \in DayNames /\ WeekDay(short) = day
  BY <1>1, <1>2, DaysKnown
<1>6. SpecOf(r) = [day |-> day, hour |-> hour, min |-> min, zone |-> zone]
  BY <1>2 DEF SpecOf
<1>7. Clock(SpecOf(r)) = k /\ SpecOf(r).day = day /\ SpecOf(r).zone = zone
  <2>1. SpecOf(r).hour = hour /\ SpecOf(r).min = min /\ SpecOf(r).day = day /\ SpecOf(r).zone = zone
    BY <1>6
  <2> QED BY <1>2, <2>1 DEF Clock
<1>8. ASSUME NEW name \in DayNames, NEW row, WeekDay(name) = day,
             row = [kind |-> "weekly", day |-> name, clock |-> k, zone |-> zone]
      PROVE  row \in Words /\ Legal(row) /\ SpecOf(row) = SpecOf(r) /\ RowOf(row) = row
  <2>1. row.kind = "weekly" /\ row.clock = k /\ row.zone = zone /\ row.day = name
    BY <1>8
  <2>2. zone \in STRING
    BY <1>1, <1>2
  <2>3. row \in Words
    BY <1>3, <1>8, <2>2 DEF Words
  <2>4. Legal(row)
    BY <1>1, <1>2, <1>3, <2>1 DEF Legal
  <2>5. SpecOf(row) = [day |-> day, hour |-> hour, min |-> min, zone |-> zone]
    BY <1>3, <1>8, <2>1 DEF SpecOf
  <2>6. RowOf(row) = row
    BY <1>6, <1>7, <1>8, <2>1, <2>5 DEF RowOf
  <2> QED BY <1>6, <2>3, <2>4, <2>5, <2>6
<1>9. RowOf(r) = [kind |-> "weekly", day |-> r.day, clock |-> k, zone |-> zone]
  BY <1>1, <1>2, <1>7 DEF RowOf
<1>10. Summary(SpecOf(r)) = [kind |-> "weekly", day |-> short, clock |-> k, zone |-> zone]
  <2>1. "every" \notin DOMAIN SpecOf(r) /\ "day" \in DOMAIN SpecOf(r)
    BY <1>6
  <2>2. Summary(SpecOf(r)) = [kind |-> "weekly", day |-> ShortName(SpecOf(r).day),
                              clock |-> Clock(SpecOf(r)), zone |-> SpecOf(r).zone]
    BY <2>1 DEF Summary
  <2> QED BY <1>2, <1>7, <2>2
<1>11. Summary(SpecOf(r)).kind = "weekly"
  BY <1>10
<1> QED BY <1>1, <1>2, <1>4, <1>8, <1>9, <1>10, <1>11

(* Whatever legal request a monitor is created with, the words of its row     *)
(* mean the schedule that was asked for, and so do the words reconcile makes  *)
(* of the schedule, which are stored again as they are (MonitoringScheduler    *)
(* parse, _spec_summary).                                                    *)
THEOREM ConversionsLoseNothing == WordsMean(Words)
<1> SUFFICES ASSUME NEW r \in Words, Legal(r)
             PROVE  /\ Legal(RowOf(r)) /\ SpecOf(RowOf(r)) = SpecOf(r)
                    /\ SpecOf(Summary(SpecOf(r))) = SpecOf(r)
                    /\ RowOf(Summary(SpecOf(r))) = Summary(SpecOf(r))
                    /\ r.kind # "every" /\ r.clock.half # "" =>
                          SpecOf(r).hour = (r.clock.h % 12) + (IF r.clock.half = "pm" THEN 12 ELSE 0)
  BY DEF WordsMean
<1>1. r.kind \in {"every", "daily", "weekly"}
  BY DEF Words
<1>2. CASE r.kind = "every"
  <2>1. RowOf(Summary(SpecOf(r))) = Summary(SpecOf(r))
    BY <1>2, EveryMeans DEF RowOf
  <2> QED BY <1>2, <2>1, EveryMeans
<1>3. ASSUME r.kind # "every", r.clock.half # ""
      PROVE  SpecOf(r).hour = (r.clock.h % 12) + (IF r.clock.half = "pm" THEN 12 ELSE 0)
  <2>1. SpecOf(r).hour = Hour24(r.clock)
    <3>1. CASE r.kind = "daily"
      BY <3>1 DEF SpecOf
    <3>2. CASE r.kind = "weekly"
      BY <3>2 DEF SpecOf
    <3> QED BY <1>1, <1>3, <3>1, <3>2
  <2>2. r.clock \in Clocks /\ ClockLegal(r.clock)
    BY <1>3, LegalTimed
  <2> QED BY <1>3, <2>1, <2>2, ClockAgain
<1>4. CASE r.kind = "daily"
  BY <1>3, <1>4, DailyMeans
<1>5. CASE r.kind = "weekly"
  BY <1>3, <1>5, WeeklyMeans
<1> QED BY <1>1, <1>2, <1>4, <1>5

-----------------------------------------------------------------------------
(* What the requests of the owner mean, and the schedules made of them.      *)
LEMMA MeaningKept ==
    /\ \A r \in Requests : SpecOf(r) \in Specs /\ RowOf(r) \in Rows /\ SpecOf(RowOf(r)) = SpecOf(r)
    /\ \A words \in Rows : SpecOf(words) \in Specs
    /\ \A spec \in Specs : SpecOf(Summary(spec)) = spec
<1>1. ASSUME NEW r \in Requests
      PROVE  /\ SpecOf(r) \in Specs /\ RowOf(r) \in Rows /\ SpecOf(RowOf(r)) = SpecOf(r)
             /\ SpecOf(Summary(SpecOf(r))) = SpecOf(r)
  <2>1. r \in Words /\ Legal(r)
    BY RequestsAssumption
  <2>2. SpecOf(RowOf(r)) = SpecOf(r) /\ SpecOf(Summary(SpecOf(r))) = SpecOf(r)
    BY <2>1, ConversionsLoseNothing DEF WordsMean
  <2> QED BY <2>2 DEF Specs, Rows
<1> QED BY <1>1 DEF Specs, Rows

(* Who is where. *)
LEMMA CallersKnown ==
    ASSUME CallersTyped, NEW c \in Callers
    PROVE  /\ caller[c] \in {Idle} \union Commands \union Repairs
           /\ caller[c].at \in {"call", "row", "next", "mark", "undo"} => caller[c] \in Commands
           /\ caller[c].at \in {"describe", "flag", "missing", "unreachable", "spec"} => caller[c] \in Repairs
           /\ caller[c] \in Repairs => c = "cli" /\ caller[c].op = "reconcile"
                                       /\ caller[c].at \in {"describe", "flag", "missing", "unreachable", "spec"}
           /\ caller[c] \in Commands => /\ caller[c].at \in {"call", "row", "next", "mark", "undo"}
                                        /\ caller[c].op # "reconcile"
           /\ caller[c] # Idle => caller[c].at # "idle"
           /\ caller[c].at # "idle" => caller[c] # Idle
BY DEF CallersTyped, Idle, Commands, Repairs

Moves(c, to) == caller' = [caller EXCEPT ![c] = to]

LEMMA Moved ==
    ASSUME CallersTyped, NEW c \in Callers, NEW to, Moves(c, to)
    PROVE  /\ caller'[c] = to /\ \A d \in Callers \ {c} : caller'[d] = caller[d]
           /\ DOMAIN caller' = DOMAIN caller
BY DEF CallersTyped, Moves

LEMMA MovedTyped ==
    ASSUME CallersTyped, NEW c \in Callers, NEW to, Moves(c, to),
           \/ to = Idle
           \/ to \in Commands /\ (to.op \in {"create", "update"} => to.ask \in Requests)
           \/ to \in Repairs /\ to.row.words \in Rows /\ c = "cli"
    PROVE  CallersTyped'
<1>1. Idle \notin Commands /\ Idle \notin Repairs /\ Commands \cap Repairs = {}
  BY DEF Idle, Commands, Repairs
<1>2. caller' \in [Callers -> {Idle} \union Commands \union Repairs]
  BY DEF CallersTyped, Moves
<1> QED BY <1>1, <1>2, Moved DEF CallersTyped

(* A command goes on, and ends. *)
LEMMA GoesOn ==
    ASSUME CallersTyped, NEW c \in Callers, NEW p \in {"call", "row", "next", "mark", "undo"},
           caller[c] \in Commands, Goto(c, p)
    PROVE  /\ CallersTyped' /\ Moves(c, [caller[c] EXCEPT !.at = p])
           /\ caller'[c].at = p /\ caller'[c].op = caller[c].op /\ caller'[c].ask = caller[c].ask
<1> DEFINE to == [caller[c] EXCEPT !.at = p]
<1>1. Moves(c, to)
  BY DEF Moves, Goto, CallersTyped
<1>2. to \in Commands /\ to.op = caller[c].op /\ to.ask = caller[c].ask /\ to.at = p
  BY DEF Commands
<1>3. to.op \in {"create", "update"} => to.ask \in Requests
  BY <1>2 DEF CallersTyped
<1> HIDE DEF to
<1>4. CallersTyped'
  BY <1>1, <1>2, <1>3, MovedTyped
<1> QED BY <1>1, <1>2, <1>4, Moved DEF to

LEMMA Ends ==
    ASSUME CallersTyped, NEW c \in Callers, Done(c)
    PROVE  CallersTyped' /\ Moves(c, Idle) /\ caller'[c] = Idle
<1>1. Moves(c, Idle)
  BY DEF Done, Moves
<1> QED BY <1>1, MovedTyped, Moved

LEMMA Begins ==
    ASSUME CallersTyped, NEW c \in Callers, NEW r \in Requests \union {NoWords},
           NEW op \in {"create", "update", "pause", "resume", "run", "cancel", "delete"},
           op \in {"create", "update"} => r \in Requests,
           caller' = [caller EXCEPT ![c] = [at |-> "call", op |-> op, ask |-> r, made |-> FALSE]]
    PROVE  /\ CallersTyped' /\ Moves(c, [at |-> "call", op |-> op, ask |-> r, made |-> FALSE])
           /\ caller'[c].at = "call" /\ caller'[c].op = op
<1> DEFINE to == [at |-> "call", op |-> op, ask |-> r, made |-> FALSE]
<1>1. to \in Commands /\ to.op = op /\ to.ask = r /\ to.at = "call"
  BY DEF Commands
<1>2. Moves(c, to)
  BY DEF Moves
<1> HIDE DEF to
<1>3. CallersTyped' /\ caller'[c] = to
  BY <1>1, <1>2, MovedTyped, Moved
<1> QED BY <1>1, <1>2, <1>3 DEF to

(* The steps of a schedule that is there. *)
LEMMA ScheduleFields ==
    ASSUME ScheduleTyped
    PROVE  /\ sched.exists \in BOOLEAN /\ sched.paused \in BOOLEAN
           /\ sched.spec \in {NoSpec} \union Specs
           /\ \A p \in BOOLEAN : LET s == [sched EXCEPT !.paused = p]
                                 IN s \in Scheds /\ s.exists = sched.exists /\ s.spec = sched.spec
                                    /\ s.paused = p
           /\ \A b \in {"none", "timer", "manual"} :
                 LET s == [sched EXCEPT !.buffer = b]
                 IN s \in Scheds /\ s.exists = sched.exists /\ s.spec = sched.spec
                    /\ s.paused = sched.paused
           /\ \A spec \in Specs : LET s == [sched EXCEPT !.spec = spec]
                                  IN s \in Scheds /\ s.exists = sched.exists /\ s.spec = spec
                                     /\ s.paused = sched.paused
BY DEF ScheduleTyped, Scheds

LEMMA RowFields ==
    ASSUME RowTyped
    PROVE  /\ config.status \in Statuses /\ config.failures \in Nat
           /\ \A status \in Statuses : LET row == [config EXCEPT !.status = status]
                                       IN row \in Configs /\ row.status = status
                                          /\ row.words = config.words
                                          /\ row.failures = config.failures
           /\ \A n \in Nat : LET row == [config EXCEPT !.failures = n]
                             IN row \in Configs /\ row.status = config.status
                                /\ row.words = config.words /\ row.failures = n
BY DEF RowTyped, Configs

LEMMA NewOnes ==
    /\ NoSched \in Scheds /\ ~NoSched.exists
    /\ \A r \in Requests : /\ NewSched(r) \in Scheds /\ NewSched(r).exists
                           /\ NewSched(r).spec = SpecOf(r) /\ NewSched(r).spec \in Specs
                           /\ FreshRow(r) \in Configs /\ FreshRow(r).status = "active"
                           /\ FreshRow(r).words = RowOf(r) /\ FreshRow(r).words \in Rows
                           /\ FreshRow(r).failures = 0
BY MeaningKept DEF NoSched, NewSched, Scheds, FreshRow, Configs, Statuses

(* The steps that write the row, and those that change the schedule.         *)
RowWritten ==
    \/ \E c \in Callers : \/ RowCreate(c) \/ RowUpdate(c) \/ RowDelete(c)
                          \/ RowStatus(c, "pause", "paused") \/ RowStatus(c, "resume", "active")
    \/ RepairMissing \/ RepairFlag \/ CompleteRun \/ PauseRow
    \/ LateCompletes \/ LatePausesRow

LEMMA RowUnwritten == ASSUME Steps \/ UNCHANGED vars, ~RowWritten PROVE UNCHANGED config
<1> USE DEF RowWritten, cycleVars, cmdVars
<1>1. CASE UNCHANGED vars
  BY <1>1 DEF vars
<1>2. ASSUME NEW h \in Handlers, ChatCommand(h) PROVE UNCHANGED config
  BY <1>2 DEF ChatCommand, MonitorCreate, MonitorUpdate, MonitorPause, MonitorResume, MonitorRun,
              MonitorCancelCurrent, MonitorDelete, MonitorDeleteConfirm, Ask, AskCreate, Begin
<1>3. CASE CliCommand \/ TokenExpires \/ Register
  BY <1>3 DEF CliCommand, CliCreate, CliUpdate, CliScheduleAction, CliCancelCurrent, CliDelete,
              Reconcile, Ask, AskCreate, Begin, TokenExpires, Register
<1>4. CASE Repair
  BY <1>4 DEF Repair, Describe, RepairSpec
<1>5. ASSUME NEW c \in Callers, Step(c) PROVE UNCHANGED config
  BY <1>5 DEF Step, CallCreate, CallPause, CallRun, CallUpdate, CallDelete, CallCancel, RowNext, Mark, Undo
<1>6. CASE Trouble
  BY <1>6 DEF Trouble, CallFails, RowFails, UndoFails, Crash, RegisterFails, DescribeFails, RepairFails,
              PauseFails
<1>7. CASE Tick \/ StartBuffered \/ StartLost \/ CompleteLost \/ LateStep
  BY <1>7 DEF Tick, StartBuffered, StartLost, CompleteLost, LateStep, LateChecks, LatePauses
<1>8. CASE CycleStep
  BY <1>8 DEF CycleStep, StartRun, StartRefused, Work, Cancelled, CheckThreshold, PauseSchedule, Notify
<1> QED BY <1>1, <1>2, <1>3, <1>4, <1>5, <1>6, <1>7, <1>8 DEF Steps

(* What they make of the row: it is there, with the words it had or those of  *)
(* the command.                                                              *)
LEMMA RowWrites ==
    ASSUME Typed, RowWritten
    PROVE  /\ RowTyped' /\ config'.status # "none"
           /\ CompleteRun \/ LateCompletes \/ config'.failures = config.failures
              \/ \E c \in Callers : RowCreate(c) /\ config'.failures = 0
<1>0. /\ RowTyped /\ CallersTyped /\ Rowless
      /\ \A s \in {"active", "paused", "deleted", "registration_failed"} : s \in Statuses /\ s # "none"
  BY DEF Typed, Statuses
<1>1. ASSUME NEW s \in {"active", "paused", "deleted", "registration_failed"},
             config' = [config EXCEPT !.status = s], config.status # "none"
      PROVE  RowTyped' /\ config'.status = s /\ config'.failures = config.failures
  BY <1>0, <1>1, RowFields DEF RowTyped
<1>2. ASSUME NEW c \in Callers, RowCreate(c)
      PROVE  RowTyped' /\ config'.status # "none" /\ config'.failures = 0
  <2>1. caller[c].ask \in Requests /\ config' = FreshRow(caller[c].ask)
    BY <1>0, <1>2, CallersKnown DEF RowCreate, At, CallersTyped
  <2> QED BY <2>1, NewOnes DEF RowTyped
<1>3. ASSUME NEW c \in Callers, NEW op, NEW p, At(c, op, p), p # "idle", op # "create"
      PROVE  config.status # "none"
  BY <1>0, <1>3 DEF Rowless, At, Idle
<1>4. ASSUME NEW c \in Callers, RowUpdate(c)
      PROVE  RowTyped' /\ config'.status # "none" /\ config'.failures = config.failures
  <2>1. /\ caller[c].ask \in Requests
        /\ config' = [config EXCEPT !.status = "active", !.words = RowOf(caller[c].ask)]
    BY <1>0, <1>4, CallersKnown DEF RowUpdate, At, CallersTyped
  <2>2. RowOf(caller[c].ask) \in Rows
    BY <2>1, MeaningKept
  <2> HIDE DEF Rows
  <2>3. /\ config' \in Configs /\ config'.status = "active" /\ config'.words \in Rows
        /\ config'.failures = config.failures
    BY <1>0, <2>1, <2>2 DEF RowTyped, Configs
  <2> QED BY <2>3 DEF RowTyped
<1>5. ASSUME NEW c \in Callers, RowDelete(c)
      PROVE  RowTyped' /\ config'.status # "none" /\ config'.failures = config.failures
  BY <1>1, <1>3, <1>5 DEF RowDelete
<1>6. ASSUME NEW c \in Callers, RowStatus(c, "pause", "paused") \/ RowStatus(c, "resume", "active")
      PROVE  RowTyped' /\ config'.status # "none" /\ config'.failures = config.failures
  BY <1>1, <1>3, <1>6 DEF RowStatus
<1>7. CASE RepairMissing \/ RepairFlag
  <2>1. "cli" \in Callers
    BY DEF Callers
  <2>2. config.status # "none"
    BY <1>3, <1>7, <2>1 DEF RepairMissing, RepairFlag
  <2>3. \/ UNCHANGED config
        \/ \E s \in {"active", "paused", "registration_failed"} : config' = [config EXCEPT !.status = s]
    BY <1>7 DEF RepairMissing, RepairFlag
  <2> QED BY <1>0, <1>1, <2>2, <2>3 DEF RowTyped
<1>8. CASE PauseRow \/ LatePausesRow
  <2>1. config.status # "none"
    BY <1>0, <1>8 DEF Rowless, PauseRow, LatePausesRow, NoLate
  <2> QED BY <1>1, <1>8, <2>1 DEF PauseRow, LatePausesRow
<1>9. CASE CompleteRun \/ LateCompletes
  <2>1. PICK result : config.status # "none" /\ config' = [config EXCEPT !.failures = Counted(result)]
    BY <1>0, <1>9 DEF Rowless, CompleteRun, LateCompletes, Completes, NoLate
  <2>2. Counted(result) \in Nat
    BY <1>0, RowFields DEF Counted
  <2> HIDE DEF Counted
  <2> QED BY <1>0, <1>9, <2>1, <2>2, RowFields DEF RowTyped
<1> QED BY <1>2, <1>4, <1>5, <1>6, <1>7, <1>8, <1>9 DEF RowWritten

(* The steps that make, replace or end the schedule; the others pause it,     *)
(* resume it or change what it has buffered.                                 *)
ScheduleSet ==
    \/ \E c \in Callers : CallCreate(c) \/ CallUpdate(c) \/ CallDelete(c) \/ CallFails(c)
                          \/ Undo(c) \/ UndoFails(c)
    \/ RepairSpec \/ RepairFails

Untouched == sched' \in Scheds /\ sched'.exists = sched.exists /\ sched'.spec = sched.spec

LEMMA ScheduleUntouched ==
    ASSUME Typed, Steps \/ UNCHANGED vars, ~ScheduleSet
    PROVE  Untouched
<1> USE DEF ScheduleSet, cycleVars, cmdVars
<1>0. ScheduleTyped /\ (UNCHANGED sched => Untouched)
  BY DEF Typed, ScheduleTyped, Untouched
<1>1. ASSUME NEW p \in BOOLEAN, sched' = [sched EXCEPT !.paused = p] PROVE Untouched
  BY <1>0, <1>1, ScheduleFields DEF Untouched
<1>2. ASSUME NEW b \in {"none", "timer", "manual"}, sched' = [sched EXCEPT !.buffer = b] PROVE Untouched
  BY <1>0, <1>2, ScheduleFields DEF Untouched
<1>3. ASSUME NEW kind \in {"timer", "manual"}, Start(kind) PROVE Untouched
  <2>1. CASE cycle = NoCycle
    BY <1>0, <1>3, <2>1 DEF Start
  <2>2. CASE cycle # NoCycle
    <3>1. \/ sched' = [sched EXCEPT !.buffer = kind]
          \/ sched' = [sched EXCEPT !.buffer = sched.buffer]
      BY <1>3, <2>2 DEF Start
    <3>2. sched.buffer \in {"none", "timer", "manual"}
      BY <1>0 DEF ScheduleTyped, Scheds
    <3> QED BY <1>2, <3>1, <3>2
  <2> QED BY <2>1, <2>2
<1>4. ASSUME NEW how, Close(how) PROVE Untouched
  BY <1>0, <1>1, <1>4 DEF Close
<1>5. CASE UNCHANGED vars
  BY <1>0, <1>5 DEF vars
<1>6. ASSUME NEW h \in Handlers, ChatCommand(h) PROVE Untouched
  BY <1>0, <1>6 DEF ChatCommand, MonitorCreate, MonitorUpdate, MonitorPause, MonitorResume, MonitorRun,
              MonitorCancelCurrent, MonitorDelete, MonitorDeleteConfirm, Ask, AskCreate, Begin
<1>7. CASE CliCommand \/ TokenExpires \/ Register
  BY <1>0, <1>7 DEF CliCommand, CliCreate, CliUpdate, CliScheduleAction, CliCancelCurrent, CliDelete,
              Reconcile, Ask, AskCreate, Begin, TokenExpires, Register
<1>8. CASE Repair
  BY <1>0, <1>8 DEF Repair, Describe, RepairMissing, RepairFlag
<1>9. ASSUME NEW c \in Callers, Step(c) PROVE Untouched
  <2>1. CASE CallPause(c, TRUE) \/ CallPause(c, FALSE)
    BY <1>0, <1>1, <2>1 DEF CallPause
  <2>2. CASE CallRun(c)
    BY <1>0, <1>3, <2>2 DEF CallRun
  <2> QED BY <1>0, <1>9, <2>1, <2>2 DEF Step, CallCancel, RowCreate, RowStatus, RowUpdate, RowDelete, RowNext, Mark
<1>10. CASE Trouble
  <2>1. CASE PauseFails
    BY <1>0, <1>1, <2>1 DEF PauseFails
  <2> QED BY <1>0, <1>10, <2>1 DEF Trouble, RowFails, Crash, RegisterFails, DescribeFails
<1>15. CASE LateStep
  BY <1>0, <1>1, <1>15 DEF LateStep, LateCompletes, Completes, LateChecks, LatePauses, LatePausesRow
<1>11. CASE Tick
  BY <1>3, <1>11 DEF Tick
<1>12. CASE StartBuffered
  BY <1>2, <1>12 DEF StartBuffered
<1>13. CASE StartLost \/ CompleteLost
  BY <1>0, <1>4, <1>13 DEF StartLost, CompleteLost
<1>14. CASE CycleStep
  <2>1. CASE PauseSchedule
    BY <1>0, <1>1, <2>1 DEF PauseSchedule
  <2>2. CASE StartRefused \/ Notify
    BY <1>4, <2>2 DEF StartRefused, Notify
  <2>3. CASE Cancelled("cancelled") \/ Cancelled("failed")
    BY <1>0, <1>4, <2>3 DEF Cancelled
  <2> QED BY <1>0, <1>14, <2>1, <2>2, <2>3 DEF CycleStep, StartRun, Work, CompleteRun, Completes,
     CheckThreshold, PauseRow
<1> QED BY <1>5, <1>6, <1>7, <1>8, <1>9, <1>10, <1>11, <1>12, <1>13, <1>14, <1>15 DEF Steps

LEMMA ScheduleTypedStep == ASSUME Typed, Steps \/ UNCHANGED vars PROVE ScheduleTyped'
<1>0. ScheduleTyped /\ CallersTyped /\ RowTyped /\ Rowless
  BY DEF Typed
<1>1. CASE ~ScheduleSet
  BY <1>0, <1>1, ScheduleUntouched DEF Untouched, ScheduleTyped
<1>2. CASE sched' = sched \/ sched' = NoSched
  BY <1>0, <1>2, NewOnes DEF ScheduleTyped
<1>3. ASSUME NEW r \in Requests, sched' = NewSched(r) PROVE ScheduleTyped'
  BY <1>3, NewOnes DEF ScheduleTyped
<1>4. ASSUME NEW spec \in Specs, sched' = [sched EXCEPT !.spec = spec] PROVE ScheduleTyped'
  BY <1>0, <1>4, ScheduleFields DEF ScheduleTyped
<1>5. ASSUME NEW p \in BOOLEAN, sched' = [sched EXCEPT !.paused = p] PROVE ScheduleTyped'
  BY <1>0, <1>5, ScheduleFields DEF ScheduleTyped
<1>6. ASSUME NEW c \in Callers, caller[c].at = "call", caller[c].op \in {"create", "update"}
      PROVE  caller[c].ask \in Requests
  BY <1>0, <1>6, CallersKnown DEF CallersTyped
<1>7. ASSUME NEW c \in Callers, CallCreate(c) PROVE ScheduleTyped'
  BY <1>2, <1>3, <1>6, <1>7 DEF CallCreate, At
<1>8. ASSUME NEW c \in Callers, CallUpdate(c) PROVE ScheduleTyped'
  <2>1. SpecOf(caller[c].ask) \in Specs
    BY <1>6, <1>8, MeaningKept DEF CallUpdate, At
  <2> QED BY <1>2, <1>4, <1>8, <2>1 DEF CallUpdate
<1>9. ASSUME NEW c \in Callers, CallDelete(c) \/ Undo(c) \/ UndoFails(c) PROVE ScheduleTyped'
  BY <1>2, <1>9 DEF CallDelete, Undo, UndoFails
<1>10. ASSUME NEW c \in Callers, CallFails(c) PROVE ScheduleTyped'
  <2>1. CASE caller[c].op = "update" /\ sched' = [sched EXCEPT !.spec = SpecOf(caller[c].ask)]
    <3>1. SpecOf(caller[c].ask) \in Specs
      BY <1>6, <1>10, <2>1, MeaningKept DEF CallFails
    <3> QED BY <1>4, <2>1, <3>1
  <2>2. CASE \E p \in BOOLEAN : sched' = [sched EXCEPT !.paused = p]
    BY <1>5, <2>2
  <2>3. CASE caller[c].op = "create" /\ sched' = NewSched(caller[c].ask)
    BY <1>3, <1>6, <1>10, <2>3 DEF CallFails
  <2> QED BY <1>2, <1>10, <2>1, <2>2, <2>3 DEF CallFails
<1>11. CASE RepairSpec \/ RepairFails
  <2>1. CASE UNCHANGED sched
    BY <1>2, <2>1
  <2>2. CASE /\ caller["cli"].at = "spec"
             /\ sched' = [sched EXCEPT !.spec = SpecOf(caller["cli"].row.words)]
    <3>1. caller["cli"].row.words \in Rows
      BY <1>0, <2>2, CallersKnown DEF CallersTyped, Callers
    <3>2. SpecOf(caller["cli"].row.words) \in Specs
      BY <3>1, MeaningKept
    <3> QED BY <1>4, <2>2, <3>2
  <2> QED BY <1>11, <2>1, <2>2 DEF RepairSpec, RepairFails, At
<1> QED BY <1>1, <1>7, <1>8, <1>9, <1>10, <1>11 DEF ScheduleSet

(* A command given: what it asks for, the row being there unless it creates. *)
Given(c, op, r) ==
    /\ caller[c] = Idle
    /\ caller' = [caller EXCEPT ![c] = [at |-> "call", op |-> op, ask |-> r, made |-> FALSE]]
    /\ op \in {"create", "update", "pause", "resume", "run", "cancel", "delete"}
    /\ r \in Requests \union {NoWords} /\ (op \in {"create", "update"} => r \in Requests)
    /\ (op = "create" <=> ~Live)
    /\ UNCHANGED <<config, sched, faults, cycleVars>>

LEMMA CommandsGiven ==
    ASSUME (\E h \in Handlers : ChatCommand(h)) \/ CliCommand \/ Register
    PROVE  \/ UNCHANGED <<caller, config, sched, faults, cycleVars>>
           \/ \E c \in Callers : \E op, r : Given(c, op, r)
           \/ Reconcile
<1> DEFINE given == \E c \in Callers : \E op, r : Given(c, op, r)
<1>1. Handlers \subseteq Callers /\ "cli" \in Callers /\ "worker" \in Callers
  BY DEF Callers
<1>2. ASSUME NEW c \in Callers, NEW r \in Requests, AskCreate(c, r) PROVE given
  <2>1. Given(c, "create", r)
    BY <1>2 DEF AskCreate, Begin, Given
  <2> QED BY <2>1
<1>3. ASSUME NEW c \in Callers, NEW r \in Requests \union {NoWords},
             NEW op \in {"update", "pause", "resume", "run", "cancel", "delete"},
             op = "update" => r \in Requests, Ask(c, op, r)
      PROVE  given
  <2>1. Given(c, op, r)
    BY <1>3 DEF Ask, Begin, Given
  <2> QED BY <2>1
<1>4. ASSUME NEW h \in Handlers, ChatCommand(h), ~given
      PROVE  UNCHANGED <<caller, config, sched, faults, cycleVars>>
  BY <1>1, <1>2, <1>3, <1>4 DEF ChatCommand, MonitorCreate, MonitorUpdate, MonitorPause, MonitorResume,
     MonitorRun, MonitorCancelCurrent, MonitorDelete, MonitorDeleteConfirm
<1>5. ASSUME CliCommand, ~given PROVE Reconcile
  BY <1>1, <1>2, <1>3, <1>5 DEF CliCommand, CliCreate, CliUpdate, CliScheduleAction, CliCancelCurrent,
     CliDelete
<1>6. ASSUME Register, Live PROVE UNCHANGED <<caller, config, sched, faults, cycleVars>>
  BY <1>6 DEF Register
<1>7. ASSUME Register, ~Live PROVE given
  <2>1. Given("worker", "create", Saved)
    BY <1>7, SavedAssumption DEF Register, Given
  <2> QED BY <1>1, <2>1
<1> QED BY <1>4, <1>5, <1>6, <1>7

LEMMA CallersTypedStep == ASSUME Typed, Steps \/ UNCHANGED vars PROVE CallersTyped'
<1> USE DEF cycleVars, cmdVars
<1>0. CallersTyped /\ RowTyped /\ ScheduleTyped /\ "cli" \in Callers
  BY DEF Typed, Callers
<1>1. CASE UNCHANGED caller
  BY <1>0, <1>1 DEF CallersTyped
<1>2. ASSUME NEW c \in Callers, Done(c) PROVE CallersTyped'
  BY <1>0, <1>2, Ends
<1>3. ASSUME NEW c \in Callers, NEW p \in {"row", "next", "mark", "undo"}, Goto(c, p),
             caller[c].at \in {"call", "row", "next", "mark"}
      PROVE  CallersTyped'
  <2>1. caller[c] \in Commands /\ p \in {"call", "row", "next", "mark", "undo"}
    BY <1>0, <1>3, CallersKnown
  <2> QED BY <1>0, <1>3, <2>1, GoesOn
<1>4. ASSUME NEW c \in Callers, NEW op, NEW r, Given(c, op, r) PROVE CallersTyped'
  BY <1>0, <1>4, Begins DEF Given
<1>5. CASE Reconcile
  <2> DEFINE to == [at |-> "describe", op |-> "reconcile", row |-> config, saw |-> NoSched]
  <2>1. Moves("cli", to)
    BY <1>5 DEF Reconcile, Moves
  <2>2. config \in Configs /\ config.words \in Rows
    BY <1>0, <1>5 DEF Reconcile, Live, RowTyped
  <2>3. to \in Repairs /\ to.row = config
    BY <2>2, NewOnes DEF Repairs
  <2> HIDE DEF to
  <2> QED BY <1>0, <2>1, <2>2, <2>3, MovedTyped
<1>6. ASSUME NEW c \in Callers, Step(c) PROVE CallersTyped'
  <2>1. CASE CallCreate(c) /\ ~sched.exists
    <3> DEFINE to == [caller[c] EXCEPT !.at = "row", !.made = TRUE]
    <3>1. caller[c] \in Commands /\ caller[c].op = "create" /\ caller[c].ask \in Requests
      BY <1>0, <2>1, CallersKnown DEF CallCreate, At, CallersTyped
    <3>2. to \in Commands /\ to.ask = caller[c].ask
      BY <3>1 DEF Commands
    <3>3. Moves(c, to)
      BY <1>0, <2>1 DEF CallCreate, Moves, CallersTyped
    <3> HIDE DEF to
    <3> QED BY <1>0, <3>1, <3>2, <3>3, MovedTyped
  <2>2. CASE \/ (CallCreate(c) /\ sched.exists) \/ CallPause(c, TRUE) \/ CallPause(c, FALSE) \/ CallRun(c)
             \/ CallUpdate(c) \/ CallDelete(c) \/ CallCancel(c)
    BY <1>2, <1>3, <2>2 DEF CallCreate, CallPause, CallRun, CallUpdate, CallDelete, CallCancel, At
  <2>3. CASE \/ RowCreate(c) \/ RowStatus(c, "pause", "paused") \/ RowStatus(c, "resume", "active")
             \/ RowUpdate(c) \/ RowDelete(c) \/ RowNext(c) \/ Mark(c) \/ Undo(c)
    BY <1>2, <1>3, <2>3 DEF RowCreate, RowStatus, RowUpdate, RowDelete, RowNext, Mark, Undo, At
  <2> QED BY <1>6, <2>1, <2>2, <2>3 DEF Step
<1>7. ASSUME NEW c \in Callers, CallFails(c) \/ RowFails(c) \/ UndoFails(c) PROVE CallersTyped'
  BY <1>2, <1>3, <1>7 DEF CallFails, RowFails, UndoFails
<1>14. CASE RegisterFails \/ PauseFails
  BY <1>1, <1>14 DEF RegisterFails, PauseFails
<1>15. CASE RepairFails
  BY <1>0, <1>2, <1>15 DEF RepairFails
<1>16. CASE DescribeFails
  <2> DEFINE to == [caller["cli"] EXCEPT !.at = "unreachable"]
  <2>1. caller["cli"] \in Repairs /\ caller["cli"].row.words \in Rows
    BY <1>0, <1>16, CallersKnown DEF DescribeFails, At, CallersTyped
  <2>2. Moves("cli", to)
    BY <1>0, <1>16 DEF DescribeFails, Goto, Moves, CallersTyped
  <2>3. to \in Repairs /\ to.row = caller["cli"].row
    BY <2>1 DEF Repairs
  <2> HIDE DEF to
  <2> QED BY <1>0, <2>1, <2>2, <2>3, MovedTyped
<1>8. ASSUME NEW P, Crash(P) PROVE CallersTyped'
  <2>1. /\ caller' = [c \in Callers |-> IF c \in P THEN Idle ELSE caller[c]]
        /\ Idle \notin Commands /\ Idle \notin Repairs
    BY <1>8 DEF Crash, Idle, Commands, Repairs
  <2> QED BY <1>0, <2>1 DEF CallersTyped
<1>9. CASE Repair
  <2>1. caller["cli"] \in Repairs /\ caller["cli"].row.words \in Rows
    BY <1>0, <1>9, CallersKnown DEF Repair, Describe, RepairMissing, RepairFlag, RepairSpec, At, CallersTyped
  <2>2. CASE Describe
    <3> DEFINE p == IF sched.exists THEN "flag" ELSE "missing"
               to == [caller["cli"] EXCEPT !.saw = sched, !.at = p]
    <3>1. Moves("cli", to)
      BY <1>0, <2>2 DEF Describe, Moves, CallersTyped
    <3>2. to \in Repairs /\ to.row = caller["cli"].row
      BY <1>0, <2>1 DEF Repairs, ScheduleTyped
    <3> HIDE DEF to
    <3> QED BY <1>0, <2>1, <3>1, <3>2, MovedTyped
  <2>3. CASE RepairFlag
    <3> DEFINE to == [caller["cli"] EXCEPT !.at = "spec"]
    <3>1. Moves("cli", to)
      BY <1>0, <2>3 DEF RepairFlag, Goto, Moves, CallersTyped
    <3>2. to \in Repairs /\ to.row = caller["cli"].row
      BY <2>1 DEF Repairs
    <3> HIDE DEF to
    <3> QED BY <1>0, <2>1, <3>1, <3>2, MovedTyped
  <2>4. CASE RepairMissing \/ RepairSpec
    BY <1>0, <1>2, <2>4 DEF RepairMissing, RepairSpec
  <2> QED BY <1>9, <2>2, <2>3, <2>4 DEF Repair
<1>10. CASE Tick \/ StartBuffered \/ StartLost \/ CompleteLost \/ TokenExpires \/ LateStep
  BY <1>1, <1>10 DEF Tick, StartBuffered, StartLost, CompleteLost, TokenExpires, LateStep, LateCompletes,
                     Completes, LateChecks, LatePauses, LatePausesRow
<1>11. CASE CycleStep
  BY <1>1, <1>11 DEF CycleStep, StartRun, StartRefused, Work, Cancelled, CompleteRun, Completes, CheckThreshold,
                     PauseSchedule, PauseRow, Notify
<1>12. CASE UNCHANGED vars
  BY <1>1, <1>12 DEF vars
<1>13. CASE (\E h \in Handlers : ChatCommand(h)) \/ CliCommand \/ Register
  BY <1>1, <1>4, <1>5, <1>13, CommandsGiven
<1> QED BY <1>6, <1>7, <1>8, <1>9, <1>10, <1>11, <1>12, <1>13, <1>14, <1>15, <1>16 DEF Steps, Trouble

-----------------------------------------------------------------------------
(* Cycles.  The steps that concern the running cycle and its rows; of the     *)
(* others only a create touches the history of failures.                     *)
CycleMoved ==
    \/ \E c \in Callers : CallRun(c) \/ CallCancel(c)
    \/ Tick \/ StartBuffered \/ StartLost \/ CompleteLost \/ CycleStep \/ LateStep \/ PauseFails

LEMMA CycleUnmoved ==
    ASSUME Steps \/ UNCHANGED vars, ~CycleMoved
    PROVE  /\ UNCHANGED <<cycle, late, runs, strays, losses>>
           /\ \/ UNCHANGED failed
              \/ failed' = {} /\ \E c \in Callers : RowCreate(c)
<1> USE DEF cycleVars, cmdVars, CycleMoved
<1>1. CASE UNCHANGED vars
  BY <1>1 DEF vars
<1>2. CASE (\E h \in Handlers : ChatCommand(h)) \/ CliCommand \/ Register
  BY <1>2, CommandsGiven DEF Given, Reconcile
<1>3. CASE TokenExpires \/ Repair
  BY <1>3 DEF TokenExpires, Repair, Describe, RepairMissing, RepairFlag, RepairSpec
<1>4. ASSUME NEW c \in Callers, Step(c), ~RowCreate(c) PROVE UNCHANGED <<cycle, late, runs, strays, losses, failed>>
  BY <1>4 DEF Step, CallCreate, CallPause, CallUpdate, CallDelete, RowStatus, RowUpdate, RowDelete,
              RowNext, Mark, Undo
<1>5. ASSUME NEW c \in Callers, RowCreate(c) PROVE UNCHANGED <<cycle, late, runs, strays, losses>> /\ failed' = {}
  BY <1>5 DEF RowCreate
<1>6. CASE Trouble
  BY <1>6 DEF Trouble, CallFails, RowFails, UndoFails, Crash, RegisterFails, DescribeFails, RepairFails
<1> QED BY <1>1, <1>2, <1>3, <1>4, <1>5, <1>6 DEF Steps

LEMMA FailedFinite ==
    ASSUME CycleTyped, NEW S, S \subseteq 1 .. Len(runs)
    PROVE  IsFiniteSet(S) /\ Cardinality(S) \in Nat
<1>1. Len(runs) \in Nat
  BY DEF CycleTyped
<1>2. IsFiniteSet(1 .. Len(runs))
  BY <1>1, FS_Interval
<1>3. IsFiniteSet(S)
  BY <1>2, FS_Subset
<1> QED BY <1>3, FS_CardinalityType

(* What the two attempts that are about to count add at most.                *)
LEMMA Reserves ==
    ASSUME Typed, CycleInv
    PROVE  /\ LateReserve \in {0, 1} /\ CycleReserve \in {0, 1} /\ LateReserve <= losses
           /\ losses \in Nat /\ config.failures \in Nat /\ Len(runs) \in Nat
           /\ IsFiniteSet(failed) /\ Cardinality(failed) \in Nat
<1>1. losses \in Nat /\ config.failures \in Nat /\ Len(runs) \in Nat
  BY RowFields DEF Typed, CycleTyped
<1>2. LateReserve \in {0, 1} /\ CycleReserve \in {0, 1}
  BY DEF LateReserve, CycleReserve
<1>3. LateReserve = 1 => losses # 0
  BY DEF LateReserve, CycleInv, LateFits, NoLate
<1>4. IsFiniteSet(failed) /\ Cardinality(failed) \in Nat
  BY FailedFinite DEF Typed, CycleInv, Counting
<1> QED BY <1>1, <1>2, <1>3, <1>4

(* The failures counted and about to be counted, after a step that loses     *)
(* answers or not.                                                           *)
LEMMA Sums ==
    ASSUME Len(runs) \in Nat, losses \in Nat, losses' \in Nat, losses <= losses',
           config.failures \in Nat, Cardinality(failed) \in Nat,
           config'.failures = config.failures, failed' = failed,
           LateReserve \in {0, 1}, CycleReserve \in {0, 1},
           LateReserve' \in {0, 1}, CycleReserve' \in {0, 1},
           config.failures + LateReserve + CycleReserve <= Cardinality(failed) + losses,
           LateReserve' <= LateReserve + (losses' - losses),
           \/ CycleReserve' <= CycleReserve
           \/ losses < losses' /\ LateReserve' <= LateReserve
    PROVE  config'.failures + LateReserve' + CycleReserve' <= Cardinality(failed') + losses'
<1>1. PICK f, k, l, m, a, b, c, d :
         /\ f = config.failures /\ k = Cardinality(failed) /\ l = losses /\ m = losses'
         /\ a = LateReserve /\ b = CycleReserve /\ c = LateReserve' /\ d = CycleReserve'
  OBVIOUS
<1>2. /\ f \in Nat /\ k \in Nat /\ l \in Nat /\ m \in Nat /\ l <= m
      /\ a \in {0, 1} /\ b \in {0, 1} /\ c \in {0, 1} /\ d \in {0, 1}
      /\ f + a + b <= k + l /\ c <= a + (m - l) /\ (d <= b \/ (l < m /\ c <= a))
  BY <1>1
<1>3. f + c + d <= k + m
  BY ONLY <1>2
<1>4. config'.failures = f /\ Cardinality(failed') = k
  BY <1>1
<1> QED BY <1>1, <1>3, <1>4

(* An attempt left to itself is that of the cycle, and lost.                 *)
LeavesLate == UNCHANGED late \/ (RunsOn /\ losses' = losses + 1)

LEMMA LateKept ==
    ASSUME Typed, CycleInv, LeavesLate, losses' \in Nat, losses <= losses',
           Len(runs') \in Nat, Len(runs) <= Len(runs'),
           \/ cycle'.run = cycle.run /\ (cycle.result = "failed" => cycle'.result = "failed")
           \/ cycle'.run \notin 1 .. Len(runs)
    PROVE  /\ late' \in Lates /\ LateFits' /\ LateReserve' \in {0, 1}
           /\ LateReserve' <= LateReserve + (losses' - losses)
           /\ cycle.at # "complete" => LateReserve' <= LateReserve
<1>1. /\ late \in Lates /\ LateFits /\ CycleFits /\ losses \in Nat /\ Len(runs) \in Nat
      /\ LateReserve \in {0, 1} /\ LateReserve' \in {0, 1}
  BY DEF Typed, CycleTyped, CycleInv, LateReserve
<1>2. CASE UNCHANGED late
  <2>1. LateReserve' = LateReserve
    BY <1>2 DEF LateReserve
  <2>2. LateFits'
    BY <1>1, <1>2 DEF LateFits
  <2>3. PICK a, b, l, m : a = LateReserve /\ b = LateReserve' /\ l = losses /\ m = losses'
    OBVIOUS
  <2>4. a \in {0, 1} /\ b = a /\ l \in Nat /\ m \in Nat /\ l <= m
    BY <1>1, <2>1, <2>3
  <2>5. b <= a + (m - l) /\ b <= a
    BY ONLY <2>4
  <2> QED BY <1>1, <1>2, <2>2, <2>3, <2>5
<1>3. CASE RunsOn /\ losses' = losses + 1
  <2>1. /\ late = NoLate /\ late' = [at |-> cycle.at, run |-> cycle.run, result |-> cycle.result]
        /\ cycle.at \in Completing /\ losses' = losses + 1
    BY <1>3 DEF RunsOn
  <2>2. cycle.run \in 1 .. Len(runs) /\ cycle.result \in Results /\ cycle.run \in Nat
    BY <1>1, <2>1 DEF CycleFits, Completing, Ending
  <2>3. late'.at = cycle.at /\ late'.run = cycle.run /\ late'.result = cycle.result /\ late' \in Lates
    BY <2>1, <2>2 DEF Lates
  <2>4. LateFits'
    BY <1>1, <2>1, <2>2, <2>3 DEF LateFits
  <2>5. LateReserve = 0 /\ (cycle.at # "complete" => LateReserve' = 0)
    BY <2>1, <2>3 DEF LateReserve, NoLate
  <2> QED BY <1>1, <2>1, <2>3, <2>4, <2>5
<1> QED BY <1>2, <1>3 DEF LeavesLate

LEMMA NewAt == NoCycle.at = "none" /\ NewCycle.at = "start"
<1>1. NewCycle.at = "start"
  <2>1. PICK n : n = Len(runs)
    OBVIOUS
  <2>2. NewCycle = [NoCycle EXCEPT !.at = "start", !.from = n]
    BY <2>1 DEF NewCycle
  <2> QED BY ONLY <2>2 DEF NoCycle
<1> QED BY <1>1 DEF NoCycle

(* A cycle that starts has no row yet, and one that is over none any more.    *)
LEMMA Fresh ==
    ASSUME Len(runs) \in Nat
    PROVE  \A c \in {NoCycle, NewCycle} :
              c \in Cycles /\ c.at \in {"none", "start"} /\ c.run = 0 /\ c.result = "none"
<1>1. NoCycle \in Cycles /\ NoCycle.at = "none" /\ NoCycle.run = 0 /\ NoCycle.result = "none"
  BY DEF NoCycle, Cycles
<1>2. PICK n \in Nat : n = Len(runs)
  OBVIOUS
<1>3. /\ NewCycle \in Cycles /\ NewCycle.at = "start" /\ NewCycle.run = 0
      /\ NewCycle.result = "none"
  <2>1. NewCycle = [NoCycle EXCEPT !.at = "start", !.from = n]
    BY <1>2 DEF NewCycle
  <2>2. NewCycle = [at |-> "start", from |-> n, run |-> 0, tries |-> 1, result |-> "none", cancel |-> FALSE]
    BY ONLY <2>1 DEF NoCycle
  <2> QED BY ONLY <1>2, <2>2 DEF Cycles
<1> QED BY <1>1, <1>3

LEMMA CycleOver ==
    ASSUME Typed, CycleInv, cycle' = NoCycle \/ cycle' = NewCycle, LeavesLate,
           runs' = runs, config'.failures = config.failures, failed' = failed,
           losses' \in Nat, losses <= losses', strays \subseteq strays',
           \/ cycle.run = 0
           \/ cycle.run \in strays'
           \/ runs[cycle.run] # "running"
    PROVE  CycleTyped' /\ CycleInv'
<1>0. /\ Len(runs) \in Nat /\ losses \in Nat /\ config.failures \in Nat /\ Cardinality(failed) \in Nat
      /\ LateReserve \in {0, 1} /\ CycleReserve \in {0, 1}
  BY Reserves
<1>1. /\ cycle'.run = 0 /\ cycle'.at \in {"none", "start"} /\ cycle'.result = "none"
      /\ cycle' \in Cycles
  BY <1>0, Fresh
<1>2. /\ late' \in Lates /\ LateFits' /\ LateReserve' \in {0, 1}
      /\ LateReserve' <= LateReserve + (losses' - losses)
  BY <1>0, <1>1, LateKept
<1>3. CycleTyped' /\ CycleFits'
  BY <1>1, <1>2 DEF Typed, CycleTyped, CycleFits, Ending
<1>4. /\ failed \subseteq 1 .. Len(runs) /\ 0 \notin failed
      /\ config.failures + LateReserve + CycleReserve <= Cardinality(failed) + losses
  BY <1>0 DEF CycleInv, Counting
<1>5. CycleReserve' = 0
  BY <1>1 DEF CycleReserve
<1>6. config'.failures + LateReserve' + CycleReserve' <= Cardinality(failed') + losses'
  BY <1>0, <1>2, <1>4, <1>5, Sums
<1>7. Counting'
  BY <1>1, <1>4, <1>6 DEF Counting
<1>8. CountsFailures'
  BY <1>0, <1>2, <1>5, <1>6 DEF CycleInv, CountsFailures
<1>9. RunRowsEnd'
  BY <1>1 DEF CycleInv, RunRowsEnd
<1> QED BY <1>2, <1>3, <1>7, <1>8, <1>9 DEF CycleInv

(* A cycle that goes on with its row.                                        *)
LEMMA CycleGoesOn ==
    ASSUME Typed, CycleInv, cycle' \in Cycles, cycle'.run = cycle.run, LeavesLate,
           cycle.at \notin {"none", "start"}, cycle'.at \in {"work", "complete"} \union Ending,
           cycle'.at = "work" => cycle'.result = "none",
           cycle'.at # "work" => cycle'.result \in Results,
           cycle'.at \in Ending => runs[cycle.run] # "running",
           runs' = runs, config'.failures = config.failures, failed' = failed, strays' = strays,
           losses' \in Nat, losses <= losses',
           cycle'.result # "failed" => cycle.result # "failed",
           \/ cycle.run \notin failed
           \/ cycle'.at # "complete"
           \/ cycle.at = "complete"
           \/ losses < losses'
    PROVE  CycleTyped' /\ CycleInv'
<1>0. /\ Len(runs) \in Nat /\ losses \in Nat /\ config.failures \in Nat /\ Cardinality(failed) \in Nat
      /\ LateReserve \in {0, 1} /\ CycleReserve \in {0, 1} /\ CycleReserve' \in {0, 1}
  BY Reserves DEF CycleReserve
<1>1. /\ late' \in Lates /\ LateFits' /\ LateReserve' \in {0, 1}
      /\ LateReserve' <= LateReserve + (losses' - losses)
      /\ cycle.at # "complete" => LateReserve' <= LateReserve
  BY <1>0, LateKept
<1>2. CycleTyped' /\ CycleFits'
  BY <1>1 DEF Typed, CycleTyped, CycleInv, CycleFits, Ending
<1>3. /\ failed \subseteq 1 .. Len(runs)
      /\ config.failures + LateReserve + CycleReserve <= Cardinality(failed) + losses
  BY DEF CycleInv, Counting
<1>4. \/ CycleReserve' = 0
      \/ CycleReserve' <= CycleReserve
      \/ losses < losses' /\ LateReserve' <= LateReserve
  BY <1>0, <1>1 DEF CycleReserve
<1>5. config'.failures + LateReserve' + CycleReserve' <= Cardinality(failed') + losses'
  BY <1>0, <1>1, <1>3, <1>4, Sums
<1>6. Counting'
  BY <1>3, <1>5 DEF CycleInv, Counting
<1>7. CountsFailures'
  BY <1>0, <1>1, <1>5 DEF CycleInv, CountsFailures
<1>8. RunRowsEnd'
  BY DEF CycleInv, RunRowsEnd
<1> QED BY <1>1, <1>2, <1>6, <1>7, <1>8 DEF CycleInv

LEMMA CycleFields ==
    ASSUME cycle \in Cycles
    PROVE  /\ cycle.run \in Nat /\ cycle.tries \in Nat /\ cycle.result \in {"none"} \union Results
           /\ \A p \in {"complete", "work", "threshold", "pause", "pauseRow", "notify", "start"}, n \in Nat,
                 result \in {"none"} \union Results, b \in BOOLEAN, run \in Nat :
                 [cycle EXCEPT !.at = p, !.run = run, !.tries = n, !.result = result, !.cancel = b] \in Cycles
BY DEF Cycles, Ending

(* A start, and a start that is kept. *)
LEMMA CycleStarts ==
    ASSUME Typed, CycleInv, NEW kind, Start(kind), UNCHANGED <<config, late, runs, strays, failed, losses>>
    PROVE  CycleTyped' /\ CycleInv'
<1>0. losses \in Nat
  BY DEF Typed
<1>1. CASE cycle = NoCycle
  BY <1>0, <1>1, CycleOver DEF Start, NoCycle, LeavesLate
<1>2. CASE cycle # NoCycle
  BY <1>2 DEF Start, Typed, CycleTyped, CycleInv, CycleFits, LateFits, LateReserve, CycleReserve,
              Counting, CountsFailures, RunRowsEnd
<1> QED BY <1>1, <1>2

(* A row for the cycle. *)
LEMMA StartRunCycle == ASSUME Typed, CycleInv, StartRun PROVE CycleTyped' /\ CycleInv'
<1> USE DEF cmdVars
<1>0. /\ Len(runs) \in Nat /\ losses \in Nat /\ config.failures \in Nat /\ Cardinality(failed) \in Nat
      /\ LateReserve \in {0, 1} /\ CycleReserve \in {0, 1}
  BY Reserves
<1>1. /\ runs' = Append(runs, "running") /\ UNCHANGED <<config, late, strays, failed, losses>>
      /\ cycle' = [cycle EXCEPT !.at = "work", !.run = Len(runs) + 1, !.tries = 1]
      /\ cycle.at = "start" /\ cycle \in Cycles /\ runs \in Seq({"running"} \union Results)
      /\ cycle.run = 0 /\ cycle.result = "none"
  BY DEF StartRun, Typed, CycleTyped, CycleInv, CycleFits
<1>2. /\ runs' \in Seq({"running"} \union Results) /\ Len(runs') = Len(runs) + 1
      /\ \A i \in 1 .. Len(runs) : runs'[i] = runs[i]
      /\ 1 .. Len(runs') = 1 .. Len(runs) \union {Len(runs) + 1}
  BY <1>0, <1>1, AppendProperties
<1>3. /\ cycle'.at = "work" /\ cycle'.run = Len(runs) + 1 /\ cycle'.result = "none" /\ cycle' \in Cycles
  <2>1. PICK n \in Nat : n = Len(runs) + 1
    BY <1>0
  <2>2. cycle \in Cycles /\ cycle.result = "none"
    BY <1>1
  <2>3. cycle' = [cycle EXCEPT !.at = "work", !.run = n, !.tries = 1]
    BY <1>1, <2>1
  <2>4. cycle'.at = "work" /\ cycle'.run = n /\ cycle'.result = "none" /\ cycle' \in Cycles
    BY ONLY <2>2, <2>3 DEF Cycles
  <2> QED BY <2>1, <2>4
<1>4. late' \in Lates /\ LateFits' /\ LateReserve' = LateReserve
  <2>1. late' \in Lates /\ LateFits'
    BY <1>0, <1>1, <1>2, <1>3, LateKept DEF LeavesLate
  <2> QED BY <1>1, <2>1 DEF LateReserve
<1>5. CycleTyped' /\ CycleFits'
  BY <1>0, <1>1, <1>2, <1>3, <1>4 DEF CycleTyped, CycleFits, Ending
<1>6. Counting'
  <2>1. /\ failed \subseteq 1 .. Len(runs) /\ config.failures + LateReserve <= Cardinality(failed) + losses
    BY <1>0 DEF CycleInv, Counting
  <2>2. CycleReserve' = 0
    BY <1>3 DEF CycleReserve
  <2>3. config'.failures + LateReserve' + CycleReserve' <= Cardinality(failed') + losses'
    BY <1>0, <1>1, <1>4, <2>1, <2>2
  <2>4. failed' \subseteq 1 .. Len(runs') /\ cycle'.run \notin failed'
    BY <1>0, <1>1, <1>2, <1>3, <2>1
  <2> QED BY <2>3, <2>4 DEF Counting
<1>7. CountsFailures'
  BY <1>1 DEF CycleInv, CountsFailures
<1>8. RunRowsEnd'
  BY <1>1, <1>2, <1>3 DEF CycleInv, RunRowsEnd
<1> QED BY <1>4, <1>5, <1>6, <1>7, <1>8 DEF CycleInv

(* A row for nobody: the attempt or the cycle that inserted it is lost.      *)
LEMMA StrayRow ==
    ASSUME Typed, CycleInv, cycle.at = "start", cycle' \in Cycles, cycle'.at \in {"none", "start"},
           cycle'.run = 0, cycle'.result = "none", UNCHANGED late,
           runs' = Append(runs, "running"), strays' = strays \union {Len(runs) + 1},
           UNCHANGED <<config, failed>>, losses' \in Nat, losses <= losses'
    PROVE  CycleTyped' /\ CycleInv'
<1>0. /\ Len(runs) \in Nat /\ losses \in Nat /\ config.failures \in Nat /\ Cardinality(failed) \in Nat
      /\ LateReserve \in {0, 1} /\ CycleReserve \in {0, 1}
  BY Reserves
<1>1. /\ runs \in Seq({"running"} \union Results) /\ cycle.run = 0
      /\ failed \subseteq 1 .. Len(runs)
      /\ config.failures + LateReserve + CycleReserve <= Cardinality(failed) + losses
  BY DEF Typed, CycleTyped, CycleInv, CycleFits, Counting
<1>2. /\ runs' \in Seq({"running"} \union Results) /\ Len(runs') = Len(runs) + 1
      /\ \A i \in 1 .. Len(runs) : runs'[i] = runs[i]
      /\ 1 .. Len(runs') = 1 .. Len(runs) \union {Len(runs) + 1}
  BY <1>0, <1>1, AppendProperties
<1>3. late' \in Lates /\ LateFits' /\ LateReserve' = LateReserve
  <2>1. late' \in Lates /\ LateFits'
    BY <1>0, <1>2, LateKept DEF LeavesLate
  <2> QED BY <2>1 DEF LateReserve
<1>4. CycleTyped' /\ CycleFits'
  BY <1>2, <1>3 DEF CycleTyped, CycleFits, Ending
<1>5. CycleReserve' = 0
  BY DEF CycleReserve
<1>6. config'.failures + LateReserve' + CycleReserve' <= Cardinality(failed') + losses'
  BY <1>0, <1>1, <1>3, <1>5
<1>7. Counting'
  BY <1>1, <1>2, <1>6 DEF Counting
<1>8. CountsFailures'
  BY <1>0, <1>3, <1>5, <1>6 DEF CycleInv, CountsFailures
<1>9. RunRowsEnd'
  BY <1>0, <1>1, <1>2 DEF CycleInv, RunRowsEnd
<1> QED BY <1>3, <1>4, <1>7, <1>8, <1>9 DEF CycleInv

(* The result is written, and counted, by the cycle or by the attempt left    *)
(* to itself.                                                                *)
LEMMA CompletesCycle ==
    ASSUME Typed, CycleInv, NEW me, Completes(me), me.run \in 1 .. Len(runs), me.result \in Results,
           me.result = "failed" /\ me.run = cycle.run => cycle.result = "failed",
           cycle' \in Cycles, cycle'.run = cycle.run, cycle'.result = cycle.result,
           late' \in Lates, LateFits',
           \/ /\ me = cycle /\ cycle'.at = "threshold" /\ LateReserve' = LateReserve
           \/ /\ me = late /\ UNCHANGED cycle /\ LateReserve' = 0
    PROVE  CycleTyped' /\ CycleInv'
<1> USE DEF cmdVars
<1>0. /\ Len(runs) \in Nat /\ losses \in Nat /\ config.failures \in Nat /\ Cardinality(failed) \in Nat
      /\ IsFiniteSet(failed) /\ LateReserve <= losses
      /\ LateReserve \in {0, 1} /\ CycleReserve \in {0, 1} /\ CycleReserve' \in {0, 1}
  BY Reserves DEF CycleReserve
<1>1. /\ runs' = [runs EXCEPT ![me.run] = me.result]
      /\ config' = [config EXCEPT !.failures = Counted(me.result)]
      /\ failed' = IF me.result = "failed" THEN failed \union {me.run} ELSE {}
      /\ UNCHANGED <<strays, losses>> /\ me.at = "complete" /\ runs \in Seq({"running"} \union Results)
      /\ failed \subseteq 1 .. Len(runs) /\ RowTyped /\ CycleFits
      /\ cycle.result # "failed" => cycle.run \notin failed
      /\ config.failures + LateReserve + CycleReserve <= Cardinality(failed) + losses
  BY DEF Completes, Typed, CycleTyped, CycleInv, Counting
<1>2. /\ runs' \in Seq({"running"} \union Results) /\ Len(runs') = Len(runs)
      /\ runs'[me.run] = me.result
      /\ \A i \in 1 .. Len(runs) : i # me.run => runs'[i] = runs[i]
  BY <1>0, <1>1, ExceptSeq
<1>3. "running" \notin Results
  BY DEF Results
<1>4. CycleTyped' /\ CycleFits'
  BY <1>1, <1>2, <1>3 DEF CycleTyped, CycleFits, Ending
<1>5. config'.failures = IF me.result = "failed" THEN config.failures + 1 ELSE 0
  BY <1>0, <1>1, RowFields DEF Counted
<1>6. cycle'.at = "complete" => me = late /\ UNCHANGED cycle /\ LateReserve' = 0
  OBVIOUS
<1>7. /\ config'.failures + LateReserve' + CycleReserve' <= Cardinality(failed') + losses'
      /\ losses' = 0 => config'.failures = Cardinality(failed')
  <2>1. CASE me.result # "failed"
    <3>1. failed' = {} /\ Cardinality(failed') = 0 /\ config'.failures = 0
      BY <1>1, <1>5, <2>1, FS_EmptySet
    <3>2. CycleReserve' = 0 /\ LateReserve' <= losses
      BY <1>0, <3>1 DEF CycleReserve
    <3> QED BY <1>0, <1>1, <3>1, <3>2
  <2>2. CASE me.result = "failed" /\ me.run \in failed
    <3>1. failed' = failed /\ config'.failures = config.failures + 1 /\ losses' = losses
      BY <1>1, <1>5, <2>2
    <3>2. LateReserve' + CycleReserve' + 1 <= LateReserve + CycleReserve
      <4>1. CASE me = cycle /\ cycle'.at = "threshold" /\ LateReserve' = LateReserve
        <5>1. CycleReserve = 1 /\ CycleReserve' = 0
          BY <1>1, <2>2, <4>1 DEF CycleReserve
        <5> QED BY <1>0, <4>1, <5>1
      <4>2. CASE me = late /\ UNCHANGED cycle /\ LateReserve' = 0
        <5>1. LateReserve = 1 /\ CycleReserve' = CycleReserve
          BY <1>1, <2>2, <3>1, <4>2 DEF CycleReserve, LateReserve
        <5> QED BY <1>0, <4>2, <5>1
      <4> QED BY <4>1, <4>2
    <3>3. LateReserve' \in {0, 1}
      BY <1>0
    <3>4. config.failures + 1 + LateReserve' + CycleReserve' <= Cardinality(failed) + losses
      BY ONLY <1>0, <1>1, <3>2, <3>3
    <3>5. losses = 0 => config.failures = Cardinality(failed)
      BY DEF CycleInv, CountsFailures
    <3>6. losses # 0
      BY ONLY <1>0, <3>3, <3>4, <3>5
    <3> QED BY <3>1, <3>4, <3>6
  <2>3. CASE me.result = "failed" /\ me.run \notin failed
    <3>1. /\ failed' = failed \union {me.run} /\ Cardinality(failed') = Cardinality(failed) + 1
          /\ config'.failures = config.failures + 1 /\ losses' = losses
      BY <1>0, <1>1, <1>5, <2>3, FS_AddElement
    <3>2. LateReserve' \in {0, 1} /\ LateReserve' + CycleReserve' <= LateReserve + CycleReserve
      <4>1. CASE me = cycle /\ cycle'.at = "threshold" /\ LateReserve' = LateReserve
        <5>1. CycleReserve' = 0
          BY <4>1 DEF CycleReserve
        <5> QED BY <1>0, <4>1, <5>1
      <4>2. CASE me = late /\ UNCHANGED cycle /\ LateReserve' = 0
        <5>1. LateReserve = 1
          BY <1>1, <2>3, <4>2 DEF LateReserve
        <5>2. PICK a, b, c, d : a = LateReserve /\ b = CycleReserve /\ c = LateReserve' /\ d = CycleReserve'
          OBVIOUS
        <5>3. a = 1 /\ b \in {0, 1} /\ c = 0 /\ d \in {0, 1}
          BY <1>0, <4>2, <5>1, <5>2
        <5>4. c + d <= a + b
          BY ONLY <5>3
        <5> QED BY <4>2, <5>2, <5>4
      <4> QED BY <4>1, <4>2
    <3>3. losses = 0 => config.failures = Cardinality(failed)
      BY DEF CycleInv, CountsFailures
    <3>4. PICK f, k, l, a, b, c, d :
             /\ f = config.failures /\ k = Cardinality(failed) /\ l = losses
             /\ a = LateReserve /\ b = CycleReserve /\ c = LateReserve' /\ d = CycleReserve'
      OBVIOUS
    <3>5. /\ f \in Nat /\ k \in Nat /\ l \in Nat /\ a \in Nat /\ b \in Nat /\ c \in Nat /\ d \in Nat
          /\ f + a + b <= k + l /\ c + d <= a + b
      BY <1>0, <1>1, <3>2, <3>4
    <3>6. f + 1 + c + d <= k + 1 + l
      BY ONLY <3>5
    <3> QED BY <3>1, <3>3, <3>4, <3>6
  <2> QED BY <2>1, <2>2, <2>3
<1>8. Counting'
  <2>1. failed' \subseteq 1 .. Len(runs')
    BY <1>1, <1>2
  <2>2. cycle'.result # "failed" => cycle'.run \notin failed'
    BY <1>1
  <2> QED BY <1>7, <2>1, <2>2 DEF Counting
<1>9. LateReserve' \in {0, 1} /\ config'.failures \in Nat /\ Cardinality(failed') \in Nat
  <2>1. IsFiniteSet(failed')
    BY <1>0, <1>1, FS_AddElement, FS_EmptySet
  <2> QED BY <1>0, <1>5, <2>1, FS_CardinalityType DEF LateReserve
<1>10. CountsFailures'
  BY <1>0, <1>1, <1>7, <1>9 DEF CountsFailures
<1>11. RunRowsEnd'
  BY <1>1, <1>2, <1>3 DEF CycleInv, RunRowsEnd
<1> QED BY <1>4, <1>8, <1>10, <1>11 DEF CycleInv

LEMMA CompleteRunCycle == ASSUME Typed, CycleInv, CompleteRun PROVE CycleTyped' /\ CycleInv'
<1>1. /\ Completes(cycle) /\ cycle' = [cycle EXCEPT !.at = "threshold"] /\ UNCHANGED late
      /\ cycle.at = "complete" /\ cycle \in Cycles /\ late \in Lates /\ LateFits
      /\ cycle.run \in 1 .. Len(runs) /\ cycle.result \in Results
      /\ Len(runs') = Len(runs) /\ losses' = losses
  BY ExceptSeq DEF CompleteRun, Completes, Typed, CycleTyped, CycleInv, CycleFits
<1>2. /\ cycle'.at = "threshold" /\ cycle'.run = cycle.run /\ cycle'.result = cycle.result
      /\ cycle' \in Cycles
  BY <1>1 DEF Cycles, Ending
<1>3. late' \in Lates /\ LateFits' /\ LateReserve' = LateReserve
  BY <1>1, <1>2 DEF LateFits, LateReserve
<1> QED BY <1>1, <1>2, <1>3, CompletesCycle

LEMMA LateCompletesCycle == ASSUME Typed, CycleInv, LateCompletes PROVE CycleTyped' /\ CycleInv'
<1>1. /\ Completes(late) /\ late' = [late EXCEPT !.at = "threshold"] /\ UNCHANGED cycle
      /\ late.at = "complete" /\ cycle \in Cycles /\ late \in Lates /\ late # NoLate
      /\ late.run \in 1 .. Len(runs) /\ losses # 0
      /\ late.result = "failed" /\ late.run = cycle.run => cycle.result = "failed"
      /\ Len(runs') = Len(runs) /\ losses' = losses
  <2>1. late.at = "complete" /\ late # NoLate
    BY DEF LateCompletes, Completes, NoLate
  <2> QED BY <2>1, ExceptSeq DEF LateCompletes, Completes, Typed, CycleTyped, CycleInv, LateFits
<1>2. late.result \in Results /\ late.run \in Nat
  BY <1>1 DEF Lates
<1>3. /\ late'.at = "threshold" /\ late'.run = late.run /\ late'.result = late.result
      /\ late' \in Lates
  BY <1>1 DEF Lates, Completing
<1>4. LateFits' /\ LateReserve' = 0
  BY <1>1, <1>3 DEF LateFits, LateReserve
<1> QED BY <1>1, <1>2, <1>3, <1>4, CompletesCycle

(* What the attempt does after that changes nothing of a cycle.              *)
LEMMA LateMoves ==
    ASSUME Typed, CycleInv, UNCHANGED <<cycle, runs, strays, failed, losses>>,
           config'.failures = config.failures,
           \/ late' = NoLate
           \/ late # NoLate /\ \E p \in {"pause", "pauseRow"} : late' = [late EXCEPT !.at = p]
    PROVE  CycleTyped' /\ CycleInv'
<1>0. /\ losses \in Nat /\ config.failures \in Nat /\ Cardinality(failed) \in Nat
      /\ LateReserve \in {0, 1} /\ CycleReserve \in {0, 1}
  BY Reserves
<1>1. late' \in Lates /\ LateFits' /\ LateReserve' = 0
  <2>1. CASE late' = NoLate
    BY <2>1 DEF Lates, LateFits, LateReserve, NoLate
  <2>2. ASSUME late # NoLate, NEW p \in {"pause", "pauseRow"}, late' = [late EXCEPT !.at = p]
        PROVE  late' \in Lates /\ LateFits' /\ LateReserve' = 0
    <3>1. late \in Lates /\ LateFits
      BY DEF Typed, CycleTyped, CycleInv
    <3>2. /\ late' \in Lates /\ late'.at = p /\ late'.run = late.run /\ late'.result = late.result
      BY <2>2, <3>1 DEF Lates, Completing
    <3> QED BY <2>2, <3>1, <3>2 DEF LateFits, LateReserve
  <2> QED BY <2>1, <2>2
<1>2. CycleReserve' = CycleReserve
  BY DEF CycleReserve
<1>3. config'.failures + LateReserve' + CycleReserve' <= Cardinality(failed') + losses'
  BY <1>0, <1>1, <1>2 DEF CycleInv, Counting
<1> QED BY <1>1, <1>3 DEF Typed, CycleTyped, CycleInv, CycleFits, Counting, CountsFailures, RunRowsEnd

(* What neither the cycle nor the attempt left to itself does.               *)
LEMMA CycleStill ==
    ASSUME Typed, CycleInv, UNCHANGED <<late, runs, strays, failed, losses>>,
           config'.failures = config.failures, cycle' \in Cycles,
           cycle'.at = cycle.at, cycle'.run = cycle.run, cycle'.result = cycle.result
    PROVE  CycleTyped' /\ CycleInv'
<1>1. LateReserve' = LateReserve /\ CycleReserve' = CycleReserve /\ LateFits'
  BY DEF LateReserve, CycleReserve, CycleInv, LateFits
<1>2. Counting' /\ CountsFailures'
  BY <1>1 DEF CycleInv, Counting, CountsFailures
<1> QED BY <1>1, <1>2 DEF Typed, CycleTyped, CycleInv, CycleFits, RunRowsEnd

(* The other steps of a cycle.                                               *)
LEMMA CycleMovedStep == ASSUME Typed, CycleInv, CycleMoved PROVE CycleTyped' /\ CycleInv'
<1> USE DEF cmdVars, cycleVars
<1>0. /\ cycle \in Cycles /\ CycleFits /\ CycleTyped /\ losses \in Nat /\ "completed" \in Results
      /\ "failed" \in Results /\ "cancelled" \in Results
      /\ cycle.run \in Nat /\ cycle.tries \in Nat /\ cycle.cancel \in BOOLEAN
      /\ cycle.result \in {"none"} \union Results /\ Len(runs) \in Nat
  BY DEF Typed, CycleTyped, CycleInv, Results, Cycles
<1>1. ASSUME NEW c \in Callers, CallRun(c) PROVE CycleTyped' /\ CycleInv'
  <2>1. CASE UNCHANGED cycle
    BY <1>0, <1>1, <2>1, CycleStill DEF CallRun
  <2>2. CASE Start("manual")
    BY <1>1, <2>2, CycleStarts DEF CallRun
  <2> QED BY <1>1, <2>1, <2>2 DEF CallRun
<1>2. ASSUME NEW c \in Callers, CallCancel(c) PROVE CycleTyped' /\ CycleInv'
  <2>1. /\ cycle' \in Cycles /\ cycle'.at = cycle.at /\ cycle'.run = cycle.run
        /\ cycle'.result = cycle.result /\ UNCHANGED <<config, late, runs, strays, failed, losses>>
    BY <1>0, <1>2 DEF CallCancel, Cycles
  <2> QED BY <2>1, CycleStill
<1>3. CASE Tick
  BY <1>3, CycleStarts DEF Tick
<1>4. CASE StartBuffered
  <2>1. CASE UNCHANGED cycle
    BY <1>0, <1>4, <2>1, CycleStill DEF StartBuffered
  <2>2. CASE cycle' = NewCycle /\ cycle = NoCycle
    BY <1>0, <1>4, <2>2, CycleOver DEF StartBuffered, NoCycle, LeavesLate
  <2> QED BY <1>4, <2>1, <2>2 DEF StartBuffered
<1>5. losses' = losses \/ losses' = losses + 1 => losses' \in Nat /\ losses <= losses'
  BY <1>0
<1>6. CASE StartLost
  <2>1. /\ cycle.at = "start" /\ cycle.run = 0 /\ cycle.result = "none" /\ losses' \in Nat /\ losses <= losses'
        /\ runs' = Append(runs, "running") /\ strays' = strays \union {Len(runs) + 1}
        /\ UNCHANGED <<config, failed, late>>
    BY <1>0, <1>5, <1>6 DEF StartLost, Losing, CycleFits
  <2>2. CASE cycle' = NoCycle
    <3>1. cycle' \in Cycles /\ cycle'.at = "none" /\ cycle'.run = 0 /\ cycle'.result = "none"
      BY <2>2 DEF NoCycle, Cycles
    <3> QED BY <2>1, <3>1, StrayRow
  <2>3. CASE cycle' = [cycle EXCEPT !.tries = @ + 1]
    <3>1. cycle' \in Cycles /\ cycle'.at = "start" /\ cycle'.run = 0 /\ cycle'.result = "none"
      BY <1>0, <2>1, <2>3 DEF Cycles
    <3> QED BY <2>1, <3>1, StrayRow
  <2> QED BY <1>6, <2>2, <2>3 DEF StartLost, Close
<1>7. CASE StartRefused
  BY <1>0, <1>7, CycleOver DEF StartRefused, Close, CycleFits, LeavesLate
<1>9. ASSUME NEW result \in Results, cycle.at \notin {"none", "start"}, cycle.result # "failed",
             cycle'.at = "complete", cycle'.result = result, cycle' \in Cycles, cycle'.run = cycle.run,
             UNCHANGED <<runs, strays, config, failed>>, LeavesLate, losses' = losses \/ losses' = losses + 1
      PROVE  CycleTyped' /\ CycleInv'
  <2>1. cycle.run \notin failed
    BY <1>9 DEF CycleInv, Counting
  <2>2. "complete" \notin Ending /\ "complete" # "work"
    BY DEF Ending
  <2>3. config'.failures = config.failures
    BY <1>9
  <2> QED BY <1>5, <1>9, <2>1, <2>2, <2>3, CycleGoesOn
<1>10. ASSUME NEW result \in Results, Work(result) PROVE CycleTyped' /\ CycleInv'
  <2>1. /\ cycle.at = "work" /\ cycle.result = "none"
        /\ cycle' = [cycle EXCEPT !.at = "complete", !.result = result, !.tries = 1]
    BY <1>0, <1>10 DEF Work, CycleFits
  <2>2. cycle' \in Cycles /\ cycle'.at = "complete" /\ cycle'.run = cycle.run /\ cycle'.result = result
    BY <1>0, <2>1 DEF Cycles
  <2> QED BY <1>9, <1>10, <2>1, <2>2 DEF Work, LeavesLate
<1>11. ASSUME NEW result \in Results, Cancelled(result) PROVE CycleTyped' /\ CycleInv'
  <2>1. /\ UNCHANGED <<config, failed>> /\ LeavesLate /\ (losses' = losses \/ losses' = losses + 1)
        /\ cycle.at = "start" => UNCHANGED <<late, losses>>
    BY <1>11 DEF Cancelled, LeavesLate, Losing, RunsOn, Completing
  <2>2. CASE /\ cycle.at \in {"work", "complete", "threshold", "notify"}
             /\ cycle.result \in {"none", "completed"}
             /\ cycle' = [cycle EXCEPT !.at = "complete", !.result = result, !.tries = 1, !.cancel = FALSE]
             /\ UNCHANGED <<runs, strays>>
    <3>1. cycle' \in Cycles /\ cycle'.at = "complete" /\ cycle'.run = cycle.run /\ cycle'.result = result
      BY <1>0, <2>2 DEF Cycles
    <3> QED BY <1>9, <2>1, <2>2, <3>1
  <2>3. CASE Close("cancelled") /\ strays' = strays \union {cycle.run} /\ UNCHANGED runs
    BY <1>0, <1>5, <2>1, <2>3, CycleOver DEF Close
  <2>4. CASE cycle.at = "start" /\ Close("cancelled") /\ UNCHANGED <<runs, strays>>
    BY <1>0, <1>5, <2>1, <2>4, CycleOver DEF Close, CycleFits
  <2>5. CASE /\ cycle.at = "start" /\ Close("cancelled")
             /\ runs' = Append(runs, "running") /\ strays' = strays \union {Len(runs) + 1}
    <3>1. cycle' \in Cycles /\ cycle'.at = "none" /\ cycle'.run = 0 /\ cycle'.result = "none"
      BY <2>5 DEF Close, NoCycle, Cycles
    <3> QED BY <1>0, <2>1, <2>5, <3>1, StrayRow
  <2>6. cycle.at = "work" => cycle.result = "none"
    BY <1>0 DEF CycleFits
  <2> QED BY <1>11, <2>2, <2>3, <2>4, <2>5, <2>6 DEF Cancelled
<1>12. ASSUME NEW p \in Ending, cycle' = [cycle EXCEPT !.at = p] \/ (p = "notify" /\ cycle' = Notifies),
              cycle.at \in Ending,
              UNCHANGED <<late, runs, strays, failed, losses>>, config'.failures = config.failures
       PROVE  CycleTyped' /\ CycleInv'
  <2>1. cycle' \in Cycles /\ cycle'.at = p /\ cycle'.run = cycle.run /\ cycle'.result = cycle.result
    <3>1. CASE cycle' = [cycle EXCEPT !.at = p]
      BY <1>0, <1>12, <3>1 DEF Cycles
    <3>2. CASE p = "notify" /\ cycle' = [cycle EXCEPT !.at = "notify", !.tries = 1]
      BY <1>0, <3>2 DEF Cycles, Ending
    <3> QED BY <1>12, <3>1, <3>2 DEF Notifies
  <2>2. /\ p # "complete" /\ p # "work" /\ cycle.at \notin {"none", "start"} /\ cycle.result \in Results
        /\ runs[cycle.run] # "running"
    BY <1>0, <1>12 DEF Ending, CycleFits
  <2> QED BY <1>0, <1>12, <2>1, <2>2, CycleGoesOn DEF LeavesLate
<1>13. /\ "threshold" \in Ending /\ "pause" \in Ending /\ "pauseRow" \in Ending /\ "notify" \in Ending
  BY DEF Ending
<1>14. CASE CheckThreshold \/ PauseSchedule \/ PauseRow
  <2>1. CASE CheckThreshold
    BY <1>12, <1>13, <2>1 DEF CheckThreshold
  <2>2. CASE PauseSchedule
    BY <1>12, <1>13, <2>2 DEF PauseSchedule
  <2>3. CASE PauseRow
    <3>1. config'.failures = config.failures
      BY <2>3, RowFields DEF PauseRow, Typed, Statuses
    <3> QED BY <1>12, <1>13, <2>3, <3>1 DEF PauseRow
  <2> QED BY <1>14, <2>1, <2>2, <2>3
<1>15. CASE CompleteLost
  <2>1. /\ losses' = losses + 1 /\ UNCHANGED <<config, runs, failed>> /\ cycle.result \in Results
        /\ cycle.at \in {"complete"} \union Ending /\ cycle.at \notin {"none", "start"}
        /\ losses < losses' /\ losses' \in Nat /\ LeavesLate
    BY <1>0, <1>15 DEF CompleteLost, Losing, Ending, Completing, CycleFits, LeavesLate
  <2>2. CASE /\ cycle' = [cycle EXCEPT !.at = IF @ = "notify" THEN @ ELSE "complete", !.tries = @ + 1]
             /\ UNCHANGED strays
    <3>1. /\ cycle' \in Cycles /\ cycle'.run = cycle.run /\ cycle'.result = cycle.result
          /\ \/ cycle'.at = "complete"
             \/ cycle'.at = "notify" /\ cycle.at = "notify"
      <4>1. PICK p, n : /\ p = (IF cycle.at = "notify" THEN "notify" ELSE "complete")
                        /\ n = cycle.tries + 1
        OBVIOUS
      <4>2. n \in Nat
        BY <1>0, <4>1
      <4>3. cycle' = [cycle EXCEPT !.at = p, !.tries = n]
        BY <2>2, <4>1
      <4>4. p = "complete" \/ (p = "notify" /\ cycle.at = "notify")
        BY <4>1
      <4>5. /\ cycle' \in Cycles /\ cycle'.run = cycle.run /\ cycle'.result = cycle.result
            /\ cycle'.at = p
        BY ONLY <1>0, <4>2, <4>3, <4>4 DEF Cycles, Ending
      <4> QED BY <4>4, <4>5
    <3>2. cycle'.at \in Ending => cycle'.at = "notify" /\ runs[cycle.run] # "running"
      BY <1>0, <3>1 DEF Ending, CycleFits
    <3>3. cycle'.at \in {"work", "complete"} \union Ending /\ cycle'.at # "work"
      BY <1>13, <3>1
    <3> QED BY <1>5, <2>1, <2>2, <3>1, <3>2, <3>3, CycleGoesOn
  <2>3. CASE /\ cycle.result = "completed" /\ UNCHANGED strays
             /\ cycle' = [cycle EXCEPT !.at = "complete", !.result = "failed", !.tries = 1]
    <3>1. cycle' \in Cycles /\ cycle'.at = "complete" /\ cycle'.run = cycle.run /\ cycle'.result = "failed"
      BY <1>0, <2>3 DEF Cycles
    <3> QED BY <1>0, <1>9, <2>1, <2>3, <3>1
  <2>4. CASE cycle' = NoCycle /\ strays' = strays \union {cycle.run}
    BY <1>5, <2>1, <2>4, CycleOver
  <2> QED BY <1>15, <2>2, <2>3, <2>4 DEF CompleteLost, Close
<1>16. CASE Notify
  <2>1. runs[cycle.run] # "running"
    BY <1>0, <1>13, <1>16 DEF Notify, CycleFits
  <2> QED BY <1>0, <1>16, <2>1, CycleOver DEF Notify, Close, LeavesLate
<1>17. CASE LateStep
  <2>1. CASE LateChecks \/ LatePauses
    BY <2>1, LateMoves DEF LateChecks, LatePauses, NoLate
  <2>2. CASE LatePausesRow
    <3>1. config'.failures = config.failures
      BY <2>2, RowFields DEF LatePausesRow, Typed, Statuses
    <3> QED BY <2>2, <3>1, LateMoves DEF LatePausesRow
  <2> QED BY <1>17, <2>1, <2>2, LateCompletesCycle DEF LateStep
<1>18. CASE PauseFails
  <2>1. CASE cycle.at \in {"pause", "pauseRow"} /\ cycle' = Notifies /\ UNCHANGED late
    BY <1>12, <1>13, <1>18, <2>1 DEF PauseFails
  <2>2. CASE late' = NoLate /\ UNCHANGED cycle
    BY <1>18, <2>2, LateMoves DEF PauseFails
  <2> QED BY <1>18, <2>1, <2>2 DEF PauseFails
<1> QED BY <1>0, <1>1, <1>2, <1>3, <1>4, <1>6, <1>7, <1>10, <1>11, <1>14, <1>15, <1>16, <1>17, <1>18,
           StartRunCycle, CompleteRunCycle DEF CycleMoved, CycleStep

LEMMA CycleInvStep ==
    ASSUME Typed, CycleInv, Steps \/ UNCHANGED vars
    PROVE  CycleTyped' /\ CycleInv'
<1>1. CASE CycleMoved
  BY <1>1, CycleMovedStep
<1>2. ASSUME ~CycleMoved, NEW c \in Callers, RowCreate(c) PROVE CycleTyped' /\ CycleInv'
  <2>1. /\ UNCHANGED <<cycle, late, runs, strays, losses>> /\ failed' = {}
        /\ config' = FreshRow(caller[c].ask)
    BY <1>2 DEF RowCreate
  <2>2. caller[c].ask \in Requests
    BY <1>2, CallersKnown DEF RowCreate, At, Typed, CallersTyped
  <2>3. config'.failures = 0 /\ losses \in Nat
    BY <2>1, <2>2, NewOnes DEF Typed
  <2>4. CountsFailures'
    BY <2>1, <2>3, FS_EmptySet DEF CountsFailures
  <2>5. LateReserve' = LateReserve /\ CycleReserve' = 0 /\ LateReserve <= losses
    BY <2>1, Reserves DEF LateReserve, CycleReserve
  <2>6. Counting'
    BY <2>1, <2>3, <2>5, FS_EmptySet, Reserves DEF Counting
  <2>7. LateFits'
    BY <2>1 DEF CycleInv, LateFits
  <2> QED BY <2>1, <2>4, <2>6, <2>7 DEF Typed, CycleTyped, CycleInv, CycleFits, RunRowsEnd
<1>3. CASE ~CycleMoved /\ \A c \in Callers : ~RowCreate(c)
  <2>1. UNCHANGED <<cycle, late, runs, strays, losses, failed>>
    BY <1>3, CycleUnmoved
  <2>2. config'.failures = config.failures
    BY <1>3, RowUnwritten, RowWrites DEF CycleMoved, CycleStep, LateStep
  <2> QED BY <2>1, <2>2, CycleStill DEF Typed, CycleTyped
<1> QED BY <1>1, <1>2, <1>3

(* Where a caller or the cycle goes wants a row.                             *)
LEMMA RowlessStep == ASSUME Typed, Steps \/ UNCHANGED vars PROVE Rowless'
<1> USE DEF cycleVars, cmdVars
<1> SUFFICES ASSUME config'.status = "none"
             PROVE  /\ \A c \in Callers : caller'[c] # Idle => caller'[c].op = "create"
                    /\ cycle'.at \in {"none", "start"} /\ late' = NoLate
  BY DEF Rowless
<1>1. CallersTyped /\ ~RowWritten /\ UNCHANGED config
  BY RowWrites, RowUnwritten DEF Typed
<1>2. /\ \A c \in Callers : caller[c] # Idle => caller[c].op = "create"
      /\ cycle.at \in {"none", "start"} /\ config.status = "none" /\ ~Live
      /\ late = NoLate /\ late.at = "none" /\ cycle.at \notin Completing \union {"notify"}
  BY <1>1 DEF Typed, Rowless, Live, NoLate, Completing
<1>5. ~LateStep /\ ~PauseFails /\ ~RunsOn
  BY <1>2 DEF LateStep, LateCompletes, Completes, LateChecks, LatePauses, LatePausesRow, PauseFails, RunsOn
<1>3. cycle'.at \in {"none", "start"} /\ late' = NoLate
  <2>1. CASE ~CycleMoved
    BY <1>2, <2>1, CycleUnmoved
  <2>2. ASSUME NEW kind, Start(kind) PROVE cycle'.at \in {"none", "start"}
    BY <1>2, <2>2, NewAt DEF Start
  <2>3. cycle.at \in {"none", "start"} /\ NoCycle.at = "none" /\ NewCycle.at = "start"
    BY <1>2, NewAt
  <2>4. /\ [cycle EXCEPT !.cancel = TRUE].at = cycle.at
        /\ [cycle EXCEPT !.tries = @ + 1].at = cycle.at
    BY DEF Typed, CycleTyped, Cycles
  <2>5. CASE (\E c \in Callers : CallRun(c) \/ CallCancel(c)) \/ Tick \/ StartBuffered
    BY <1>2, <2>2, <2>3, <2>4, <2>5 DEF CallRun, CallCancel, Tick, StartBuffered
  <2>6. CASE StartLost
    BY <1>2, <2>3, <2>4, <2>6 DEF StartLost, Close
  <2>7. ~CompleteLost
    BY <1>2 DEF CompleteLost, Completing
  <2>8. CASE CycleStep
    <3>2. CASE \E how \in {"cancelled", "failed"} : Cancelled(how)
      BY <1>2, <1>5, <2>3, <3>2 DEF Cancelled, Close
    <3>3. ~CompleteRun /\ ~CheckThreshold /\ ~PauseSchedule /\ ~PauseRow /\ ~Notify
      BY <1>2 DEF CompleteRun, Completes, CheckThreshold, PauseSchedule, PauseRow, Notify, Completing
    <3> QED BY <1>2, <2>3, <2>8, <3>2, <3>3 DEF CycleStep, StartRun, StartRefused, Work, Close
  <2> QED BY <1>5, <2>1, <2>5, <2>6, <2>7, <2>8 DEF CycleMoved
<1>4. ASSUME NEW c \in Callers, caller'[c] # Idle PROVE caller'[c].op = "create"
  <2>1. CASE caller'[c] = caller[c]
    BY <1>2, <1>4, <2>1
  <2>2. ASSUME NEW d \in Callers, Done(d) PROVE caller'[c].op = "create"
    BY <1>1, <1>2, <1>4, <2>2, Ends, Moved
  <2>3. ASSUME NEW d \in Callers, NEW p \in {"row", "next", "mark", "undo"}, Goto(d, p),
               caller[d].at \in {"call", "row", "next", "mark"}
        PROVE  caller'[c].op = "create"
    <3>1. caller[d] \in Commands /\ p \in {"call", "row", "next", "mark", "undo"} /\ caller[d] # Idle
      BY <1>1, <2>3, CallersKnown DEF Idle
    <3>2. caller'[d].op = caller[d].op /\ \A e \in Callers \ {d} : caller'[e] = caller[e]
      BY <1>1, <2>3, <3>1, GoesOn, Moved
    <3> QED BY <1>2, <1>4, <3>1, <3>2
  <2>4. ASSUME NEW d \in Callers, NEW op, NEW r, Given(d, op, r) PROVE caller'[c].op = "create"
    <3>1. op = "create"
      BY <1>2, <2>4 DEF Given
    <3>2. caller'[d].op = op /\ \A e \in Callers \ {d} : caller'[e] = caller[e]
      BY <1>1, <2>4, Begins, Moved, ZenonT(40) DEF Given
    <3> QED BY <1>2, <1>4, <3>1, <3>2
  <2>5. ~Reconcile
    BY <1>2 DEF Reconcile
  <2>6. "cli" \in Callers
    BY DEF Callers
  <2>7. ~Repair
    BY <1>1, <1>2, <2>6, CallersKnown DEF Repair, Describe, RepairMissing, RepairFlag, RepairSpec, At
  <2>8. ASSUME NEW d \in Callers, Step(d) PROVE caller'[c].op = "create"
    <3>1. CASE CallCreate(d) /\ ~sched.exists
      <4>1. caller[d] \in Commands /\ caller[d].op = "create"
        BY <1>1, <3>1, CallersKnown DEF CallCreate, At
      <4>2. caller'[d].op = "create" /\ \A e \in Callers \ {d} : caller'[e] = caller[e]
        BY <1>1, <3>1, <4>1 DEF CallCreate, CallersTyped, Commands
      <4> QED BY <1>2, <1>4, <4>2
    <3>2. CASE \/ (CallCreate(d) /\ sched.exists) \/ CallPause(d, TRUE) \/ CallPause(d, FALSE) \/ CallRun(d)
               \/ CallUpdate(d) \/ CallDelete(d) \/ CallCancel(d)
      BY <2>2, <2>3, <3>2 DEF CallCreate, CallPause, CallRun, CallUpdate, CallDelete, CallCancel, At
    <3>3. CASE \/ RowCreate(d) \/ RowStatus(d, "pause", "paused") \/ RowStatus(d, "resume", "active")
               \/ RowUpdate(d) \/ RowDelete(d) \/ RowNext(d) \/ Mark(d) \/ Undo(d)
      BY <2>2, <2>3, <3>3 DEF RowCreate, RowStatus, RowUpdate, RowDelete, RowNext, Mark, Undo, At
    <3> QED BY <2>8, <3>1, <3>2, <3>3 DEF Step
  <2>9. CASE Trouble
    <3>1. ASSUME NEW P, Crash(P) PROVE caller'[c].op = "create"
      BY <1>2, <1>4, <3>1 DEF Crash
    <3>2. ~DescribeFails /\ ~RepairFails
      BY <1>1, <1>2, <2>6, CallersKnown DEF DescribeFails, RepairFails, At
    <3>3. CASE RegisterFails
      BY <2>1, <3>3 DEF RegisterFails
    <3> QED BY <1>5, <2>2, <2>3, <2>9, <3>1, <3>2, <3>3 DEF Trouble, CallFails, RowFails, UndoFails
  <2>10. CASE Tick \/ StartBuffered \/ StartLost \/ CompleteLost \/ TokenExpires \/ CycleStep \/ UNCHANGED vars
    BY <2>1, <2>10 DEF Tick, StartBuffered, StartLost, CompleteLost, TokenExpires, CycleStep, StartRun,
       StartRefused, Work, Cancelled, CompleteRun, Completes, CheckThreshold, PauseSchedule, PauseRow, Notify, vars
  <2>11. CASE (\E h \in Handlers : ChatCommand(h)) \/ CliCommand \/ Register
    BY <2>1, <2>4, <2>5, <2>11, CommandsGiven
  <2> QED BY <1>5, <2>7, <2>8, <2>9, <2>10, <2>11 DEF Steps
<1> QED BY <1>3, <1>4

(* Nothing but trouble changes the counts of it.                             *)
LEMMA TroublesCounted ==
    ASSUME Typed, Steps \/ UNCHANGED vars
    PROVE  losses' \in Nat /\ faults' \in Nat /\ (faults' = 0 => faults = 0 /\ ~Trouble)
<1> USE DEF cycleVars, cmdVars
<1>0. losses \in Nat /\ faults \in Nat
  BY DEF Typed
<1>1. losses' \in Nat
  <2>1. CASE ~CycleMoved
    BY <1>0, <2>1, CycleUnmoved
  <2>2. CASE CycleMoved
    BY <1>0, <2>2 DEF CycleMoved, CallRun, CallCancel, Tick, StartBuffered, StartLost, CompleteLost, Losing,
       CycleStep, StartRun, StartRefused, Work, Cancelled, CompleteRun, Completes, CheckThreshold, PauseSchedule,
       PauseRow, Notify, PauseFails, LateStep, LateCompletes, LateChecks, LatePauses, LatePausesRow
  <2> QED BY <2>1, <2>2
<1>2. ASSUME Trouble PROVE faults' = faults + 1
  BY <1>2 DEF Trouble, CallFails, RowFails, UndoFails, Crash, RegisterFails, DescribeFails, RepairFails,
              PauseFails, Failing
<1>3. ASSUME Tick \/ StartBuffered \/ StartLost \/ CompleteLost \/ TokenExpires PROVE faults' = faults
  BY <1>3 DEF Tick, StartBuffered, StartLost, CompleteLost, TokenExpires
<1>6. ASSUME CycleStep \/ LateStep PROVE faults' = faults
  BY <1>6 DEF CycleStep, StartRun, StartRefused, Work, Cancelled, CompleteRun, Completes, CheckThreshold,
     PauseSchedule, PauseRow, Notify, LateStep, LateCompletes, LateChecks, LatePauses, LatePausesRow
<1>7. ASSUME Repair \/ UNCHANGED vars PROVE faults' = faults
  BY <1>7 DEF vars, Repair, Describe, RepairMissing, RepairFlag, RepairSpec
<1>4. ASSUME NEW c \in Callers, Step(c) PROVE faults' = faults
  BY <1>4 DEF Step, CallCreate, CallPause, CallRun, CallUpdate, CallDelete, CallCancel, RowCreate,
              RowStatus, RowUpdate, RowDelete, RowNext, Mark, Undo
<1>5. ASSUME (\E h \in Handlers : ChatCommand(h)) \/ CliCommand \/ Register PROVE faults' = faults
  <2>1. CASE \E c \in Callers : \E op, r : Given(c, op, r)
    BY <2>1 DEF Given
  <2> QED BY <1>5, <2>1, CommandsGiven DEF Reconcile
<1>8. Trouble \/ faults' = faults
  BY <1>3, <1>4, <1>5, <1>6, <1>7 DEF Steps
<1>9. CASE Trouble
  BY <1>0, <1>1, <1>2, <1>9
<1>10. CASE ~Trouble
  BY <1>0, <1>1, <1>8, <1>10
<1> QED BY <1>9, <1>10

LEMMA TypedStep == ASSUME Typed, CycleInv, Steps \/ UNCHANGED vars PROVE Typed'
<1>1. RowTyped'
  BY RowUnwritten, RowWrites DEF Typed, RowTyped
<1> QED BY <1>1, ScheduleTypedStep, CallersTypedStep, CycleInvStep, RowlessStep, TroublesCounted DEF Typed

LEMMA InitTyped == Init => Typed /\ CycleInv
<1> SUFFICES ASSUME Init PROVE Typed /\ CycleInv
  OBVIOUS
<1>1. config = [status |-> "none", words |-> NoWords, failures |-> 0] /\ config \in Configs
  BY DEF Init, Configs, Statuses
<1>2. RowTyped
  BY <1>1 DEF RowTyped
<1>3. ScheduleTyped
  BY NewOnes DEF Init, ScheduleTyped
<1>4. caller = [c \in Callers |-> Idle] /\ Idle \notin Commands /\ Idle \notin Repairs
  BY DEF Init, Idle, Commands, Repairs
<1>5. CallersTyped /\ \A c \in Callers : caller[c] = Idle
  BY <1>4 DEF CallersTyped
<1>6. /\ cycle \in Cycles /\ cycle.at = "none" /\ cycle.run = 0 /\ cycle.result = "none"
      /\ runs = <<>> /\ failed = {} /\ strays = {} /\ losses = 0 /\ faults = 0
      /\ late = NoLate
  BY DEF Init, NoCycle, Cycles
<1>7. CycleTyped /\ Rowless
  BY <1>5, <1>6 DEF CycleTyped, Rowless, Lates
<1>10. LateReserve = 0 /\ CycleReserve = 0 /\ LateFits
  BY <1>6 DEF LateReserve, CycleReserve, LateFits, NoLate
<1>8. CycleFits /\ Counting /\ RunRowsEnd
  BY <1>1, <1>6, <1>10, FS_EmptySet DEF CycleFits, Counting, RunRowsEnd, Ending
<1>9. CountsFailures
  BY <1>1, <1>6, FS_EmptySet DEF CountsFailures
<1> QED BY <1>2, <1>3, <1>5, <1>6, <1>7, <1>8, <1>9, <1>10 DEF Typed, CycleInv

LEMMA CyclesInvariance == Spec => [](Typed /\ CycleInv)
<1>1. Typed /\ CycleInv /\ [Next]_vars => (Typed /\ CycleInv)'
  BY TypedStep, CycleInvStep DEF Next
<1> QED BY InitTyped, <1>1, PTL DEF Spec

(* consecutive_failure_count is the number of cycles that failed since the    *)
(* last one that did not, and exceeds it by the answers that were lost at     *)
(* most, for any number of cycles, attempts and commands: an attempt of       *)
(* complete_monitoring_cycle counts its cycle again only after the answer of  *)
(* an earlier one was lost.                                                  *)
THEOREM FailuresCounted == Spec => []CountsFailures
<1>1. Typed /\ CycleInv => CountsFailures
  BY DEF CycleInv
<1> QED BY <1>1, CyclesInvariance, PTL

(* No cycle that closed leaves its row of monitoring_runs running, but for    *)
(* the rows of lost attempts and of cycles cancelled while they started or    *)
(* were ending.                                                              *)
THEOREM RunRowsClosed == Spec => []RunRowsEnd
<1>1. Typed /\ CycleInv => RunRowsEnd
  BY DEF CycleInv
<1> QED BY <1>1, CyclesInvariance, PTL

-----------------------------------------------------------------------------
(* Rivals.  A set of callers and a cycle that together are fewer than two.    *)
LEMMA AtMostOne ==
    ASSUME NEW S, S \subseteq Callers, NEW n \in {0, 1}, Cardinality(S) + n < 2
    PROVE  /\ \A c, d \in S : c = d
           /\ S # {} => n = 0
<1>1. IsFiniteSet(Callers)
  <2>1. IsFiniteSet(Handlers \union {"cli"})
    BY HandlersAssumption, FS_AddElement
  <2>2. IsFiniteSet((Handlers \union {"cli"}) \union {"worker"})
    BY <2>1, FS_AddElement
  <2>3. Callers = (Handlers \union {"cli"}) \union {"worker"}
    BY DEF Callers
  <2> QED BY <2>2, <2>3
<1>2. IsFiniteSet(S) /\ Cardinality(S) \in Nat
  BY <1>1, FS_Subset, FS_CardinalityType
<1>3. ASSUME S # {} PROVE n = 0 /\ \A c, d \in S : c = d
  <2>1. Cardinality(S) # 0
    BY <1>2, <1>3, FS_EmptySet
  <2>2. n = 0 /\ Cardinality(S) = 1
    BY <1>2, <2>1
  <2>3. \E x : S = {x}
    BY <1>2, <2>2, FS_Singleton
  <2> QED BY <2>2, <2>3
<1> QED BY <1>3

(* Nobody else is at work: no other caller, no cycle that pauses.            *)
Alone(c) == ~Pausing /\ \A d \in Callers \ {c} : caller[d] = Idle

Company ==
    /\ rivals = "none" => \A c \in Callers : caller[c] # Idle => Alone(c)
    /\ rivals # "delete" => \A c \in Callers : caller[c] # Idle /\ caller[c].op = "delete" => Alone(c)

(* Rivals are remembered, and those who are told apart are alone.            *)
LEMMA WatchKept ==
    ASSUME Watched, [Next]_vars
    PROVE  /\ Watched' /\ Company /\ Company'
           /\ rivals' = "none" => rivals = "none"
           /\ rivals' # "delete" => rivals # "delete"
<1>1. Watched' /\ (rivals' = "none" => rivals = "none") /\ (rivals' # "delete" => rivals # "delete")
  <2>1. CASE UNCHANGED vars
    BY <2>1 DEF vars, Watched, Rivals, Busy, Pausing
  <2>2. CASE Watch
    <3>1. Rivals' \in {"none", "some", "delete"}
      BY DEF Rivals
    <3> QED BY <2>2, <3>1 DEF Watch, Watched
  <2> QED BY <2>1, <2>2 DEF Next
<1>2. Company
  <2> DEFINE n == IF Pausing THEN 1 ELSE 0
  <2>1. Busy \subseteq Callers /\ n \in {0, 1} /\ (n = 0 => ~Pausing)
    BY DEF Busy
  <2>2. ASSUME Cardinality(Busy) + n < 2, NEW c \in Callers, caller[c] # Idle PROVE Alone(c)
    <3> HIDE DEF n
    <3>1. (\A e, d \in Busy : e = d) /\ (Busy # {} => n = 0)
      BY <2>1, <2>2, AtMostOne
    <3> QED BY <2>1, <2>2, <3>1 DEF Busy, Alone
  <2>3. Rivals = "none" => Cardinality(Busy) + n < 2
    BY DEF Rivals
  <2>4. Rivals # "delete" => Cardinality(Busy) + n < 2 \/ \A c \in Busy : caller[c].op # "delete"
    BY DEF Rivals
  <2> HIDE DEF n
  <2> QED BY <2>2, <2>3, <2>4 DEF Company, Watched, Busy
<1>3. Company'
  <2> DEFINE n == IF Pausing' THEN 1 ELSE 0
  <2>1. Busy' \subseteq Callers /\ n \in {0, 1} /\ (n = 0 => ~Pausing')
    BY DEF Busy
  <2>2. ASSUME Cardinality(Busy') + n < 2, NEW c \in Callers, caller'[c] # Idle PROVE Alone(c)'
    <3> HIDE DEF n
    <3>1. (\A e, d \in Busy' : e = d) /\ (Busy' # {} => n = 0)
      BY <2>1, <2>2, AtMostOne
    <3> QED BY <2>1, <2>2, <3>1 DEF Busy, Alone
  <2>3. Rivals' = "none" => Cardinality(Busy') + n < 2
    BY DEF Rivals
  <2>4. Rivals' # "delete" => Cardinality(Busy') + n < 2 \/ \A c \in Busy' : caller'[c].op # "delete"
    BY DEF Rivals
  <2> HIDE DEF n
  <2> QED BY <1>1, <2>2, <2>3, <2>4 DEF Company, Watched, Busy
<1> QED BY <1>1, <1>2, <1>3

(* A caller that moves leaves the others where they are.                     *)
OthersStay(c) == \A d \in Callers \ {c} : caller'[d] = caller[d]

(* Pairs of row and schedule stay pairs when one caller moves, or none, and   *)
(* the schedule does not come or go.                                         *)
LEMMA PairsMoved ==
    ASSUME Pairs, NEW c \in Callers, OthersStay(c),
           sched'.exists = sched.exists,
           (Live' <=> Live) \/ (Live' <=> sched.exists),
           At(c, "create", "row") => At(c, "create", "row")' \/ Live',
           At(c, "delete", "row") => At(c, "delete", "row")' \/ ~Live',
           caller'[c].at \notin {"undo", "missing", "unreachable"},
           WritesAt(c)' => WritesAt(c) \/ sched.exists,
           At(c, "delete", "row")' => At(c, "delete", "row") \/ ~sched.exists,
           Writing' => Writing \/ sched.exists
    PROVE  Pairs'
<1>1. \A d \in Callers \ {c} : \A op, p : At(d, op, p)' = At(d, op, p)
  BY DEF At, OthersStay
<1>2. \A d \in Callers \ {c} : WritesAt(d)' = WritesAt(d)
  BY DEF WritesAt, OthersStay
<1>3. \A d \in Callers : caller'[d].at \notin {"undo", "missing", "unreachable"}
  BY DEF Pairs, OthersStay
<1>4. ASSUME sched'.exists, ~Live' PROVE Doing("create", "row")'
  <2>1. sched.exists /\ ~Live
    BY <1>4
  <2>2. PICK d \in Callers : At(d, "create", "row")
    BY <2>1 DEF Pairs, Doing
  <2>3. At(d, "create", "row")'
    BY <1>1, <1>4, <2>2
  <2> QED BY <2>3 DEF Doing
<1>5. ASSUME Live', ~sched'.exists PROVE Doing("delete", "row")'
  <2>1. ~sched.exists /\ Live
    BY <1>5
  <2>2. PICK d \in Callers : At(d, "delete", "row")
    BY <2>1 DEF Pairs, Doing
  <2>3. At(d, "delete", "row")'
    BY <1>1, <1>5, <2>2
  <2> QED BY <2>3 DEF Doing
<1>6. ASSUME (\E d \in Callers : WritesAt(d)') \/ Writing' PROVE sched'.exists
  BY <1>2, <1>6 DEF Pairs
<1>7. ASSUME Doing("delete", "row")' PROVE ~sched'.exists
  BY <1>1, <1>7 DEF Pairs, Doing
<1> QED BY <1>3, <1>4, <1>5, <1>6, <1>7 DEF Pairs

(* The steps of the schedule, the cycle and the clocks move no caller, and    *)
(* but for the pause of the row change neither the times nor who is alive.    *)
CallersRest ==
    \/ Tick \/ StartBuffered \/ CycleStep \/ LateStep \/ StartLost \/ CompleteLost \/ TokenExpires
    \/ UNCHANGED <<caller, config, sched, faults, cycleVars>>

LEMMA CallersResting ==
    ASSUME Typed, Steps \/ UNCHANGED vars, CallersRest
    PROVE  /\ UNCHANGED caller /\ sched'.exists = sched.exists /\ sched'.spec = sched.spec
           /\ config'.words = config.words
           /\ PauseRow \/ LatePausesRow \/ config'.status = config.status
           /\ Writing' => Writing \/ (sched.exists /\ sched'.paused)
<1> USE DEF cycleVars, cmdVars
<1>1. UNCHANGED caller
  BY DEF CallersRest, Tick, StartBuffered, StartLost, CompleteLost, TokenExpires, CycleStep, StartRun,
     StartRefused, Work, Cancelled, CompleteRun, Completes, CheckThreshold, PauseSchedule, PauseRow, Notify,
     LateStep, LateCompletes, LateChecks, LatePauses, LatePausesRow
<1>2. sched'.exists = sched.exists /\ sched'.spec = sched.spec
  <2>1. CASE UNCHANGED sched
    BY <2>1
  <2>2. CASE ~ScheduleSet
    BY <2>2, ScheduleUntouched DEF Untouched
  <2>3. ASSUME NEW c \in Callers,
               CallCreate(c) \/ CallUpdate(c) \/ CallDelete(c) \/ CallFails(c) \/ Undo(c) \/ UndoFails(c)
        PROVE  FALSE
    <3>1. caller[c] \in Commands /\ caller[c].at \in {"call", "undo"} /\ caller \in [Callers -> {Idle} \union Commands \union Repairs]
      BY <2>3, CallersKnown DEF CallCreate, CallUpdate, CallDelete, CallFails, Undo, UndoFails, At, Typed, CallersTyped
    <3>2. \/ Done(c) \/ Goto(c, "row")
          \/ caller' = [caller EXCEPT ![c].at = "row", ![c].made = TRUE]
      BY <2>3 DEF CallCreate, CallUpdate, CallDelete, CallFails, Undo, UndoFails
    <3>3. caller'[c].at \in {"idle", "row"}
      BY <3>1, <3>2 DEF Done, Goto, Idle, Commands
    <3> QED BY <1>1, <3>1, <3>3
  <2>4. ASSUME RepairSpec \/ RepairFails PROVE FALSE
    <3>1. /\ caller["cli"].at \in {"missing", "unreachable", "flag", "spec"} /\ "cli" \in Callers
          /\ caller \in [Callers -> {Idle} \union Commands \union Repairs]
      BY <2>4 DEF RepairSpec, RepairFails, At, Typed, CallersTyped, Callers
    <3>2. caller'["cli"].at = "idle"
      BY <2>4, <3>1 DEF RepairSpec, RepairFails, Done, Idle
    <3> QED BY <1>1, <3>1, <3>2
  <2> QED BY <2>1, <2>2, <2>3, <2>4 DEF ScheduleSet
<1>3. config'.words = config.words /\ (PauseRow \/ LatePausesRow \/ config'.status = config.status)
  <2>0. RowTyped
    BY DEF Typed
  <2>1. CASE UNCHANGED config
    BY <2>1
  <2>2. CASE PauseRow \/ LatePausesRow
    BY <2>0, <2>2, RowFields DEF PauseRow, LatePausesRow, Statuses
  <2>3. CASE CompleteRun \/ LateCompletes
    <3>1. PICK result : config' = [config EXCEPT !.failures = Counted(result)]
      BY <2>3 DEF CompleteRun, LateCompletes, Completes
    <3>2. Counted(result) \in Nat
      BY <2>0, RowFields DEF Counted
    <3> HIDE DEF Counted
    <3> QED BY <2>0, <3>1, <3>2, RowFields
  <2> QED BY <2>1, <2>2, <2>3 DEF CallersRest, Tick, StartBuffered, StartLost, CompleteLost, TokenExpires,
     CycleStep, StartRun, StartRefused, Work, Cancelled, CheckThreshold, PauseSchedule, Notify,
     LateStep, LateChecks, LatePauses
<1>5. late'.at = "pauseRow" => Writing \/ (sched.exists /\ sched'.paused)
  <2>1. late \in Lates /\ NoLate.at = "none"
    BY DEF Typed, CycleTyped, NoLate
  <2>2. CASE UNCHANGED late
    BY <2>2 DEF Writing
  <2>3. CASE RunsOn
    BY <2>3 DEF RunsOn, Writing
  <2>4. ASSUME NEW p, late' = [late EXCEPT !.at = p] PROVE late'.at = p
    BY <2>1, <2>4 DEF Lates, NoLate
  <2>5. CASE LateCompletes \/ LateChecks \/ LatePausesRow
    BY <2>1, <2>4, <2>5 DEF LateCompletes, LateChecks, LatePausesRow
  <2>6. CASE LatePauses
    <3>1. CASE sched.exists
      BY <2>6, <3>1, ScheduleFields DEF Typed, LatePauses
    <3>2. CASE ~sched.exists
      BY <2>1, <2>6, <3>2 DEF LatePauses
    <3> QED BY <3>1, <3>2
  <2> QED BY <2>2, <2>3, <2>5, <2>6
     DEF CallersRest, Tick, StartBuffered, StartLost, CompleteLost, TokenExpires, CycleStep, StartRun,
         StartRefused, Work, Cancelled, CompleteRun, CheckThreshold, PauseSchedule, PauseRow, Notify, LateStep
<1>4. cycle'.at = "pauseRow" => cycle.at = "pauseRow" \/ (sched.exists /\ sched'.paused)
  <2>1. cycle \in Cycles /\ NoCycle.at = "none" /\ NewCycle.at = "start"
    BY NewAt DEF Typed, CycleTyped
  <2>2. CASE \/ UNCHANGED cycle
             \/ cycle' \in {NoCycle, NewCycle}
    BY <2>1, <2>2
  <2>3. ASSUME NEW p, NEW n, cycle' = [cycle EXCEPT !.at = p, !.tries = n] PROVE cycle'.at = p
    BY <2>1, <2>3 DEF Cycles
  <2>4. ASSUME NEW p, NEW n, NEW q, cycle' = [cycle EXCEPT !.at = p, !.run = n, !.tries = q] PROVE cycle'.at = p
    BY <2>1, <2>4 DEF Cycles
  <2>5. ASSUME NEW p, NEW r, NEW n, cycle' = [cycle EXCEPT !.at = p, !.result = r, !.tries = n]
        PROVE  cycle'.at = p
    BY <2>1, <2>5 DEF Cycles
  <2>7. ASSUME NEW p, cycle' = [cycle EXCEPT !.at = p] PROVE cycle'.at = p
    BY <2>1, <2>7 DEF Cycles
  <2>8. ASSUME NEW n, cycle' = [cycle EXCEPT !.tries = n] PROVE cycle'.at = cycle.at
    BY <2>1, <2>8 DEF Cycles
  <2>9. CASE Tick \/ StartBuffered \/ TokenExpires
    BY <2>2, <2>9 DEF Tick, StartBuffered, Start, TokenExpires
  <2>10. CASE StartLost
    BY <2>2, <2>8, <2>10 DEF StartLost, Close
  <2>11. CASE CompleteLost
    <3>1. CASE cycle' = [cycle EXCEPT !.at = IF @ = "notify" THEN @ ELSE "complete", !.tries = @ + 1]
      <4>1. PICK p, n : /\ p = (IF cycle.at = "notify" THEN "notify" ELSE "complete")
                        /\ n = cycle.tries + 1
        OBVIOUS
      <4>2. cycle' = [cycle EXCEPT !.at = p, !.tries = n]
        BY <3>1, <4>1
      <4>3. cycle'.at = p
        BY <2>3, <4>2
      <4> QED BY <4>1, <4>3
    <3>2. CASE cycle' = [cycle EXCEPT !.at = "complete", !.result = "failed", !.tries = 1]
      BY <2>5, <3>2
    <3> QED BY <2>2, <2>11, <3>1, <3>2 DEF CompleteLost, Close
  <2>12. CASE StartRun
    BY <2>4, <2>12 DEF StartRun
  <2>13. ASSUME NEW result, Work(result) PROVE cycle'.at # "pauseRow"
    <3>1. cycle' = [cycle EXCEPT !.at = "complete", !.result = result, !.tries = 1]
      BY <2>13 DEF Work
    <3> QED BY <2>5, <3>1
  <2>14. ASSUME NEW result, Cancelled(result)
         PROVE  cycle'.at = "pauseRow" => cycle.at = "pauseRow" \/ (sched.exists /\ sched'.paused)
    <3>1. \/ cycle' = [cycle EXCEPT !.at = "complete", !.result = result, !.tries = 1, !.cancel = FALSE]
          \/ cycle' = NoCycle
      BY <2>14 DEF Cancelled, Close
    <3>2. CASE cycle' = [cycle EXCEPT !.at = "complete", !.result = result, !.tries = 1, !.cancel = FALSE]
      <4>1. cycle'.at = "complete"
        BY <2>1, <3>2 DEF Cycles
      <4> QED BY <4>1
    <3> QED BY <2>2, <3>1, <3>2
  <2>15. CASE StartRefused \/ Notify
    BY <2>2, <2>15 DEF StartRefused, Notify, Close
  <2>16. CASE CompleteRun \/ CheckThreshold \/ PauseRow \/ PauseSchedule
    <3>1. ASSUME NEW p, cycle' = [cycle EXCEPT !.at = p] PROVE cycle'.at = p
      BY <2>1, <3>1 DEF Cycles
    <3>2. CASE CompleteRun
      BY <3>1, <3>2 DEF CompleteRun
    <3>7. ASSUME cycle' = Notifies PROVE cycle'.at = "notify"
      BY <2>3, <3>7 DEF Notifies
    <3>3. CASE CheckThreshold
      <4>1. cycle' = [cycle EXCEPT !.at = "pause"] \/ cycle' = Notifies
        BY <3>3 DEF CheckThreshold
      <4> QED BY <3>1, <3>7, <4>1
    <3>4. CASE PauseRow
      BY <3>7, <3>4 DEF PauseRow
    <3>5. CASE PauseSchedule /\ sched.exists
      <4>1. ScheduleTyped /\ sched' = [sched EXCEPT !.paused = TRUE]
        BY <3>5 DEF Typed, PauseSchedule
      <4> QED BY <3>5, <4>1, ScheduleFields
    <3>6. CASE PauseSchedule /\ ~sched.exists
      <4>1. cycle' = Notifies
        BY <3>6 DEF PauseSchedule
      <4> QED BY <3>7, <4>1
    <3> QED BY <2>16, <3>2, <3>3, <3>4, <3>5, <3>6
  <2>17. CASE LateStep
    BY <2>17 DEF LateStep, LateCompletes, LateChecks, LatePauses, LatePausesRow
  <2> QED BY <2>2, <2>9, <2>10, <2>11, <2>12, <2>13, <2>14, <2>15, <2>16, <2>17 DEF CallersRest, CycleStep
<1> QED BY <1>1, <1>2, <1>3, <1>4, <1>5 DEF Writing

(* None of them resumes the schedule. *)
LEMMA PausedRests == ASSUME Typed, CallersRest PROVE sched.paused => sched'.paused
<1> USE DEF cycleVars, cmdVars
<1>0. ScheduleTyped
  BY DEF Typed
<1>1. ASSUME sched' = [sched EXCEPT !.paused = TRUE] PROVE sched'.paused
  BY <1>0, <1>1, ScheduleFields
<1>2. ASSUME NEW b \in {"none", "timer", "manual"}, sched' = [sched EXCEPT !.buffer = b]
      PROVE  sched'.paused = sched.paused
  BY <1>0, <1>2, ScheduleFields
<1>3. ASSUME NEW how, Close(how) PROVE sched.paused => sched'.paused
  BY <1>1, <1>3 DEF Close
<1>4. CASE Tick
  <2>1. \/ UNCHANGED sched \/ sched' = [sched EXCEPT !.buffer = "timer"]
        \/ sched' = [sched EXCEPT !.buffer = sched.buffer]
    BY <1>4 DEF Tick, Start
  <2>2. sched.buffer \in {"none", "timer", "manual"}
    BY <1>0 DEF ScheduleTyped, Scheds
  <2> QED BY <1>2, <2>1, <2>2
<1>5. CASE StartBuffered
  BY <1>2, <1>5 DEF StartBuffered
<1>6. CASE StartLost \/ CompleteLost
  BY <1>3, <1>6 DEF StartLost, CompleteLost
<1>7. CASE CycleStep
  BY <1>1, <1>3, <1>7
  DEF CycleStep, StartRun, StartRefused, Work, Cancelled, CompleteRun, Completes, CheckThreshold,
      PauseSchedule, PauseRow, Notify
<1>8. CASE LateStep
  BY <1>1, <1>8 DEF LateStep, LateCompletes, Completes, LateChecks, LatePauses, LatePausesRow
<1> QED BY <1>4, <1>5, <1>6, <1>7, <1>8 DEF CallersRest, TokenExpires

LEMMA StepsApart ==
    ASSUME Steps \/ UNCHANGED vars
    PROVE  \/ CallersRest
           \/ \E c \in Callers : \E op, r : Given(c, op, r)
           \/ Reconcile \/ Repair \/ Trouble
           \/ \E c \in Callers : Step(c)
BY CommandsGiven DEF Steps, CallersRest, vars, cycleVars

LEMMA GivenMoves ==
    ASSUME CallersTyped, NEW c \in Callers, NEW op, NEW r, Given(c, op, r)
    PROVE  /\ caller[c].at = "idle" /\ caller'[c].at = "call" /\ caller'[c].op = op /\ OthersStay(c)
           /\ UNCHANGED <<config, sched, cycle, late, faults>>
<1>1. /\ op \in {"create", "update", "pause", "resume", "run", "cancel", "delete"}
      /\ r \in Requests \union {NoWords} /\ (op \in {"create", "update"} => r \in Requests)
      /\ caller' = [caller EXCEPT ![c] = [at |-> "call", op |-> op, ask |-> r, made |-> FALSE]]
      /\ caller[c] = Idle /\ UNCHANGED <<config, sched, cycle, late, faults>>
  BY DEF Given, cycleVars
<1>2. /\ Moves(c, [at |-> "call", op |-> op, ask |-> r, made |-> FALSE])
      /\ caller'[c].at = "call" /\ caller'[c].op = op
  BY <1>1, Begins
<1>3. \A d \in Callers \ {c} : caller'[d] = caller[d]
  BY <1>2, Moved
<1> QED BY <1>1, <1>2, <1>3 DEF OthersStay, Idle

(* Where a caller at work goes. *)
LEMMA GoesTo ==
    ASSUME CallersTyped, NEW c \in Callers
    PROVE  /\ Done(c) => caller'[c] = Idle /\ caller'[c].at = "idle" /\ OthersStay(c)
           /\ \A p : Goto(c, p) /\ caller[c] # Idle =>
                 /\ caller'[c].at = p /\ caller'[c].op = caller[c].op /\ OthersStay(c)
                 /\ caller[c] \in Commands => caller'[c].ask = caller[c].ask
                 /\ caller[c] \in Repairs => caller'[c].row = caller[c].row /\ caller'[c].saw = caller[c].saw
<1>1. caller \in [Callers -> {Idle} \union Commands \union Repairs]
  BY DEF CallersTyped
<1>2. ASSUME Done(c) PROVE caller'[c] = Idle /\ caller'[c].at = "idle" /\ OthersStay(c)
  BY <1>1, <1>2 DEF Done, Idle, OthersStay
<1>3. ASSUME NEW p, Goto(c, p), caller[c] \in Commands
      PROVE  /\ caller'[c].at = p /\ caller'[c].op = caller[c].op /\ OthersStay(c)
             /\ caller'[c].ask = caller[c].ask
  BY <1>1, <1>3 DEF Goto, OthersStay, Commands
<1>4. ASSUME NEW p, Goto(c, p), caller[c] \in Repairs
      PROVE  /\ caller'[c].at = p /\ caller'[c].op = caller[c].op /\ OthersStay(c)
             /\ caller'[c].row = caller[c].row /\ caller'[c].saw = caller[c].saw
  BY <1>1, <1>4 DEF Goto, OthersStay, Repairs
<1>5. Commands \cap Repairs = {}
  BY DEF Commands, Repairs
<1> QED BY <1>1, <1>2, <1>3, <1>4, <1>5

(* The status a row is given. *)
LEMMA StatusLives ==
    ASSUME Typed, NEW s \in Statuses, config' = [config EXCEPT !.status = s]
    PROVE  (Live' <=> s \notin {"none", "deleted"}) /\ config'.words = config.words /\ config'.status = s
BY RowFields DEF Typed, Live

(* Row and schedule come and go together, whoever writes them in between.     *)
LEMMA PairsStep ==
    ASSUME Typed, Pairs, Company, Company', rivals # "delete", rivals' # "delete",
           Steps \/ UNCHANGED vars, ~Trouble
    PROVE  Pairs'
<1> USE DEF cycleVars, cmdVars
<1>0. /\ CallersTyped /\ ScheduleTyped /\ RowTyped /\ "cli" \in Callers
      /\ \A s \in {"active", "paused", "deleted", "registration_failed"} : s \in Statuses /\ s # "none"
  BY DEF Typed, Callers, Statuses
<1>1. CASE CallersRest
  <2>1. /\ UNCHANGED caller /\ sched'.exists = sched.exists
        /\ PauseRow \/ LatePausesRow \/ config'.status = config.status
        /\ Writing' => Writing \/ sched.exists
    BY <1>1, CallersResting
  <2>2. (Live' <=> Live) \/ (Live' <=> sched.exists)
    <3>1. ASSUME PauseRow \/ LatePausesRow PROVE Live' /\ sched.exists
      BY <1>0, <3>1, StatusLives DEF PauseRow, LatePausesRow, Pairs, Writing
    <3> QED BY <2>1, <3>1 DEF Live
  <2>3. OthersStay("cli") /\ \A op, p : At("cli", op, p)' = At("cli", op, p)
    BY <2>1 DEF OthersStay, At
  <2>4. caller'["cli"].at \notin {"undo", "missing", "unreachable"} /\ WritesAt("cli")' = WritesAt("cli")
    BY <1>0, <2>1 DEF Pairs, WritesAt
  <2> QED BY <1>0, <2>1, <2>2, <2>3, <2>4, PairsMoved
<1>2. ASSUME NEW c \in Callers, NEW op, NEW r, Given(c, op, r) PROVE Pairs'
  <2>1. /\ caller'[c].at = "call" /\ OthersStay(c) /\ caller[c].at = "idle"
        /\ UNCHANGED <<config, sched, cycle, late>>
    BY <1>0, <1>2, GivenMoves
  <2> QED BY <2>1, PairsMoved DEF At, WritesAt, Live, Writing
<1>3. CASE Reconcile
  <2> DEFINE to == [at |-> "describe", op |-> "reconcile", row |-> config, saw |-> NoSched]
  <2>1. Moves("cli", to) /\ to.at = "describe" /\ caller["cli"].at = "idle" /\ Live
        /\ UNCHANGED <<config, sched, cycle, late>>
    BY <1>3 DEF Reconcile, Moves, Idle
  <2> HIDE DEF to
  <2>2. caller'["cli"].at = "describe" /\ OthersStay("cli")
    BY <1>0, <2>1, Moved DEF OthersStay
  <2>3. sched.exists
    <3>1. SUFFICES ASSUME ~sched.exists PROVE FALSE
      BY <1>0 DEF ScheduleTyped, Scheds
    <3>2. PICK d \in Callers : At(d, "delete", "row")
      BY <2>1, <3>1 DEF Pairs, Doing
    <3>3. d # "cli" /\ caller'[d] = caller[d] /\ caller[d].at = "row" /\ caller[d].op = "delete"
      BY <2>1, <2>2, <3>2 DEF At, OthersStay
    <3>4. caller'[d] # Idle /\ caller'[d].op = "delete" /\ caller'["cli"] # Idle
      BY <2>2, <3>3 DEF Idle
    <3> QED BY <1>0, <3>3, <3>4 DEF Company, Alone
  <2> QED BY <1>0, <2>1, <2>2, <2>3, PairsMoved DEF At, WritesAt, Live, Writing
<1>4. CASE Repair
  <2>0. caller["cli"].at \notin {"row", "undo", "missing", "unreachable"} /\ ~RepairMissing
    BY <1>0, <1>4 DEF Repair, Describe, RepairMissing, RepairFlag, RepairSpec, At, Pairs
  <2>1. WritesAt("cli") /\ sched.exists /\ caller["cli"] # Idle
    BY <1>0, <1>4, <2>0 DEF Repair, Describe, RepairFlag, RepairSpec, At, WritesAt, Pairs, Idle
  <2>2. /\ caller'["cli"].at \in {"flag", "spec", "idle"} /\ OthersStay("cli") /\ UNCHANGED <<cycle, late>>
        /\ sched'.exists = sched.exists /\ (UNCHANGED config \/ Live')
    <3>1. CASE Describe
      <4>1. caller'["cli"].at = "flag" /\ OthersStay("cli")
        BY <1>0, <2>1, <3>1 DEF Describe, CallersTyped, OthersStay, Repairs, Commands
      <4> QED BY <3>1, <4>1 DEF Describe
    <3>2. CASE RepairFlag
      <4>1. UNCHANGED config \/ \E s \in {"active", "paused"} : config' = [config EXCEPT !.status = s]
        BY <3>2 DEF RepairFlag
      <4>2. UNCHANGED config \/ Live'
        BY <1>0, <4>1, StatusLives
      <4> QED BY <1>0, <2>1, <3>2, <4>2, GoesTo DEF RepairFlag
    <3>3. CASE RepairSpec
      <4>1. sched'.exists = sched.exists
        BY <1>0, <3>3 DEF RepairSpec, ScheduleTyped, Scheds
      <4> QED BY <1>0, <3>3, <4>1, GoesTo DEF RepairSpec
    <3> QED BY <1>4, <2>0, <3>1, <3>2, <3>3 DEF Repair
  <2> QED BY <1>0, <2>0, <2>1, <2>2, PairsMoved DEF At, Live, Writing
<1>5. ASSUME NEW c \in Callers, Step(c) PROVE Pairs'
  <2>0. caller[c].at # "undo" /\ ~Undo(c) /\ caller[c] # Idle
    BY <1>5 DEF Pairs, Step, CallCreate, CallPause, CallRun, CallUpdate, CallDelete, CallCancel, RowCreate,
       RowStatus, RowUpdate, RowDelete, RowNext, Mark, Undo, At, Idle
  <2>1. CASE \/ (CallCreate(c) /\ sched.exists) \/ CallPause(c, TRUE) \/ CallPause(c, FALSE) \/ CallRun(c)
             \/ CallUpdate(c) \/ (CallDelete(c) /\ ~sched.exists) \/ CallCancel(c) \/ RowNext(c) \/ Mark(c)
    <3>1. caller[c].at \in {"call", "next", "mark"} /\ UNCHANGED config
      BY <2>1 DEF CallCreate, CallPause, CallRun, CallUpdate, CallDelete, CallCancel, RowNext, Mark, At
    <3>2. Done(c) \/ (Goto(c, "row") /\ sched.exists /\ caller[c].op # "delete")
      BY <2>1 DEF CallCreate, CallPause, CallRun, CallUpdate, CallDelete, CallCancel, RowNext, Mark, At
    <3>3. /\ OthersStay(c) /\ caller'[c].at \in {"idle", "row"}
          /\ caller'[c].at = "row" => sched.exists /\ caller'[c].op # "delete"
      BY <1>0, <2>0, <3>2, GoesTo
    <3>4. sched'.exists = sched.exists
      BY <1>0, <2>1, ScheduleFields, MeaningKept
         DEF CallCreate, CallPause, CallRun, CallUpdate, CallDelete, CallCancel, RowNext, Mark, Start,
             ScheduleTyped, Scheds
    <3>5. Writing' => Writing
      <4>1. NewCycle.at = "start" /\ [cycle EXCEPT !.cancel = TRUE].at = cycle.at
        BY NewAt DEF Typed, CycleTyped, Cycles
      <4> QED BY <2>1, <4>1
         DEF CallCreate, CallPause, CallRun, CallUpdate, CallDelete, CallCancel, RowNext, Mark, Start, Writing
    <3> QED BY <3>1, <3>3, <3>4, <3>5, PairsMoved DEF At, WritesAt, Live
  <2>2. CASE RowCreate(c) \/ RowUpdate(c) \/ RowStatus(c, "pause", "paused") \/ RowStatus(c, "resume", "active")
    <3>1. /\ caller[c].at = "row" /\ caller[c].op # "delete" /\ WritesAt(c) /\ sched.exists
          /\ UNCHANGED <<sched, cycle, late>> /\ (Done(c) \/ Goto(c, "next") \/ Goto(c, "mark"))
      BY <2>2 DEF RowCreate, RowUpdate, RowStatus, At, WritesAt, Pairs
    <3>2. config'.status \in {"active", "paused"}
      <4>1. ASSUME RowCreate(c) PROVE config'.status = "active"
        BY <4>1 DEF RowCreate, FreshRow
      <4>2. ASSUME RowUpdate(c) PROVE config'.status = "active"
        BY <1>0, <4>2 DEF RowUpdate, RowTyped, Configs
      <4> QED BY <1>0, <2>2, <4>1, <4>2, RowFields DEF RowStatus
    <3>3. OthersStay(c) /\ caller'[c].at \in {"idle", "next", "mark"}
      BY <1>0, <2>0, <3>1, GoesTo
    <3> QED BY <3>1, <3>2, <3>3, PairsMoved DEF At, WritesAt, Live, Writing
  <2>3. CASE RowDelete(c)
    <3>1. At(c, "delete", "row") /\ ~sched.exists /\ UNCHANGED <<sched, cycle, late>> /\ Done(c)
      BY <2>3 DEF RowDelete, Pairs, Doing
    <3>2. ~Live'
      BY <1>0, <2>3, StatusLives DEF RowDelete
    <3>3. OthersStay(c) /\ caller'[c].at = "idle"
      BY <1>0, <3>1, GoesTo
    <3> QED BY <3>1, <3>2, <3>3, PairsMoved DEF At, WritesAt, Writing
  <2>4. CASE CallCreate(c) /\ ~sched.exists
    <3>1. /\ At(c, "create", "row")' /\ OthersStay(c) /\ sched'.exists
      BY <1>0, <2>4, CallersKnown DEF CallCreate, NewSched, At, OthersStay, CallersTyped, Commands
    <3>2. \A d \in Callers : ~At(d, "delete", "row")'
      <4>1. SUFFICES ASSUME NEW d \in Callers, At(d, "delete", "row")' PROVE FALSE
        OBVIOUS
      <4>2. d # c /\ caller'[d] # Idle /\ caller'[d].op = "delete" /\ caller'[c] # Idle
        BY <3>1, <4>1 DEF At, Idle
      <4> QED BY <4>2 DEF Company, Alone
    <3>3. \A d \in Callers : caller'[d].at \notin {"undo", "missing", "unreachable"}
      BY <3>1 DEF Pairs, At, OthersStay
    <3> QED BY <3>1, <3>2, <3>3 DEF Pairs, Doing
  <2>5. CASE CallDelete(c) /\ sched.exists
    <3>1. At(c, "delete", "call") /\ Goto(c, "row") /\ ~sched'.exists /\ UNCHANGED <<cycle, late, config>>
      BY <2>5, NewOnes DEF CallDelete
    <3>2. At(c, "delete", "row")' /\ OthersStay(c) /\ ~Pausing /\ \A d \in Callers \ {c} : caller'[d].at = "idle"
      BY <1>0, <2>0, <3>1, GoesTo DEF At, Company, Alone, OthersStay, Idle
    <3>3. (\A d \in Callers : caller'[d].at \notin {"undo", "missing", "unreachable"} /\ ~WritesAt(d)') /\ ~Writing'
      BY <3>1, <3>2 DEF At, WritesAt, Pausing, Writing
    <3> QED BY <3>1, <3>2, <3>3 DEF Pairs, Doing
  <2> QED BY <1>5, <2>0, <2>1, <2>2, <2>3, <2>4, <2>5 DEF Step
<1> QED BY <1>1, <1>2, <1>3, <1>4, <1>5, StepsApart

(* A command stays one, and a failure or a crash makes no repair.            *)
LEMMA StepMoves ==
    ASSUME CallersTyped, NEW c \in Callers, Step(c) \/ CallFails(c) \/ RowFails(c) \/ UndoFails(c)
    PROVE  caller[c] \in Commands /\ caller[c] # Idle /\ caller'[c] \notin Repairs /\ OthersStay(c)
<1>1. caller[c].at \in {"call", "row", "next", "mark", "undo"}
  BY DEF Step, CallCreate, CallPause, CallRun, CallUpdate, CallDelete, CallCancel, RowCreate,
     RowStatus, RowUpdate, RowDelete, RowNext, Mark, Undo, At, CallFails, RowFails, UndoFails
<1>2. caller[c] \in Commands /\ caller[c] # Idle
  BY <1>1, CallersKnown DEF Idle
<1>3. CASE CallCreate(c) /\ ~sched.exists
  BY <1>2, <1>3 DEF CallCreate, CallersTyped, OthersStay, Commands, Repairs
<1>4. ASSUME ~(CallCreate(c) /\ ~sched.exists) PROVE Done(c) \/ \E p \in {"row", "next", "mark", "undo"} : Goto(c, p)
  BY <1>4 DEF Step, CallCreate, CallPause, CallRun, CallUpdate, CallDelete, CallCancel, RowCreate,
     RowStatus, RowUpdate, RowDelete, RowNext, Mark, Undo, CallFails, RowFails, UndoFails
<1>5. CASE Done(c) \/ \E p \in {"row", "next", "mark", "undo"} : Goto(c, p)
  <2>1. OthersStay(c) /\ caller'[c].at \in {"idle", "row", "next", "mark", "undo"}
    BY <1>2, <1>5, GoesTo
  <2> QED BY <1>2, <2>1 DEF Repairs
<1> QED BY <1>2, <1>3, <1>4, <1>5

(* What a repair saw stays so while nobody else is at work.                  *)
LEMMA RepairingStep ==
    ASSUME Typed, Repairing, Company, Company', rivals = "none", rivals' = "none", Steps \/ UNCHANGED vars
    PROVE  Repairing'
<1> USE DEF cycleVars, cmdVars
<1> SUFFICES ASSUME caller'["cli"] \in Repairs PROVE Repairing'
  BY DEF Repairing
<1>0. /\ CallersTyped /\ ScheduleTyped /\ RowTyped /\ "cli" \in Callers /\ caller'["cli"] # Idle
      /\ "cli" \notin Handlers /\ Handlers \subseteq Callers
  BY HandlersAssumption DEF Typed, Callers, Repairs, Idle
<1>1. CASE CallersRest
  <2>1. /\ UNCHANGED caller /\ sched'.exists = sched.exists /\ sched'.spec = sched.spec
        /\ config'.words = config.words
        /\ PauseRow \/ LatePausesRow \/ config'.status = config.status
    BY <1>1, CallersResting
  <2>2. ~PauseRow /\ ~LatePausesRow
    BY <1>0, <2>1 DEF Company, Alone, Pausing, PauseRow, LatePausesRow
  <2> QED BY <2>1, <2>2 DEF Repairing
<1>2. ASSUME NEW c \in Callers, NEW op, NEW r, Given(c, op, r) PROVE FALSE
  <2>1. caller'[c].at = "call"
    BY <1>0, <1>2, GivenMoves
  <2>2. c # "cli" /\ caller'[c] # Idle
    BY <2>1 DEF Repairs, Idle
  <2> QED BY <1>0, <2>2 DEF Company, Alone
<1>3. CASE Reconcile
  <2>1. /\ caller'["cli"] = [at |-> "describe", op |-> "reconcile", row |-> config, saw |-> NoSched]
        /\ Live /\ UNCHANGED config
    BY <1>0, <1>3 DEF Reconcile, CallersTyped
  <2> QED BY <2>1 DEF Repairing, Live
<1>4. CASE Repair
  <2>0. caller["cli"] \in Repairs
    BY <1>0, <1>4, CallersKnown DEF Repair, Describe, RepairMissing, RepairFlag, RepairSpec, At
  <2>1. CASE Describe
    <3>1. /\ caller["cli"].at = "describe" /\ UNCHANGED <<config, sched>>
          /\ caller'["cli"].at = (IF sched.exists THEN "flag" ELSE "missing")
          /\ caller'["cli"].row = caller["cli"].row /\ caller'["cli"].saw = sched
      BY <1>0, <2>0, <2>1 DEF Describe, At, CallersTyped, Repairs
    <3> QED BY <2>0, <3>1 DEF Repairing
  <2>2. CASE RepairFlag
    <3>1. /\ caller["cli"].at = "flag" /\ caller["cli"] # Idle /\ UNCHANGED sched
          /\ caller'["cli"].at = "spec" /\ caller'["cli"].row = caller["cli"].row
          /\ caller'["cli"].saw = caller["cli"].saw
      BY <1>0, <2>0, <2>2, GoesTo DEF RepairFlag, At, Idle
    <3>2. /\ config.words = caller["cli"].row.words /\ config.status = caller["cli"].row.status
          /\ caller["cli"].row.status \notin {"none", "deleted"}
          /\ sched.exists /\ caller["cli"].saw.exists /\ sched.spec = caller["cli"].saw.spec
      BY <2>0, <3>1 DEF Repairing
    <3>3. caller["cli"].saw.paused \in BOOLEAN
      BY <2>0 DEF Repairs, Scheds
    <3>4. config'.words = config.words /\ (config'.status = "paused" <=> caller["cli"].saw.paused)
      <4>1. CASE caller["cli"].saw.paused # (caller["cli"].row.status = "paused")
        <5>1. CASE caller["cli"].saw.paused
          BY <1>0, <2>2, <4>1, <5>1, StatusLives DEF RepairFlag, Statuses
        <5>2. CASE ~caller["cli"].saw.paused
          BY <1>0, <2>2, <4>1, <5>2, StatusLives DEF RepairFlag, Statuses
        <5> QED BY <5>1, <5>2
      <4>2. CASE ~(caller["cli"].saw.paused # (caller["cli"].row.status = "paused"))
        BY <2>2, <3>2, <3>3, <4>2 DEF RepairFlag
      <4> QED BY <4>1, <4>2
    <3> QED BY <3>1, <3>2, <3>4 DEF Repairing
  <2>3. CASE RepairMissing \/ RepairSpec
    BY <1>0, <2>3, GoesTo DEF RepairMissing, RepairSpec
  <2> QED BY <1>4, <2>1, <2>2, <2>3 DEF Repair
<1>5. ASSUME NEW c \in Callers, Step(c) \/ CallFails(c) \/ RowFails(c) \/ UndoFails(c) PROVE FALSE
  <2>1. caller[c] # Idle /\ caller'[c] \notin Repairs /\ OthersStay(c)
    BY <1>0, <1>5, StepMoves
  <2>2. c # "cli" /\ caller["cli"] # Idle
    BY <1>0, <2>1 DEF OthersStay
  <2> QED BY <1>0, <2>1, <2>2 DEF Company, Alone
<1>6. ASSUME NEW P \in {Handlers, {"cli"}, {"worker"}}, Crash(P) PROVE FALSE
  <2>1. PICK c \in P : caller[c] # Idle
    BY <1>6 DEF Crash
  <2>2. caller'["cli"] = IF "cli" \in P THEN Idle ELSE caller["cli"]
    BY <1>0, <1>6 DEF Crash
  <2>3. "cli" \notin P /\ c \in Callers /\ c # "cli" /\ caller["cli"] # Idle
    BY <1>0, <2>1, <2>2 DEF Callers
  <2> QED BY <1>0, <2>1, <2>3 DEF Company, Alone
<1>7. CASE DescribeFails
  <2>1. /\ caller["cli"] \in Repairs /\ caller["cli"] # Idle /\ Goto("cli", "unreachable")
        /\ UNCHANGED <<config, sched>>
    BY <1>0, <1>7, CallersKnown DEF DescribeFails, At, Idle
  <2>2. caller'["cli"].at = "unreachable" /\ caller'["cli"].row = caller["cli"].row
    BY <1>0, <2>1, GoesTo
  <2> QED BY <2>1, <2>2 DEF Repairing
<1>8. ~RepairFails
  BY <1>0, GoesTo DEF RepairFails
<1>9. CASE RegisterFails
  BY <1>9 DEF RegisterFails, Repairing
<1>10. CASE PauseFails
  <2>1. UNCHANGED caller
    BY <1>10 DEF PauseFails
  <2> QED BY <1>0, <1>10, <2>1 DEF PauseFails, Company, Alone, Pausing
<1> QED BY <1>1, <1>2, <1>3, <1>4, <1>5, <1>6, <1>7, <1>8, <1>9, <1>10, StepsApart DEF Trouble

(* What the times are when only one caller is at work, or none.              *)
TimesOf(c) ==
    /\ At(c, "create", "call") => ~Live
    /\ At(c, "create", "row") \/ At(c, "update", "row") => sched.spec = SpecOf(caller[c].ask)
    /\ sched.exists /\ ~At(c, "create", "row") /\ ~At(c, "update", "row") => sched.spec = SpecOf(config.words)

LEMMA TimesAlone ==
    ASSUME Times, NEW c \in Callers, \A d \in Callers \ {c} : caller[d] = Idle
    PROVE  TimesOf(c)
<1>1. \A d \in Callers \ {c} : ~At(d, "create", "row") /\ ~At(d, "update", "row")
  BY DEF At, Idle
<1> QED BY <1>1 DEF Times, TimesOf, Doing

LEMMA TimesAgain ==
    ASSUME NEW c \in Callers, \A d \in Callers \ {c} : caller'[d] = Idle, TimesOf(c)'
    PROVE  Times'
<1>1. \A d \in Callers \ {c} : caller'[d].at = "idle"
  BY DEF Idle
<1> QED BY <1>1 DEF Times, TimesOf, Doing, At

(* One caller at a time keeps them the same.                                 *)
LEMMA TimesStep ==
    ASSUME Typed, Pairs, Repairing, Times, Company, Company', rivals = "none", rivals' = "none",
           Steps \/ UNCHANGED vars, ~Trouble
    PROVE  Times'
<1> USE DEF cycleVars, cmdVars
<1>0. /\ CallersTyped /\ ScheduleTyped /\ RowTyped /\ "cli" \in Callers
  BY DEF Typed, Callers
<1>1. ASSUME NEW c \in Callers, OthersStay(c), caller[c] # Idle \/ caller'[c] # Idle
      PROVE  /\ \A d \in Callers \ {c} : caller[d] = Idle /\ caller'[d] = Idle
             /\ TimesOf(c) /\ (TimesOf(c)' => Times')
  <2>1. \A d \in Callers \ {c} : caller[d] = Idle /\ caller'[d] = Idle
    BY <1>1 DEF Company, Alone, OthersStay
  <2> QED BY <2>1, TimesAlone, TimesAgain
<1>2. CASE CallersRest
  <2>1. /\ UNCHANGED caller /\ sched'.exists = sched.exists /\ sched'.spec = sched.spec
        /\ config'.words = config.words
        /\ PauseRow \/ LatePausesRow \/ config'.status = config.status
    BY <1>2, CallersResting
  <2>2. Doing("create", "call") => ~PauseRow /\ ~LatePausesRow
    <3>1. ASSUME Doing("create", "call") PROVE ~Pausing
      BY <3>1 DEF Doing, At, Idle, Company, Alone
    <3>2. PauseRow \/ LatePausesRow => Pausing
      BY DEF PauseRow, LatePausesRow, Pausing
    <3> QED BY <3>1, <3>2
  <2> QED BY <2>1, <2>2 DEF Times, Doing, At, Live
<1>3. ASSUME NEW c \in Callers, NEW op, NEW r, Given(c, op, r) PROVE Times'
  <2>1. /\ caller[c].at = "idle" /\ caller'[c].at = "call" /\ caller'[c].op = op /\ OthersStay(c)
        /\ UNCHANGED <<config, sched>> /\ (op = "create" <=> ~Live)
    BY <1>0, <1>3, GivenMoves DEF Given
  <2>2. TimesOf(c) /\ (TimesOf(c)' => Times')
    BY <1>1, <2>1 DEF Idle
  <2> QED BY <2>1, <2>2 DEF TimesOf, At, Live
<1>4. CASE Reconcile
  <2> DEFINE to == [at |-> "describe", op |-> "reconcile", row |-> config, saw |-> NoSched]
  <2>1. /\ Moves("cli", to) /\ to.at = "describe" /\ caller["cli"].at = "idle" /\ UNCHANGED <<config, sched>>
    BY <1>4 DEF Reconcile, Moves, Idle
  <2> HIDE DEF to
  <2>2. caller'["cli"].at = "describe" /\ OthersStay("cli")
    BY <1>0, <2>1, Moved DEF OthersStay
  <2>3. TimesOf("cli") /\ (TimesOf("cli")' => Times')
    BY <1>0, <1>1, <2>2 DEF Idle
  <2> QED BY <2>1, <2>2, <2>3 DEF TimesOf, At
<1>5. CASE Repair
  <2>0. caller["cli"].at \notin {"row", "undo", "missing", "unreachable"} /\ ~RepairMissing /\ caller["cli"] # Idle
    BY <1>0, <1>5 DEF Repair, Describe, RepairMissing, RepairFlag, RepairSpec, At, Pairs, Idle
  <2>1. /\ caller'["cli"].at \in {"flag", "spec", "idle"} /\ OthersStay("cli")
        /\ sched'.exists = sched.exists /\ config'.words = config.words
        /\ sched'.spec = sched.spec \/ sched'.spec = SpecOf(config.words)
    <3>1. CASE Describe
      <4>1. caller'["cli"].at \in {"flag", "missing"} /\ OthersStay("cli")
        BY <1>0, <2>0, <3>1 DEF Describe, CallersTyped, OthersStay, Repairs, Commands
      <4>2. caller'["cli"].at # "missing"
        BY <1>0, <2>0, <3>1 DEF Describe, At, WritesAt, Pairs, CallersTyped, Repairs, Commands
      <4> QED BY <3>1, <4>1, <4>2 DEF Describe
    <3>2. CASE RepairFlag
      <4>1. UNCHANGED config \/ \E s \in {"active", "paused"} : config' = [config EXCEPT !.status = s]
        BY <3>2 DEF RepairFlag
      <4>2. config'.words = config.words
        BY <4>1, StatusLives DEF Statuses
      <4> QED BY <1>0, <2>0, <3>2, <4>2, GoesTo DEF RepairFlag
    <3>3. CASE RepairSpec
      <4>1. caller["cli"] \in Repairs /\ caller["cli"].row.words = config.words
        BY <1>0, <3>3, CallersKnown DEF RepairSpec, At, Repairing
      <4>2. SpecOf(config.words) \in Specs \/ UNCHANGED sched
        BY <1>0, <4>1, MeaningKept DEF CallersTyped
      <4>3. /\ sched'.exists = sched.exists
            /\ sched'.spec = sched.spec \/ sched'.spec = SpecOf(config.words)
        BY <1>0, <3>3, <4>1, <4>2, ScheduleFields DEF RepairSpec
      <4> QED BY <1>0, <3>3, <4>3, GoesTo DEF RepairSpec
    <3> QED BY <1>5, <2>0, <3>1, <3>2, <3>3 DEF Repair
  <2>2. TimesOf("cli") /\ (TimesOf("cli")' => Times')
    BY <1>0, <1>1, <2>0, <2>1
  <2> QED BY <2>0, <2>1, <2>2 DEF TimesOf, At
<1>6. ASSUME NEW c \in Callers, Step(c) PROVE Times'
  <2>0. ~Undo(c)
    BY DEF Pairs, Undo
  <2>1. /\ caller[c] \in Commands /\ caller[c] # Idle /\ OthersStay(c)
        /\ TimesOf(c) /\ (TimesOf(c)' => Times')
        /\ \A d \in Callers \ {c} : caller[d] = Idle
    BY <1>0, <1>1, <1>6, StepMoves
  <2>2. ~(CallCreate(c) /\ sched.exists)
    <3>1. SUFFICES ASSUME CallCreate(c), sched.exists PROVE FALSE
      OBVIOUS
    <3>2. Doing("create", "row")
      BY <2>1, <3>1 DEF CallCreate, TimesOf, Pairs
    <3>3. PICK d \in Callers : At(d, "create", "row")
      BY <3>2 DEF Doing
    <3>4. d # c /\ caller[d] # Idle
      BY <3>1, <3>3 DEF CallCreate, At, Idle
    <3> QED BY <2>1, <3>4
  <2>3. CASE CallCreate(c) /\ ~sched.exists
    <3>1. caller'[c].at = "row" /\ caller'[c].ask = caller[c].ask /\ sched'.spec = SpecOf(caller[c].ask)
          /\ caller'[c].op = "create"
      BY <1>0, <2>1, <2>3 DEF CallCreate, At, NewSched, CallersTyped, Commands
    <3> QED BY <2>1, <3>1 DEF TimesOf, At
  <2>4. CASE CallUpdate(c)
    <3>1. CASE sched.exists
      <4>1. caller[c].ask \in Requests /\ caller[c].op = "update"
        BY <1>0, <2>1, <2>4 DEF CallUpdate, At, CallersTyped
      <4>2. sched'.spec = SpecOf(caller[c].ask)
        BY <1>0, <2>4, <3>1, <4>1, ScheduleFields, MeaningKept DEF CallUpdate
      <4>3. caller'[c].at = "row" /\ caller'[c].ask = caller[c].ask /\ caller'[c].op = "update"
        BY <1>0, <2>1, <2>4, <3>1, <4>1, GoesTo DEF CallUpdate
      <4> QED BY <2>1, <4>2, <4>3 DEF TimesOf, At
    <3>2. CASE ~sched.exists
      <4>1. ~sched'.exists /\ caller'[c].at = "idle"
        BY <1>0, <2>4, <3>2, GoesTo DEF CallUpdate
      <4> QED BY <2>1, <4>1 DEF TimesOf, At
    <3> QED BY <3>1, <3>2
  <2>5. CASE \/ CallPause(c, TRUE) \/ CallPause(c, FALSE) \/ CallRun(c) \/ CallDelete(c) \/ CallCancel(c)
             \/ RowNext(c) \/ Mark(c)
    <3>1. /\ caller[c].at \in {"call", "next", "mark"} /\ UNCHANGED config
          /\ (caller[c].op \in {"pause", "resume", "delete"} /\ Goto(c, "row")) \/ Done(c)
      BY <2>5 DEF CallPause, CallRun, CallDelete, CallCancel, RowNext, Mark, At
    <3>2. /\ caller'[c].at \in {"row", "idle"}
          /\ caller'[c].at = "row" => caller'[c].op \in {"pause", "resume", "delete"}
      BY <1>0, <2>1, <3>1, GoesTo
    <3>3. sched'.exists => sched'.spec = sched.spec /\ sched.exists
      BY <1>0, <2>5, ScheduleFields, NewOnes
         DEF CallPause, CallRun, CallDelete, CallCancel, RowNext, Mark, Start, ScheduleTyped, Scheds
    <3>4. sched'.exists => sched'.spec = SpecOf(config'.words)
      BY <2>1, <3>1, <3>3 DEF TimesOf, At
    <3> QED BY <2>1, <3>2, <3>4 DEF TimesOf, At
  <2>6. CASE RowCreate(c) \/ RowUpdate(c)
    <3>1. /\ caller[c].ask \in Requests /\ sched.spec = SpecOf(caller[c].ask) /\ UNCHANGED sched
          /\ Done(c) \/ Goto(c, "next") \/ Goto(c, "mark")
      BY <1>0, <2>1, <2>6 DEF RowCreate, RowUpdate, At, TimesOf, CallersTyped
    <3>2. config'.words = RowOf(caller[c].ask)
      <4>1. ASSUME RowUpdate(c) PROVE config'.words = RowOf(caller[c].ask)
        BY <1>0, <4>1 DEF RowUpdate, RowTyped, Configs
      <4> QED BY <2>6, <3>1, <4>1, NewOnes DEF RowCreate
    <3>3. caller'[c].at \in {"next", "mark", "idle"}
      BY <1>0, <2>1, <3>1, GoesTo
    <3>4. sched'.spec = SpecOf(config'.words)
      BY <3>1, <3>2, MeaningKept
    <3> QED BY <2>1, <3>3, <3>4 DEF TimesOf, At
  <2>7. CASE RowDelete(c) \/ RowStatus(c, "pause", "paused") \/ RowStatus(c, "resume", "active")
    <3>1. /\ UNCHANGED sched /\ Done(c) /\ caller[c].op \in {"delete", "pause", "resume"}
          /\ \E s \in Statuses : config' = [config EXCEPT !.status = s]
      BY <2>7 DEF RowDelete, RowStatus, At, Statuses
    <3>2. config'.words = config.words /\ caller'[c].at = "idle"
      BY <1>0, <3>1, StatusLives, GoesTo
    <3> QED BY <2>1, <3>1, <3>2 DEF TimesOf, At
  <2> QED BY <1>6, <2>0, <2>2, <2>3, <2>4, <2>5, <2>6, <2>7 DEF Step
<1> QED BY <1>2, <1>3, <1>4, <1>5, <1>6, StepsApart

(* What a pause is when only one caller is at work.                          *)
PausesOf(c) ==
    /\ At(c, "pause", "row") => sched.paused
    /\ At(c, "reconcile", "flag") /\ caller[c].saw.paused => sched.paused
    /\ config.status = "paused" /\ sched.exists => sched.paused \/ At(c, "resume", "row")

LEMMA PausesAlone ==
    ASSUME Pauses, NEW c \in Callers, \A d \in Callers \ {c} : caller[d] = Idle
    PROVE  PausesOf(c)
<1>1. \A d \in Callers \ {c} : ~At(d, "resume", "row")
  BY DEF At, Idle
<1> QED BY <1>1 DEF Pauses, PausesOf, Doing

LEMMA PausesAgain ==
    ASSUME NEW c \in Callers, \A d \in Callers \ {c} : caller'[d] = Idle, PausesOf(c)',
           ~Writing'
    PROVE  Pauses'
<1>1. \A d \in Callers \ {c} : caller'[d].at = "idle"
  BY DEF Idle
<1> QED BY <1>1 DEF Pauses, PausesOf, Doing, At

(* One caller at a time, or the cycle, shows only pauses there are.          *)
LEMMA PausesStep ==
    ASSUME Typed, Pairs, Times, Pauses, Company, Company', rivals = "none", rivals' = "none",
           Steps \/ UNCHANGED vars, ~Trouble
    PROVE  Pauses'
<1> USE DEF cycleVars, cmdVars
<1>0. /\ CallersTyped /\ ScheduleTyped /\ RowTyped /\ "cli" \in Callers
  BY DEF Typed, Callers
<1>1. ASSUME NEW c \in Callers, OthersStay(c), caller[c] # Idle \/ caller'[c] # Idle,
             UNCHANGED <<cycle, late>> \/ caller'[c] # Idle \/ ~Writing'
      PROVE  /\ \A d \in Callers \ {c} : caller[d] = Idle /\ caller'[d] = Idle
             /\ PausesOf(c) /\ (PausesOf(c)' => Pauses')
  <2>1. \A d \in Callers \ {c} : caller[d] = Idle /\ caller'[d] = Idle
    BY <1>1 DEF Company, Alone, OthersStay
  <2>2. ~Writing'
    BY <1>1 DEF Company, Alone, Pausing, Writing
  <2> QED BY <2>1, <2>2, PausesAlone, PausesAgain
<1>2. CASE CallersRest
  <2>1. /\ UNCHANGED caller /\ sched'.exists = sched.exists
        /\ PauseRow \/ LatePausesRow \/ config'.status = config.status
        /\ Writing' => Writing \/ (sched.exists /\ sched'.paused)
    BY <1>2, CallersResting
  <2>2. sched.paused => sched'.paused
    BY <1>2, PausedRests
  <2>3. PauseRow \/ LatePausesRow => sched'.paused
    BY <2>2 DEF PauseRow, LatePausesRow, Pauses, Writing
  <2> QED BY <2>1, <2>2, <2>3 DEF Pauses, Doing, At
<1>3. ASSUME NEW c \in Callers, NEW op, NEW r, Given(c, op, r) PROVE Pauses'
  <2>1. /\ caller[c].at = "idle" /\ caller'[c].at = "call" /\ OthersStay(c)
        /\ UNCHANGED <<config, sched, cycle, late>>
    BY <1>0, <1>3, GivenMoves
  <2>2. PausesOf(c) /\ (PausesOf(c)' => Pauses')
    BY <1>1, <2>1 DEF Idle
  <2> QED BY <2>1, <2>2 DEF PausesOf, At
<1>4. CASE Reconcile
  <2> DEFINE to == [at |-> "describe", op |-> "reconcile", row |-> config, saw |-> NoSched]
  <2>1. /\ Moves("cli", to) /\ to.at = "describe" /\ caller["cli"].at = "idle"
        /\ UNCHANGED <<config, sched, cycle, late>>
    BY <1>4 DEF Reconcile, Moves, Idle
  <2> HIDE DEF to
  <2>2. caller'["cli"].at = "describe" /\ OthersStay("cli")
    BY <1>0, <2>1, Moved DEF OthersStay
  <2>3. PausesOf("cli") /\ (PausesOf("cli")' => Pauses')
    BY <1>0, <1>1, <2>1, <2>2 DEF Idle
  <2> QED BY <2>1, <2>2, <2>3 DEF PausesOf, At
<1>5. CASE Repair
  <2>0. /\ caller["cli"].at \notin {"row", "undo", "missing", "unreachable"} /\ ~RepairMissing
        /\ caller["cli"] # Idle /\ caller["cli"] \in Repairs /\ UNCHANGED <<cycle, late>>
    BY <1>0, <1>5, CallersKnown
    DEF Repair, Describe, RepairMissing, RepairFlag, RepairSpec, At, Pairs, Idle
  <2>1. CASE Describe
    <3>1. /\ caller'["cli"].at \in {"flag", "missing"} /\ OthersStay("cli")
          /\ caller'["cli"].saw = sched /\ UNCHANGED <<config, sched>>
      BY <1>0, <2>0, <2>1 DEF Describe, CallersTyped, OthersStay, Repairs, Commands
    <3>2. PausesOf("cli") /\ (PausesOf("cli")' => Pauses')
      BY <1>0, <1>1, <2>0, <3>1
    <3> QED BY <2>0, <3>1, <3>2 DEF PausesOf, At
  <2>2. CASE RepairFlag
    <3>1. /\ At("cli", "reconcile", "flag") /\ UNCHANGED sched
          /\ caller'["cli"].at = "spec" /\ OthersStay("cli")
      BY <1>0, <2>0, <2>2, GoesTo DEF RepairFlag
    <3>2. PausesOf("cli") /\ (PausesOf("cli")' => Pauses')
      BY <1>0, <1>1, <2>0, <3>1
    <3>3. CASE UNCHANGED config
      BY <3>1, <3>2, <3>3 DEF PausesOf, At
    <3>4. CASE ~UNCHANGED config
      <4>1. config'.status = "paused" => caller["cli"].saw.paused
        <5>1. ASSUME ~caller["cli"].saw.paused PROVE config'.status = "active"
          <6>1. config' = [config EXCEPT !.status = "active"]
            BY <2>2, <3>4, <5>1 DEF RepairFlag
          <6> QED BY <1>0, <6>1, StatusLives DEF Statuses
        <5> QED BY <5>1
      <4> QED BY <3>1, <3>2, <4>1 DEF PausesOf, At
    <3> QED BY <3>3, <3>4
  <2>3. CASE RepairSpec
    <3>1. /\ caller'["cli"].at = "idle" /\ OthersStay("cli") /\ UNCHANGED config
          /\ At("cli", "reconcile", "spec")
      BY <1>0, <2>0, <2>3, GoesTo DEF RepairSpec
    <3>2. sched'.exists = sched.exists /\ sched'.paused = sched.paused
      BY <1>0, <2>3 DEF RepairSpec, ScheduleTyped, Scheds
    <3>3. PausesOf("cli") /\ (PausesOf("cli")' => Pauses')
      BY <1>0, <1>1, <2>0, <3>1
    <3> QED BY <3>1, <3>2, <3>3 DEF PausesOf, At
  <2> QED BY <1>5, <2>0, <2>1, <2>2, <2>3 DEF Repair
<1>6. ASSUME NEW c \in Callers, Step(c) PROVE Pauses'
  <2>0. ~Undo(c)
    BY DEF Pairs, Undo
  <2>1. /\ caller[c] \in Commands /\ caller[c] # Idle /\ OthersStay(c)
        /\ \A d \in Callers \ {c} : caller[d] = Idle
    BY <1>0, <1>6, StepMoves DEF Company, Alone
  <2>2. ~Writing'
    <3>1. cycle.at # "pauseRow" /\ late.at # "pauseRow"
      BY <2>1 DEF Company, Alone, Pausing
    <3>2. /\ NewCycle.at = "start"
          /\ [cycle EXCEPT !.cancel = TRUE].at = cycle.at
      BY NewAt DEF Typed, CycleTyped, Cycles
    <3> QED
      BY <1>6, <2>0, <3>1, <3>2
      DEF Step, CallCreate, CallPause, CallRun, CallUpdate, CallDelete, CallCancel, RowCreate,
          RowStatus, RowUpdate, RowDelete, RowNext, Mark, Start, Writing
  <2>3. PausesOf(c) /\ (PausesOf(c)' => Pauses')
    BY <1>1, <2>1, <2>2
  <2>4. CASE CallCreate(c)
    <3>1. config.status # "paused" /\ UNCHANGED config
      BY <2>4 DEF CallCreate, Times, Doing, Live
    <3>2. At(c, "create", "call")
      BY <2>4 DEF CallCreate
    <3>3. caller'[c].at \in {"row", "idle"} /\ (caller'[c].at = "row" => caller'[c].op = "create")
      <4>1. CASE sched.exists
        BY <1>0, <2>1, <2>4, <3>2, <4>1, GoesTo DEF CallCreate, At
      <4>2. CASE ~sched.exists
        BY <1>0, <2>1, <2>4, <3>2, <4>2 DEF CallCreate, CallersTyped, Commands, At
      <4> QED BY <4>1, <4>2
    <3> QED BY <2>3, <3>1, <3>3 DEF PausesOf, At
  <2>5. ASSUME NEW p \in BOOLEAN, CallPause(c, p) PROVE Pauses'
    <3>1. CASE sched.exists
      <4>1. /\ caller'[c].at = "row" /\ caller'[c].op = (IF p THEN "pause" ELSE "resume")
            /\ sched' = [sched EXCEPT !.paused = p]
        BY <1>0, <2>1, <2>5, <3>1, GoesTo DEF CallPause, At
      <4>2. sched'.paused = p
        BY <1>0, <4>1, ScheduleFields
      <4> QED BY <2>3, <4>1, <4>2 DEF PausesOf, At
    <3>2. CASE ~sched.exists
      <4>1. UNCHANGED sched /\ caller'[c].at = "idle"
        BY <1>0, <2>5, <3>2, GoesTo DEF CallPause
      <4> QED BY <2>3, <3>2, <4>1 DEF PausesOf, At
    <3> QED BY <3>1, <3>2
  <2>6. CASE CallRun(c) \/ CallUpdate(c) \/ CallDelete(c) \/ CallCancel(c) \/ RowNext(c) \/ Mark(c)
    <3>1. /\ caller[c].at \in {"call", "next", "mark"} /\ UNCHANGED config
          /\ (caller[c].op \in {"update", "delete"} /\ Goto(c, "row")) \/ Done(c)
      BY <2>6 DEF CallRun, CallUpdate, CallDelete, CallCancel, RowNext, Mark, At
    <3>2. /\ caller'[c].at \in {"row", "idle"}
          /\ caller'[c].at = "row" => caller'[c].op \in {"update", "delete"}
      BY <1>0, <2>1, <3>1, GoesTo
    <3>3. sched'.exists => sched'.paused = sched.paused /\ sched.exists
      <4>1. CASE CallUpdate(c)
        BY <1>0, <4>1 DEF CallUpdate, ScheduleTyped, Scheds
      <4>2. CASE ~CallUpdate(c)
        BY <1>0, <2>6, <4>2, ScheduleFields, NewOnes
           DEF CallRun, CallDelete, CallCancel, RowNext, Mark, Start, ScheduleTyped, Scheds
      <4> QED BY <4>1, <4>2
    <3> QED BY <2>3, <3>1, <3>2, <3>3 DEF PausesOf, At
  <2>7. CASE \/ RowCreate(c) \/ RowUpdate(c) \/ RowDelete(c)
             \/ RowStatus(c, "pause", "paused") \/ RowStatus(c, "resume", "active")
    <3>1. UNCHANGED sched /\ (Done(c) \/ Goto(c, "next") \/ Goto(c, "mark"))
      BY <2>7 DEF RowCreate, RowUpdate, RowDelete, RowStatus
    <3>2. caller'[c].at \in {"next", "mark", "idle"}
      BY <1>0, <2>1, <3>1, GoesTo
    <3>3. config'.status = "paused" => At(c, "pause", "row")
      <4>1. ASSUME RowCreate(c) PROVE config'.status = "active"
        BY <4>1 DEF RowCreate, FreshRow
      <4>2. ASSUME RowUpdate(c) PROVE config'.status = "active"
        BY <1>0, <4>2 DEF RowUpdate, RowTyped, Configs
      <4>3. ASSUME RowDelete(c) PROVE config'.status = "deleted"
        BY <1>0, <4>3, StatusLives DEF RowDelete, Statuses
      <4>4. ASSUME RowStatus(c, "resume", "active") PROVE config'.status = "active"
        BY <1>0, <4>4, StatusLives DEF RowStatus, Statuses
      <4> QED BY <2>7, <4>1, <4>2, <4>3, <4>4 DEF RowStatus
    <3> QED BY <2>3, <3>1, <3>2, <3>3 DEF PausesOf, At
  <2>8. CASE CallPause(c, TRUE) \/ CallPause(c, FALSE)
    <3>1. CASE CallPause(c, TRUE)
      BY <2>5, <3>1
    <3>2. CASE CallPause(c, FALSE)
      BY <2>5, <3>2
    <3> QED BY <2>8, <3>1, <3>2
  <2> QED BY <1>6, <2>0, <2>4, <2>6, <2>7, <2>8 DEF Step
<1> QED BY <1>2, <1>3, <1>4, <1>5, <1>6, StepsApart

-----------------------------------------------------------------------------
LEMMA InitAgrees == Init => Watched /\ Seen /\ BothOrNeither /\ SameTimes /\ SamePauses
<1> SUFFICES ASSUME Init PROVE Watched /\ Seen /\ BothOrNeither /\ SameTimes /\ SamePauses
  OBVIOUS
<1>1. /\ \A c \in Callers : caller[c] = Idle /\ caller[c].at = "idle"
      /\ config.status = "none" /\ ~sched.exists /\ cycle.at = "none" /\ "cli" \in Callers
      /\ rivals = "none" /\ late.at = "none"
  BY DEF Init, Idle, NoSched, NoCycle, NoLate, Callers
<1>2. Watched
  <2>1. Busy = {} /\ ~Pausing
    BY <1>1 DEF Busy, Pausing
  <2>2. Cardinality(Busy) + (IF Pausing THEN 1 ELSE 0) < 2
    BY <2>1, FS_EmptySet
  <2>3. Rivals = "none"
    BY <2>2 DEF Rivals
  <2> QED BY <1>1, <2>3 DEF Watched
<1>3. Seen
  BY <1>1 DEF Seen, Repairing, Repairs
<1>4. BothOrNeither
  BY <1>1 DEF BothOrNeither, Pairs, Doing, At, WritesAt, Live, Writing
<1>5. SameTimes
  BY <1>1 DEF SameTimes, Times, Doing, At
<1>6. SamePauses
  BY <1>1 DEF SamePauses, Pauses, Doing, At, Writing
<1> QED BY <1>2, <1>3, <1>4, <1>5, <1>6

LEMMA InductiveStep == ASSUME IInv, [Next]_vars PROVE IInv'
<1>0. Steps \/ UNCHANGED vars
  BY DEF Next
<1>1. Typed' /\ CycleInv' /\ Typed
  BY <1>0, TypedStep, CycleInvStep DEF IInv
<1>2. /\ Watched' /\ Company /\ Company'
      /\ rivals' = "none" => rivals = "none"
      /\ rivals' # "delete" => rivals # "delete"
  BY WatchKept DEF IInv
<1>3. faults' = 0 => faults = 0 /\ ~Trouble
  BY <1>0, <1>1, TroublesCounted
<1>4. Seen'
  BY <1>0, <1>1, <1>2, RepairingStep DEF IInv, Seen
<1>5. BothOrNeither'
  BY <1>0, <1>1, <1>2, <1>3, PairsStep DEF IInv, BothOrNeither
<1>6. SameTimes'
  <2>1. ASSUME faults' = 0, rivals' = "none" PROVE Times'
    <3>1. Pairs /\ Repairing /\ Times /\ rivals = "none" /\ ~Trouble
      BY <1>2, <1>3, <2>1 DEF IInv, Seen, BothOrNeither, SameTimes
    <3> QED BY <1>0, <1>1, <1>2, <2>1, <3>1, TimesStep
  <2> QED BY <2>1 DEF SameTimes
<1>7. SamePauses'
  <2>1. ASSUME faults' = 0, rivals' = "none" PROVE Pauses'
    <3>1. Pairs /\ Times /\ Pauses /\ rivals = "none" /\ ~Trouble
      BY <1>2, <1>3, <2>1 DEF IInv, BothOrNeither, SameTimes, SamePauses
    <3> QED BY <1>0, <1>1, <1>2, <2>1, <3>1, PausesStep
  <2> QED BY <2>1 DEF SamePauses
<1> QED BY <1>1, <1>2, <1>4, <1>5, <1>6, <1>7 DEF IInv

LEMMA Invariance == Spec => []IInv
<1>1. Init => IInv
  BY InitTyped, InitAgrees DEF IInv
<1>2. IInv /\ [Next]_vars => IInv'
  BY InductiveStep
<1> QED BY <1>1, <1>2, PTL DEF Spec

(* So they do for the requests a run compares, whichever these are.           *)
THEOREM ConversionsAlwaysAgree == Spec => []ConversionsAgree
<1>1. ConversionsAgree
  BY ComparedAssumption, ConversionsLoseNothing DEF ConversionsAgree, ComparedMean, WordsMean
<1> QED BY <1>1, PTL

(* Whatever the chat, the command line and the registration ask of a monitor, *)
(* for any number of event workers and commands: once all have finished and   *)
(* no call failed, its schedule is there exactly when its row is, unless a    *)
(* delete overlapped another command; unless commands overlapped, it runs at  *)
(* the times of the row, and not at all when the row shows it as paused.      *)
THEOREM StoresStayEqual == Spec => []StoresAgree
<1>1. IInv => StoresAgree
  <2> SUFFICES ASSUME IInv, Quiet PROVE StoresAgree
    BY DEF StoresAgree
  <2>1. \A c \in Callers : \A op, p : p # "idle" => ~At(c, op, p)
    BY DEF Quiet, Busy, At, Idle
  <2>2. ASSUME rivals # "delete" PROVE Live <=> sched.exists
    <3>1. Pairs
      BY <2>2 DEF IInv, BothOrNeither, Quiet
    <3> QED BY <2>1, <3>1 DEF Pairs, Doing
  <2>3. ASSUME rivals = "none", sched.exists PROVE sched.spec = SpecOf(config.words)
    <3>1. Times
      BY <2>3 DEF IInv, SameTimes, Quiet
    <3> QED BY <2>1, <2>3, <3>1 DEF Times, Doing
  <2>4. ASSUME rivals = "none", config.status = "paused" PROVE sched.paused
    <3>1. Pauses /\ Pairs
      BY <2>4 DEF IInv, SamePauses, BothOrNeither, Quiet
    <3>2. sched.exists
      BY <2>1, <2>4, <3>1 DEF Pairs, Doing, Live
    <3> QED BY <2>1, <2>4, <3>1, <3>2 DEF Pauses, Doing
  <2> QED BY <2>2, <2>3, <2>4 DEF StoresAgree
<1> QED BY <1>1, Invariance, PTL

(* monitor reconcile --repair leaves the row paused exactly when the schedule *)
(* is, and the schedule running at the times of the row, when nobody else is  *)
(* at work: the words _spec_summary makes of a schedule that are those of the *)
(* row mean the schedule, so that nothing is left to repair.  The row it marks *)
(* as not registered has no schedule, unless the description failed.         *)
THEOREM RepairsAgree == Spec => RepairAgrees
<1> DEFINE step == \A me \in {caller["cli"]} :
        (RepairEnds(me) /\ caller'["cli"] = Idle /\ rivals' = "none" /\ faults' = faults)
        => \/ /\ sched'.exists /\ ((config'.status = "paused") <=> sched'.paused)
              /\ sched'.spec = SpecOf(config'.words)
           \/ /\ config'.status = "registration_failed"
              /\ ~sched'.exists \/ me.at = "unreachable"
<1>1. ASSUME IInv, [Next]_vars PROVE [step]_vars
  <2> SUFFICES ASSUME IInv, Steps, rivals' = "none", faults' = faults, RepairEnds(caller["cli"]),
                      caller'["cli"] = Idle, Company, rivals = "none"
               PROVE  \/ /\ sched'.exists /\ ((config'.status = "paused") <=> sched'.paused)
                         /\ sched'.spec = SpecOf(config'.words)
                      \/ /\ config'.status = "registration_failed"
                         /\ ~sched'.exists \/ caller["cli"].at = "unreachable"
    <3>1. CASE UNCHANGED vars
      BY <3>1 DEF vars
    <3>2. CASE Steps
      BY <3>2, <1>1, WatchKept DEF IInv
    <3> QED BY <1>1, <3>1, <3>2 DEF Next
  <2>0. /\ Typed /\ CallersTyped /\ ScheduleTyped /\ RowTyped /\ "cli" \in Callers /\ faults \in Nat /\ Repairing
    BY DEF IInv, Typed, Callers, Seen
  <2>1. caller["cli"] \in Repairs /\ caller["cli"] # Idle
    BY <2>0, CallersKnown DEF Idle, RepairEnds
  <2>2. ~Trouble
    <3>1. ASSUME Trouble PROVE faults' = faults + 1
      BY <3>1 DEF Trouble, CallFails, RowFails, UndoFails, Crash, RegisterFails, DescribeFails,
                  RepairFails, PauseFails, Failing
    <3> QED BY <2>0, <3>1
  <2>3. ~CallersRest
    BY <2>0, <2>1, CallersResting
  <2>4. ASSUME NEW c \in Callers, NEW op, NEW r, Given(c, op, r) PROVE FALSE
    <3>1. caller[c] = Idle /\ caller'[c].at = "call" /\ OthersStay(c)
      BY <2>0, <2>4, GivenMoves DEF Given
    <3> QED BY <2>0, <2>1, <3>1 DEF OthersStay
  <2>5. ~Reconcile
    BY <2>1 DEF Reconcile
  <2>6. ASSUME NEW c \in Callers, Step(c) PROVE FALSE
    <3>1. caller[c] \in Commands /\ caller[c] # Idle
      BY <2>0, <2>6, StepMoves
    <3>2. c # "cli"
      BY <2>1, <3>1 DEF Commands, Repairs
    <3> QED BY <2>0, <2>1, <3>1, <3>2 DEF Company, Alone
  <2>11. CASE caller["cli"].at \in {"missing", "unreachable"}
    <3>1. RepairMissing
      BY <2>2, <2>3, <2>4, <2>5, <2>6, <2>11, StepsApart DEF Repair, Describe, RepairFlag, RepairSpec, At
    <3>2. UNCHANGED sched /\ config'.status = "registration_failed"
      BY <2>0, <3>1, StatusLives DEF RepairMissing, Statuses
    <3>3. caller["cli"].at = "missing" => ~sched.exists
      BY <2>0, <2>1 DEF Repairing
    <3> QED BY <2>11, <3>2, <3>3
  <2> SUFFICES ASSUME caller["cli"].at = "spec", sched.paused = caller["cli"].saw.paused
               PROVE  /\ sched'.exists /\ ((config'.status = "paused") <=> sched'.paused)
                      /\ sched'.spec = SpecOf(config'.words)
    BY <2>11 DEF RepairEnds
  <2>7. RepairSpec
    BY <2>2, <2>3, <2>4, <2>5, <2>6, StepsApart DEF Repair, Describe, RepairMissing, RepairFlag, At
  <2> DEFINE row == caller["cli"].row
             saw == caller["cli"].saw
  <2>8. /\ config.words = row.words /\ sched.exists /\ sched.spec = saw.spec /\ saw.exists
        /\ (config.status = "paused") <=> saw.paused
        /\ row.words \in Rows /\ saw.spec \in Specs /\ UNCHANGED config
    BY <2>0, <2>1, <2>7 DEF Repairing, CallersTyped, ScheduleTyped, RepairSpec
  <2>9. CASE Differs(row.words, saw.spec)
    <3>1. sched' = [sched EXCEPT !.spec = SpecOf(row.words)] /\ SpecOf(row.words) \in Specs
      BY <2>7, <2>8, <2>9, MeaningKept DEF RepairSpec
    <3>2. sched'.spec = SpecOf(row.words) /\ sched'.paused = sched.paused /\ sched'.exists
      BY <2>0, <2>8, <3>1, ScheduleFields
    <3> QED BY <2>8, <3>2
  <2>10. CASE ~Differs(row.words, saw.spec)
    <3>1. SpecOf(row.words) = saw.spec /\ UNCHANGED sched
      BY <2>7, <2>8, <2>10, MeaningKept DEF RepairSpec, Differs
    <3> QED BY <2>8, <3>1
  <2> QED BY <2>9, <2>10
<1>2. IInv /\ [Next]_vars => [step]_vars
  BY <1>1
<1> HIDE DEF step
<1>3. Spec => [][step]_vars
  BY <1>2, Invariance, PTL DEF Spec
<1> QED BY <1>3 DEF RepairAgrees, step
=============================================================================
