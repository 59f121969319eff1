--------------------------- MODULE ScheduleSpecs ---------------------------
(***************************************************************************)
(* What the words after /monitor create mean (temporal/monitoring.py): the  *)
(* parser, the Temporal schedule spec it makes, what is stored of it in     *)
(* monitoring_configs, and the way back from a spec to the stored words     *)
(* (_spec_summary) that monitor reconcile compares with.                    *)
(*                                                                         *)
(* Splitting text into words is left out: a request is a record.  A clock   *)
(* word is [h, min, half], half being "am", "pm" or "".                     *)
(***************************************************************************)
EXTENDS Naturals

CONSTANTS DefaultZone,   \* settings.monitor_default_timezone
          MinMinutes     \* settings.monitor_min_interval_minutes

Zones == {DefaultZone, "UTC"}

(* WEEKDAYS: two words for each day; the summary writes the short one. *)
Short == <<"mon", "tue", "wed", "thu", "fri", "sat">>
Long == <<"monday", "tuesday", "wednesday", "thursday", "friday", "saturday">>
DayNames == {"sun", "sunday"} \union {Short[d] : d \in 1..6} \union {Long[d] : d \in 1..6}
WeekDay(name) ==
    IF name \in {"sun", "sunday"} THEN 0
    ELSE CHOOSE d \in 1..6 : name \in {Short[d], Long[d]}
ShortName(d) == IF d = 0 THEN "sun" ELSE Short[d]

Minutes(n, unit) == CASE unit = "m" -> n [] unit = "h" -> 60 * n [] unit = "d" -> 1440 * n

Hour24(clock) ==
    CASE clock.half = "pm" /\ clock.h < 12 -> clock.h + 12
      [] clock.half = "am" /\ clock.h = 12 -> 0
      [] OTHER -> clock.h

(* _parse_time_and_timezone *)
ClockLegal(clock) ==
    /\ clock.half # "" => clock.h \in 1..12
    /\ Hour24(clock) <= 23 /\ clock.min <= 59

(* A request: [kind |-> "every", n, unit], [kind |-> "daily", clock, zone]   *)
(* or [kind |-> "weekly", day, clock, zone].  A bare clock word is a daily.  *)
Legal(r) ==
    CASE r.kind = "every" -> r.n > 0 /\ Minutes(r.n, r.unit) >= MinMinutes
      [] r.kind = "daily" -> ClockLegal(r.clock) /\ r.zone \in Zones
      [] r.kind = "weekly" -> r.day \in DayNames /\ ClockLegal(r.clock) /\ r.zone \in Zones

Clocks == [h : Nat, min : Nat, half : {"am", "pm", ""}]
Words == [kind : {"every"}, n : Nat, unit : {"m", "h", "d"}]
         \union [kind : {"daily"}, clock : Clocks, zone : STRING]
         \union [kind : {"weekly"}, day : DayNames, clock : Clocks, zone : STRING]

(* MonitoringScheduler.parse: the ScheduleSpec Temporal gets.  An interval   *)
(* has no zone of its own.                                                   *)
SpecOf(r) ==
    CASE r.kind = "every" -> [every |-> Minutes(r.n, r.unit)]
      [] r.kind = "daily" -> [hour |-> Hour24(r.clock), min |-> r.clock.min, zone |-> r.zone]
      [] r.kind = "weekly" -> [day |-> WeekDay(r.day), hour |-> Hour24(r.clock),
                               min |-> r.clock.min, zone |-> r.zone]

Clock(spec) == [h |-> spec.hour, min |-> spec.min, half |-> ""]

(* ... and the kind, value and timezone the row keeps: the words of an       *)
(* interval and of a day as they came, the time in 24 hours.  reconcile and  *)
(* the registration activity parse these words again.                        *)
RowOf(r) ==
    IF r.kind = "every" THEN r ELSE [r EXCEPT !.clock = Clock(SpecOf(r))]

(* Mutant of Summary: 90 minutes are an hour. *)
SummaryWholeHours(spec) ==
    CASE "every" \in DOMAIN spec -> [kind |-> "every", n |-> spec.every \div 60, unit |-> "h"]
      [] "day" \in DOMAIN spec -> [kind |-> "weekly", day |-> ShortName(spec.day),
                                   clock |-> Clock(spec), zone |-> spec.zone]
      [] OTHER -> [kind |-> "daily", clock |-> Clock(spec), zone |-> spec.zone]

(* _spec_summary *)
Summary(spec) ==
    CASE "every" \in DOMAIN spec ->
            IF spec.every % 60 = 0
            THEN [kind |-> "every", n |-> spec.every \div 60, unit |-> "h"]
            ELSE [kind |-> "every", n |-> spec.every, unit |-> "m"]
      [] "day" \in DOMAIN spec -> [kind |-> "weekly", day |-> ShortName(spec.day),
                                   clock |-> Clock(spec), zone |-> spec.zone]
      [] OTHER -> [kind |-> "daily", clock |-> Clock(spec), zone |-> spec.zone]
=============================================================================
