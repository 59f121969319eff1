------------------------- MODULE MCMonitorSchedule -------------------------
(* Model-checking instance of MonitorSchedule: two requests, one of them an  *)
(* interval the summary writes in another unit; and every request over a     *)
(* few clocks, days and intervals for the conversions.                       *)
EXTENDS MonitorSchedule

Daily9 == [kind |-> "daily", clock |-> [h |-> 9, min |-> 0, half |-> "pm"], zone |-> "Asia/Shanghai"]
EveryDay == [kind |-> "every", n |-> 1, unit |-> "d"]
TwoRequests == {Daily9, EveryDay}

SomeClocks == [h : {0, 1, 9, 11, 12, 13, 23, 24}, min : {0, 59, 60}, half : {"am", "pm", ""}]
AllRequests ==
    [kind : {"every"}, n : 0..150, unit : {"m", "h", "d"}]
    \union [kind : {"daily"}, clock : SomeClocks, zone : Zones]
    \union [kind : {"weekly"}, day : DayNames, clock : SomeClocks, zone : Zones]
=============================================================================
