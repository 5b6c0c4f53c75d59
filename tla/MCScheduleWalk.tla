--------------------------- MODULE MCScheduleWalk ---------------------------
(* Small triggers for ScheduleWalk: every kind, with and without a start   *)
(* and an end, an interval of zero, and windows that end on a slot, between *)
(* two slots and before the first one.                                     *)
EXTENDS ScheduleWalk

Times == {Nil, 2, 5, 6}

MCTriggers ==
    [kind : {"periodic"}, start : {Nil, 3}, end : Times, interval : {0, 2, 3}]
    \cup [kind : {"cron"}, start : {Nil, 3}, end : Times, period : {4},
          offsets : {{0}, {1, 3}}]
    \cup [kind : {"oneoff"}, start : {Nil}, end : {Nil}]

MCCreations == {0, 1}
=============================================================================
