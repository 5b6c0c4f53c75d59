-------------------------- MODULE MCSwfController ---------------------------
(* Instances of SwfController: a schedule every second and a one-off       *)
(* schedule.  Cron patterns and windows are explored by ScheduleWalk.      *)
EXTENDS SwfController, TLC

EverySecond == [kind |-> "periodic", start |-> Nil, end |-> Nil, interval |-> 1]

Symmetry == Permutations(WfIds) \cup Permutations(Calls)
=============================================================================
