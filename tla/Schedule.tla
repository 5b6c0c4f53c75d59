------------------------------ MODULE Schedule ------------------------------
(***************************************************************************)
(* When the next workflow of a ScheduledWorkflow is due.                   *)
(*                                                                         *)
(* The pure part of the ScheduledWorkflow controller: the periodic and the *)
(* cron schedule, with and without catch-up, the one-off schedule, and the *)
(* clamped limits of the specification.  Times are epoch seconds.          *)
(***************************************************************************)
EXTENDS Integers, FiniteSetsExt

(* A nil *metav1.Time or *int64.                                           *)
Nil == -1

(* math.MaxInt64 and maxTime.Unix(): both mean "no next schedule".  A model *)
(* takes any number later than every time it reaches.                      *)
CONSTANT Never

ASSUME NeverAssumption == Never \in Nat \ {0}

(* A trigger: its kind; StartTime and EndTime, each possibly Nil; for a    *)
(* periodic trigger its interval; for a cron trigger the period after      *)
(* which its pattern repeats and the offsets in the period that match.     *)
Kinds == {"periodic", "cron", "oneoff"}

(* The triggers the API server accepts: an interval is not negative, and   *)
(* some time satisfies a cron expression.                                  *)
IsTrigger(s) ==
    /\ s.kind \in Kinds
    /\ {s.start, s.end} \subseteq Nat \cup {Nil}
    /\ s.kind = "periodic" => s.interval \in Nat
    /\ s.kind = "cron" => /\ s.period \in Nat \ {0}
                          /\ s.offsets \subseteq 0..(s.period - 1)
                          /\ s.offsets # {}

Latest(a, b) == IF a > b THEN a ELSE b
Earliest(a, b) == IF a < b THEN a ELSE b

-----------------------------------------------------------------------------
(* Periodic schedules.                                                     *)

getInterval(s) == IF s.interval = 0 THEN 1 ELSE s.interval

(* The time from which the next one is counted: the last trigger, else the *)
(* start time, else the creation of the resource.                          *)
EffectiveLast(s, last, creation) ==
    IF last # Nil THEN last
    ELSE IF s.start # Nil THEN s.start
    ELSE creation

(* Mutant: the end of the window excluded.                                 *)
PeriodicNextEndExcluded(s, last, creation) ==
    LET result == EffectiveLast(s, last, creation) + getInterval(s)
    IN  IF s.end # Nil /\ s.end <= result THEN Never ELSE result

PeriodicNext(s, last, creation) ==
    LET from == EffectiveLast(s, last, creation)
        result == from + getInterval(s)
    IN  IF s.start # Nil /\ s.start > from THEN s.start
        ELSE IF s.end # Nil /\ s.end < result THEN Never
        ELSE result

(* Mutant: a schedule exactly one period late counts as caught up.         *)
PeriodicNoCatchupOffByOne(s, last, creation, nowEpoch) ==
    LET next == PeriodicNext(s, last, creation)
    IN  IF next # Never /\ nowEpoch > next + getInterval(s)
        THEN IF s.end # Nil /\ s.end < nowEpoch THEN s.end ELSE nowEpoch
        ELSE next

PeriodicNextNoCatchup(s, last, creation, nowEpoch) ==
    LET next == PeriodicNext(s, last, creation)
    IN  IF next # Never /\ nowEpoch >= next + getInterval(s)
        THEN IF s.end # Nil /\ s.end < nowEpoch THEN s.end ELSE nowEpoch
        ELSE next

-----------------------------------------------------------------------------
(* Cron schedules.                                                         *)

(* schedule.Next of robfig/cron for an expression some time satisfies: the *)
(* first matching time after t.                                            *)
CronNext(s, t) ==
    Min({u \in (t + 1)..(t + s.period) : u % s.period \in s.offsets})

CronFirst(s, last, creation) ==
    CronNext(s, Latest(EffectiveLast(s, last, creation),
                       IF s.start # Nil THEN s.start ELSE 0))

CronEnd(s) == IF s.end # Nil THEN s.end ELSE Never

(* Mutant: the end of the window is not looked at.                         *)
CronNextScheduledNoEnd(s, last, creation) == CronFirst(s, last, creation)

CronNextScheduled(s, last, creation) ==
    LET result == CronFirst(s, last, creation)
    IN  IF CronEnd(s) < result THEN Never ELSE result

(* Without catch-up, the loop that steps over the matching times that have *)
(* already passed.                                                         *)
CronNextScheduledNoCatchup(s, last, creation, nowEpoch) ==
    LET result == CronNextScheduled(s, last, creation)
        skip[next \in Nat] ==
            LET nextNext == CronNext(s, next)
            IN  IF nextNext <= nowEpoch /\ nextNext <= CronEnd(s)
                THEN skip[nextNext]
                ELSE next
    IN  IF result = Never THEN Never ELSE skip[result]

-----------------------------------------------------------------------------
(* Any schedule.                                                           *)

OneOffNext(last, creation) == IF last # Nil THEN Never ELSE creation

getNextScheduledEpoch(s, noCatchup, last, creation, nowEpoch) ==
    CASE s.kind = "periodic" /\ ~noCatchup -> PeriodicNext(s, last, creation)
      [] s.kind = "periodic" /\ noCatchup ->
            PeriodicNextNoCatchup(s, last, creation, nowEpoch)
      [] s.kind = "cron" /\ ~noCatchup -> CronNextScheduled(s, last, creation)
      [] s.kind = "cron" /\ noCatchup ->
            CronNextScheduledNoCatchup(s, last, creation, nowEpoch)
      [] s.kind = "oneoff" -> OneOffNext(last, creation)

(* The limits of the specification: a default for nil, then clamped.       *)
Clamp(value, default, low, high) ==
    IF value = Nil THEN default ELSE Latest(low, Earliest(value, high))

maxConcurrency(value) == Clamp(value, 1, 1, 10)
maxHistory(value) == Clamp(value, 10, 0, 100)

(* The workflows of the history have an index greater than this.           *)
MinIndex(lastIndex, value) == Latest(0, lastIndex - maxHistory(value))

=============================================================================
