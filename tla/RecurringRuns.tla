--------------------------- MODULE RecurringRuns ----------------------------
(***************************************************************************)
(* What a ScheduledWorkflow promises, without a controller: a growing      *)
(* sequence of runs, each at a time of the schedule.  The slots of the     *)
(* schedule are given as a set, not by the arithmetic of the controller,   *)
(* so that an implementation that is shown to refine this module has its   *)
(* arithmetic checked against that set.                                    *)
(***************************************************************************)
EXTENDS Integers, Sequences

(* The value of a time that is not set.                                    *)
CONSTANT Unset

VARIABLES now,      \* the clock
          trigger,  \* the trigger of the resource, see module Schedule
          skip,     \* TRUE: missed slots are skipped (NoCatchup)
          created,  \* the creation time of the resource
          fired     \* the scheduled time of every run so far

vars == <<now, trigger, skip, created, fired>>

Last == IF fired = << >> THEN Unset ELSE fired[Len(fired)]

Base == IF trigger.start # Unset THEN trigger.start ELSE created

InWindow(t) == /\ trigger.start # Unset => t >= trigger.start
               /\ trigger.end # Unset => t <= trigger.end

(* The slots of the schedule.  An interval of zero counts as one second.   *)
IsSlot(t) ==
    CASE trigger.kind = "oneoff" -> t = created
      [] trigger.kind = "cron" -> /\ t > Base
                                  /\ InWindow(t)
                                  /\ t % trigger.period \in trigger.offsets
      [] trigger.kind = "periodic" ->
            LET step == IF trigger.interval = 0 THEN 1 ELSE trigger.interval
            IN  /\ t > Base
                /\ InWindow(t)
                /\ (t - Base) % step = 0

(* A run that catches up takes the first slot after the last run.  One     *)
(* that skips may take a later one, and a periodic schedule that skips     *)
(* leaves the grid of its slots: it counts on from the time it skipped to. *)
Due(t) ==
    /\ t <= now
    /\ t > Last
    /\ trigger.kind = "oneoff" => fired = << >>
    /\ IF skip /\ trigger.kind = "periodic"
       THEN InWindow(t) /\ t > Base
       ELSE IsSlot(t)
    /\ ~skip => \A u \in (Last + 1)..(t - 1) : ~IsSlot(u)

Fire(t) ==
    /\ Due(t)
    /\ fired' = Append(fired, t)
    /\ UNCHANGED <<now, trigger, skip, created>>

Advance ==
    /\ now' = now + 1
    /\ UNCHANGED <<trigger, skip, created, fired>>

Init == fired = << >>

Next == Advance \/ \E t \in 0..now : Fire(t)

Spec == Init /\ [][Next]_vars

=============================================================================
