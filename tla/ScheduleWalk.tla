---------------------------- MODULE ScheduleWalk ----------------------------
(***************************************************************************)
(* The arithmetic of module Schedule driven over every trigger of a small  *)
(* set: the clock advances, and a workflow is triggered at the time that   *)
(* GetNextScheduledEpoch returns whenever that time has come.  The trigger *)
(* is recorded at once, so what is explored is the arithmetic and not the  *)
(* controller around it (module SwfController).                            *)
(***************************************************************************)
EXTENDS Schedule, Sequences

CONSTANTS Triggers,   \* the triggers explored
          Creations,  \* the creation times explored
          MaxNow      \* the bound of the clock

ASSUME WalkAssumption ==
    /\ \A s \in Triggers : IsTrigger(s)
    /\ Creations \subseteq 0..MaxNow
    /\ MaxNow \in Nat /\ MaxNow < Never

VARIABLES now, trigger, skip, created, fired

vars == <<now, trigger, skip, created, fired>>

Last == IF fired = << >> THEN Nil ELSE fired[Len(fired)]

(* The epoch the schedule computes at the current time.                    *)
NextEpoch == getNextScheduledEpoch(trigger, skip, Last, created, now)

Init ==
    /\ trigger \in Triggers
    /\ skip \in BOOLEAN
    /\ created \in Creations
    /\ now = created
    /\ fired = << >>

Advance ==
    /\ now < MaxNow
    /\ now' = now + 1
    /\ UNCHANGED <<trigger, skip, created, fired>>

Trigger ==
    /\ NextEpoch <= now
    /\ fired' = Append(fired, NextEpoch)
    /\ UNCHANGED <<now, trigger, skip, created>>

Next == Advance \/ Trigger

Spec == Init /\ [][Next]_vars

-----------------------------------------------------------------------------
(* The triggered times are the slots of the schedule: every one in its     *)
(* window, in order, none twice, and, with catch-up, none left out         *)
(* (periodic_schedule.go, cron_schedule.go, scheduled_workflow.go).        *)
Promise == INSTANCE RecurringRuns WITH Unset <- Nil
ImplementsRecurringRuns == Promise!Spec

(* With catch-up, once a slot has passed the schedule never reports a next *)
(* time beyond it before it has been triggered: the backlog is worked off  *)
(* one slot at a time, up to EndTime.                                      *)
NoSlotForgotten ==
    ~skip => \A t \in 0..now :
                Promise!IsSlot(t) => t <= Last \/ NextEpoch <= t

(* "If NoCatchup is true, controller only schedules the latest period when *)
(* cannot catch up": without catch-up a trigger leaves no whole period     *)
(* behind it, so that two triggers in a row are never both overdue.        *)
LatestPeriodOnly ==
    [][ skip /\ fired' # fired /\ trigger.kind # "oneoff" =>
          LET t == Last'
          IN  \/ trigger.kind = "periodic" /\ now < t + getInterval(trigger)
              \/ trigger.kind = "cron"
                   /\ \A u \in (t + 1)..now : ~Promise!IsSlot(u)
              \/ t = trigger.end ]_vars

=============================================================================
