------------------------- MODULE ScheduleWalkProofs -------------------------
(***************************************************************************)
(* Proofs about ScheduleWalk, for every trigger, every creation time and   *)
(* every bound of the clock: the times at which a schedule triggers are    *)
(* the slots that module RecurringRuns promises.                           *)
(*                                                                         *)
(* A cron schedule without catch-up is left to the model checker: its loop *)
(* over the times it skips is a recursive function.                        *)
(***************************************************************************)
EXTENDS ScheduleWalk, ScheduleProofs, SequenceTheorems

-----------------------------------------------------------------------------
(* The inductive invariant: the last triggered time is on the schedule.    *)

CronLoop == skip /\ trigger.kind = "cron"

LastOnSchedule ==
    fired # << >> =>
        /\ trigger.kind = "oneoff" => Last = created
        /\ trigger.kind # "oneoff" => Last > Promise!Base
        /\ trigger.kind = "periodic" /\ ~skip =>
               (Last - Promise!Base) % getInterval(trigger) = 0

WalkInv ==
    /\ trigger \in Triggers
    /\ skip \in BOOLEAN
    /\ created \in Nat
    /\ now \in 0..MaxNow
    /\ ~CronLoop => fired \in Seq(Nat) /\ LastOnSchedule

LEMMA InitWalk == Init => WalkInv
  BY WalkAssumption DEF Init, WalkInv, LastOnSchedule

-----------------------------------------------------------------------------
(* What the next scheduled time is.                                        *)

From == EffectiveLast(trigger, Last, created)

LEMMA FromIs ==
    ASSUME WalkInv, ~CronLoop
    PROVE  /\ IsTrigger(trigger)
           /\ trigger.start \in Nat \cup {Nil} /\ trigger.end \in Nat \cup {Nil}
           /\ Last \in Nat \cup {Nil}
           /\ fired # << >> => Last \in Nat
           /\ Promise!Base \in Nat
           /\ trigger.kind # "oneoff" =>
                 /\ LastAfterStart(trigger, Last)
                 /\ From \in Nat
                 /\ From >= Promise!Base /\ From >= Last
                 /\ fired = << >> => From = Promise!Base
                 /\ fired # << >> => From = Last
                 /\ trigger.start # Nil => From >= trigger.start
  <1>1. IsTrigger(trigger)
    BY WalkAssumption DEF WalkInv
  <1>2. trigger.start \in Nat \cup {Nil} /\ trigger.end \in Nat \cup {Nil}
    BY <1>1 DEF IsTrigger
  <1>3. Last \in Nat \cup {Nil} /\ (fired # << >> => Last \in Nat)
    <2>1. CASE fired = << >>
      BY <2>1 DEF Last
    <2>2. CASE fired # << >>
      <3>1. fired \in Seq(Nat) /\ Len(fired) \in 1..Len(fired)
        BY <2>2, EmptySeq, LenProperties DEF WalkInv
      <3>2. fired[Len(fired)] \in Nat
        BY <3>1, ElementOfSeq
      <3> QED BY <2>2, <3>2 DEF Last
    <2> QED BY <2>1, <2>2
  <1>4. Promise!Base \in Nat /\ Promise!Base = IF trigger.start # Nil THEN trigger.start ELSE created
    BY <1>2 DEF Promise!Base, WalkInv
  <1>5. ASSUME fired = << >> PROVE Last = Nil
    BY <1>5 DEF Last
  <1>6. ASSUME fired # << >>, trigger.kind # "oneoff" PROVE Last > Promise!Base
    BY <1>6 DEF WalkInv, LastOnSchedule
  <1>7. created \in Nat
    BY DEF WalkInv
  <1> HIDE DEF Last
  <1>8. ASSUME trigger.kind # "oneoff"
        PROVE  /\ LastAfterStart(trigger, Last)
               /\ From \in Nat
               /\ From >= Promise!Base /\ From >= Last
               /\ fired = << >> => From = Promise!Base
               /\ fired # << >> => From = Last
               /\ trigger.start # Nil => From >= trigger.start
    <2>1. CASE fired = << >>
      BY <1>2, <1>4, <1>5, <1>7, <2>1 DEF From, EffectiveLast, LastAfterStart, Nil
    <2>2. CASE fired # << >>
      <3>1. Last # Nil /\ Last \in Nat /\ Last > Promise!Base
        BY <1>3, <1>6, <1>8, <2>2 DEF Nil
      <3> QED BY <1>2, <1>4, <2>2, <3>1 DEF From, EffectiveLast, LastAfterStart, Nil
    <2> QED BY <2>1, <2>2
  <1> QED BY <1>1, <1>2, <1>3, <1>4, <1>8

(* A one-off schedule: its creation, once.                                 *)
LEMMA OneOffTrigger ==
    ASSUME WalkInv, trigger.kind = "oneoff"
    PROVE  /\ NextEpoch # Never => /\ NextEpoch \in Nat /\ NextEpoch > Last
                                   /\ Promise!IsSlot(NextEpoch)
                                   /\ fired = << >> /\ NextEpoch = created
           /\ \A u \in Nat : u > Last /\ Promise!IsSlot(u) => NextEpoch <= u
  <1>cl. ~CronLoop
    BY DEF CronLoop
  <1>1. Last \in Nat \cup {Nil} /\ (fired # << >> => Last \in Nat)
    BY <1>cl, FromIs
  <1>2. NextEpoch = IF Last # Nil THEN Never ELSE created
    BY DEF NextEpoch, getNextScheduledEpoch, OneOffNext
  <1>3. \A t : Promise!IsSlot(t) <=> t = created
    BY DEF Promise!IsSlot
  <1>4. created \in Nat /\ (fired # << >> => Last = created)
    BY <1>cl DEF WalkInv, LastOnSchedule
  <1>5. fired = << >> => Last = Nil
    BY DEF Last
  <1> HIDE DEF Last
  <1> QED BY <1>1, <1>2, <1>3, <1>4, <1>5 DEF Nil

(* The slots of the promise are those of ScheduleProofs.                   *)
LEMMA SlotsAgree ==
    ASSUME WalkInv
    PROVE  /\ Promise!Base = BaseOf(trigger, created)
           /\ \A t : Promise!IsSlot(t) <=> SlotOf(trigger, created, t)
  <1>1. Promise!Base = BaseOf(trigger, created)
    BY DEF Promise!Base, BaseOf
  <1>2. \A t : Promise!InWindow(t) <=> WindowOf(trigger, t)
    BY DEF Promise!InWindow, WindowOf
  <1>3. trigger.kind \in Kinds
    BY WalkAssumption DEF WalkInv, IsTrigger
  <1> QED BY <1>1, <1>2, <1>3 DEF Promise!IsSlot, SlotOf, getInterval, Kinds

(* With catch-up, whatever the kind.                                       *)
LEMMA CatchupSlot ==
    ASSUME WalkInv, ~skip
    PROVE  /\ NextEpoch # Never => /\ NextEpoch \in Nat /\ NextEpoch > Last
                                   /\ Promise!IsSlot(NextEpoch)
           /\ \A u \in 0..MaxNow : u > Last /\ Promise!IsSlot(u) => NextEpoch <= u
  <1>1. IsTrigger(trigger) /\ Last \in Nat \cup {Nil} /\ created \in Nat
    BY FromIs DEF WalkInv, CronLoop
  <1>2. \A u \in 0..MaxNow : u \in Nat /\ u < Never
    BY WalkAssumption, NeverAssumption
  <1>3. OnSchedule(trigger, created, Last)
    <2>1. fired # << >> \/ Last = Nil
      BY DEF Last
    <2> QED BY <2>1, SlotsAgree DEF WalkInv, LastOnSchedule, OnSchedule, CronLoop
  <1>4. NextEpoch = getNextScheduledEpoch(trigger, FALSE, Last, created, now)
    BY DEF NextEpoch, WalkInv
  <1>5. NextSlot(trigger, created, Last, NextEpoch)
    BY <1>1, <1>3, <1>4, CatchupNext
  <1> QED BY <1>2, <1>5, SlotsAgree DEF NextSlot

(* Without catch-up, periodic: a time of the window, at most one interval  *)
(* in the past or the end of the window.                                   *)
LEMMA SkippedSlot ==
    ASSUME WalkInv, skip, trigger.kind = "periodic", NextEpoch <= now
    PROVE  /\ NextEpoch \in Nat /\ NextEpoch > Last /\ NextEpoch > Promise!Base
           /\ Promise!InWindow(NextEpoch)
           /\ now < NextEpoch + getInterval(trigger) \/ NextEpoch = trigger.end
  <1> DEFINE n == getInterval(trigger)
             B == Promise!Base
             next == PeriodicNext(trigger, Last, created)
             e == trigger.end
  <1>cl. ~CronLoop
    BY DEF CronLoop
  <1>1. /\ IsTrigger(trigger) /\ e \in Nat \cup {Nil} /\ Last \in Int
        /\ trigger.start \in Nat \cup {Nil}
        /\ B \in Nat /\ From \in Nat /\ From >= B /\ From >= Last
        /\ trigger.start # Nil => From >= trigger.start
    BY <1>cl, FromIs DEF Nil
  <1>2. n \in Nat \ {0} /\ next = IF e # Nil /\ e < From + n THEN Never ELSE From + n
    BY <1>cl, FromIs, PeriodicNextIs DEF From, WalkInv
  <1>3. NextEpoch = IF next # Never /\ now >= next + n
                    THEN IF e # Nil /\ e < now THEN e ELSE now
                    ELSE next
    BY DEF NextEpoch, getNextScheduledEpoch, PeriodicNextNoCatchup
  <1>4. \A t : Promise!InWindow(t) <=> /\ trigger.start # Nil => t >= trigger.start
                                       /\ e # Nil => t <= e
    BY DEF Promise!InWindow
  <1>5. now \in Nat /\ now < Never /\ Never \in Nat
    BY WalkAssumption, NeverAssumption DEF WalkInv
  <1> HIDE DEF n, B, next, e
  <1>6. next # Never
    BY <1>3, <1>5
  <1>7. next = From + n /\ (e # Nil => next <= e) /\ next \in Nat
    BY <1>1, <1>2, <1>6
  <1>8. NextEpoch \in Nat /\ NextEpoch > From /\ (e # Nil => NextEpoch <= e)
    BY <1>1, <1>2, <1>3, <1>5, <1>6, <1>7 DEF Nil
  <1>9. now < NextEpoch + n \/ NextEpoch = e
    BY <1>1, <1>2, <1>3, <1>5, <1>6, <1>7 DEF Nil
  <1>10. Promise!InWindow(NextEpoch) /\ NextEpoch > Last /\ NextEpoch > B
    BY <1>1, <1>4, <1>8
  <1> QED BY <1>8, <1>9, <1>10 DEF n, B, e

-----------------------------------------------------------------------------
(* A trigger is one the promise allows, and leaves the invariant.          *)

LEMMA TriggerIsDue ==
    ASSUME WalkInv, ~CronLoop, NextEpoch <= now
    PROVE  NextEpoch \in 0..now /\ Promise!Due(NextEpoch)
  <1>1. now \in 0..MaxNow /\ now < Never /\ NextEpoch # Never
    BY WalkAssumption, NeverAssumption DEF WalkInv
  <1>2. trigger.kind \in Kinds
    BY WalkAssumption DEF WalkInv, IsTrigger
  <1>3. Last \in Int
    BY FromIs DEF Nil
  <1>last. Promise!Last = Last
    BY DEF Promise!Last, Last
  <1>oneoff. trigger.kind = "oneoff" => fired = << >>
    BY <1>1, OneOffTrigger
  <1>4. CASE ~skip
    <2>1. NextEpoch \in Nat /\ NextEpoch > Last /\ Promise!IsSlot(NextEpoch)
      BY <1>1, <1>4, CatchupSlot
    <2>2. ASSUME NEW u \in (Last + 1)..(NextEpoch - 1), Promise!IsSlot(u) PROVE FALSE
      <3>1. u \in Int /\ u > Last /\ u < NextEpoch
        BY <1>3, <2>1
      <3>2. u \in 0..MaxNow
        <4>1. Last >= -1
          BY FromIs DEF Nil
        <4>2. MaxNow \in Nat
          BY WalkAssumption
        <4> QED BY <1>1, <1>3, <2>1, <3>1, <4>1, <4>2
      <3>3. NextEpoch <= u
        BY <1>4, <2>2, <3>1, <3>2, CatchupSlot
      <3> QED BY <2>1, <3>1, <3>3
    <2> QED BY <1>1, <1>4, <1>last, <1>oneoff, <2>1, <2>2 DEF Promise!Due
  <1>5. CASE skip /\ trigger.kind = "periodic"
    BY <1>1, <1>5, <1>last, SkippedSlot DEF Promise!Due
  <1>6. CASE skip /\ trigger.kind = "oneoff"
    BY <1>1, <1>6, <1>last, <1>oneoff, OneOffTrigger DEF Promise!Due
  <1> QED BY <1>2, <1>4, <1>5, <1>6 DEF Kinds, CronLoop

LEMMA TriggerWalk ==
    ASSUME WalkInv, ~CronLoop, Trigger
    PROVE  fired' \in Seq(Nat) /\ LastOnSchedule'
  <1>1. /\ NextEpoch <= now /\ fired' = Append(fired, NextEpoch)
        /\ UNCHANGED <<now, trigger, skip, created>>
    BY DEF Trigger
  <1>2. NextEpoch \in 0..now /\ Promise!Due(NextEpoch)
    BY <1>1, TriggerIsDue
  <1>3. NextEpoch \in Nat /\ fired \in Seq(Nat) /\ NextEpoch # Never
    BY <1>1, <1>2, WalkAssumption, NeverAssumption DEF WalkInv
  <1>4. fired' \in Seq(Nat) /\ fired' # << >> /\ Last' = NextEpoch
    <2>1. /\ fired' \in Seq(Nat) /\ Len(fired') = Len(fired) + 1
          /\ fired'[Len(fired) + 1] = NextEpoch
      BY <1>1, <1>3, AppendProperties
    <2>2. fired' # << >>
      BY <1>1, <1>3, AppendProperties
    <2> QED BY <2>1, <2>2 DEF Last
  <1>5. Promise!Base' = Promise!Base /\ getInterval(trigger)' = getInterval(trigger)
    BY <1>1 DEF Promise!Base, getInterval
  <1>6. CASE trigger.kind = "oneoff"
    BY <1>1, <1>3, <1>4, <1>6, OneOffTrigger DEF LastOnSchedule
  <1>7. CASE trigger.kind = "periodic" /\ skip
    BY <1>1, <1>4, <1>5, <1>7, SkippedSlot DEF LastOnSchedule
  <1>8. CASE trigger.kind = "periodic" /\ ~skip
    <2>1. Promise!IsSlot(NextEpoch)
      BY <1>3, <1>8, CatchupSlot
    <2>2. NextEpoch > Promise!Base /\ (NextEpoch - Promise!Base) % getInterval(trigger) = 0
      BY <1>8, <2>1 DEF Promise!IsSlot, getInterval
    <2> QED BY <1>1, <1>4, <1>5, <1>8, <2>2 DEF LastOnSchedule
  <1>9. CASE trigger.kind = "cron"
    <2>1. Promise!IsSlot(NextEpoch)
      BY <1>3, <1>9, CatchupSlot DEF CronLoop
    <2>2. NextEpoch > Promise!Base
      BY <1>9, <2>1 DEF Promise!IsSlot
    <2> QED BY <1>1, <1>4, <1>5, <1>9, <2>2 DEF LastOnSchedule
  <1>10. trigger.kind \in Kinds
    BY WalkAssumption DEF WalkInv, IsTrigger
  <1> QED BY <1>4, <1>6, <1>7, <1>8, <1>9, <1>10 DEF Kinds

LEMMA NextWalk == WalkInv /\ [Next]_vars => WalkInv'
  <1> SUFFICES ASSUME WalkInv, [Next]_vars PROVE WalkInv'
    OBVIOUS
  <1>1. CASE Advance
    <2>1. now' \in 0..MaxNow
      BY <1>1, WalkAssumption DEF Advance, WalkInv
    <2>2. UNCHANGED <<trigger, skip, created, fired>>
      BY <1>1 DEF Advance
    <2>3. CronLoop' = CronLoop /\ (LastOnSchedule => LastOnSchedule')
      BY <2>2 DEF CronLoop, LastOnSchedule, Last, Promise!Base, getInterval
    <2> QED BY <2>1, <2>2, <2>3 DEF WalkInv
  <1>2. CASE Trigger
    <2>1. UNCHANGED <<now, trigger, skip, created>>
      BY <1>2 DEF Trigger
    <2>2. CronLoop' = CronLoop
      BY <2>1 DEF CronLoop
    <2> QED BY <1>2, <2>1, <2>2, TriggerWalk DEF WalkInv
  <1>3. CASE UNCHANGED vars
    BY <1>3 DEF vars, WalkInv, CronLoop, LastOnSchedule, Last, Promise!Base, getInterval
  <1> QED BY <1>1, <1>2, <1>3 DEF Next

-----------------------------------------------------------------------------
(* With catch-up, every slot that has passed has been triggered or is      *)
(* still to come: GetNextScheduledEpoch never steps over one.              *)
THEOREM NoSlotForgottenAlways == Spec => []NoSlotForgotten
  <1>1. WalkInv => NoSlotForgotten
    <2> SUFFICES ASSUME WalkInv, ~skip, NEW t \in 0..now, Promise!IsSlot(t), ~(t <= Last)
                 PROVE  NextEpoch <= t
      BY DEF NoSlotForgotten
    <2>1. t \in 0..MaxNow
      BY WalkAssumption DEF WalkInv
    <2>2. Last \in Int
      BY FromIs DEF CronLoop, Nil
    <2> QED BY <2>1, <2>2, CatchupSlot
  <1> QED BY <1>1, InitWalk, NextWalk, PTL DEF Spec

(* The triggered times of every schedule that catches up, and of every     *)
(* schedule that does not but is no cron schedule, are those the promise   *)
(* allows: slots in their window, in order, none twice and, with catch-up, *)
(* none left out (GetNextScheduledEpoch).                                  *)
THEOREM WalkImplementsRecurringRuns == Spec /\ ~CronLoop => ImplementsRecurringRuns
  <1> DEFINE Inv == WalkInv /\ ~CronLoop
  <1>1. Init => Promise!Init
    BY DEF Init, Promise!Init
  <1>2. Inv /\ [Next]_vars => Inv'
    BY NextWalk DEF Next, Advance, Trigger, vars, CronLoop
  <1>3. Inv /\ [Next]_vars => [Promise!Next]_(Promise!vars)
    <2> SUFFICES ASSUME Inv, [Next]_vars PROVE [Promise!Next]_(Promise!vars)
      OBVIOUS
    <2>1. CASE Advance
      BY <2>1 DEF Advance, Promise!Next, Promise!Advance
    <2>2. CASE Trigger
      <3>1. NextEpoch \in 0..now /\ Promise!Due(NextEpoch)
        BY <2>2, TriggerIsDue DEF Trigger
      <3>2. Promise!Fire(NextEpoch)
        BY <2>2, <3>1 DEF Trigger, Promise!Fire
      <3> QED BY <3>1, <3>2 DEF Promise!Next
    <2>3. CASE UNCHANGED vars
      BY <2>3 DEF vars, Promise!vars
    <2> QED BY <2>1, <2>2, <2>3 DEF Next
  <1> QED
    BY <1>1, <1>2, <1>3, InitWalk, PTL DEF Spec, ImplementsRecurringRuns, Promise!Spec

(* Without catch-up, a periodic schedule triggers at most one interval     *)
(* late, or at the end of its window.                                      *)
THEOREM LatestPeriodOnlyAlways == Spec /\ trigger.kind # "cron" => LatestPeriodOnly
  <1> DEFINE Inv == WalkInv /\ trigger.kind # "cron"
             Late(t) ==
                 \/ trigger.kind = "periodic" /\ now < t + getInterval(trigger)
                 \/ /\ trigger.kind = "cron"
                    /\ \A u \in (t + 1)..now : ~Promise!IsSlot(u)
                 \/ t = trigger.end
             Step == skip /\ fired' # fired /\ trigger.kind # "oneoff" => Late(Last')
  <1>1. Inv /\ [Next]_vars => Inv'
    BY NextWalk DEF Next, Advance, Trigger, vars
  <1>2. Inv /\ [Next]_vars => Step
    <2> SUFFICES ASSUME Inv, [Next]_vars, skip, fired' # fired, trigger.kind # "oneoff"
                 PROVE  Late(Last')
      OBVIOUS
    <2>1. Trigger
      BY DEF Next, Advance, vars
    <2>2. trigger.kind = "periodic" /\ ~CronLoop
      BY WalkAssumption DEF WalkInv, IsTrigger, Kinds, CronLoop
    <2>3. /\ NextEpoch \in Nat
          /\ now < NextEpoch + getInterval(trigger) \/ NextEpoch = trigger.end
      BY <2>1, <2>2, SkippedSlot DEF Trigger
    <2>4. Last' = NextEpoch
      <3>1. fired' = Append(fired, NextEpoch) /\ fired \in Seq(Nat)
        BY <2>1, <2>2 DEF Trigger, WalkInv
      <3>2. Len(fired') = Len(fired) + 1 /\ fired'[Len(fired) + 1] = NextEpoch
        BY <2>3, <3>1, AppendProperties
      <3>3. fired' # << >>
        BY <2>3, <3>1, AppendProperties
      <3> QED BY <3>2, <3>3 DEF Last
    <2> QED BY <2>2, <2>3, <2>4
  <1>3. Inv /\ [Next]_vars => [Step]_vars
    BY <1>2
  <1> QED BY <1>1, <1>3, InitWalk, PTL DEF Spec, LatestPeriodOnly

=============================================================================
