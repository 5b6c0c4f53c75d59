--------------------------- MODULE ScheduleProofs ---------------------------
(***************************************************************************)
(* Lemmas about the arithmetic of module Schedule, for every trigger and   *)
(* every time: what the next scheduled time is, and that it is after the   *)
(* last one.                                                               *)
(*                                                                         *)
(* The loop of a cron schedule without catch-up is a recursive function;   *)
(* what it computes would need an induction, so no lemma is about it.      *)
(***************************************************************************)
EXTENDS Schedule, WellFoundedInduction, TLAPS

-----------------------------------------------------------------------------
(* Division, and the smallest element of a set of naturals.                *)

LEMMA DivMod ==
    ASSUME NEW a \in Int, NEW n \in Int, n > 0
    PROVE  /\ a \div n \in Int
           /\ a % n \in 0..(n - 1)
           /\ a = (a \div n) * n + (a % n)
  <1>1. a \div n \in Int
    OBVIOUS
  <1>2. a % n \in 0..(n - 1)
    OBVIOUS
  <1>3. a = (a \div n) * n + (a % n)
    OBVIOUS
  <1> QED BY <1>1, <1>2, <1>3

LEMMA ModUnique ==
    ASSUME NEW q \in Int, NEW n \in Int, n > 0, NEW r \in 0..(n - 1)
    PROVE  (q * n + r) % n = r
  OBVIOUS

(* The multiples of n are n apart.                                         *)
LEMMA NextMultiple ==
    ASSUME NEW a \in Int, NEW n \in Int, n > 0, a % n = 0
    PROVE  /\ (a + n) % n = 0
           /\ \A d \in 1..(n - 1) : (a + d) % n # 0
  <1> DEFINE q == a \div n
  <1>1. q \in Int /\ a = q * n
    BY DivMod
  <1> HIDE DEF q
  <1>2. a + n = (q + 1) * n + 0
    BY <1>1
  <1>3. (a + n) % n = 0
    BY <1>1, <1>2, ModUnique
  <1>4. \A d \in 1..(n - 1) : (a + d) % n = d
    BY <1>1, ModUnique
  <1> QED BY <1>3, <1>4

LEMMA MinIsSmallest ==
    ASSUME NEW S, S \subseteq Nat, S # {}
    PROVE  Min(S) \in S /\ \A y \in S : Min(S) <= y
  <1> DEFINE R == OpToRel(<, Nat)
  <1>1. IsWellFoundedOn(R, Nat)
    BY NatLessThanWellFounded
  <1>2. \A x, y \in Nat : x < y => <<x, y>> \in R
    BY DEF OpToRel
  <1> HIDE DEF R
  <1>3. PICK x \in S : \A y \in S : ~(<<y, x>> \in R)
    BY <1>1, WFMin, Zenon
  <1>4. ASSUME NEW y \in S PROVE x <= y
    <2>1. x \in Nat /\ y \in Nat
      OBVIOUS
    <2>2. ~(y < x)
      BY <1>2, <1>3, <2>1, Zenon
    <2> QED BY <2>1, <2>2
  <1> QED BY <1>4 DEF Min

-----------------------------------------------------------------------------
(* The times a schedule counts from.                                       *)

(* The last trigger, if there is one, is not before the start.             *)
LastAfterStart(s, last) == last # Nil /\ s.start # Nil => s.start <= last

LEMMA EffectiveLastIs ==
    ASSUME NEW s, IsTrigger(s), NEW last \in Nat \cup {Nil}, NEW creation \in Nat,
           LastAfterStart(s, last)
    PROVE  /\ EffectiveLast(s, last, creation) \in Nat
           /\ last <= EffectiveLast(s, last, creation)
           /\ s.start # Nil => s.start <= EffectiveLast(s, last, creation)
  BY DEF EffectiveLast, LastAfterStart, IsTrigger, Nil

(* A periodic schedule: one interval on, or never again.                   *)
LEMMA PeriodicNextIs ==
    ASSUME NEW s, IsTrigger(s), s.kind = "periodic",
           NEW last \in Nat \cup {Nil}, NEW creation \in Nat, LastAfterStart(s, last)
    PROVE  /\ getInterval(s) \in Nat \ {0}
           /\ PeriodicNext(s, last, creation) =
                 IF s.end # Nil /\ s.end < EffectiveLast(s, last, creation) + getInterval(s)
                 THEN Never
                 ELSE EffectiveLast(s, last, creation) + getInterval(s)
  BY EffectiveLastIs DEF PeriodicNext, getInterval, IsTrigger, Nil

(* A cron schedule: the first time after t that matches.                   *)
LEMMA CronNextIs ==
    ASSUME NEW s, IsTrigger(s), s.kind = "cron", NEW t \in Nat
    PROVE  /\ CronNext(s, t) \in Nat
           /\ CronNext(s, t) > t
           /\ CronNext(s, t) % s.period \in s.offsets
           /\ \A u \in (t + 1)..(CronNext(s, t) - 1) : u % s.period \notin s.offsets
  <1> DEFINE p == s.period
             S == {u \in (t + 1)..(t + p) : u % p \in s.offsets}
  <1>1. p \in Int /\ p > 0 /\ s.offsets \subseteq 0..(p - 1) /\ s.offsets # {}
    BY DEF IsTrigger
  <1> HIDE DEF p
  <1>2. PICK o \in s.offsets : o \in 0..(p - 1)
    BY <1>1
  <1>3. S # {}
    <2> DEFINE d == (o - (t + 1)) % p
               q == (o - (t + 1)) \div p
    <2>1. q \in Int /\ d \in 0..(p - 1) /\ o - (t + 1) = q * p + d
      BY <1>1, <1>2, DivMod
    <2> HIDE DEF d, q
    <2>2. t + 1 + d = (-q) * p + o
      <3>1. (-q) * p = -(q * p)
        BY <1>1, <2>1
      <3>2. q * p \in Int
        BY <1>1, <2>1
      <3> QED BY <1>2, <2>1, <3>1, <3>2
    <2>3. (t + 1 + d) % p = o
      <3> DEFINE m == -q
      <3>1. m \in Int
        BY <2>1
      <3> HIDE DEF m
      <3>2. (m * p + o) % p = o
        BY <1>1, <1>2, <3>1, ModUnique
      <3> QED BY <2>2, <3>2 DEF m
    <2>4. t + 1 + d \in (t + 1)..(t + p)
      BY <1>1, <2>1
    <2> QED BY <1>2, <2>3, <2>4
  <1>4. S \subseteq Nat
    BY <1>1
  <1>5. CronNext(s, t) = Min(S)
    BY DEF CronNext, p
  <1>6. Min(S) \in S /\ \A y \in S : Min(S) <= y
    BY <1>3, <1>4, MinIsSmallest
  <1>7. ASSUME NEW u \in (t + 1)..(CronNext(s, t) - 1) PROVE u % p \notin s.offsets
    <2>1. Min(S) \in (t + 1)..(t + p)
      BY <1>6
    <2> HIDE DEF S
    <2>2. u \in (t + 1)..(t + p) /\ u < Min(S)
      BY <1>1, <1>5, <2>1
    <2>3. u \notin S
      BY <1>1, <1>6, <2>1, <2>2
    <2> USE DEF S
    <2> QED BY <2>2, <2>3
  <1> QED BY <1>1, <1>5, <1>6, <1>7 DEF p

LEMMA CronFirstIs ==
    ASSUME NEW s, IsTrigger(s), NEW last \in Nat \cup {Nil}, NEW creation \in Nat,
           LastAfterStart(s, last)
    PROVE  CronFirst(s, last, creation) = CronNext(s, EffectiveLast(s, last, creation))
  BY EffectiveLastIs DEF CronFirst, Latest, IsTrigger, Nil

-----------------------------------------------------------------------------
(* Whatever the kind, with or without catch-up (cron without it excepted), *)
(* the next scheduled time is a time after the last one, not before the    *)
(* start, or there is none.                                                *)
LEMMA NextIsLater ==
    ASSUME NEW s, IsTrigger(s), NEW noCatchup \in BOOLEAN, s.kind = "cron" => ~noCatchup,
           NEW last \in Nat \cup {Nil}, NEW creation \in Nat, NEW nowEpoch \in Nat,
           s.kind # "oneoff" => LastAfterStart(s, last)
    PROVE  LET next == getNextScheduledEpoch(s, noCatchup, last, creation, nowEpoch)
           IN  next # Never => /\ next \in Nat
                               /\ next > last
                               /\ s.kind # "oneoff" => LastAfterStart(s, next)
  <1> DEFINE next == getNextScheduledEpoch(s, noCatchup, last, creation, nowEpoch)
             from == EffectiveLast(s, last, creation)
  <1>1. CASE s.kind = "oneoff"
    <2>1. next = OneOffNext(last, creation)
      BY <1>1 DEF getNextScheduledEpoch
    <2> QED BY <1>1, <2>1 DEF OneOffNext, Nil
  <1>2. ASSUME s.kind # "oneoff"
        PROVE  /\ from \in Nat /\ last <= from
               /\ s.start # Nil => s.start <= from
    BY <1>2, EffectiveLastIs
  <1>3. CASE s.kind = "periodic"
    <2>1. next = IF noCatchup THEN PeriodicNextNoCatchup(s, last, creation, nowEpoch)
                 ELSE PeriodicNext(s, last, creation)
      BY <1>3 DEF getNextScheduledEpoch
    <2>2. /\ getInterval(s) \in Nat \ {0}
          /\ PeriodicNext(s, last, creation) =
                IF s.end # Nil /\ s.end < from + getInterval(s) THEN Never
                ELSE from + getInterval(s)
      BY <1>3, PeriodicNextIs
    <2>3. s.end \in Nat \cup {Nil} /\ s.start \in Nat \cup {Nil}
      BY DEF IsTrigger
    <2> HIDE DEF next, from
    <2>4. ASSUME next # Never PROVE next \in Nat /\ next > from
      BY <1>2, <1>3, <2>1, <2>2, <2>3, <2>4, NeverAssumption DEF PeriodicNextNoCatchup, Nil
    <2>5. last \in Int
      BY DEF Nil
    <2>6. ASSUME next # Never
          PROVE  next \in Nat /\ next > last /\ LastAfterStart(s, next)
      BY <1>2, <1>3, <2>3, <2>4, <2>5, <2>6 DEF LastAfterStart, Nil
    <2> QED BY <2>6 DEF next
  <1>4. CASE s.kind = "cron"
    <2>1. next = CronNextScheduled(s, last, creation)
      BY <1>4 DEF getNextScheduledEpoch
    <2>2. next # Never => next = CronNext(s, from)
      BY <1>4, <2>1, CronFirstIs DEF CronNextScheduled
    <2>3. CronNext(s, from) \in Nat /\ CronNext(s, from) > from
      BY <1>2, <1>4, CronNextIs
    <2>4. s.start \in Nat \cup {Nil} /\ last \in Int
      BY DEF IsTrigger, Nil
    <2> HIDE DEF next, from
    <2>5. ASSUME next # Never
          PROVE  next \in Nat /\ next > last /\ LastAfterStart(s, next)
      BY <1>2, <1>4, <2>2, <2>3, <2>4, <2>5 DEF LastAfterStart, Nil
    <2> QED BY <2>5 DEF next
  <1> QED BY <1>1, <1>3, <1>4 DEF IsTrigger, Kinds

-----------------------------------------------------------------------------
(* The slots of a schedule, as module RecurringRuns has them.              *)

BaseOf(s, creation) == IF s.start # Nil THEN s.start ELSE creation

WindowOf(s, t) == /\ s.start # Nil => t >= s.start
                  /\ s.end # Nil => t <= s.end

SlotOf(s, creation, t) ==
    CASE s.kind = "oneoff" -> t = creation
      [] s.kind = "cron" -> /\ t > BaseOf(s, creation)
                            /\ WindowOf(s, t)
                            /\ t % s.period \in s.offsets
      [] s.kind = "periodic" -> /\ t > BaseOf(s, creation)
                                /\ WindowOf(s, t)
                                /\ (t - BaseOf(s, creation)) % getInterval(s) = 0

\* The last trigger of a schedule that catches up.
OnSchedule(s, creation, last) ==
    last # Nil =>
        /\ s.kind = "oneoff" => last = creation
        /\ s.kind # "oneoff" => last > BaseOf(s, creation)
        /\ s.kind = "periodic" => (last - BaseOf(s, creation)) % getInterval(s) = 0

\* next is the first slot after last; Never stands for all times from it on.
NextSlot(s, creation, last, next) ==
    /\ next # Never => /\ next \in Nat /\ next > last
                       /\ SlotOf(s, creation, next)
                       /\ OnSchedule(s, creation, next)
                       /\ s.kind = "oneoff" => last = Nil
    /\ \A u \in Nat : u > last /\ u < Never /\ SlotOf(s, creation, u) => next <= u

LEMMA FromOf ==
    ASSUME NEW s, IsTrigger(s), s.kind # "oneoff",
           NEW last \in Nat \cup {Nil}, NEW creation \in Nat, OnSchedule(s, creation, last)
    PROVE  /\ s.start \in Nat \cup {Nil} /\ s.end \in Nat \cup {Nil}
           /\ LastAfterStart(s, last)
           /\ BaseOf(s, creation) \in Nat
           /\ EffectiveLast(s, last, creation) \in Nat
           /\ EffectiveLast(s, last, creation) =
                 IF last = Nil THEN BaseOf(s, creation) ELSE last
           /\ EffectiveLast(s, last, creation) >= BaseOf(s, creation)
           /\ EffectiveLast(s, last, creation) >= last
           /\ s.start # Nil => EffectiveLast(s, last, creation) >= s.start
  BY DEF IsTrigger, EffectiveLast, BaseOf, OnSchedule, LastAfterStart, Nil

(* With catch-up, periodic: the next slot of the grid, or none is left.    *)
LEMMA PeriodicSlot ==
    ASSUME NEW s, IsTrigger(s), s.kind = "periodic",
           NEW last \in Nat \cup {Nil}, NEW creation \in Nat, OnSchedule(s, creation, last)
    PROVE  NextSlot(s, creation, last, PeriodicNext(s, last, creation))
  <1> DEFINE n == getInterval(s)
             B == BaseOf(s, creation)
             From == EffectiveLast(s, last, creation)
             next == PeriodicNext(s, last, creation)
  <1>1. /\ s.end \in Nat \cup {Nil} /\ last \in Int
        /\ s.start \in Nat \cup {Nil}
        /\ B \in Nat /\ From \in Nat /\ From >= B /\ From >= last
        /\ last = Nil => From = B
        /\ last # Nil => From = last
        /\ s.start # Nil => From >= s.start
    BY FromOf DEF Nil
  <1>2. /\ n \in Nat \ {0}
        /\ next = IF s.end # Nil /\ s.end < From + n THEN Never ELSE From + n
    BY FromOf, PeriodicNextIs
  <1>4. \A t \in Nat : SlotOf(s, creation, t) <=> t > B /\ WindowOf(s, t) /\ (t - B) % n = 0
    BY DEF SlotOf
  <1>5. \A t : WindowOf(s, t) <=> /\ s.start # Nil => t >= s.start
                                  /\ s.end # Nil => t <= s.end
    BY DEF WindowOf
  <1>o. last # Nil => (last - B) % n = 0
    BY DEF OnSchedule
  <1>p. \A t : OnSchedule(s, creation, t) <=> (t # Nil => t > B /\ (t - B) % n = 0)
    BY DEF OnSchedule
  <1> HIDE DEF n, B, From, next
  <1>3. (From - B) % n = 0
    <2>1. CASE last = Nil
      <3>1. From - B = 0 * n + 0
        BY <1>1, <1>2, <2>1
      <3>2. 0 \in 0..(n - 1)
        BY <1>2
      <3> QED BY <1>2, <3>1, <3>2, ModUnique
    <2>2. CASE last # Nil
      BY <1>1, <1>o, <2>2
    <2> QED BY <2>1, <2>2
  <1>6. /\ (From - B + n) % n = 0
        /\ \A d \in 1..(n - 1) : (From - B + d) % n # 0
    <2> DEFINE a == From - B
    <2>1. a \in Int /\ a % n = 0 /\ n \in Int /\ n > 0
      BY <1>1, <1>2, <1>3
    <2> HIDE DEF a
    <2>2. (a + n) % n = 0 /\ \A d \in 1..(n - 1) : (a + d) % n # 0
      BY <2>1, NextMultiple
    <2> QED BY <2>2 DEF a
  <1>7. ASSUME next # Never
        PROVE  /\ next \in Nat /\ next > last /\ SlotOf(s, creation, next)
               /\ OnSchedule(s, creation, next)
    <2>1. next = From + n /\ (s.end # Nil => next <= s.end)
      BY <1>1, <1>2, <1>7
    <2>2. next \in Nat /\ next > last /\ next > B
      BY <1>1, <1>2, <2>1
    <2>3. next - B = From - B + n
      BY <1>1, <1>2, <2>1
    <2>4. WindowOf(s, next)
      BY <1>1, <1>2, <1>5, <2>1, <2>2
    <2> QED BY <1>4, <1>6, <1>p, <2>2, <2>3, <2>4
  <1>8. ASSUME NEW u \in Nat, u > last, SlotOf(s, creation, u) PROVE next <= u
    <2>1. u > B /\ (u - B) % n = 0 /\ (s.end # Nil => u <= s.end)
      BY <1>4, <1>5, <1>8
    <2>2. u > From
      BY <1>1, <1>8, <2>1
    <2>3. u >= From + n
      <3> SUFFICES ASSUME u < From + n PROVE FALSE
        BY <1>1, <1>2
      <3> DEFINE d == u - From
      <3>1. d \in 1..(n - 1) /\ u - B = From - B + d
        BY <1>1, <1>2, <2>2
      <3> HIDE DEF d
      <3> QED BY <1>6, <2>1, <3>1
    <2> QED BY <1>1, <1>2, <2>1, <2>3
  <1> QED BY <1>7, <1>8 DEF NextSlot, next

(* With catch-up, cron: the next matching time, or none is left.           *)
LEMMA CronSlot ==
    ASSUME NEW s, IsTrigger(s), s.kind = "cron",
           NEW last \in Nat \cup {Nil}, NEW creation \in Nat, OnSchedule(s, creation, last)
    PROVE  NextSlot(s, creation, last, CronNextScheduled(s, last, creation))
  <1> DEFINE B == BaseOf(s, creation)
             From == EffectiveLast(s, last, creation)
             c == CronNext(s, From)
             next == CronNextScheduled(s, last, creation)
             matches(t) == t % s.period \in s.offsets
  <1>1. /\ s.end \in Nat \cup {Nil} /\ last \in Int
        /\ s.start \in Nat \cup {Nil}
        /\ B \in Nat /\ From \in Nat /\ From >= B /\ From >= last
        /\ last = Nil => From = B
        /\ last # Nil => From = last
        /\ s.start # Nil => From >= s.start
    BY FromOf DEF Nil
  <1>2. /\ c \in Nat /\ c > From
        /\ matches(c)
        /\ \A u \in (From + 1)..(c - 1) : ~matches(u)
    BY <1>1, CronNextIs
  <1>3. next = IF CronEnd(s) < c THEN Never ELSE c
    BY FromOf, CronFirstIs DEF CronNextScheduled
  <1>4. \A t \in Nat : SlotOf(s, creation, t) <=> t > B /\ WindowOf(s, t) /\ matches(t)
    BY DEF SlotOf
  <1>5. \A t : WindowOf(s, t) <=> /\ s.start # Nil => t >= s.start
                                  /\ s.end # Nil => t <= s.end
    BY DEF WindowOf
  <1>6. CronEnd(s) = IF s.end # Nil THEN s.end ELSE Never
    BY DEF CronEnd
  <1>n. Never \in Nat
    BY NeverAssumption
  <1>p. \A t : OnSchedule(s, creation, t) <=> (t # Nil => t > B)
    BY DEF OnSchedule
  <1> HIDE DEF B, From, c, next, matches
  <1>7. ASSUME next # Never
        PROVE  /\ next \in Nat /\ next > last /\ SlotOf(s, creation, next)
               /\ OnSchedule(s, creation, next)
    <2>1. next = c /\ (s.end # Nil => c <= s.end)
      BY <1>1, <1>2, <1>3, <1>6, <1>7
    <2>2. c > last /\ c > B /\ (s.start # Nil => c >= s.start)
      BY <1>1, <1>2
    <2> QED BY <1>2, <1>4, <1>5, <1>p, <2>1, <2>2
  <1>8. ASSUME NEW u \in Nat, u > last, u < Never, SlotOf(s, creation, u) PROVE next <= u
    <2>1. u > B /\ matches(u) /\ (s.end # Nil => u <= s.end)
      BY <1>4, <1>5, <1>8
    <2>2. u > From
      BY <1>1, <1>8, <2>1
    <2>3. u >= c
      <3> SUFFICES ASSUME u < c PROVE FALSE
        BY <1>2
      <3>1. u \in (From + 1)..(c - 1)
        BY <1>1, <1>2, <2>2
      <3> QED BY <1>2, <2>1, <3>1
    <2> QED BY <1>1, <1>2, <1>3, <1>6, <1>8, <1>n, <2>1, <2>3
  <1> QED BY <1>7, <1>8 DEF NextSlot, next

(* A one-off schedule: its creation, once.                                 *)
LEMMA OneOffSlot ==
    ASSUME NEW s, s.kind = "oneoff",
           NEW last \in Nat \cup {Nil}, NEW creation \in Nat, OnSchedule(s, creation, last)
    PROVE  NextSlot(s, creation, last, OneOffNext(last, creation))
  <1>1. \A t : SlotOf(s, creation, t) <=> t = creation
    BY DEF SlotOf
  <1>2. \A t : OnSchedule(s, creation, t) <=> (t # Nil => t = creation)
    BY DEF OnSchedule
  <1>3. last # Nil => last = creation
    BY <1>2
  <1> QED BY <1>1, <1>2, <1>3 DEF NextSlot, OneOffNext, Nil

(* With catch-up, whatever the kind, the next scheduled time is the next   *)
(* slot.                                                                   *)
LEMMA CatchupNext ==
    ASSUME NEW s, IsTrigger(s), NEW last \in Nat \cup {Nil}, NEW creation \in Nat,
           OnSchedule(s, creation, last), NEW nowEpoch
    PROVE  NextSlot(s, creation, last,
                    getNextScheduledEpoch(s, FALSE, last, creation, nowEpoch))
  <1>1. CASE s.kind = "periodic"
    BY <1>1, PeriodicSlot DEF getNextScheduledEpoch
  <1>2. CASE s.kind = "cron"
    BY <1>2, CronSlot DEF getNextScheduledEpoch
  <1>3. CASE s.kind = "oneoff"
    BY <1>3, OneOffSlot DEF getNextScheduledEpoch
  <1> QED BY <1>1, <1>2, <1>3 DEF IsTrigger, Kinds

=============================================================================
