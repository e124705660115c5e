---- MODULE Upkeep_proofs ----
(***************************************************************************)
(* Proofs about DailyTimer and Upkeep.  In every calendar the daily record *)
(* is made of the process's own readings.  One record a day, and none      *)
(* missed by a process that stays up, is what a calendar in which 24 hours *)
(* after HH:MM are never before the next HH:MM, and still on that day,     *)
(* makes of setupDailyTimer.  Upkeep implements DailyTimer, so that this   *)
(* holds of the loop that also measures and cleans the directory; and the  *)
(* size a cycle is told is a recent one of the directory.                  *)
(***************************************************************************)
EXTENDS Upkeep, Induction

----------------------------------------------------------------------------
(***************************************************************************)
(* The calendar                                                            *)
(***************************************************************************)

LEMMA CalendarFacts ==
    /\ LastDay \in Nat /\ DayLength \in Nat /\ MaxDelay \in Nat
    /\ LastDay + 1 \in 0 .. LastDay + 1
    /\ \A d \in 0 .. LastDay + 1 : d \in Int /\ Midnight[d] \in Nat
    /\ \A d \in Days : /\ d \in 0 .. LastDay + 1 /\ d + 1 \in 0 .. LastDay + 1
                       /\ SampleAt[d] \in Nat
                       /\ Midnight[d] <= SampleAt[d]
                       /\ SampleAt[d] + MaxDelay < Midnight[d + 1]
    BY DaysAssumption, CalendarAssumption DEF Days

\* Each day begins after those before it, ...
LEMMA DaysInOrder ==
    ASSUME NEW d \in 0 .. LastDay + 1, NEW e \in 0 .. LastDay + 1, d <= e
    PROVE  Midnight[d] <= Midnight[e]
<1> DEFINE end == LastDay + 1
           S == {i \in 0 .. end : d <= i => Midnight[d] <= Midnight[i]}
<1>1. 0 \in S
    BY CalendarFacts
<1>2. ASSUME NEW i \in 0 .. end - 1, i \in S PROVE i + 1 \in S
    <2>1. i + 1 \in 0 .. LastDay + 1 /\ Midnight[i] < Midnight[i + 1]
        BY CalendarFacts, CalendarAssumption DEF Days
    <2>2. d <= i + 1 => d <= i \/ d = i + 1
        BY CalendarFacts
    <2> QED
        BY <1>2, <2>1, <2>2, CalendarFacts
<1>3. 0 .. end \subseteq S
    <2>1. end \in Nat
        BY CalendarFacts
    <2> HIDE DEF S, end
    <2> QED
        BY <2>1, <1>1, <1>2, InductionUpTo
<1> QED
    BY <1>3

\* ... and no instant before the calendar's end lies between two days.
LEMMA EveryInstantHasItsDay ==
    ASSUME NEW t \in Nat, t < Midnight[LastDay + 1]
    PROVE  \E d \in Days : Midnight[d] <= t /\ t < Midnight[d + 1]
<1> DEFINE Within == \E d \in Days : Midnight[d] <= t /\ t < Midnight[d + 1]
           end == LastDay + 1
           S == {i \in 0 .. end : t < Midnight[i] => Within}
<1>1. 0 \in S
    BY CalendarFacts, CalendarAssumption
<1>2. ASSUME NEW i \in 0 .. end - 1, i \in S PROVE i + 1 \in S
    BY <1>2, CalendarFacts DEF Days
<1>3. end \in S
    <2>1. end \in Nat /\ end \in 0 .. end
        BY CalendarFacts
    <2> HIDE DEF S, end
    <2>2. 0 .. end \subseteq S
        BY <2>1, <1>1, <1>2, InductionUpTo
    <2> QED
        BY <2>1, <2>2
<1> QED
    BY <1>3

\* The date of an instant of the calendar is the one day it lies in.
LEMMA OneDay ==
    ASSUME NEW t \in Nat, NEW d \in Days, Midnight[d] <= t, t < Midnight[d + 1],
           NEW e \in Days, Midnight[e] <= t, t < Midnight[e + 1]
    PROVE  d = e
<1>1. ASSUME NEW i \in Days, NEW j \in Days, i < j, Midnight[j] <= t, t < Midnight[i + 1]
      PROVE  FALSE
    <2>1. i + 1 <= j /\ i + 1 \in 0 .. LastDay + 1 /\ j \in 0 .. LastDay + 1
        BY <1>1, CalendarFacts
    <2>2. Midnight[i + 1] <= Midnight[j] /\ Midnight[i + 1] \in Nat /\ Midnight[j] \in Nat
        BY <2>1, DaysInOrder, CalendarFacts
    <2> QED
        BY <2>2, <1>1
<1>2. ~(d < e) /\ ~(e < d)
    BY <1>1
<1> QED
    BY <1>2, CalendarFacts

LEMMA DayOfInstant ==
    ASSUME NEW t \in Nat, t < Midnight[LastDay + 1]
    PROVE  /\ DayOf(t) \in Days
           /\ Midnight[DayOf(t)] <= t
           /\ t < Midnight[DayOf(t) + 1]
    BY EveryInstantHasItsDay DEF DayOf

\* In any calendar the timer is set for some instant.
LEMMA NextSampleInNat ==
    ASSUME NEW t \in Nat, t < Midnight[LastDay + 1]
    PROVE  NextSample(t) \in Nat
<1>1. SampleAt[DayOf(t)] \in Nat /\ DayLength \in Nat
    BY DayOfInstant, CalendarFacts
<1> QED
    BY <1>1 DEF NextSample

\* setupDailyTimer's instant is that of a day whose HH:MM is still to come, at
\* its HH:MM or later on that day, and there is no HH:MM on a day in between.
LEMMA NextSampleIsFirst ==
    ASSUME NextOnItsDay, NEW t \in Nat, t < Midnight[LastDay + 1]
    PROVE  /\ t < NextSample(t)
           /\ \/ \E d \in Days : /\ t < SampleAt[d] /\ SampleAt[d] <= NextSample(t)
                                 /\ NextSample(t) + MaxDelay < Midnight[d + 1]
              \/ Midnight[LastDay + 1] <= NextSample(t)
           /\ \A e \in Days : t < SampleAt[e] => NextSample(t) < Midnight[e + 1]
<1> DEFINE d == DayOf(t)
           next == NextSample(t)
<1>1. /\ d \in Days /\ Midnight[d] <= t /\ t < Midnight[d + 1]
      /\ next \in Nat
      /\ next = IF SampleAt[d] <= t THEN SampleAt[d] + DayLength ELSE SampleAt[d]
    BY DayOfInstant, NextSampleInNat DEF NextSample
<1> HIDE DEF d, next
<1>2. /\ d \in Int /\ SampleAt[d] \in Nat /\ Midnight[d + 1] \in Nat /\ MaxDelay \in Nat
      /\ d + 1 \in 0 .. LastDay + 1
    BY <1>1, CalendarFacts
<1>3. ASSUME NEW e \in Days, t < SampleAt[e] PROVE d <= e
    <2> SUFFICES ASSUME e < d PROVE FALSE
        BY <1>1, CalendarFacts
    <2>1. e + 1 <= d /\ e + 1 \in 0 .. LastDay + 1 /\ d \in 0 .. LastDay + 1
        BY <1>1, CalendarFacts
    <2>2. Midnight[e + 1] <= Midnight[d] /\ Midnight[e + 1] \in Nat /\ Midnight[d] \in Nat
        BY <2>1, DaysInOrder, CalendarFacts
    <2>3. SampleAt[e] + MaxDelay < Midnight[e + 1] /\ SampleAt[e] \in Nat
        BY CalendarFacts
    <2> QED
        BY <2>2, <2>3, <1>1, <1>2, <1>3
<1> DEFINE Found(i) == t < SampleAt[i] /\ SampleAt[i] <= next /\ next + MaxDelay < Midnight[i + 1]
           Goal == /\ t < next
                   /\ (\E i \in Days : Found(i)) \/ Midnight[LastDay + 1] <= next
                   /\ \A e \in Days : t < SampleAt[e] => next < Midnight[e + 1]
<1>4. ASSUME t < SampleAt[d] PROVE Goal
    <2>1. next = SampleAt[d] /\ next + MaxDelay < Midnight[d + 1] /\ next < Midnight[d + 1]
        BY <1>1, <1>2, <1>4, CalendarFacts
    <2>2. ASSUME NEW e \in Days, t < SampleAt[e] PROVE next < Midnight[e + 1]
        <3>1. d + 1 <= e + 1 /\ e + 1 \in 0 .. LastDay + 1
            BY <2>2, <1>2, <1>3, CalendarFacts
        <3>2. Midnight[d + 1] <= Midnight[e + 1] /\ Midnight[e + 1] \in Nat
            BY <3>1, <1>2, DaysInOrder, CalendarFacts
        <3> QED
            BY <3>2, <2>1, <1>1, <1>2
    <2>3. Found(d) /\ t < next
        BY <2>1, <1>1, <1>2, <1>4
    <2> HIDE DEF Found
    <2> QED
        BY <2>2, <2>3, <1>1
<1>5. ASSUME ~(t < SampleAt[d]), d + 1 \in Days PROVE Goal
    <2>1. next = SampleAt[d] + DayLength
        BY <1>1, <1>2, <1>5
    <2>2. /\ SampleAt[d + 1] <= next /\ next + MaxDelay < Midnight[d + 2]
          /\ Midnight[d + 1] <= SampleAt[d + 1] /\ SampleAt[d + 1] \in Nat
          /\ d + 2 \in 0 .. LastDay + 1 /\ Midnight[d + 2] \in Nat /\ d + 1 + 1 = d + 2
        <3>1. d + 1 + 1 \in 0 .. LastDay + 1 /\ d + 1 + 1 = d + 2
            BY <1>2, <1>5, CalendarFacts
        <3>2. Midnight[d + 2] \in Nat
            BY <3>1, CalendarFacts
        <3> QED
            BY <3>1, <3>2, <2>1, <1>1, <1>5, CalendarFacts DEF NextOnItsDay
    <2>3. t < SampleAt[d + 1] /\ t < next
        BY <2>2, <1>1, <1>2
    <2>4. ASSUME NEW e \in Days, t < SampleAt[e] PROVE next < Midnight[e + 1]
        <3>1. d # e
            BY <2>4, <1>5
        <3>2. d + 2 <= e + 1 /\ e + 1 \in 0 .. LastDay + 1
            BY <3>1, <2>4, <1>2, <1>3, CalendarFacts
        <3>3. Midnight[d + 2] <= Midnight[e + 1] /\ Midnight[e + 1] \in Nat
            BY <3>2, <2>2, DaysInOrder, CalendarFacts
        <3> QED
            BY <3>3, <2>2, <1>1, <1>2
    <2> QED
        BY <2>2, <2>3, <2>4, <1>5
<1>6. ASSUME ~(t < SampleAt[d]), d + 1 \notin Days PROVE Goal
    <2>1. d = LastDay
        BY <1>1, <1>2, <1>6, CalendarFacts DEF Days
    <2>2. Midnight[LastDay + 1] <= next
        BY <2>1, <1>1, <1>2, <1>6 DEF NextOnItsDay
    <2>3. ASSUME NEW e \in Days, t < SampleAt[e] PROVE FALSE
        <3>1. d <= e /\ e <= LastDay
            BY <2>3, <1>3, CalendarFacts DEF Days
        <3>2. e = d
            BY <3>1, <2>1, CalendarFacts
        <3> QED
            BY <3>2, <2>3, <1>6
    <2> QED
        BY <2>2, <2>3, <1>1, CalendarFacts
<1>7. Goal
    BY <1>4, <1>5, <1>6
<1> QED
    BY <1>7 DEF next

----------------------------------------------------------------------------
(***************************************************************************)
(* What holds in every calendar                                            *)
(***************************************************************************)

InCalendar == now < Midnight[LastDay + 1]

\* The loop is reached through a cycle.
OwnInLoop == pc \in {"idle", "arm"} => snapshot = "own"

BaseInv == TypeOK /\ InCalendar /\ OwnInLoop

LEMMA BaseInitially == Init => BaseInv
<1> SUFFICES ASSUME Init PROVE BaseInv
    OBVIOUS
<1>1. InCalendar
    <2>1. Midnight[0] <= SampleAt[0] /\ SampleAt[0] + MaxDelay < Midnight[1] /\ 1 \in 0 .. LastDay + 1
        BY CalendarFacts DEF Days
    <2>2. Midnight[1] <= Midnight[LastDay + 1]
        BY <2>1, DaysInOrder, CalendarFacts
    <2> QED
        BY <2>1, <2>2, CalendarFacts DEF Init, InCalendar, Days
<1>2. taken \in [Days -> 0 .. 2]
    BY DEF Init
<1> QED
    BY <1>1, <1>2 DEF Init, BaseInv, TypeOK, OwnInLoop

LEMMA BaseStays ==
    ASSUME BaseInv, [Next]_vars
    PROVE  BaseInv'
<1>1. now \in Nat /\ now < Midnight[LastDay + 1]
    BY DEF BaseInv, TypeOK, InCalendar
<1>2. CASE Start \/ Arm
    <2>1. deadline' = NextSample(now) /\ deadline' \in Nat
        BY <1>1, <1>2, NextSampleInNat DEF Start, Arm
    <2> QED
        BY <2>1, <1>2 DEF Start, Arm, BaseInv, TypeOK, InCalendar, OwnInLoop
<1>3. CASE BeginCycle \/ EndCycle
    BY <1>3 DEF BeginCycle, EndCycle, BaseInv, TypeOK, InCalendar, OwnInLoop
<1>4. CASE TakeDaily
    <2>1. taken' \in [Days -> 0 .. 2] /\ forgone' \subseteq Days
        <3>1. taken \in [Days -> 0 .. 2] /\ forgone \subseteq Days /\ DayOf(now) \in Days
            BY <1>1, DayOfInstant DEF BaseInv, TypeOK
        <3> HIDE DEF DayOf
        <3> QED
            BY <3>1, <1>4 DEF TakeDaily, DailySnapshot
    <2> QED
        BY <2>1, <1>4 DEF TakeDaily, BaseInv, TypeOK, InCalendar, OwnInLoop
<1>5. CASE Shutdown \/ Crash
    BY <1>5 DEF Shutdown, Crash, ProcessEnds, BaseInv, TypeOK, InCalendar, OwnInLoop
<1>6. CASE TimePasses
    BY <1>6 DEF TimePasses, BaseInv, TypeOK, InCalendar, OwnInLoop
<1>7. CASE UNCHANGED vars
    BY <1>7 DEF vars, BaseInv, TypeOK, InCalendar, OwnInLoop
<1> QED
    BY <1>2, <1>3, <1>4, <1>5, <1>6, <1>7 DEF Next

LEMMA BaseCorrect == Spec => []BaseInv
<1>1. BaseInv /\ [Next]_vars => BaseInv'
    BY BaseStays
<1> QED
    BY <1>1, BaseInitially, PTL DEF Spec

\* The daily timer's variables keep their types in every calendar.
THEOREM TypeCorrect == Spec => []TypeOK
<1>1. BaseInv => TypeOK
    BY DEF BaseInv
<1> QED
    BY <1>1, BaseCorrect, PTL

\* In every calendar, daily records are made of the process's own readings.
THEOREM OwnReadingsCorrect == Spec => OwnReadings
<1>1. BaseInv /\ [Next]_vars => [taken' # taken => snapshot = "own"]_vars
    <2> SUFFICES ASSUME BaseInv, Next PROVE taken' # taken => snapshot = "own"
        OBVIOUS
    <2>1. CASE TakeDaily
        BY <2>1 DEF BaseInv, OwnInLoop, TakeDaily
    <2>2. CASE ~TakeDaily
        BY <2>2 DEF Next, Start, BeginCycle, EndCycle, Arm, Shutdown, Crash, ProcessEnds, TimePasses
    <2> QED
        BY <2>1, <2>2
<1> QED
    BY <1>1, BaseCorrect, PTL DEF Spec, OwnReadings

----------------------------------------------------------------------------
(***************************************************************************)
(* One record a day, where NextOnItsDay                                    *)
(***************************************************************************)

Up == pc # "down"

\* The timer, served at its latest, belongs to day d.
DueOn(d) == SampleAt[d] <= deadline /\ deadline + MaxDelay < Midnight[d + 1]

Scheduled ==
    Up => /\ deadline \in Nat
          /\ (\E d \in Days : DueOn(d)) \/ Midnight[LastDay + 1] <= deadline

Served ==
    /\ Up => now <= deadline + MaxDelay
    /\ pc = "arm" => deadline <= now

\* Unserved, it is due before the end of the first day whose HH:MM is to come.
NothingBetween ==
    pc \in {"cycle", "idle"} =>
        \A d \in Days : now < SampleAt[d] => deadline < Midnight[d + 1]

\* No record before HH:MM, and none yet of the day the timer is due on.
Unrecorded ==
    /\ \A d \in Days : taken[d] > 0 => SampleAt[d] <= now
    /\ \A d \in Days : pc \in {"cycle", "idle"} /\ DueOn(d) => taken[d] = 0

\* The daily snapshot of a day has been taken: its record is there, or was not
\* written then.
Sampled(d) == taken[d] > 0 \/ d \in forgone

\* Every HH:MM of this process's life was sampled, but for that of the day the
\* timer is still due on.
AllSampled ==
    Up => /\ startedAt \in Nat
          /\ \A d \in Days : startedAt < SampleAt[d] /\ SampleAt[d] <= now =>
                Sampled(d) \/ (pc # "arm" /\ DueOn(d))

IInv ==
    /\ BaseInv
    /\ Scheduled
    /\ Served
    /\ NothingBetween
    /\ Unrecorded
    /\ AllSampled
    /\ AtMostOnePerDay

\* What NoDayMissed says when a clock was set forward: the daily snapshot may be
\* late, but it has been taken when the day ends.
SampledByDaysEnd ==
    Up => \A d \in Days : startedAt < SampleAt[d] /\ Midnight[d + 1] <= now => Sampled(d)

LEMMA DueOnDay ==
    ASSUME deadline \in Nat, NEW d \in Days, DueOn(d)
    PROVE  /\ Midnight[d] <= deadline /\ deadline < Midnight[d + 1]
           /\ deadline + MaxDelay < Midnight[d + 1]
           /\ deadline < Midnight[LastDay + 1]
           /\ \A e \in Days : Midnight[e] <= deadline /\ deadline < Midnight[e + 1] => e = d
           /\ \A e \in Days : DueOn(e) => e = d
<1>1. /\ Midnight[d] <= deadline /\ deadline < Midnight[d + 1]
      /\ deadline + MaxDelay < Midnight[d + 1]
    BY CalendarFacts DEF DueOn
<1>2. Midnight[d + 1] <= Midnight[LastDay + 1] /\ Midnight[LastDay + 1] \in Nat /\ Midnight[d + 1] \in Nat
    <2>1. d + 1 \in 0 .. LastDay + 1 /\ LastDay + 1 \in 0 .. LastDay + 1 /\ d + 1 <= LastDay + 1
        BY CalendarFacts
    <2> QED
        BY <2>1, DaysInOrder, CalendarFacts
<1>3. ASSUME NEW e \in Days, Midnight[e] <= deadline, deadline < Midnight[e + 1] PROVE e = d
    BY <1>1, <1>3, OneDay
<1>4. ASSUME NEW e \in Days, DueOn(e) PROVE e = d
    <2>1. Midnight[e] <= deadline /\ deadline < Midnight[e + 1]
        BY <1>4, CalendarFacts DEF DueOn
    <2> QED
        BY <2>1, <1>3
<1> QED
    BY <1>1, <1>2, <1>3, <1>4

\* A timer that has fired is due today.
LEMMA FiredToday ==
    ASSUME IInv, Up, deadline <= now
    PROVE  DayOf(now) \in Days /\ DueOn(DayOf(now)) /\ now < Midnight[DayOf(now) + 1]
<1>1. /\ now \in Nat /\ now < Midnight[LastDay + 1] /\ deadline \in Nat
      /\ now <= deadline + MaxDelay
    BY DEF IInv, BaseInv, TypeOK, InCalendar, Scheduled, Served
<1>2. PICK e \in Days : DueOn(e)
    BY <1>1, CalendarFacts DEF IInv, Scheduled
<1>3. Midnight[e] <= now /\ now < Midnight[e + 1]
    BY <1>1, <1>2, DueOnDay, CalendarFacts
<1>4. /\ DayOf(now) \in Days /\ Midnight[DayOf(now)] <= now
      /\ now < Midnight[DayOf(now) + 1]
    BY <1>1, DayOfInstant
<1>5. DayOf(now) = e
    BY <1>1, <1>3, <1>4, OneDay
<1> QED
    BY <1>2, <1>3, <1>5

\* Every step that sets the timer leaves it as the invariant demands.
LEMMA ArmedInv ==
    ASSUME NextOnItsDay, IInv, deadline' = NextSample(now), now' = now, taken' = taken,
           pc' # "arm"
    PROVE  Scheduled' /\ Served' /\ NothingBetween' /\ Unrecorded'
<1>1. now \in Nat /\ now < Midnight[LastDay + 1] /\ taken \in [Days -> 0 .. 2]
    BY DEF IInv, BaseInv, TypeOK, InCalendar
<1>2. /\ deadline' \in Nat /\ now < deadline'
      /\ \/ \E d \in Days : /\ now < SampleAt[d] /\ SampleAt[d] <= deadline'
                            /\ deadline' + MaxDelay < Midnight[d + 1]
         \/ Midnight[LastDay + 1] <= deadline'
      /\ \A e \in Days : now < SampleAt[e] => deadline' < Midnight[e + 1]
    BY <1>1, NextSampleInNat, NextSampleIsFirst
<1>3. Scheduled'
    BY <1>2 DEF Scheduled, DueOn
<1>4. Served'
    BY <1>1, <1>2, CalendarFacts DEF Served
<1>5. NothingBetween'
    BY <1>2 DEF NothingBetween
<1>6. Unrecorded'
    <2>1. ASSUME NEW d \in Days, DueOn(d)' PROVE taken[d] = 0
        <3>1. Midnight[d] <= deadline' /\ deadline' < Midnight[d + 1]
            BY <1>2, <2>1, CalendarFacts DEF DueOn
        <3>2. deadline' < Midnight[LastDay + 1]
            <4>1. d + 1 \in 0 .. LastDay + 1 /\ LastDay + 1 \in 0 .. LastDay + 1 /\ d + 1 <= LastDay + 1
                BY CalendarFacts
            <4>2. Midnight[d + 1] <= Midnight[LastDay + 1]
                BY <4>1, DaysInOrder
            <4> QED
                BY <4>1, <4>2, <3>1, <1>2, CalendarFacts
        <3>3. PICK e \in Days : /\ now < SampleAt[e] /\ SampleAt[e] <= deadline'
                                /\ deadline' + MaxDelay < Midnight[e + 1]
            BY <3>2, <1>2, CalendarFacts
        <3>4. Midnight[e] <= deadline' /\ deadline' < Midnight[e + 1]
            BY <3>3, <1>2, CalendarFacts
        <3>5. e = d
            BY <3>1, <3>4, <1>2, OneDay
        <3>6. ~(SampleAt[d] <= now)
            BY <3>3, <3>5, <1>1, CalendarFacts
        <3>7. taken[d] \in 0 .. 2 /\ ~(taken[d] > 0)
            BY <3>6, <1>1 DEF IInv, Unrecorded
        <3> QED
            BY <3>7
    <2> QED
        BY <2>1 DEF IInv, Unrecorded
<1> QED
    BY <1>3, <1>4, <1>5, <1>6

LEMMA StartKeeps ==
    ASSUME NextOnItsDay, IInv, Start
    PROVE  IInv'
<1>1. now \in Nat
    BY DEF IInv, BaseInv, TypeOK
<1>2. BaseInv'
    BY BaseStays DEF IInv, Next
<1>3. Scheduled' /\ Served' /\ NothingBetween' /\ Unrecorded'
    BY ArmedInv DEF Start
<1>4. AllSampled'
    BY <1>1, CalendarFacts DEF AllSampled, Sampled, Start
<1>5. AtMostOnePerDay'
    BY DEF IInv, AtMostOnePerDay, Start
<1> QED
    BY <1>2, <1>3, <1>4, <1>5 DEF IInv

LEMMA CycleKeeps ==
    ASSUME IInv, BeginCycle \/ EndCycle
    PROVE  IInv'
<1>1. BaseInv'
    BY BaseStays DEF IInv, Next
<1>2. Scheduled' /\ Served' /\ NothingBetween' /\ Unrecorded'
    BY DEF IInv, Scheduled, Served, NothingBetween, Unrecorded, DueOn, Up, BeginCycle, EndCycle
<1>3. AllSampled' /\ AtMostOnePerDay'
    BY DEF IInv, AllSampled, Sampled, AtMostOnePerDay, DueOn, Up, BeginCycle, EndCycle
<1> QED
    BY <1>1, <1>2, <1>3 DEF IInv

LEMMA TakeKeeps ==
    ASSUME IInv, TakeDaily
    PROVE  IInv'
<1> DEFINE today == DayOf(now)
<1>1. today \in Days /\ DueOn(today) /\ now \in Nat /\ deadline \in Nat /\ deadline <= now
    BY FiredToday DEF TakeDaily, Up, IInv, BaseInv, TypeOK, Scheduled
<1> HIDE DEF today
<1>2. snapshot = "own" /\ taken[today] = 0 /\ taken \in [Days -> 0 .. 2]
    BY <1>1 DEF IInv, BaseInv, OwnInLoop, Unrecorded, TypeOK, TakeDaily
<1>3. \/ taken' = [taken EXCEPT ![today] = 1] /\ forgone' = forgone
      \/ taken' = taken /\ forgone' = forgone \cup {today}
    BY <1>1, <1>2 DEF TakeDaily, DailySnapshot, today
<1>4. /\ taken' \in [Days -> 0 .. 2] /\ taken'[today] \in {0, 1}
      /\ \A d \in Days : d # today => taken'[d] = taken[d]
      /\ taken'[today] > 0 \/ today \in forgone'
      /\ forgone \subseteq forgone'
    BY <1>1, <1>2, <1>3
<1>5. BaseInv'
    BY BaseStays DEF IInv, Next
<1>6. Scheduled' /\ Served' /\ NothingBetween'
    BY DEF IInv, Scheduled, Served, NothingBetween, DueOn, Up, TakeDaily
<1>7. Unrecorded'
    <2>1. SampleAt[today] <= now
        BY <1>1, CalendarFacts DEF DueOn
    <2> QED
        BY <2>1, <1>1, <1>4 DEF IInv, Unrecorded, TakeDaily
<1>8. AllSampled'
    <2> SUFFICES ASSUME NEW d \in Days, startedAt < SampleAt[d], SampleAt[d] <= now
                 PROVE  taken'[d] > 0 \/ d \in forgone'
        BY DEF IInv, AllSampled, Sampled, Up, TakeDaily
    <2>1. taken[d] > 0 \/ d \in forgone \/ DueOn(d)
        BY DEF IInv, AllSampled, Sampled, Up, TakeDaily
    <2>2. DueOn(d) => d = today
        BY <1>1, DueOnDay
    <2> QED
        BY <2>1, <2>2, <1>4
<1>9. AtMostOnePerDay'
    BY <1>2, <1>4 DEF IInv, AtMostOnePerDay, TakeDaily
<1> QED
    BY <1>5, <1>6, <1>7, <1>8, <1>9 DEF IInv

LEMMA ArmKeeps ==
    ASSUME NextOnItsDay, IInv, Arm
    PROVE  IInv'
<1>1. BaseInv'
    BY BaseStays DEF IInv, Next
<1>2. Scheduled' /\ Served' /\ NothingBetween' /\ Unrecorded'
    BY ArmedInv DEF Arm
<1>3. AllSampled' /\ AtMostOnePerDay'
    BY DEF IInv, AllSampled, Sampled, AtMostOnePerDay, Up, Arm
<1> QED
    BY <1>1, <1>2, <1>3 DEF IInv

LEMMA EndKeeps ==
    ASSUME IInv, Shutdown \/ Crash
    PROVE  IInv'
<1>1. BaseInv'
    BY BaseStays DEF IInv, Next
<1>2. Scheduled' /\ Served' /\ NothingBetween' /\ Unrecorded'
    BY DEF IInv, Scheduled, Served, NothingBetween, Unrecorded, Up, Shutdown, Crash, ProcessEnds
<1>3. AllSampled' /\ AtMostOnePerDay'
    BY DEF IInv, AllSampled, Sampled, AtMostOnePerDay, Up, Shutdown, Crash, ProcessEnds
<1> QED
    BY <1>1, <1>2, <1>3 DEF IInv

\* When HH:MM of a day is reached, the timer is due on that day.
LEMMA TimeKeeps ==
    ASSUME IInv, TimePasses
    PROVE  IInv'
<1>1. now \in Nat /\ now' = now + 1 /\ now' < Midnight[LastDay + 1]
    BY DEF IInv, BaseInv, TypeOK, TimePasses
<1>2. Up => deadline \in Nat /\ now' <= deadline + MaxDelay
    BY <1>1, CalendarFacts DEF IInv, Scheduled, Never, TimePasses
<1>3. BaseInv'
    BY BaseStays DEF IInv, Next
<1>4. Scheduled' /\ NothingBetween'
    BY <1>1, CalendarFacts DEF IInv, Scheduled, NothingBetween, DueOn, Up, TimePasses
<1>5. Served'
    BY <1>1, <1>2, CalendarFacts DEF IInv, Served, Up, TimePasses
<1>6. Unrecorded'
    BY <1>1, CalendarFacts DEF IInv, Unrecorded, DueOn, TimePasses
<1>7. AllSampled'
    <2> SUFFICES ASSUME Up, NEW d \in Days, startedAt < SampleAt[d], SampleAt[d] <= now'
                 PROVE  Sampled(d) \/ (pc # "arm" /\ DueOn(d))
        BY DEF IInv, AllSampled, Sampled, DueOn, Up, TimePasses
    <2>1. CASE SampleAt[d] <= now
        BY <2>1 DEF IInv, AllSampled
    <2>2. CASE SampleAt[d] = now + 1
        <3>1. ~(deadline <= now)
            <4> SUFFICES ASSUME deadline <= now PROVE FALSE
                OBVIOUS
            <4>1. PICK e \in Days : DueOn(e)
                BY <1>1, <1>2, CalendarFacts DEF IInv, BaseInv, InCalendar, Scheduled
            <4>2. now' < Midnight[e + 1] /\ Midnight[e] <= now'
                BY <4>1, <1>1, <1>2, DueOnDay, CalendarFacts
            <4>3. Midnight[d] <= now' /\ now' < Midnight[d + 1]
                BY <2>2, <1>1, CalendarFacts
            <4>4. e = d
                BY <4>2, <4>3, <1>1, OneDay
            <4> QED
                BY <4>1, <4>4, <2>2, <1>1, <1>2, CalendarFacts DEF DueOn
        <3>2. pc \in {"cycle", "idle"}
            BY <3>1 DEF IInv, BaseInv, TypeOK, Served, Up
        <3>3. deadline < Midnight[d + 1] /\ SampleAt[d] <= deadline /\ Midnight[d] <= deadline
            BY <3>1, <3>2, <2>2, <1>1, <1>2, CalendarFacts DEF IInv, NothingBetween
        <3>4. deadline < Midnight[LastDay + 1]
            <4>1. d + 1 \in 0 .. LastDay + 1 /\ LastDay + 1 \in 0 .. LastDay + 1 /\ d + 1 <= LastDay + 1
                BY CalendarFacts
            <4>2. Midnight[d + 1] <= Midnight[LastDay + 1]
                BY <4>1, DaysInOrder
            <4> QED
                BY <4>1, <4>2, <3>3, <1>2, CalendarFacts
        <3>5. PICK e \in Days : DueOn(e)
            BY <3>4, <1>2, CalendarFacts DEF IInv, Scheduled
        <3>6. e = d
            BY <3>3, <3>5, <1>2, DueOnDay
        <3> QED
            BY <3>2, <3>5, <3>6
    <2> QED
        BY <2>1, <2>2, <1>1, CalendarFacts
<1>8. AtMostOnePerDay'
    BY DEF IInv, AtMostOnePerDay, TimePasses
<1> QED
    BY <1>3, <1>4, <1>5, <1>6, <1>7, <1>8 DEF IInv

LEMMA InitHolds == Init => IInv
<1> SUFFICES ASSUME Init PROVE IInv
    OBVIOUS
<1>1. Scheduled /\ Served /\ NothingBetween /\ Unrecorded /\ AllSampled /\ AtMostOnePerDay
    BY CalendarFacts DEF Init, Scheduled, Served, NothingBetween, Unrecorded, AllSampled,
                         AtMostOnePerDay, Up
<1> QED
    BY <1>1, BaseInitially DEF IInv

LEMMA StepKeeps ==
    ASSUME NextOnItsDay, IInv, [Next]_vars
    PROVE  IInv'
<1>1. CASE UNCHANGED vars
    BY <1>1 DEF vars, IInv, BaseInv, TypeOK, InCalendar, OwnInLoop, Scheduled, Served,
                NothingBetween, Unrecorded, AllSampled, Sampled, AtMostOnePerDay, DueOn, Up
<1> QED
    BY <1>1, StartKeeps, CycleKeeps, TakeKeeps, ArmKeeps, EndKeeps, TimeKeeps DEF Next

\* The inductive invariant holds in every behaviour, for every calendar in
\* which the timer meets each day.
THEOREM IInvCorrect == ASSUME NextOnItsDay PROVE Spec => []IInv
<1>1. IInv /\ [Next]_vars => IInv'
    BY StepKeeps
<1> QED
    BY <1>1, InitHolds, PTL DEF Spec

\* No day gets two daily records, however the process is stopped, killed and
\* started again: only a clock that is set back, or one set forward when HH:MM
\* is in the last hour of the day, can make it two.
THEOREM AtMostOnePerDayCorrect == ASSUME NextOnItsDay PROVE Spec => []AtMostOnePerDay
<1>1. IInv => AtMostOnePerDay
    BY DEF IInv
<1> QED
    BY <1>1, IInvCorrect, PTL

\* A process that lives through a day from before its HH:MM has taken its daily
\* snapshot when the day ends: its record is there, unless the snapshot lacked the
\* disk or the append failed.
THEOREM SampledByDaysEndCorrect == ASSUME NextOnItsDay PROVE Spec => []SampledByDaysEnd
<1>1. IInv => SampledByDaysEnd
    <2> SUFFICES ASSUME IInv, Up, NEW d \in Days, startedAt < SampleAt[d], Midnight[d + 1] <= now
                 PROVE  Sampled(d)
        BY DEF SampledByDaysEnd
    <2>1. now \in Nat /\ deadline \in Nat /\ now <= deadline + MaxDelay
        BY DEF IInv, BaseInv, TypeOK, Scheduled, Served
    <2>2. SampleAt[d] <= now
        BY <2>1, CalendarFacts
    <2>3. ~DueOn(d)
        BY <2>1, CalendarFacts DEF DueOn
    <2> QED
        BY <2>2, <2>3 DEF IInv, AllSampled
<1> QED
    BY <1>1, IInvCorrect, PTL

----------------------------------------------------------------------------
(***************************************************************************)
(* Without daylight saving                                                 *)
(***************************************************************************)

LEMMA EvenIsOnItsDay ==
    ASSUME EvenCalendar
    PROVE  NextOnItsDay
<1>1. ASSUME NEW d \in Days, d + 1 \in Days
      PROVE  /\ SampleAt[d + 1] <= SampleAt[d] + DayLength
             /\ SampleAt[d] + DayLength + MaxDelay < Midnight[d + 2]
    <2>1. SampleAt[d + 1] = SampleAt[d] + DayLength /\ SampleAt[d + 1] \in Nat
        BY <1>1, CalendarFacts DEF EvenCalendar
    <2>2. SampleAt[d + 1] + MaxDelay < Midnight[d + 1 + 1] /\ d + 1 + 1 = d + 2
        BY <1>1, CalendarFacts
    <2> QED
        BY <2>1, <2>2
<1> QED
    BY <1>1 DEF NextOnItsDay, EvenCalendar

\* The timer is set for HH:MM itself.
Exact ==
    Up => (\E d \in Days : deadline = SampleAt[d]) \/ Midnight[LastDay + 1] <= deadline

LEMMA ExactStays ==
    ASSUME EvenCalendar, BaseInv, Exact, [Next]_vars
    PROVE  Exact'
<1>1. CASE Start \/ Arm
    <2> DEFINE d == DayOf(now)
    <2>1. d \in Days /\ deadline' = IF SampleAt[d] <= now THEN SampleAt[d] + DayLength ELSE SampleAt[d]
        BY <1>1, DayOfInstant DEF BaseInv, TypeOK, InCalendar, Start, Arm, NextSample
    <2> HIDE DEF d
    <2>2. d + 1 \in Days \/ d = LastDay
        BY <2>1, DaysAssumption DEF Days
    <2> QED
        BY <2>1, <2>2 DEF Exact, EvenCalendar
<1>2. CASE BeginCycle \/ EndCycle \/ TakeDaily \/ TimePasses \/ UNCHANGED vars
    BY <1>2 DEF BeginCycle, EndCycle, TakeDaily, TimePasses, vars, Exact, Up
<1>3. CASE Shutdown \/ Crash
    BY <1>3 DEF Shutdown, Crash, ProcessEnds, Exact, Up
<1> QED
    BY <1>1, <1>2, <1>3 DEF Next

\* Without daylight saving, a process that lives through HH:MM of a day takes
\* that day's snapshot: no record is missing but one whose writing failed then.
THEOREM NoDayMissedCorrect == ASSUME EvenCalendar PROVE Spec => []NoDayMissed
<1>1. Init => Exact
    BY DEF Init, Exact, Up
<1>2. BaseInv /\ Exact /\ [Next]_vars => Exact'
    BY ExactStays
<1>3. IInv /\ Exact => NoDayMissed
    <2> SUFFICES ASSUME IInv, Exact, pc \in {"cycle", "idle"},
                        NEW d \in Days, startedAt < SampleAt[d], SampleAt[d] <= now
                 PROVE  Sampled(d) \/ deadline = SampleAt[d]
        BY DEF NoDayMissed, Sampled
    <2>1. deadline \in Nat /\ (Sampled(d) \/ DueOn(d))
        BY DEF IInv, AllSampled, Scheduled, Up
    <2>2. ASSUME DueOn(d) PROVE deadline = SampleAt[d]
        <3>1. PICK e \in Days : deadline = SampleAt[e]
            BY <2>1, <2>2, DueOnDay, CalendarFacts DEF Exact, Up
        <3>2. Midnight[e] <= deadline /\ deadline < Midnight[e + 1]
            BY <3>1, CalendarFacts
        <3> QED
            BY <3>1, <3>2, <2>1, <2>2, DueOnDay
    <2> QED
        BY <2>1, <2>2
<1>4. Spec => []IInv
    BY EvenIsOnItsDay, IInvCorrect
<1> QED
    BY <1>1, <1>2, <1>3, <1>4, BaseCorrect, PTL DEF Spec

----------------------------------------------------------------------------
(***************************************************************************)
(* The loop that also measures and cleans the directory                    *)
(***************************************************************************)

\* Measuring and cleaning the directory leaves the daily timer's steps as they
\* are: each step of the loop is one of DailyTimer's or none.
THEOREM ImplementsDailyTimer == UpkeepSpec => Spec
<1>1. UpkeepInit => Init
  BY DEF UpkeepInit
<1>2. [UpkeepNext]_upkeepVars => [Next]_vars
  BY DEF UpkeepNext, upkeepVars, StartAndClean, BeginMeasuredCycle, EndMeasuredCycle,
         TakeDailyAndClean, EndWithSizer, DirGrows, Next
<1> QED
  BY <1>1, <1>2, PTL DEF UpkeepSpec, Spec

\* With the directory cleaned by every daily snapshot, too, no day has two
\* records.
COROLLARY UpkeepAtMostOnePerDay ==
    ASSUME NextOnItsDay PROVE UpkeepSpec => []AtMostOnePerDay
  BY ImplementsDailyTimer, AtMostOnePerDayCorrect, PTL

----------------------------------------------------------------------------
(***************************************************************************)
(* The size of the directory                                               *)
(***************************************************************************)

DirTypeOK ==
    /\ now \in Nat
    /\ dirSize \in Sizes
    /\ lastSeen \in [Sizes -> Nat \cup {Unmeasured}]

CycleStarted ==
    /\ cycleAt \in Nat \cup {Never}
    /\ cycleAt <= now
    /\ pc = "cycle" => cycleAt # Never

\* The size kept is the directory's, or was when or after it was measured.
KeptSizeSeen ==
    /\ lastAt \in Nat \cup {Unmeasured}
    /\ lastAt <= now
    /\ lastAt # Unmeasured =>
         /\ lastSize \in Sizes
         /\ lastSize = dirSize \/ lastSeen[lastSize] >= lastAt

DirInv == DirTypeOK /\ CycleStarted /\ KeptSizeSeen

\* A new size leaves behind what was seen: the kept size may be the one that
\* passes now.
LEMMA ResizeKeeps ==
    ASSUME DirInv, NEW size \in Sizes, Resize(size, now), now' = now
    PROVE  /\ DirTypeOK'
           /\ lastAt # Unmeasured =>
                lastSize = dirSize' \/ lastSeen'[lastSize] >= lastAt
<1>1. CASE size = dirSize
  BY <1>1 DEF DirInv, DirTypeOK, KeptSizeSeen, Resize
<1>2. CASE size # dirSize
  <2>1. lastSeen' = [lastSeen EXCEPT ![dirSize] = now] /\ dirSize' = size
    BY <1>2 DEF Resize
  <2>2. DirTypeOK'
    BY <2>1 DEF DirInv, DirTypeOK
  <2>3. ASSUME lastAt # Unmeasured, lastSize = dirSize
        PROVE  lastSeen'[lastSize] >= lastAt
    BY <2>1, <2>3 DEF DirInv, DirTypeOK, KeptSizeSeen
  <2>4. ASSUME lastAt # Unmeasured, lastSize # dirSize
        PROVE  lastSeen'[lastSize] >= lastAt
    BY <2>1, <2>4 DEF DirInv, DirTypeOK, KeptSizeSeen
  <2> QED
    BY <2>2, <2>3, <2>4
<1> QED
  BY <1>1, <1>2

LEMMA CleanKeeps ==
    ASSUME DirInv, Clean(now), now' = now
    PROVE  /\ DirTypeOK'
           /\ lastAt # Unmeasured =>
                lastSize = dirSize' \/ lastSeen'[lastSize] >= lastAt
<1>1. PICK size \in 1 .. dirSize : Resize(size, now)
  BY DEF Clean
<1>2. size \in Sizes
  BY SizeAssumption DEF DirInv, DirTypeOK, Sizes
<1> QED
  BY <1>1, <1>2, ResizeKeeps

\* What the end of a cycle keeps was measured at its beginning, or before.
LEMMA SizeKeeps ==
    ASSUME DirInv, pc = "cycle", Size(cycleAt), now' = now, cycleAt' = Never
    PROVE  DirTypeOK' /\ KeptSizeSeen'
<1>1. cycleAt \in Nat /\ cycleAt <= now
  BY DEF DirInv, CycleStarted
<1>2. DirTypeOK'
  BY DEF DirInv, DirTypeOK, Size, dirVars
<1>3. KeptSizeSeen'
  BY <1>1 DEF DirInv, DirTypeOK, KeptSizeSeen, Size, dirVars
<1> QED
  BY <1>2, <1>3

LEMMA DirInvInitially == UpkeepInit => DirInv
  BY SizeAssumption
     DEF UpkeepInit, Init, DirInit, DirInv, DirTypeOK, CycleStarted, KeptSizeSeen, Sizes,
         Unmeasured, Never

LEMMA DirInvStays ==
    ASSUME DirInv, [UpkeepNext]_upkeepVars
    PROVE  DirInv'
<1>1. CASE StartAndClean
  <2>1. now' = now /\ cycleAt' = now /\ lastAt' = Unmeasured
    BY <1>1 DEF StartAndClean, Start, NewSizer
  <2>2. DirTypeOK'
    BY <1>1, <2>1, CleanKeeps DEF StartAndClean
  <2>3. CycleStarted' /\ KeptSizeSeen'
    BY <2>1 DEF DirInv, DirTypeOK, CycleStarted, KeptSizeSeen, Never, Unmeasured
  <2> QED
    BY <2>2, <2>3 DEF DirInv
<1>2. CASE BeginMeasuredCycle
  BY <1>2 DEF BeginMeasuredCycle, BeginCycle, sizerVars, dirVars, DirInv, DirTypeOK,
              CycleStarted, KeptSizeSeen, Never
<1>3. CASE EndMeasuredCycle
  <2>1. pc = "cycle" /\ pc' = "idle" /\ now' = now /\ cycleAt' = Never /\ Size(cycleAt)
    BY <1>3 DEF EndMeasuredCycle, EndCycle
  <2>2. DirTypeOK' /\ KeptSizeSeen'
    BY <2>1, SizeKeeps
  <2>3. CycleStarted'
    BY <2>1 DEF DirInv, DirTypeOK, CycleStarted, Never
  <2> QED
    BY <2>2, <2>3 DEF DirInv
<1>4. CASE TakeDailyAndClean
  <2>1. now' = now /\ pc' = "arm" /\ UNCHANGED <<sizerVars, cycleAt>>
    BY <1>4 DEF TakeDailyAndClean, TakeDaily
  <2>2. CASE snapshot = "nil"
    BY <1>4, <2>1, <2>2 DEF TakeDailyAndClean, sizerVars, dirVars, DirInv, DirTypeOK,
                            CycleStarted, KeptSizeSeen
  <2>3. CASE snapshot # "nil"
    <3>1. Clean(now)
      BY <1>4, <2>3 DEF TakeDailyAndClean
    <3>2. DirTypeOK' /\ (lastAt # Unmeasured =>
                           lastSize = dirSize' \/ lastSeen'[lastSize] >= lastAt)
      BY <2>1, <3>1, CleanKeeps
    <3> QED
      BY <2>1, <3>2 DEF sizerVars, DirInv, CycleStarted, KeptSizeSeen
  <2> QED
    BY <2>2, <2>3
<1>5. CASE EndWithSizer
  <2>1. now' = now /\ pc' = "down"
    BY <1>5 DEF EndWithSizer, Shutdown, Crash, ProcessEnds
  <2> QED
    BY <1>5, <2>1 DEF EndWithSizer, NewSizer, dirVars, DirInv, DirTypeOK, CycleStarted,
                      KeptSizeSeen, Never, Unmeasured
<1>6. CASE DirGrows
  <2>1. /\ UNCHANGED <<pc, now, cycleAt, sizerVars>>
        /\ Resize(dirSize + 1, now)
        /\ dirSize + 1 \in Sizes
    BY <1>6, SizeAssumption DEF DirGrows, Grow, vars, DirInv, DirTypeOK, Sizes
  <2>2. DirTypeOK' /\ (lastAt # Unmeasured =>
                         lastSize = dirSize' \/ lastSeen'[lastSize] >= lastAt)
    BY <2>1, ResizeKeeps
  <2> QED
    BY <2>1, <2>2 DEF sizerVars, DirInv, CycleStarted, KeptSizeSeen
<1>7. CASE (Arm \/ TimePasses) /\ UNCHANGED <<sizerVars, dirVars, cycleAt>>
  BY <1>7 DEF Arm, TimePasses, sizerVars, dirVars, DirInv, DirTypeOK, CycleStarted,
              KeptSizeSeen, Never, Unmeasured
<1>8. CASE UNCHANGED upkeepVars
  BY <1>8 DEF upkeepVars, vars, sizerVars, dirVars, DirInv, DirTypeOK, CycleStarted,
              KeptSizeSeen
<1> QED
  BY <1>1, <1>2, <1>3, <1>4, <1>5, <1>6, <1>7, <1>8 DEF UpkeepNext

\* Only the end of a cycle leads from "cycle" to "idle".
LEMMA RecentAtCycleEnd ==
    ASSUME DirInv, [UpkeepNext]_upkeepVars, pc = "cycle", pc' = "idle", ~walkFailed'
    PROVE  /\ reported' \in Sizes
           /\ reported' = dirSize \/ lastSeen[reported'] > cycleAt - CheckInterval
<1>1. Size(cycleAt)
  BY DEF UpkeepNext, upkeepVars, vars, StartAndClean, Start, BeginMeasuredCycle, BeginCycle,
         EndMeasuredCycle, TakeDailyAndClean, TakeDaily, EndWithSizer, Shutdown, Crash,
         ProcessEnds, DirGrows, Arm, TimePasses
<1>2. cycleAt \in Nat
  BY DEF DirInv, CycleStarted
<1>3. CASE Cached(cycleAt) /\ reported' = lastSize
  BY <1>2, <1>3, CheckIntervalAssumption
     DEF Cached, DirInv, DirTypeOK, KeptSizeSeen, Unmeasured
<1>4. CASE reported' = dirSize
  BY <1>4 DEF DirInv, DirTypeOK
<1> QED
  BY <1>1, <1>3, <1>4 DEF Size

\* For every interval and size, whatever fails: a cycle is told a size the
\* directory had less than the interval before, unless its own walk failed.
THEOREM ReportedSizeRecentCorrect == UpkeepSpec => ReportedSizeRecent
<1>1. DirInv /\ [UpkeepNext]_upkeepVars => DirInv'
  BY DirInvStays
<1>2. DirInv /\ [UpkeepNext]_upkeepVars =>
        [pc = "cycle" /\ pc' = "idle" /\ ~walkFailed' =>
            /\ reported' \in Sizes
            /\ reported' = dirSize \/ lastSeen[reported'] > cycleAt - CheckInterval]_upkeepVars
  BY RecentAtCycleEnd
<1> QED
  BY DirInvInitially, <1>1, <1>2, PTL DEF UpkeepSpec, ReportedSizeRecent

====
