---- MODULE DailyTimer ----
(***************************************************************************)
(* The daily snapshot of internal/daemon/daemon.go: the timer that         *)
(* setupDailyTimer arms from the wall clock, the loop of Run that serves   *)
(* it between collection cycles, and the record that dailySnapshot writes  *)
(* from the last snapshot, across stops, crashes and restarts.             *)
(*                                                                         *)
(* The calendar of the time zone is a parameter: on which instant each day *)
(* begins, and on which its HH:MM (disk.sample_daily_at) falls.  With      *)
(* daylight saving a day has 23, 24 or 25 hours; setupDailyTimer adds 24.  *)
(*                                                                         *)
(* now = t stands for the real instants strictly between t and t+1, so two *)
(* readings of the clock by the program never meet a sample instant        *)
(* exactly, and time always passes between them.                           *)
(***************************************************************************)
EXTENDS Integers

CONSTANTS
    LastDay,     \* bound: the days are 0..LastDay
    Midnight,    \* Midnight[d]: the instant at which day d begins
    SampleAt,    \* SampleAt[d]: the instant of HH:MM on day d
    DayLength,   \* 24 hours
    MaxDelay     \* a cycle, with its notifiers, delays the select no longer

Days == 0 .. LastDay

ASSUME DaysAssumption == LastDay \in Nat /\ DayLength \in Nat \ {0} /\ MaxDelay \in Nat
ASSUME CalendarAssumption ==
    /\ Midnight \in [0 .. LastDay + 1 -> Nat]
    /\ Midnight[0] = 0
    /\ \A d \in Days : Midnight[d] < Midnight[d + 1]
    /\ SampleAt \in [Days -> Nat]
    /\ \A d \in Days : Midnight[d] <= SampleAt[d] /\ SampleAt[d] + MaxDelay < Midnight[d + 1]

\* No change of the clocks lies between HH:MM of one day and of the next.
EvenCalendar ==
    /\ \A d \in Days : d + 1 \in Days => SampleAt[d + 1] = SampleAt[d] + DayLength
    /\ Midnight[LastDay + 1] <= SampleAt[LastDay] + DayLength

\* 24 hours after HH:MM of one day come on the next day, not before its HH:MM,
\* and early enough for its record to be of that day: no clock is set back in
\* between, and when one is set forward HH:MM is not in the day's last hour.
NextOnItsDay ==
    /\ \A d \in Days : d + 1 \in Days =>
        /\ SampleAt[d + 1] <= SampleAt[d] + DayLength
        /\ SampleAt[d] + DayLength + MaxDelay < Midnight[d + 2]
    /\ Midnight[LastDay + 1] <= SampleAt[LastDay] + DayLength

Never == -1

VARIABLES
    pc,          \* where Run is; "down" when no process runs
    now,         \* the clock
    deadline,    \* of the timer last set up; Never when no process runs
    snapshot,    \* state.LastSnapshot: none, from state.json, or this process's own
    onDisk,      \* state.json holds a snapshot
    startedAt,   \* observer: when this process armed its first timer
    taken,       \* observer: taken[d], daily records of a disk dated d, counted up to 2
    forgone      \* observer: the days on which a daily snapshot did not write the record

vars == <<pc, now, deadline, snapshot, onDisk, startedAt, taken, forgone>>

\* The types: the timer is set for an instant, or there is none when no process runs.
TypeOK ==
    /\ pc \in {"down", "cycle", "idle", "arm"}
    /\ now \in Nat
    /\ deadline \in Nat \cup {Never}
    /\ snapshot \in {"nil", "restored", "own"}
    /\ onDisk \in BOOLEAN
    /\ startedAt \in Nat \cup {Never}
    /\ taken \in [Days -> 0 .. 2]
    /\ forgone \subseteq Days

\* The local date of an instant.
DayOf(t) == CHOOSE d \in Days : Midnight[d] <= t /\ t < Midnight[d + 1]

\* Mutation: the instant of today, even when it has passed.
NextSampleToday(t) == SampleAt[DayOf(t)]

\* Mutation: always tomorrow's.
NextSampleTomorrow(t) == SampleAt[DayOf(t)] + DayLength

\* Mutation: the day is subtracted.
NextSampleBack(t) ==
    LET next == SampleAt[DayOf(t)] IN IF next <= t THEN next - DayLength ELSE next

\* setupDailyTimer: today's HH:MM, or 24 hours after it when it has passed.
NextSample(t) ==
    LET next == SampleAt[DayOf(t)] IN IF next <= t THEN next + DayLength ELSE next

Init ==
    /\ pc = "down"
    /\ now = 0
    /\ deadline = Never
    /\ snapshot = "nil"
    /\ onDisk = FALSE
    /\ startedAt = Never
    /\ taken = [d \in Days |-> 0]
    /\ forgone = {}

\* Mutation: the first collection is left to the ticker.
StartWithoutCollecting ==
    /\ pc = "down"
    /\ pc' = "idle"
    /\ snapshot' \in {"nil", IF onDisk THEN "restored" ELSE "nil"}
    /\ deadline' = NextSample(now)
    /\ startedAt' = now
    /\ UNCHANGED <<now, onDisk, taken, forgone>>

\* Run up to its loop: the state is loaded (a missing or unreadable file and
\* reset_baseline_on_start give none), the timer is armed, and a first
\* collection begins.
Start ==
    /\ pc = "down"
    /\ pc' = "cycle"
    /\ snapshot' \in {"nil", IF onDisk THEN "restored" ELSE "nil"}
    /\ deadline' = NextSample(now)
    /\ startedAt' = now
    /\ UNCHANGED <<now, onDisk, taken, forgone>>

\* The select takes the ticker's channel.
BeginCycle ==
    /\ pc = "idle"
    /\ pc' = "cycle"
    /\ UNCHANGED <<now, deadline, snapshot, onDisk, startedAt, taken, forgone>>

\* collectAndEvaluate publishes its snapshot and saves the state; the error of
\* SaveState is only logged.
EndCycle ==
    /\ pc = "cycle"
    /\ pc' = "idle"
    /\ snapshot' = "own"
    /\ onDisk' \in {onDisk, TRUE}
    /\ UNCHANGED <<now, deadline, startedAt, taken, forgone>>

\* dailySnapshot: without a snapshot there is nothing to record; otherwise each
\* disk's record carries the date of its own reading of the clock.  A record is
\* not written when the snapshot lacks the disk or its append fails, which is
\* logged and not tried again.
DailySnapshot ==
    IF snapshot = "nil" THEN UNCHANGED <<taken, forgone>>
    ELSE \/ /\ taken' = [taken EXCEPT ![DayOf(now)] = IF @ < 2 THEN @ + 1 ELSE @]
            /\ UNCHANGED forgone
         \/ /\ forgone' = forgone \cup {DayOf(now)}
            /\ UNCHANGED taken

\* The select takes dailyCh.
TakeDaily ==
    /\ pc = "idle"
    /\ deadline <= now
    /\ pc' = "arm"
    /\ DailySnapshot
    /\ UNCHANGED <<now, deadline, snapshot, onDisk, startedAt>>

\* The timer is set up again after the records are written.
Arm ==
    /\ pc = "arm"
    /\ pc' = "idle"
    /\ deadline' = NextSample(now)
    /\ UNCHANGED <<now, snapshot, onDisk, startedAt, taken, forgone>>

ProcessEnds ==
    /\ pc' = "down"
    /\ deadline' = Never
    /\ snapshot' = "nil"
    /\ startedAt' = Never
    /\ UNCHANGED <<now, taken, forgone>>

\* The select takes ctx.Done; shutdown saves the state.
Shutdown ==
    /\ pc = "idle"
    /\ onDisk' \in {onDisk, TRUE}
    /\ ProcessEnds

\* The process is killed, or Run returns an error.
Crash ==
    /\ pc # "down"
    /\ ProcessEnds
    /\ UNCHANGED onDisk

\* The select is back in time to take a timer that has fired, and re-arms it.
TimePasses ==
    /\ now + 1 < Midnight[LastDay + 1]
    /\ deadline # Never => now < deadline + MaxDelay
    /\ now' = now + 1
    /\ UNCHANGED <<pc, deadline, snapshot, onDisk, startedAt, taken, forgone>>

Next == Start \/ BeginCycle \/ EndCycle \/ TakeDaily \/ Arm \/ Shutdown \/ Crash \/ TimePasses

Spec == Init /\ [][Next]_vars

----------------------------------------------------------------------------
\* A day has at most one daily record, whatever crashes and restarts fall
\* around its HH:MM: a record is never counted twice in the history.
AtMostOnePerDay == \A d \in Days : taken[d] <= 1

\* A process that was up before HH:MM of a day and still is has taken that day's
\* snapshot, unless its timer has yet to be served: re-arming never jumps over a
\* day.  Only a record that the snapshot itself failed to write is missing, and
\* nothing makes up for that.
NoDayMissed ==
    pc \in {"cycle", "idle"} =>
        \A d \in Days : startedAt < SampleAt[d] /\ SampleAt[d] <= now =>
            taken[d] > 0 \/ d \in forgone \/ deadline = SampleAt[d]

\* A daily record is made of the running process's own readings, never of a
\* snapshot restored from state.json, however old that is.
OwnReadings == [][taken' # taken => snapshot = "own"]_vars

====
