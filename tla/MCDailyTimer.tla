---- MODULE MCDailyTimer ----
(***************************************************************************)
(* Calendars for DailyTimer and Upkeep, of days of some six-hour units.    *)
(***************************************************************************)
EXTENDS Upkeep

CONSTANT HourOfSample   \* HH:MM, in units after midnight

\* A time zone without daylight saving.
EvenMidnight == [d \in 0 .. LastDay + 1 |-> d * DayLength]
EvenSample == [d \in 0 .. LastDay |-> d * DayLength + HourOfSample]

\* The clocks are set back during day 1, after HH:MM: it is a unit longer.
AutumnMidnight == [d \in 0 .. LastDay + 1 |-> d * DayLength + (IF d > 1 THEN 1 ELSE 0)]
AutumnSample == [d \in 0 .. LastDay |-> AutumnMidnight[d] + HourOfSample]

====
