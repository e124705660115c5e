---- MODULE Upkeep ----
(***************************************************************************)
(* The storage directory under the daemon's loop: DailyTimer's cycles      *)
(* measure it (DirSizer), its start and its daily snapshot clean it, and   *)
(* it grows meanwhile.  Every step of this module is one of DailyTimer's,  *)
(* or leaves DailyTimer's variables alone.                                 *)
(***************************************************************************)
EXTENDS DailyTimer, DirSizer

VARIABLE cycleAt   \* the running cycle's `now`, read before the collectors run

upkeepVars == <<vars, sizerVars, dirVars, cycleAt>>

UpkeepInit == Init /\ DirInit /\ cycleAt = Never

\* performStartupMaintenance comes before the first collection.
StartAndClean ==
    /\ Start
    /\ cycleAt' = now
    /\ NewSizer
    /\ Clean(now)

BeginMeasuredCycle ==
    /\ BeginCycle
    /\ cycleAt' = now
    /\ UNCHANGED <<sizerVars, dirVars>>

\* Size is called when the collectors are through.
EndMeasuredCycle ==
    /\ EndCycle
    /\ Size(cycleAt)
    /\ cycleAt' = Never

\* dailySnapshot cleans last, and not at all without a snapshot.
TakeDailyAndClean ==
    /\ TakeDaily
    /\ IF snapshot = "nil" THEN UNCHANGED dirVars ELSE Clean(now)
    /\ UNCHANGED <<sizerVars, cycleAt>>

EndWithSizer ==
    /\ Shutdown \/ Crash
    /\ NewSizer
    /\ cycleAt' = Never
    /\ UNCHANGED dirVars

\* The daemon, VictoriaMetrics or vmagent writes.
DirGrows ==
    /\ pc # "down"
    /\ Grow(now)
    /\ UNCHANGED <<vars, cycleAt>>

UpkeepNext ==
    \/ StartAndClean \/ BeginMeasuredCycle \/ EndMeasuredCycle \/ TakeDailyAndClean
    \/ EndWithSizer \/ DirGrows
    \/ (Arm \/ TimePasses) /\ UNCHANGED <<sizerVars, dirVars, cycleAt>>

UpkeepSpec == UpkeepInit /\ [][UpkeepNext]_upkeepVars

----------------------------------------------------------------------------
\* The size a cycle evaluates is the directory's own of less than
\* dir_size_check_interval before the cycle, or its present one, unless this
\* cycle's own walk failed: a failed walk makes the next cycle walk again and
\* never passes for a measurement, and neither does what the process before
\* measured.
ReportedSizeRecent ==
    [][pc = "cycle" /\ pc' = "idle" /\ ~walkFailed' =>
        /\ reported' \in Sizes
        /\ reported' = dirSize \/ lastSeen[reported'] > cycleAt - CheckInterval]_upkeepVars

====
