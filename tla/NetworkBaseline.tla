---- MODULE NetworkBaseline ----
(***************************************************************************)
(* internal/collector/network.go with the part of daemon.go that keeps the *)
(* baseline: the traffic of one interface since the service first started, *)
(* out of kernel counters that restart from zero at a reboot (and of one   *)
(* interface alone when its driver is reloaded) and a baseline that is     *)
(* saved in state.json.                                                    *)
(*                                                                         *)
(* `observed` is what a perfect observer sees from the instant             *)
(* ServiceState.StartedAt on; `onDisk` follows the StartedAt of the file,  *)
(* which a restart may bring back.                                         *)
(***************************************************************************)
EXTENDS Integers

CONSTANTS
    MaxTraffic,   \* bound: the kernel's counters, and the observer's, stop here
    MaxResets     \* bound: resets of the counters

ASSUME TrafficAssumption == MaxTraffic \in Nat \ {0} /\ MaxResets \in Nat

VARIABLES
    up,          \* the daemon runs
    monitored,   \* the running daemon's configuration lists the interface
    counter,     \* the kernel's counters of the interface
    baseline,    \* NetworkCollector.baseline of the interface, or Missing
    saved,       \* state.json: the baseline, or NoState without a file
    reported,    \* the interface's entry of this run's last snapshot
    based,       \* observer: that snapshot was taken with a baseline
    observed,    \* observer: what happened since StartedAt
    onDisk,      \* observer: what happened since the StartedAt in state.json
    collected,   \* observer: the traffic since StartedAt at the last snapshot
    resets       \* counter resets so far

vars == <<up, monitored, counter, baseline, saved, reported, based, observed,
          onDisk, collected, resets>>

Bytes == [rx : 0 .. MaxTraffic, tx : 0 .. MaxTraffic]
Zero == [rx |-> 0, tx |-> 0]
Missing == [rx |-> -1, tx |-> -1]
NoState == [rx |-> -2, tx |-> -2]

\* The traffic since an instant, and whether the counters were reset since.
Observation == [traffic : Bytes, reset : BOOLEAN]
Nothing == [traffic |-> Zero, reset |-> FALSE]

\* The types: what Collect reports is a difference of unsigned counters that never
\* wraps around.
TypeOK ==
    /\ up \in BOOLEAN /\ monitored \in BOOLEAN
    /\ counter \in Bytes
    /\ baseline \in Bytes \cup {Missing}
    /\ saved \in Bytes \cup {Missing, NoState}
    /\ reported \in Bytes
    /\ based \in BOOLEAN
    /\ observed \in Observation /\ onDisk \in Observation
    /\ collected \in Bytes
    /\ resets \in 0 .. MaxResets

\* The host has carried traffic before the service is installed.
Init ==
    /\ up = FALSE /\ monitored = FALSE
    /\ counter \in {Zero, [rx |-> 1, tx |-> 1]}
    /\ baseline = Missing
    /\ saved = NoState
    /\ reported = Zero /\ based = TRUE
    /\ observed = Nothing /\ onDisk = Nothing
    /\ collected = Zero
    /\ resets = 0

Plus(a, b) == [rx |-> a.rx + b.rx, tx |-> a.tx + b.tx]
Minus(a, b) == [rx |-> a.rx - b.rx, tx |-> a.tx - b.tx]
AtMost(a, b) == a.rx <= b.rx /\ a.tx <= b.tx

----------------------------------------------------------------------------
\* initState: the saved baseline is restored, with the saved StartedAt.
RestoreRereading == saved # NoState /\ baseline' = counter /\ observed' = onDisk

Restore ==
    /\ saved # NoState
    /\ baseline' = saved
    /\ observed' = onDisk

\* Or a fresh one is read, of the interfaces listed, which may fail (a warning
\* is the only trace of it), and StartedAt is now.
FreshKeepingBaseline ==
    /\ baseline' = IF saved = NoState THEN counter ELSE saved
    /\ observed' = Nothing

Fresh ==
    /\ \/ monitored' /\ baseline' = counter
       \/ baseline' = Missing
    /\ observed' = Nothing

\* Fresh also with a saved file: reset_baseline_on_start, or it is unreadable.
Start ==
    /\ ~up
    /\ up' = TRUE
    /\ monitored' \in BOOLEAN
    /\ Restore \/ Fresh
    /\ reported' = Zero /\ collected' = Zero /\ based' = TRUE
    /\ UNCHANGED <<counter, saved, onDisk, resets>>

\* A Go map's missing entry reads as zero.
Base == IF baseline = Missing THEN Zero ELSE baseline

\* A reset is noticed by a counter below its baseline, in either direction.
BelowBaselineReceivedOnly == counter.rx < Base.rx

BelowBaseline == ~AtMost(Base, counter)

\* Collect; a reset makes the current counters of both directions the baseline.
Collect ==
    /\ up /\ monitored
    /\ IF BelowBaseline
       THEN baseline' = counter /\ reported' = Zero
       ELSE baseline' = baseline /\ reported' = Minus(counter, Base)
    /\ collected' = observed.traffic
    /\ based' = (baseline # Missing)
    /\ UNCHANGED <<up, monitored, counter, saved, observed, onDisk, resets>>

\* SaveState at the end of a cycle or of shutdown writes GetBaseline().
Save ==
    /\ up
    /\ saved' = baseline
    /\ onDisk' = observed
    /\ UNCHANGED <<up, monitored, counter, baseline, reported, based, observed,
                   collected, resets>>

\* The daemon ends, with a Save just before or without one.
End ==
    /\ up
    /\ up' = FALSE
    /\ monitored' = FALSE
    /\ baseline' = Missing
    /\ UNCHANGED <<counter, saved, reported, based, observed, onDisk, collected, resets>>

----------------------------------------------------------------------------
\* The host: a packet is counted, or the counters restart from zero.
Traffic ==
    \E packet \in {[rx |-> 1, tx |-> 0], [rx |-> 0, tx |-> 1]} :
        /\ counter' = Plus(counter, packet)
        /\ observed' = [observed EXCEPT !.traffic = Plus(@, packet)]
        /\ onDisk' = IF saved = NoState THEN onDisk
                     ELSE [onDisk EXCEPT !.traffic = Plus(@, packet)]
        /\ {counter', observed'.traffic, onDisk'.traffic} \subseteq Bytes
        /\ UNCHANGED <<up, monitored, baseline, saved, reported, based, collected, resets>>

CountersReset ==
    /\ resets < MaxResets
    /\ resets' = resets + 1
    /\ counter' = Zero
    /\ observed' = [observed EXCEPT !.reset = TRUE]
    /\ onDisk' = [onDisk EXCEPT !.reset = TRUE]
    /\ UNCHANGED <<up, monitored, baseline, saved, reported, based, collected>>

Next == Start \/ Collect \/ Save \/ End \/ Traffic \/ CountersReset

Spec == Init /\ [][Next]_vars

----------------------------------------------------------------------------
\* What a report shows under "Network since start" never exceeds the traffic
\* since start, whatever resets, crashes, restarts and lost saves there are,
\* provided the snapshot was taken with a baseline for the interface.
NeverOvercountsFromBaseline == based => AtMost(reported, collected)

\* Without a counter reset the reported traffic is exact, in both directions.
ExactWithoutReset == based /\ ~observed.reset => reported = collected

====
