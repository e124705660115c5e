---- MODULE Daemon ----
(***************************************************************************)
(* internal/daemon/daemon.go: the process that composes the rule engine    *)
(* and the alert manager, its life (start, collection cycles, shutdown,    *)
(* crash, restart) and state.json, the only memory that survives it.       *)
(*                                                                         *)
(* One goroutine runs everything here: Run executes a cycle, waits in a    *)
(* select for the ticker or the cancelled context, and shuts down.  `pc`   *)
(* is its place in that code.  Concurrent with it are the clock, the       *)
(* signal that cancels the context, and the crash of the process.          *)
(*                                                                         *)
(* Ticks are not tied to the clock: a cycle may begin in the same instant  *)
(* as the one before (the unit of time is not the collector.interval), or  *)
(* much later (the process, or a notifier, was slow).                      *)
(***************************************************************************)
EXTENDS AlertManager

CONSTANTS
    CpuRules,               \* rules of type cpu_used_percent
    Configs,                \* sets of rules the process may be started with
    ResetBaselineOnStart,   \* network.reset_baseline_on_start
    Faults,                 \* kinds of failure that may happen
    MaxFaults,              \* bound: failures in a behaviour
    MaxTime                 \* bound: the clock stops here

FaultKind == {"crash", "save", "load", "append", "collect", "clock"}

ASSUME CpuAssumption == CpuRules \subseteq Rules
ASSUME ConfigsAssumption == Configs \subseteq SUBSET Rules
ASSUME ResetAssumption == ResetBaselineOnStart \in BOOLEAN
ASSUME FaultsAssumption == Faults \subseteq FaultKind /\ MaxFaults \in Nat
ASSUME TimeAssumption == MaxTime \in Nat

VARIABLES
    pc,           \* where Run is; "down" when no process runs
    now,          \* the clock
    ticked,       \* the ticker's channel holds a tick (its buffer is 1)
    cancelled,    \* the root context is cancelled
    configured,   \* the rules of the running process
    evalAt,       \* the cycle's `now`, captured before the collectors run
    snap,         \* the cycle's readings, by rule
    saved,        \* state.json
    faultsLeft,   \* failures that may still happen
    forgot,       \* observer: rules that state.json says are firing and whose
                  \* entries the running process was not given
    aboveSince    \* observer: snapshot instant of the first reading of the
                  \* unbroken run of "above" readings; Never outside a run

processVars == <<pc, ticked, cancelled, configured, evalAt, snap>>
vars == <<engineVars, alertVars, processVars, now, saved, faultsLeft, forgot, aboveSince>>

AbsentSaved == [status |-> "absent", pendingSince |-> Never,
                firingSince |-> Never, lastSentAt |-> Never]
NothingSaved == [r \in Rules |-> AbsentSaved]
NoReadings == [r \in Rules |-> "none"]

PC == {"down", "ready", "sample", "collect", "evaluate", "process",
       "repeat", "save", "idle", "stopping"}

\* The types: engine and manager, what is sampled and what state.json holds are of
\* the rules.
TypeOK ==
    /\ EngineTypeOK
    /\ AlertTypeOK
    /\ pc \in PC
    /\ now \in Instant
    /\ ticked \in BOOLEAN
    /\ cancelled \in BOOLEAN
    /\ configured \in SUBSET Rules
    /\ evalAt \in OptionalInstant
    /\ snap \in [Rules -> Reading \cup {"none"}]
    /\ saved \in [Rules -> SavedRule]
    /\ faultsLeft \in Nat
    /\ forgot \in SUBSET Rules
    /\ aboveSince \in [Rules -> OptionalInstant]

----------------------------------------------------------------------------
\* A failure of this kind happens now.
Fault(kind) ==
    /\ kind \in Faults
    /\ faultsLeft > 0
    /\ faultsLeft' = faultsLeft - 1

NoFault == UNCHANGED faultsLeft

\* What is in memory is gone with the process.
ProcessEnds ==
    /\ pc' = "down"
    /\ ticked' = FALSE
    /\ cancelled' = FALSE
    /\ configured' = {}
    /\ evalAt' = Never
    /\ snap' = NoReadings
    /\ engine' = NewEngine({})
    /\ event' = NoEvents
    /\ lastSent' = NothingSent
    /\ dispatching' = NothingSent
    /\ UNCHANGED <<wire, journal, now, aboveSince>>

Init ==
    /\ pc = "down"
    /\ now = 0
    /\ ticked = FALSE
    /\ cancelled = FALSE
    /\ configured = {}
    /\ evalAt = Never
    /\ snap = NoReadings
    /\ engine = NewEngine({})
    /\ event = NoEvents
    /\ AlertInit
    /\ saved = NothingSaved
    /\ faultsLeft = MaxFaults
    /\ forgot = {}
    /\ aboveSince = NothingSent

\* New and initState: the rules of the configuration, restored from `file`.
\* A missing or unreadable state.json and reset_baseline_on_start all mean a
\* fresh state: nothing is restored, neither rule states nor lastSent.
InitState(config, file) ==
    LET restored == IF ResetBaselineOnStart THEN NothingSaved ELSE file IN
    /\ configured' = config
    /\ engine' = RestoreStates(config, restored)
    /\ lastSent' = RestoreLastSent(restored)
    /\ forgot' = {r \in Rules : saved[r].status = "firing" /\ restored[r].status # "firing"}

\* systemd starts the service again however it ended (Restart=always).
Start ==
    /\ pc = "down"
    /\ pc' = "ready"
    /\ \E config \in Configs :
        \/ NoFault /\ InitState(config, saved)
        \/ Fault("load") /\ InitState(config, NothingSaved)
    /\ UNCHANGED <<event, dispatching, wire, journal, ticked, cancelled,
                   evalAt, snap, now, saved, aboveSince>>

----------------------------------------------------------------------------
\* collectAndEvaluate: once before the loop, then whenever the select takes a
\* tick.  The select does not prefer the cancelled context to a tick.
BeginCycle ==
    /\ \/ pc = "ready" /\ UNCHANGED ticked
       \/ pc = "idle" /\ ticked /\ ticked' = FALSE
    /\ pc' = "sample"
    /\ evalAt' = now
    /\ NoFault
    /\ UNCHANGED <<engineVars, alertVars, cancelled, configured, snap, now,
                   saved, forgot, aboveSince>>

\* CPUCollector.Collect waits for cpu_sample_window; the cancelled context
\* interrupts the wait and the snapshot keeps CPU = 0.
SampleCPU ==
    /\ pc = "sample"
    /\ pc' = "collect"
    /\ \E high \in SUBSET (CpuRules \cap configured) :
        snap' = [r \in Rules |->
            IF r \notin CpuRules \cap configured THEN "none"
            ELSE IF cancelled THEN "lost"
            ELSE IF r \in high THEN "above" ELSE "below"]
    /\ NoFault
    /\ UNCHANGED <<engineVars, alertVars, ticked, cancelled, configured,
                   evalAt, now, saved, forgot, aboveSince>>

\* Mutation: CollectAll stops at the first error, the interrupted CPU sample.
CollectUntilError ==
    /\ pc = "collect"
    /\ pc' = "evaluate"
    /\ \E high \in SUBSET (configured \ CpuRules) :
        snap' = [r \in Rules |->
            IF r \notin configured \ CpuRules THEN snap[r]
            ELSE IF \E q \in CpuRules : snap[q] = "lost" THEN "lost"
            ELSE IF r \in high THEN "above" ELSE "below"]
    /\ NoFault
    /\ UNCHANGED <<engineVars, alertVars, ticked, cancelled, configured,
                   evalAt, now, saved, forgot, aboveSince>>

\* The other collectors, and the errors of any: CollectAll goes on after an
\* error, and what the failing collector feeds is lost.
Collect ==
    /\ pc = "collect"
    /\ pc' = "evaluate"
    /\ \E high \in SUBSET (configured \ CpuRules), lost \in SUBSET configured :
        /\ IF lost = {} THEN NoFault ELSE Fault("collect")
        /\ snap' = [r \in Rules |->
            CASE r \in lost -> "lost"
              [] r \in high \ lost -> "above"
              [] r \in (configured \ CpuRules) \ (high \cup lost) -> "below"
              [] OTHER -> snap[r]]
    /\ aboveSince' = [r \in Rules |->
            IF snap'[r] # "above" THEN Never
            ELSE IF aboveSince[r] = Never THEN evalAt ELSE aboveSince[r]]
    /\ UNCHANGED <<engineVars, alertVars, ticked, cancelled, configured,
                   evalAt, now, saved, forgot>>

\* Mutation: the states are published and saved before the events are handled.
EvaluateRulesAndSave ==
    /\ pc = "evaluate"
    /\ pc' = "process"
    /\ Evaluate(snap, evalAt)
    /\ saved' = [r \in Rules |->
            [status |-> engine'[r].status, pendingSince |-> engine'[r].pendingSince,
             firingSince |-> engine'[r].firingSince, lastSentAt |-> lastSent[r]]]
    /\ NoFault
    /\ UNCHANGED <<alertVars, ticked, cancelled, configured, evalAt, snap,
                   now, forgot, aboveSince>>

EvaluateRules ==
    /\ pc = "evaluate"
    /\ pc' = "process"
    /\ Evaluate(snap, evalAt)
    /\ NoFault
    /\ UNCHANGED <<alertVars, ticked, cancelled, configured, evalAt, snap,
                   now, saved, forgot, aboveSince>>

\* Process: one event at a time.
ProcessEvent(r) ==
    /\ pc = "process"
    /\ \/ NoFault /\ BeginDispatch(r, now, TRUE)
       \/ Fault("append") /\ ~Deduped(r, now) /\ BeginDispatch(r, now, FALSE)
    /\ UNCHANGED <<engine, processVars, now, saved, forgot, aboveSince>>

Notify(r) ==
    /\ pc = "process"
    /\ EndDispatch(r)
    /\ NoFault
    /\ UNCHANGED <<engine, processVars, now, saved, forgot, aboveSince>>

ProcessDone ==
    /\ pc = "process"
    /\ event = NoEvents
    /\ pc' = "repeat"
    /\ NoFault
    /\ UNCHANGED <<engineVars, alertVars, ticked, cancelled, configured,
                   evalAt, snap, now, saved, forgot, aboveSince>>

Remind ==
    /\ pc = "repeat"
    /\ pc' = "save"
    /\ CheckRepeat(now)
    /\ NoFault
    /\ UNCHANGED <<engine, ticked, cancelled, configured, evalAt, snap, now,
                   saved, forgot, aboveSince>>

\* store.SaveState replaces state.json by a rename; its error is only logged.
WriteState ==
    \/ NoFault /\ saved' = StatesWithLastSent(lastSent) /\ forgot' = {}
    \/ Fault("save") /\ UNCHANGED <<saved, forgot>>

SaveState ==
    /\ pc = "save"
    /\ pc' = "idle"
    /\ WriteState
    /\ evalAt' = Never
    /\ snap' = NoReadings
    /\ UNCHANGED <<engineVars, alertVars, ticked, cancelled, configured, now,
                   aboveSince>>

----------------------------------------------------------------------------
\* Mutation: pending ticks are served before the shutdown.
BeginShutdownAfterTicks ==
    /\ pc = "idle"
    /\ cancelled /\ ~ticked
    /\ pc' = "stopping"
    /\ NoFault
    /\ UNCHANGED <<engineVars, alertVars, ticked, cancelled, configured,
                   evalAt, snap, now, saved, forgot, aboveSince>>

\* The select takes ctx.Done.
BeginShutdown ==
    /\ pc = "idle"
    /\ cancelled
    /\ pc' = "stopping"
    /\ NoFault
    /\ UNCHANGED <<engineVars, alertVars, ticked, cancelled, configured,
                   evalAt, snap, now, saved, forgot, aboveSince>>

\* The rest of shutdown: the state is saved once more.
FinishShutdown ==
    /\ pc = "stopping"
    /\ WriteState
    /\ ProcessEnds

----------------------------------------------------------------------------
\* SIGINT or SIGTERM: main's signal goroutine cancels the root context.
Cancel ==
    /\ pc # "down"
    /\ ~cancelled
    /\ cancelled' = TRUE
    /\ NoFault
    /\ UNCHANGED <<engineVars, alertVars, pc, ticked, configured, evalAt,
                   snap, now, saved, forgot, aboveSince>>

\* Power loss, SIGKILL, a panic, or Run returning because the HTTP listener
\* cannot be opened.
Crash ==
    /\ pc # "down"
    /\ Fault("crash")
    /\ ProcessEnds
    /\ UNCHANGED <<saved, forgot>>

\* The ticker exists from just before the first cycle; a tick that finds the
\* channel full is dropped.
Tick ==
    /\ pc \notin {"down", "ready"}
    /\ ~ticked
    /\ ticked' = TRUE
    /\ NoFault
    /\ UNCHANGED <<engineVars, alertVars, pc, cancelled, configured, evalAt,
                   snap, now, saved, forgot, aboveSince>>

TimePasses ==
    /\ now < MaxTime
    /\ now' = now + 1
    /\ NoFault
    /\ UNCHANGED <<engineVars, alertVars, processVars, saved, forgot, aboveSince>>

\* The wall clock is set back while no process runs.  A running process
\* subtracts monotonic readings, but the instants it restores from state.json
\* have none: they are compared by the wall clock.
ClockSetBack ==
    /\ pc = "down"
    /\ Fault("clock")
    /\ now' \in 0 .. now - 1
    /\ UNCHANGED <<engineVars, alertVars, processVars, saved, forgot, aboveSince>>

Cycle == \/ BeginCycle \/ SampleCPU \/ Collect \/ EvaluateRules
         \/ (\E r \in Rules : ProcessEvent(r) \/ Notify(r))
         \/ ProcessDone \/ Remind \/ SaveState

Next == Start \/ Cycle \/ BeginShutdown \/ FinishShutdown
        \/ Cancel \/ Crash \/ Tick \/ TimePasses \/ ClockSetBack

Spec == Init /\ [][Next]_vars

\* The goroutine that runs Run keeps running, notifiers return (the bot API's
\* HTTP client is assumed to give up), and a select that is offered the
\* cancelled context again and again takes it in the end, because Go's select
\* chooses uniformly among the ready cases.
LiveSpec == Spec /\ WF_vars(Cycle) /\ SF_vars(BeginShutdown) /\ WF_vars(FinishShutdown)

----------------------------------------------------------------------------
(***************************************************************************)
(* What the alerting path promises                                         *)
(***************************************************************************)

\* A rule is firing exactly when the alert manager has sent its alert and not
\* yet its recovery.  Of a rule whose event waits in Process: a new alert never
\* finds a lastSent entry, so sendAlert's dedup check never drops one; a
\* recovery always finds one.
AlertedIffFiring ==
    \A r \in Rules :
        /\ event[r] = "none" /\ r \in configured =>
             (engine[r].status = "firing" <=> lastSent[r] # Never)
        /\ event[r] = "firing" => engine[r].status = "firing" /\ lastSent[r] = Never
        /\ event[r] = "recovered" => engine[r].status = "normal" /\ lastSent[r] # Never

\* state.json never separates the two halves: an entry is saved as firing
\* exactly when it is saved with last_sent_at, after any crash, failed save or
\* change of the configuration, so a restart restores them together.
SavedAlertedIffFiring ==
    \A r \in Rules : saved[r].status = "firing" <=> saved[r].lastSentAt # Never

\* After CheckRepeat no firing rule's last message is repeat_interval old by
\* the clock: no rule can fire on in silence because the manager lost track of
\* it.  (A negative repeat_interval makes every cycle send a reminder.)
NoReminderOverdue ==
    [][pc = "repeat" /\ pc' = "save" =>
        \A r \in FiringRules :
            /\ lastSent'[r] # Never
            /\ lastSent'[r] = now \/ now - lastSent'[r] < RepeatInterval]_vars

\* Only a rule whose every reading of the last For[r] was above the threshold
\* starts to fire, also when restarts fell into that time.
SustainedBeforeFiring ==
    \A r \in Rules : event[r] = "firing" =>
        aboveSince[r] # Never /\ evalAt - aboveSince[r] >= For[r]

Announced(r) == wire[r].kind \in {"firing", "reminder"}

\* A save that turns a rule's persisted status to or from firing only records
\* what the notifiers were told, whatever crashes, saves or reads fail in between.
\* It is about rules that both the old file and the new one have, and not about a
\* recovery of a rule whose old entry the process was refused (`forgot`).
PersistedChangesAnnounced ==
    [][\A r \in Rules :
        saved[r].status # "absent" /\ saved'[r].status # "absent" =>
            /\ saved[r].status # "firing" /\ saved'[r].status = "firing" => Announced(r)'
            /\ saved[r].status = "firing" /\ saved'[r].status # "firing" =>
                 wire'[r].kind = "recovered" \/ r \in forgot]_vars

\* Between cycles alerts.ndjson ends, for every rule, with what was last sent.
JournalMatchesWire ==
    \A r \in Rules : event[r] = "none" =>
        /\ journal[r] = "firing" <=> Announced(r)
        /\ journal[r] = "recovered" <=> wire[r].kind = "recovered"

\* The daemon is the source of notifications that subscribers rely on: the rules
\* and the interval are the contract's, its clock too, and what is given to the
\* notifiers is what is sent.  Nothing else of the daemon is visible, if every
\* end of the process is orderly and every start finds what was saved.
Contract ==
    INSTANCE NotificationContract
        WITH Rules <- Rules, RepeatInterval <- RepeatInterval, now <- now, wire <- wire
MeetsContract == Contract!Spec

\* A cancelled daemon ends, however the ticks fall.
CancelledEnds == cancelled ~> pc = "down"

\* A recovery is announced only of a rule whose metric was read and was not
\* above the threshold.
RecoveredOnlyIfMeasured ==
    \A r \in Rules : event[r] = "recovered" => snap[r] = "below"

\* Where no collector fails, that can be wrong only of a CPU rule, and only once
\* the process has been told to stop.
RecoveredUnlessInterrupted ==
    \A r \in Rules : event[r] = "recovered" =>
        snap[r] = "below" \/ (r \in CpuRules /\ cancelled)

\* A restart gives every rule of the configuration the state it had on disk.
RuleStateSurvivesRestart ==
    [][pc = "down" /\ pc' = "ready" =>
        \A r \in configured' : saved[r].status # "absent" =>
            engine'[r].status = saved[r].status]_vars

====
