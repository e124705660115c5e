# mini_monitor_server: a TLA+ verification project

`mini_monitor_server` is one Go process that samples a Linux host (CPU, memory,
disks, network), evaluates alert rules, notifies (log, Telegram), keeps its
state and history in a directory, serves reports over HTTP and Telegram, and
may host two child processes (VictoriaMetrics, vmagent). The modules here model
its core, TLC checks them on small instances, and TLAPS proves the properties
that matter most for every value of the constants.

Paths below are relative to the repository; `PROJECT.json` maps each definition
to the lines it models.

## 1. Inventory

| Component (source) | State | Operations | Right when |
|---|---|---|---|
| Rule engine (`internal/rule/engine.go`) | per rule: normal, pending, firing; since when | `RestoreStates`, `Evaluate`, `States`, `FiringRules` | a rule fires only after `for`; one event per change |
| Alert manager (`internal/alert/manager.go`) | `lastSent` per rule | `RestoreLastSent`, `Process`, `CheckRepeat`, `LastSentSnapshot` | agrees with the engine on what is open; no alert dropped, no reminder overdue |
| Daemon (`internal/daemon/daemon.go`) | `ServiceState`, ticker, context | `initState`, `collectAndEvaluate`, `dailySnapshot`, `shutdown` | restarts are invisible to subscribers; a cancelled daemon ends |
| Collectors (`internal/collector`) | network baseline | `Collect`, `CollectAll`, `InitBaseline`, `SetBaseline` | a lost reading is not a reading; traffic is never overcounted |
| State file (`internal/storage`) | `state.json` | `LoadState`, `SaveState` (rename) | records no change that was not announced |
| History (`internal/storage`) | four NDJSON files | append, read, `CleanHistory` | acknowledged records are readable until they expire; a logged failure costs one at most |
| Minute accumulator (`internal/daemon/history.go`) | sums of the current minute | `Record`, `Flush` | each completed minute is recorded before it can be reported |
| Reports (`httpapi`, `telegram/command`, `main.go`, `metrics/avg.go`) | none | read snapshot, averages, firing rules | all readers who can read the history agree on the averages of a snapshot |
| Supervisor (`internal/integration`) | `p.cmd` per process, children | `run`, `Stop`, `stopCurrent`, `clearCmd` | at most one child; all stopped at shutdown |
| Telegram bot (`internal/telegram/bot.go`) | `stopFn`, the library's updates channel | `Start`, `Stop`, `handleCommand` | ends when told to, whenever `Stop` meets `Start`; never spins |
| Shutdown (`internal/daemon/daemon.go`) | place in `shutdown` | stop children, HTTP, bot; save | comes to its end whoever hangs |
| Directory sizer (`internal/daemon/storage_dir.go`) | cached size and time | `Size` | the size is at most one interval old, a failed walk is not a measurement |
| Configuration (`internal/config`, `integration/vm.go`) | none after start | defaults, `Validate`, `New`, command lines | what it lets through does not break the others |

How they interact: `Run` executes everything of a cycle in one goroutine, in a
fixed order: collectors, `Evaluate`, `Process`, accumulator, `CheckRepeat`,
publication of the snapshot under `d.mu`, `SaveState`. HTTP handlers and the bot
read the snapshot, the engine and the files concurrently. The supervisor has a
goroutine per child, and shares `p.cmd` and a context with `shutdown`. The
`report` command is another process that shares only the files.

What is hard: a cycle can be cut by a crash at any point while some of its
effects (messages, records) are already outside; state comes back from a file
that may be older than those effects, or unreadable; the configuration may
change in between; a cancelled context interrupts a collector in the middle of a
cycle; two stop procedures act on one child; readers combine values of different
cycles. `PROJECT.json` lists the hazards at their lines.

## 2. Modules

| Module | Models | Uses |
|---|---|---|
| `ServiceModel` | shared data of `model.go` and `config.go` | |
| `RuleEngine` | `engine.go` | `ServiceModel` |
| `AlertManager` | `manager.go` | `RuleEngine` |
| `Daemon` | `daemon.go`: the composition of engine and manager, cycles, crash and restart, `state.json` | `AlertManager` |
| `NotificationContract` | what subscribers may rely on (abstract) | |
| `MCDaemon` | instances for TLC | `Daemon` |
| `HistoryFile` | one NDJSON file of `storage.go` | |
| `HistoryLog` | what readers of a history may rely on (abstract) | |
| `MetricsReport` | accumulator, history of minutes, report readers | |
| `NetworkBaseline` | `network.go` and the saved baseline | |
| `DailyTimer` | `setupDailyTimer`, `dailySnapshot` and the loop that serves them | |
| `DirSizer` | `storage_dir.go` | |
| `Upkeep`, `MCDailyTimer` | the composition of timer and sizer: what the loop measures and cleans | `DailyTimer`, `DirSizer` |
| `Supervisor` | `process.go`, `manager.go` of integration | |
| `TelegramBot` | `bot.go` and the library's update loop | |
| `Shutdown`, `MCShutdown` | the composition of both with main's `shutdown` | `Supervisor`, `TelegramBot` |
| `ServiceConfig`, `MCServiceConfig` | `config.go`, `loadConfig`, `New`, `vm.go` | |
| `Induction` | induction and recursion on the natural numbers, stated with sets | |
| `X_proofs` | theorems about `X` (`Shutdown_proofs` about `Supervisor` too, `Upkeep_proofs` about `DailyTimer` too) | `X` |

### Daemon, AlertManager, RuleEngine

`pc` is the place of `Run`: `down`, `ready`, the steps of a cycle (`sample`,
`collect`, `evaluate`, `process`, `repeat`, `save`), `idle` in the select,
`stopping`. `engine` is `Engine.states`, `lastSent` is `Manager.lastSent`,
`saved` is the `Rules` map of `state.json`; a missing key of a map is the value
`absent` or `Never`. `event` is what `Evaluate` returned and `Process` has not
handled. `wire` (the last message per rule given to the notifiers) and `journal`
(the rule's last record in `alerts.ndjson`) are the outside world.

Interleaved with the one goroutine are the clock, the ticker, the signal
(`Cancel`) and `Crash`. Places where nothing outside the goroutine can tell the
difference are merged into one step; a dispatch is two steps, because a crash
between the journal and the notifiers is visible. The second lock-protected
reading of the wall clock in `sendAlert` and `CheckRepeat` is `now`; the
snapshot's timestamp is `evalAt`, taken before the collectors run.

Failures are counted by `faultsLeft` and their kinds are the constant `Faults`:
a crash, a save, load or append that fails, a lost reading, and a wall clock set
back while no process runs (`ClockSetBack`): instants from `state.json` have no
monotonic part and are compared by the wall clock. While a process runs, its
clock goes forward only.

A metric's value is abstracted to above or below the threshold, or `lost` when its collector
failed: the code leaves the field 0, which never exceeds a threshold, because
`Validate` refuses thresholds that are not positive (`ServiceConfig!RulesUsable`). Only rules of type
`cpu_used_percent` (`CpuRules`) are affected by the cancelled context, since
`CPUCollector` alone looks at it.

A rule of `Rules` that is not in the running configuration is `absent`.
`buildRuntimeRules` is the choice of `configured` at `Start` (a restart may come
with another file). The constants' assumptions are what `ServiceConfig` shows of
an accepted file: `for` > 0, no zero intervals, but negative ones.

Two variables only observe. `aboveSince` is the beginning of the unbroken run of
readings above the threshold. `forgot` are the rules whose saved entry the
running process was not given (unreadable file, `reset_baseline_on_start`):
`PersistedChangesAnnounced` cannot hold of them, and holds of all others.

### NotificationContract

Of each rule: an alert, reminders that are at least `repeat_interval` apart, one
recovery, and again. No process and no restart appear in it.
`Daemon!Contract` is the refinement mapping (contract and daemon share rules,
interval, clock and wire) and `MeetsContract` says that `Daemon` implements it.
It holds for orderly restarts only: after a crash a message may be
repeated, and after a failed load the same alert is sent again.

### HistoryFile, HistoryLog

A file is a sequence of lines with the state of its tail, so that a torn write
(a crash or a full disk in the middle of a record) joins with the next record as it does on
disk. `BeginClean` is `cleanNDJSON` up to the rename, `Rename` the rest, and
`CleanFails` each of its error returns: `CleanHistory` only logs them and the
daemon goes on with the file as it is. `KeptOf[i]` is what the scan has kept when it has read
`i` lines. A `file.tmp` that a dead process left is still there at the next cleaning, whose
`os.Create` discards it.

The startup maintenance (`StartupClean`) is what repairs a tail without newline. If
it fails, or an append leaves such a tail and the process lives on, the next record is
joined to it and lost although its append succeeds. Three variables only observe this:
`damaged` says that the process has logged such a failure, `excused` are the
acknowledged records that were then joined, `filled` that a full disk has cut a
cleaning short (`HistoryFull`).

`HistoryLog` has only the set of readable records, the acknowledged ones,
whether a failure has damaged the end of the file, and whether a full disk has cut a
cleaning short: appends add, cleanings remove expired records, a damage takes the
record that is appended next, and only after a cleaning on a full disk may anything
else be lost. `HistoryFile!Log` maps `log` to the readable lines of the file.

### MetricsReport

A history record is a minute with the set of cycles whose samples it averages;
a report's averages are the set of records it was computed over, so two reports
have equal averages if these are equal. Two readers: `handler` (HTTP
`/report` and Telegram's `/report`, `/cpu`, `/mem`, inside the process, also while it
shuts down) and `cli` (the `report` command, from `state.json`). `BeginShutdown`
flushes the accumulator, `FinishShutdown` saves and ends; between them handlers
still answer.

`history` are the records ever appended, `removed` those that are not in the file any
more: expired ones, taken by `CleanHistory` at start and every day, and others, taken by a
full disk or joined to a damaged line. How that happens in the file is
`HistoryFile`; here it costs a fault. A read of the history may
fail, and the report then shows no averages. So two reports on one snapshot may well
differ; `SameSnapshotSameAverages` says that they differ in removed records only.

### NetworkBaseline

One interface; counters that restart from zero (reboot, driver reload), saved
and restored baselines. `observed` is a perfect observer that starts with
`StartedAt`; `onDisk` is the same for the `StartedAt` in the file, since a
restart after a fresh start whose save never came brings the old one back.
Overflow of 64-bit counters is left out (no host reaches it); a wrap would be treated
as a reset.

### DailyTimer, DirSizer, Upkeep

The calendar is a parameter: at which instant a day begins (`Midnight`) and at
which its HH:MM falls (`SampleAt`). Instants are elapsed time, so a day on which
the clocks change is shorter or longer, while `NextSample` adds the code's 24
hours (`DayLength`). `now = t` stands for the time strictly between t and t+1;
so the program's readings of the clock never meet HH:MM to the nanosecond, and
two of them are never equal. The ticker is left free (`BeginCycle` at any time);
`MaxDelay` bounds how long cycles keep the loop from a timer that has fired, as long as no day
ends in between. `snapshot` tells only where `LastSnapshot` comes from.
`taken` counts the records of a disk by date, and `forgone` are the days on which
`dailySnapshot` ran without writing one, because the snapshot lacked the disk or the
append failed: that is only logged, and the timer is armed for the next day all
the same. What happens in the file is `HistoryFile`.

`DirSizer` keeps `lastAt` and `lastSize` as the code does; a walk may fail (a file
that vanishes under it), and then the old size is returned and nothing is
stamped. The directory grows at any time and shrinks when the loop cleans it.
`Upkeep` puts both into the one loop: `cycleAt` is the cycle's `now`, `Size` is
called with it when the collectors are through, startup maintenance and
`dailySnapshot` clean. Each of its steps is one of `DailyTimer` or leaves
`DailyTimer`'s variables alone, which is proved. `EvenCalendar` (no change of the
clocks) and `NextOnItsDay` (one that does no harm) are hypotheses of theorems, not of
the model.

### Supervisor, TelegramBot, Shutdown

`run[p]` is the place of the goroutine of `p`, `cmd[p]` is `p.cmd`, children are
numbered. Between `cmd.Start` and the assignment of `p.cmd` there is a step
(`Publish`), and `Stop` may see nil there. Timers fire at any moment. `Stop`
returns when `p.cmd` has changed or kills at its deadline; `main` exits and the
goroutines end with it, the children do not.

`bot` is the place of `Bot.Start`'s goroutine, `stopFn` whether it has set
`b.stopFn` (read by `Stop` in main without a lock), `fetching` and `quit` the
library's channels. `Stop` before `Start` has been scheduled finds no `stopFn`;
the bot ends all the same, because its context is a child of the root context.
A reply's `Send` may hang for ever (`SendHangs`): the client has no deadline.

`Shutdown` is main after the signal: `Manager.Stop` (all of `Supervisor`), the HTTP
server, `Bot.Stop` in its two statements, `CloseAll` with the last `SaveState`, return. It waits
for none of the goroutines.

### ServiceConfig

A configuration is a record of the fields the program branches on; `SetDefaults`,
`Validate`, `BuildRuntimeRules`, the address normalisations and the command lines
are operators, one for each function. The state machine is a start of the
service: `LoadConfig`, `New`, `StartIntegrations`, `End`, and again; the file for vmagent
survives. Its properties are what the other modules take for granted.

## 3. Runs

All `.cfg` files are named after their run. Deadlock is checked everywhere
except in `Shutdown`, where everything has ended when `main` has exited and
the children are dead.

| Run | Instance | Shows |
|---|---|---|
| `DaemonOrderly` | 2 rules; a signal and a lost reading | `SustainedBeforeFiring`, `JournalMatchesWire`, `MeetsContract`, `CancelledEnds` |
| `DaemonFaults` | 2 rules, 2 configurations, 2 faults of crash, save, load, append, clock | `AlertedIffFiring`, `SavedAlertedIffFiring`, `RecoveredUnlessInterrupted`, `NoReminderOverdue`, `PersistedChangesAnnounced` |
| `DaemonFalseRecovery` | violated | a recovery nobody measured (`cpu.go:34`) |
| `DaemonReset` | violated | `reset_baseline_on_start` forgets alerts (`daemon.go:175`) |
| `Shutdown` | 2 processes, 2 starts of each, the bot | children, bot and shutdown, safety and liveness |
| `ServiceConfig` | 7536 files: pairs of rules, integrations, other fields | `RulesUsable`, `RulesMeasured`, `IntegrationsConnected` |
| `HistoryFile` | 4 records, 3 days, crashes, failed cleanings, full disk | `AcknowledgedReadable`, `RecordsInOrder`, `ImplementsLog` |
| `HistoryFull` | violated | a full disk truncates the history (`storage.go:293`) |
| `MetricsReport` | 3 cycles, 4 minutes, 2 faults | the five properties of reports |
| `NetworkBaseline` | counters to 3, 2 resets | `NeverOvercountsFromBaseline`, `ExactWithoutReset` |
| `DailyTimer` | 3 days of 4 units, delay 1, sizes 1 and 2 | `AtMostOnePerDay`, `NoDayMissed`, `OwnReadings`, `ReportedSizeRecent` |
| `DailyAutumn` | violated | a day of 25 hours is recorded again (`daemon.go:267`) |

Bounds. `MaxTime` 3 with `For` 1 and 2 and `RepeatInterval` 2 lets both rules
become pending, fire, be reminded of and recover, with a restart anywhere in
between; two faults allow a failed save followed by a crash, the shortest way to
an old file. The clock's bound stops no cycle: cycles, restarts and ticks go on
at the last instant. `DaemonFaults` has a `VIEW` that leaves out `aboveSince`, `journal`
and the instants on the wire: no guard and no property of that run reads them,
so two states that differ in nothing else have the same futures. `Shutdown`
stops at two starts of each process, one and a restart; its safety theorems
hold for every number. In `HistoryFile` four records, `KeepDays` 1 and three days allow a
torn record between good ones, an expired one before them, and a record that is joined
to the torn one after a failed cleaning. In `MetricsReport` three cycles in four
minutes allow two samples in a minute, a minute crossed, and a restart within a
minute; with a window and a `Keep` of two minutes a record expires while a snapshot
is reported on, and two faults allow a lost save or append beside a crash or a
truncated file. In `NetworkBaseline` three units of traffic in each direction and two
resets allow a reset that is noticed and one that is not. In `DailyTimer` three days
allow a record, a restart before or after the next HH:MM and a whole day
down; four units a day let the process start before, at and after HH:MM, and a size
be kept over a cleaning. In `ServiceConfig` there is one rule for each check of
`Validate`, in every pair, and every combination of the integrations' fields.

Fairness. `Daemon!LiveSpec`: the goroutine goes on (weak fairness of the cycle;
this assumes that notifiers return) and strong fairness of `BeginShutdown`, as
Go's select chooses uniformly among ready cases, so a case that is ready again
and again is taken. `Shutdown!LiveShutdownSpec`: goroutines run, timers fire, and
SIGKILL ends a child; a bot whose select is ready again and again takes
`ctx.Done` in the end, for the same reason. No child need obey SIGTERM, no update need
come, a send of the bot may hang, and `main` need not return, so that nothing
"ends" only because the process does.

Each property has a mutant: a definition changed as a bug of the code would
change it, under which TLC finds the property violated.

## 4. Findings

Four runs violate what a comment, a document or a test says (`PROJECT.json`,
`findings`): a false recovery when a signal interrupts the CPU sample; rule
states lost by `reset_baseline_on_start`; a cleaning that truncates on a full
disk; a day of 25 hours with repeated daily snapshots (with the default 00:00,
records without pause from 23:00 to midnight, because the re-armed instant is
already past).

More things the models show without a run for each. A restart within a
minute writes two records for it, the first flushed by the shutdown, and
`ComputeAverages` counts both as buckets; `MetricsReport` therefore promises
that no sample is counted twice, and not one record a minute. An interface
without a baseline (added to the configuration after the first start) is
measured from zero, so the report shows its traffic since boot;
`NetworkBaseline` promises exactness only where there is a baseline (`based`).
By the same 24 hours as above, an HH:MM of 23:00 or later jumps over the day of 23 hours,
and the day after it gets two records; any earlier HH:MM is once taken an hour
late and is exact again afterwards (`SampledByDaysEndCorrect`).
A startup cleaning that fails is only logged; if a crash has left a line without its
newline, the first record appended after it is acknowledged and lost. A daily record whose append fails
is not tried again that day.
`Validate` accepts negative values of `vmagent.scrape_interval` and
`storage.dir_size_check_interval`, although its message says ">= 1s"
(the first is passed on to vmagent, the second turns the cache off), and of
`dedup_window` and `repeat_interval` (a reminder in every cycle). It accepts a
disk rule while `disk.enabled` is false; the rule reads 0 for ever
(`ServiceConfig!RulesMeasured` states the exception). A remote write address
with a host name and no scheme is left without one.

## 5. Proofs

Each `X_proofs` module holds the theorems about `X`; all named assumptions on
constants are in the module that declares them, and TLC evaluates them in its
runs. Bounds (`MaxTime`, `MaxFaults`, `MaxStarts`, ...) are constants, so a theorem
holds for every value of them.

`Daemon_proofs`, for any rules, configurations, intervals and kinds of faults.
The engine, the manager and the file agree on which rules are firing
(`AlertedIffFiringCorrect`, `SavedAlertedIffFiringCorrect`), and no reminder is
overdue after a `CheckRepeat` (`NoReminderOverdueCorrect`). `AlertedIffFiring` is
not inductive: a restart needs the agreement on disk, the save needs that no
event is pending outside `Process`, and the evaluation that rules outside the configuration are
absent. These are the conjuncts of `IInv`, and `IInvCorrect` proves it with
one step per action. A consequence worth knowing: an alert event never meets a
`lastSent` entry, so `dedup_window` never drops anything in the composed
program. On `IInv` rest four theorems with an invariant of their own, whose
assumptions say how far each promise goes:

  - `PersistedChangesAnnouncedCorrect`, under all faults. `Owed`: while engine and
    file disagree about a rule, the wire shows why.
  - `JournalMatchesWireCorrect`, if no crash happens and appends and saves
    succeed (`Recorded`). `JInv`: outside a dispatch journal and wire match, and
    what the file says is firing has been announced.
  - `SustainedBeforeFiringCorrect`, if no start finds a file older than the last
    cycle's and no clock is set back (`UpToDate`); lost readings, failed appends,
    unreadable files and new configurations are allowed. `SInv`: a rule is
    pending, in memory or on disk, no longer than its readings have been above.
  - `MeetsContractCorrect`, the refinement of `NotificationContract`, for orderly
    restarts with one configuration (`Orderly`). `KInv` reads from the
    wire which rules are open, in memory or, between two processes, on disk;
    `StepMeetsContract` maps every step to one of the contract or to a stutter.

Two more theorems are the complements of violated runs: they say that what
the run shows is the only way there.

  - `FalseRecoveryOnlyAtShutdown`, if no collector fails (`NoCollectorFails`), under every other
    fault: a recovery nobody measured is one of a CPU rule, after the process has
    been told to stop. `RInv`: when `Evaluate` begins, each configured rule has a reading,
    or is a CPU rule of a cancelled process. Without CPU rules every announced recovery
    was measured (`MeasuredWithoutCpuRules`).
  - `RuleStateSurvivesRestartCorrect`, if `reset_baseline_on_start` is off and
    `state.json` can be read.

`Shutdown_proofs`, for any processes, order and number of children. First of
`Supervisor`: `AtMostOneChildCorrect`, `HeldChildStoppedCorrect` and
`AtMostOneStartAfterCancelCorrect`. The invariant adds what makes these
inductive: children are started in order (`StartedInOrder`), only the current
one can live and only while its goroutine attends to it (`OnlyCurrentAlive`),
`p.cmd` is that one or nil (`CmdIsCurrent`), it is cleared only of a reaped child
(`ClearedIsDead`), so a `p.cmd` that differs from the one `Stop` holds means the
held child is dead (`HeldOrDead`). It relies on `OrderAssumption`: each process is in
`Manager.processes` once. Then `ImplementsSupervisor` proves that each step of the
composed shutdown is a step of `Supervisor` or leaves its variables alone; the theorems
above hold of the whole daemon (`DaemonAtMostOneChild`,
`DaemonHeldChildStopped`, `DaemonAtMostOneStartAfterCancel`, and with the types of
bot and main `ShutdownTypeCorrect`). `NoSpinOnClosedChannelCorrect`: the bot never finds the
updates channel closed before its context is done, so it cannot spin on the
closed channel.

`NetworkBaseline_proofs`, for any traffic and resets:
`NeverOvercountsFromBaselineCorrect`, `ExactWithoutResetCorrect`. The invariant
anchors both baselines, in memory and on disk, to their own observation
(`Anchored`): a baseline plus the traffic seen since its `StartedAt` is at
least the counters, and equal to them until a reset. What a lost save or a crash
brings back is anchored too, hence the two observations.

`Upkeep_proofs`. The calendar is any sequence of days, each of any length; that
its days are in order and cover it is derived by induction from one day to the next
(`DaysInOrder`, `EveryInstantHasItsDay`). Three sets of theorems about `DailyTimer`:

  - in every calendar: `TypeCorrect`, `OwnReadingsCorrect`;
  - where 24 hours after HH:MM come on the next day, not before its HH:MM and in time
    for its record (`NextOnItsDay`: days of 23 hours are allowed unless HH:MM falls in their last hour;
    the run `DailyAutumn` shows why days of 25 hours are not):
    `AtMostOnePerDayCorrect` and `SampledByDaysEndCorrect`;
  - where they are the next HH:MM (`EvenCalendar`): `NoDayMissedCorrect`.

The last two say of a day that its snapshot was taken: its record is there, or the day is
in `forgone`.

The invariant says that the timer is set for an instant whose day is not yet
sampled (`Scheduled`, `Unrecorded`), that it is served in time (`Served`), that it
is due before the end of the first day whose HH:MM is still to come (`NothingBetween`),
and that the other days of the process's life are sampled (`AllSampled`).
`ImplementsDailyTimer` (the loop that also measures and cleans
implements `DailyTimer`) gives `UpkeepAtMostOnePerDay`;
`ReportedSizeRecentCorrect` is for every interval, size and calendar, with the
invariant `KeptSizeSeen`: unless a walk has failed, the cached size was the
directory's at the stamped time.

`HistoryFile_proofs`, for any number of records, any `keep_days` (negative ones
included), any crashes, failed cleanings and full disks: the four properties of the run, among
them `ImplementsLogCorrect`, the refinement of `HistoryLog`. The invariant
bounds the identities of the lines by `nextId` and orders them in the file and in the
temporary file (`IdsPast`, `RecordsInOrder`, `TmpSane`); it says that a tail without newline
never ends an acknowledged record, that a process which goes on with one has logged
why (`TailSane`), and that a temporary file on its way to the rename has every
readable record that has not expired, unless it was cut short by a full disk.
`KeptFacts` says what the scan of `cleanNDJSON` keeps of a file, by induction on the
number of lines read. `CleanRemovesExpiredOnlyWithSpace` is the complement of the run
`HistoryFull`: unless a full disk has cut a cleaning short, a cleaning removes expired
records only.

`Induction` is what these two rest on. The library's induction theorems take a
predicate as a parameter, which the provers cannot instantiate; `InductionUpTo`
takes the set of numbers of which the predicate holds, and `RecursionUpTo` says that
a function given by its first value and a step exists. Both follow from the
well-foundedness of the order.

`ServiceConfig_proofs`, for any set of files: `RulesUsableCorrect`,
`RulesMeasuredCorrect`, `IntegrationsConnectedCorrect`. `IInv` says that an
accepted configuration stays `SetDefaults` of the file and that rules, collectors and command
lines are built from it; the lemmas say what `Validate` leaves of rules and what
the address operators make of one another's results.

`MetricsReport_proofs`, for any window, any retention and any number of cycles, readers'
steps, crashes, cleanings, failed appends and reads: the properties of the run. They need to know
where each sample is, in the accumulator, a record or among the lost ones
(`AllCounted`, `RecordsApart`), that a record is removed only when it has expired or by
a failure (`RemovedSane`), that the accumulator is of the last counted
minute (`OneMinute`), and that minutes ascend. A flush can then
only add a record of a minute that no answered report's window includes, so an
answer once given is, but for removed records, what would be answered now
(`AnswersStand`), and two of them agree: `SameSnapshotSameAverages`. `Behind` orders engine,
snapshot, file and readers.

Only model-checked: liveness (`CancelledEnds`, `CancelReapsChildren`,
`BotReturns`, `ShutdownCompletes`), which is out of the prover's reach. Every
safety and action property of the passing runs is a theorem, some of them under the
hypotheses named above, which the runs' constants satisfy; those of
`JournalMatchesWire`, `SustainedBeforeFiring` and `MeetsContract` exclude
failures under which the property is false.

## 6. Not modelled

  - Delivery. A notifier that fails is only logged and the program goes on as if
    the message had arrived, so the wire is what is handed to the notifiers.
    Formatting of messages and reports is pure data.
  - YAML and `/proc` parsing; the files from which VictoriaMetrics reads, beyond
    the settings that connect the three processes.
  - The other Telegram commands and HTTP handlers: each formats one snapshot or
    one file and changes nothing. `check` is `loadConfig` alone, `version` prints.
  - The directory walk as a sequence of files: it is one step, with the size as
    its result or a failure.
  - Lines beyond the scanner's 1 MB buffer, and 64-bit counters that wrap: no
    execution gets there.
  - Clocks set back while the process runs. Ticks, and the durations of alerts within
    one process, go by the monotonic clock; arming the daily timer, the minutes of the
    accumulator, and the timestamps and cutoffs of the histories go by the wall clock, and
    in the modules about these it only moves forward.
  - Data races other than that on `Bot.stopFn`.
  - `Stop`'s return when a child cannot be signalled (`process.go:84`): a child of the same
    user refuses a signal only when it is gone, and that error is tolerated.
  - Signals after the first: the goroutine in main reads one, so a second one
    changes nothing.
  - Installation and release scripts, but for `Restart=always` of the unit, on
    which `Daemon!Start` relies.

## 7. Plan

Done: `Daemon` with engine, manager, state file and contract; `Supervisor`,
`TelegramBot` and their composition `Shutdown`; `HistoryFile` and `HistoryLog`;
`MetricsReport`; `NetworkBaseline`; `DailyTimer`, `DirSizer` and `Upkeep`;
`ServiceConfig`; theorems about all of them, one for each safety property.

Left:

 1. A clock set back under the running daily timer, between arming and firing.
 2. Several interfaces and mounts at once, where one of them vanishes.
 3. The collectors one by one, with the timeouts of each.
