---- MODULE MetricsReport ----
(***************************************************************************)
(* From a cycle's readings to a report: the minute accumulator             *)
(* (internal/daemon/history.go), metrics_history.ndjson, the published     *)
(* snapshot, and the readers that combine them with the engine's state     *)
(* (internal/metrics/avg.go): a handler inside the process (handleReport   *)
(* of httpapi, or one of Telegram's /report, /cpu and /mem), which runs    *)
(* beside the cycle and beside the shutdown, and the report command of     *)
(* main.go, which is a process of its own and reads the files.             *)
(*                                                                         *)
(* Cycles are numbered; a snapshot, a sample and a state of the engine are *)
(* named by the cycle they come from, 0 being none.  A history record is a *)
(* minute with the cycles whose samples it averages.  How the records get  *)
(* lost in the file, by a cleaning or a failure, is HistoryFile's matter;  *)
(* here they are removed.                                                  *)
(***************************************************************************)
EXTENDS Integers, FiniteSets

CONSTANTS
    Window,      \* a report's averaging window, in minutes
    Keep,        \* storage.keep_days_local, in minutes; negative passes Validate
    MaxMinute,   \* bound: the clock stops here
    MaxCycles,   \* bound: collection cycles
    MaxFaults    \* bound: crashes, failed saves, lost records

ASSUME ReportAssumption ==
    /\ Window \in Nat \ {0} /\ Keep \in Int
    /\ MaxMinute \in Nat /\ MaxCycles \in Nat /\ MaxFaults \in Nat

VARIABLES
    pc,          \* the daemon's place in collectAndEvaluate
    minute,      \* the clock
    cycle,       \* the last cycle begun
    minuteOf,    \* minuteOf[c]: the minute of c's snapshot
    engineAt,    \* the cycle the engine has evaluated last
    curMin,      \* accumulator: the minute being accumulated
    samples,     \* accumulator: the samples since the last flush
    history,     \* the records appended to metrics_history.ndjson
    removed,     \* those of them that are not in the file any more
    published,   \* ServiceState.LastSnapshot
    saved,       \* state.json: its snapshot and the engine's state
    reader,      \* readers: what they have read of a report so far
    answers,     \* observer: the averages given for a snapshot, as sets of records
    lost,        \* observer: samples lost by a crash, a failed append or a full disk
    faultsLeft

daemonVars == <<pc, cycle, minuteOf, engineAt, curMin, samples, published>>
readerVars == <<reader, answers>>
recordVars == <<history, removed, lost>>
vars == <<daemonVars, readerVars, minute, recordVars, saved, faultsLeft>>

Cycles == 1 .. MaxCycles
Minutes == 0 .. MaxMinute
Readers == {"handler", "cli"}
HistoryRecord == [min : Minutes, samples : SUBSET Cycles]

\* The types: cycles and minutes within their bounds, removed records among those
\* that were appended.
TypeOK ==
    /\ pc \in {"down", "idle", "evaluate", "record", "publish", "save", "stopping"}
    /\ minute \in Minutes
    /\ cycle \in 0 .. MaxCycles
    /\ minuteOf \in [Cycles -> Minutes]
    /\ engineAt \in 0 .. MaxCycles
    /\ curMin \in Minutes
    /\ samples \subseteq Cycles
    /\ history \subseteq HistoryRecord /\ removed \subseteq history
    /\ published \in 0 .. MaxCycles
    /\ saved \in [snapshot : 0 .. MaxCycles, engine : 0 .. MaxCycles]
    /\ reader \in [Readers -> [at : {"idle", "averages", "firing"}, snapshot : 0 .. MaxCycles]]
    /\ answers \in [Cycles -> SUBSET SUBSET HistoryRecord]
    /\ lost \subseteq Cycles
    /\ faultsLeft \in 0 .. MaxFaults

NotReading == [at |-> "idle", snapshot |-> 0]

Init ==
    /\ pc = "down"
    /\ minute = 0
    /\ cycle = 0
    /\ minuteOf = [c \in Cycles |-> 0]
    /\ engineAt = 0
    /\ curMin = 0
    /\ samples = {}
    /\ history = {} /\ removed = {}
    /\ published = 0
    /\ saved = [snapshot |-> 0, engine |-> 0]
    /\ reader = [d \in Readers |-> NotReading]
    /\ answers = [c \in Cycles |-> {}]
    /\ lost = {}
    /\ faultsLeft = MaxFaults

----------------------------------------------------------------------------
Readable == history \ removed

\* cleanNDJSON's condition, of a record that is dated at the start of its minute.
Expired(record) == record.min + Keep <= minute

\* A failure takes records out of the file.
Lose(records) ==
    /\ faultsLeft > 0
    /\ faultsLeft' = faultsLeft - 1
    /\ removed' = removed \cup records
    /\ lost' = lost \cup UNION {record.samples : record \in records}

\* CleanHistory, which removes what has expired or fails and removes nothing; on
\* a full disk it may cut off any other records too.
CleanHistory ==
    \/ /\ removed' \in {removed, removed \cup {record \in Readable : Expired(record)}}
       /\ UNCHANGED <<lost, faultsLeft>>
    \/ \E records \in SUBSET Readable : Lose(records)

\* flushLocked: appends the accumulated minute, if there is one; the samples
\* are dropped even if the append fails, or is joined to a line that an earlier
\* failure left without its newline: the file's last record then, at most.
FlushLocked ==
    IF samples = {}
    THEN UNCHANGED <<recordVars, faultsLeft>>
    ELSE \/ /\ history' = history \cup {[min |-> curMin, samples |-> samples]}
            /\ UNCHANGED <<removed, lost, faultsLeft>>
         \/ /\ faultsLeft > 0
            /\ faultsLeft' = faultsLeft - 1
            /\ \E joined \in {{}} \cup {{record} : record \in Readable} :
                /\ \A last \in joined, record \in Readable : record.min <= last.min
                /\ removed' = removed \cup joined
                /\ lost' = lost \cup samples \cup UNION {record.samples : record \in joined}
            /\ UNCHANGED history

\* The daemon starts from state.json, if it is to be restored, and cleans the
\* history (performStartupMaintenance).
Start ==
    /\ pc = "down"
    /\ pc' = "idle"
    /\ \/ published' = saved.snapshot /\ engineAt' = saved.engine
       \/ published' = 0 /\ engineAt' = 0
    /\ samples' = {}
    /\ CleanHistory
    /\ UNCHANGED <<cycle, minuteOf, curMin, readerVars, minute, history, saved>>

\* dailySnapshot ends with a cleaning, if there has been a snapshot.
DailyClean ==
    /\ pc = "idle"
    /\ published # 0
    /\ CleanHistory
    /\ UNCHANGED <<daemonVars, readerVars, minute, history, saved>>

BeginCycleRounding ==
    /\ pc = "idle" /\ cycle < MaxCycles
    /\ pc' = "evaluate" /\ cycle' = cycle + 1
    /\ \E m \in {minute, minute + 1} : minuteOf' = [minuteOf EXCEPT ![cycle + 1] = m]
    /\ UNCHANGED <<engineAt, curMin, samples, published, readerVars, minute,
                   recordVars, saved, faultsLeft>>

BeginCyclePublishing ==
    /\ pc = "idle" /\ cycle < MaxCycles
    /\ pc' = "evaluate" /\ cycle' = cycle + 1
    /\ published' = cycle + 1
    /\ minuteOf' = [minuteOf EXCEPT ![cycle + 1] = minute]
    /\ UNCHANGED <<engineAt, curMin, samples, readerVars, minute, recordVars, saved, faultsLeft>>

\* The snapshot's timestamp is taken before the collectors run.
BeginCycle ==
    /\ pc = "idle"
    /\ cycle < MaxCycles
    /\ pc' = "evaluate"
    /\ cycle' = cycle + 1
    /\ minuteOf' = [minuteOf EXCEPT ![cycle + 1] = minute]
    /\ UNCHANGED <<engineAt, curMin, samples, published, readerVars, minute,
                   recordVars, saved, faultsLeft>>

EvaluateCycle ==
    /\ pc = "evaluate"
    /\ pc' = "record"
    /\ engineAt' = cycle
    /\ UNCHANGED <<cycle, minuteOf, curMin, samples, published, readerVars,
                   minute, recordVars, saved, faultsLeft>>

RecordKeepingSamples ==
    /\ pc = "record" /\ pc' = "publish"
    /\ samples' = samples \cup {cycle}
    /\ IF samples # {} /\ minuteOf[cycle] = curMin
       THEN UNCHANGED <<curMin, recordVars, faultsLeft>>
       ELSE FlushLocked /\ curMin' = minuteOf[cycle]
    /\ UNCHANGED <<cycle, minuteOf, engineAt, published, readerVars, minute, saved>>

\* Record(ts, ...): a sample of another minute flushes the accumulated one.
Record ==
    /\ pc = "record"
    /\ pc' = "publish"
    /\ IF samples # {} /\ minuteOf[cycle] = curMin
       THEN /\ samples' = samples \cup {cycle}
            /\ UNCHANGED <<curMin, recordVars, faultsLeft>>
       ELSE /\ FlushLocked
            /\ samples' = {cycle}
            /\ curMin' = minuteOf[cycle]
    /\ UNCHANGED <<cycle, minuteOf, engineAt, published, readerVars, minute, saved>>

Publish ==
    /\ pc = "publish"
    /\ pc' = "save"
    /\ published' = cycle
    /\ UNCHANGED <<cycle, minuteOf, engineAt, curMin, samples, readerVars,
                   minute, recordVars, saved, faultsLeft>>

\* SaveState; its failure leaves the old file.
WriteState ==
    \/ /\ saved' = [snapshot |-> published, engine |-> engineAt]
       /\ UNCHANGED faultsLeft
    \/ /\ faultsLeft > 0
       /\ faultsLeft' = faultsLeft - 1
       /\ UNCHANGED saved

Save ==
    /\ pc = "save"
    /\ pc' = "idle"
    /\ WriteState
    /\ UNCHANGED <<cycle, minuteOf, engineAt, curMin, samples, published,
                   readerVars, minute, recordVars>>

\* The process is gone, and with it its handlers.
ProcessEnds ==
    /\ pc' = "down"
    /\ published' = 0
    /\ engineAt' = 0
    /\ samples' = {}
    /\ reader' = [reader EXCEPT !["handler"] = NotReading]
    /\ UNCHANGED <<cycle, minuteOf, curMin, answers, minute>>

BeginShutdownWithoutFlush ==
    /\ pc = "idle"
    /\ pc' = "stopping"
    /\ UNCHANGED <<cycle, minuteOf, engineAt, curMin, samples, published,
                   readerVars, minute, recordVars, saved, faultsLeft>>

\* shutdown flushes the accumulated part of a minute first.  Handlers run on
\* while it stops the integrations, the HTTP server and the bot.
BeginShutdown ==
    /\ pc = "idle"
    /\ pc' = "stopping"
    /\ FlushLocked
    /\ samples' = {}
    /\ UNCHANGED <<cycle, minuteOf, engineAt, curMin, published, readerVars,
                   minute, saved>>

\* The state is saved last; a handler that is still running is cut off.
FinishShutdown ==
    /\ pc = "stopping"
    /\ WriteState
    /\ ProcessEnds
    /\ UNCHANGED recordVars

Crash ==
    /\ pc # "down"
    /\ faultsLeft > 0
    /\ faultsLeft' = faultsLeft - 1
    /\ lost' = lost \cup samples \cup (IF pc \in {"evaluate", "record"} THEN {cycle} ELSE {})
    /\ ProcessEnds
    /\ UNCHANGED <<history, removed, saved>>

----------------------------------------------------------------------------
\* getSnapshot, or LoadState in the report command.  Without a snapshot a
\* handler says so and the command collects one of its own, which nobody else
\* reports on.
ReadSnapshot(d) ==
    LET snapshot == IF d = "handler" THEN published ELSE saved.snapshot IN
    /\ reader[d].at = "idle"
    /\ d = "handler" => pc # "down"
    /\ snapshot # 0
    /\ reader' = [reader EXCEPT ![d] = [at |-> "averages", snapshot |-> snapshot]]
    /\ UNCHANGED <<daemonVars, answers, minute, recordVars, saved, faultsLeft>>

InWindowThroughCurrent(c) ==
    {record \in Readable :
        minuteOf[c] - Window <= record.min /\ record.min <= minuteOf[c]}

\* The records ComputeAverages takes for a report on snapshot c: the last
\* Window minutes before the minute of the snapshot, which is not completed.
InWindow(c) ==
    {record \in Readable :
        /\ minuteOf[c] - Window <= record.min
        /\ record.min < minuteOf[c]}

\* getMetricsAvg.  Telegram's /cpu and /mem end with the averages; so does the
\* command, which took the firing rules from the file with the snapshot.  When the
\* history cannot be read, the report shows no averages.
ReadAverages(d) ==
    LET c == reader[d].snapshot IN
    /\ reader[d].at = "averages"
    /\ \/ d = "handler" /\ reader' = [reader EXCEPT ![d].at = "firing"]
       \/ reader' = [reader EXCEPT ![d] = NotReading]
    /\ answers' \in {answers, [answers EXCEPT ![c] = @ \cup {InWindow(c)}]}
    /\ UNCHANGED <<daemonVars, minute, recordVars, saved, faultsLeft>>

\* handleReport and ReportCmd ask the engine last.
ReadFiring ==
    /\ reader["handler"].at = "firing"
    /\ reader' = [reader EXCEPT !["handler"] = NotReading]
    /\ UNCHANGED <<daemonVars, answers, minute, recordVars, saved, faultsLeft>>

MinutePasses ==
    /\ minute < MaxMinute
    /\ minute' = minute + 1
    /\ UNCHANGED <<daemonVars, readerVars, recordVars, saved, faultsLeft>>

Next ==
    \/ Start \/ DailyClean \/ BeginCycle \/ EvaluateCycle \/ Record \/ Publish \/ Save
    \/ BeginShutdown \/ FinishShutdown \/ Crash \/ ReadFiring \/ MinutePasses
    \/ \E d \in Readers : ReadSnapshot(d) \/ ReadAverages(d)

Spec == Init /\ [][Next]_vars

----------------------------------------------------------------------------
\* Whoever reports on a snapshot, and whenever, gives the same averages, but for
\* records that a cleaning or a failure has removed since, and unless the history
\* cannot be read: all records of minutes before a published snapshot's are
\* written before it is published.  ("以保证 CLI / HTTP / TG 行为一致", says avg.go.)
SameSnapshotSameAverages ==
    \A c \in Cycles : \A first, second \in answers[c] : first \ removed = second \ removed

\* Of every minute before the published snapshot's, all samples that no
\* failure lost are in the history, in the record of their minute, until that
\* record expires.
CompletedMinutesRecorded ==
    published # 0 => \A c \in 1 .. published :
        minuteOf[c] < minuteOf[published] /\ c \notin lost =>
            \E record \in history :
                /\ c \in record.samples /\ record.min = minuteOf[c]
                /\ record \in Readable \/ Expired(record)

\* A sample is averaged into one record only, in the file or removed from it.
SamplesRecordedOnce ==
    \A r1, r2 \in history : r1 # r2 => r1.samples \cap r2.samples = {}

\* The firing rules a report lists are never those of an evaluation before
\* the snapshot it shows.
FiringNotOlderThanSnapshot == reader["handler"].snapshot <= engineAt

====
