---- MODULE HistoryLog ----
(***************************************************************************)
(* What a reader of a history file may rely on, with no lines, no tail, no *)
(* temporary file and no process in sight: a set of records that grows by  *)
(* what is appended and loses nothing but expired records, and one record  *)
(* for each failure that damaged the file's end, until a cleaning finds    *)
(* the disk full.  A record whose append was interrupted by a crash is     *)
(* there or it is not; it does not come later.                             *)
(***************************************************************************)
EXTENDS Integers

CONSTANTS
    KeepDays,   \* for how many days a record is kept
    Ids         \* what tells records apart, in the order of their appends

VARIABLES
    now,       \* the clock, in days
    log,       \* the records that can be read
    acked,     \* the records whose append succeeded
    damaged,   \* a failure has damaged the end of the file
    degraded   \* a full disk has cut a cleaning short

vars == <<now, log, acked, damaged, degraded>>

Init ==
    /\ now = 0
    /\ log = {} /\ acked = {}
    /\ damaged = FALSE /\ degraded = FALSE

\* A record is of the day on which it is appended; ids are not used twice.
Fresh(record) ==
    /\ record.ts = now
    /\ \A other \in log \cup acked : record.id > other.id

Expired(record) == record.ts + KeepDays < now

\* The append succeeds ...
AppendTo(record) ==
    /\ ~damaged
    /\ Fresh(record)
    /\ log' = log \cup {record}
    /\ acked' = acked \cup {record}
    /\ UNCHANGED <<now, damaged, degraded>>

\* ... or it fails, or a crash hides whether it has, with all of the record
\* written ...
AppendUnsure(record) ==
    /\ ~damaged
    /\ Fresh(record)
    /\ log' = log \cup {record}
    /\ damaged' \in BOOLEAN
    /\ UNCHANGED <<now, acked, degraded>>

\* ... or it is lost in the damage, and with it no record that was acknowledged
\* before.  When it was acknowledged itself, the damage is over.
AppendLosing(record) ==
    /\ damaged
    /\ Fresh(record)
    /\ log' \subseteq log
    /\ (log \ log') \cap acked = {}
    /\ \/ acked' = acked \cup {record} /\ damaged' = FALSE
       \/ acked' = acked /\ damaged' \in BOOLEAN
    /\ UNCHANGED <<now, degraded>>

\* An append or a cleaning fails.
Damage == damaged' = TRUE /\ UNCHANGED <<now, log, acked, degraded>>

\* A restart or a cleaning ends the damaged line.
Repair == damaged' = FALSE /\ UNCHANGED <<now, log, acked, degraded>>

\* A cleaning removes records, expired ones.
Clean ==
    /\ log' \subseteq log
    /\ \A record \in log \ log' : Expired(record)
    /\ damaged' = FALSE
    /\ UNCHANGED <<now, acked, degraded>>

\* A full disk cuts a cleaning short; from then on a cleaning may lose any record,
\* but brings none back.
Degrade == degraded' = TRUE /\ UNCHANGED <<now, log, acked, damaged>>

CleanLosing ==
    /\ degraded
    /\ log' \subseteq log
    /\ damaged' \in BOOLEAN
    /\ UNCHANGED <<now, acked, degraded>>

Tick == now' = now + 1 /\ UNCHANGED <<log, acked, damaged, degraded>>

Next ==
    \/ \E id \in Ids : LET record == [id |-> id, ts |-> now] IN
            AppendTo(record) \/ AppendUnsure(record) \/ AppendLosing(record)
    \/ Damage \/ Repair \/ Clean \/ Degrade \/ CleanLosing \/ Tick

Spec == Init /\ [][Next]_vars

====
