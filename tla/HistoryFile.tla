---- MODULE HistoryFile ----
(***************************************************************************)
(* internal/storage/storage.go: one NDJSON history file (alerts.ndjson and *)
(* the three *_history.ndjson are handled alike) through appends, reads,   *)
(* the cleaning of expired records, its failures, crashes and a full disk. *)
(*                                                                         *)
(* The storage mutex makes each operation of the daemon one step, except   *)
(* that a crash may fall inside it.  A file is a sequence of lines and the *)
(* state of its tail: "ended" by a newline, or cut short inside a record   *)
(* ("torn") or just before the newline ("open", the line itself is valid). *)
(***************************************************************************)
EXTENDS Integers, Sequences

CONSTANTS
    KeepDays,     \* storage.keep_days_local, in the unit of the clock; negative passes Validate
    MaxRecords,   \* bound: records appended
    MaxTime       \* bound: the clock stops here

ASSUME HistoryAssumption ==
    KeepDays \in Int /\ MaxRecords \in Nat /\ MaxTime \in Nat

VARIABLES
    pc,       \* the daemon: "down", "maintenance", "up" or "renaming"
    now,      \* the clock, in days
    file,     \* the lines of the file
    tail,     \* "ended", "torn" or "open"
    tmp,      \* file.tmp, lines and tail, while cleanNDJSON is about to rename it
    nextId,   \* records appended so far
    acked,    \* observer: records whose append returned nil
    damaged,  \* observer: the process has logged a failure that left a tail without newline
    excused,  \* observer: acknowledged records that were joined to such a tail
    filled    \* observer: a full disk has cut a cleaning short

vars == <<pc, now, file, tail, tmp, nextId, acked, damaged, excused, filled>>

Record == [id : 1 .. MaxRecords, ts : 0 .. MaxTime]
Garbage == [id |-> 0, ts |-> -1]
IsRecord(line) == line # Garbage
Line == Record \cup {Garbage}
NoTmp == [lines |-> <<>>, tail |-> "ended"]

\* The types: records are dated when they are appended, and only acknowledged ones
\* are excused.
TypeOK ==
    /\ pc \in {"down", "maintenance", "up", "renaming"}
    /\ now \in 0 .. MaxTime
    /\ file \in Seq(Line)
    /\ tail \in {"ended", "torn", "open"}
    /\ tmp.lines \in Seq(Line) /\ tmp.tail \in {"ended", "torn"}
    /\ nextId \in 1 .. MaxRecords + 1
    /\ acked \subseteq Record /\ excused \subseteq acked
    /\ damaged \in BOOLEAN /\ filled \in BOOLEAN

Init ==
    /\ pc = "down"
    /\ now = 0
    /\ file = <<>>
    /\ tail = "ended"
    /\ tmp = NoTmp
    /\ nextId = 1
    /\ acked = {} /\ excused = {}
    /\ damaged = FALSE /\ filled = FALSE

----------------------------------------------------------------------------
\* readNDJSON with the callbacks' `skip malformed`: a torn line is no JSON, a
\* line without its newline is read like any other.
Readable == {file[i] : i \in {j \in DOMAIN file : IsRecord(file[j])}}

\* Mutation: the timestamp is rounded up.
NewRecordRoundedUp == [id |-> nextId, ts |-> now + 1]

NewRecord == [id |-> nextId, ts |-> now]

\* The lines after appending `line`.  What is appended to a tail without a
\* newline becomes one line with it, which is no JSON any more.
Appended(line) ==
    IF tail = "ended" THEN Append(file, line)
    ELSE [file EXCEPT ![Len(file)] = Garbage]

\* appendNDJSON: one write of the record and its newline.
AppendRecord ==
    /\ pc = "up"
    /\ nextId <= MaxRecords
    /\ file' = Appended(NewRecord)
    /\ tail' = "ended"
    /\ acked' = acked \cup {NewRecord}
    /\ excused' = excused \cup (IF damaged THEN {NewRecord} ELSE {})
    /\ damaged' = FALSE
    /\ nextId' = nextId + 1
    /\ UNCHANGED <<pc, now, tmp, filled>>

\* The disk is full: a part of the record is written, the caller logs the
\* error, and the daemon goes on.  (An append that fails before it writes leaves
\* the file alone.)
ShortAppend ==
    /\ pc = "up"
    /\ nextId <= MaxRecords
    /\ \/ file' = Appended(Garbage) /\ tail' = "torn"
       \/ file' = Appended(NewRecord) /\ tail' = "open"
    /\ damaged' = TRUE
    /\ nextId' = nextId + 1
    /\ UNCHANGED <<pc, now, tmp, acked, excused, filled>>

\* A crash inside the write; the daemon never learns how much was written.
CrashInAppend ==
    /\ pc = "up"
    /\ nextId <= MaxRecords
    /\ \/ file' = Appended(Garbage) /\ tail' = "torn"
       \/ file' = Appended(NewRecord) /\ tail' = "open"
       \/ file' = Appended(NewRecord) /\ tail' = "ended"
    /\ pc' = "down"
    /\ damaged' = FALSE
    /\ nextId' = nextId + 1
    /\ UNCHANGED <<now, tmp, acked, excused, filled>>

----------------------------------------------------------------------------
Cutoff == now - KeepDays

\* Mutation: a record expires on its last day.
ExpiredEarly(line) == IsRecord(line) /\ line.ts <= Cutoff

Expired(line) == IsRecord(line) /\ line.ts < Cutoff

\* The lines that the scan of cleanNDJSON keeps of the first i: a malformed line
\* is never expired.
KeptOf[i \in 0 .. Len(file)] ==
    IF i = 0 THEN <<>>
    ELSE IF Expired(file[i]) THEN KeptOf[i - 1]
    ELSE Append(KeptOf[i - 1], file[i])

Kept == KeptOf[Len(file)]

\* cleanNDJSON up to the rename.  The errors of wf.Write are ignored, so when
\* the disk fills up the temporary file is a prefix of what it should be, and
\* may end in a part of the line that did not fit.
WholeLines(n) == [lines |-> SubSeq(Kept, 1, n), tail |-> "ended"]
CutLine(n) == [lines |-> Append(SubSeq(Kept, 1, n), Garbage), tail |-> "torn"]

\* Mutation: file.tmp is opened for appending.
BeginCleanAppending(from) ==
    /\ pc = from
    /\ pc' = "renaming"
    /\ tmp' = [lines |-> tmp.lines \o Kept, tail |-> "ended"]
    /\ UNCHANGED <<now, file, tail, nextId, acked, damaged, excused, filled>>

\* os.Create discards what an earlier process has left of file.tmp.
BeginClean(from) ==
    /\ pc = from
    /\ pc' = "renaming"
    /\ \/ tmp' = WholeLines(Len(Kept)) /\ UNCHANGED filled
       \/ /\ \E n \in 0 .. Len(Kept) - 1 : tmp' \in {WholeLines(n), CutLine(n)}
          /\ filled' = TRUE
    /\ UNCHANGED <<now, file, tail, nextId, acked, damaged, excused>>

\* Mutation: no maintenance at start.
StartupCleanSkipped ==
    /\ pc = "maintenance"
    /\ pc' = "up"
    /\ UNCHANGED <<now, file, tail, tmp, nextId, acked, damaged, excused, filled>>

\* performStartupMaintenance, before anything is appended ...
StartupClean == BeginClean("maintenance")

\* ... and the last part of dailySnapshot.
DailyClean == BeginClean("up")

\* The cleaning gives up: it cannot open or scan the file or create file.tmp
\* (maintenance), or not close file.tmp, which it then removes, or not rename it
\* (renaming).  CleanHistory logs that and the daemon goes on with the file as it
\* was, its tail included.  (A daily cleaning that gives up before file.tmp
\* changes nothing.)
CleanFails ==
    /\ \/ pc = "maintenance" /\ tmp' = tmp
       \/ pc = "renaming" /\ tmp' \in {tmp, NoTmp}
    /\ pc' = "up"
    /\ damaged' = (tail # "ended")
    /\ UNCHANGED <<now, file, tail, nextId, acked, excused, filled>>

\* os.Rename.  The new file may end in the line that did not fit.
Rename ==
    /\ pc = "renaming"
    /\ pc' = "up"
    /\ file' = tmp.lines
    /\ tail' = tmp.tail
    /\ tmp' = NoTmp
    /\ damaged' = (tmp.tail # "ended")
    /\ UNCHANGED <<now, nextId, acked, excused, filled>>

\* Run begins with initState and the maintenance.
Start ==
    /\ pc = "down"
    /\ pc' = "maintenance"
    /\ UNCHANGED <<now, file, tail, tmp, nextId, acked, damaged, excused, filled>>

\* The process ends, in good order or not; file.tmp may stay behind.
Stop ==
    /\ pc # "down"
    /\ pc' = "down"
    /\ damaged' = FALSE
    /\ UNCHANGED <<now, file, tail, tmp, nextId, acked, excused, filled>>

TimePasses ==
    /\ now < MaxTime
    /\ now' = now + 1
    /\ UNCHANGED <<pc, file, tail, tmp, nextId, acked, damaged, excused, filled>>

Next ==
    \/ Start \/ Stop \/ AppendRecord \/ ShortAppend \/ CrashInAppend
    \/ StartupClean \/ DailyClean \/ CleanFails \/ Rename \/ TimePasses

Spec == Init /\ [][Next]_vars

----------------------------------------------------------------------------
\* Unless a full disk has cut a cleaning short, a record that was acknowledged can
\* be read until it expires, whatever crashes in the middle of later writes and
\* cleanings: the rewrite at every start ends the line that a crash left open,
\* before the next record is joined to it.  A failure that the process has logged,
\* of an append or of that rewrite, costs one acknowledged record at most: the
\* first one after it.
AcknowledgedReadable ==
    ~filled => \A record \in acked \ excused : ~Expired(record) => record \in Readable

\* No record comes back or is doubled, out of a file.tmp left behind or by a
\* rewrite: ids in the file only ascend.
RecordsInOrder ==
    \A i, j \in DOMAIN file :
        i < j /\ IsRecord(file[i]) /\ IsRecord(file[j]) => file[i].id < file[j].id

\* The file is a history log: what can be read of it is the log.  Crashes, torn
\* and open lines, the temporary file and its rename are not visible, nor is a
\* failed cleaning but for the record that is joined to a damaged line after it.
Log ==
    INSTANCE HistoryLog
        WITH KeepDays <- KeepDays, Ids <- 1 .. MaxRecords, now <- now,
             log <- Readable, acked <- acked, damaged <- damaged, degraded <- filled
ImplementsLog == Log!Spec

\* A rename removes expired records only: CleanHistory removes "the history
\* records that are older than keepDays days".
CleanRemovesExpiredOnly ==
    [][pc = "renaming" /\ pc' = "up" =>
        \A record \in Readable : ~Expired(record) => record \in Readable']_vars

====
