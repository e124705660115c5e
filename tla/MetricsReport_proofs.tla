---- MODULE MetricsReport_proofs ----
(***************************************************************************)
(* Proofs about MetricsReport, for every window and every pattern of       *)
(* cycles, restarts, failures and reports.                                 *)
(***************************************************************************)
EXTENDS MetricsReport, TLAPS

\* A cycle that is under way has a number.
Underway == pc \in {"evaluate", "record", "publish", "save"} => cycle # 0

\* The last cycle whose sample the accumulator has been given, or never will.
Counted == IF pc \in {"evaluate", "record"} THEN cycle - 1 ELSE cycle

\* Cycles have been begun in the order of their minutes.
MinutesAscend ==
    \A c, d \in Cycles : c <= d /\ d <= cycle => minuteOf[c] <= minuteOf[d]

MinutesPast == \A c \in Cycles : c <= cycle => minuteOf[c] <= minute

\* What is accumulated is of one minute, the last counted cycle's.
OneMinute ==
    /\ \A c \in samples : c <= Counted /\ minuteOf[c] = curMin
    /\ samples # {} => Counted \in Cycles /\ minuteOf[Counted] = curMin

\* A record's samples are of its minute and nowhere else.
RecordsApart ==
    \A record \in history :
        /\ record.samples \cap samples = {}
        /\ \A c \in record.samples : c <= Counted /\ minuteOf[c] = record.min

\* A sample has been averaged, into the record of its minute.
Recorded(c) == \E record \in history : c \in record.samples /\ record.min = minuteOf[c]

\* No counted sample has disappeared without a failure.
AllCounted ==
    \A c \in Cycles : c <= Counted => c \in lost \/ c \in samples \/ Recorded(c)

\* What has been published or saved, is or was read, is counted; and the
\* engine is never behind the snapshot beside it.
Behind ==
    /\ published <= Counted /\ published <= engineAt
    /\ saved.snapshot <= Counted /\ saved.snapshot <= saved.engine
    /\ engineAt <= cycle /\ saved.engine <= cycle
    /\ pc \in {"record", "publish", "save"} => engineAt = cycle
    /\ \A d \in Readers : reader[d].snapshot <= Counted
    /\ reader["handler"].snapshot <= engineAt

\* A stopping process has flushed its accumulator; one that is down has no
\* handlers either.
DownIsEmpty ==
    /\ pc \in {"down", "stopping"} => samples = {}
    /\ pc = "down" => reader["handler"].snapshot = 0

\* A record is removed when it has expired or by a failure.
RemovedSane == \A record \in removed : Expired(record) \/ record.samples \subseteq lost

\* An answer given once is what would be answered now, but for what is removed.
AnswersStand ==
    \A c \in Cycles : \A answer \in answers[c] :
        c <= Counted /\ answer \ removed = InWindow(c)

IInv ==
    /\ TypeOK
    /\ Underway
    /\ MinutesAscend
    /\ MinutesPast
    /\ OneMinute
    /\ RecordsApart
    /\ AllCounted
    /\ SamplesRecordedOnce
    /\ Behind
    /\ DownIsEmpty
    /\ RemovedSane
    /\ AnswersStand

----------------------------------------------------------------------------
\* A flush writes the accumulated minute, or loses it to a failure.
LEMMA FlushEffect ==
    ASSUME TypeOK, FlushLocked
    PROVE  /\ history \subseteq history' /\ history' \subseteq HistoryRecord
           /\ \A record \in history' :
                record \in history
                \/ (samples # {} /\ record.min = curMin /\ record.samples = samples)
           /\ removed \subseteq removed' /\ removed' \subseteq history'
           /\ \A record \in removed' \ removed : record.samples \subseteq lost'
           /\ lost \subseteq lost' /\ lost' \subseteq Cycles
           /\ faultsLeft' \in 0 .. MaxFaults
           /\ \A c \in samples : \/ c \in lost'
                                 \/ \E record \in history' :
                                      c \in record.samples /\ record.min = curMin
<1> DEFINE new == [min |-> curMin, samples |-> samples]
<1>1. new \in HistoryRecord /\ new.min = curMin /\ new.samples = samples
  BY DEF TypeOK, HistoryRecord
<1>2. CASE samples = {}
  BY <1>2 DEF FlushLocked, TypeOK, recordVars
<1>3. CASE samples # {} /\ history' = history \cup {new} /\ UNCHANGED <<removed, lost, faultsLeft>>
  <2> HIDE DEF new
  <2> QED
    BY <1>1, <1>3 DEF TypeOK
<1>4. CASE /\ faultsLeft > 0 /\ faultsLeft' = faultsLeft - 1
           /\ \E joined \in SUBSET Readable :
                /\ removed' = removed \cup joined
                /\ lost' = lost \cup samples \cup UNION {record.samples : record \in joined}
           /\ UNCHANGED history
  <2>1. PICK joined \in SUBSET Readable :
            /\ removed' = removed \cup joined
            /\ lost' = lost \cup samples \cup UNION {record.samples : record \in joined}
    BY <1>4
  <2>2. \A record \in joined : record \in history /\ record.samples \subseteq Cycles
    BY DEF TypeOK, Readable, HistoryRecord
  <2>3. lost' \subseteq Cycles
    BY <2>1, <2>2 DEF TypeOK
  <2> QED
    BY <1>4, <2>1, <2>2, <2>3, ReportAssumption DEF TypeOK
<1>5. \A joined \in {{}} \cup {{record} : record \in Readable} : joined \in SUBSET Readable
  OBVIOUS
<1> QED
  BY <1>2, <1>3, <1>4, <1>5 DEF FlushLocked

\* A cleaning removes what has expired, or fails, or loses records on a full disk.
LEMMA CleanEffect ==
    ASSUME TypeOK, CleanHistory
    PROVE  /\ removed \subseteq removed' /\ removed' \subseteq history
           /\ \A record \in removed' \ removed :
                Expired(record) \/ record.samples \subseteq lost'
           /\ lost \subseteq lost' /\ lost' \subseteq Cycles
           /\ faultsLeft' \in 0 .. MaxFaults
<1>1. CASE /\ removed' \in {removed, removed \cup {record \in Readable : Expired(record)}}
           /\ UNCHANGED <<lost, faultsLeft>>
  BY <1>1 DEF TypeOK, Readable
<1>2. ASSUME NEW records \in SUBSET Readable, Lose(records)
      PROVE  /\ removed \subseteq removed' /\ removed' \subseteq history
             /\ \A record \in removed' \ removed : record.samples \subseteq lost'
             /\ lost \subseteq lost' /\ lost' \subseteq Cycles
             /\ faultsLeft' \in 0 .. MaxFaults
  <2>1. \A record \in records : record \in history /\ record.samples \subseteq Cycles
    BY DEF TypeOK, Readable, HistoryRecord
  <2>2. lost' \subseteq Cycles
    BY <1>2, <2>1 DEF Lose, TypeOK
  <2> QED
    BY <1>2, <2>1, <2>2, ReportAssumption DEF Lose, TypeOK
<1> QED
  BY <1>1, <1>2 DEF CleanHistory

\* A save, done or failed, keeps the types.
LEMMA WriteStateType ==
    ASSUME TypeOK, WriteState
    PROVE  /\ saved' \in [snapshot : 0 .. MaxCycles, engine : 0 .. MaxCycles]
           /\ faultsLeft' \in 0 .. MaxFaults
BY ReportAssumption DEF TypeOK, WriteState

\* So does the end of the process.
LEMMA ProcessEndsType ==
    ASSUME TypeOK, ProcessEnds, history' \subseteq HistoryRecord, lost' \subseteq Cycles,
           removed' \subseteq history',
           saved' \in [snapshot : 0 .. MaxCycles, engine : 0 .. MaxCycles],
           faultsLeft' \in 0 .. MaxFaults
    PROVE  TypeOK' /\ Underway'
BY ReportAssumption DEF TypeOK, Underway, ProcessEnds, NotReading, Readers, Cycles

\* A step keeps the types.
LEMMA TypeStep == TypeOK /\ Underway /\ [Next]_vars => TypeOK' /\ Underway'
<1> SUFFICES ASSUME TypeOK, Underway, [Next]_vars PROVE TypeOK' /\ Underway'
  OBVIOUS
<1> USE ReportAssumption DEF daemonVars, readerVars, recordVars, Underway
<1>0. CASE DailyClean
  BY <1>0, CleanEffect DEF TypeOK, DailyClean
<1>1. CASE Start
  BY <1>1, CleanEffect DEF TypeOK, Start
<1>2. CASE BeginCycle
  <2>1. minute \in Minutes /\ minuteOf' \in [Cycles -> Minutes]
    BY <1>2 DEF TypeOK, BeginCycle
  <2> QED
    BY <1>2, <2>1 DEF TypeOK, BeginCycle
<1>3. CASE EvaluateCycle
  BY <1>3 DEF TypeOK, EvaluateCycle
<1>4. CASE Record
  <2>1. cycle \in Cycles
    BY <1>4 DEF TypeOK, Cycles, Record
  <2>2. /\ history' \subseteq HistoryRecord /\ removed' \subseteq history'
        /\ lost' \subseteq Cycles /\ faultsLeft' \in 0 .. MaxFaults
    <3>1. CASE UNCHANGED <<recordVars, faultsLeft>>
      BY <3>1 DEF TypeOK
    <3>2. CASE FlushLocked
      BY <3>2, FlushEffect
    <3> QED
      BY <1>4, <3>1, <3>2 DEF Record
  <2>3. samples' \subseteq Cycles /\ curMin' \in Minutes
    <3>1. minuteOf[cycle] \in Minutes /\ curMin \in Minutes /\ samples \subseteq Cycles
      BY <2>1 DEF TypeOK
    <3>2. \/ samples' = samples \cup {cycle} /\ curMin' = curMin
          \/ samples' = {cycle} /\ curMin' = minuteOf[cycle]
      BY <1>4 DEF Record
    <3> QED
      BY <2>1, <3>1, <3>2
  <2>4. /\ pc' = "publish"
        /\ UNCHANGED <<cycle, minuteOf, engineAt, published, reader, answers, minute, saved>>
    BY <1>4 DEF Record
  <2> QED
    BY <2>1, <2>2, <2>3, <2>4 DEF TypeOK, Cycles
<1>5. CASE Publish
  BY <1>5 DEF TypeOK, Publish
<1>6. CASE Save
  BY <1>6, WriteStateType DEF TypeOK, Save
<1>7. CASE BeginShutdown
  BY <1>7, FlushEffect DEF TypeOK, BeginShutdown
<1>8. CASE FinishShutdown
  BY <1>8, WriteStateType, ProcessEndsType DEF FinishShutdown, TypeOK
<1>9. CASE Crash
  <2>1. pc \in {"evaluate", "record"} => cycle \in Cycles
    BY DEF TypeOK, Cycles
  <2> QED
    BY <1>9, <2>1, ProcessEndsType DEF Crash, TypeOK
<1>10. ASSUME NEW d \in Readers, ReadSnapshot(d) PROVE TypeOK' /\ Underway'
  BY <1>10 DEF TypeOK, ReadSnapshot
<1>11. ASSUME NEW d \in Readers, ReadAverages(d) PROVE TypeOK' /\ Underway'
  <2>1. InWindow(reader[d].snapshot) \in SUBSET HistoryRecord
    BY DEF InWindow, Readable, TypeOK
  <2>2. answers' \in [Cycles -> SUBSET SUBSET HistoryRecord]
    BY <1>11, <2>1 DEF TypeOK, ReadAverages
  <2>3. reader' \in [Readers -> [at : {"idle", "averages", "firing"}, snapshot : 0 .. MaxCycles]]
    BY <1>11 DEF TypeOK, ReadAverages, NotReading
  <2> QED
    BY <1>11, <2>2, <2>3 DEF TypeOK, ReadAverages
<1>12. CASE ReadFiring
  BY <1>12 DEF TypeOK, ReadFiring, NotReading, Readers
<1>13. CASE MinutePasses
  BY <1>13 DEF TypeOK, MinutePasses, Minutes
<1>14. CASE UNCHANGED vars
  BY <1>14 DEF TypeOK, vars
<1> QED
  BY <1>0, <1>1, <1>2, <1>3, <1>4, <1>5, <1>6, <1>7, <1>8, <1>9, <1>10, <1>11, <1>12, <1>13,
     <1>14 DEF Next

\* Every variable keeps its type.
THEOREM TypeCorrect == Spec => []TypeOK
<1>1. Init => TypeOK /\ Underway
  BY ReportAssumption DEF Init, TypeOK, Underway, NotReading, Cycles, Minutes
<1>2. TypeOK /\ Underway /\ [Next]_vars => TypeOK' /\ Underway'
  BY TypeStep
<1> QED
  BY <1>1, <1>2, PTL DEF Spec

----------------------------------------------------------------------------
\* The accounts of samples and records, and the answers given from them.
Ledger ==
    /\ MinutesAscend /\ OneMinute /\ RecordsApart /\ AllCounted
    /\ SamplesRecordedOnce /\ AnswersStand

\* What leaves samples, records and answers alone keeps the accounts.
LEMMA LedgerKept ==
    ASSUME TypeOK, Ledger, Counted' = Counted,
           UNCHANGED <<cycle, minuteOf, curMin, samples, recordVars, answers>>
    PROVE  Ledger'
<1> USE DEF recordVars
<1>1. \A c \in Cycles : Recorded(c)' = Recorded(c) /\ InWindow(c)' = InWindow(c)
  BY DEF Recorded, InWindow, Readable
<1> QED
  BY <1>1 DEF Ledger, MinutesAscend, OneMinute, RecordsApart, AllCounted,
              SamplesRecordedOnce, AnswersStand

\* A cleaning takes the same records from every answer and from the file.
LEMMA LedgerKeptCleaning ==
    ASSUME TypeOK, Ledger, Counted' = Counted, CleanHistory,
           UNCHANGED <<cycle, minuteOf, curMin, samples, history, answers>>
    PROVE  Ledger'
<1>1. removed \subseteq removed' /\ lost \subseteq lost'
  BY CleanEffect
<1>2. \A c \in Cycles : Recorded(c)' = Recorded(c) /\ InWindow(c)' = InWindow(c) \ removed'
  BY <1>1 DEF Recorded, InWindow, Readable
<1>3. AnswersStand'
  <2> SUFFICES ASSUME NEW c \in Cycles, NEW answer \in answers[c]
               PROVE  c <= Counted /\ answer \ removed' = InWindow(c)'
    BY DEF AnswersStand
  <2>1. c <= Counted /\ answer \ removed = InWindow(c)
    BY DEF Ledger, AnswersStand
  <2> QED
    BY <2>1, <1>1, <1>2
<1> QED
  BY <1>1, <1>2, <1>3
  DEF Ledger, MinutesAscend, OneMinute, RecordsApart, AllCounted, SamplesRecordedOnce

\* Ending without a flush, with the samples lost, keeps them too.
LEMMA LedgerKeptLosing ==
    ASSUME TypeOK, Ledger, Counted \in 0 .. cycle, Counted' = cycle,
           \A c \in Cycles : Counted < c /\ c <= cycle => c \in lost',
           samples' = {}, samples \subseteq lost', lost \subseteq lost',
           UNCHANGED <<cycle, minuteOf, curMin, history, removed, answers>>
    PROVE  Ledger'
<1> USE DEF TypeOK
<1>1. \A c \in Cycles : Recorded(c)' = Recorded(c) /\ InWindow(c)' = InWindow(c)
  BY DEF Recorded, InWindow, Readable
<1>2. MinutesAscend' /\ OneMinute' /\ SamplesRecordedOnce'
  BY DEF Ledger, MinutesAscend, OneMinute, SamplesRecordedOnce
<1>3. RecordsApart'
  BY DEF Ledger, RecordsApart, HistoryRecord, Cycles
<1>4. AllCounted'
  BY <1>1 DEF Ledger, AllCounted, Cycles
<1>5. AnswersStand'
  BY <1>1 DEF Ledger, AnswersStand, Cycles
<1> QED
  BY <1>2, <1>3, <1>4, <1>5 DEF Ledger

\* A flush adds a record of the last counted minute: it is in the window of
\* no snapshot that has been answered for.
LEMMA FlushKeeps ==
    ASSUME TypeOK, Ledger, FlushLocked, Counted \in 0 .. cycle, Counted <= Counted',
           samples' = {} \/ (samples' = {cycle} /\ Counted < cycle /\ Counted' = cycle
                             /\ cycle \in Cycles /\ minuteOf[cycle] = curMin'),
           samples' = {} => Counted' = Counted,
           Counted < Counted' => Counted = cycle - 1,
           UNCHANGED <<cycle, minuteOf, answers>>
    PROVE  Ledger'
<1> USE DEF TypeOK
<1>1. /\ history \subseteq history'
      /\ \A record \in history' :
           record \in history
           \/ (samples # {} /\ record.min = curMin /\ record.samples = samples)
      /\ lost \subseteq lost'
      /\ \A c \in samples : \/ c \in lost'
                            \/ \E record \in history' :
                                 c \in record.samples /\ record.min = curMin
      /\ history' \subseteq HistoryRecord
      /\ removed \subseteq removed'
  BY FlushEffect
<1>2. MinutesAscend' /\ OneMinute'
  BY DEF Ledger, MinutesAscend, OneMinute, Cycles
<1>3. RecordsApart'
  <2> SUFFICES ASSUME NEW record \in history'
               PROVE  /\ record.samples \cap samples' = {}
                      /\ \A c \in record.samples :
                            c <= Counted /\ minuteOf[c] = record.min
    <3>1. Counted' \in Int /\ Counted \in Int
      OBVIOUS
    <3>2. \A record \in history' : record.samples \subseteq Int
      BY <1>1 DEF Cycles, HistoryRecord
    <3> QED
      BY <3>1, <3>2 DEF RecordsApart
  <2>1. \A c \in record.samples : c <= Counted /\ minuteOf[c] = record.min
    BY <1>1 DEF Ledger, RecordsApart, OneMinute
  <2> QED
    BY <2>1
<1>4. AllCounted'
  <2> SUFFICES ASSUME NEW c \in Cycles, c <= Counted'
               PROVE  c \in lost' \/ c \in samples' \/ Recorded(c)'
    BY DEF AllCounted
  <2>1. CASE c <= Counted
    BY <1>1, <2>1 DEF Ledger, AllCounted, OneMinute, Recorded
  <2>2. CASE ~(c <= Counted)
    BY <2>2 DEF Cycles
  <2> QED
    BY <2>1, <2>2
<1>5. SamplesRecordedOnce'
  <2> SUFFICES ASSUME NEW r1 \in history', NEW r2 \in history', r1 # r2
               PROVE  r1.samples \cap r2.samples = {}
    BY DEF SamplesRecordedOnce
  <2>1. \A r \in history : r.samples \cap samples = {}
    BY DEF Ledger, RecordsApart
  <2>2. CASE r1 \in history /\ r2 \in history
    BY <2>2 DEF Ledger, SamplesRecordedOnce
  <2>3. CASE r1 \in history /\ r2 \notin history
    BY <1>1, <2>1, <2>3
  <2>4. CASE r1 \notin history /\ r2 \in history
    BY <1>1, <2>1, <2>4
  <2>5. CASE r1 \notin history /\ r2 \notin history
    <3>1. r1.min = r2.min /\ r1.samples = r2.samples
      BY <1>1, <2>5
    <3> QED
      BY <1>1, <3>1 DEF HistoryRecord
  <2> QED
    BY <2>2, <2>3, <2>4, <2>5
<1>6. AnswersStand'
  <2> SUFFICES ASSUME NEW c \in Cycles, NEW answer \in answers[c]
               PROVE  c <= Counted' /\ answer \ removed' = InWindow(c)'
    BY DEF AnswersStand
  <2>1. c <= Counted /\ answer \ removed = InWindow(c)
    BY DEF Ledger, AnswersStand
  <2>2. samples # {} => minuteOf[c] <= curMin
    BY <2>1 DEF Ledger, OneMinute, MinutesAscend
  <2>3. \A record \in history' : record \notin history => ~(record.min < minuteOf[c])
    BY <1>1, <2>2 DEF Minutes
  <2>4. InWindow(c)' = InWindow(c) \ removed'
    BY <1>1, <2>3 DEF InWindow, Readable
  <2>5. answer \ removed' = InWindow(c)'
    BY <1>1, <2>1, <2>4
  <2> QED
    BY <2>1, <2>5 DEF Cycles
<1> QED
  BY <1>2, <1>3, <1>4, <1>5, <1>6 DEF Ledger

\* A new cycle is not counted yet: nothing is said of its minute.
LEMMA BeginCycleKeeps ==
    ASSUME TypeOK, Ledger, MinutesPast, BeginCycle
    PROVE  Ledger'
<1> USE DEF TypeOK, Cycles
<1>0. cycle + 1 \in Cycles
  BY ReportAssumption DEF BeginCycle
<1>1. Counted = cycle /\ Counted' = cycle /\ cycle' = cycle + 1
  <2>1. pc = "idle" /\ pc' = "evaluate" /\ cycle' = cycle + 1
    BY DEF BeginCycle
  <2> QED
    BY <2>1 DEF Counted
<1>2. \A c \in Cycles : c <= cycle => minuteOf'[c] = minuteOf[c]
  BY DEF BeginCycle
<1>3. minuteOf'[cycle + 1] = minute
  BY <1>0 DEF BeginCycle
<1>4. \A record \in history : record.samples \subseteq Cycles
  BY DEF HistoryRecord
<1>5. \A c \in Cycles : c <= cycle =>
        Recorded(c)' = Recorded(c) /\ InWindow(c)' = InWindow(c)
  BY <1>2 DEF Recorded, InWindow, Readable, BeginCycle, recordVars
<1>6. MinutesAscend'
  <2> SUFFICES ASSUME NEW c \in Cycles, NEW d \in Cycles, c <= d, d <= cycle + 1
               PROVE  minuteOf'[c] <= minuteOf'[d]
    BY <1>1 DEF MinutesAscend
  <2>1. CASE d <= cycle
    BY <1>2, <2>1 DEF Ledger, MinutesAscend
  <2>2. CASE d = cycle + 1 /\ c <= cycle
    BY <1>2, <1>3, <2>2 DEF MinutesPast
  <2>3. CASE d = cycle + 1 /\ c = cycle + 1
    BY <1>3, <2>3 DEF Minutes
  <2> QED
    BY <2>1, <2>2, <2>3
<1>7. OneMinute' /\ SamplesRecordedOnce'
  BY <1>1, <1>2 DEF Ledger, OneMinute, SamplesRecordedOnce, BeginCycle, recordVars
<1>8. RecordsApart'
  BY <1>1, <1>2, <1>4 DEF Ledger, RecordsApart, BeginCycle, recordVars
<1>9. AllCounted' /\ AnswersStand'
  <2>1. answers' = answers /\ lost' = lost /\ removed' = removed /\ samples' = samples
    BY DEF BeginCycle, readerVars, recordVars
  <2>2. AllCounted'
    BY <1>1, <1>5, <2>1 DEF Ledger, AllCounted
  <2> QED
    BY <1>1, <1>5, <2>1, <2>2 DEF Ledger, AnswersStand
<1> QED
  BY <1>6, <1>7, <1>8, <1>9 DEF Ledger

\* A sample of the minute being accumulated joins it.
LEMMA AccumulateKeeps ==
    ASSUME TypeOK, Ledger, cycle \in Cycles, Counted = cycle - 1, Counted' = cycle,
           minuteOf[cycle] = curMin, samples' = samples \cup {cycle},
           UNCHANGED <<cycle, minuteOf, curMin, recordVars, answers>>
    PROVE  Ledger'
<1> USE DEF TypeOK, Cycles, recordVars
<1>1. \A c \in Cycles : Recorded(c)' = Recorded(c) /\ InWindow(c)' = InWindow(c)
  BY DEF Recorded, InWindow, Readable
<1>2. \A record \in history : record.samples \subseteq Cycles
  BY DEF HistoryRecord
<1>3. MinutesAscend' /\ OneMinute' /\ SamplesRecordedOnce'
  BY DEF Ledger, MinutesAscend, OneMinute, SamplesRecordedOnce
<1>4. RecordsApart'
  BY <1>2 DEF Ledger, RecordsApart
<1>5. AllCounted'
  BY <1>1 DEF Ledger, AllCounted
<1>6. AnswersStand'
  BY <1>1 DEF Ledger, AnswersStand
<1> QED
  BY <1>3, <1>4, <1>5, <1>6 DEF Ledger

\* Every step keeps the accounts.
LEMMA LedgerStep ==
    ASSUME IInv, [Next]_vars
    PROVE  Ledger'
<1>1. TypeOK /\ Ledger /\ Underway /\ MinutesPast /\ Behind /\ DownIsEmpty
  BY DEF IInv, Ledger
<1>2. Counted \in 0 .. cycle
  BY <1>1 DEF TypeOK, Underway, Counted
<1> USE DEF daemonVars, readerVars, recordVars
<1>3. CASE Start \/ DailyClean
  BY <1>1, <1>3, LedgerKeptCleaning DEF Start, DailyClean, Counted, DownIsEmpty
<1>4. CASE BeginCycle
  BY <1>1, <1>4, BeginCycleKeeps
<1>5. CASE EvaluateCycle \/ Publish \/ Save \/ ReadFiring \/ MinutePasses
  BY <1>1, <1>5, LedgerKept DEF EvaluateCycle, Publish, Save, ReadFiring, MinutePasses, Counted
<1>6. CASE Record
  <2>1. cycle \in Cycles /\ Counted = cycle - 1 /\ Counted' = cycle
    BY <1>1, <1>6 DEF Record, Counted, Underway, TypeOK, Cycles
  <2>2. UNCHANGED <<cycle, minuteOf, answers>>
    BY <1>6 DEF Record
  <2>3. CASE samples # {} /\ minuteOf[cycle] = curMin
    BY <1>1, <1>6, <2>1, <2>2, <2>3, AccumulateKeeps DEF Record
  <2>4. CASE ~(samples # {} /\ minuteOf[cycle] = curMin)
    <3>1. FlushLocked /\ samples' = {cycle} /\ curMin' = minuteOf[cycle]
      BY <1>6, <2>4 DEF Record
    <3>2. Counted < cycle /\ Counted <= Counted'
      BY <2>1 DEF Cycles
    <3> QED
      BY <1>1, <1>2, <2>1, <2>2, <3>1, <3>2, FlushKeeps
  <2> QED
    BY <2>3, <2>4
<1>7. CASE BeginShutdown
  <2>1. Counted' = Counted /\ samples' = {} /\ FlushLocked
    BY <1>7 DEF BeginShutdown, Counted
  <2> QED
    BY <1>1, <1>2, <1>7, <2>1, FlushKeeps DEF BeginShutdown
<1>8. CASE FinishShutdown \/ Crash
  <2>0. ProcessEnds /\ Counted' = cycle /\ history' = history
    BY <1>8 DEF FinishShutdown, Crash, ProcessEnds, Counted
  <2>1. CASE FinishShutdown
    BY <1>1, <2>0, <2>1, LedgerKept DEF FinishShutdown, ProcessEnds, Counted, DownIsEmpty
  <2>2. CASE Crash
    BY <1>1, <1>2, <2>0, <2>2, LedgerKeptLosing DEF Crash, ProcessEnds, Counted, Cycles, TypeOK
  <2> QED
    BY <1>8, <2>1, <2>2
<1>9. ASSUME NEW d \in Readers, ReadSnapshot(d) PROVE Ledger'
  BY <1>1, <1>9, LedgerKept DEF ReadSnapshot, Counted
<1>10. ASSUME NEW d \in Readers, ReadAverages(d) PROVE Ledger'
  <2> DEFINE c == reader[d].snapshot
  <2>1. c <= Counted
    BY <1>1 DEF Behind
  <2>2. \A e \in Cycles : Recorded(e)' = Recorded(e) /\ InWindow(e)' = InWindow(e)
    BY <1>10 DEF ReadAverages, Recorded, InWindow, Readable
  <2>3. \A e \in Cycles : \A answer \in answers'[e] :
            answer \in answers[e] \/ (e = c /\ answer = InWindow(e))
    BY <1>1, <1>10 DEF ReadAverages, TypeOK
  <2>4. Counted' = Counted
    BY <1>10 DEF ReadAverages, Counted
  <2>5. AnswersStand'
    <3> SUFFICES ASSUME NEW e \in Cycles, NEW answer \in answers'[e]
                 PROVE  e <= Counted /\ answer \ removed = InWindow(e)
      BY <1>10, <2>2, <2>4 DEF AnswersStand, ReadAverages
    <3>1. CASE answer \in answers[e]
      BY <1>1, <3>1 DEF Ledger, AnswersStand
    <3>2. CASE e = c /\ answer = InWindow(e)
      BY <2>1, <3>2 DEF InWindow, Readable
    <3> QED
      BY <2>3, <3>1, <3>2
  <2> QED
    BY <1>1, <1>10, <2>2, <2>4, <2>5
    DEF ReadAverages, Ledger, MinutesAscend, OneMinute, RecordsApart, AllCounted,
        SamplesRecordedOnce
<1>11. CASE UNCHANGED vars
  BY <1>1, <1>11, LedgerKept DEF vars, Counted
<1> QED
  BY <1>3, <1>4, <1>5, <1>6, <1>7, <1>8, <1>9, <1>10, <1>11 DEF Next

----------------------------------------------------------------------------
\* Nothing is removed before it has expired but by a failure, and what has
\* expired stays so.
LEMMA RemovedStep ==
    ASSUME IInv, [Next]_vars
    PROVE  RemovedSane'
<1>1. TypeOK /\ RemovedSane
  BY DEF IInv
<1> USE DEF daemonVars, readerVars, recordVars
<1>2. minute' \in {minute, minute + 1} /\ minute \in Int /\ Keep \in Int
  BY <1>1, ReportAssumption
  DEF TypeOK, Minutes, Next, vars, Start, DailyClean, BeginCycle, EvaluateCycle, Record, Publish,
      Save, BeginShutdown, FinishShutdown, ProcessEnds, Crash, ReadSnapshot, ReadAverages,
      ReadFiring, MinutePasses
<1>3. \A record \in HistoryRecord : Expired(record) => Expired(record)'
  BY <1>2 DEF Expired, HistoryRecord, Minutes
<1>4. removed' \subseteq HistoryRecord
  BY <1>1, TypeStep DEF IInv, TypeOK
<1>5. ASSUME removed \subseteq removed', lost \subseteq lost',
             \A record \in removed' \ removed : Expired(record) \/ record.samples \subseteq lost'
      PROVE  RemovedSane'
  BY <1>1, <1>3, <1>4, <1>5 DEF RemovedSane
<1>6. CASE Start \/ DailyClean
  BY <1>1, <1>5, <1>6, CleanEffect DEF Start, DailyClean
<1>7. CASE BeginShutdown
  BY <1>1, <1>5, <1>7, FlushEffect DEF BeginShutdown
<1>8. CASE Record
  <2>1. FlushLocked \/ UNCHANGED recordVars
    BY <1>8 DEF Record
  <2> QED
    BY <1>1, <1>5, <2>1, FlushEffect
<1>9. ASSUME removed' = removed, lost \subseteq lost'
      PROVE  RemovedSane'
  BY <1>5, <1>9
<1>10. CASE BeginCycle \/ EvaluateCycle \/ Publish \/ Save \/ FinishShutdown \/ Crash
            \/ ReadFiring \/ MinutePasses \/ UNCHANGED vars
  BY <1>9, <1>10 DEF BeginCycle, EvaluateCycle, Publish, Save, FinishShutdown, Crash,
                     ReadFiring, MinutePasses, vars
<1>11. ASSUME NEW d \in Readers, ReadSnapshot(d) \/ ReadAverages(d) PROVE RemovedSane'
  BY <1>9, <1>11 DEF ReadSnapshot, ReadAverages
<1> QED
  BY <1>6, <1>7, <1>8, <1>10, <1>11 DEF Next

\* Every step keeps the order of cycle, engine, snapshot, file and readers.
LEMMA BehindStep ==
    ASSUME IInv, [Next]_vars
    PROVE  Behind' /\ DownIsEmpty' /\ MinutesPast'
<1>1. TypeOK /\ Underway /\ MinutesPast /\ Behind /\ DownIsEmpty
  BY DEF IInv
<1>2. "handler" \in Readers
  BY DEF Readers
<1> USE <1>1, <1>2 DEF daemonVars, readerVars, TypeOK, Behind, DownIsEmpty
<1>3. CASE Start \/ DailyClean
  BY <1>3 DEF Start, DailyClean, Counted, MinutesPast
<1>4. CASE BeginCycle
  <2>1. pc = "idle" /\ pc' = "evaluate" /\ Counted = cycle /\ Counted' = cycle
    BY <1>4 DEF BeginCycle, Counted
  <2>2. MinutesPast'
    BY <1>4 DEF BeginCycle, MinutesPast, Cycles, Minutes
  <2> QED
    BY <1>4, <2>1, <2>2 DEF BeginCycle
<1>5. CASE EvaluateCycle
  BY <1>5 DEF EvaluateCycle, Counted, MinutesPast
<1>6. CASE Record
  <2>1. /\ pc = "record" /\ pc' = "publish"
        /\ UNCHANGED <<cycle, minuteOf, engineAt, published, reader, minute, saved>>
    BY <1>6 DEF Record
  <2>2. Counted' = cycle /\ Counted = cycle - 1
    BY <2>1 DEF Counted
  <2>3. MinutesPast'
    BY <2>1 DEF MinutesPast
  <2>4. \A d \in Readers : reader[d].snapshot \in Int
    OBVIOUS
  <2>5. Behind'
    BY <2>1, <2>2, <2>4
  <2> QED
    BY <2>1, <2>3, <2>5
<1>7. CASE Publish
  BY <1>7 DEF Publish, Counted, MinutesPast
<1>8. CASE Save
  BY <1>8 DEF Save, WriteState, Counted, MinutesPast
<1>9. CASE BeginShutdown
  BY <1>9 DEF BeginShutdown, Counted, MinutesPast
<1>10. CASE FinishShutdown
  BY <1>10 DEF FinishShutdown, WriteState, ProcessEnds, NotReading, Counted, MinutesPast
<1>11. CASE Crash
  BY <1>11 DEF Crash, ProcessEnds, NotReading, Counted, MinutesPast
<1>12. ASSUME NEW d \in Readers, ReadSnapshot(d) \/ ReadAverages(d)
       PROVE  Behind' /\ DownIsEmpty' /\ MinutesPast'
  <2>1. CASE ReadSnapshot(d)
    BY <2>1 DEF ReadSnapshot, Counted, MinutesPast, Readers
  <2>2. CASE ReadAverages(d)
    BY <2>2 DEF ReadAverages, NotReading, Counted, MinutesPast
  <2> QED
    BY <1>12, <2>1, <2>2
<1>13. CASE ReadFiring
  BY <1>13 DEF ReadFiring, NotReading, Counted, MinutesPast
<1>14. CASE MinutePasses
  <2>1. MinutesPast'
    BY <1>14 DEF MinutePasses, MinutesPast, Minutes
  <2> QED
    BY <1>14, <2>1 DEF MinutePasses, Counted
<1>15. CASE UNCHANGED vars
  BY <1>15 DEF vars, Counted, MinutesPast
<1> QED
  BY <1>3, <1>4, <1>5, <1>6, <1>7, <1>8, <1>9, <1>10, <1>11, <1>12, <1>13, <1>14, <1>15
  DEF Next

\* The invariant holds in every reachable state.
THEOREM IInvCorrect == Spec => []IInv
<1>1. Init => IInv
  <2> SUFFICES ASSUME Init PROVE IInv
    OBVIOUS
  <2>1. TypeOK /\ Underway
    BY ReportAssumption DEF Init, TypeOK, Underway, NotReading, Cycles, Minutes
  <2> QED
    BY <2>1 DEF IInv, Init, MinutesAscend, MinutesPast, OneMinute, RecordsApart, AllCounted,
                SamplesRecordedOnce, Behind, DownIsEmpty, RemovedSane, AnswersStand, Counted,
                Cycles, Readers, NotReading
<1>2. IInv /\ [Next]_vars => IInv'
  BY TypeStep, LedgerStep, RemovedStep, BehindStep DEF IInv, Ledger
<1> QED
  BY <1>1, <1>2, PTL DEF Spec

----------------------------------------------------------------------------
\* Of the minutes before a published snapshot's, no sample is missing that no
\* failure lost, until its record expires: the accumulator holds only the last
\* minute, and nothing else removes a record.
THEOREM CompletedMinutesRecordedCorrect == Spec => []CompletedMinutesRecorded
<1>1. IInv => CompletedMinutesRecorded
  <2> SUFFICES ASSUME IInv, published # 0, NEW c \in 1 .. published,
                      minuteOf[c] < minuteOf[published], c \notin lost
               PROVE  \E record \in history :
                            /\ c \in record.samples /\ record.min = minuteOf[c]
                            /\ record \in Readable \/ Expired(record)
    BY DEF CompletedMinutesRecorded
  <2> USE DEF IInv, TypeOK, Cycles, Behind
  <2>1. Counted \in 0 .. cycle
    BY DEF Underway, Counted
  <2>2. c \in Cycles /\ published \in Cycles /\ c <= Counted /\ published <= Counted
    <3>1. published \in 0 .. MaxCycles /\ published <= Counted
      OBVIOUS
    <3>2. MaxCycles \in Nat /\ Counted \in Int
      BY <2>1, ReportAssumption
    <3>3. published \in 1 .. MaxCycles
      BY <3>1, <3>2
    <3> QED
      BY <3>1, <3>2, <3>3
  <2>3. c \notin samples
    <3>1. ASSUME c \in samples PROVE FALSE
      <4>1. Counted \in Cycles /\ minuteOf[Counted] = minuteOf[c]
        BY <3>1 DEF OneMinute
      <4>2. minuteOf[published] <= minuteOf[Counted]
        BY <2>1, <2>2, <4>1 DEF MinutesAscend
      <4>3. minuteOf[c] \in Int /\ minuteOf[published] \in Int
        BY <2>2 DEF Minutes
      <4> QED
        BY <4>1, <4>2, <4>3
    <3> QED
      BY <3>1
  <2>4. PICK record \in history : c \in record.samples /\ record.min = minuteOf[c]
    BY <2>2, <2>3 DEF AllCounted, Recorded
  <2> QED
    BY <2>4 DEF RemovedSane, Readable
<1> QED
  BY <1>1, IInvCorrect, PTL

\* No sample is averaged twice, restarts within a minute included.
THEOREM SamplesRecordedOnceCorrect == Spec => []SamplesRecordedOnce
<1>1. IInv => SamplesRecordedOnce
  BY DEF IInv
<1> QED
  BY <1>1, IInvCorrect, PTL

\* The firing rules of a report are of an evaluation not before its snapshot.
THEOREM FiringNotOlderThanSnapshotCorrect == Spec => []FiringNotOlderThanSnapshot
<1>1. IInv => FiringNotOlderThanSnapshot
  BY DEF IInv, Behind, FiringNotOlderThanSnapshot
<1> QED
  BY <1>1, IInvCorrect, PTL

\* All reports on a snapshot that have read the history give the same averages,
\* but for the records removed since: each is what would be answered now.
THEOREM SameSnapshotSameAveragesCorrect == Spec => []SameSnapshotSameAverages
<1>1. IInv => SameSnapshotSameAverages
  BY DEF IInv, AnswersStand, SameSnapshotSameAverages
<1> QED
  BY <1>1, IInvCorrect, PTL

====
