---- MODULE HistoryFile_proofs ----
(***************************************************************************)
(* The history files: what was acknowledged can be read, in order, and the *)
(* file implements the log of HistoryLog.  The scan of cleanNDJSON is      *)
(* reasoned about by induction on the number of lines scanned.             *)
(***************************************************************************)
EXTENDS HistoryFile, Induction

\* The records among some lines, and their order.
RecordsOf(lines) == {lines[i] : i \in {j \in DOMAIN lines : IsRecord(lines[j])}}

Ordered(lines) ==
    \A i, j \in DOMAIN lines :
        i < j /\ IsRecord(lines[i]) /\ IsRecord(lines[j]) => lines[i].id < lines[j].id

CutShort(lines) == lines # <<>> /\ lines[Len(lines)] = Garbage

\* Ids are not used twice.
IdsPast == \A record \in Readable \cup acked : record.id < nextId

\* A tail without its newline ends a line, no acknowledged record; the process
\* that goes on with one has logged the failure that left it.
TailSane ==
    /\ tail # "ended" => file # <<>> /\ file[Len(file)] \notin acked
    /\ pc = "up" => (damaged <=> tail # "ended")

\* The temporary file holds records of the file, and unless the disk is full
\* all that have not expired.
TmpSane ==
    pc = "renaming" =>
        /\ Ordered(tmp.lines)
        /\ RecordsOf(tmp.lines) \subseteq Readable
        /\ ~filled => \A record \in Readable : ~Expired(record) => record \in RecordsOf(tmp.lines)
        /\ tmp.tail = "torn" => filled /\ CutShort(tmp.lines)

IInv ==
    /\ TypeOK
    /\ IdsPast
    /\ RecordsInOrder
    /\ TailSane
    /\ TmpSane
    /\ AcknowledgedReadable

----------------------------------------------------------------------------
LEMMA LineFacts ==
    /\ Garbage \in Line /\ ~IsRecord(Garbage) /\ Garbage \notin Record
    /\ \A line \in Line : IsRecord(line) <=> line \in Record
    /\ \A record \in Record : /\ IsRecord(record)
                              /\ record.id \in 1 .. MaxRecords
                              /\ record.ts \in 0 .. MaxTime
<1>1. Garbage \notin Record
    <2>1. \A record \in Record : record.id # 0
        BY DEF Record
    <2> QED
        BY <2>1 DEF Garbage
<1> QED
    BY <1>1 DEF Line, IsRecord, Record

\* A line at the end of an ordered file whose record is newer than those before it.
LEMMA AppendLine ==
    ASSUME NEW lines \in Seq(Line), NEW line \in Line
    PROVE  /\ Append(lines, line) \in Seq(Line)
           /\ RecordsOf(Append(lines, line)) =
                RecordsOf(lines) \cup (IF line \in Record THEN {line} ELSE {})
           /\ Ordered(lines) /\ (\A record \in RecordsOf(lines) : IsRecord(line) => record.id < line.id)
                => Ordered(Append(lines, line))
<1> DEFINE more == Append(lines, line)
<1>1. /\ more \in Seq(Line) /\ Len(lines) \in Nat
      /\ DOMAIN lines = 1 .. Len(lines) /\ DOMAIN more = 1 .. Len(lines) + 1
      /\ \A i \in 1 .. Len(lines) : more[i] = lines[i]
      /\ more[Len(lines) + 1] = line
    OBVIOUS
<1> HIDE DEF more
<1>2. RecordsOf(more) = RecordsOf(lines) \cup (IF line \in Record THEN {line} ELSE {})
    <2>1. ASSUME NEW record \in RecordsOf(more)
          PROVE  record \in RecordsOf(lines) \cup (IF line \in Record THEN {line} ELSE {})
        <3>1. PICK i \in 1 .. Len(lines) + 1 : record = more[i] /\ IsRecord(more[i])
            BY <1>1 DEF RecordsOf
        <3>2. CASE i = Len(lines) + 1
            BY <3>1, <3>2, <1>1, LineFacts
        <3>3. CASE i \in 1 .. Len(lines)
            BY <3>1, <3>3, <1>1 DEF RecordsOf
        <3> QED
            BY <3>2, <3>3, <1>1
    <2>2. RecordsOf(lines) \subseteq RecordsOf(more)
        BY <1>1 DEF RecordsOf
    <2>3. line \in Record => line \in RecordsOf(more)
        BY <1>1, LineFacts DEF RecordsOf
    <2> QED
        BY <2>1, <2>2, <2>3
<1>3. ASSUME Ordered(lines), \A record \in RecordsOf(lines) : IsRecord(line) => record.id < line.id
      PROVE  Ordered(more)
    <2> SUFFICES ASSUME NEW i \in 1 .. Len(lines) + 1, NEW j \in 1 .. Len(lines) + 1,
                        i < j, IsRecord(more[i]), IsRecord(more[j])
                 PROVE  more[i].id < more[j].id
        BY <1>1 DEF Ordered
    <2>1. i \in 1 .. Len(lines)
        BY <1>1
    <2>2. CASE j \in 1 .. Len(lines)
        BY <2>1, <2>2, <1>1, <1>3 DEF Ordered
    <2>3. CASE j = Len(lines) + 1
        <3>1. lines[i] \in RecordsOf(lines)
            BY <2>1, <1>1 DEF RecordsOf
        <3> QED
            BY <3>1, <2>1, <2>3, <1>1, <1>3
    <2> QED
        BY <2>2, <2>3, <1>1
<1> QED
    BY <1>1, <1>2, <1>3 DEF more

\* A last line that something is joined to is no record any more.
LEMMA JoinLine ==
    ASSUME NEW lines \in Seq(Line), lines # <<>>
    PROVE  LET joined == [lines EXCEPT ![Len(lines)] = Garbage] IN
           /\ joined \in Seq(Line)
           /\ CutShort(joined)
           /\ RecordsOf(joined) \subseteq RecordsOf(lines)
           /\ Ordered(lines) => Ordered(joined)
           /\ \A record \in RecordsOf(lines) :
                record # lines[Len(lines)] => record \in RecordsOf(joined)
<1> DEFINE joined == [lines EXCEPT ![Len(lines)] = Garbage]
<1>1. /\ joined \in Seq(Line) /\ joined # <<>> /\ Len(lines) \in Nat /\ Len(joined) = Len(lines)
      /\ DOMAIN lines = 1 .. Len(lines) /\ DOMAIN joined = 1 .. Len(lines)
      /\ \A i \in 1 .. Len(lines) : i # Len(lines) => joined[i] = lines[i]
      /\ joined[Len(lines)] = Garbage
    BY LineFacts
<1> HIDE DEF joined
<1>2. \A record \in RecordsOf(lines) : record # lines[Len(lines)] => record \in RecordsOf(joined)
    BY <1>1 DEF RecordsOf
<1>3. CutShort(joined)
    BY <1>1 DEF CutShort
<1>4. \A i \in 1 .. Len(lines) : IsRecord(joined[i]) => joined[i] = lines[i]
    BY <1>1, LineFacts
<1>5. RecordsOf(joined) \subseteq RecordsOf(lines)
    BY <1>1, <1>4 DEF RecordsOf
<1>6. Ordered(lines) => Ordered(joined)
    BY <1>1, <1>4 DEF Ordered
<1> QED
    BY <1>1, <1>2, <1>3, <1>5, <1>6 DEF joined

\* The first lines of a file.
LEMMA FirstLines ==
    ASSUME NEW lines \in Seq(Line), NEW n \in 0 .. Len(lines)
    PROVE  /\ SubSeq(lines, 1, n) \in Seq(Line)
           /\ RecordsOf(SubSeq(lines, 1, n)) \subseteq RecordsOf(lines)
           /\ n = Len(lines) => RecordsOf(SubSeq(lines, 1, n)) = RecordsOf(lines)
           /\ Ordered(lines) => Ordered(SubSeq(lines, 1, n))
<1> DEFINE first == SubSeq(lines, 1, n)
<1>1. /\ first \in Seq(Line) /\ Len(lines) \in Nat
      /\ DOMAIN lines = 1 .. Len(lines) /\ DOMAIN first = 1 .. n
      /\ \A i \in 1 .. n : first[i] = lines[i]
    OBVIOUS
<1> HIDE DEF first
<1>2. RecordsOf(first) \subseteq RecordsOf(lines)
    BY <1>1 DEF RecordsOf
<1>3. n = Len(lines) => RecordsOf(first) = RecordsOf(lines)
    BY <1>1 DEF RecordsOf
<1>4. Ordered(lines) => Ordered(first)
    BY <1>1 DEF Ordered
<1> QED
    BY <1>1, <1>2, <1>3, <1>4 DEF first

----------------------------------------------------------------------------
\* The recursion of the scan is well-founded: KeptOf obeys its definition.
LEMMA KeptOfDef ==
    ASSUME TypeOK
    PROVE  /\ KeptOf[0] = <<>>
           /\ \A i \in 1 .. Len(file) :
                KeptOf[i] = IF Expired(file[i]) THEN KeptOf[i - 1]
                            ELSE Append(KeptOf[i - 1], file[i])
<1> DEFINE Lines == Seq(Line)
           n == Len(file)
           none == <<>>
           step == [i \in 1 .. n |->
                        [lines \in Lines |-> IF Expired(file[i]) THEN lines
                                            ELSE Append(lines, file[i])]]
<1>1. n \in Nat /\ none \in Lines /\ \A i \in 1 .. n : file[i] \in Line
    BY DEF TypeOK
<1>2. \A lines \in Lines, line \in Line : Append(lines, line) \in Lines
    OBVIOUS
<1> HIDE DEF Lines, n, none
<1>3. step \in [1 .. n -> [Lines -> Lines]]
    BY <1>1, <1>2
<1>4. \A i \in 1 .. n, lines \in Lines :
        step[i][lines] = IF Expired(file[i]) THEN lines ELSE Append(lines, file[i])
    OBVIOUS
<1> HIDE DEF step
<1>5. PICK f \in [0 .. n -> Lines] : Iterates(f, n, none, step)
    <2>1. n \in Nat /\ none \in Lines
        BY <1>1
    <2> QED
        BY <2>1, <1>3, RecursionUpTo
<1> DEFINE Obeys(g) == g = [i \in 0 .. n |-> IF i = 0 THEN none
                                             ELSE IF Expired(file[i]) THEN g[i - 1]
                                             ELSE Append(g[i - 1], file[i])]
<1>6. Obeys(f)
    <2>1. f = [i \in 0 .. n |-> f[i]]
        OBVIOUS
    <2>2. ASSUME NEW i \in 0 .. n
          PROVE  f[i] = IF i = 0 THEN none
                        ELSE IF Expired(file[i]) THEN f[i - 1] ELSE Append(f[i - 1], file[i])
        <3>1. CASE i = 0
            BY <3>1, <1>5 DEF Iterates
        <3>2. CASE i # 0
            <4>1. i \in 1 .. n /\ f[i - 1] \in Lines
                BY <3>2, <1>1
            <4> QED
                BY <4>1, <3>2, <1>4, <1>5 DEF Iterates
        <3> QED
            BY <3>1, <3>2
    <2> QED
        BY <2>1, <2>2
<1>7. KeptOf = CHOOSE g : Obeys(g)
    BY DEF KeptOf, n, none
<1>8. Obeys(KeptOf)
    BY <1>6, <1>7
<1>9. \A i \in 0 .. n : KeptOf[i] = IF i = 0 THEN none
                                    ELSE IF Expired(file[i]) THEN KeptOf[i - 1]
                                    ELSE Append(KeptOf[i - 1], file[i])
    BY <1>8, Zenon
<1>10. 0 \in 0 .. n /\ \A i \in 1 .. n : i \in 0 .. n /\ i # 0
    BY <1>1
<1> QED
    BY <1>9, <1>10 DEF n, none

\* What the scan keeps: lines of the file, in their order, and all that have not
\* expired.
LEMMA KeptFacts ==
    ASSUME TypeOK
    PROVE  /\ Kept \in Seq(Line)
           /\ RecordsOf(Kept) \subseteq Readable
           /\ \A record \in Readable : ~Expired(record) => record \in RecordsOf(Kept)
           /\ RecordsInOrder => Ordered(Kept)
<1> DEFINE n == Len(file)
           Older(i) == {file[j] : j \in {k \in 1 .. i : IsRecord(file[k])}}
           Good(i) == /\ KeptOf[i] \in Seq(Line)
                      /\ RecordsOf(KeptOf[i]) \subseteq Older(i)
                      /\ \A record \in Older(i) : ~Expired(record) => record \in RecordsOf(KeptOf[i])
                      /\ RecordsInOrder => Ordered(KeptOf[i])
           S == {i \in 0 .. n : Good(i)}
<1>1. n \in Nat /\ DOMAIN file = 1 .. n /\ \A i \in 1 .. n : file[i] \in Line
    BY DEF TypeOK
<1> HIDE DEF n
<1>2. 0 \in S
    <2>1. KeptOf[0] = <<>>
        BY KeptOfDef
    <2>2. KeptOf[0] \in Seq(Line) /\ RecordsOf(KeptOf[0]) = {} /\ Ordered(KeptOf[0])
        BY <2>1 DEF RecordsOf, Ordered
    <2>3. Older(0) = {}
        OBVIOUS
    <2> QED
        BY <2>2, <2>3, <1>1
<1>3. ASSUME NEW i \in 0 .. n - 1, i \in S PROVE i + 1 \in S
    <2> DEFINE line == file[i + 1]
               lines == KeptOf[i]
               older == Older(i)
    <2>1. /\ i + 1 \in 0 .. n /\ i + 1 \in 1 .. n /\ i + 1 - 1 = i /\ line \in Line
        BY <1>1
    <2>2. KeptOf[i + 1] = IF Expired(line) THEN lines ELSE Append(lines, line)
        BY <2>1, KeptOfDef DEF n
    <2>3. Older(i + 1) = older \cup (IF line \in Record THEN {line} ELSE {})
        <3>1. \A k \in 1 .. i + 1 : k \in 1 .. i \/ k = i + 1
            BY <1>1
        <3>2. \A k \in 1 .. i : k \in 1 .. i + 1
            BY <1>1
        <3>3. i + 1 \in 1 .. i + 1
            BY <1>1
        <3>4. IsRecord(line) <=> line \in Record
            BY <2>1, LineFacts
        <3> QED
            BY <3>1, <3>2, <3>3, <3>4
    <2>4. RecordsInOrder => \A record \in older : IsRecord(line) => record.id < line.id
        <3> SUFFICES ASSUME RecordsInOrder, NEW k \in 1 .. i, IsRecord(file[k]), IsRecord(line)
                     PROVE  file[k].id < line.id
            OBVIOUS
        <3>1. k \in 1 .. n /\ k < i + 1
            BY <1>1
        <3> QED
            BY <3>1, <2>1, <1>1 DEF RecordsInOrder
    <2>5. /\ lines \in Seq(Line) /\ RecordsOf(lines) \subseteq older
          /\ \A record \in older : ~Expired(record) => record \in RecordsOf(lines)
          /\ RecordsInOrder => Ordered(lines)
        BY <1>3
    <2> HIDE DEF line, lines, older, Older
    <2>6. CASE Expired(line)
        BY <2>1, <2>2, <2>3, <2>5, <2>6
    <2>7. CASE ~Expired(line)
        <3>1. /\ Append(lines, line) \in Seq(Line)
              /\ RecordsOf(Append(lines, line)) =
                    RecordsOf(lines) \cup (IF line \in Record THEN {line} ELSE {})
              /\ Ordered(lines) /\ (\A record \in RecordsOf(lines) : IsRecord(line) => record.id < line.id)
                    => Ordered(Append(lines, line))
            BY <2>1, <2>5, AppendLine
        <3>2. RecordsInOrder => Ordered(Append(lines, line))
            BY <3>1, <2>4, <2>5
        <3> QED
            BY <3>1, <3>2, <2>1, <2>2, <2>3, <2>5, <2>7
    <2> QED
        BY <2>6, <2>7
<1>4. Good(n)
    <2>1. 0 .. n \subseteq S
        <3> HIDE DEF S
        <3> QED
            BY <1>1, <1>2, <1>3, InductionUpTo
    <2>2. n \in S
        <3> HIDE DEF S
        <3> QED
            BY <2>1, <1>1
    <2> HIDE DEF Good
    <2> QED
        BY <2>2
<1>5. Older(n) = Readable
    BY <1>1 DEF Readable
<1>6. KeptOf[n] = Kept
    BY DEF Kept, n
<1> HIDE DEF Older
<1> QED
    BY <1>4, <1>5, <1>6

LEMMA ReadableIsRecordsOf == Readable = RecordsOf(file) /\ (RecordsInOrder <=> Ordered(file))
    BY DEF Readable, RecordsOf, RecordsInOrder, Ordered

----------------------------------------------------------------------------
LEMMA NewRecordFacts ==
    ASSUME TypeOK, nextId <= MaxRecords
    PROVE  /\ NewRecord \in Record /\ NewRecord \in Line
           /\ NewRecord.id = nextId /\ NewRecord.ts = now
           /\ NewRecord = [id |-> nextId, ts |-> now]
           /\ nextId + 1 \in 1 .. MaxRecords + 1
    BY HistoryAssumption DEF TypeOK, NewRecord, Record, Line

\* What a write to the file does to the records in it.
LEMMA AppendedFacts ==
    ASSUME IInv, pc = "up", NEW line \in {NewRecord, Garbage}, nextId <= MaxRecords,
           file' = Appended(line)
    PROVE  /\ file' \in Seq(Line) /\ file' # <<>> /\ RecordsInOrder'
           /\ file'[Len(file')] \in {line, Garbage}
           /\ tail = "ended" => Readable' = Readable \cup (IF line = Garbage THEN {} ELSE {line})
           /\ tail # "ended" => Readable' \subseteq Readable /\ (Readable \ Readable') \cap acked = {}
<1>1. file \in Seq(Line) /\ line \in Line /\ (line = Garbage <=> ~(line \in Record))
    BY NewRecordFacts, LineFacts DEF IInv, TypeOK
<1>2. /\ Ordered(file) /\ \A record \in RecordsOf(file) : record.id < nextId
      /\ Readable = RecordsOf(file) /\ Readable' = RecordsOf(file')
      /\ RecordsInOrder' <=> Ordered(file')
    BY ReadableIsRecordsOf DEF IInv, IdsPast, Readable, RecordsInOrder, RecordsOf, Ordered
<1>3. CASE tail = "ended"
    <2>1. file' = Append(file, line)
        BY <1>3 DEF Appended
    <2>2. \A record \in RecordsOf(file) : IsRecord(line) => record.id < line.id
        BY <1>2, NewRecordFacts, LineFacts DEF IInv
    <2>3. /\ file' \in Seq(Line) /\ Ordered(file')
          /\ RecordsOf(file') = RecordsOf(file) \cup (IF line \in Record THEN {line} ELSE {})
        BY <2>1, <2>2, <1>1, <1>2, AppendLine
    <2>4. file' # <<>> /\ file'[Len(file')] = line
        BY <2>1, <1>1
    <2> QED
        BY <2>3, <2>4, <1>1, <1>2, <1>3
<1>4. CASE tail # "ended"
    <2>1. file # <<>> /\ file[Len(file)] \notin acked
        BY <1>4 DEF IInv, TailSane
    <2>2. file' = [file EXCEPT ![Len(file)] = Garbage]
        BY <1>4 DEF Appended
    <2>3. /\ file' \in Seq(Line) /\ CutShort(file') /\ Ordered(file')
          /\ RecordsOf(file') \subseteq RecordsOf(file)
          /\ \A record \in RecordsOf(file) :
                record # file[Len(file)] => record \in RecordsOf(file')
        BY <2>1, <2>2, <1>1, <1>2, JoinLine
    <2> QED
        BY <2>1, <2>3, <1>2, <1>4 DEF CutShort
<1> QED
    BY <1>3, <1>4

LEMMA ReadableFacts ==
    ASSUME TypeOK
    PROVE  Readable \subseteq Record
<1>1. \A i \in DOMAIN file : file[i] \in Line
    BY DEF TypeOK
<1> QED
    BY <1>1, LineFacts DEF Readable

\* What is appended is not acknowledged yet, and newer than all that was.
LEMMA NewRecordFresh ==
    ASSUME IInv, nextId <= MaxRecords
    PROVE  NewRecord \notin acked /\ Garbage \notin acked
    BY NewRecordFacts, LineFacts DEF IInv, TypeOK, IdsPast

\* Ids stay in the past when one is used.
LEMMA IdsStayPast ==
    ASSUME IInv, nextId <= MaxRecords, nextId' = nextId + 1,
           Readable' \subseteq Readable \cup {NewRecord}, acked' \subseteq acked \cup {NewRecord}
    PROVE  IdsPast'
<1>1. \A record \in Readable \cup acked : record.id \in Int /\ record.id < nextId
    BY ReadableFacts, LineFacts DEF IInv, TypeOK, IdsPast
<1>2. NewRecord.id = nextId
    BY NewRecordFacts DEF IInv
<1> QED
    BY <1>1, <1>2 DEF IInv, TypeOK, IdsPast

\* A record that is acknowledged can be read, unless the process has logged the
\* failure that left the line it is joined to.
LEMMA AppendRecordKeeps ==
    ASSUME IInv, AppendRecord
    PROVE  IInv'
<1>1. /\ pc = "up" /\ nextId <= MaxRecords /\ file' = Appended(NewRecord) /\ tail' = "ended"
      /\ acked' = acked \cup {NewRecord} /\ nextId' = nextId + 1 /\ damaged' = FALSE
      /\ excused' = excused \cup (IF damaged THEN {NewRecord} ELSE {})
      /\ pc' = pc /\ now' = now /\ tmp' = tmp /\ filled' = filled
    BY DEF AppendRecord
<1>2. /\ NewRecord \in Record /\ NewRecord.id = nextId /\ nextId' \in 1 .. MaxRecords + 1
      /\ NewRecord # Garbage
    BY <1>1, NewRecordFacts, LineFacts DEF IInv
<1>3. /\ file' \in Seq(Line) /\ file' # <<>> /\ RecordsInOrder'
      /\ tail = "ended" => Readable' = Readable \cup {NewRecord}
      /\ tail # "ended" => Readable' \subseteq Readable /\ (Readable \ Readable') \cap acked = {}
    BY <1>1, <1>2, AppendedFacts
<1>4. TypeOK'
    BY <1>1, <1>2, <1>3 DEF IInv, TypeOK
<1>5. IdsPast'
    BY <1>1, <1>3, IdsStayPast
<1>6. TailSane' /\ TmpSane'
    BY <1>1 DEF TailSane, TmpSane
<1>7. AcknowledgedReadable'
    <2> SUFFICES ASSUME ~filled, NEW record \in acked' \ excused', ~Expired(record)'
                 PROVE  record \in Readable'
        BY <1>1 DEF AcknowledgedReadable
    <2>1. ~Expired(record)
        BY <1>1 DEF Expired, Cutoff
    <2>2. damaged <=> tail # "ended"
        BY <1>1 DEF IInv, TailSane
    <2>3. CASE record = NewRecord
        BY <2>2, <2>3, <1>1, <1>3
    <2>4. CASE record \in acked \ excused
        <3>1. record \in Readable
            BY <2>1, <2>4 DEF IInv, AcknowledgedReadable
        <3> QED
            BY <3>1, <2>4, <1>3
    <2> QED
        BY <2>3, <2>4, <1>1
<1> QED
    BY <1>3, <1>4, <1>5, <1>6, <1>7 DEF IInv

\* A write that fails or that a crash interrupts: what is left at the end is
\* no acknowledged record, and none is lost.
LEMMA UnsureAppendKeeps ==
    ASSUME IInv, ShortAppend \/ CrashInAppend
    PROVE  IInv'
<1>1. /\ pc = "up" /\ nextId <= MaxRecords /\ nextId' = nextId + 1
      /\ pc' = "up" => damaged' = TRUE /\ tail' # "ended"
      /\ pc' \in {"up", "down"} /\ damaged' \in BOOLEAN /\ tail' \in {"ended", "torn", "open"}
      /\ now' = now /\ tmp' = tmp /\ acked' = acked /\ excused' = excused /\ filled' = filled
    BY DEF ShortAppend, CrashInAppend
<1>2. PICK line \in {NewRecord, Garbage} : file' = Appended(line)
    BY DEF ShortAppend, CrashInAppend
<1>3. NewRecord # Garbage /\ nextId' \in 1 .. MaxRecords + 1
    BY <1>1, NewRecordFacts, LineFacts DEF IInv
<1>4. /\ file' \in Seq(Line) /\ file' # <<>> /\ RecordsInOrder'
      /\ file'[Len(file')] \in {line, Garbage}
      /\ Readable' \subseteq Readable \cup {NewRecord}
      /\ (Readable \ Readable') \cap acked = {}
    BY <1>1, <1>2, AppendedFacts
<1>5. TypeOK'
    BY <1>1, <1>3, <1>4 DEF IInv, TypeOK
<1>6. IdsPast'
    BY <1>1, <1>4, IdsStayPast
<1>7. TailSane' /\ TmpSane'
    BY <1>1, <1>4, NewRecordFresh DEF TailSane, TmpSane
<1>8. AcknowledgedReadable'
    BY <1>1, <1>4 DEF IInv, AcknowledgedReadable, Expired, Cutoff
<1> QED
    BY <1>4, <1>5, <1>6, <1>7, <1>8 DEF IInv

\* The temporary file, written to its end or cut short.
LEMMA BeginCleanKeeps ==
    ASSUME IInv, StartupClean \/ DailyClean
    PROVE  IInv'
<1>1. /\ pc' = "renaming" /\ now' = now /\ file' = file /\ tail' = tail
      /\ nextId' = nextId /\ acked' = acked /\ excused' = excused /\ damaged' = damaged
    BY DEF StartupClean, DailyClean, BeginClean
<1>2. TypeOK /\ Readable' = Readable
    BY <1>1 DEF IInv, Readable
<1>3. PICK n \in 0 .. Len(Kept) :
        /\ tmp' \in {WholeLines(n), CutLine(n)}
        /\ \/ n = Len(Kept) /\ tmp' = WholeLines(n) /\ filled' = filled
           \/ filled' = TRUE
    <2>1. Len(Kept) \in Nat
        BY <1>2, KeptFacts
    <2>2. CASE tmp' = WholeLines(Len(Kept)) /\ filled' = filled
        BY <2>1, <2>2
    <2>3. CASE /\ \E n \in 0 .. Len(Kept) - 1 : tmp' \in {WholeLines(n), CutLine(n)}
               /\ filled' = TRUE
        BY <2>1, <2>3
    <2> QED
        BY <2>2, <2>3 DEF StartupClean, DailyClean, BeginClean
<1> DEFINE first == SubSeq(Kept, 1, n)
<1>4. /\ Kept \in Seq(Line) /\ Ordered(Kept) /\ RecordsOf(Kept) \subseteq Readable
      /\ \A record \in Readable : ~Expired(record) => record \in RecordsOf(Kept)
    BY <1>2, KeptFacts DEF IInv
<1>5. /\ first \in Seq(Line) /\ Ordered(first) /\ RecordsOf(first) \subseteq Readable
      /\ n = Len(Kept) => RecordsOf(first) = RecordsOf(Kept)
    BY <1>3, <1>4, FirstLines
<1>6. /\ Append(first, Garbage) \in Seq(Line) /\ Ordered(Append(first, Garbage))
      /\ RecordsOf(Append(first, Garbage)) = RecordsOf(first)
      /\ CutShort(Append(first, Garbage))
    <2>1. /\ Append(first, Garbage) \in Seq(Line) /\ Ordered(Append(first, Garbage))
          /\ RecordsOf(Append(first, Garbage)) = RecordsOf(first)
        BY <1>5, LineFacts, AppendLine
    <2> HIDE DEF first
    <2>2. CutShort(Append(first, Garbage))
        BY <1>5 DEF CutShort
    <2> QED
        BY <2>1, <2>2
<1>7. /\ WholeLines(n).lines = first /\ WholeLines(n).tail = "ended"
      /\ CutLine(n).lines = Append(first, Garbage) /\ CutLine(n).tail = "torn"
    BY DEF WholeLines, CutLine
<1> HIDE DEF first
<1>8. /\ tmp'.lines \in Seq(Line) /\ Ordered(tmp'.lines) /\ RecordsOf(tmp'.lines) \subseteq Readable
      /\ tmp'.tail \in {"ended", "torn"}
      /\ tmp'.tail = "torn" => CutShort(tmp'.lines) /\ filled'
    BY <1>3, <1>5, <1>6, <1>7
<1>9. ~filled' => \A record \in Readable : ~Expired(record) => record \in RecordsOf(tmp'.lines)
    BY <1>3, <1>4, <1>5, <1>7
<1>10. filled' \in BOOLEAN /\ (filled => filled')
    <2>1. filled' = filled \/ filled' = TRUE
        BY <1>3
    <2> QED
        BY <2>1, <1>2, Zenon DEF TypeOK
<1>11. \A record : Expired(record)' <=> Expired(record)
    BY <1>1 DEF Expired, Cutoff
<1>12. TypeOK'
    BY <1>1, <1>2, <1>8, <1>10 DEF TypeOK
<1>13. IdsPast' /\ RecordsInOrder' /\ TailSane'
    BY <1>1, <1>2, <1>10 DEF IInv, IdsPast, RecordsInOrder, TailSane
<1>14. TmpSane'
    BY <1>2, <1>8, <1>9, <1>11 DEF TmpSane
<1>15. AcknowledgedReadable'
    BY <1>1, <1>2, <1>10, <1>11 DEF IInv, AcknowledgedReadable
<1> QED
    BY <1>12, <1>13, <1>14, <1>15 DEF IInv

LEMMA NoTmpFacts == NoTmp.lines = <<>> /\ <<>> \in Seq(Line) /\ NoTmp.tail = "ended"
    BY DEF NoTmp

LEMMA RenameKeeps ==
    ASSUME IInv, Rename
    PROVE  IInv'
<1>1. /\ pc = "renaming" /\ pc' = "up" /\ file' = tmp.lines /\ tail' = tmp.tail /\ tmp' = NoTmp
      /\ damaged' = (tmp.tail # "ended") /\ excused' = excused
      /\ now' = now /\ nextId' = nextId /\ acked' = acked /\ filled' = filled
    BY DEF Rename
<1>2. Readable' = RecordsOf(file') /\ (RecordsInOrder' <=> Ordered(file'))
    BY DEF Readable, RecordsInOrder, RecordsOf, Ordered
<1>3. TypeOK'
    BY <1>1, NoTmpFacts DEF IInv, TypeOK
<1>4. RecordsInOrder' /\ Readable' \subseteq Readable
    BY <1>1, <1>2 DEF IInv, TmpSane
<1>5. IdsPast'
    BY <1>1, <1>4 DEF IInv, IdsPast
<1>6. TailSane'
    BY <1>1, LineFacts DEF IInv, TypeOK, TmpSane, TailSane, CutShort
<1>7. TmpSane'
    BY <1>1 DEF TmpSane
<1>8. AcknowledgedReadable'
    BY <1>1, <1>2 DEF IInv, TmpSane, AcknowledgedReadable, Expired, Cutoff
<1> QED
    BY <1>3, <1>4, <1>5, <1>6, <1>7, <1>8 DEF IInv

\* A cleaning that fails, a start and the end of the process leave the file alone.
LEMMA FileUntouchedKeeps ==
    ASSUME IInv, Start \/ Stop \/ CleanFails
    PROVE  IInv'
<1>1. /\ pc' \in {"maintenance", "down", "up"}
      /\ damaged' \in BOOLEAN /\ (pc' = "up" => damaged' = (tail # "ended"))
      /\ now' = now /\ file' = file /\ tail' = tail /\ tmp' \in {tmp, NoTmp} /\ nextId' = nextId
      /\ acked' = acked /\ excused' = excused /\ filled' = filled
    BY DEF IInv, TypeOK, Start, Stop, CleanFails
<1>2. TypeOK'
    BY <1>1, NoTmpFacts DEF IInv, TypeOK
<1>3. IdsPast' /\ RecordsInOrder' /\ TailSane' /\ TmpSane'
    BY <1>1 DEF IInv, IdsPast, RecordsInOrder, TailSane, TmpSane, Readable
<1>4. AcknowledgedReadable'
    BY <1>1 DEF IInv, AcknowledgedReadable, Readable, Expired, Cutoff
<1> QED
    BY <1>2, <1>3, <1>4 DEF IInv

\* Records expire, and none is restored by the clock.
LEMMA TimeKeeps ==
    ASSUME IInv, TimePasses
    PROVE  IInv'
<1>1. /\ now < MaxTime /\ now' = now + 1 /\ pc' = pc /\ file' = file /\ tail' = tail /\ tmp' = tmp
      /\ nextId' = nextId /\ acked' = acked /\ excused' = excused
      /\ damaged' = damaged /\ filled' = filled
    BY DEF TimePasses
<1>2. now' \in 0 .. MaxTime /\ Readable' = Readable /\ now \in Int /\ KeepDays \in Int
    BY <1>1, HistoryAssumption DEF IInv, TypeOK, Readable
<1>3. \A record \in Record : Expired(record) => Expired(record)'
    BY <1>1, <1>2, LineFacts DEF Expired, Cutoff
<1>4. Readable \subseteq Record /\ acked \subseteq Record
    BY ReadableFacts DEF IInv, TypeOK
<1>5. TypeOK'
    BY <1>1, <1>2 DEF IInv, TypeOK
<1>6. IdsPast' /\ RecordsInOrder' /\ TailSane'
    BY <1>1, <1>2 DEF IInv, IdsPast, RecordsInOrder, TailSane
<1>7. TmpSane'
    BY <1>1, <1>2, <1>3, <1>4 DEF IInv, TmpSane
<1>8. AcknowledgedReadable'
    BY <1>1, <1>2, <1>3, <1>4 DEF IInv, AcknowledgedReadable
<1> QED
    BY <1>5, <1>6, <1>7, <1>8 DEF IInv

LEMMA InitHolds == Init => IInv
<1> SUFFICES ASSUME Init PROVE IInv
    OBVIOUS
<1>1. TypeOK
    <2>1. 0 \in 0 .. MaxTime /\ 1 \in 1 .. MaxRecords + 1
        BY HistoryAssumption
    <2>2. file \in Seq(Line) /\ tmp.lines \in Seq(Line) /\ tmp.tail = "ended"
        BY NoTmpFacts DEF Init
    <2> QED
        BY <2>1, <2>2 DEF Init, TypeOK
<1>2. Readable = {}
    BY DEF Init, Readable
<1>3. IdsPast /\ RecordsInOrder /\ TailSane /\ TmpSane /\ AcknowledgedReadable
    BY <1>2 DEF Init, IdsPast, RecordsInOrder, TailSane, TmpSane, AcknowledgedReadable
<1> QED
    BY <1>1, <1>3 DEF IInv

LEMMA StepKeeps ==
    ASSUME IInv, [Next]_vars
    PROVE  IInv'
<1>1. CASE UNCHANGED vars
    BY <1>1 DEF vars, IInv, TypeOK, IdsPast, RecordsInOrder, TailSane, TmpSane, AcknowledgedReadable,
                Readable, Expired, Cutoff
<1> QED
    BY <1>1, FileUntouchedKeeps, AppendRecordKeeps, UnsureAppendKeeps, BeginCleanKeeps,
       RenameKeeps, TimeKeeps DEF Next

\* The inductive invariant holds in every behaviour.
THEOREM IInvCorrect == Spec => []IInv
<1>1. IInv /\ [Next]_vars => IInv'
    BY StepKeeps
<1> QED
    BY <1>1, InitHolds, PTL DEF Spec

\* The state of a history file has its types.
THEOREM TypeCorrect == Spec => []TypeOK
<1>1. IInv => TypeOK
    BY DEF IInv
<1> QED
    BY <1>1, IInvCorrect, PTL

\* Until a full disk has cut a cleaning short, an acknowledged record can be read
\* for as long as it has not expired, but for the first one after a failure that
\* the process has logged: for any length of the file, any crashes and any failed
\* appends and cleanings.
THEOREM AcknowledgedReadableCorrect == Spec => []AcknowledgedReadable
<1>1. IInv => AcknowledgedReadable
    BY DEF IInv
<1> QED
    BY <1>1, IInvCorrect, PTL

\* The records of a file are always in the order of their appends, on a full
\* disk too.
THEOREM RecordsInOrderCorrect == Spec => []RecordsInOrder
<1>1. IInv => RecordsInOrder
    BY DEF IInv
<1> QED
    BY <1>1, IInvCorrect, PTL

\* Where no full disk has cut a cleaning short, one removes expired records only,
\* or fails and removes nothing: the full disk is the only way to the loss that CleanRemovesExpiredOnly shows.
THEOREM CleanRemovesExpiredOnlyWithSpace ==
    Spec => [][~filled => (pc = "renaming" /\ pc' = "up" =>
                 \A record \in Readable : ~Expired(record) => record \in Readable')]_vars
<1>1. IInv /\ [Next]_vars =>
        [~filled => (pc = "renaming" /\ pc' = "up" =>
            \A record \in Readable : ~Expired(record) => record \in Readable')]_vars
    <2> SUFFICES ASSUME IInv, Next, ~filled, pc = "renaming", pc' = "up"
                 PROVE  \A record \in Readable : ~Expired(record) => record \in Readable'
        OBVIOUS
    <2>1. CASE Rename
        <3>1. Readable' = RecordsOf(file') /\ file' = tmp.lines
            BY <2>1 DEF Rename, Readable, RecordsOf
        <3> QED
            BY <3>1 DEF IInv, TmpSane
    <2>2. CASE TimePasses
        BY <2>2 DEF TimePasses, Readable
    <2>3. CASE CleanFails
        BY <2>3 DEF CleanFails, Readable
    <2> QED
        BY <2>1, <2>2, <2>3 DEF Next, Start, Stop, AppendRecord, ShortAppend, CrashInAppend,
                          StartupClean, DailyClean, BeginClean
<1> QED
    BY <1>1, IInvCorrect, PTL DEF Spec

----------------------------------------------------------------------------
\* Each step of the file is a step of the log, or changes nothing of it.
LEMMA StepImplements ==
    ASSUME IInv, IInv', Next
    PROVE  Log!Next \/ UNCHANGED Log!vars
<1>1. TypeOK /\ Readable \subseteq Record /\ acked \subseteq Record
    BY ReadableFacts DEF IInv, TypeOK
<1>2. ASSUME nextId <= MaxRecords
      PROVE  /\ nextId \in 1 .. MaxRecords
             /\ NewRecord = [id |-> nextId, ts |-> now]
             /\ Log!Fresh(NewRecord)
    <2>1. NewRecord.id = nextId /\ NewRecord.ts = now /\ NewRecord = [id |-> nextId, ts |-> now]
        BY <1>1, <1>2, NewRecordFacts
    <2>2. \A other \in Readable \cup acked : other.id \in Int /\ other.id < nextId
        BY <1>1, LineFacts DEF IInv, IdsPast
    <2> QED
        BY <2>1, <2>2, <1>1, <1>2, HistoryAssumption DEF TypeOK, Log!Fresh
<1>3. ASSUME NEW record \in Record PROVE Log!Expired(record) <=> Expired(record)
    BY <1>1, HistoryAssumption, LineFacts DEF Log!Expired, Expired, Cutoff, TypeOK
<1>4. CASE AppendRecord
    <2>1. /\ file' = Appended(NewRecord) /\ pc = "up" /\ nextId <= MaxRecords
          /\ acked' = acked \cup {NewRecord} /\ now' = now /\ filled' = filled /\ damaged' = FALSE
        BY <1>4 DEF AppendRecord
    <2>2. NewRecord # Garbage /\ (damaged <=> tail # "ended")
        BY <1>1, <2>1, NewRecordFacts, LineFacts DEF IInv, TailSane
    <2>3. CASE tail = "ended"
        <3>1. Readable' = Readable \cup {NewRecord}
            BY <2>1, <2>2, <2>3, AppendedFacts
        <3>2. ~damaged /\ damaged' = damaged
            BY <2>1, <2>2, <2>3, <1>1 DEF TypeOK
        <3>3. Log!AppendTo(NewRecord)
            BY <2>1, <3>1, <3>2, <1>2 DEF Log!AppendTo
        <3> QED
            BY <3>3, <2>1, <1>2 DEF Log!Next
    <2>4. CASE tail # "ended"
        <3>1. damaged /\ Readable' \subseteq Readable /\ (Readable \ Readable') \cap acked = {}
            BY <2>1, <2>2, <2>4, AppendedFacts
        <3>2. Log!AppendLosing(NewRecord)
            BY <2>1, <3>1, <1>2 DEF Log!AppendLosing
        <3> QED
            BY <3>2, <2>1, <1>2 DEF Log!Next
    <2> QED
        BY <2>3, <2>4
<1>5. CASE ShortAppend \/ CrashInAppend
    <2>1. /\ pc = "up" /\ nextId <= MaxRecords /\ acked' = acked /\ now' = now /\ filled' = filled
          /\ damaged' \in BOOLEAN
          /\ \E line \in {NewRecord, Garbage} : file' = Appended(line)
        BY <1>5 DEF ShortAppend, CrashInAppend
    <2>2. damaged <=> tail # "ended"
        BY <2>1 DEF IInv, TailSane
    <2>3. CASE tail # "ended"
        <3>1. damaged /\ Readable' \subseteq Readable /\ (Readable \ Readable') \cap acked = {}
            BY <2>1, <2>2, <2>3, AppendedFacts
        <3>2. Log!AppendLosing(NewRecord)
            BY <2>1, <3>1, <1>2 DEF Log!AppendLosing
        <3> QED
            BY <3>2, <2>1, <1>2 DEF Log!Next
    <2>4. CASE tail = "ended" /\ Readable' = Readable \cup {NewRecord}
        <3>1. Log!AppendUnsure(NewRecord)
            BY <2>1, <2>2, <2>4, <1>2 DEF Log!AppendUnsure
        <3> QED
            BY <3>1, <2>1, <1>2 DEF Log!Next
    <2>5. CASE Readable' = Readable
        BY <2>1, <2>5 DEF Log!Next, Log!Damage, Log!Repair
    <2> QED
        BY <2>1, <2>3, <2>4, <2>5, AppendedFacts
<1>7. CASE StartupClean \/ DailyClean
    <2>1. /\ now' = now /\ file' = file /\ acked' = acked /\ damaged' = damaged
          /\ filled' \in {filled, TRUE}
        BY <1>7 DEF StartupClean, DailyClean, BeginClean
    <2>2. Readable' = Readable
        BY <2>1 DEF Readable
    <2> QED
        BY <2>1, <2>2 DEF Log!Next, Log!Degrade, Log!vars
<1>8. CASE Rename
    <2>1. /\ pc = "renaming" /\ Readable' = RecordsOf(tmp.lines) /\ damaged' = (tmp.tail # "ended")
          /\ now' = now /\ acked' = acked /\ filled' = filled
        BY <1>8 DEF Rename, Readable, RecordsOf
    <2>2. /\ Readable' \subseteq Readable
          /\ ~filled => /\ \A record \in Readable : ~Expired(record) => record \in Readable'
                        /\ damaged' = FALSE
        BY <2>1, <1>1 DEF IInv, TmpSane, TypeOK
    <2>3. CASE filled
        BY <2>1, <2>2, <2>3 DEF Log!Next, Log!CleanLosing
    <2>4. CASE ~filled
        <3>1. \A record \in Readable \ Readable' : Log!Expired(record)
            BY <2>2, <2>4, <1>1, <1>3
        <3> QED
            BY <2>1, <2>2, <2>4, <3>1 DEF Log!Next, Log!Clean
    <2> QED
        BY <2>3, <2>4
<1>9. CASE Start \/ Stop \/ CleanFails
    <2>1. /\ now' = now /\ file' = file /\ acked' = acked /\ filled' = filled
          /\ damaged' \in {damaged, TRUE, FALSE}
        BY <1>9 DEF Start, Stop, CleanFails
    <2>2. Readable' = Readable
        BY <2>1 DEF Readable
    <2> QED
        BY <2>1, <2>2 DEF Log!Next, Log!Damage, Log!Repair, Log!vars
<1>10. CASE TimePasses
    <2>1. Readable' = Readable
        BY <1>10 DEF TimePasses, Readable
    <2> QED
        BY <2>1, <1>10 DEF TimePasses, Log!Next, Log!Tick
<1> QED
    BY <1>4, <1>5, <1>7, <1>8, <1>9, <1>10 DEF Next

\* A history file, with its torn and open lines, its crashes and its rewrites,
\* implements the log of HistoryLog, for any number of records.
THEOREM ImplementsLogCorrect == Spec => ImplementsLog
<1>1. Init => Log!Init
    BY DEF Init, Log!Init, Readable
<1>2. IInv /\ IInv' /\ [Next]_vars => [Log!Next]_(Log!vars)
    <2>1. CASE UNCHANGED vars
        BY <2>1 DEF vars, Log!vars, Readable
    <2> QED
        BY <2>1, StepImplements
<1> QED
    BY <1>1, <1>2, IInvCorrect, PTL DEF Spec, ImplementsLog, Log!Spec

====
