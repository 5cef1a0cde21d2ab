--------------------------- MODULE LogFileProofs ---------------------------
(***************************************************************************)
(* What the log file keeps, for every number of rotated files, every limit *)
(* and any number of records and faults.                                   *)
(***************************************************************************)
EXTENDS LogFile, SequenceTheorems, TLAPS

\* Write has taken a record that no file has yet.
Busy == pc \in {"append", "shift"}

\* What a rotation has done so far, and what Write knows when it appends.
StageInv ==
    /\ Busy => bytes \in RecordSizes /\ count > 0 /\ \A g \in Files : count \notin RecordsIn(files[g])
    /\ pc = "shift" => handle = "none"
    /\ pc = "shift" /\ gen \in 0..(Keep - 1) => files[gen + 1] = Empty
    /\ pc = "shift" /\ gen = -1 => rotateErr = TRUE \/ files[0] = Empty
    /\ pc = "append" /\ handle = "live" => rotateErr = TRUE \/ size = 0 \/ size + bytes <= MaxBytes

(***************************************************************************)
(* What files and their records are.                                       *)
(***************************************************************************)
LogFiles(n) == [records : Seq(1..n), bytes : Nat]

\* What an append makes of a file.
Longer(f, n, written) == [records |-> Append(f.records, n), bytes |-> f.bytes + written]

LEMMA EmptyFile == /\ \A n : Empty \in LogFiles(n)
                   /\ RecordsIn(Empty) = {} /\ Empty.records = <<>> /\ Empty.bytes = 0
<1>1. Empty.records = <<>> /\ Empty.bytes = 0
  BY DEF Empty
<1>2. \A n : Empty \in LogFiles(n)
  BY DEF Empty, LogFiles
<1>3. RecordsIn(Empty) = {}
  BY <1>1 DEF RecordsIn, ToSet
<1> QED
  BY <1>1, <1>2, <1>3

\* A file's records are numbers of records that were written.
LEMMA FileRecords ==
    ASSUME NEW n \in Nat, NEW f \in LogFiles(n)
    PROVE  /\ f.records \in Seq(1..n) /\ f.bytes \in Nat /\ RecordsIn(f) \subseteq 1..n
           /\ (f.records = <<>> /\ f.bytes = 0) <=> f = Empty
<1>1. f.records \in Seq(1..n) /\ f.bytes \in Nat /\ f = [records |-> f.records, bytes |-> f.bytes]
  BY DEF LogFiles
<1>2. RecordsIn(f) \subseteq 1..n
  BY <1>1 DEF RecordsIn, ToSet
<1> QED
  BY <1>1, <1>2 DEF Empty

\* Files of a log with fewer records are files of one with more.
LEMMA MoreRecords ==
    ASSUME NEW n \in Nat, NEW f \in LogFiles(n)
    PROVE  f \in LogFiles(n + 1)
<1>1. f.records \in Seq(1..n) /\ f.bytes \in Nat /\ f = [records |-> f.records, bytes |-> f.bytes]
  BY DEF LogFiles
<1>2. f.records \in Seq(1..(n + 1))
  <2>1. f.records \in [1..Len(f.records) -> 1..n] /\ Len(f.records) \in Nat
    BY <1>1, LenProperties
  <2>2. \A i \in 1..Len(f.records) : f.records[i] \in 1..(n + 1)
    BY <2>1
  <2> QED
    BY <1>1, <2>1, <2>2, SeqDef
<1> QED
  BY <1>1, <1>2 DEF LogFiles

\* An append.
LEMMA LongerFile ==
    ASSUME NEW n \in Nat \ {0}, NEW f \in LogFiles(n), NEW written \in Nat \ {0}
    PROVE  /\ Longer(f, n, written) \in LogFiles(n)
           /\ RecordsIn(Longer(f, n, written)) = RecordsIn(f) \cup {n}
           /\ Longer(f, n, written).bytes = f.bytes + written /\ f.bytes + written > 0
           /\ Longer(f, n, written).records # <<>> /\ Longer(f, n, written) # Empty
           /\ Last(Longer(f, n, written).records) = n
           /\ Len(Longer(f, n, written).records) = Len(f.records) + 1
<1> DEFINE s == Append(f.records, n)
           l == Longer(f, n, written)
<1>1. f.records \in Seq(1..n) /\ f.bytes \in Nat /\ Len(f.records) \in Nat
  BY FileRecords
<1>2. n \in 1..n
  OBVIOUS
<1>3. /\ s \in Seq(1..n) /\ Len(s) = Len(f.records) + 1 /\ s[Len(f.records) + 1] = n
      /\ \A i \in 1..Len(f.records) : s[i] = f.records[i]
  BY <1>1, <1>2, AppendProperties
<1>4. l.records = s /\ l.bytes = f.bytes + written
  BY DEF Longer
<1>5. l \in LogFiles(n)
  BY <1>1, <1>3 DEF Longer, LogFiles
<1>6. l.bytes > 0
  BY <1>1, <1>4
<1>7. s # <<>> /\ Last(s) = n
  BY <1>1, <1>3 DEF Last
<1>8. ToSet(s) = ToSet(f.records) \cup {n}
  <2> DEFINE k == Len(f.records)
  <2> HIDE DEF s, k
  <2>0. k \in Nat /\ Len(s) = k + 1 /\ s \in Seq(1..n)
    BY <1>1, <1>3 DEF k
  <2>1. ToSet(s) = {s[i] : i \in 1..Len(s)}
    BY <2>0 DEF ToSet
  <2>2. ToSet(f.records) = {f.records[i] : i \in 1..k}
    BY <1>1 DEF ToSet, k
  <2>3. /\ \A i \in 1..Len(s) : i \in 1..k \/ i = k + 1
        /\ \A i \in 1..k : i \in 1..Len(s)
        /\ k + 1 \in 1..Len(s)
    BY <2>0
  <2>4. s[k + 1] = n /\ \A i \in 1..k : s[i] = f.records[i]
    BY <1>3 DEF k
  <2> QED
    BY <2>1, <2>2, <2>3, <2>4
<1> HIDE DEF l, s
<1>9. l # Empty
  BY <1>4, <1>7, EmptyFile
<1> QED
  BY <1>1, <1>3, <1>4, <1>5, <1>6, <1>7, <1>8, <1>9 DEF l, RecordsIn

\* A record is on the disk when some file has it.
LEMMA RecordOnDisk == \A r : r \in OnDisk <=> \E g \in Files : r \in RecordsIn(files[g])
BY DEF OnDisk

(***************************************************************************)
(* The types.                                                              *)
(***************************************************************************)
LEMMA LogTypes ==
    ASSUME TypeOK
    PROVE  /\ files \in [Files -> LogFiles(count)] /\ count \in Nat /\ Keep \in Nat /\ 0 \in Files
           /\ \A g \in Files : /\ files[g] \in LogFiles(count) /\ files[g].bytes \in Nat
                               /\ (files[g] # Empty) <=> (files[g].bytes > 0)
                               /\ (files[g] # Empty) <=> (files[g].records # <<>>)
                               /\ files[g].records \in Seq(1..count)
                               /\ RecordsIn(files[g]) \subseteq 1..count
<1>1. count \in Nat /\ Keep \in Nat /\ 0 \in Files
  BY LogAssumption DEF TypeOK, Files
<1>2. files \in [Files -> LogFiles(count)]
  BY DEF TypeOK, LogFiles
<1>3. \A g \in Files : files[g] \in LogFiles(count)
  BY <1>2
<1>4. \A g \in Files : files[g].bytes = 0 <=> files[g].records = <<>>
  BY DEF TypeOK
<1>5. \A g \in Files : /\ files[g].records \in Seq(1..count) /\ files[g].bytes \in Nat
                       /\ RecordsIn(files[g]) \subseteq 1..count
                       /\ (files[g].records = <<>> /\ files[g].bytes = 0) <=> files[g] = Empty
  BY <1>1, <1>3, FileRecords
<1> QED
  BY <1>1, <1>2, <1>3, <1>4, <1>5

\* Files that hold records up to n, and have a size exactly if they hold some.
Sound(fs, n) ==
    /\ fs \in [Files -> LogFiles(n)]
    /\ \A g \in Files : fs[g].bytes = 0 <=> fs[g].records = <<>>

\* Each step leaves the files sound.
LEMMA SoundStep ==
    ASSUME TypeOK, StageInv, Next
    PROVE  Sound(files', count')
<1>0. /\ files \in [Files -> LogFiles(count)] /\ count \in Nat /\ Keep \in Nat /\ 0 \in Files
      /\ \A g \in Files : files[g] \in LogFiles(count) /\ (files[g].bytes = 0 <=> files[g].records = <<>>)
  BY LogTypes DEF TypeOK
<1>1. Sound(files, count)
  BY <1>0 DEF Sound
<1>2. Sound(files, count + 1)
  <2>1. \A g \in Files : files[g] \in LogFiles(count + 1)
    BY <1>0, MoreRecords
  <2> QED
    BY <1>0, <2>1 DEF Sound
<1>3. CASE files' = files /\ count' \in {count, count + 1}
  BY <1>1, <1>2, <1>3
<1>4. CASE OpenFile \/ (\E b \in RecordSizes : Write(b)) \/ WriteClosed \/ ShiftFails \/ Reopen \/ ReopenFails
           \/ Close \/ Killed
  BY <1>3, <1>4 DEF OpenFile, Write, WriteClosed, ShiftFails, Reopen, ReopenFails, Close, Killed
<1>5. CASE RemoveOldest \/ DeleteLive
  <2>1. PICK g \in Files : files' = [files EXCEPT ![g] = Empty] /\ count' = count
    BY <1>0, <1>5 DEF RemoveOldest, DeleteLive, Files
  <2> QED
    BY <1>0, <2>1, EmptyFile DEF Sound
<1>6. CASE Move
  <2>1. /\ gen \in Files /\ gen + 1 \in Files /\ count' = count
        /\ files' = [files EXCEPT ![gen + 1] = files[gen], ![gen] = Empty]
    BY <1>0, <1>6 DEF Move, Files
  <2> QED
    BY <1>0, <2>1, EmptyFile DEF Sound
<1>7. CASE \E written \in 0..bytes : AppendRecord(written)
  <2>1. PICK written \in 0..bytes : AppendRecord(written)
    BY <1>7
  <2>2. CASE handle = "live" /\ written > 0
    <3>1. files' = [files EXCEPT ![0] = Longer(@, count, written)] /\ count' = count
      BY <2>1, <2>2 DEF AppendRecord, Longer
    <3>2. written \in Nat \ {0} /\ count \in Nat \ {0}
      BY <1>0, <2>1, <2>2 DEF AppendRecord, StageInv, Busy
    <3>3. /\ Longer(files[0], count, written) \in LogFiles(count)
          /\ Longer(files[0], count, written).bytes > 0 /\ Longer(files[0], count, written).records # <<>>
      BY <1>0, <3>2, LongerFile
    <3> QED
      BY <1>0, <3>1, <3>3 DEF Sound
  <2>3. CASE ~(handle = "live" /\ written > 0)
    BY <1>3, <2>1, <2>3 DEF AppendRecord
  <2> QED
    BY <2>2, <2>3
<1> QED
  BY <1>4, <1>5, <1>6, <1>7 DEF Next

\* The rest of the types.
LEMMA TypeStep ==
    ASSUME TypeOK, StageInv, Next
    PROVE  TypeOK'
<1>0. /\ count \in 0..MaxRecords /\ faults \in 0..MaxFaults /\ MaxRecords \in Nat /\ MaxFaults \in Nat
      /\ Keep \in Nat /\ size \in Nat /\ gen \in -1..Keep /\ 0 \in Files /\ files[0].bytes \in Nat
      /\ reported \subseteq 1..count /\ kept \subseteq 1..count /\ files \in [Files -> LogFiles(count)]
      /\ bytes \in RecordSizes \cup {0} /\ bytes \in Nat
      /\ handle = "live" => size = files[0].bytes
  BY LogTypes, LogAssumption DEF TypeOK
<1>1. files' \in [Files -> [records : Seq(1..count'), bytes : Nat]]
      /\ \A g \in Files : files'[g].bytes = 0 <=> files'[g].records = <<>>
  BY SoundStep DEF Sound, LogFiles
<1>2. count' \in 0..MaxRecords /\ faults' \in 0..MaxFaults
  BY <1>0 DEF Next, OpenFile, Write, WriteClosed, RemoveOldest, Move, ShiftFails, Reopen, ReopenFails,
     AppendRecord, Close, Killed, DeleteLive, Fault
<1>3. reported' \subseteq 1..count' /\ kept' \subseteq 1..count'
  <2>1. 1..count \subseteq 1..(count + 1) /\ count + 1 \in 1..(count + 1)
    BY <1>0
  <2>2. Busy => count \in 1..count
    BY <1>0 DEF StageInv
  <2>3. CASE (\E b \in RecordSizes : Write(b)) \/ WriteClosed
    BY <1>0, <2>1, <2>3 DEF Write, WriteClosed
  <2>4. CASE ReopenFails \/ \E written \in 0..bytes : AppendRecord(written)
    BY <1>0, <2>2, <2>4 DEF ReopenFails, AppendRecord, Busy
  <2>5. CASE DeleteLive
    BY <1>0, <2>5 DEF DeleteLive
  <2>6. CASE OpenFile \/ RemoveOldest \/ Move \/ ShiftFails \/ Reopen \/ Close \/ Killed
    BY <1>0, <2>6 DEF OpenFile, RemoveOldest, Move, ShiftFails, Reopen, Close, Killed
  <2> QED
    BY <2>3, <2>4, <2>5, <2>6 DEF Next
<1>4. /\ handle' \in {"none", "live", "unlinked"} /\ pc' \in {"down", "idle", "append", "shift"}
      /\ pc' = "append" => handle' # "none"
  BY DEF TypeOK, Next, OpenFile, Write, WriteClosed, RemoveOldest, Move, ShiftFails, Reopen, ReopenFails,
     AppendRecord, Close, Killed, DeleteLive
<1>5. gen' \in -1..Keep
  BY <1>0 DEF Next, OpenFile, Write, WriteClosed, RemoveOldest, Move, ShiftFails, Reopen, ReopenFails,
     AppendRecord, Close, Killed, DeleteLive, FirstGeneration, GivesUp
<1>6. bytes' \in RecordSizes \cup {0} /\ rotateErr' \in BOOLEAN
  BY DEF TypeOK, Next, OpenFile, Write, WriteClosed, RemoveOldest, Move, ShiftFails, Reopen, ReopenFails,
     AppendRecord, Close, Killed, DeleteLive
<1>7. size' \in Nat /\ (handle' = "live" => size' = files'[0].bytes)
  <2>1. CASE UNCHANGED <<size, files>> /\ handle' \in {handle, "none"}
    BY <1>0, <2>1
  <2>2. CASE OpenFile \/ Reopen
    BY <1>0, <2>2 DEF OpenFile, Reopen, OpenedSize
  <2>3. CASE \E written \in 0..bytes : AppendRecord(written)
    <3>1. PICK written \in 0..bytes : AppendRecord(written)
      BY <2>3
    <3>2. written \in Nat /\ size' = size + written /\ handle' = handle
      BY <1>0, <3>1 DEF AppendRecord
    <3>3. CASE handle = "live" /\ written > 0
      <4>1. files' = [files EXCEPT ![0] = Longer(@, count, written)]
        BY <3>1, <3>3 DEF AppendRecord, Longer
      <4>2. files'[0].bytes = files[0].bytes + written
        BY <1>0, <4>1 DEF Longer
      <4> QED
        BY <1>0, <3>2, <4>2
    <3>4. CASE ~(handle = "live" /\ written > 0)
      <4>1. files' = files
        BY <3>1, <3>4 DEF AppendRecord
      <4> QED
        BY <1>0, <3>2, <3>4, <4>1
    <3> QED
      BY <3>3, <3>4
  <2>4. CASE RemoveOldest \/ Move
    BY <1>0, <2>4 DEF RemoveOldest, Move, StageInv
  <2>5. CASE DeleteLive
    BY <1>0, <2>5 DEF DeleteLive
  <2>6. CASE (\E b \in RecordSizes : Write(b)) \/ WriteClosed \/ ShiftFails \/ ReopenFails \/ Close \/ Killed
    BY <2>1, <2>6 DEF Write, WriteClosed, ShiftFails, ReopenFails, Close, Killed
  <2> QED
    BY <2>2, <2>3, <2>4, <2>5, <2>6 DEF Next
<1> QED
  BY <1>1, <1>2, <1>3, <1>4, <1>5, <1>6, <1>7 DEF TypeOK

(***************************************************************************)
(* What each step makes of the files.                                      *)
(***************************************************************************)
\* A file's records are gone, with it.
Empties(g) == files' = [files EXCEPT ![g] = Empty]

\* The file gen becomes the next one, which was empty.
Moves == files' = [files EXCEPT ![gen + 1] = files[gen], ![gen] = Empty]

\* The record is at the end of the live file.
Appends ==
    /\ \E written \in Nat \ {0} :
         /\ files' = [files EXCEPT ![0] = Longer(@, count, written)]
         /\ written <= bytes
    /\ kept' = kept \cup {count} /\ handle = "live"

LEMMA FileSteps ==
    ASSUME TypeOK, Next
    PROVE  \/ UNCHANGED <<files, kept>>
           \/ RemoveOldest /\ Empties(Keep) /\ Keep \in Files /\ UNCHANGED kept
           \/ Move /\ Moves /\ gen \in Files /\ gen + 1 \in Files /\ UNCHANGED kept
           \/ DeleteLive /\ Empties(0) /\ kept' = kept \ RecordsIn(files[0])
           \/ Appends /\ \E written \in 0..bytes : AppendRecord(written)
<1>0. Keep \in Nat /\ bytes \in Nat
  BY LogAssumption DEF TypeOK
<1>1. CASE OpenFile \/ (\E b \in RecordSizes : Write(b)) \/ WriteClosed \/ ShiftFails \/ Reopen \/ ReopenFails
           \/ Close \/ Killed
  BY <1>1 DEF OpenFile, Write, WriteClosed, ShiftFails, Reopen, ReopenFails, Close, Killed
<1>2. CASE RemoveOldest
  BY <1>0, <1>2 DEF RemoveOldest, Empties, Files
<1>3. CASE Move
  BY <1>0, <1>3 DEF Move, Moves, Files
<1>4. CASE DeleteLive
  BY <1>4 DEF DeleteLive, Empties
<1>5. CASE \E written \in 0..bytes : AppendRecord(written)
  <2>1. PICK written \in 0..bytes : AppendRecord(written)
    BY <1>5
  <2>2. CASE handle = "live" /\ written > 0
    <3>1. written \in Nat \ {0} /\ written <= bytes
      BY <1>0, <2>2
    <3>2. files' = [files EXCEPT ![0] = Longer(@, count, written)] /\ kept' = kept \cup {count}
      BY <2>1, <2>2 DEF AppendRecord, Longer
    <3> QED
      BY <1>5, <2>2, <3>1, <3>2 DEF Appends
  <2>3. CASE ~(handle = "live" /\ written > 0)
    BY <2>1, <2>3 DEF AppendRecord
  <2> QED
    BY <2>2, <2>3
<1> QED
  BY <1>1, <1>2, <1>3, <1>4, <1>5 DEF Next

\* The files after each of them.
LEMMA FilesAfter ==
    ASSUME TypeOK
    PROVE  /\ \A e \in Files : Empties(e) =>
                 \A g \in Files : files'[g] = IF g = e THEN Empty ELSE files[g]
           /\ Moves /\ gen \in Files /\ gen + 1 \in Files =>
                 \A g \in Files : files'[g] = IF g = gen THEN Empty ELSE IF g = gen + 1 THEN files[gen] ELSE files[g]
           /\ Appends /\ count > 0 =>
                 /\ \A g \in Files : g # 0 => files'[g] = files[g]
                 /\ RecordsIn(files'[0]) = RecordsIn(files[0]) \cup {count} /\ files'[0] # Empty
                 /\ Last(files'[0].records) = count /\ Len(files'[0].records) = Len(files[0].records) + 1
                 /\ files'[0].bytes <= files[0].bytes + bytes
<1>0. /\ files \in [Files -> LogFiles(count)] /\ count \in Nat /\ 0 \in Files /\ files[0] \in LogFiles(count)
      /\ files[0].bytes \in Nat /\ bytes \in Nat
  BY LogTypes, LogAssumption DEF TypeOK
<1>1. \A e \in Files : Empties(e) => \A g \in Files : files'[g] = IF g = e THEN Empty ELSE files[g]
  BY <1>0 DEF Empties
<1>2. Moves /\ gen \in Files /\ gen + 1 \in Files =>
        \A g \in Files : files'[g] = IF g = gen THEN Empty ELSE IF g = gen + 1 THEN files[gen] ELSE files[g]
  BY <1>0 DEF Moves
<1>3. ASSUME Appends, count > 0
      PROVE  /\ \A g \in Files : g # 0 => files'[g] = files[g]
             /\ RecordsIn(files'[0]) = RecordsIn(files[0]) \cup {count} /\ files'[0] # Empty
             /\ Last(files'[0].records) = count /\ Len(files'[0].records) = Len(files[0].records) + 1
             /\ files'[0].bytes <= files[0].bytes + bytes
  <2>1. PICK written \in Nat \ {0} : files' = [files EXCEPT ![0] = Longer(@, count, written)] /\ written <= bytes
    BY <1>3 DEF Appends
  <2>2. files'[0] = Longer(files[0], count, written) /\ \A g \in Files : g # 0 => files'[g] = files[g]
    BY <1>0, <2>1
  <2>3. count \in Nat \ {0}
    BY <1>0, <1>3
  <2>4. /\ RecordsIn(Longer(files[0], count, written)) = RecordsIn(files[0]) \cup {count}
        /\ Longer(files[0], count, written).bytes = files[0].bytes + written
        /\ Longer(files[0], count, written) # Empty
        /\ Last(Longer(files[0], count, written).records) = count
        /\ Len(Longer(files[0], count, written).records) = Len(files[0].records) + 1
    BY <1>0, <2>3, LongerFile
  <2>5. files[0].bytes + written <= files[0].bytes + bytes
    BY <1>0, <2>1
  <2> QED
    BY <2>2, <2>4, <2>5
<1> QED
  BY <1>1, <1>2, <1>3

\* A step keeps what is known of the rotation.
LEMMA StageStep ==
    ASSUME TypeOK, StageInv, Next
    PROVE  StageInv'
<1>0. /\ count \in Nat /\ Keep \in Nat /\ 0 \in Files /\ gen \in -1..Keep /\ bytes \in RecordSizes \cup {0}
      /\ \A g \in Files : RecordsIn(files[g]) \subseteq 1..count
      /\ \A g : g \in Files <=> g \in 0..Keep
      /\ size \in Nat /\ MaxBytes \in Nat /\ RecordSizes \subseteq Nat
  BY LogTypes, LogAssumption DEF TypeOK, Files
<1>1. Busy' => bytes' \in RecordSizes /\ count' > 0 /\ \A g \in Files : count' \notin RecordsIn(files'[g])
  <2>1. CASE \E b \in RecordSizes : Write(b)
    <3>1. count' = count + 1 /\ files' = files /\ bytes' \in RecordSizes
      BY <2>1 DEF Write
    <3>2. \A g \in Files : count + 1 \notin RecordsIn(files[g])
      BY <1>0
    <3> QED
      BY <1>0, <3>1, <3>2
  <2>2. CASE Busy /\ UNCHANGED <<bytes, count>>
             /\ \A g \in Files : \E h \in Files : files'[g] \in {files[h], Empty}
    BY <2>2, EmptyFile DEF StageInv
  <2>3. CASE ShiftFails \/ Reopen
    <3>1. Busy /\ UNCHANGED <<bytes, count, files>>
      BY <2>3 DEF ShiftFails, Reopen, Busy
    <3> QED
      BY <2>2, <3>1
  <2>4. CASE RemoveOldest
    BY <1>0, <2>2, <2>4, FilesAfter DEF RemoveOldest, Busy, Empties
  <2>5. CASE Move
    <3>1. gen \in Files /\ gen + 1 \in Files /\ Moves
      BY <1>0, <2>5 DEF Move, Moves
    <3> QED
      BY <1>0, <2>2, <2>5, <3>1, FilesAfter DEF Move, Busy
  <2>6. CASE DeleteLive
    <3>1. \A g \in Files : files'[g] \in {files[g], Empty}
      BY <1>0, <2>6, FilesAfter DEF DeleteLive, Empties
    <3>2. UNCHANGED <<bytes, count, pc>>
      BY <2>6 DEF DeleteLive
    <3> QED
      BY <2>2, <3>1, <3>2 DEF Busy
  <2>7. CASE OpenFile \/ WriteClosed \/ ReopenFails \/ Close \/ Killed \/ (\E written \in 0..bytes : AppendRecord(written))
    BY <2>7 DEF OpenFile, WriteClosed, ReopenFails, Close, Killed, AppendRecord, Busy
  <2> QED
    BY <2>1, <2>3, <2>4, <2>5, <2>6, <2>7 DEF Next
<1>2. pc' = "shift" => handle' = "none"
  BY DEF StageInv, Next, OpenFile, Write, WriteClosed, RemoveOldest, Move, ShiftFails, Reopen, ReopenFails,
     AppendRecord, Close, Killed, DeleteLive
<1>3. /\ pc' = "shift" /\ gen' \in 0..(Keep - 1) => files'[gen' + 1] = Empty
      /\ pc' = "shift" /\ gen' = -1 => rotateErr' = TRUE \/ files'[0] = Empty
  <2>1. CASE \E b \in RecordSizes : Write(b)
    <3>1. pc' = "shift" => gen' = Keep
      BY <2>1 DEF Write
    <3> QED
      BY <1>0, <3>1
  <2>2. CASE RemoveOldest
    <3>1. gen' = Keep - 1 /\ files'[Keep] = Empty
      <4>1. Keep \in Files /\ Empties(Keep)
        BY <1>0, <2>2 DEF RemoveOldest, Empties
      <4> QED
        BY <2>2, <4>1, FilesAfter DEF RemoveOldest, FirstGeneration
    <3>2. gen' + 1 = Keep /\ (gen' = -1 => Keep = 0)
      BY <1>0, <3>1
    <3> QED
      BY <3>1, <3>2
  <2>3. CASE Move
    <3>1. gen \in Files /\ gen + 1 \in Files /\ Moves
      BY <1>0, <2>3 DEF Move, Moves
    <3>2. files'[gen] = Empty /\ gen' = gen - 1
      BY <2>3, <3>1, FilesAfter DEF Move
    <3>3. gen' + 1 = gen /\ (gen' = -1 => gen = 0)
      BY <1>0, <3>2
    <3> QED
      BY <3>2, <3>3
  <2>4. CASE ShiftFails
    BY <2>4 DEF ShiftFails, GivesUp
  <2>5. CASE DeleteLive
    <3>1. files'[0] = Empty /\ \A g \in Files : g # 0 => files'[g] = files[g]
      BY <1>0, <2>5, FilesAfter DEF DeleteLive, Empties
    <3>2. gen \in 0..(Keep - 1) => gen + 1 \in Files /\ gen + 1 # 0
      BY <1>0
    <3>3. UNCHANGED <<pc, gen>>
      BY <2>5 DEF DeleteLive
    <3> QED
      BY <3>1, <3>2, <3>3 DEF StageInv
  <2>6. CASE OpenFile \/ WriteClosed \/ Reopen \/ ReopenFails \/ Close \/ Killed \/ (\E written \in 0..bytes : AppendRecord(written))
    BY <2>6 DEF OpenFile, WriteClosed, Reopen, ReopenFails, Close, Killed, AppendRecord
  <2> QED
    BY <2>1, <2>2, <2>3, <2>4, <2>5, <2>6 DEF Next
<1>4. pc' = "append" /\ handle' = "live" => rotateErr' = TRUE \/ size' = 0 \/ size' + bytes' <= MaxBytes
  <2>1. CASE \E b \in RecordSizes : Write(b)
    <3>1. PICK b \in RecordSizes : Write(b)
      BY <2>1
    <3>2. pc' = "append" => ~(size > 0 /\ size + b > MaxBytes)
      BY <3>1 DEF Write, NeedsRotation
    <3>3. size' = size /\ bytes' = b
      BY <3>1 DEF Write
    <3>4. b \in Nat
      BY <1>0
    <3> QED
      BY <1>0, <3>2, <3>3, <3>4
  <2>2. CASE Reopen
    <3>1. gen = -1 /\ pc = "shift" /\ size' = files[0].bytes /\ rotateErr' = rotateErr
      BY <1>0, <2>2 DEF Reopen, OpenedSize
    <3> QED
      BY <3>1, EmptyFile DEF StageInv
  <2>3. CASE DeleteLive
    BY <2>3 DEF DeleteLive
  <2>4. CASE OpenFile \/ WriteClosed \/ RemoveOldest \/ Move \/ ShiftFails \/ ReopenFails \/ Close \/ Killed
             \/ (\E written \in 0..bytes : AppendRecord(written))
    BY <2>4 DEF OpenFile, WriteClosed, RemoveOldest, Move, ShiftFails, ReopenFails, Close, Killed, AppendRecord
  <2> QED
    BY <2>1, <2>2, <2>3, <2>4 DEF Next
<1> QED
  BY <1>1, <1>2, <1>3, <1>4 DEF StageInv

(***************************************************************************)
(* The order of the records, and which of them are missing.                *)
(***************************************************************************)
OrderInv ==
    \A g, h \in Files : g < h => \A r \in RecordsIn(files[h]), s \in RecordsIn(files[g]) : r < s

RecentInv == \A r, s \in kept : r < s /\ r \in OnDisk => s \in OnDisk

\* The files stay in order, whatever fails.
LEMMA OrderStep ==
    ASSUME TypeOK, StageInv, OrderInv, Next
    PROVE  OrderInv'
<1> SUFFICES ASSUME NEW g \in Files, NEW h \in Files, g < h,
                    NEW r \in RecordsIn(files'[h]), NEW s \in RecordsIn(files'[g])
             PROVE  r < s
  BY DEF OrderInv
<1>0. /\ count \in Nat /\ Keep \in Nat /\ 0 \in Files /\ \A x \in Files : RecordsIn(files[x]) \subseteq 1..count
      /\ g \in Nat /\ h \in Nat
  BY LogTypes DEF Files
<1>1. CASE UNCHANGED files
  BY <1>1 DEF OrderInv
<1>2. CASE \E e \in Files : Empties(e)
  <2>1. \A x \in Files : files'[x] \in {files[x], Empty}
    BY <1>2, FilesAfter
  <2>2. r \in RecordsIn(files[h]) /\ s \in RecordsIn(files[g])
    BY <2>1, EmptyFile
  <2> QED
    BY <2>2 DEF OrderInv
<1>3. CASE Moves /\ gen \in Files /\ gen + 1 \in Files
  <2>1. \A x \in Files : files'[x] = IF x = gen THEN Empty ELSE IF x = gen + 1 THEN files[gen] ELSE files[x]
    BY <1>3, FilesAfter
  <2> DEFINE from(x) == IF x = gen + 1 THEN gen ELSE x
  <2>2. h # gen /\ g # gen
    BY <2>1, EmptyFile
  <2>3. r \in RecordsIn(files[from(h)]) /\ s \in RecordsIn(files[from(g)])
    BY <2>1, <2>2
  <2>4. from(g) < from(h) /\ from(g) \in Files /\ from(h) \in Files
    BY <1>0, <1>3, <2>2 DEF Files
  <2> QED
    BY <2>3, <2>4 DEF OrderInv
<1>4. CASE Appends /\ pc = "append"
  <2>1. count > 0 /\ \A x \in Files : count \notin RecordsIn(files[x])
    BY <1>4 DEF StageInv, Busy
  <2>2. /\ \A x \in Files : x # 0 => files'[x] = files[x]
        /\ RecordsIn(files'[0]) = RecordsIn(files[0]) \cup {count}
    BY <1>4, <2>1, FilesAfter
  <2>3. h # 0 /\ r \in RecordsIn(files[h])
    BY <1>0, <2>2
  <2>4. CASE s \in RecordsIn(files[g])
    BY <2>3, <2>4 DEF OrderInv
  <2>5. CASE s = count
    BY <1>0, <2>1, <2>3, <2>5
  <2> QED
    BY <2>2, <2>4, <2>5
<1> QED
  BY <1>0, <1>1, <1>2, <1>3, <1>4, FileSteps DEF AppendRecord

\* Only the oldest records go missing.
LEMMA RecentStep ==
    ASSUME TypeOK, StageInv, OrderInv, RecentInv, Next
    PROVE  RecentInv'
<1> SUFFICES ASSUME NEW r \in kept', NEW s \in kept', r < s, r \in OnDisk'
             PROVE  \E g \in Files : s \in RecordsIn(files'[g])
  BY DEF RecentInv, OnDisk
<1>0. /\ count \in Nat /\ Keep \in Nat /\ 0 \in Files /\ kept \subseteq 1..count
      /\ \A x \in Files : RecordsIn(files[x]) \subseteq 1..count
      /\ \A x \in Files : x \in Nat /\ x <= Keep
  BY LogTypes DEF Files, TypeOK
<1>1. PICK d \in Files : r \in RecordsIn(files'[d])
  BY DEF OnDisk
<1>2. \A x \in kept, y \in kept : x < y /\ (\E g \in Files : x \in RecordsIn(files[g]))
                                  => \E g \in Files : y \in RecordsIn(files[g])
  BY DEF RecentInv, OnDisk
<1>3. CASE UNCHANGED <<files, kept>>
  BY <1>1, <1>2, <1>3
<1>4. CASE Empties(Keep) /\ Keep \in Files /\ UNCHANGED kept
  <2>1. \A g \in Files : files'[g] = IF g = Keep THEN Empty ELSE files[g]
    BY <1>4, FilesAfter
  <2>2. d # Keep /\ r \in RecordsIn(files[d])
    BY <1>1, <2>1, EmptyFile
  <2>3. PICK g \in Files : s \in RecordsIn(files[g])
    BY <1>2, <1>4, <2>2
  <2>4. ASSUME g = Keep PROVE FALSE
    <3>1. d < g
      BY <1>0, <2>2, <2>4
    <3>2. s < r
      BY <2>2, <2>3, <3>1 DEF OrderInv
    <3>3. r \in Nat /\ s \in Nat
      BY <1>0, <1>4
    <3> QED
      BY <3>2, <3>3
  <2> QED
    BY <2>1, <2>3, <2>4
<1>5. CASE Move /\ Moves /\ gen \in Files /\ gen + 1 \in Files /\ UNCHANGED kept
  <2>1. \A g \in Files : files'[g] = IF g = gen THEN Empty ELSE IF g = gen + 1 THEN files[gen] ELSE files[g]
    BY <1>5, FilesAfter
  <2>2. files[gen + 1] = Empty
    BY <1>5 DEF Move, StageInv
  <2>3. \E g \in Files : r \in RecordsIn(files[g])
    BY <1>1, <1>5, <2>1, EmptyFile
  <2>4. PICK g \in Files : s \in RecordsIn(files[g])
    BY <1>2, <1>5, <2>3
  <2>5. g # gen + 1
    BY <2>2, <2>4, EmptyFile
  <2>6. gen + 1 # gen
    BY <1>0, <1>5
  <2>7. CASE g = gen
    BY <1>5, <2>1, <2>4, <2>6, <2>7
  <2>8. CASE g # gen
    BY <2>1, <2>4, <2>5, <2>8
  <2> QED
    BY <2>7, <2>8
<1>6. CASE Empties(0) /\ kept' = kept \ RecordsIn(files[0])
  <2>1. \A g \in Files : files'[g] = IF g = 0 THEN Empty ELSE files[g]
    BY <1>0, <1>6, FilesAfter
  <2>2. r \in RecordsIn(files[d])
    BY <1>1, <2>1, EmptyFile
  <2>3. PICK g \in Files : s \in RecordsIn(files[g])
    BY <1>2, <1>6, <2>2
  <2> QED
    BY <1>6, <2>1, <2>3
<1>7. CASE Appends /\ pc = "append"
  <2>1. count > 0
    BY <1>7 DEF StageInv, Busy
  <2>2. /\ \A x \in Files : x # 0 => files'[x] = files[x]
        /\ RecordsIn(files'[0]) = RecordsIn(files[0]) \cup {count} /\ kept' = kept \cup {count}
    BY <1>7, <2>1, FilesAfter DEF Appends
  <2>3. CASE s = count
    BY <1>0, <2>2, <2>3
  <2>4. CASE s # count
    <3>1. s \in kept /\ r # count
      <4>1. s \in kept /\ s \in 1..count
        BY <1>0, <2>2, <2>4
      <4> QED
        BY <1>0, <4>1
    <3>2. r \in kept
      BY <2>2, <3>1
    <3>3. r \in RecordsIn(files[d])
      BY <1>1, <2>2, <3>1
    <3>4. PICK g \in Files : s \in RecordsIn(files[g])
      BY <1>2, <3>1, <3>2, <3>3
    <3> QED
      BY <2>2, <3>4
  <2> QED
    BY <2>3, <2>4
<1> QED
  BY <1>3, <1>4, <1>5, <1>6, <1>7, FileSteps DEF AppendRecord

(***************************************************************************)
(* Without faults, a file is rotated only when it holds something, and one *)
(* is discarded only when every rotated file does.                         *)
(***************************************************************************)
\* The file that the rotation has emptied, if any.
Hole == IF pc = "shift" THEN gen + 1 ELSE 0

\* The rotated files that hold something come before those that do not.
Packed ==
    \A g \in (1..Keep) \ {Hole}, h \in 1..Keep : g < h /\ files[h] # Empty => files[g] # Empty

Full == \A g \in (1..Keep) \ {Hole} : files[g] # Empty

FaultlessInv ==
    faults = 0 => /\ handle # "unlinked"
                  /\ pc = "shift" /\ gen >= 0 => files[0] # Empty
                  /\ Packed
                  /\ kept # OnDisk => Full

LEMMA FaultlessStep ==
    ASSUME TypeOK, StageInv, FaultlessInv, Next
    PROVE  FaultlessInv'
<1>0. /\ count \in Nat /\ Keep \in Nat /\ 0 \in Files /\ gen \in -1..Keep /\ faults \in Nat
      /\ \A g : g \in 1..Keep => g \in Files /\ g \in Nat /\ g # 0
      /\ files[0].bytes \in Nat /\ (files[0] # Empty <=> files[0].bytes > 0)
  BY LogTypes, LogAssumption DEF TypeOK, Files
<1>1. SUFFICES ASSUME faults' = 0
               PROVE  /\ handle' # "unlinked"
                      /\ pc' = "shift" /\ gen' >= 0 => files'[0] # Empty
                      /\ Packed' /\ (kept' # OnDisk' => Full')
  BY DEF FaultlessInv
<1>2. faults = 0 /\ ~ShiftFails /\ ~ReopenFails /\ ~Killed /\ ~DeleteLive
  <2>1. ~Fault
    BY <1>0, <1>1 DEF Fault
  <2>2. ~ShiftFails /\ ~ReopenFails /\ ~Killed /\ ~DeleteLive
    BY <2>1 DEF ShiftFails, ReopenFails, Killed, DeleteLive
  <2>3. CASE \E written \in 0..bytes : AppendRecord(written)
    <3>1. PICK written \in 0..bytes : AppendRecord(written)
      BY <2>3
    <3>2. bytes \in Nat
      BY LogAssumption DEF TypeOK
    <3>3. written = bytes
      BY <2>1, <3>1, <3>2 DEF AppendRecord
    <3> QED
      BY <1>1, <2>2, <3>1, <3>3 DEF AppendRecord
  <2>4. CASE OpenFile \/ (\E b \in RecordSizes : Write(b)) \/ WriteClosed \/ RemoveOldest \/ Move \/ Reopen \/ Close
    BY <1>1, <2>2, <2>4 DEF OpenFile, Write, WriteClosed, RemoveOldest, Move, Reopen, Close
  <2> QED
    BY <2>2, <2>3, <2>4 DEF Next
<1>3. /\ handle # "unlinked" /\ (pc = "shift" /\ gen >= 0 => files[0] # Empty)
      /\ Packed /\ (kept # OnDisk => Full)
  BY <1>2 DEF FaultlessInv
<1>4. CASE UNCHANGED <<files, kept>> /\ pc # "shift" /\ pc' # "shift" /\ handle' # "unlinked"
  <2>1. Hole' = Hole
    BY <1>4 DEF Hole
  <2>2. Packed' /\ (Full => Full') /\ OnDisk' = OnDisk
    BY <1>3, <1>4, <2>1 DEF Packed, Full, OnDisk
  <2> QED
    BY <1>3, <1>4, <2>2
<1>5. CASE \E b \in RecordSizes : Write(b)
  <2>1. PICK b \in RecordSizes : Write(b)
    BY <1>5
  <2>2. CASE pc' = "append"
    BY <1>3, <1>4, <2>1, <2>2 DEF Write
  <2>3. CASE pc' # "append"
    <3>1. pc' = "shift" /\ gen' = Keep /\ handle = "live" /\ handle' = "none" /\ UNCHANGED <<files, kept>>
          /\ size > 0 /\ pc = "idle"
      BY <1>3, <2>1, <2>3 DEF Write, NeedsRotation, TypeOK
    <3>2. files[0] # Empty
      BY <1>0, <3>1 DEF TypeOK
    <3>3. Hole = 0 /\ Hole' = Keep + 1
      BY <3>1 DEF Hole
    <3>4. (1..Keep) \ {Hole} = 1..Keep /\ (1..Keep) \ {Hole'} = 1..Keep
      BY <1>0, <3>3
    <3>5. Packed' /\ (Full => Full') /\ OnDisk' = OnDisk
      BY <1>3, <3>1, <3>4 DEF Packed, Full, OnDisk
    <3> QED
      BY <1>3, <3>1, <3>2, <3>5
  <2> QED
    BY <2>2, <2>3
<1>6. CASE RemoveOldest
  <2>1. /\ pc = "shift" /\ pc' = "shift" /\ gen = Keep /\ gen' = Keep - 1 /\ kept' = kept /\ handle' = handle
        /\ Empties(Keep) /\ Keep \in Files
    BY <1>0, <1>6 DEF RemoveOldest, FirstGeneration, Empties, Files
  <2>2. \A g \in Files : files'[g] = IF g = Keep THEN Empty ELSE files[g]
    BY <2>1, FilesAfter
  <2>3. Hole = Keep + 1 /\ Hole' = Keep
    BY <1>0, <2>1 DEF Hole
  <2>4. (1..Keep) \ {Hole} = 1..Keep
    BY <1>0, <2>3
  <2>5. gen' >= 0 => files'[0] # Empty
    BY <1>0, <1>3, <2>1, <2>2
  <2>6. Packed'
    <3> SUFFICES ASSUME NEW g \in (1..Keep) \ {Keep}, NEW h \in 1..Keep, g < h, files'[h] # Empty
                 PROVE  files'[g] # Empty
      BY <2>3 DEF Packed
    <3> QED
      BY <1>0, <1>3, <2>2, <2>4 DEF Packed
  <2>7. ASSUME kept' # OnDisk' PROVE Full'
    <3>1. CASE files[Keep] = Empty
      <4>1. \A g \in Files : files'[g] = files[g]
        BY <2>2, <3>1
      <4>2. OnDisk' = OnDisk
        BY <4>1 DEF OnDisk
      <4>3. Full
        BY <1>3, <2>1, <2>7, <4>2
      <4> QED
        BY <1>0, <2>3, <2>4, <4>1, <4>3 DEF Full
    <3>2. CASE files[Keep] # Empty
      <4> SUFFICES ASSUME NEW g \in (1..Keep) \ {Keep} PROVE files'[g] # Empty
        BY <2>3 DEF Full
      <4>1. g < Keep /\ Keep \in 1..Keep
        BY <1>0
      <4>2. files[g] # Empty
        BY <1>3, <2>4, <3>2, <4>1 DEF Packed
      <4> QED
        BY <1>0, <2>2, <4>2
    <3> QED
      BY <3>1, <3>2
  <2> QED
    BY <1>3, <2>1, <2>5, <2>6, <2>7
<1>7. CASE Move
  <2>1. /\ pc = "shift" /\ pc' = "shift" /\ gen \in 0..(Keep - 1) /\ gen' = gen - 1 /\ kept' = kept /\ handle' = handle
        /\ Moves /\ gen \in Files /\ gen + 1 \in Files /\ gen \in Nat
    BY <1>0, <1>7 DEF Move, Moves, Files
  <2>2. \A g \in Files : files'[g] = IF g = gen THEN Empty ELSE IF g = gen + 1 THEN files[gen] ELSE files[g]
    BY <2>1, FilesAfter
  <2>3. Hole = gen + 1 /\ Hole' = gen
    BY <2>1 DEF Hole
  <2>4. files[gen + 1] = Empty /\ files[0] # Empty
    BY <1>3, <2>1 DEF StageInv
  <2>5. gen' >= 0 => files'[0] # Empty
    <3>1. gen' >= 0 => 0 # gen /\ 0 # gen + 1
      BY <2>1
    <3> QED
      BY <1>0, <2>2, <2>4, <3>1
  <2>6. Packed'
    <3> SUFFICES ASSUME NEW g \in (1..Keep) \ {gen}, NEW h \in 1..Keep, g < h, files'[h] # Empty
                 PROVE  files'[g] # Empty
      BY <2>3 DEF Packed
    <3>1. h # gen /\ g \in Files /\ h \in Files
      BY <1>0, <2>2
    <3>2. CASE g = gen + 1
      <4>1. files'[g] = files[gen] /\ files'[h] = files[h] /\ gen < h
        BY <2>1, <2>2, <3>1, <3>2
      <4>2. CASE gen = 0
        BY <2>4, <4>1, <4>2
      <4>3. CASE gen # 0
        <5>1. gen \in (1..Keep) \ {Hole}
          BY <1>0, <2>1, <2>3, <4>3
        <5> QED
          BY <1>3, <4>1, <5>1 DEF Packed
      <4> QED
        BY <4>2, <4>3
    <3>3. CASE g # gen + 1
      <4>1. files'[g] = files[g] /\ g \in (1..Keep) \ {Hole}
        BY <2>2, <2>3, <3>1, <3>3
      <4>2. CASE h = gen + 1
        <5>1. gen \in 1..Keep /\ g < gen /\ files[gen] # Empty
          <6>1. files[gen] # Empty
            BY <2>2, <3>1, <4>2
          <6> QED
            BY <1>0, <2>1, <4>2, <6>1
        <5> QED
          BY <1>3, <4>1, <5>1 DEF Packed
      <4>3. CASE h # gen + 1
        <5>1. files[h] # Empty
          BY <2>2, <3>1, <4>3
        <5> QED
          BY <1>3, <4>1, <5>1 DEF Packed
      <4> QED
        BY <4>2, <4>3
    <3> QED
      BY <3>2, <3>3
  <2>7. OnDisk' = OnDisk
    <3>1. \A r : (\E g \in Files : r \in RecordsIn(files'[g])) => \E g \in Files : r \in RecordsIn(files[g])
      BY <2>1, <2>2, EmptyFile
    <3>2. ASSUME NEW g \in Files, NEW r \in RecordsIn(files[g]) PROVE \E h \in Files : r \in RecordsIn(files'[h])
      <4>1. g # gen + 1
        BY <2>4, EmptyFile
      <4>2. CASE g = gen
        <5>1. files'[gen + 1] = files[gen]
          BY <2>1, <2>2
        <5> QED
          BY <2>1, <4>2, <5>1
      <4>3. CASE g # gen
        BY <2>2, <4>1, <4>3
      <4> QED
        BY <4>2, <4>3
    <3> QED
      BY <3>1, <3>2 DEF OnDisk
  <2>8. ASSUME kept' # OnDisk' PROVE Full'
    <3>1. Full
      BY <1>3, <2>1, <2>7, <2>8
    <3> SUFFICES ASSUME NEW g \in (1..Keep) \ {gen} PROVE files'[g] # Empty
      BY <2>3 DEF Full
    <3>2. CASE g = gen + 1
      <4>1. files'[g] = files[gen]
        BY <1>0, <2>1, <2>2, <3>2
      <4>2. gen = 0 \/ gen \in (1..Keep) \ {Hole}
        BY <1>0, <2>1, <2>3
      <4> QED
        BY <2>4, <3>1, <4>1, <4>2 DEF Full
    <3>3. CASE g # gen + 1
      BY <1>0, <2>2, <2>3, <3>1, <3>3 DEF Full
    <3> QED
      BY <3>2, <3>3
  <2> QED
    BY <1>3, <2>1, <2>5, <2>6, <2>8
<1>8. CASE Reopen
  <2>1. pc' = "append" /\ gen = -1 /\ pc = "shift" /\ UNCHANGED <<files, kept>> /\ handle' = "live"
    BY <1>0, <1>8 DEF Reopen
  <2>2. Hole = 0 /\ Hole' = 0
    BY <2>1 DEF Hole
  <2>3. Packed' /\ (Full => Full') /\ OnDisk' = OnDisk
    BY <1>3, <2>1, <2>2 DEF Packed, Full, OnDisk
  <2> QED
    BY <1>3, <2>1, <2>3
<1>9. CASE OpenFile \/ WriteClosed \/ Close
  BY <1>3, <1>4, <1>9 DEF OpenFile, WriteClosed, Close
<1>10. CASE \E written \in 0..bytes : AppendRecord(written)
  <2>1. pc = "append" /\ pc' = "idle" /\ handle' = handle
    BY <1>10 DEF AppendRecord
  <2>2. CASE UNCHANGED <<files, kept>>
    BY <1>3, <1>4, <2>1, <2>2
  <2>3. CASE Appends
    <3>1. count > 0 /\ kept' = kept \cup {count}
      BY <2>1, <2>3 DEF StageInv, Busy, Appends
    <3>2. /\ \A x \in Files : x # 0 => files'[x] = files[x]
          /\ RecordsIn(files'[0]) = RecordsIn(files[0]) \cup {count}
      BY <2>3, <3>1, FilesAfter
    <3>3. OnDisk' = OnDisk \cup {count}
      <4>1. \A r : (\E g \in Files : r \in RecordsIn(files'[g])) <=> (\E g \in Files : r \in RecordsIn(files[g])) \/ r = count
        BY <1>0, <3>2
      <4> QED
        BY <4>1 DEF OnDisk
    <3>4. Hole = 0 /\ Hole' = 0
      BY <2>1 DEF Hole
    <3>5. \A g \in 1..Keep : files'[g] = files[g]
      BY <1>0, <3>2
    <3>6. Packed' /\ (Full => Full')
      BY <1>3, <3>4, <3>5 DEF Packed, Full
    <3>7. kept' # OnDisk' => kept # OnDisk
      BY <3>1, <3>3
    <3> QED
      BY <1>3, <2>1, <3>6, <3>7
  <2>4. UNCHANGED <<files, kept>> \/ Appends
    BY <1>10, <2>1, FileSteps DEF RemoveOldest, Move, DeleteLive
  <2> QED
    BY <2>2, <2>3, <2>4
<1> QED
  BY <1>2, <1>5, <1>6, <1>7, <1>8, <1>9, <1>10 DEF Next

\* A record goes past the limit after others only with a failure to report.
LEMMA LimitStep ==
    ASSUME TypeOK, StageInv, PastLimitIsReported, Next
    PROVE  PastLimitIsReported'
<1>0. /\ count \in Nat /\ Keep \in Nat /\ 0 \in Files /\ MaxBytes \in Nat /\ size \in Nat /\ bytes \in Nat
      /\ files[0].bytes \in Nat /\ (files[0] # Empty <=> files[0].bytes > 0)
      /\ handle = "live" => size = files[0].bytes
      /\ Empty.records = <<>> /\ Len(Empty.records) = 0
  BY LogTypes, LogAssumption, EmptyFile DEF TypeOK
<1>1. reported \subseteq reported'
  BY DEF Next, OpenFile, Write, WriteClosed, RemoveOldest, Move, ShiftFails, Reopen, ReopenFails,
     AppendRecord, Close, Killed, DeleteLive
<1>2. CASE \A g \in Files : files'[g] = Empty \/ \E h \in Files : files'[g] = files[h]
  <2> SUFFICES ASSUME NEW g \in Files, files'[g].bytes > MaxBytes, Len(files'[g].records) > 1
               PROVE  Last(files'[g].records) \in reported'
    BY DEF PastLimitIsReported
  <2>1. files'[g] # Empty
    BY <1>0
  <2>2. PICK h \in Files : files'[g] = files[h]
    BY <1>2, <2>1
  <2> QED
    BY <1>1, <2>2 DEF PastLimitIsReported
<1>3. CASE Appends /\ \E written \in 0..bytes : AppendRecord(written)
  <2>1. pc = "append" /\ handle = "live" /\ count > 0
    BY <1>3 DEF AppendRecord, Appends, StageInv, Busy
  <2>2. /\ \A x \in Files : x # 0 => files'[x] = files[x]
        /\ Last(files'[0].records) = count /\ Len(files'[0].records) = Len(files[0].records) + 1
        /\ files'[0].bytes <= files[0].bytes + bytes
    BY <1>3, <2>1, FilesAfter
  <2>3. ASSUME files'[0].bytes > MaxBytes, Len(files'[0].records) > 1
        PROVE  count \in reported'
    <3>1. files[0] # Empty
      BY <1>0, <2>2, <2>3
    <3>2. size > 0 /\ size = files[0].bytes
      BY <1>0, <2>1, <3>1
    <3>3. files'[0].bytes \in Nat
      BY <1>0, SoundStep, FileRecords DEF Sound, LogFiles
    <3>4. ~(size + bytes <= MaxBytes)
      BY <1>0, <2>2, <2>3, <3>2, <3>3
    <3>5. rotateErr = TRUE
      BY <1>0, <2>1, <3>2, <3>4 DEF StageInv
    <3> QED
      BY <1>3, <3>5 DEF AppendRecord
  <2> SUFFICES ASSUME NEW g \in Files, files'[g].bytes > MaxBytes, Len(files'[g].records) > 1
               PROVE  Last(files'[g].records) \in reported'
    BY DEF PastLimitIsReported
  <2>4. CASE g = 0
    BY <2>2, <2>3, <2>4
  <2>5. CASE g # 0
    BY <1>1, <2>2, <2>5 DEF PastLimitIsReported
  <2> QED
    BY <2>4, <2>5
<1>4. CASE UNCHANGED files
  BY <1>2, <1>4
<1>5. CASE \E e \in Files : Empties(e)
  BY <1>2, <1>5, FilesAfter
<1>6. CASE Moves /\ gen \in Files /\ gen + 1 \in Files
  BY <1>2, <1>6, FilesAfter
<1> QED
  BY <1>0, <1>3, <1>4, <1>5, <1>6, FileSteps

(***************************************************************************)
(* The theorems.                                                           *)
(***************************************************************************)
LogInv == TypeOK /\ StageInv /\ OrderInv /\ RecentInv /\ FaultlessInv /\ PastLimitIsReported

LEMMA LogInvariant == Spec => []LogInv
<1>1. Init => LogInv
  <2> SUFFICES ASSUME Init PROVE LogInv
    OBVIOUS
  <2>0. /\ files = [g \in Files |-> Empty] /\ handle = "none" /\ size = 0 /\ pc = "down" /\ gen = -1 /\ bytes = 0
        /\ rotateErr = FALSE /\ count = 0 /\ reported = {} /\ kept = {} /\ faults = 0
    BY DEF Init
  <2>1. /\ \A g \in Files : files[g] = Empty /\ files[g].bytes = 0 /\ files[g].records = <<>>
                             /\ RecordsIn(files[g]) = {}
        /\ Len(<<>>) = 0
    BY <2>0, EmptyFile
  <2>2. files \in [Files -> [records : Seq(1..count), bytes : Nat]]
    BY <2>0 DEF Empty
  <2>3. TypeOK
    <3>1. size \in Nat /\ gen \in -1..Keep /\ count \in 0..MaxRecords /\ faults \in 0..MaxFaults
      BY <2>0, LogAssumption
    <3>2. rotateErr \in BOOLEAN
      BY <2>0, Zenon
    <3>3. \A g \in Files : files[g].bytes = 0 <=> files[g].records = <<>>
      BY <2>1
    <3>4. /\ handle \in {"none", "live", "unlinked"} /\ pc \in {"down", "idle", "append", "shift"}
          /\ bytes \in RecordSizes \cup {0} /\ reported \subseteq 1..count /\ kept \subseteq 1..count
      BY <2>0
    <3>5. handle # "live" /\ pc # "append"
      BY <2>0
    <3> QED
      BY <2>2, <3>1, <3>2, <3>3, <3>4, <3>5 DEF TypeOK
  <2>4. StageInv /\ OrderInv
    BY <2>0, <2>1 DEF StageInv, Busy, OrderInv
  <2>5. OnDisk = {}
    BY <2>1 DEF OnDisk
  <2>6. RecentInv
    BY <2>0 DEF RecentInv
  <2>7. Packed
    <3>1. \A h \in 1..Keep : h \in Files
      BY LogAssumption DEF Files
    <3> QED
      BY <2>1, <3>1 DEF Packed
  <2>8. FaultlessInv
    BY <2>0, <2>5, <2>7 DEF FaultlessInv
  <2>9. PastLimitIsReported
    BY <2>1 DEF PastLimitIsReported
  <2> QED
    BY <2>3, <2>4, <2>6, <2>8, <2>9 DEF LogInv
<1>2. LogInv /\ [Next]_vars => LogInv'
  <2> SUFFICES ASSUME LogInv, [Next]_vars PROVE LogInv'
    OBVIOUS
  <2>1. CASE Next
    BY <2>1, TypeStep, StageStep, OrderStep, RecentStep, FaultlessStep, LimitStep DEF LogInv
  <2>2. CASE UNCHANGED vars
    <3> USE <2>2 DEF vars, LogInv
    <3>1. TypeOK'
      BY DEF TypeOK
    <3>2. StageInv'
      BY DEF StageInv, Busy
    <3>3. OrderInv' /\ PastLimitIsReported'
      BY DEF OrderInv, PastLimitIsReported
    <3>4. RecentInv'
      BY DEF RecentInv, OnDisk
    <3>5. FaultlessInv'
      BY DEF FaultlessInv, Packed, Full, Hole, OnDisk
    <3> QED
      BY <3>1, <3>2, <3>3, <3>4, <3>5
  <2> QED
    BY <2>1, <2>2
<1> QED
  BY <1>1, <1>2, PTL DEF Spec

\* The types, and that File.size is what the live file holds whenever the handle
\* is the live file's: after OpenFile, a rotation, a failed one and a short write.
THEOREM LogTypesHold == Spec => []TypeOK
<1>1. LogInv => TypeOK
  BY DEF LogInv
<1> QED
  BY <1>1, LogInvariant, PTL

\* The files read in order and lack only the oldest records, whatever step of a
\* rotation fails and wherever the process is killed; and without a fault none
\* is discarded before keep rotated files hold something (shift).
THEOREM HistoryStaysRecent == Spec => []HistoryIsRecent
<1>1. LogInv => HistoryIsRecent
  <2> SUFFICES ASSUME LogInv PROVE HistoryIsRecent
    OBVIOUS
  <2>1. ASSUME faults = 0, pc = "idle", kept # OnDisk PROVE \A g \in 1..Keep : files[g] # Empty
    <3>1. Full /\ Hole = 0
      BY <2>1 DEF LogInv, FaultlessInv, Hole
    <3>2. \A g \in 1..Keep : g # 0
      BY LogAssumption
    <3> QED
      BY <3>1, <3>2 DEF Full
  <2> QED
    BY <2>1 DEF LogInv, OrderInv, RecentInv, HistoryIsRecent
<1> QED
  BY <1>1, LogInvariant, PTL

\* A file past the limit has one record, or ends with one whose Write reported
\* that the rotation failed or the record was cut short (Write).
THEOREM LimitIsKeptOrReported == Spec => []PastLimitIsReported
<1>1. LogInv => PastLimitIsReported
  BY DEF LogInv
<1> QED
  BY <1>1, LogInvariant, PTL

=============================================================================
