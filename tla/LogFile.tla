------------------------------ MODULE LogFile ------------------------------
(***************************************************************************)
(* The log file (logging.File): records appended to a live file that is    *)
(* rotated by size, with any step of a rotation failing, the agent killed  *)
(* between two of them and started again, and an operator who deletes the  *)
(* live file.                                                              *)
(*                                                                         *)
(* File 0 is the live file and file g is path.g.  A file that does not     *)
(* exist holds nothing: os.IsNotExist is no failure, and an empty file is  *)
(* never rotated.  Everything is under File.mu, so that Write, Close and   *)
(* OpenFile meet only failures, the operator and the end of the process.   *)
(***************************************************************************)
EXTENDS Integers, Sequences, SequencesExt

CONSTANTS
    Keep,         \* File.keep
    MaxBytes,     \* File.maxBytes
    RecordSizes,  \* the sizes of records
    MaxRecords,   \* BOUND: records written in a behaviour
    MaxFaults     \* BOUND: failures, kills and deletions in a behaviour

\* OpenFile refuses a limit below 1 MB and a negative keep; a record ends its line.
ASSUME LogAssumption ==
    /\ Keep \in Nat /\ MaxBytes \in Nat \ {0} /\ RecordSizes \subseteq Nat \ {0}
    /\ MaxRecords \in Nat /\ MaxFaults \in Nat

VARIABLES
    files,      \* what each file holds: its records, oldest first, and its size
    handle,     \* File.file: none, the live file, or one that was unlinked
    size,       \* File.size
    pc, gen,    \* where Write and rotate are, and the file shift is at
    bytes,      \* the size of the record that Write was given
    rotateErr,  \* Write's rotateErr is not nil
    count,      \* how many records Write was given; the latest is number count
    reported,   \* history: the records for which Write returned an error
    kept,       \* history: the records put into a file, and not deleted with it
    faults

vars == <<files, handle, size, pc, gen, bytes, rotateErr, count, reported, kept, faults>>

Files == 0..Keep
Empty == [records |-> <<>>, bytes |-> 0]
RecordsIn(f) == ToSet(f.records)
OnDisk == UNION {RecordsIn(files[g]) : g \in Files}

Init ==
    /\ files = [g \in Files |-> Empty] /\ handle = "none" /\ size = 0
    /\ pc = "down" /\ gen = -1 /\ bytes = 0 /\ rotateErr = FALSE
    /\ count = 0 /\ reported = {} /\ kept = {} /\ faults = 0

Fault == faults < MaxFaults /\ faults' = faults + 1

-----------------------------------------------------------------------------
\* BUG: the size of what the live file holds is not looked at.
OpenedEmpty == 0
\* open's Stat.
OpenedSize == files[0].bytes

\* The agent starts: OpenFile appends to what the live file holds.
OpenFile ==
    /\ pc = "down"
    /\ pc' = "idle" /\ handle' = "live" /\ size' = OpenedSize
    /\ UNCHANGED <<files, gen, bytes, rotateErr, count, reported, kept, faults>>

\* BUG: the limit is looked at without the record.
IsPastLimit(b) == size > MaxBytes
\* Write's test: the record would take a file that is not empty past the limit.
NeedsRotation(b) == size > 0 /\ size + b > MaxBytes

\* Write begins; a rotation begins by closing the file.
Write(b) ==
    /\ pc = "idle" /\ handle # "none" /\ count < MaxRecords
    /\ count' = count + 1 /\ bytes' = b /\ rotateErr' = FALSE
    /\ \/ ~NeedsRotation(b) /\ pc' = "append" /\ UNCHANGED <<gen, handle>>
       \/ NeedsRotation(b) /\ pc' = "shift" /\ gen' = Keep /\ handle' = "none"
    /\ UNCHANGED <<files, size, reported, kept, faults>>

\* Write on a file that a failed rotation could not open again.
WriteClosed ==
    /\ pc = "idle" /\ handle = "none" /\ count < MaxRecords
    /\ count' = count + 1 /\ reported' = reported \cup {count + 1}
    /\ UNCHANGED <<files, handle, size, pc, gen, bytes, rotateErr, kept, faults>>

FirstGeneration == Keep - 1

\* shift removes the oldest file; with nothing to keep, that is the live one.
RemoveOldest ==
    /\ pc = "shift" /\ gen = Keep
    /\ files' = [files EXCEPT ![Keep] = Empty]
    /\ gen' = FirstGeneration
    /\ UNCHANGED <<handle, size, pc, bytes, rotateErr, count, reported, kept, faults>>

\* shift renames one file, the live one last; rename(2) replaces what it finds.
Move ==
    /\ pc = "shift" /\ gen \in 0..(Keep - 1)
    /\ files' = [files EXCEPT ![gen + 1] = files[gen], ![gen] = Empty]
    /\ gen' = gen - 1
    /\ UNCHANGED <<handle, size, pc, bytes, rotateErr, count, reported, kept, faults>>

\* BUG: shift goes on with the next file.
GoesOn == gen - 1
\* shift returns: no generation is left to move.
GivesUp == -1

\* A remove or a rename fails.
ShiftFails ==
    /\ pc = "shift" /\ gen >= 0 /\ Fault
    /\ rotateErr' = TRUE /\ gen' = GivesUp
    /\ UNCHANGED <<files, handle, size, pc, bytes, count, reported, kept>>

\* rotate opens the live path, whatever came of the shift.
Reopen ==
    /\ pc = "shift" /\ gen < 0
    /\ pc' = "append" /\ handle' = "live" /\ size' = OpenedSize
    /\ UNCHANGED <<files, gen, bytes, rotateErr, count, reported, kept, faults>>

\* It cannot, and Write returns with no file open.
ReopenFails ==
    /\ pc = "shift" /\ gen < 0 /\ Fault
    /\ pc' = "idle" /\ reported' = reported \cup {count}
    /\ UNCHANGED <<files, handle, size, gen, bytes, rotateErr, count, kept>>

\* The record is written, or with a failure a part of it or nothing.
AppendRecord(written) ==
    /\ pc = "append" /\ written \in 0..bytes
    /\ written < bytes => Fault
    /\ written = bytes => UNCHANGED faults
    /\ pc' = "idle" /\ size' = size + written
    /\ IF handle = "live" /\ written > 0
       THEN /\ files' = [files EXCEPT ![0] = [records |-> Append(@.records, count),
                                               bytes |-> @.bytes + written]]
            /\ kept' = kept \cup {count}
       ELSE UNCHANGED <<files, kept>>
    /\ reported' = IF rotateErr \/ written < bytes THEN reported \cup {count} ELSE reported
    /\ UNCHANGED <<handle, gen, bytes, rotateErr, count>>

\* Close, at the end of the agent.
Close ==
    /\ pc = "idle"
    /\ pc' = "down" /\ handle' = "none"
    /\ UNCHANGED <<files, size, gen, bytes, rotateErr, count, reported, kept, faults>>

\* The process is killed, in a rotation or not.
Killed ==
    /\ pc # "down" /\ Fault
    /\ pc' = "down" /\ handle' = "none"
    /\ UNCHANGED <<files, size, gen, bytes, rotateErr, count, reported, kept>>

\* An operator deletes the live file to free space.
DeleteLive ==
    /\ files[0] # Empty /\ Fault
    /\ files' = [files EXCEPT ![0] = Empty]
    /\ kept' = kept \ RecordsIn(files[0])
    /\ handle' = IF handle = "live" THEN "unlinked" ELSE handle
    /\ UNCHANGED <<size, pc, gen, bytes, rotateErr, count, reported>>

Next ==
    \/ OpenFile \/ (\E b \in RecordSizes : Write(b)) \/ WriteClosed
    \/ RemoveOldest \/ Move \/ ShiftFails \/ Reopen \/ ReopenFails
    \/ (\E written \in 0..bytes : AppendRecord(written))
    \/ Close \/ Killed \/ DeleteLive

Spec == Init /\ [][Next]_vars

-----------------------------------------------------------------------------
(* Properties.                                                             *)

\* Types, and that size is what the live file holds (open, Write).
TypeOK ==
    /\ files \in [Files -> [records : Seq(1..count), bytes : Nat]]
    /\ \A g \in Files : files[g].bytes = 0 <=> files[g].records = <<>>
    /\ handle \in {"none", "live", "unlinked"} /\ size \in Nat
    /\ handle = "live" => size = files[0].bytes
    /\ pc \in {"down", "idle", "append", "shift"} /\ gen \in -1..Keep
    /\ pc = "append" => handle # "none"
    /\ bytes \in RecordSizes \cup {0} /\ rotateErr \in BOOLEAN
    /\ count \in 0..MaxRecords /\ reported \subseteq 1..count /\ kept \subseteq 1..count
    /\ faults \in 0..MaxFaults

\* The files read in order, oldest last, and lack only the oldest records: none is
\* overwritten by a rename, whatever failed and wherever the agent was killed.
\* While nothing fails, none is discarded before keep rotated files are full
\* ("keep is how many rotated files are retained").
HistoryIsRecent ==
    /\ \A g, h \in Files : g < h =>
          \A r \in RecordsIn(files[h]), s \in RecordsIn(files[g]) : r < s
    /\ \A r, s \in kept : r < s /\ r \in OnDisk => s \in OnDisk
    /\ faults = 0 /\ pc = "idle" /\ kept # OnDisk => \A g \in 1..Keep : files[g] # Empty

\* "A record larger than the limit is still written whole, into a file of its own",
\* and a record that goes past the limit after others does so because a rotation
\* failed, "and the failure is returned so that it is reported".
PastLimitIsReported ==
    \A g \in Files : files[g].bytes > MaxBytes /\ Len(files[g].records) > 1
        => Last(files[g].records) \in reported

=============================================================================
