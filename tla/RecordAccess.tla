---------------------------- MODULE RecordAccess ----------------------------
(***************************************************************************)
(* The record file of run3/RecordAccess.cpp (nearly the same program is    *)
(* run7/ObAccess.cpp). A record is in use when its reference count is not  *)
(* zero; the header counts the records in use. A record and the header are *)
(* written one after the other, and the program may be killed in between.  *)
(* The file is opened without sharing, so one process has it at a time.    *)
(*                                                                         *)
(* The data and the times of a record are left out, and so is a crash      *)
(* while the file is created.                                              *)
(***************************************************************************)
EXTENDS Integers, FiniteSets

CONSTANTS
  Capacities,  \* numbers of records that a file is created with
  Wrap,        \* number of values of a DWORD, 2^32
  MaxTorn,     \* bound on the crashes between the two writes
  MaxWrapped   \* bound on the reference counts that wrap around

VARIABLES
  disk,      \* the header and the reference counts in the file
  header,    \* numNonEmptyRecords in the header of the process
  record,    \* the record to write: its number and reference count
  accessAt,  \* where the process is, "closed" without one
  headerChange,
  torn,      \* history: crashes between the two writes
  wrapped    \* history: reference counts that wrapped around

raVars == <<disk, header, record, accessAt, headerChange, torn, wrapped>>

DWord == 0 .. Wrap - 1

TypeOK ==
  /\ disk.numberRecords \in Capacities /\ disk.numNonEmptyRecords \in DWord
  /\ disk.referenceCount \in [0 .. disk.numberRecords - 1 -> DWord]
  /\ header \in DWord
  /\ record \in [recno : Nat, referenceCount : DWord]
  /\ accessAt \in {"closed", "prompt", "record", "header"}
  /\ headerChange \in BOOLEAN
  /\ torn \in 0 .. MaxTorn /\ wrapped \in 0 .. MaxWrapped

Empty(n) == [numberRecords |-> n, numNonEmptyRecords |-> 0,
             referenceCount |-> [recno \in 0 .. n - 1 |-> 0]]

Init ==
  /\ \E n \in Capacities : disk = Empty(n)
  /\ header = 0 /\ record = [recno |-> 0, referenceCount |-> 0]
  /\ accessAt = "closed" /\ headerChange = FALSE
  /\ torn = 0 /\ wrapped = 0

(* Lines 36 and 42 to 50. *)
Create ==
  /\ accessAt = "closed"
  /\ \E n \in Capacities : disk' = Empty(n)
  /\ torn' = 0 /\ wrapped' = 0
  /\ UNCHANGED <<header, record, accessAt, headerChange>>

(* Lines 36 to 42 and 52. *)
Open ==
  /\ accessAt = "closed"
  /\ header' = disk.numNonEmptyRecords
  /\ accessAt' = "prompt"
  /\ UNCHANGED <<disk, record, headerChange, torn, wrapped>>

(* Lines 62 to 84; to read a record changes nothing, nor does a command    *)
(* for an empty record.                                                    *)
Delete(recno) ==
  /\ accessAt = "prompt"
  /\ disk.referenceCount[recno] # 0
  /\ record' = [recno |-> recno, referenceCount |-> 0]
  /\ header' = (header - 1) % Wrap
  /\ headerChange' = TRUE
  /\ accessAt' = "record"
  /\ UNCHANGED <<disk, torn, wrapped>>

(* Lines 62 to 68 and 86 to 101. *)
Write(recno) ==
  LET count == disk.referenceCount[recno] IN
  /\ accessAt = "prompt"
  /\ record' = [recno |-> recno, referenceCount |-> (count + 1) % Wrap]
  /\ header' = IF count = 0 THEN (header + 1) % Wrap ELSE header
  /\ headerChange' = (count = 0)
  /\ wrapped' = wrapped + (IF count = Wrap - 1 THEN 1 ELSE 0)
  /\ wrapped' <= MaxWrapped
  /\ accessAt' = "record"
  /\ UNCHANGED <<disk, torn>>

(* A bug of that kind: the header is written only on some changes. *)
WriteRecordOnly ==
  /\ accessAt = "record"
  /\ disk' = [disk EXCEPT !.referenceCount[record.recno] = record.referenceCount]
  /\ accessAt' = IF headerChange /\ record.referenceCount # 0 THEN "header" ELSE "prompt"
  /\ UNCHANGED <<header, record, headerChange, torn, wrapped>>

(* Lines 105 and 106. *)
WriteRecord ==
  /\ accessAt = "record"
  /\ disk' = [disk EXCEPT !.referenceCount[record.recno] = record.referenceCount]
  /\ accessAt' = IF headerChange THEN "header" ELSE "prompt"
  /\ UNCHANGED <<header, record, headerChange, torn, wrapped>>

(* Lines 107 and 108. *)
WriteHeader ==
  /\ accessAt = "header"
  /\ disk' = [disk EXCEPT !.numNonEmptyRecords = header]
  /\ accessAt' = "prompt"
  /\ UNCHANGED <<header, record, headerChange, torn, wrapped>>

(* Lines 57 and 111 to 115. *)
Quit ==
  /\ accessAt = "prompt"
  /\ accessAt' = "closed"
  /\ UNCHANGED <<disk, header, record, headerChange, torn, wrapped>>

Crash ==
  /\ accessAt \in {"record", "header"}
  /\ torn' = torn + (IF accessAt = "header" THEN 1 ELSE 0)
  /\ torn' <= MaxTorn
  /\ accessAt' = "closed"
  /\ UNCHANGED <<disk, header, record, headerChange, wrapped>>

Next ==
  \/ Create \/ Open \/ WriteRecord \/ WriteHeader \/ Quit \/ Crash
  \/ \E recno \in DOMAIN disk.referenceCount : Delete(recno) \/ Write(recno)

Spec == Init /\ [][Next]_raVars

-----------------------------------------------------------------------------
InUse == Cardinality({recno \in DOMAIN disk.referenceCount : disk.referenceCount[recno] # 0})

(* The header is off by no more than one for each crash between the writes *)
(* and one up for each count that wrapped around to zero.                  *)
CountAfterCrash ==
  accessAt \in {"closed", "prompt"} =>
    \E d \in -torn .. torn + wrapped : disk.numNonEmptyRecords = (InUse + d) % Wrap
=============================================================================
