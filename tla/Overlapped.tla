----------------------------- MODULE Overlapped -----------------------------
(***************************************************************************)
(* The asynchronous copies run14/cciOV.cpp and run14/cciEX.cpp. A slot     *)
(* reads a record, adds shift to its bytes and writes them at the position *)
(* they came from, then goes on MAX_OVERLP records further. The operations *)
(* of the slots are completed by the system in any order. cciOV waits for  *)
(* an event of a completed operation, and is given the one with the lowest *)
(* index, the reads before the writes; cciEX lets the completion routines  *)
(* run, here in any order.                                                 *)
(***************************************************************************)
EXTENDS Integers

CONSTANTS
  MAX_OVERLP,
  REC_SIZE,
  Byte,      \* number of values of a byte, 256
  FileSizes  \* the sizes of the input files

VARIABLES
  extended,   \* the program is cciEX
  fileSize,
  shift,
  operation,  \* of each slot
  nBytes,     \* the length of the operation of each slot
  offset,     \* Offset in overLapIn of each slot
  offsetOut,  \* Offset in overLapOut
  rawRec,
  ccRec,
  output,     \* the bytes written to the file
  nDone       \* operations handled, iWaits in cciOV

ovVars == <<extended, fileSize, shift, operation, nBytes, offset, offsetOut, rawRec,
            ccRec, output, nDone>>

Ics == 0 .. MAX_OVERLP - 1
Bytes == 0 .. Byte - 1
Unwritten == Byte

(* The byte at a position of the input. *)
Input(pos) == pos % Byte

nRecords == (fileSize + REC_SIZE - 1) \div REC_SIZE

Record == [0 .. REC_SIZE - 1 -> Bytes \cup {Unwritten}]

TypeOK ==
  /\ extended \in BOOLEAN /\ fileSize \in FileSizes /\ shift \in Bytes
  /\ operation \in [Ics -> {"none", "reading", "read", "writing", "written"}]
  /\ nBytes \in [Ics -> 0 .. REC_SIZE]
  /\ offset \in [Ics -> Nat] /\ offsetOut \in [Ics -> Nat]
  /\ rawRec \in [Ics -> Record] /\ ccRec \in [Ics -> Record]
  /\ output \in [0 .. fileSize - 1 -> Bytes \cup {Unwritten}]
  /\ nDone \in 0 .. 2 * nRecords

(* ReadFile and ReadFileEx at a position before the end of the file. *)
Reads(pos) == IF pos < fileSize THEN "reading" ELSE "none"
ReadLength(pos) ==
  IF fileSize - pos >= REC_SIZE THEN REC_SIZE ELSE IF pos < fileSize THEN fileSize - pos ELSE 0

(* cciOV 20 to 41; cciEX 29 to 57. *)
Init ==
  /\ extended \in BOOLEAN
  /\ fileSize \in FileSizes
  /\ shift \in {1, Byte - 1}
  /\ offset = [ic \in Ics |-> ic * REC_SIZE]
  /\ offsetOut = [ic \in Ics |-> 0]
  /\ operation = [ic \in Ics |-> Reads(ic * REC_SIZE)]
  /\ nBytes = [ic \in Ics |-> ReadLength(ic * REC_SIZE)]
  /\ rawRec = [ic \in Ics |-> [i \in 0 .. REC_SIZE - 1 |-> Unwritten]]
  /\ ccRec = rawRec
  /\ output = [pos \in 0 .. fileSize - 1 |-> Unwritten]
  /\ nDone = 0

(* The system: the data move at some time before the operation completes. *)
CompleteRead(ic) ==
  /\ operation[ic] = "reading"
  /\ rawRec' = [rawRec EXCEPT ![ic] = [i \in DOMAIN @ |->
                  IF i < nBytes[ic] THEN Input(offset[ic] + i) ELSE @[i]]]
  /\ operation' = [operation EXCEPT ![ic] = "read"]
  /\ UNCHANGED <<extended, fileSize, shift, nBytes, offset, offsetOut, ccRec, output, nDone>>

CompleteWrite(ic) ==
  /\ operation[ic] = "writing"
  /\ output' = [pos \in DOMAIN output |->
                  IF pos - offsetOut[ic] \in 0 .. nBytes[ic] - 1
                  THEN ccRec[ic][pos - offsetOut[ic]] ELSE output[pos]]
  /\ operation' = [operation EXCEPT ![ic] = "written"]
  /\ UNCHANGED <<extended, fileSize, shift, nBytes, offset, offsetOut, rawRec, ccRec, nDone>>

(* cciOV 42 to 45: the wait chooses the lowest index; cciEX 58 and 59. *)
Handled(ic, what) ==
  /\ nDone < 2 * nRecords
  /\ operation[ic] = what
  /\ extended \/
       /\ what = "written" => \A j \in Ics : operation[j] # "read"
       /\ \A j \in 0 .. ic - 1 : operation[j] # what
  /\ nDone' = nDone + 1

(* cciOV 55; cciEX 86. *)
Shifted(byte) == (byte + shift) % Byte

(* cciOV 46 to 59; cciEX 70 to 95. *)
ReadDone(ic) ==
  /\ Handled(ic, "read")
  /\ offsetOut' = [offsetOut EXCEPT ![ic] = offset[ic]]
  /\ ccRec' = [ccRec EXCEPT ![ic] = [i \in DOMAIN @ |->
                 IF i < nBytes[ic] THEN Shifted(rawRec[ic][i]) ELSE @[i]]]
  /\ operation' = [operation EXCEPT ![ic] = "writing"]
  /\ offset' = [offset EXCEPT ![ic] = @ + REC_SIZE * MAX_OVERLP]
  /\ UNCHANGED <<extended, fileSize, shift, nBytes, rawRec, output>>

(* A bug of that kind: the slot reads the record that follows its own. *)
WriteDoneNext(ic) ==
  /\ Handled(ic, "written")
  /\ operation' = [operation EXCEPT ![ic] = Reads(offset[ic] - REC_SIZE)]
  /\ nBytes' = [nBytes EXCEPT ![ic] = ReadLength(offset[ic] - REC_SIZE)]
  /\ offset' = [offset EXCEPT ![ic] = @ - REC_SIZE]
  /\ UNCHANGED <<extended, fileSize, shift, offsetOut, rawRec, ccRec, output>>

(* cciOV 60 to 70; cciEX 97 to 117. *)
WriteDone(ic) ==
  /\ Handled(ic, "written")
  /\ operation' = [operation EXCEPT ![ic] = Reads(offset[ic])]
  /\ nBytes' = [nBytes EXCEPT ![ic] = ReadLength(offset[ic])]
  /\ UNCHANGED <<extended, fileSize, shift, offset, offsetOut, rawRec, ccRec, output>>

Next == \E ic \in Ics : CompleteRead(ic) \/ CompleteWrite(ic) \/ ReadDone(ic) \/ WriteDone(ic)

Spec == Init /\ [][Next]_ovVars /\ WF_ovVars(Next)

-----------------------------------------------------------------------------
AllCopied == nDone = 2 * nRecords

(* What has been written is the shifted input, and the files are closed    *)
(* when all of it has been written and no operation is under way.          *)
CopyConverted ==
  /\ \A pos \in DOMAIN output : output[pos] \in {Unwritten, (Input(pos) + shift) % Byte}
  /\ AllCopied =>
       /\ \A pos \in DOMAIN output : output[pos] # Unwritten
       /\ \A ic \in Ics : operation[ic] = "none"

CopyEnds == <>AllCopied
=============================================================================
