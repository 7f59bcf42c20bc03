----------------------------- MODULE AsyncRead -----------------------------
(***************************************************************************)
(* AsyncTestForEnd of run10/splitf.cpp reads a file with overlapped reads: *)
(* each is completed at once or is pending, and then its result is asked   *)
(* for again and again. The loop ends at the size of the file, or with the *)
(* end of the file found by a read at or behind it.                        *)
(*                                                                         *)
(* ReadFile sets the number of bytes to 0 before it does anything, and any *)
(* read may fail. The data, and offsets of more than 32 bits, are left out. *)
(***************************************************************************)
EXTENDS Naturals, Sequences

CONSTANTS
  BUF_SIZE,
  MaxFileSize   \* bound on the size of the file

VARIABLES
  dwFileSize,
  Offset,       \* in the OVERLAPPED structure
  bContinue,
  io,           \* the read: none, or pending, or its result
  dwBytesRead,
  pieces        \* history: the pieces read

arVars == <<dwFileSize, Offset, bContinue, io, dwBytesRead, pieces>>

TypeOK ==
  /\ dwFileSize \in 0 .. MaxFileSize
  /\ Offset \in 0 .. dwFileSize + BUF_SIZE
  /\ bContinue \in BOOLEAN
  /\ io \in {"none", "pending", "complete", "eof", "failed"}
  /\ dwBytesRead \in 0 .. BUF_SIZE
  /\ pieces \in Seq(Nat \X Nat)

(* Lines 57 to 72. *)
Init ==
  /\ dwFileSize \in 0 .. MaxFileSize
  /\ Offset = 0 /\ bContinue = TRUE
  /\ io = "none" /\ dwBytesRead = 0
  /\ pieces = <<>>

Available ==
  IF Offset + BUF_SIZE <= dwFileSize THEN BUF_SIZE
  ELSE IF Offset < dwFileSize THEN dwFileSize - Offset ELSE 0

(* Lines 193 to 199. *)
Advance(bytes, continue) ==
  /\ Offset' = Offset + bytes
  /\ pieces' = IF bytes = 0 THEN pieces ELSE Append(pieces, <<Offset, bytes>>)
  /\ bContinue' = (continue \/ Offset' < dwFileSize)
  /\ io' = "none"

(* A bug of that kind: the number of bytes of the last read remains. *)
ReadFileStale ==
  /\ bContinue /\ io = "none"
  /\ bContinue' = FALSE
  /\ \/ io' = "complete" /\ Available > 0 /\ dwBytesRead' = Available
     \/ io' \in {"pending", "failed"} \cup (IF Available = 0 THEN {"eof"} ELSE {})
        /\ UNCHANGED dwBytesRead
  /\ UNCHANGED <<dwFileSize, Offset, pieces>>

(* Lines 79 to 102 and 171 to 191: the read is done, finds the end of the  *)
(* file, fails, or is pending.                                             *)
ReadFile ==
  /\ bContinue /\ io = "none"
  /\ bContinue' = FALSE
  /\ \/ io' = "complete" /\ Available > 0 /\ dwBytesRead' = Available
     \/ io' \in {"pending", "failed"} \cup (IF Available = 0 THEN {"eof"} ELSE {})
        /\ dwBytesRead' = 0
  /\ UNCHANGED <<dwFileSize, Offset, pieces>>

(* The system. *)
CompleteIo ==
  /\ io = "pending"
  /\ io' \in {IF Available > 0 THEN "complete" ELSE "eof", "failed"}
  /\ UNCHANGED <<dwFileSize, Offset, bContinue, dwBytesRead, pieces>>

(* Lines 104 to 168 for a read that is or was pending, then lines 193 to   *)
(* 199 for every read. Once a read was found incomplete the outer loop     *)
(* goes on, even behind the end of the file.                               *)
GetOverlappedResult ==
  /\ \/ /\ io = "pending"
        /\ bContinue' = TRUE
        /\ UNCHANGED <<Offset, io, dwBytesRead, pieces>>
     \/ /\ io \in {"complete", "eof", "failed"}
        /\ dwBytesRead' = IF io = "complete" THEN Available ELSE dwBytesRead
        /\ Advance(dwBytesRead', bContinue)
  /\ UNCHANGED dwFileSize

Next == ReadFile \/ CompleteIo \/ GetOverlappedResult

Finished == ~bContinue /\ io = "none"

Spec == Init /\ [][Next]_arVars /\ WF_arVars(ReadFile) /\ WF_arVars(CompleteIo)
             /\ WF_arVars(GetOverlappedResult)

-----------------------------------------------------------------------------
(* The pieces are read in order, each once and without a gap, and the      *)
(* function returns the size of the file.                                  *)
WholeFileRead ==
  /\ \A i \in DOMAIN pieces :
       pieces[i][1] = IF i = 1 THEN 0 ELSE pieces[i - 1][1] + pieces[i - 1][2]
  /\ Offset = IF pieces = <<>> THEN 0
              ELSE LET last == pieces[Len(pieces)] IN last[1] + last[2]
  /\ Finished => Offset = dwFileSize

(* The loop ends, unless every read behind the end of the file is first    *)
(* pending and found so, or reads fail again and again: a read that fails  *)
(* before the end of the file is tried for ever (lines 171 and 198).       *)
AsyncReadEnds ==
  <>Finished \/ []<>(Offset >= dwFileSize /\ io = "pending") \/ []<>(io = "failed")
=============================================================================
