------------------------------ MODULE SortTree ------------------------------
(***************************************************************************)
(* The tree sort run5/sortbt.cpp, file by file: the records of a file are  *)
(* inserted into a binary tree on a heap of their own, and the tree is     *)
(* scanned. A file that cannot be opened and a heap that is exhausted      *)
(* raise an exception, which ends the file and not the program. A record   *)
(* is its key and, for the rest of it, its place in the file (tag); what   *)
(* is left of a file that ends within a key is dropped and not shown here. *)
(***************************************************************************)
EXTENDS Sorting

CONSTANT
  FileLists \* command lines: files that exist or not, with their records

VARIABLES
  files,
  iFile,
  NoPrint,
  sortbtAt,  \* where the program is
  hNode,     \* the heap of the nodes, in the order of their allocation
  report     \* for each file done: what was printed, or that it failed

btVars == <<files, iFile, NoPrint, sortbtAt, hNode, report>>

TypeOK ==
  /\ files \in FileLists /\ iFile \in 1 .. Len(files) + 1
  /\ NoPrint \in BOOLEAN
  /\ sortbtAt \in {"open", "fill"}
  /\ sortbtAt = "fill" =>
       /\ iFile <= Len(files) /\ Len(hNode) <= Len(files[iFile].records)
       /\ \A p \in DOMAIN hNode :
            hNode[p].data = files[iFile].records[p] /\ Below(p, hNode) \subseteq p + 1 .. Len(hNode)
  /\ Len(report) = iFile - 1

Init ==
  /\ files \in FileLists
  /\ iFile = 1
  /\ NoPrint \in BOOLEAN
  /\ sortbtAt = "open"
  /\ hNode = <<>>
  /\ report = <<>>

FileDone(outcome) ==
  /\ report' = Append(report, outcome)
  /\ iFile' = iFile + 1
  /\ sortbtAt' = "open"
  /\ hNode' = <<>>
  /\ UNCHANGED <<files, NoPrint>>

(* Lines 70 to 79. *)
Open ==
  /\ iFile <= Len(files) /\ sortbtAt = "open" /\ files[iFile].exists
  /\ sortbtAt' = "fill"
  /\ UNCHANGED <<files, iFile, NoPrint, hNode, report>>

(* Lines 95 to 100: the file is missing, or HeapAlloc fails. *)
Exception ==
  /\ iFile <= Len(files)
  /\ \/ sortbtAt = "open" /\ ~files[iFile].exists
     \/ sortbtAt = "fill"
  /\ FileDone([failed |-> TRUE, lines |-> <<>>])

(* Lines 112 to 131, for one record. *)
FillTree ==
  /\ sortbtAt = "fill" /\ Len(hNode) < Len(files[iFile].records)
  /\ hNode' = InsertTree(hNode, files[iFile].records[Len(hNode) + 1])
  /\ UNCHANGED <<files, iFile, NoPrint, sortbtAt, report>>

(* Lines 115 and 116, then 82 to 93. *)
PrintFile ==
  /\ sortbtAt = "fill" /\ Len(hNode) = Len(files[iFile].records)
  /\ FileDone([failed |-> FALSE, lines |-> IF NoPrint THEN <<>> ELSE Scan(hNode)])

Next == Open \/ Exception \/ FillTree \/ PrintFile

Spec == Init /\ [][Next]_btVars

-----------------------------------------------------------------------------
(* The tree holds what was read of the current file only, and each file    *)
(* that was read to its end is printed in the order of its keys, records   *)
(* of the same key in the order of the file.                               *)
TreeSorted ==
  /\ sortbtAt = "fill" =>
       StablySorted(Scan(hNode), SubSeq(files[iFile].records, 1, Len(hNode)))
  /\ \A i \in DOMAIN report :
       ~report[i].failed /\ ~NoPrint => StablySorted(report[i].lines, files[i].records)
=============================================================================
