------------------------------- MODULE SortMT -------------------------------
(***************************************************************************)
(* The merge sort run7/sortMT.cpp: each thread sorts its part of the       *)
(* records, then some threads merge their part with the one of a thread    *)
(* that they wait for. main waits for thread 0 only. A record is its key.  *)
(*                                                                         *)
(* A thread handle or a record past the end of its array is read where the *)
(* number of threads does not divide the records into 2^k equal parts;     *)
(* such a behaviour stops at that point.                                   *)
(***************************************************************************)
EXTENDS Sorting

CONSTANTS
  RecordFiles,  \* sequences of keys
  MaxThreads

VARIABLES
  input,      \* the records at the start
  pRecords,
  numFiles,   \* number of threads
  resumed,    \* threads that were resumed
  sorter,     \* where each thread is
  twoToi,     \* of each thread
  sortAt,     \* where main is
  fault

smVars == <<input, pRecords, numFiles, resumed, sorter, twoToi, sortAt, fault>>

nRec == Len(input)
nRecTh == nRec \div numFiles
Sorters == 0 .. numFiles - 1

TypeOK ==
  /\ input \in RecordFiles /\ pRecords \in Seq(Nat) /\ Len(pRecords) = nRec
  /\ numFiles \in 1 .. MaxThreads /\ resumed \in 0 .. numFiles
  /\ sorter \in [Sorters -> {"suspended", "sort", "merge", "ended"}]
  /\ \A th \in Sorters : twoToi[th] \in 1 .. 2 * MaxThreads
  /\ sortAt \in {"resume", "wait", "print"}
  /\ fault \in BOOLEAN

(* Lines 50 to 85. *)
Init ==
  /\ input \in RecordFiles
  /\ pRecords = input
  /\ numFiles \in 1 .. MaxThreads
  /\ resumed = 0
  /\ sorter = [th \in Sorters |-> "suspended"]
  /\ twoToi = [th \in Sorters |-> 1]
  /\ sortAt = "resume"
  /\ fault = FALSE

(* Lines 87 to 89. *)
Resume ==
  /\ ~fault /\ sortAt = "resume"
  /\ sorter' = [sorter EXCEPT ![resumed] = "sort"]
  /\ resumed' = resumed + 1
  /\ sortAt' = IF resumed' = numFiles THEN "wait" ELSE "resume"
  /\ UNCHANGED <<input, pRecords, numFiles, twoToi, fault>>

(* Lines 91 to 108: the records are printed as they are now. *)
WaitFirst ==
  /\ ~fault /\ sortAt = "wait" /\ sorter[0] = "ended"
  /\ sortAt' = "print"
  /\ UNCHANGED <<input, pRecords, numFiles, resumed, sorter, twoToi, fault>>

-----------------------------------------------------------------------------
(* SortThread. The part of the records that a thread holds is its own      *)
(* while it sorts or merges, so each is one step.                          *)

First(th) == th * nRecTh + 1
InGroup(th) == nRecTh * twoToi[th]
Part(first, n) == SubSeq(pRecords, first, first + n - 1)
Replaced(first, part) ==
  [i \in DOMAIN pRecords |-> IF i \in first .. first + Len(part) - 1
                             THEN part[i - first + 1] ELSE pRecords[i]]

InOrder(records) == \A i, j \in DOMAIN records : i < j => records[i] <= records[j]

(* Lines 119 to 123: qsort leaves the same records, in order. *)
SortPart(th) ==
  LET mine == Part(First(th), nRecTh) IN
  /\ ~fault /\ sorter[th] = "sort"
  /\ \E sorted \in [DOMAIN mine -> ToSet(mine)] :
       /\ InOrder(sorted) /\ ToBag(sorted) = ToBag(mine)
       /\ pRecords' = Replaced(First(th), sorted)
  /\ sorter' = [sorter EXCEPT ![th] = "merge"]
  /\ UNCHANGED <<input, numFiles, resumed, twoToi, sortAt, fault>>

Goes(th) == th % (2 * twoToi[th]) = 0 /\ InGroup(th) < nRec

(* A bug of that kind: the other thread is not waited for. *)
MergePartAtOnce(th) ==
  LET other == th + twoToi[th]
      n == InGroup(th)
      mine == Part(First(th), n)
      its == Part(First(th) + n, n)
  IN
  /\ ~fault /\ sorter[th] = "merge" /\ Goes(th)
  /\ IF other >= numFiles \/ First(th) + 2 * n - 1 > nRec
     THEN fault' = TRUE /\ UNCHANGED <<pRecords, twoToi>>
     ELSE /\ pRecords' = Replaced(First(th), MergeArrays(mine, its))
          /\ twoToi' = [twoToi EXCEPT ![th] = 2 * @]
          /\ UNCHANGED fault
  /\ UNCHANGED <<input, numFiles, resumed, sorter, sortAt>>

(* Lines 124 to 130 for one round. *)
MergePart(th) ==
  LET other == th + twoToi[th]
      n == InGroup(th)
      mine == Part(First(th), n)
      its == Part(First(th) + n, n)
  IN
  /\ ~fault /\ sorter[th] = "merge" /\ Goes(th)
  /\ IF other >= numFiles \/ First(th) + 2 * n - 1 > nRec
     THEN fault' = TRUE /\ UNCHANGED <<pRecords, twoToi>>
     ELSE /\ sorter[other] = "ended"
          /\ pRecords' = Replaced(First(th), MergeArrays(mine, its))
          /\ twoToi' = [twoToi EXCEPT ![th] = 2 * @]
          /\ UNCHANGED fault
  /\ UNCHANGED <<input, numFiles, resumed, sorter, sortAt>>

(* Line 131. *)
EndSort(th) ==
  /\ ~fault /\ sorter[th] = "merge" /\ ~Goes(th)
  /\ sorter' = [sorter EXCEPT ![th] = "ended"]
  /\ UNCHANGED <<input, pRecords, numFiles, resumed, twoToi, sortAt, fault>>

SortThread(th) == SortPart(th) \/ MergePart(th) \/ EndSort(th)

Next == Resume \/ WaitFirst \/ \E th \in Sorters : SortThread(th)

Spec == Init /\ [][Next]_smVars /\ WF_smVars(Next)

-----------------------------------------------------------------------------
EvenParts == nRec % numFiles = 0 /\ numFiles \in {1, 2, 4, 8}

(* The records are those of the file at all times; when main prints, they  *)
(* are in order and every thread has ended (unless there are no records),  *)
(* though only one was waited for. No array is overrun where the records   *)
(* are divided into 2^k equal parts.                                       *)
SortRight ==
  /\ ToBag(pRecords) = ToBag(input)
  /\ sortAt = "print" =>
       /\ InOrder(pRecords)
       /\ nRec > 0 => \A th \in Sorters : sorter[th] = "ended"
  /\ fault => ~EvenParts

SortEnds == <>(fault \/ sortAt = "print")
=============================================================================
