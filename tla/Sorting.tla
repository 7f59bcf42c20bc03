------------------------------ MODULE Sorting ------------------------------
(***************************************************************************)
(* What the sorts compute: the binary tree of run5/sortbt.cpp, in which    *)
(* records are inserted and which is scanned, and MergeArrays of           *)
(* run7/sortMT.cpp. A record is its key and, where equal keys matter, its  *)
(* place in the file (tag).                                                *)
(***************************************************************************)
EXTENDS Naturals, Sequences, SequencesExt

(* A pointer is a place in the heap of the nodes, which are in the order   *)
(* of their allocation; the root is the first node.                        *)
NULL == 0
pRoot(nodes) == IF nodes = <<>> THEN NULL ELSE 1

Below(p, nodes) == {nodes[p].Left, nodes[p].Right} \ {NULL}

(* A bug of that kind: equal keys go to the left. *)
KeyNotAfter(key, other) == key <= other

(* Lines 142 and 151: KeyCompare is negative. *)
KeyBefore(key, other) == key < other

(* The new node goes to the first free place on its way down. *)
InsertTree(nodes, data) ==
  LET Side(p) == IF KeyBefore(data.key, nodes[p].data.key) THEN "Left" ELSE "Right"
      Parent[p \in DOMAIN nodes] ==
        IF nodes[p][Side(p)] = NULL THEN p ELSE Parent[nodes[p][Side(p)]]
      parent == Parent[pRoot(nodes)]
      node == [Left |-> NULL, Right |-> NULL, data |-> data]
  IN IF nodes = <<>> THEN <<node>>
     ELSE Append([nodes EXCEPT ![parent][Side(parent)] = Len(nodes) + 1], node)

Scan(nodes) ==
  LET From[p \in 0 .. Len(nodes)] ==
        IF p = NULL THEN <<>>
        ELSE From[nodes[p].Left] \o <<nodes[p].data>> \o From[nodes[p].Right]
  IN From[pRoot(nodes)]

(* Lines 137 to 165 of sortMT.cpp: how many of the first n records are of  *)
(* p1. Where the keys are equal p1 goes first, and what is left of one     *)
(* part follows.                                                           *)
FromFirst(p1, p2) ==
  LET Goes1(i, j) == i <= Len(p1) /\ (j <= Len(p2) => p1[i] <= p2[j])
      After(n) == [k \in 0 .. Len(p1) |-> IF Goes1(k + 1, n - k) THEN k + 1 ELSE k]
      Taken[n \in 0 .. Len(p1) + Len(p2)] == IF n = 0 THEN 0 ELSE After(n)[Taken[n - 1]]
  IN Taken

MergeArrays(p1, p2) ==
  LET taken == FromFirst(p1, p2)
  IN [n \in 1 .. Len(p1) + Len(p2) |->
        IF taken[n] > taken[n - 1] THEN p1[taken[n]] ELSE p2[n - taken[n]]]

-----------------------------------------------------------------------------
(* The same records, in the order of their keys and those of the same key  *)
(* in the order of the file.                                               *)
Precedes(r, s) == r.key < s.key \/ (r.key = s.key /\ r.tag < s.tag)

StablySorted(lines, records) ==
  /\ ToSet(lines) = ToSet(records)
  /\ \A i, j \in DOMAIN lines : i < j => Precedes(lines[i], lines[j])
=============================================================================
