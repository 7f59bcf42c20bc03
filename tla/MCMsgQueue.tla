----------------------------- MODULE MCMsgQueue -----------------------------
(***************************************************************************)
(* Small instances of MsgQueue for TLC. Threads of one kind and messages   *)
(* are interchangeable.                                                    *)
(***************************************************************************)
EXTENDS MsgQueue, TLC

CONSTANTS p1, p2, g1, g2, m1, m2

TwoPutters == {p1, p2}
OneGetter == {g1}
TwoGetters == {g1, g2}
OneMsg == {m1}
TwoMsgs == {m1, m2}

PuttersJoined == {p1, p2}
AllUsersOfTwo == {p1, p2, g1, g2}

(* INFINITE as in ThreeStage.cpp; 0, which still waits one round; and 10, *)
(* which takes two.                                                        *)
Waits == {Infinite, 0}
LongWaits == {Infinite, 10}

Symmetry == Permutations({p1, p2}) \cup Permutations({g1, g2}) \cup Permutations({m1, m2})
=============================================================================
