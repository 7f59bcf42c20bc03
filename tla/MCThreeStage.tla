---------------------------- MODULE MCThreeStage ----------------------------
(***************************************************************************)
(* Two producers, queues that hold two, one and one entries, and blocks of *)
(* three, which divide neither the eight messages of Goal = 3 nor the 14   *)
(* of Goal = 6. The latter are more than all buffers together can hold, so *)
(* a stage that stops is felt by the producers.                            *)
(***************************************************************************)
EXTENDS ThreeStage

TwoIds == {0, 1}
=============================================================================
