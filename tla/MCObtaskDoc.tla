---------------------------- MODULE MCObtaskDoc ----------------------------
(***************************************************************************)
(* obtask on logs of one thread, with requests and answers that tell of no *)
(* result or of two.                                                       *)
(***************************************************************************)
EXTENDS LogTask

MCPattern == <<"s">>
MCJobs == <<"r">>
MCLogLines == {<<"1", "s">>, <<"1", "r", "0">>, <<"1", "r", "2">>}
=============================================================================
