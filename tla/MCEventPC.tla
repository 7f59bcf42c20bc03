----------------------------- MODULE MCEventPC -----------------------------
(***************************************************************************)
(* DWORD counters of five values, so that they wrap around within a few    *)
(* messages.                                                               *)
(***************************************************************************)
EXTENDS EventPC
=============================================================================
