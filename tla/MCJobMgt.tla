----------------------------- MODULE MCJobMgt -----------------------------
(***************************************************************************)
(* Two shells, three process ids, two or three commands. The file starts   *)
(* empty or with one record, free or of a process of an earlier session.   *)
(* Shell s1 may have privileges that s2 has not.                           *)
(***************************************************************************)
EXTENDS JobMgt

CONSTANTS s1, s2

MCStartFiles == {<< >>, <<0>>, <<1>>}

(* Processes of id 3 are closed to s2. *)
MCProtected == {<<s2, 3>>}

NoneProtected == {}
=============================================================================
