----------------------------- MODULE MCGrepDoc -----------------------------
(***************************************************************************)
(* grepMT on some lines that its comment says it selects: the pattern ab   *)
(* is in the line aab, the $ is for the end of the line, and two stars     *)
(* match what one does.                                                    *)
(***************************************************************************)
EXTENDS GrepMT

Text(lines) == [kind |-> "text", lines |-> lines, terminated |-> TRUE]
MCCommands ==
  {[pattern |-> p, files |-> <<Text(<<<<"a", "a", "b">>, <<"b">>>>), Text(<<<<"a", "b">>>>)>>] :
     p \in {<<"a", "b">>, <<"b", "$">>, <<"*", "*", "b">>}}
=============================================================================
