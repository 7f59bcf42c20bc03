---------------------------- MODULE PatternMatch ----------------------------
(***************************************************************************)
(* The preparation and the matching of patterns in run7/grepMT.cpp (the    *)
(* same in run7/grep.cpp and run7/obtask.cpp). Characters are strings of   *)
(* one letter, the codes of lines 109 to 113 longer ones; a line is the    *)
(* sequence of its characters without the end of line.                     *)
(***************************************************************************)
EXTENDS Naturals, Sequences, SequencesExt

(* Lines 109 to 113 and the end of a pattern. No character is one of them. *)
Metacharacters == {"ASTRSK", "QM", "BEGCLASS", "ENDCLASS", "ANCHOR", "EOS"}

Lower(c) == IF c = "A" THEN "a" ELSE c

Code(c) == CASE c = "?" -> "QM" [] c = "[" -> "BEGCLASS" [] c = "]" -> "ENDCLASS" [] OTHER -> c

(* A star after a star stays a character. At the start of the buffer the   *)
(* code reads what lies before it, given by below.                         *)
Star(buf, below) ==
  IF (IF buf = <<>> THEN below ELSE Last(buf)) # "ASTRSK" THEN "ASTRSK" ELSE "*"

(* The character that follows a backslash stands for itself, but for the   *)
(* control characters, which are left out.                                 *)
prepSearchString(p, below, ignoreCase) ==
  LET anchored == p # <<>> /\ p[1] = "^"
      Put(acc, c) ==
        IF c = "\\" /\ ~acc.escape THEN [acc EXCEPT !.escape = TRUE]
        ELSE LET code == IF acc.escape THEN c
                         ELSE IF c = "*" THEN Star(acc.buf, below) ELSE Code(c)
             IN [buf |-> Append(acc.buf, IF ignoreCase THEN Lower(code) ELSE code),
                 escape |-> FALSE]
  IN FoldLeft(Put, [buf |-> IF anchored THEN <<"ANCHOR">> ELSE <<>>, escape |-> FALSE],
              IF anchored THEN Tail(p) ELSE p).buf

EndOfClass(codes, i) == CHOOSE k \in i + 1 .. Len(codes) :
                          codes[k] = "ENDCLASS" /\ \A l \in i + 1 .. k - 1 : codes[l] # "ENDCLASS"

Anchored(codes) == codes # <<>> /\ codes[1] = "ANCHOR"

(* A bug of that kind: the anchor is not skipped. *)
FirstUnskipped(codes) == 1

(* Lines 269 and 270. *)
First(codes) == IF Anchored(codes) THEN 2 ELSE 1

(* The label Again, at a place: top is where the pattern of the call       *)
(* starts, i and j are the positions in the pattern and in the line. A     *)
(* mismatch goes back to the start of the pattern, but not in the line.    *)
(* From gives what follows at other places.                                *)
Again(codes, line, From, at) ==
  LET top == at[1]
      i == at[2]
      j == at[3]
      pc == IF i > Len(codes) THEN "EOS" ELSE codes[i]
      atEnd == j > Len(line)
      again == IF Anchored(codes) /\ top = First(codes) THEN FALSE ELSE From[<<top, top, j + 1>>]
  IN CASE pc = "EOS" -> TRUE
       [] pc = "ASTRSK" -> IF atEnd THEN From[<<top, i + 1, j>>]
                           ELSE From[<<i + 1, i + 1, j>>] \/ From[<<top, i, j + 1>>]
       [] pc \notin {"EOS", "ASTRSK"} /\ atEnd -> FALSE
       [] pc = "BEGCLASS" /\ ~atEnd ->
            LET end == EndOfClass(codes, i) IN
            IF \E k \in i + 1 .. end - 1 : codes[k] = line[j]
            THEN From[<<top, end + 1, j + 1>>] ELSE again
       [] OTHER -> IF pc \in {line[j], "QM"} THEN From[<<top, i + 1, j + 1>>] ELSE again

patternMatch(codes, line) ==
  LET Places == 1 .. Len(codes) + 1
      From[at \in Places \X Places \X (1 .. Len(line) + 1)] == Again(codes, line, From, at)
  IN From[<<First(codes), First(codes), 1>>]

-----------------------------------------------------------------------------
(* What the comment of lines 94 to 105 says of patterns. *)
Documented(p, line) ==
  LET anchored == p # <<>> /\ p[1] = "^"
      Here[i \in 1 .. Len(p) + 1, j \in 1 .. Len(line) + 1] ==
        IF i > Len(p) THEN TRUE
        ELSE LET c == p[i] IN
             CASE c = "*" -> \E k \in j .. Len(line) + 1 : Here[i + 1, k]
               [] c = "$" -> j > Len(line) /\ Here[i + 1, j]
               [] c \notin {"*", "$"} /\ j > Len(line) -> FALSE
               [] c = "?" /\ j <= Len(line) -> Here[i + 1, j + 1]
               [] c = "[" /\ j <= Len(line) ->
                    LET end == CHOOSE k \in i + 1 .. Len(p) :
                                 p[k] = "]" /\ \A l \in i + 1 .. k - 1 : p[l] # "]"
                    IN (\E k \in i + 1 .. end - 1 : p[k] = line[j]) /\ Here[end + 1, j + 1]
               [] c = "\\" /\ j <= Len(line) -> p[i + 1] = line[j] /\ Here[i + 2, j + 1]
               [] OTHER -> c = line[j] /\ Here[i + 1, j + 1]
  IN IF anchored THEN Here[2, 1] ELSE \E j \in 1 .. Len(line) + 1 : Here[1, j]

(* The patterns for which the matcher misses no line: at every place of    *)
(* the line it starts anew, or only one place counts. A star taken as a    *)
(* character is not what was meant.                                        *)
Complete(codes) ==
  /\ codes = <<>> \/ codes[1] \in {"ANCHOR", "ASTRSK"} \/ (Len(codes) = 1 /\ codes[1] # "*")
  /\ \A i \in 1 .. Len(codes) - 1 : ~(codes[i] = "ASTRSK" /\ codes[i + 1] = "*")
=============================================================================
