------------------------------ MODULE LogTask ------------------------------
(***************************************************************************)
(* The loops of run7/grep.cpp, which prints the lines that match, and of   *)
(* run7/obtask.cpp, which prints a line that matches (a request) with the  *)
(* next line that tells the number of its results and has the thread       *)
(* number of the request in it. Both read the file argv[2] only, whose     *)
(* lines are those with an end of line. Both have the matcher of grepMT.   *)
(*                                                                         *)
(* A thread number, four characters from column 48, is one character here. *)
(* An option -y makes small letters of every line before it is matched,    *)
(* kept and printed: the lines of a log are what it leaves of them.        *)
(***************************************************************************)
EXTENDS PatternMatch

CONSTANTS
  Pattern,   \* the first argument that is no option
  Jobs,      \* jobs, "r.length()"
  LogLines,  \* lines, each with a thread number as its first character
  MaxLog     \* bound on the length of a log

VARIABLES
  obtask,       \* the program is obtask
  log,
  opened,       \* line 156 could open the log
  lineNumber,
  needLenSize,
  threadID,
  request,      \* number of the line kept
  shown,        \* the lines printed
  exitResult    \* result

ltVars == <<obtask, log, opened, lineNumber, needLenSize, threadID, request, shown, exitResult>>

Thread(line) == <<line[1]>>

(* grep.cpp 43 to 137. *)
GrepMatches(line) == patternMatch(prepSearchString(Pattern, "EOS", FALSE), line)

(* obtask.cpp 38 to 132. jobs and threadID are used as they are. *)
TaskMatches(line) == patternMatch(prepSearchString(Pattern, "EOS", FALSE), line)
TellsJobs(line) == patternMatch(Jobs, line)
HasThread(number, line) == patternMatch(number, line)

TypeOK ==
  /\ obtask \in BOOLEAN /\ opened \in BOOLEAN /\ needLenSize \in BOOLEAN
  /\ log \in Seq(LogLines) /\ lineNumber \in 0 .. Len(log)
  /\ threadID \in {<<>>} \cup {Thread(l) : l \in LogLines}
  /\ request \in 0 .. Len(log) /\ exitResult \in {0, 1}

(* Lines 141 to 162. *)
Init ==
  /\ obtask \in BOOLEAN
  /\ log \in BoundedSeq(LogLines, MaxLog)
  /\ opened \in BOOLEAN
  /\ ~opened => log = <<>>
  /\ lineNumber = 0
  /\ needLenSize = FALSE /\ threadID = <<>> /\ request = 0
  /\ shown = <<>>
  /\ exitResult = 1

(* grep.cpp. *)
GrepLine ==
  LET n == lineNumber + 1 IN
  /\ opened /\ ~obtask /\ n <= Len(log)
  /\ lineNumber' = n
  /\ shown' = IF GrepMatches(log[n]) THEN Append(shown, n) ELSE shown
  /\ exitResult' = IF GrepMatches(log[n]) THEN 0 ELSE exitResult
  /\ UNCHANGED <<obtask, log, opened, needLenSize, threadID, request>>

(* A bug of that kind: the thread is not compared. *)
TaskLineAny ==
  LET n == lineNumber + 1
      line == log[n]
      answers == needLenSize /\ TellsJobs(line)
  IN
  /\ opened /\ obtask /\ n <= Len(log)
  /\ lineNumber' = n
  /\ shown' = IF answers THEN shown \o <<request, n>> ELSE shown
  /\ needLenSize' = (TaskMatches(line) \/ (needLenSize /\ ~answers))
  /\ threadID' = IF TaskMatches(line) THEN Thread(line) ELSE IF answers THEN <<>> ELSE threadID
  /\ request' = IF TaskMatches(line) THEN n ELSE request
  /\ exitResult' = IF TaskMatches(line) THEN 0 ELSE exitResult
  /\ UNCHANGED <<obtask, log, opened>>

(* Lines 178 to 194: an answer is printed before the line is looked at as  *)
(* a request, which replaces one that has no answer yet.                   *)
TaskLine ==
  LET n == lineNumber + 1
      line == log[n]
      answers == needLenSize /\ TellsJobs(line) /\ HasThread(threadID, line)
  IN
  /\ opened /\ obtask /\ n <= Len(log)
  /\ lineNumber' = n
  /\ shown' = IF answers THEN shown \o <<request, n>> ELSE shown
  /\ needLenSize' = (TaskMatches(line) \/ (needLenSize /\ ~answers))
  /\ threadID' = IF TaskMatches(line) THEN Thread(line) ELSE IF answers THEN <<>> ELSE threadID
  /\ request' = IF TaskMatches(line) THEN n ELSE request
  /\ exitResult' = IF TaskMatches(line) THEN 0 ELSE exitResult
  /\ UNCHANGED <<obtask, log, opened>>

Next == GrepLine \/ TaskLine

Spec == Init /\ [][Next]_ltVars

-----------------------------------------------------------------------------
(* A line answers a request when it is the first that tells the number of  *)
(* results with the thread number of the request in it, and no other       *)
(* request came in between.                                                *)
Answers(k, r) ==
  LET Tells(i) == TellsJobs(log[i]) /\ \E j \in DOMAIN log[i] : log[i][j] = log[r][1] IN
  /\ r < k /\ TaskMatches(log[r])
  /\ Tells(k)
  /\ \A i \in r + 1 .. k - 1 : ~TaskMatches(log[i]) /\ ~Tells(i)

(* What is printed when a line is read: by obtask the request that it      *)
(* answers and the line, by grep the line when it matches.                 *)
Wanted(k) ==
  IF ~obtask THEN (IF GrepMatches(log[k]) THEN <<k>> ELSE <<>>)
  ELSE IF \E r \in 1 .. k - 1 : Answers(k, r)
       THEN <<CHOOSE r \in 1 .. k - 1 : Answers(k, r), k>> ELSE <<>>

(* obtask prints each request that is answered with its answer and nothing *)
(* else, grep each line that matches, both in the order of the file. An    *)
(* answer is a line with "r.length()" in it (line 181), whatever number it *)
(* tells: the comments of lines 6 and 180 ask for one above 0.             *)
TasksPaired == opened => shown = FlattenSeq([k \in 1 .. lineNumber |-> Wanted(k)])

(* The comments of lines 6 and 180: a line that tells the number of results *)
(* is printed when that is above 0.                                        *)
OnlyWithResults ==
  obtask => \A n \in DOMAIN shown : ~patternMatch(Append(Jobs, "0"), log[shown[n]])
=============================================================================
