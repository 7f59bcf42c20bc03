------------------------------- MODULE GrepMT -------------------------------
(***************************************************************************)
(* run7/grepMT.cpp: the boss thread main starts a thread for each file,    *)
(* which writes the lines that match to a temporary file; main prints the  *)
(* temporary files in the order in which the threads end, deletes them and *)
(* moves the last entry of its tables to the place of the one that ended.  *)
(*                                                                         *)
(* An argument that begins with a minus sign is an option, and -y sets     *)
(* ignoreCase for all threads whenever a thread comes to it. When the      *)
(* pattern is an option the name of the file is taken for the pattern, and *)
(* no file is left to be searched. The last line of a file is dropped when *)
(* it has no end of line, for fgets meets the end of the file.             *)
(***************************************************************************)
EXTENDS PatternMatch, FiniteSets

CONSTANTS
  Commands,  \* the command lines: a pattern and the files
  Belows,    \* what may lie before the pattern buffer
  MAXIMUM_WAIT_OBJECTS

VARIABLES
  command,
  below,
  gArg,         \* the tables of main: the file and temporary file of each entry,
  tHandle,      \* and its thread
  threadCount,  \* the entries in use
  grep,         \* each thread
  ignoreCase,
  printed,      \* what main has printed: files and their lines
  temps,        \* the temporary files that exist
  wild          \* main has taken the failure of its wait for an index

gmVars == <<command, below, gArg, tHandle, threadCount, grep, ignoreCase, printed, temps, wild>>

Files == DOMAIN command.files
File(i) == command.files[i]

IsOption(argument) == argument # <<>> /\ argument[1] = "-"

(* The lines that a thread gets to see. *)
Scanned(file) == IF file.terminated \/ file.lines = <<>> THEN file.lines ELSE Front(file.lines)

Unborn == [at |-> "unborn", file |-> 0, temp |-> 0, pattern |-> <<>>, line |-> 0,
           out |-> "none", lines |-> <<>>, result |-> 1]

TypeOK ==
  /\ command \in Commands /\ below \in Belows
  /\ gArg \in [Files -> [file : Files, temp : Files]]
  /\ tHandle \in [Files -> Files]
  /\ threadCount \in 0 .. Len(command.files)
  /\ \A th \in Files :
       /\ grep[th].at \in {"unborn", "begin", "pattern", "file", "line", "ended"}
       /\ grep[th].out \in {"none", "open", "closed"} /\ grep[th].result \in {0, 1}
  /\ ignoreCase \in BOOLEAN /\ wild \in BOOLEAN
  /\ temps \subseteq Files

(* Lines 32 to 39, for all files. *)
Init ==
  /\ command \in Commands
  /\ below \in Belows
  /\ gArg = [i \in Files |-> [file |-> i, temp |-> i]]
  /\ tHandle = [i \in Files |-> i]
  /\ threadCount = Len(command.files)
  /\ grep = [th \in Files |-> Unborn]
  /\ ignoreCase = FALSE
  /\ printed = <<>>
  /\ temps = Files
  /\ wild = FALSE

-----------------------------------------------------------------------------
(* main *)

(* Line 40. *)
StartThread(th) ==
  /\ grep[th].at = "unborn" /\ \A t \in 1 .. th - 1 : grep[t].at # "unborn"
  /\ grep' = [grep EXCEPT ![th].at = "begin"]
  /\ UNCHANGED <<command, below, gArg, tHandle, threadCount, ignoreCase, printed, temps, wild>>

AllStarted == \A th \in Files : grep[th].at # "unborn"

(* Lines 48 to 50: more handles than the system waits for, and the result  *)
(* is used as an index. Whatever main does from there on is left out.      *)
WaitFails ==
  /\ AllStarted
  /\ threadCount > MAXIMUM_WAIT_OBJECTS
  /\ wild' = TRUE
  /\ UNCHANGED <<command, below, gArg, tHandle, threadCount, grep, ignoreCase, printed, temps>>

Ended(i) == grep[tHandle[i]].at = "ended"

(* A bug of that kind: only the handle is moved. *)
CollectHandle(i) ==
  /\ AllStarted /\ threadCount <= MAXIMUM_WAIT_OBJECTS
  /\ i <= threadCount /\ Ended(i) /\ \A k \in 1 .. i - 1 : ~Ended(k)
  /\ printed' = IF grep[tHandle[i]].result = 0
                THEN Append(printed, [file |-> gArg[i].file, lines |-> grep[gArg[i].temp].lines])
                ELSE printed
  /\ temps' = temps \ {t \in {gArg[i].temp} : grep[t].out # "open"}
  /\ tHandle' = [tHandle EXCEPT ![i] = tHandle[threadCount]]
  /\ threadCount' = threadCount - 1
  /\ UNCHANGED <<command, below, gArg, grep, ignoreCase, wild>>

(* Lines 48 to 68; of several threads that have ended the first in the     *)
(* table is taken. A temporary file still open is not deleted.             *)
Collect(i) ==
  /\ AllStarted /\ threadCount <= MAXIMUM_WAIT_OBJECTS
  /\ i <= threadCount /\ Ended(i) /\ \A k \in 1 .. i - 1 : ~Ended(k)
  /\ printed' = IF grep[tHandle[i]].result = 0
                THEN Append(printed, [file |-> gArg[i].file, lines |-> grep[gArg[i].temp].lines])
                ELSE printed
  /\ temps' = temps \ {t \in {gArg[i].temp} : grep[t].out # "open"}
  /\ tHandle' = [tHandle EXCEPT ![i] = tHandle[threadCount]]
  /\ gArg' = [gArg EXCEPT ![i] = gArg[threadCount]]
  /\ threadCount' = threadCount - 1
  /\ UNCHANGED <<command, below, grep, ignoreCase, wild>>

-----------------------------------------------------------------------------
(* ThGrep *)

(* Lines 143 to 161: main may have changed the entry by now. *)
Begin(th) ==
  /\ grep[th].at = "begin"
  /\ \E out \in {"none", "open"} :
       grep' = [grep EXCEPT ![th].at = IF out = "open" THEN "pattern" ELSE "ended",
                            ![th].out = out,
                            ![th].file = gArg[th].file,
                            ![th].temp = gArg[th].temp]
  /\ UNCHANGED <<command, below, gArg, tHandle, threadCount, ignoreCase, printed, temps, wild>>

(* Lines 163 to 180 for the pattern. *)
TakePattern(th) ==
  LET argument == command.pattern
      codes == prepSearchString(argument, below, ignoreCase)
  IN
  /\ grep[th].at = "pattern"
  /\ grep' = [grep EXCEPT ![th].at = "file",
                          ![th].pattern = IF IsOption(argument) THEN @ ELSE codes]
  /\ ignoreCase' = (ignoreCase \/ (IsOption(argument) /\ Len(argument) > 1 /\ argument[2] = "y"))
  /\ UNCHANGED <<command, below, gArg, tHandle, threadCount, printed, temps, wild>>

(* Lines 164 to 170 and 176 to 183 for the file, which is taken for the    *)
(* pattern when that was an option.                                        *)
TakeFile(th) ==
  LET kind == File(grep[th].file).kind IN
  /\ grep[th].at = "file"
  /\ ignoreCase' = (ignoreCase \/ kind = "-y")
  /\ grep' = [grep EXCEPT ![th].at = IF kind = "text" /\ ~IsOption(command.pattern)
                                     THEN "line" ELSE "ended"]
  /\ UNCHANGED <<command, below, gArg, tHandle, threadCount, printed, temps, wild>>

(* Lines 184 to 198, for the next line or the end of the file. *)
ReadLine(th) ==
  LET lines == Scanned(File(grep[th].file))
      n == grep[th].line + 1
      string == IF ignoreCase THEN [j \in DOMAIN lines[n] |-> Lower(lines[n][j])] ELSE lines[n]
      matches == patternMatch(grep[th].pattern, string)
  IN
  /\ grep[th].at = "line"
  /\ IF n > Len(lines)
     THEN grep' = [grep EXCEPT ![th].at = "ended", ![th].out = "closed"]
     ELSE grep' = [grep EXCEPT ![th].line = n,
                               ![th].result = IF matches THEN 0 ELSE @,
                               ![th].lines = IF matches THEN Append(@, string) ELSE @]
  /\ UNCHANGED <<command, below, gArg, tHandle, threadCount, ignoreCase, printed, temps, wild>>

ThGrep(th) == Begin(th) \/ TakePattern(th) \/ TakeFile(th) \/ ReadLine(th)

Next ==
  \/ \E th \in Files : StartThread(th) \/ ThGrep(th)
  \/ WaitFails
  \/ \E i \in Files : Collect(i)

Spec == Init /\ [][Next]_gmVars /\ WF_gmVars(Next)

-----------------------------------------------------------------------------
Done == threadCount = 0
Searched(th) == grep[th].out = "closed"

(* The elements of s at the places K, in their order, up to each place. *)
KeptUpTo(s, K) ==
  LET UpTo[n \in 0 .. Len(s)] ==
        IF n = 0 THEN <<>> ELSE IF n \in K THEN Append(UpTo[n - 1], s[n]) ELSE UpTo[n - 1]
  IN UpTo

(* The lines that match, up to each line and in the whole file.            *)
MatchingUpTo(i) ==
  LET lines == Scanned(File(i))
      codes == prepSearchString(command.pattern, below, FALSE)
  IN KeptUpTo(lines, {n \in DOMAIN lines : patternMatch(codes, lines[n])})
Selected(i) == MatchingUpTo(i)[Len(Scanned(File(i)))]

(* Each thread has searched its own file, though main moves the entries of *)
(* the tables meanwhile. Each file with a line that matches is printed     *)
(* once, under its own name and with the lines its thread found, in        *)
(* whatever order the threads end; the temporary files that stay are those *)
(* of searches that found no file to read.                                 *)
ReportedOnce ==
  /\ \A th \in Files : grep[th].file = th /\ grep[th].temp = th
  /\ \A m, n \in DOMAIN printed : printed[m].file = printed[n].file => m = n
  /\ {printed[n].file : n \in DOMAIN printed} = {i \in Files : Searched(i) /\ grep[i].result = 0}
  /\ \A n \in DOMAIN printed : printed[n].lines = grep[printed[n].file].lines
  /\ temps = {i \in Files : grep[i].out = "open"}

NoOption == ~IsOption(command.pattern) /\ \A i \in Files : File(i).kind # "-y"

(* The lines found are those that match, in their order. An option among   *)
(* the files leaves open what matches; with one for the pattern nothing is *)
(* searched.                                                               *)
GrepReports ==
  Done =>
    /\ ReportedOnce
    /\ IsOption(command.pattern) => printed = <<>>
    /\ NoOption =>
         \A i \in Files : Searched(i) =>
           grep[i].lines = Selected(i) /\ (grep[i].result = 1 <=> Selected(i) = <<>>)

(* A line that matches looks as documented, and no line that looks so is   *)
(* missed when the pattern is anchored, begins with a star or has only one *)
(* element.                                                                *)
MatcherRight ==
  Done /\ ~IsOption(command.pattern) =>
    LET codes == prepSearchString(command.pattern, below, FALSE) IN
    \A i \in Files : \A n \in DOMAIN File(i).lines :
      LET line == File(i).lines[n] IN
      /\ patternMatch(codes, line) => Documented(command.pattern, line)
      /\ Complete(codes) /\ Documented(command.pattern, line) => patternMatch(codes, line)

(* Lines 94 to 105: grepMT looks for the pattern in the files, and prints  *)
(* the lines that contain it.                                              *)
LooksForPattern ==
  Done =>
    \A i \in Files : Searched(i) =>
      grep[i].lines = SelectSeq(Scanned(File(i)), LAMBDA line : Documented(command.pattern, line))
=============================================================================
