----------------------------- MODULE MCWorkers -----------------------------
(***************************************************************************)
(* The programs that share work among threads, overlap their input and     *)
(* output, or keep a file in order. They are separate: a behaviour is of   *)
(* the program chosen at the start, and the others stay as they are. This  *)
(* module extends the one of them that there are proofs about.             *)
(***************************************************************************)
EXTENDS CVQueue, FiniteSetsExt, SequencesExt

CONSTANTS
  Wrap, MaxThread, MaxTasks, MAX_OVERLP, REC_SIZE, Byte, FileSizes,
  RecordFiles, MaxThreads, FileLists, Commands, Belows, Capacities, MaxTorn, MaxWrapped,
  MAXIMUM_WAIT_OBJECTS, Pattern, Jobs, LogLines, MaxLog,
  BUF_SIZE, MaxFileSize

VARIABLES
  program,
  mBlock, produce, consume, replaced,
  sharesMutex, nThread, tasksPerThread, lock, worker, tasksComplete, totalTasksComplete, ending,
  extended, fileSize, shift, operation, nBytes, offset, offsetOut, rawRec, ccRec, output, nDone,
  input, pRecords, numFiles, resumed, sorter, twoToi, sortAt, fault,
  files, iFile, NoPrint, sortbtAt, hNode, report,
  command, below, gArg, tHandle, threadCount, grep, ignoreCase, printed, temps, wild,
  disk, header, record, accessAt, headerChange, torn, wrapped,
  obtask, log, opened, lineNumber, needLenSize, threadID, request, shown, exitResult,
  dwFileSize, Offset, bContinue, io, dwBytesRead, pieces

pcVars == <<mBlock, produce, consume, replaced>>
wkVars == <<sharesMutex, nThread, tasksPerThread, lock, worker, tasksComplete,
            totalTasksComplete, ending>>
ovVars == <<extended, fileSize, shift, operation, nBytes, offset, offsetOut, rawRec,
            ccRec, output, nDone>>
smVars == <<input, pRecords, numFiles, resumed, sorter, twoToi, sortAt, fault>>
btVars == <<files, iFile, NoPrint, sortbtAt, hNode, report>>
gmVars == <<command, below, gArg, tHandle, threadCount, grep, ignoreCase, printed, temps, wild>>
raVars == <<disk, header, record, accessAt, headerChange, torn, wrapped>>
ltVars == <<obtask, log, opened, lineNumber, needLenSize, threadID, request, shown, exitResult>>
arVars == <<dwFileSize, Offset, bContinue, io, dwBytesRead, pieces>>

vars == <<program, cvVars, pcVars, wkVars, ovVars, smVars, btVars, gmVars, raVars, ltVars, arVars>>

(* A DWORD and a byte have more than one value; the bounds and the keys    *)
(* are numbers, the tag of a record is its place in the file, and a        *)
(* command line names files of characters in lines.                        *)
ASSUME WorkersAssumption ==
  /\ {Wrap, Byte} \subseteq Nat \ {0, 1}
  /\ {MAX_OVERLP, REC_SIZE, BUF_SIZE} \subseteq Nat \ {0}
  /\ FileSizes \subseteq Nat /\ Capacities \subseteq Nat
  /\ RecordFiles \subseteq Seq(Nat)
  /\ FileLists \subseteq Seq([exists : BOOLEAN, records : Seq([key : Nat, tag : Nat])])
  /\ \A fs \in FileLists : \A i \in DOMAIN fs : \A j \in DOMAIN fs[i].records :
       fs[i].records[j].tag = j
  /\ \A c \in Commands :
       c.files \in Seq([kind : STRING, lines : Seq(Seq(STRING)), terminated : BOOLEAN])
  /\ {MaxThread, MaxTasks, MaxThreads, MaxLog, MaxTorn, MaxWrapped,
      MaxFileSize, MAXIMUM_WAIT_OBJECTS} \subseteq Nat

-----------------------------------------------------------------------------
(* The inputs. Keys for four threads, evenly divided or not. *)
SomeRecords == UNION {[1 .. n -> 1 .. 2] : n \in 0 .. 4}
                 \cup {<<2, 1, 2, 1, 2>>, <<6, 5, 4, 3, 2, 1>>, <<2, 1, 1, 2, 2, 1, 1, 2>>}

(* A file that may be missing, and one more. *)
Tagged(keys) == [i \in DOMAIN keys |-> [key |-> keys[i], tag |-> i]]
SomeFileLists ==
  {<<[exists |-> e, records |-> Tagged(keys)], [exists |-> TRUE, records |-> Tagged(<<2, 1, 2>>)]>> :
     e \in BOOLEAN, keys \in UNION {[1 .. n -> 1 .. 3] : n \in 0 .. 4}}

(* For the matcher all patterns of up to two elements, some of three and   *)
(* one file of many lines; for the threads one pattern and files of every  *)
(* kind, an option for the pattern, and one file too many to wait for.     *)
Elements == {<<"a">>, <<"b">>, <<"*">>, <<"?">>, <<"[", "a", "]">>, <<"[", "a", "b", "]">>,
             <<"\\", "*">>}
Patterns ==
  LET P == {FlattenSeq(e) : e \in UNION {[1 .. n -> Elements] : n \in 0 .. 2}}
             \cup [1 .. 3 -> {"a", "b", "*"}]
  IN P \cup {<<"^">> \o p : p \in P}
Lines ==
  FoldSet(LAMBDA line, lines : Append(lines, line), <<>>,
          UNION {[1 .. n -> {"a", "b"}] : n \in 0 .. 3} \cup {<<"a", "*">>, <<"a", "*", "b">>})
Text(lines, terminated) == [kind |-> "text", lines |-> lines, terminated |-> terminated]
Other(kind) == [kind |-> kind, lines |-> <<>>, terminated |-> TRUE]
SomeFiles == {Text(<<<<"a">>, <<"A">>>>, FALSE), Text(<<<<"b">>, <<"b", "a">>>>, TRUE),
              Other("missing"), Other("-y")}
FullFile == Text(<<<<"A">>, <<"b">>>>, TRUE)
SomeCommands ==
  {[pattern |-> p, files |-> <<Text(Lines, TRUE)>>] : p \in Patterns}
    \cup {[pattern |-> <<"A">>, files |-> fs] :
            fs \in [1 .. 2 -> SomeFiles] \cup {<<FullFile, f, FullFile>> : f \in SomeFiles}}
    \cup {[pattern |-> <<"-", "y">>, files |-> <<f, FullFile>>] : f \in SomeFiles}
    \cup {[pattern |-> <<"A">>, files |-> [i \in 1 .. 4 |-> Other("missing")]]}

(* Requests and numbers of results of two threads, an answer of thread 2   *)
(* that has a 1 in it and a line that is an answer and a request.          *)
SomePattern == <<"s">>
SomeJobs == <<"r">>
SomeLogLines == {<<"1", "s">>, <<"2", "s">>, <<"1", "r">>, <<"2", "r", "1">>, <<"1", "r", "s">>}

PC == INSTANCE SimplePC
WK == INSTANCE WorkCounters
OV == INSTANCE Overlapped
SM == INSTANCE SortMT
BT == INSTANCE SortTree
GM == INSTANCE GrepMT
RA == INSTANCE RecordAccess
LT == INSTANCE LogTask
AR == INSTANCE AsyncRead

(* A line of a log is made of characters, and its first is a thread number. *)
ASSUME LogAssumption ==
  /\ LogLines \subseteq Seq(STRING)
  /\ \A line \in LogLines : line # <<>> /\ line[1] \notin LT!Metacharacters

-----------------------------------------------------------------------------
Programs == {"QueueObjCV", "simplePC", "stats", "cci", "sortMT", "sortbt", "grepMT",
             "RecordAccess", "obtask", "splitf"}

(* The inputs of the other programs are fixed. *)
WorkersInit ==
  /\ program \in Programs
  /\ program # "QueueObjCV" => qSize = Min(Sizes)
  /\ program # "stats" => sharesMutex = TRUE /\ nThread = 1 /\ tasksPerThread = 0
  /\ program # "cci" => extended = FALSE /\ fileSize = 0 /\ shift = 1
  /\ program # "sortMT" => input = <<>> /\ numFiles = 1
  /\ program # "sortbt" => files = (CHOOSE fs \in FileLists : TRUE) /\ NoPrint = TRUE
  /\ program # "grepMT" => command = (CHOOSE c \in Commands : TRUE) /\ below = "EOS"
  /\ program # "obtask" => obtask = FALSE /\ log = <<>> /\ opened = FALSE
  /\ program # "splitf" => dwFileSize = 0
  /\ Init /\ PC!Init /\ WK!Init /\ OV!Init /\ SM!Init
  /\ BT!Init /\ GM!Init /\ RA!Init /\ LT!Init /\ AR!Init

InCV == program = "QueueObjCV" /\ UNCHANGED <<program, pcVars, wkVars, ovVars, smVars, btVars, gmVars, raVars, ltVars, arVars>>
InPC == program = "simplePC" /\ UNCHANGED <<program, cvVars, wkVars, ovVars, smVars, btVars, gmVars, raVars, ltVars, arVars>>
InWK == program = "stats" /\ UNCHANGED <<program, cvVars, pcVars, ovVars, smVars, btVars, gmVars, raVars, ltVars, arVars>>
InOV == program = "cci" /\ UNCHANGED <<program, cvVars, pcVars, wkVars, smVars, btVars, gmVars, raVars, ltVars, arVars>>
InSM == program = "sortMT" /\ UNCHANGED <<program, cvVars, pcVars, wkVars, ovVars, btVars, gmVars, raVars, ltVars, arVars>>
InBT == program = "sortbt" /\ UNCHANGED <<program, cvVars, pcVars, wkVars, ovVars, smVars, gmVars, raVars, ltVars, arVars>>
InGM == program = "grepMT" /\ UNCHANGED <<program, cvVars, pcVars, wkVars, ovVars, smVars, btVars, raVars, ltVars, arVars>>
InRA == program = "RecordAccess" /\ UNCHANGED <<program, cvVars, pcVars, wkVars, ovVars, smVars, btVars, gmVars, ltVars, arVars>>
InLT == program = "obtask" /\ UNCHANGED <<program, cvVars, pcVars, wkVars, ovVars, smVars, btVars, gmVars, raVars, arVars>>
InAR == program = "splitf" /\ UNCHANGED <<program, cvVars, pcVars, wkVars, ovVars, smVars, btVars, gmVars, raVars, ltVars>>

(* The programs that end by themselves. *)
Ending ==
  \/ InWK /\ WK!Next
  \/ InOV /\ OV!Next
  \/ InSM /\ SM!Next
  \/ InBT /\ BT!Next
  \/ InGM /\ GM!Next
  \/ InLT /\ LT!Next
  \/ InAR /\ AR!Next

WorkersNext ==
  \/ Ending
  \/ InCV /\ Next
  \/ InPC /\ PC!Next
  \/ InRA /\ RA!Next

(* Consume needs the critical section, which Produce takes again and again. *)
Fairness ==
  /\ WF_vars(Ending)
  /\ WF_vars(InPC /\ PC!Produce)
  /\ SF_vars(InPC /\ PC!Consume)

WorkersSpec == WorkersInit /\ [][WorkersNext]_vars /\ Fairness

-----------------------------------------------------------------------------
(* Every variable of the programs stays within its type. *)
WorkersTypeOK ==
  CASE program = "QueueObjCV" -> TypeOK
    [] program = "simplePC" -> PC!TypeOK
    [] program = "stats" -> WK!TypeOK
    [] program = "cci" -> OV!TypeOK
    [] program = "sortMT" -> SM!TypeOK
    [] program = "sortbt" -> BT!TypeOK
    [] program = "grepMT" -> GM!TypeOK
    [] program = "RecordAccess" -> RA!TypeOK
    [] program = "obtask" -> LT!TypeOK
    [] program = "splitf" -> AR!TypeOK

(* simplePC and the stats programs: what is counted is what was done. In   *)
(* RecordAccess crashes between the two writes leave the header off by no  *)
(* more than their number.                                                 *)
CountsExact ==
  /\ program = "simplePC" => PC!CountsExact
  /\ program = "stats" => WK!TotalRight
  /\ program = "RecordAccess" => RA!CountAfterCrash

(* cciOV and cciEX write the whole file, each byte shifted once, and the   *)
(* overlapped reads of splitf cover the file.                              *)
CopyConverted ==
  /\ program = "cci" => OV!CopyConverted
  /\ program = "splitf" => AR!WholeFileRead

(* sortMT prints the records in order though main waits for one thread     *)
(* only, and sortbt keeps records with equal keys in the order of the file. *)
SortRight ==
  /\ program = "sortMT" => SM!SortRight
  /\ program = "sortbt" => BT!TreeSorted

(* grepMT prints the matching lines of each file once, under its name, in  *)
(* whatever order the threads end, and obtask pairs requests and answers   *)
(* by thread.                                                              *)
GrepReports ==
  /\ program = "grepMT" => GM!GrepReports
  /\ program = "obtask" => LT!TasksPaired

(* The matcher of grepMT accepts what is documented.                       *)
MatchesRight == program = "grepMT" => GM!MatcherRight

Ended ==
  CASE program = "stats" -> ending > nThread
    [] program = "cci" -> OV!AllCopied
    [] program = "sortMT" -> fault \/ sortAt = "print"
    [] program = "sortbt" -> iFile > Len(files)
    [] program = "grepMT" ->
         IF Len(command.files) > MAXIMUM_WAIT_OBJECTS THEN wild ELSE threadCount = 0
    [] program = "obtask" -> ~opened \/ lineNumber = Len(log)
    [] program \in {"QueueObjCV", "simplePC", "RecordAccess", "splitf"} -> TRUE

(* The programs that work on files end, but for a grepMT with more files   *)
(* than it can wait for; stopped by the user, so does the producer of      *)
(* simplePC; and splitf ends unless its reads fail again and again or are  *)
(* all pending behind the end of the file.                                 *)
WorkersEnd == <>Ended /\ PC!StopEndsBoth /\ (program = "splitf" => AR!AsyncReadEnds)
=============================================================================
