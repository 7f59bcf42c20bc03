CONSTANTS
  Threads = {t1, t2, t3, t4}
  Sizes = {2, 3}
  Wrap = 5
  MaxThread = 3
  MaxTasks = 2
  MAX_OVERLP = 3
  REC_SIZE = 2
  Byte = 4
  FileSizes = {0, 1, 2, 3, 4, 5, 6, 7, 8, 9}
  RecordFiles <- SomeRecords
  MaxThreads = 4
  FileLists <- SomeFileLists
  Commands <- SomeCommands
  Belows = {"EOS", "ASTRSK"}
  MAXIMUM_WAIT_OBJECTS = 3
  Capacities = {2}
  MaxTorn = 1
  MaxWrapped = 1
  Pattern <- SomePattern
  Jobs <- SomeJobs
  LogLines <- SomeLogLines
  MaxLog = 4
  BUF_SIZE = 2
  MaxFileSize = 5
SPECIFICATION WorkersSpec
INVARIANTS WorkersTypeOK SleepersWoken CountsExact CopyConverted SortRight  MatchesRight
PROPERTY WorkersEnd
CHECK_DEADLOCK FALSE
