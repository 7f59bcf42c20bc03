CONSTANTS
  Pattern <- MCPattern
  Jobs <- MCJobs
  LogLines <- MCLogLines
  MaxLog = 3
SPECIFICATION Spec
INVARIANT OnlyWithResults
CHECK_DEADLOCK FALSE
