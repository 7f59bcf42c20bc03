CONSTANTS
  s1 = s1
  s2 = s2
  Shell = {s1, s2}
  Pid = {1, 2}
  Protected <- NoneProtected
  StartFiles <- MCStartFiles
  MaxCommands = 3
SPECIFICATION Spec
INVARIANT ListsAllJobs
CHECK_DEADLOCK FALSE
