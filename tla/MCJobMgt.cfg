CONSTANTS
  s1 = s1
  s2 = s2
  Shell = {s1, s2}
  Pid = {1, 2, 3}
  Protected <- MCProtected
  StartFiles <- MCStartFiles
  MaxCommands = 2
SPECIFICATION FairSeededSpec
INVARIANTS TypeOK JobKeepsItsNumber OneScanner
PROPERTY CommandsEnd
CHECK_DEADLOCK FALSE
