CONSTANTS
  Commands <- MCCommands
  Belows = {"EOS"}
  MAXIMUM_WAIT_OBJECTS = 64
SPECIFICATION Spec
INVARIANT LooksForPattern
CHECK_DEADLOCK FALSE
