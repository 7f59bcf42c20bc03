CONSTANTS
  Wrap = 5
SPECIFICATION FairSpec
PROPERTIES StopEndsProgram
