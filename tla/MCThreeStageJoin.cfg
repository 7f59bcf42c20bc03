CONSTANTS
  Ids <- TwoIds
  Goal = 3
  TBlock = 3
  P2TQLen = 3
  T2RQLen = 2
  R2CQLen = 2
SPECIFICATION Spec
INVARIANTS ConsumersCompleted
