CONSTANTS
  Ids <- TwoIds
  Goal = 6
  TBlock = 3
  P2TQLen = 3
  T2RQLen = 2
  R2CQLen = 2
SPECIFICATION FairSpec
INVARIANTS TypeOK NothingLostOrReordered StagesEndWithTheirInput
PROPERTIES ProducersFinish GoalsReached
