CONSTANTS
  p1 = p1
  p2 = p2
  g1 = g1
  g2 = g2
  m1 = m1
  m2 = m2
  Main = Main
  None = None
  Infinite = Infinite
  Putters <- TwoPutters
  Getters <- OneGetter
  Joined <- PuttersJoined
  Msgs <- OneMsg
  QSize = 2
  MaxWaits <- LongWaits
SPECIFICATION FairSpec
INVARIANTS NoSuccessAfterDestroy
PROPERTIES LostPulseHarmless TimedCallReturns
