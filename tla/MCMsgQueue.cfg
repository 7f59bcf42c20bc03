CONSTANTS
  p1 = p1
  p2 = p2
  g1 = g1
  g2 = g2
  m1 = m1
  m2 = m2
  Main = Main
  None = None
  Infinite = Infinite
  Putters <- TwoPutters
  Getters <- TwoGetters
  Joined <- AllUsersOfTwo
  Msgs <- TwoMsgs
  QSize = 3
  MaxWaits <- Waits
SPECIFICATION Spec
SYMMETRY Symmetry
INVARIANTS TypeOK StatusTruthful MutualExclusion
PROPERTIES ImplementsBoundedQueue
