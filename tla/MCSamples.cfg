CONSTANTS
  Wrap = 5
  t1 = t1
  t2 = t2
  t3 = t3
  Closer = Closer
  None = None
  Waiters <- ThreeThreads
  Threshold = 3
  MaxCalls = 2
SPECIFICATION SamplesSpec
INVARIANTS TypeOK DisplayedOnceAndWhole ReadyIsAnnounced BarrierTypeOK ClosedGateIsOpen
PROPERTIES LostCountExact ConsumeCompletes ImplementsBarrier BarrierOpens
