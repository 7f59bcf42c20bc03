CONSTANTS
  MaxClients = 2
  Clients = {c1, c2}
  NoSock = NoSock
  BufLen = 4
  MaxMessage = 6
  Batches <- SomeBatches
  Pipes = {p1, p2}
  Users = {u1, u2, u3}
  NoUser = NoUser
  MaxFailures = 2
SPECIFICATION Spec
INVARIANTS TypeOK DrainLeavesLateAccept MessagesFramed PipeServesOneClient StatusKnown
PROPERTIES SlotServesOneClient ServersSettle
CHECK_DEADLOCK FALSE
